------------------------------ MODULE AddrSpace ------------------------------
(***************************************************************************)
(* Address spaces (src/core/AddrSpace.cpp): closed, non-empty intervals of *)
(* addresses.                                                              *)
(***************************************************************************)
EXTENDS Integers, Sequences, FiniteSetsExt

CONSTANT MaxAddr       \* last address of AddrSpace::maxRange

Addr == 0 .. MaxAddr
AddrSpaces == {as \in [base : Addr, end : Addr] : as.base <= as.end}
maxRange == [base |-> 0, end |-> MaxAddr]

Within(a, as) == as.base <= a /\ a <= as.end
intersect(as, that) == as.base <= that.end /\ as.end >= that.base

intersection(as, that) ==
    [base |-> Max({as.base, that.base}), end |-> Min({as.end, that.end})]

relativeComplement(as, that) ==
    (IF as.base < that.base THEN <<[base |-> as.base, end |-> that.base - 1]>> ELSE <<>>)
    \o (IF as.end > that.end THEN <<[base |-> that.end + 1, end |-> as.end]>> ELSE <<>>)
=============================================================================
