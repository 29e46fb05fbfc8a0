--------------------------- MODULE ModuleParameters ---------------------------
(***************************************************************************)
(* Values of the parameters of modules and how two of them combine         *)
(* (src/core/vpsimModule/moduleParameters.cpp).  kind "bt" is blocking TLM *)
(* (0 disabled, 1 enabled), kind "delay" an approximate delay.             *)
(***************************************************************************)
EXTENDS AddrSpace

NoValue == -1                                  \* no parameter for an address
DefaultBlocking == 1                           \* BT_ENABLED

Plus(k, v, w) == IF k = "bt" THEN Max({v, w}) ELSE v + w

(* The < of delays is reversed: the greater of two is the shorter one.     *)
MaxParam(k, v, w) == IF k = "bt" THEN Max({v, w}) ELSE Min({v, w})

(* Two sets of parameters address by address: op decides where both speak. *)
ByAddress(f, g, op(_, _)) ==
    [a \in Addr |-> IF f[a] = NoValue THEN g[a]
                    ELSE IF g[a] = NoValue THEN f[a] ELSE op(f[a], g[a])]
=============================================================================
