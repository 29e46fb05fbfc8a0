----------------------------- MODULE RemoteLink -----------------------------
(***************************************************************************)
(* Two simulations joined by sockets (RemoteTransaction.hpp).  The local   *)
(* one has a RemoteTarget: an access of its CPU becomes a request on one   *)
(* stream, and the whole process waits in read() for the answer.  The      *)
(* remote one has a RemoteInitiator: it polls for requests, performs them  *)
(* on its own bus and answers; what its interrupt lines do goes to the     *)
(* local side on a second stream, one message at a poll.                   *)
(*                                                                         *)
(* A step is one read or write of a stream, with the work before the next  *)
(* one.  A stream (external) delivers what was written, in order; each     *)
(* write arrives as a whole.  Data beyond PREALLOC_SIZE bytes is a message *)
(* of its own, behind the request or the answer: a datum has a head and,   *)
(* when it is large, a tail.  The remote process may die at any moment:    *)
(* read() then fails, or returns 0, which the code takes for an answer.    *)
(***************************************************************************)
EXTENDS Naturals, Sequences

CONSTANTS
  Address, Mapped,   \* what the local CPU accesses, and what the remote bus answers for
  Value,             \* what is written
  IrqCapacity,       \* interrupt messages the stream holds before write() waits
  MaxAccesses,       \* bound: accesses of the local CPU
  MaxIrqs            \* bound: changes of the remote interrupt line

ASSUME RemoteAssumption ==
  /\ Mapped \subseteq Address /\ 0 \in Value
  /\ IrqCapacity \in Nat \ {0} /\ MaxAccesses \in Nat /\ MaxIrqs \in Nat

VARIABLES
  lpc, mRequest, mResponse, \* the local side: where it is, its request and the answer
  buffer, status,           \* what the CPU reads, and what the access returned
  lline,                    \* the interrupt line the local side drives
  rpc, trans, mem, rline,   \* the remote side: the request it serves, its memory, its line
  requests, answers, irqs,  \* what is in the streams
  performed,                \* history: what the remote side did last
  eof,                      \* history: read() returned 0 and the code went on
  accesses, changes         \* counts

localVars == <<lpc, mRequest, mResponse, buffer, status, eof, accesses>>
farVars == <<rpc, trans, mem, performed>>
remoteVars == <<localVars, lline, farVars, rline, requests, answers, irqs, changes>>

ResponseType == {"READ_OK", "READ_ERR", "WRITE_OK", "WRITE_ERR"}
Request == [type : {"READ", "WRITE"}, addr : Address, large : BOOLEAN, head : Value]
Response == [type : ResponseType, large : BOOLEAN, head : Value]
NoRequest == [type |-> "none"]

\* mResponse is not initialised.
RemoteInit ==
  /\ lpc = "run" /\ mRequest = NoRequest /\ mResponse \in Response /\ mResponse.head = 0
  /\ buffer = <<0, 0>> /\ status = "none" /\ lline = 0
  /\ rpc = "run" /\ trans = NoRequest /\ mem = [a \in Mapped |-> <<0, 0>>] /\ rline = 0
  /\ requests = <<>> /\ answers = <<>> /\ irqs = <<>>
  /\ performed = NoRequest /\ eof = FALSE /\ accesses = 0 /\ changes = 0

-----------------------------------------------------------------------------
(* The local side. *)

\* write() on the stream of requests: when the remote process is gone it may still
\* succeed, fail, or end this process.
Submit(message, then) ==
  \/ rpc # "dead" /\ requests' = Append(requests, message) /\ lpc' = then /\ UNCHANGED status
  \/ rpc = "dead" /\ lpc' = then /\ UNCHANGED <<status, requests>>
  \/ rpc = "dead" /\ lpc' = "run" /\ status' = "failed" /\ UNCHANGED requests
  \/ rpc = "dead" /\ lpc' = "killed" /\ UNCHANGED <<status, requests>>

\* remoteRead and remoteWrite: the request.
remoteAccess(r) ==
  /\ lpc = "run" /\ accesses < MaxAccesses
  /\ accesses' = accesses + 1 /\ mRequest' = r
  /\ Submit(r, IF r.type = "WRITE" /\ r.large THEN "sendTail" ELSE "await")
  /\ UNCHANGED <<mResponse, buffer, eof, lline, farVars, rline, answers, irqs, changes>>

\* The tail of what is written, under the datum's number.
sendTail ==
  /\ lpc = "sendTail"
  /\ Submit([type |-> "tail", head |-> mRequest.head], "await")
  /\ UNCHANGED <<mRequest, mResponse, buffer, eof, accesses, lline, farVars, rline, answers,
                 irqs, changes>>

\* read() fails: the access returns -1.
Failed == answers = <<>> /\ rpc = "dead" /\ lpc' = "run" /\ status' = "failed"

\* The answer as it is in mResponse after read(): the message, or what was there
\* before when the stream has ended.
Taken ==
  \/ answers # <<>> /\ mResponse' = Head(answers) /\ answers' = Tail(answers) /\ UNCHANGED eof
  \/ answers = <<>> /\ rpc = "dead" /\ eof' = TRUE /\ UNCHANGED <<mResponse, answers>>

\* Mutant of takeAnswer: the tail of what is read stays in the stream.
takeAnswerShort ==
  /\ lpc = "await" /\ Taken
  /\ lpc' = "run" /\ status' = mResponse'.type
  /\ buffer' = IF mResponse'.type = "READ_OK" THEN [buffer EXCEPT ![1] = mResponse'.head] ELSE buffer
  /\ UNCHANGED <<mRequest, accesses, lline, farVars, rline, requests, irqs, changes>>

takeAnswer ==
  /\ lpc = "await"
  /\ \/ Failed /\ UNCHANGED <<mResponse, buffer, eof, answers>>
     \/ /\ Taken /\ mRequest.type = "READ" /\ mResponse'.type = "READ_OK"
        /\ buffer' = [buffer EXCEPT ![1] = mResponse'.head]
        /\ \/ mResponse'.large /\ lpc' = "awaitTail" /\ UNCHANGED status
           \/ ~mResponse'.large /\ lpc' = "run" /\ status' = mResponse'.type
     \/ /\ Taken /\ ~(mRequest.type = "READ" /\ mResponse'.type = "READ_OK")
        /\ lpc' = "run" /\ status' = mResponse'.type /\ UNCHANGED buffer
  /\ UNCHANGED <<mRequest, accesses, lline, farVars, rline, requests, irqs, changes>>

takeTail ==
  /\ lpc = "awaitTail"
  /\ \/ Failed /\ UNCHANGED <<buffer, eof, answers>>
     \/ /\ answers # <<>> /\ answers' = Tail(answers)
        /\ lpc' = "run" /\ status' = mResponse.type
        /\ buffer' = [buffer EXCEPT ![2] = Head(answers).head] /\ UNCHANGED eof
     \/ /\ answers = <<>> /\ rpc = "dead" /\ eof' = TRUE
        /\ lpc' = "run" /\ status' = mResponse.type /\ UNCHANGED <<buffer, answers>>
  /\ UNCHANGED <<mRequest, mResponse, accesses, lline, farVars, rline, requests, irqs, changes>>

\* Mutant of rtPoll: a message that lowers the line is taken and not applied.
rtPollRaise ==
  /\ lpc = "run" /\ irqs # <<>>
  /\ lline' = IF Head(irqs) = 1 THEN 1 ELSE lline
  /\ irqs' = Tail(irqs)
  /\ UNCHANGED <<localVars, farVars, rline, requests, answers, changes>>

\* rtPoll: one interrupt message at a poll, when the process is not in an access.
\* At the end of the stream the message is uninitialised: a line that is not
\* ours ends the process, ours is driven at random.
rtPoll ==
  /\ lpc = "run"
  /\ \/ irqs # <<>> /\ lline' = Head(irqs) /\ irqs' = Tail(irqs) /\ UNCHANGED lpc
     \/ irqs = <<>> /\ rpc = "dead" /\ lline' \in {0, 1} /\ UNCHANGED <<irqs, lpc>>
     \/ irqs = <<>> /\ rpc = "dead" /\ lpc' = "killed" /\ UNCHANGED <<irqs, lline>>
  /\ UNCHANGED <<mRequest, mResponse, buffer, status, eof, accesses, farVars, rline, requests,
                 answers, changes>>

-----------------------------------------------------------------------------
(* The remote side. *)

\* poll: the request.  mFree holds: the access below ends before the next poll.
\* What is neither a read nor a write is thrown, and ends the process.
takeRequest ==
  /\ rpc = "run" /\ requests # <<>>
  /\ trans' = Head(requests) /\ requests' = Tail(requests)
  /\ rpc' = IF trans'.type = "WRITE" /\ trans'.large THEN "readTail"
            ELSE IF trans'.type \in {"READ", "WRITE"} THEN "access" ELSE "dead"
  /\ UNCHANGED <<localVars, lline, mem, performed, rline, answers, irqs, changes>>

readTail ==
  /\ rpc = "readTail" /\ requests # <<>>
  /\ trans' = [type |-> trans.type, addr |-> trans.addr, large |-> TRUE, head |-> trans.head,
               tail |-> Head(requests).head]
  /\ requests' = Tail(requests) /\ rpc' = "access"
  /\ UNCHANGED <<localVars, lline, mem, performed, rline, answers, irqs, changes>>

\* What the access of the remote bus leaves at the address, if it is mapped.
Datum ==
  IF trans.type = "READ" THEN mem[trans.addr]
  ELSE IF trans.large THEN <<trans.head, trans.tail>>
  ELSE [mem[trans.addr] EXCEPT ![1] = trans.head]

\* localRead and localWrite with completeRead and completeWrite: the access and the
\* answer, which has a tail when it brings a large datum.
localAccess ==
  /\ rpc = "access"
  /\ \/ /\ trans.addr \in Mapped
        /\ mem' = [mem EXCEPT ![trans.addr] = Datum]
        /\ LET done == IF trans.type = "READ" THEN "READ_OK" ELSE "WRITE_OK"
               tailed == trans.type = "READ" /\ trans.large
           IN /\ answers' = Append(answers, [type |-> done, large |-> tailed,
                                         head |-> IF trans.type = "READ" THEN Datum[1] ELSE 0])
              /\ performed' = [type |-> done, addr |-> trans.addr, datum |-> Datum]
              /\ rpc' = IF tailed THEN "answerTail" ELSE "run"
     \/ /\ trans.addr \notin Mapped
        /\ LET done == IF trans.type = "READ" THEN "READ_ERR" ELSE "WRITE_ERR"
           IN /\ answers' = Append(answers, [type |-> done, large |-> FALSE, head |-> 0])
              /\ performed' = [type |-> done, addr |-> trans.addr]
        /\ rpc' = "run" /\ UNCHANGED mem
  /\ UNCHANGED <<localVars, lline, trans, rline, requests, irqs, changes>>

answerTail ==
  /\ rpc = "answerTail" /\ rpc' = "run"
  /\ answers' = Append(answers, [type |-> "tail", head |-> mem[trans.addr][2]])
  /\ UNCHANGED <<localVars, lline, trans, mem, performed, rline, requests, irqs, changes>>

\* update_irq and interrupt: a device of the remote side drives the line, between accesses or
\* because of one; the message waits for room in the stream, and the process with it.
interrupt(value) ==
  /\ rpc \in {"run", "access"} /\ changes < MaxIrqs
  /\ changes' = changes + 1 /\ rline' = value
  /\ \/ Len(irqs) < IrqCapacity /\ irqs' = Append(irqs, value) /\ UNCHANGED rpc
     \/ /\ Len(irqs) = IrqCapacity /\ UNCHANGED irqs
        /\ rpc' = IF rpc = "run" THEN "runIrq" ELSE "accessIrq"
  /\ UNCHANGED <<localVars, lline, trans, mem, performed, requests, answers>>

writeIrq ==
  /\ rpc \in {"runIrq", "accessIrq"} /\ Len(irqs) < IrqCapacity
  /\ irqs' = Append(irqs, rline)
  /\ rpc' = IF rpc = "runIrq" THEN "run" ELSE "access"
  /\ UNCHANGED <<localVars, lline, trans, mem, performed, rline, requests, answers, changes>>

\* The remote process ends.
RemoteDies ==
  /\ rpc # "dead" /\ rpc' = "dead"
  /\ UNCHANGED <<localVars, lline, trans, mem, performed, rline, requests, answers, irqs, changes>>

-----------------------------------------------------------------------------
\* The local side waits for an answer the remote side cannot give before the local
\* side takes an interrupt message: each waits for the other, for ever.
Wedged ==
  /\ lpc \in {"await", "awaitTail"} /\ answers = <<>>
  /\ rpc \in {"runIrq", "accessIrq"} /\ Len(irqs) = IrqCapacity

\* Nothing more happens: the two wait for each other, the local process has ended, or
\* the bounds are used up.
RemoteStopped ==
  /\ \/ Wedged
     \/ lpc = "killed"
     \/ lpc = "run" /\ accesses = MaxAccesses
  /\ UNCHANGED remoteVars

localStep == sendTail \/ takeAnswer \/ takeTail \/ rtPoll
farStep == takeRequest \/ readTail \/ localAccess \/ answerTail \/ writeIrq

\* A read carries no datum of its own.
RemoteNext ==
  \/ \E r \in Request : (r.type = "READ" => r.head = 0) /\ remoteAccess(r)
  \/ \E v \in {0, 1} : interrupt(v)
  \/ localStep \/ farStep \/ RemoteDies \/ RemoteStopped

\* Both processes are scheduled by their systems, and their polling threads by their
\* SystemC kernels.
RemoteFairness == WF_remoteVars(localStep) /\ WF_remoteVars(farStep)

RemoteSpec == RemoteInit /\ [][RemoteNext]_remoteVars /\ RemoteFairness

-----------------------------------------------------------------------------
\* The states of the two processes, and no stream ever holds more than one message with
\* its tail, or more interrupts than fit (RemoteTransaction.hpp).
RemoteTypeOK ==
  /\ lpc \in {"run", "sendTail", "await", "awaitTail", "killed"}
  /\ rpc \in {"run", "readTail", "access", "answerTail", "runIrq", "accessIrq", "dead"}
  /\ mRequest \in Request \cup {NoRequest} /\ mResponse \in Response
  /\ buffer \in Value \X Value /\ status \in ResponseType \cup {"none", "failed"}
  /\ mem \in [Mapped -> Value \X Value] /\ lline \in {0, 1} /\ rline \in {0, 1}
  /\ Len(requests) <= 2 /\ Len(answers) <= 2 /\ Len(irqs) <= IrqCapacity

\* What an access of the local CPU returned is what the remote bus did last: the
\* status, for that address, and the datum that was read or written, head and tail
\* (RemoteTransaction.hpp, remoteRead and remoteWrite).  Excepted is what the code
\* makes of the end of the stream: it takes the answer before last for the answer.
AnswersMatch ==
  lpc = "run" /\ status \in ResponseType /\ ~eof =>
    /\ performed.type = status /\ performed.addr = mRequest.addr
    /\ status = "READ_OK" => \A i \in IF mRequest.large THEN {1, 2} ELSE {1} :
                               buffer[i] = performed.datum[i]
    /\ status = "WRITE_OK" => \A i \in IF mRequest.large THEN {1, 2} ELSE {1} :
                               performed.datum[i] = mRequest.head

\* Between two accesses nothing is left in the streams of requests and answers: no
\* message is ever taken for a later one (GenericRemoteInitiator::poll,
\* GenericRemoteTarget::remoteRead).
StreamsInStep == lpc = "run" /\ rpc # "dead" => requests = <<>> /\ answers = <<>>

\* Requests, answers and their tails stay matched over any sequence of accesses,
\* interrupts and the death of the remote process (RemoteTransaction.hpp).
LinkInStep == RemoteTypeOK /\ AnswersMatch /\ StreamsInStep

\* An access of the local CPU ends, even if the remote process dies during it; the
\* one thing that keeps it is the remote process waiting to write an interrupt
\* (GenericRemoteInitiator::interrupt).
AccessEnds == lpc \in {"sendTail", "await", "awaitTail"} ~> lpc \in {"run", "killed"} \/ Wedged

\* The local interrupt line ends where the remote one is, however many changes the
\* stream held (GenericRemoteTarget::poll takes one at a time).
LineCatchesUp == <>[](lline = rline \/ rpc = "dead" \/ Wedged)

\* Neither direction of the link stops for ever: accesses end, interrupts arrive
\* (GenericRemoteTarget and GenericRemoteInitiator).
LinkGoesOn == AccessEnds /\ LineCatchesUp
=============================================================================
