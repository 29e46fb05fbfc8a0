----------------------------- MODULE FifoQueue -----------------------------
(***************************************************************************)
(* What a queue between one producer and one consumer promises: what was   *)
(* put in comes out once, in order; looking at the front changes nothing.  *)
(***************************************************************************)
EXTENDS Sequences

CONSTANT Element

VARIABLES queue,  \* what is in the queue
          result  \* what the last successful dequeue delivered
vars == <<queue, result>>

Init == queue = <<>> /\ result \notin Element

Enqueue(e) == queue' = Append(queue, e) /\ UNCHANGED result

Dequeue ==
  /\ queue # <<>>
  /\ queue' = Tail(queue)
  /\ result' = Head(queue)

\* pop: the element is dropped, not delivered.
Drop == queue # <<>> /\ queue' = Tail(queue) /\ UNCHANGED result

Next == (\E e \in Element : Enqueue(e)) \/ Dequeue \/ Drop

Spec == Init /\ [][Next]_vars
=============================================================================
