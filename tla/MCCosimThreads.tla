--------------------------- MODULE MCCosimThreads ---------------------------
(***************************************************************************)
(* What passes between the thread of the ISS and the thread of Run, in two *)
(* questions by the value of focus: the epochs, with the priority queue    *)
(* and the ring of delays, and the lock-free queue of device accesses.     *)
(* The queue is one block of four slots (maxSize 3) that grows, or five    *)
(* blocks of two slots (maxSize 4).                                        *)
(***************************************************************************)
EXTENDS MCMainMemCosim, ReaderWriterQueue

VARIABLE focus
threadVars == <<focus, vars, queueVars>>

MCMaxSizes == {3, 4}

\* The part that is not in focus stays in one of its initial states.
ThreadsInit == /\ focus \in {"epochs", "queue"} /\ Init /\ QueueInit
               /\ focus = "epochs" => maxSize = 3
               /\ focus = "queue" => focusOnROI
ThreadsNext == \/ focus = "epochs" /\ Next /\ UNCHANGED <<focus, queueVars>>
               \/ focus = "queue" /\ QueueNext /\ UNCHANGED <<focus, vars>>
ThreadsSpec == ThreadsInit /\ [][ThreadsNext]_threadVars
=============================================================================
