-------------------------- MODULE MCCosimProgress ---------------------------
(***************************************************************************)
(* Two simulators that wait for each other, in two questions by the value  *)
(* of focus: the ISS and Run, which share epochs in one process, and two   *)
(* processes that share an address range and an interrupt over sockets.    *)
(* Of what mResponse may hold before the first answer, an instance starts  *)
(* with a success or an error.                                             *)
(***************************************************************************)
EXTENDS MCMainMemCosim, RemoteLink

VARIABLE focus
progressVars == <<focus, vars, remoteVars>>

MCAddress == {1, 2}
MCMapped == {1}
MCValue == {0, 1}

\* The part that is not in focus stays in one of its initial states.
ProgressInit ==
  /\ focus \in {"epochs", "sockets"} /\ Init /\ RemoteInit
  /\ mResponse.type \in {"READ_OK", "WRITE_ERR"} /\ ~mResponse.large
  /\ focus = "epochs" => mResponse.type = "READ_OK"
  /\ focus = "sockets" => focusOnROI
ProgressNext ==
  \/ focus = "epochs" /\ Next /\ UNCHANGED <<focus, remoteVars>>
  \/ focus = "sockets" /\ RemoteNext /\ UNCHANGED <<focus, vars>>

\* What is fair of the part in focus; the sockets have no fair step in their
\* initial states.
ProgressFairness ==
  /\ WF_vars(focus = "epochs" /\ IssStep) /\ WF_vars(focus = "epochs" /\ RunStep)
  /\ RemoteFairness
ProgressSpec == ProgressInit /\ [][ProgressNext]_progressVars /\ ProgressFairness
=============================================================================
