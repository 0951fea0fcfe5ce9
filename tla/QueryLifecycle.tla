---------------------------- MODULE QueryLifecycle ----------------------------
(***************************************************************************)
(* What the backend promises about a SQL Lab query, seen from outside: the *)
(* status and the results key shown by its row, while the request or the   *)
(* worker that own the row are still at work (phase "open") and after      *)
(* that ("over").  It leaves out statements, sessions and connections.     *)
(* SqlLabQuery implements it; SqlLabUI is built on it.                     *)
(***************************************************************************)
CONSTANT Queries

VARIABLES
  phase,    \* "absent", "open" or "over"
  shown,    \* the status in the row
  key,      \* does the row name results?
  stopping  \* is a stop request between its read and its write?

vars == <<phase, shown, key, stopping>>

Answered == {"success", "failed"}

Init ==
  /\ phase = [q \in Queries |-> "absent"]
  /\ shown = [q \in Queries |-> "absent"]
  /\ key = [q \in Queries |-> FALSE]
  /\ stopping = [q \in Queries |-> FALSE]

Create(q) ==
  /\ phase[q] = "absent"
  /\ phase' = [phase EXCEPT ![q] = "open"]
  /\ \E s \in {"pending", "running"} : shown' = [shown EXCEPT ![q] = s]
  /\ UNCHANGED <<key, stopping>>

\* A worker starts; it may not have seen a stop.
Run(q) ==
  /\ phase[q] = "open"
  /\ shown[q] \notin Answered
  /\ shown' = [shown EXCEPT ![q] = "running"]
  /\ UNCHANGED <<phase, key, stopping>>

\* The status and the key of a success appear together.
Succeed(q) ==
  /\ phase[q] = "open"
  /\ shown[q] \notin Answered
  /\ shown' = [shown EXCEPT ![q] = "success"]
  /\ \E k \in {key[q], TRUE} : key' = [key EXCEPT ![q] = k]
  /\ UNCHANGED <<phase, stopping>>

\* A failure ends the work; it may come after the success was shown.
Fail(q) ==
  /\ phase[q] = "open"
  /\ phase' = [phase EXCEPT ![q] = "over"]
  /\ shown' = [shown EXCEPT ![q] = "failed"]
  /\ \E k \in {key[q], TRUE} : key' = [key EXCEPT ![q] = k]
  /\ UNCHANGED stopping

\* The work ends, or is lost, and the row stays as it is.
Close(q) ==
  /\ phase[q] = "open"
  /\ phase' = [phase EXCEPT ![q] = "over"]
  /\ UNCHANGED <<shown, key, stopping>>

RequestStop(q) ==
  /\ phase[q] # "absent"
  /\ ~stopping[q]
  /\ shown[q] \notin Answered
  /\ stopping' = [stopping EXCEPT ![q] = TRUE]
  /\ UNCHANGED <<phase, shown, key>>

\* The write is skipped when the request had read "stopped".
Stop(q) ==
  /\ stopping[q]
  /\ stopping' = [stopping EXCEPT ![q] = FALSE]
  /\ \E s \in {shown[q], "stopped"} : shown' = [shown EXCEPT ![q] = s]
  /\ UNCHANGED <<phase, key>>

Next ==
  \E q \in Queries :
    \/ Create(q) \/ Run(q) \/ Succeed(q) \/ Fail(q) \/ Close(q)
    \/ RequestStop(q) \/ Stop(q)

Spec == Init /\ [][Next]_vars

=============================================================================
