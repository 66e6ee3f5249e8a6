--------------------------- MODULE ServerInstance ---------------------------
(***************************************************************************)
(* What a server.ServerInstance promises to those who call it              *)
(* (internal/domain/server/instance.go), whatever runs the server: its     *)
(* work is done by one agent at a time, its status follows the life of a   *)
(* server, and Close returns only when nobody works on it any more.        *)
(***************************************************************************)

CONSTANTS
  Agents,  \* those who may work on a server
  Nobody   \* none of them

VARIABLES
  status,  \* what Status() returns
  worker,  \* the agent that works on the server
  phase    \* Close was not called ("open"), runs ("closing") or returned ("closed")

vars == <<status, worker, phase>>

\* The statuses of a server that was found or created.
Ready == {"idle", "starting", "running", "stopping"}

Init == status = "initializing" /\ worker = Nobody /\ phase = "open"

Begin(a) ==
  /\ phase # "closed"
  /\ worker = Nobody
  /\ worker' = a
  /\ UNCHANGED <<status, phase>>

\* Start on an idle server, Stop or Kill on a running one.
Act(a) ==
  /\ worker = a
  /\ \/ status = "idle" /\ status' = "starting"
     \/ status = "running" /\ status' = "stopping"
  /\ UNCHANGED <<worker, phase>>

\* The status is brought up to date; a ready server is never initializing again.
Observe(a) ==
  /\ worker = a
  /\ \/ status' \in {"idle", "running", "errored"}
     \/ status' = "initializing" /\ status \notin Ready
  /\ UNCHANGED <<worker, phase>>

End(a) ==
  /\ worker = a
  /\ worker' = Nobody
  /\ UNCHANGED <<status, phase>>

\* The server could not be initialized; this may come to light after Close.
Fail ==
  /\ status \notin Ready
  /\ status' = "errored"
  /\ UNCHANGED <<worker, phase>>

Cancel == phase = "open" /\ phase' = "closing" /\ UNCHANGED <<status, worker>>

Closed ==
  /\ phase = "closing"
  /\ worker = Nobody
  /\ phase' = "closed"
  /\ UNCHANGED <<status, worker>>

\* The process died and made a new instance of the server.
Reborn == status' = "initializing" /\ worker' = Nobody /\ phase' = "open"

Next ==
  \/ \E a \in Agents : Begin(a) \/ Act(a) \/ Observe(a) \/ End(a)
  \/ Fail \/ Cancel \/ Closed \/ Reborn

Spec == Init /\ [][Next]_vars
=============================================================================
