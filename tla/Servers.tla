------------------------------- MODULE Servers -------------------------------
(***************************************************************************)
(* What serverpouch promises of its servers, whatever process it runs as:  *)
(* a server that was created runs in every process that is up, once a      *)
(* client was told of it; it stops only when the process is stopping; and  *)
(* a process that goes down in good order leaves nothing running.  It is   *)
(* the abstract specification of ServerRegistry.                           *)
(***************************************************************************)

CONSTANT Servers  \* the IDs of servers

VARIABLES
  phase,    \* the process: "down", "up" or "stopping"
  known,    \* the servers that exist
  running,  \* the servers with an instance that works
  acked     \* the servers a client was told of

vars == <<phase, known, running, acked>>

Init ==
  /\ phase = "down" /\ known \in SUBSET Servers /\ running = {} /\ acked = {}

\* Every server that exists is started, or the process does not come up.
Boot ==
  /\ phase = "down" /\ phase' = "up"
  /\ running' = known
  /\ UNCHANGED <<known, acked>>

Store(s) ==
  /\ s \notin known /\ known' = known \cup {s}
  /\ UNCHANGED <<phase, running, acked>>

Run(s) ==
  /\ phase = "up" /\ s \in known \ running
  /\ running' = running \cup {s}
  /\ UNCHANGED <<phase, known, acked>>

Ack(s) ==
  /\ phase = "up" /\ s \in running
  /\ acked' = acked \cup {s}
  /\ UNCHANGED <<phase, known, running>>

Leave ==
  /\ phase = "up" /\ phase' = "stopping"
  /\ UNCHANGED <<known, running, acked>>

Stop(s) ==
  /\ phase = "stopping" /\ s \in running
  /\ running' = running \ {s}
  /\ UNCHANGED <<phase, known, acked>>

Halt ==
  /\ phase = "stopping" /\ running = {} /\ phase' = "down"
  /\ UNCHANGED <<known, running, acked>>

\* What was being stored when the process dies may come to exist.
Die ==
  /\ phase' = "down" /\ running' = {}
  /\ known' = known \/ \E s \in Servers : known' = known \cup {s}
  /\ UNCHANGED acked

Next ==
  \/ Boot \/ Leave \/ Halt \/ Die
  \/ \E s \in Servers : Store(s) \/ Run(s) \/ Ack(s) \/ Stop(s)

Spec == Init /\ [][Next]_vars
=============================================================================
