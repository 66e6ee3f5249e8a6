------------------------- MODULE DockerInstanceInv -------------------------
(* The inductive invariant behind the safety of DockerInstance. *)
EXTENDS DockerInstance

\* Lifecycle knows whose action is in flight and lets no other in; it polls, and
\* leaves, only while there is none.
SlotInv ==
  /\ pc[Lifecycle] \in UpdatePcs \cup {"select", "drain", "signal", "exited"}
  /\ \A w \in Workers : pc[w] \notin {"select", "drain", "signal", "exited"}
  /\ \A w \in Workers : Working(w) => actionDone = w
  /\ actionDone # Nobody => Working(actionDone)
  /\ accepting => actionDone = Nobody
  /\ pc[Lifecycle] \in UpdatePcs \cup {"signal", "exited"} => actionDone = Nobody
  /\ pc[Lifecycle] \in {"drain", "signal", "exited"} => ctxDone
  /\ pc[Lifecycle] = "drain" => actionDone # Nobody
  /\ pc[Lifecycle] \notin {"drain", "signal", "exited"} /\ actionDone = Nobody => accepting
  /\ ctxDone <=> closer # "open"
  /\ closer = "returned" <=> pc[Lifecycle] = "exited"

\* dsi.mu is held for writing by a goroutine that dispatches in setStatus.
MuInv ==
  \A p \in Updaters : mu = p <=> pc[p] \in {"announcing", "publishing", "failing"}

Ready == {"idle", "starting", "running", "stopping"}

\* The container ID is stored once, and before anything that needs it.
ContainerInv ==
  /\ containerID # "none" => pc[Initializer] \in {"attach", "attached", "ended"}
  /\ status \in Ready => containerID # "none"
  /\ \A p \in Updaters : next[p] \in Ready \/ pc[p] = "inspect" => containerID # "none"
  /\ \A c \in Callers :
       /\ pc[c] \in {"fetch", "announce", "announcing", "call"} => containerID # "none"
       /\ pc[c] \in {"announce", "announcing", "call"} => target[c] = "id"
  /\ pc[Initializer] \in {"images", "pull", "create"} => container = "absent"

\* What a goroutine has read of the status, or is about to set it to, is not
\* outdated by another one.
StatusInv ==
  /\ \A p \in Updaters :
       /\ next[p] # "none" <=> pc[p] = "publish"
       /\ next[p] \notin {"starting", "stopping"}
       /\ next[p] = "initializing" => status \notin Ready
  /\ \A c \in Callers :
       /\ pc[c] \in {"acquire", "check", "fetch", "announce"} => op[c] \in Ops
       /\ pc[c] \in {"fetch", "announce"} => status = Required(op[c])
  /\ status \in {"starting", "stopping"} =>
       \/ blind
       \/ \E c \in Callers : pc[c] \in {"announcing", "call", "update", "inspect", "publish"}

\* The inductive invariant behind the properties above.
IndInv == TypeOK /\ SlotInv /\ MuInv /\ ContainerInv /\ StatusInv
=============================================================================
