------------------------ MODULE DockerInstanceProofs ------------------------
(***************************************************************************)
(* Theorems about DockerInstance, for any number of clients, of restarts   *)
(* and of changes of the container: its invariants, and that it is a       *)
(* ServerInstance.  IndInv is inductive as a whole: TypeOK needs StatusInv *)
(* (what is published is a status), StatusInv needs SlotInv (nobody else   *)
(* changes the status meanwhile) and ContainerInv (nor does a failing      *)
(* initialization).  Fairness is not used.                                 *)
(***************************************************************************)
EXTENDS DockerInstanceInv, TLAPS

\* The goroutines are distinct.
LEMMA Roles ==
  /\ Initializer \in Workers /\ Initializer \in Updaters /\ Lifecycle \in Updaters
  /\ Lifecycle # Initializer /\ Nobody \notin Updaters
  /\ \A c \in Callers : c \in Workers /\ c \in Updaters /\ c # Initializer /\ c # Lifecycle
  /\ \A w \in Workers : w \in Updaters /\ w # Lifecycle /\ (w \in Callers \/ w = Initializer)
  /\ \A p \in Updaters : p \in Workers \/ p = Lifecycle
  BY InstanceAssumption DEF InstanceAssumption, Workers, Updaters

\* The statuses and container states that the actions name.
LEMMA Names ==
  /\ "initializing" \in Statuses /\ "idle" \in Statuses /\ "starting" \in Statuses
  /\ "running" \in Statuses /\ "stopping" \in Statuses /\ "errored" \in Statuses
  /\ "none" \notin Statuses
  /\ "absent" \in Containers /\ "created" \in Containers /\ "running" \in Containers
  /\ "exited" \in Containers
  BY DEF Statuses, Containers

\* The places of a goroutine that the actions name.
LEMMA PcNames ==
  /\ "select" \in Pcs /\ "drain" \in Pcs /\ "signal" \in Pcs /\ "exited" \in Pcs
  /\ "idle" \in Pcs /\ "acquire" \in Pcs /\ "release" \in Pcs /\ "store" \in Pcs
  /\ "attach" \in Pcs /\ "attached" \in Pcs /\ "fail" \in Pcs /\ "failing" \in Pcs
  /\ "ended" \in Pcs
  /\ "update" \in Pcs /\ "inspect" \in Pcs /\ "publish" \in Pcs /\ "publishing" \in Pcs
  /\ "check" \in Pcs /\ "fetch" \in Pcs /\ "announce" \in Pcs /\ "announcing" \in Pcs
  /\ "call" \in Pcs
  /\ "list" \in Pcs /\ "images" \in Pcs /\ "pull" \in Pcs /\ "create" \in Pcs
  BY DEF Pcs, UpdatePcs, ActionPcs, InitPcs

-----------------------------------------------------------------------------
(* Every step preserves the parts of IndInv.                               *)

\* The state of a new instance has its type.
LEMMA InitTyped == Init => TypeOK
  <1> SUFFICES ASSUME Init PROVE TypeOK
    OBVIOUS
  <1>1. pc \in [Updaters -> Pcs]
    BY PcNames DEF Init, StartPc
  <1> QED
    BY <1>1, Names DEF Init, TypeOK, NoNext, NoOp, NoTarget

\* Every step keeps the variables in their types: only a goroutine that has
\* chosen a status publishes one.
LEMMA TypeStep == ASSUME TypeOK, StatusInv, [Next]_vars PROVE TypeOK'
  <1> USE Roles, Names, PcNames
          DEF TypeOK, slotVars, statusVars, callVars, initVars, closeVars, docker
  <1>1. ASSUME NEW w \in Workers, Accept(w) PROVE TypeOK'
    BY <1>1 DEF Accept, Listening, Goto
  <1>2. ASSUME NEW w \in Workers, Refuse(w) PROVE TypeOK'
    <2>1. pc' \in [Updaters -> Pcs]
      BY <1>2 DEF Refuse, Goto
    <2>2. op' \in [Callers -> Ops \cup {"none"}] /\ initErr' \in BOOLEAN
      BY <1>2 DEF Refuse
    <2> QED
      BY <1>2, <2>1, <2>2 DEF Refuse
  <1>3. ASSUME NEW w \in Workers, Finish(w) PROVE TypeOK'
    BY <1>3 DEF Finish, DoneRendezvous, AfterAction
  <1>4. ASSUME NEW w \in Workers, Drain(w) PROVE TypeOK'
    BY <1>4 DEF Drain, DoneRendezvous, AfterAction
  <1>5. ASSUME NEW p \in Updaters, ReadContainerID(p) PROVE TypeOK'
    <2>1. pc' \in [Updaters -> Pcs]
      BY <1>5 DEF ReadContainerID, Goto
    <2>2. next' \in [Updaters -> Statuses \cup {"none"}]
      BY <1>5 DEF ReadContainerID, Goto
    <2> QED
      BY <1>5, <2>1, <2>2 DEF ReadContainerID
  <1>6. ASSUME NEW p \in Updaters, Inspect(p) PROVE TypeOK'
    BY <1>6 DEF Inspect, Goto, StatusOf
  <1>7. ASSUME NEW p \in Updaters, InspectFails(p) PROVE TypeOK'
    BY <1>7 DEF InspectFails, AfterUpdate, Goto
  <1>8. ASSUME NEW p \in Updaters, Publish(p) PROVE TypeOK'
    <2>1. next[p] \in Statuses
      BY <1>8 DEF StatusInv, Publish, Goto
    <2> QED
      BY <1>8, <2>1 DEF Publish, LockAndSet, Goto
  <1>9. ASSUME NEW p \in Updaters, Unlock(p, "publishing", AfterUpdate(p))
        PROVE  TypeOK'
    BY <1>9 DEF Unlock, AfterUpdate, Goto
  <1>10. ASSUME NEW c \in Callers, NEW o \in Ops, Call(c, o) PROVE TypeOK'
    BY <1>10 DEF Call, Goto
  <1>11. ASSUME NEW c \in Callers, CheckStatus(c) PROVE TypeOK'
    BY <1>11 DEF CheckStatus, DeferredDone, Goto
  <1>12. ASSUME NEW c \in Callers, FetchContainerID(c) PROVE TypeOK'
    BY <1>12 DEF FetchContainerID, Goto
  <1>13. ASSUME NEW c \in Callers, Announce(c) PROVE TypeOK'
    BY <1>13 DEF Announce, LockAndSet, Transient, Goto
  <1>14. ASSUME NEW c \in Callers, Unlock(c, "announcing", "call") PROVE TypeOK'
    BY <1>14 DEF Unlock, Goto
  <1>15. ASSUME NEW c \in Callers, DockerCall(c) PROVE TypeOK'
    BY <1>15 DEF DockerCall, DeferredDone, Goal, Goto
  <1>16. ASSUME ListContainers PROVE TypeOK'
    <2>1. pc' \in [Updaters -> Pcs]
      BY <1>16 DEF ListContainers, InitReturns, Goto
    <2>2. found' \in {"none", "id"} /\ initErr' \in BOOLEAN
      BY <1>16 DEF ListContainers, InitReturns, Goto
    <2> QED
      BY <1>16, <2>1, <2>2 DEF ListContainers
  <1>17. ASSUME ListImages PROVE TypeOK'
    <2>1. pc' \in [Updaters -> Pcs]
      <3>1. CASE InitReturns("images", "none", TRUE)
        BY <3>1 DEF InitReturns, Goto
      <3>2. ASSUME NEW pc1 \in {"pull", "create"}, Goto(Initializer, "images", pc1)
            PROVE  pc' \in [Updaters -> Pcs]
        BY <3>2 DEF Goto
      <3> QED
        BY <1>17, <3>1, <3>2 DEF ListImages
    <2>2. found' \in {"none", "id"} /\ initErr' \in BOOLEAN
      BY <1>17 DEF ListImages, InitReturns, Goto
    <2> QED
      BY <1>17, <2>1, <2>2 DEF ListImages
  <1>18. ASSUME PullImage PROVE TypeOK'
    <2>1. pc' \in [Updaters -> Pcs]
      BY <1>18 DEF PullImage, InitReturns, Goto
    <2>2. found' \in {"none", "id"} /\ initErr' \in BOOLEAN
      BY <1>18 DEF PullImage, InitReturns, Goto
    <2> QED
      BY <1>18, <2>1, <2>2 DEF PullImage
  <1>19. ASSUME CreateContainer PROVE TypeOK'
    <2>1. pc' = [pc EXCEPT ![Initializer] = "update"]
      BY <1>19 DEF CreateContainer, InitReturns, Goto
    <2>2. found' \in {"none", "id"} /\ initErr' \in BOOLEAN
      BY <1>19 DEF CreateContainer, InitReturns
    <2>3. container' \in Containers /\ ownImage' \in BOOLEAN
      BY <1>19 DEF CreateContainer
    <2> QED
      BY <1>19, <2>1, <2>2, <2>3 DEF CreateContainer
  <1>20. ASSUME StoreContainerID PROVE TypeOK'
    BY <1>20 DEF StoreContainerID, Goto
  <1>21. ASSUME FailInit PROVE TypeOK'
    BY <1>21 DEF FailInit, LockAndSet, Goto
  <1>22. ASSUME Unlock(Initializer, "failing", "ended") PROVE TypeOK'
    BY <1>22 DEF Unlock, Goto
  <1>23. ASSUME Attach PROVE TypeOK'
    <2>1. pc' \in [Updaters -> Pcs]
      BY <1>23 DEF Attach, Goto
    <2> QED
      BY <1>23, <2>1 DEF Attach
  <1>24. ASSUME Detach PROVE TypeOK'
    BY <1>24 DEF Detach, Goto
  <1>25. ASSUME Tick PROVE TypeOK'
    BY <1>25 DEF Tick, Polls, Goto
  <1>26. ASSUME Leave PROVE TypeOK'
    BY <1>26 DEF Leave, Deferred, Goto
  <1>27. ASSUME Close PROVE TypeOK'
    BY <1>27 DEF Close
  <1>28. ASSUME CloseReturns PROVE TypeOK'
    BY <1>28 DEF CloseReturns, Goto
  <1>29. ASSUME ContainerChanges PROVE TypeOK'
    BY <1>29 DEF ContainerChanges
  <1>30. ASSUME DaemonChanges PROVE TypeOK'
    BY <1>30 DEF DaemonChanges
  <1>31. ASSUME Restart PROVE TypeOK'
    <2>1. pc' \in [Updaters -> Pcs]
      BY <1>31 DEF Restart, StartPc
    <2>2. /\ next' \in [Updaters -> Statuses \cup {"none"}]
          /\ op' \in [Callers -> Ops \cup {"none"}]
          /\ target' \in [Callers -> {"none", "id"}]
      BY <1>31 DEF Restart, NoNext, NoOp, NoTarget
    <2>3. restarts' \in Nat
      <3>1. restarts \in Nat /\ restarts' = restarts + 1
        BY <1>31 DEF Restart
      <3> QED
        BY ONLY <3>1
    <2> QED
      BY <1>31, <2>1, <2>2, <2>3 DEF Restart
  <1>32. ASSUME UNCHANGED vars PROVE TypeOK'
    BY <1>32 DEF vars
  <1> QED
    BY <1>1, <1>2, <1>3, <1>4, <1>5, <1>6, <1>7, <1>8, <1>9, <1>10, <1>11, <1>12, <1>13,
      <1>14, <1>15, <1>16, <1>17, <1>18, <1>19, <1>20, <1>21, <1>22, <1>23, <1>24, <1>25,
      <1>26, <1>27, <1>28, <1>29, <1>30, <1>31, <1>32
    DEF Next, WorkerStep, UpdateStatus, Action, Initialize, Updaters, Workers

\* Lifecycle knows whose action is in flight: only Accept starts one, only its
\* rendezvous on doneChan ends one, and a poll starts only in between.
LEMMA SlotStep == ASSUME TypeOK, SlotInv, [Next]_vars PROVE SlotInv'
  <1> USE Roles
          DEF TypeOK, SlotInv, Working, UpdatePcs, ActionPcs, InitPcs, slotVars, statusVars, callVars, initVars, closeVars, docker
  <1>1. ASSUME NEW w \in Workers, Accept(w) PROVE SlotInv'
    BY <1>1 DEF Accept, Listening, Goto
  <1>2. ASSUME NEW w \in Workers, Refuse(w) PROVE SlotInv'
    BY <1>2 DEF Refuse, Goto
  <1>3. ASSUME NEW w \in Workers, Finish(w) PROVE SlotInv'
    BY <1>3 DEF Finish, DoneRendezvous, AfterAction
  <1>4. ASSUME NEW w \in Workers, Drain(w) PROVE SlotInv'
    BY <1>4 DEF Drain, DoneRendezvous, AfterAction
  <1>5. ASSUME NEW p \in Updaters, ReadContainerID(p) PROVE SlotInv'
    BY <1>5 DEF ReadContainerID, Unlocked, Goto
  <1>6. ASSUME NEW p \in Updaters, Inspect(p) PROVE SlotInv'
    BY <1>6 DEF Inspect, Goto, StatusOf
  <1>7. ASSUME NEW p \in Updaters, InspectFails(p) PROVE SlotInv'
    BY <1>7 DEF InspectFails, AfterUpdate, Goto
  <1>8. ASSUME NEW p \in Updaters, Publish(p) PROVE SlotInv'
    BY <1>8 DEF Publish, LockAndSet, Goto
  <1>9. ASSUME NEW p \in Updaters, Unlock(p, "publishing", AfterUpdate(p))
        PROVE  SlotInv'
    BY <1>9 DEF Unlock, AfterUpdate, Goto
  <1>10. ASSUME NEW c \in Callers, NEW o \in Ops, Call(c, o) PROVE SlotInv'
    BY <1>10 DEF Call, Goto
  <1>11. ASSUME NEW c \in Callers, CheckStatus(c) PROVE SlotInv'
    BY <1>11 DEF CheckStatus, DeferredDone, Goto
  <1>12. ASSUME NEW c \in Callers, FetchContainerID(c) PROVE SlotInv'
    BY <1>12 DEF FetchContainerID, Goto
  <1>13. ASSUME NEW c \in Callers, Announce(c) PROVE SlotInv'
    BY <1>13 DEF Announce, LockAndSet, Transient, Goto
  <1>14. ASSUME NEW c \in Callers, Unlock(c, "announcing", "call") PROVE SlotInv'
    BY <1>14 DEF Unlock, Goto
  <1>15. ASSUME NEW c \in Callers, DockerCall(c) PROVE SlotInv'
    BY <1>15 DEF DockerCall, DeferredDone, Goal, Goto
  <1>16. ASSUME ListContainers PROVE SlotInv'
    BY <1>16 DEF ListContainers, InitReturns, Listed, Goto
  <1>17. ASSUME ListImages PROVE SlotInv'
    BY <1>17 DEF ListImages, InitReturns, Goto
  <1>18. ASSUME PullImage PROVE SlotInv'
    BY <1>18 DEF PullImage, InitReturns, Goto
  <1>19. ASSUME CreateContainer PROVE SlotInv'
    BY <1>19 DEF CreateContainer, InitReturns, Goto
  <1>20. ASSUME StoreContainerID PROVE SlotInv'
    BY <1>20 DEF StoreContainerID, Goto
  <1>21. ASSUME FailInit PROVE SlotInv'
    BY <1>21 DEF FailInit, LockAndSet, Goto
  <1>22. ASSUME Unlock(Initializer, "failing", "ended") PROVE SlotInv'
    BY <1>22 DEF Unlock, Goto
  <1>23. ASSUME Attach PROVE SlotInv'
    BY <1>23 DEF Attach, Goto
  <1>24. ASSUME Detach PROVE SlotInv'
    BY <1>24 DEF Detach, Goto
  <1>25. ASSUME Tick PROVE SlotInv'
    BY <1>25 DEF Tick, Polls, Goto
  <1>26. ASSUME Leave PROVE SlotInv'
    BY <1>26 DEF Leave, Deferred, Goto
  <1>27. ASSUME Close PROVE SlotInv'
    BY <1>27 DEF Close
  <1>28. ASSUME CloseReturns PROVE SlotInv'
    BY <1>28 DEF CloseReturns, Goto
  <1>29. ASSUME ContainerChanges PROVE SlotInv'
    BY <1>29 DEF ContainerChanges
  <1>30. ASSUME DaemonChanges PROVE SlotInv'
    BY <1>30 DEF DaemonChanges
  <1>31. ASSUME Restart PROVE SlotInv'
    BY <1>31 DEF Restart, StartPc, NoNext, NoOp, NoTarget
  <1>32. ASSUME UNCHANGED vars PROVE SlotInv'
    BY <1>32 DEF vars
  <1> QED
    BY <1>1, <1>2, <1>3, <1>4, <1>5, <1>6, <1>7, <1>8, <1>9, <1>10, <1>11, <1>12, <1>13,
      <1>14, <1>15, <1>16, <1>17, <1>18, <1>19, <1>20, <1>21, <1>22, <1>23, <1>24, <1>25,
      <1>26, <1>27, <1>28, <1>29, <1>30, <1>31, <1>32
    DEF Next, WorkerStep, UpdateStatus, Action, Initialize, Updaters, Workers

\* Only setStatus takes dsi.mu, and gives it back when its dispatch is over.
LEMMA MuStep == ASSUME TypeOK, MuInv, [Next]_vars PROVE MuInv'
  <1> USE Roles DEF TypeOK, MuInv, slotVars, statusVars, callVars, initVars, closeVars, docker
  <1>1. ASSUME NEW w \in Workers, Accept(w) PROVE MuInv'
    BY <1>1 DEF Accept, Listening, Goto
  <1>2. ASSUME NEW w \in Workers, Refuse(w) PROVE MuInv'
    BY <1>2 DEF Refuse, Goto
  <1>3. ASSUME NEW w \in Workers, Finish(w) PROVE MuInv'
    BY <1>3 DEF Finish, DoneRendezvous, AfterAction
  <1>4. ASSUME NEW w \in Workers, Drain(w) PROVE MuInv'
    BY <1>4 DEF Drain, DoneRendezvous, AfterAction
  <1>5. ASSUME NEW p \in Updaters, ReadContainerID(p) PROVE MuInv'
    BY <1>5 DEF ReadContainerID, Unlocked, Goto
  <1>6. ASSUME NEW p \in Updaters, Inspect(p) PROVE MuInv'
    BY <1>6 DEF Inspect, Goto, StatusOf
  <1>7. ASSUME NEW p \in Updaters, InspectFails(p) PROVE MuInv'
    BY <1>7 DEF InspectFails, AfterUpdate, Goto
  <1>8. ASSUME NEW p \in Updaters, Publish(p) PROVE MuInv'
    BY <1>8 DEF Publish, LockAndSet, Unlocked, Goto
  <1>9. ASSUME NEW p \in Updaters, Unlock(p, "publishing", AfterUpdate(p))
        PROVE  MuInv'
    BY <1>9 DEF Unlock, AfterUpdate, Goto
  <1>10. ASSUME NEW c \in Callers, NEW o \in Ops, Call(c, o) PROVE MuInv'
    BY <1>10 DEF Call, Goto
  <1>11. ASSUME NEW c \in Callers, CheckStatus(c) PROVE MuInv'
    BY <1>11 DEF CheckStatus, DeferredDone, Goto
  <1>12. ASSUME NEW c \in Callers, FetchContainerID(c) PROVE MuInv'
    BY <1>12 DEF FetchContainerID, Goto
  <1>13. ASSUME NEW c \in Callers, Announce(c) PROVE MuInv'
    BY <1>13 DEF Announce, LockAndSet, Unlocked, Goto
  <1>14. ASSUME NEW c \in Callers, Unlock(c, "announcing", "call") PROVE MuInv'
    BY <1>14 DEF Unlock, Goto
  <1>15. ASSUME NEW c \in Callers, DockerCall(c) PROVE MuInv'
    BY <1>15 DEF DockerCall, DeferredDone, Goal, Goto
  <1>16. ASSUME ListContainers PROVE MuInv'
    BY <1>16 DEF ListContainers, InitReturns, Listed, Goto
  <1>17. ASSUME ListImages PROVE MuInv'
    BY <1>17 DEF ListImages, InitReturns, Goto
  <1>18. ASSUME PullImage PROVE MuInv'
    BY <1>18 DEF PullImage, InitReturns, Goto
  <1>19. ASSUME CreateContainer PROVE MuInv'
    BY <1>19 DEF CreateContainer, InitReturns, Goto
  <1>20. ASSUME StoreContainerID PROVE MuInv'
    BY <1>20 DEF StoreContainerID, Goto
  <1>21. ASSUME FailInit PROVE MuInv'
    BY <1>21 DEF FailInit, LockAndSet, Unlocked, Goto
  <1>22. ASSUME Unlock(Initializer, "failing", "ended") PROVE MuInv'
    BY <1>22 DEF Unlock, Goto
  <1>23. ASSUME Attach PROVE MuInv'
    BY <1>23 DEF Attach, Goto
  <1>24. ASSUME Detach PROVE MuInv'
    BY <1>24 DEF Detach, Goto
  <1>25. ASSUME Tick PROVE MuInv'
    BY <1>25 DEF Tick, Polls, Goto
  <1>26. ASSUME Leave PROVE MuInv'
    BY <1>26 DEF Leave, Deferred, Goto
  <1>27. ASSUME Close PROVE MuInv'
    BY <1>27 DEF Close
  <1>28. ASSUME CloseReturns PROVE MuInv'
    BY <1>28 DEF CloseReturns, Goto
  <1>29. ASSUME ContainerChanges PROVE MuInv'
    BY <1>29 DEF ContainerChanges
  <1>30. ASSUME DaemonChanges PROVE MuInv'
    BY <1>30 DEF DaemonChanges
  <1>31. ASSUME Restart PROVE MuInv'
    BY <1>31 DEF Restart, StartPc, NoNext, NoOp, NoTarget
  <1>32. ASSUME UNCHANGED vars PROVE MuInv'
    BY <1>32 DEF vars
  <1> QED
    BY <1>1, <1>2, <1>3, <1>4, <1>5, <1>6, <1>7, <1>8, <1>9, <1>10, <1>11, <1>12, <1>13,
      <1>14, <1>15, <1>16, <1>17, <1>18, <1>19, <1>20, <1>21, <1>22, <1>23, <1>24, <1>25,
      <1>26, <1>27, <1>28, <1>29, <1>30, <1>31, <1>32
    DEF Next, WorkerStep, UpdateStatus, Action, Initialize, Updaters, Workers

\* The container ID is stored before a status can let an action through.
LEMMA ContainerStep == ASSUME TypeOK, ContainerInv, [Next]_vars PROVE ContainerInv'
  <1> USE Roles
          DEF TypeOK, ContainerInv, Ready, slotVars, statusVars, callVars, initVars, closeVars, docker
  <1>1. ASSUME NEW w \in Workers, Accept(w) PROVE ContainerInv'
    BY <1>1 DEF Accept, Listening, Goto
  <1>2. ASSUME NEW w \in Workers, Refuse(w) PROVE ContainerInv'
    BY <1>2 DEF Refuse, Goto
  <1>3. ASSUME NEW w \in Workers, Finish(w) PROVE ContainerInv'
    BY <1>3 DEF Finish, DoneRendezvous, AfterAction
  <1>4. ASSUME NEW w \in Workers, Drain(w) PROVE ContainerInv'
    BY <1>4 DEF Drain, DoneRendezvous, AfterAction
  <1>5. ASSUME NEW p \in Updaters, ReadContainerID(p) PROVE ContainerInv'
    <2>1. CASE containerID = "none"
      BY <1>5, <2>1 DEF ReadContainerID, Goto
    <2>2. CASE containerID # "none"
      BY <1>5, <2>2 DEF ReadContainerID, Goto
    <2> QED
      BY <2>1, <2>2
  <1>6. ASSUME NEW p \in Updaters, Inspect(p) PROVE ContainerInv'
    BY <1>6 DEF Inspect, Goto, StatusOf
  <1>7. ASSUME NEW p \in Updaters, InspectFails(p) PROVE ContainerInv'
    BY <1>7 DEF InspectFails, AfterUpdate, Goto
  <1>8. ASSUME NEW p \in Updaters, Publish(p) PROVE ContainerInv'
    BY <1>8 DEF Publish, LockAndSet, Goto
  <1>9. ASSUME NEW p \in Updaters, Unlock(p, "publishing", AfterUpdate(p))
        PROVE  ContainerInv'
    BY <1>9 DEF Unlock, AfterUpdate, Goto
  <1>10. ASSUME NEW c \in Callers, NEW o \in Ops, Call(c, o) PROVE ContainerInv'
    BY <1>10 DEF Call, Goto
  <1>11. ASSUME NEW c \in Callers, CheckStatus(c) PROVE ContainerInv'
    BY <1>11 DEF CheckStatus, DeferredDone, Required, Goto
  <1>12. ASSUME NEW c \in Callers, FetchContainerID(c) PROVE ContainerInv'
    BY <1>12 DEF FetchContainerID, Goto
  <1>13. ASSUME NEW c \in Callers, Announce(c) PROVE ContainerInv'
    BY <1>13 DEF Announce, LockAndSet, Transient, Goto
  <1>14. ASSUME NEW c \in Callers, Unlock(c, "announcing", "call") PROVE ContainerInv'
    BY <1>14 DEF Unlock, Goto
  <1>15. ASSUME NEW c \in Callers, DockerCall(c) PROVE ContainerInv'
    BY <1>15 DEF DockerCall, DeferredDone, Goal, Goto
  <1>16. ASSUME ListContainers PROVE ContainerInv'
    BY <1>16 DEF ListContainers, InitReturns, Listed, Goto
  <1>17. ASSUME ListImages PROVE ContainerInv'
    BY <1>17 DEF ListImages, InitReturns, Goto
  <1>18. ASSUME PullImage PROVE ContainerInv'
    BY <1>18 DEF PullImage, InitReturns, Goto
  <1>19. ASSUME CreateContainer PROVE ContainerInv'
    BY <1>19 DEF CreateContainer, InitReturns, Goto
  <1>20. ASSUME StoreContainerID PROVE ContainerInv'
    BY <1>20 DEF StoreContainerID, Goto
  <1>21. ASSUME FailInit PROVE ContainerInv'
    BY <1>21 DEF FailInit, LockAndSet, Goto
  <1>22. ASSUME Unlock(Initializer, "failing", "ended") PROVE ContainerInv'
    BY <1>22 DEF Unlock, Goto
  <1>23. ASSUME Attach PROVE ContainerInv'
    BY <1>23 DEF Attach, Goto
  <1>24. ASSUME Detach PROVE ContainerInv'
    BY <1>24 DEF Detach, Goto
  <1>25. ASSUME Tick PROVE ContainerInv'
    BY <1>25 DEF Tick, Polls, Goto
  <1>26. ASSUME Leave PROVE ContainerInv'
    BY <1>26 DEF Leave, Deferred, Goto
  <1>27. ASSUME Close PROVE ContainerInv'
    BY <1>27 DEF Close
  <1>28. ASSUME CloseReturns PROVE ContainerInv'
    BY <1>28 DEF CloseReturns, Goto
  <1>29. ASSUME ContainerChanges PROVE ContainerInv'
    BY <1>29 DEF ContainerChanges
  <1>30. ASSUME DaemonChanges PROVE ContainerInv'
    BY <1>30 DEF DaemonChanges
  <1>31. ASSUME Restart PROVE ContainerInv'
    BY <1>31 DEF Restart, StartPc, NoNext, NoOp, NoTarget
  <1>32. ASSUME UNCHANGED vars PROVE ContainerInv'
    BY <1>32 DEF vars
  <1> QED
    BY <1>1, <1>2, <1>3, <1>4, <1>5, <1>6, <1>7, <1>8, <1>9, <1>10, <1>11, <1>12, <1>13,
      <1>14, <1>15, <1>16, <1>17, <1>18, <1>19, <1>20, <1>21, <1>22, <1>23, <1>24, <1>25,
      <1>26, <1>27, <1>28, <1>29, <1>30, <1>31, <1>32
    DEF Next, WorkerStep, UpdateStatus, Action, Initialize, Updaters, Workers

\* The slot is what makes the goroutines exclude each other.
LEMMA Exclusive == ASSUME TypeOK, SlotInv PROVE OneAtATime
  BY Roles DEF TypeOK, SlotInv, OneAtATime, Working, UpdatePcs, ActionPcs, InitPcs

\* Nobody's view of the status is outdated: who works, works alone.
LEMMA StatusStep == ASSUME IndInv, [Next]_vars PROVE StatusInv'
  <1> USE Roles
          DEF IndInv, TypeOK, ContainerInv, SlotInv, StatusInv, Working, UpdatePcs, ActionPcs, InitPcs, Ready, slotVars, statusVars, callVars, initVars, closeVars, docker
  <1>1. ASSUME NEW w \in Workers, Accept(w) PROVE StatusInv'
    BY <1>1 DEF Accept, Listening, Goto
  <1>2. ASSUME NEW w \in Workers, Refuse(w) PROVE StatusInv'
    <2>1. CASE w = Initializer
      BY <1>2, <2>1 DEF Refuse, Goto
    <2>2. CASE w # Initializer
      <3>1. /\ w \in Callers /\ pc[w] = "acquire"
            /\ pc' = [pc EXCEPT ![w] = "idle"] /\ op' = [op EXCEPT ![w] = "none"]
            /\ UNCHANGED <<status, blind, next>>
        BY <1>2, <2>2 DEF Refuse, Goto
      <3> QED
        BY <3>1
    <2> QED
      BY <2>1, <2>2
  <1>3. ASSUME NEW w \in Workers, Finish(w) PROVE StatusInv'
    BY <1>3 DEF Finish, DoneRendezvous, AfterAction
  <1>4. ASSUME NEW w \in Workers, Drain(w) PROVE StatusInv'
    BY <1>4 DEF Drain, DoneRendezvous, AfterAction
  <1>5. ASSUME NEW p \in Updaters, ReadContainerID(p) PROVE StatusInv'
    <2>1. pc[p] = "update" /\ UNCHANGED <<status, blind, op>>
      BY <1>5 DEF ReadContainerID, Goto
    <2>2. CASE containerID = "none"
      <3>1. /\ pc' = [pc EXCEPT ![p] = "publish"]
            /\ next' = [next EXCEPT ![p] = "initializing"]
        BY <1>5, <2>2 DEF ReadContainerID, Goto
      <3>2. status \notin Ready
        BY <2>2
      <3> QED
        BY <2>1, <3>1, <3>2
    <2>3. CASE containerID # "none"
      <3>1. pc' = [pc EXCEPT ![p] = "inspect"] /\ UNCHANGED next
        BY <1>5, <2>3 DEF ReadContainerID, Goto
      <3> QED
        BY <2>1, <3>1
    <2> QED
      BY <2>2, <2>3
  <1>6. ASSUME NEW p \in Updaters, Inspect(p) PROVE StatusInv'
    BY <1>6 DEF Inspect, Goto, StatusOf
  <1>7. ASSUME NEW p \in Updaters, InspectFails(p) PROVE StatusInv'
    BY <1>7 DEF InspectFails, AfterUpdate, Goto
  <1>8. ASSUME NEW p \in Updaters, Publish(p) PROVE StatusInv'
    <2>1. /\ next[p] \in {"initializing", "idle", "running", "errored"}
          /\ \A q \in Updaters \ {p} : next[q] = "none"
          /\ \A c \in Callers : pc[c] \notin {"fetch", "announce"}
      <3>1. pc[p] = "publish"
        BY <1>8 DEF Publish, Goto
      <3>2. next[p] \in {"initializing", "idle", "running", "errored"}
        BY <3>1 DEF Statuses
      <3>3. \A q \in Updaters \ {p} : ~Working(q)
        BY <3>1, Exclusive DEF OneAtATime
      <3> QED
        BY <3>1, <3>2, <3>3
    <2> QED
      BY <1>8, <2>1 DEF Publish, LockAndSet, Goto
  <1>9. ASSUME NEW p \in Updaters, Unlock(p, "publishing", AfterUpdate(p))
        PROVE  StatusInv'
    BY <1>9 DEF Unlock, AfterUpdate, Goto
  <1>10. ASSUME NEW c \in Callers, NEW o \in Ops, Call(c, o) PROVE StatusInv'
    BY <1>10 DEF Call, Goto
  <1>11. ASSUME NEW c \in Callers, CheckStatus(c) PROVE StatusInv'
    BY <1>11 DEF CheckStatus, DeferredDone, Goto
  <1>12. ASSUME NEW c \in Callers, FetchContainerID(c) PROVE StatusInv'
    BY <1>12 DEF FetchContainerID, Goto
  <1>13. ASSUME NEW c \in Callers, Announce(c) PROVE StatusInv'
    <2>0. pc[c] = "announce"
      BY <1>13 DEF Announce, Goto
    <2>1. /\ status = Required(op[c]) /\ op[c] \in Ops
          /\ \A q \in Callers \ {c} : pc[q] \notin {"fetch", "announce"}
      <3>1. \A q \in Updaters \ {c} : ~Working(q)
        BY <2>0, Exclusive DEF OneAtATime
      <3>2. \A q \in Callers \ {c} : q \in Updaters \ {c}
        OBVIOUS
      <3>3. status = Required(op[c]) /\ op[c] \in Ops
        BY <2>0
      <3> QED
        BY <3>1, <3>2, <3>3
    <2>2. status \in Ready /\ \A q \in Updaters : next[q] # "initializing"
      BY <2>1 DEF Required
    <2>3. pc'[c] = "announcing"
      BY <1>13 DEF Announce, Goto
    <2> QED
      BY <1>13, <2>1, <2>2, <2>3 DEF Announce, LockAndSet, Goto
  <1>14. ASSUME NEW c \in Callers, Unlock(c, "announcing", "call") PROVE StatusInv'
    BY <1>14 DEF Unlock, Goto
  <1>15. ASSUME NEW c \in Callers, DockerCall(c) PROVE StatusInv'
    BY <1>15 DEF DockerCall, DeferredDone, Goal, Goto
  <1>16. ASSUME ListContainers PROVE StatusInv'
    <2>1. PICK to \in {"update", "images", "create"} : pc' = [pc EXCEPT ![Initializer] = to]
      BY <1>16 DEF ListContainers, InitReturns, Goto
    <2>2. pc[Initializer] # "publish"
      BY <1>16 DEF ListContainers, InitReturns, Goto
    <2>3. UNCHANGED <<status, blind, next, op>>
      BY <1>16 DEF ListContainers
    <2> QED
      BY <2>1, <2>2, <2>3
  <1>17. ASSUME ListImages PROVE StatusInv'
    BY <1>17 DEF ListImages, InitReturns, Goto
  <1>18. ASSUME PullImage PROVE StatusInv'
    <2>1. PICK to \in {"update", "images", "create"} : pc' = [pc EXCEPT ![Initializer] = to]
      BY <1>18 DEF PullImage, InitReturns, Goto
    <2>2. pc[Initializer] # "publish"
      BY <1>18 DEF PullImage, InitReturns, Goto
    <2>3. UNCHANGED <<status, blind, next, op>>
      BY <1>18 DEF PullImage
    <2> QED
      BY <2>1, <2>2, <2>3
  <1>19. ASSUME CreateContainer PROVE StatusInv'
    <2>1. PICK to \in {"update", "images", "create"} : pc' = [pc EXCEPT ![Initializer] = to]
      BY <1>19 DEF CreateContainer, InitReturns, Goto
    <2>2. pc[Initializer] # "publish"
      BY <1>19 DEF CreateContainer, InitReturns, Goto
    <2>3. UNCHANGED <<status, blind, next, op>>
      BY <1>19 DEF CreateContainer
    <2> QED
      BY <2>1, <2>2, <2>3
  <1>20. ASSUME StoreContainerID PROVE StatusInv'
    BY <1>20 DEF StoreContainerID, Goto
  <1>21. ASSUME FailInit PROVE StatusInv'
    BY <1>21 DEF FailInit, LockAndSet, Goto
  <1>22. ASSUME Unlock(Initializer, "failing", "ended") PROVE StatusInv'
    BY <1>22 DEF Unlock, Goto
  <1>23. ASSUME Attach PROVE StatusInv'
    BY <1>23 DEF Attach, Goto
  <1>24. ASSUME Detach PROVE StatusInv'
    BY <1>24 DEF Detach, Goto
  <1>25. ASSUME Tick PROVE StatusInv'
    BY <1>25 DEF Tick, Polls, Goto
  <1>26. ASSUME Leave PROVE StatusInv'
    BY <1>26 DEF Leave, Deferred, Goto
  <1>27. ASSUME Close PROVE StatusInv'
    BY <1>27 DEF Close
  <1>28. ASSUME CloseReturns PROVE StatusInv'
    BY <1>28 DEF CloseReturns, Goto
  <1>29. ASSUME ContainerChanges PROVE StatusInv'
    BY <1>29 DEF ContainerChanges
  <1>30. ASSUME DaemonChanges PROVE StatusInv'
    BY <1>30 DEF DaemonChanges
  <1>31. ASSUME Restart PROVE StatusInv'
    BY <1>31 DEF Restart, StartPc, NoNext, NoOp, NoTarget
  <1>32. ASSUME UNCHANGED vars PROVE StatusInv'
    BY <1>32 DEF vars
  <1> QED
    BY <1>1, <1>2, <1>3, <1>4, <1>5, <1>6, <1>7, <1>8, <1>9, <1>10, <1>11, <1>12, <1>13,
      <1>14, <1>15, <1>16, <1>17, <1>18, <1>19, <1>20, <1>21, <1>22, <1>23, <1>24, <1>25,
      <1>26, <1>27, <1>28, <1>29, <1>30, <1>31, <1>32
    DEF Next, WorkerStep, UpdateStatus, Action, Initialize, Updaters, Workers

-----------------------------------------------------------------------------
(* The invariants of the specification.                                    *)

\* A new instance satisfies the inductive invariant.
LEMMA InitInv == Init => IndInv
  <1> SUFFICES ASSUME Init PROVE IndInv
    OBVIOUS
  <1> USE Roles DEF Init
  <1>1. TypeOK
    BY InitTyped
  <1>2. /\ pc[Lifecycle] = "select" /\ pc[Initializer] = "acquire"
        /\ \A c \in Callers : pc[c] = "idle"
        /\ \A p \in Updaters : next[p] = "none"
    BY DEF StartPc, NoNext
  <1>3. SlotInv
    BY <1>2 DEF SlotInv, Working, UpdatePcs, ActionPcs, InitPcs
  <1>4. MuInv
    BY <1>2 DEF MuInv
  <1>5. ContainerInv
    BY <1>2 DEF ContainerInv, Ready
  <1>6. StatusInv
    BY <1>2 DEF StatusInv, Ready
  <1> QED
    BY <1>1, <1>3, <1>4, <1>5, <1>6 DEF IndInv

\* Whatever clients, the daemon, Close and crashes do, in any interleaving, the
\* instance keeps its inductive invariant.
THEOREM Invariance == Spec => []IndInv
  <1>1. IndInv /\ [Next]_vars => IndInv'
    BY TypeStep, SlotStep, MuStep, ContainerStep, StatusStep DEF IndInv
  <1> QED
    BY InitInv, <1>1, PTL DEF Spec

\* Every variable keeps its type.
THEOREM Typed == Spec => []TypeOK
  <1>1. IndInv => TypeOK
    BY DEF IndInv
  <1> QED
    BY Invariance, <1>1, PTL

\* Actions, the initialization and the poll never overlap (lifecycle.go:39),
\* however many clients call Start, Stop and Kill.
THEOREM MutualExclusion == Spec => []OneAtATime
  <1>1. IndInv => OneAtATime
    BY Exclusive DEF IndInv
  <1> QED
    BY Invariance, <1>1, PTL

\* Docker is never asked to start, stop or kill a container that the
\* initialization has not found or created (action.go:35, 66, 97).
THEOREM ContainerKnown == Spec => []CallsHaveContainer
  <1>1. IndInv => CallsHaveContainer
    BY DEF IndInv, TypeOK, ContainerInv, CallsHaveContainer, Ready
  <1> QED
    BY Invariance, <1>1, PTL

\* A container left by an earlier run is adopted: none is created beside it
\* (lifecycle.go:134-144).
THEOREM Adoption == Spec => []AdoptsExisting
  <1>1. IndInv => AdoptsExisting
    BY DEF IndInv, ContainerInv, AdoptsExisting
  <1> QED
    BY Invariance, <1>1, PTL

\* Once Close has returned nothing is in flight (instance.go:52-55).
THEOREM QuietAfterClose == Spec => []ClosedIsQuiet
  <1>1. IndInv => ClosedIsQuiet
    <2> SUFFICES ASSUME IndInv, closer = "returned"
                 PROVE  pc[Lifecycle] = "exited" /\ \A p \in Updaters : ~Working(p)
      BY DEF ClosedIsQuiet
    <2>1. pc[Lifecycle] = "exited" /\ actionDone = Nobody
      BY DEF IndInv, SlotInv
    <2>2. \A w \in Workers : ~Working(w)
      BY <2>1, Roles DEF IndInv, SlotInv
    <2>3. ~Working(Lifecycle)
      BY <2>1 DEF Working, UpdatePcs, ActionPcs, InitPcs
    <2> QED
      BY <2>1, <2>2, <2>3, Roles
  <1> QED
    BY Invariance, <1>1, PTL

\* A transient status never outlives its action unless the container could not
\* be inspected (lifecycle.go:87-92).
THEOREM TransientOwned == Spec => []TransientIsOwned
  <1>1. IndInv => TransientIsOwned
    <2> SUFFICES ASSUME IndInv, status \in {"starting", "stopping"}, ~blind
                 PROVE  \E p \in Updaters : Working(p)
      BY DEF TransientIsOwned
    <2>1. PICK c \in Callers : pc[c] \in {"announcing", "call", "update", "inspect", "publish"}
      BY DEF IndInv, StatusInv
    <2> QED
      BY <2>1, Roles DEF Working, UpdatePcs, ActionPcs
  <1> QED
    BY Invariance, <1>1, PTL

-----------------------------------------------------------------------------
(* Waiting.                                                                *)

\* Who holds dsi.mu for writing is in a dispatch, and waits for nobody here.
LEMMA HolderMoves == ASSUME IndInv, mu # Nobody PROVE mu \in Updaters /\ Moves(mu)
  BY DEF IndInv, TypeOK, MuInv, Moves, Blocked, MuPcs

\* An action that is done finds lifecycle where it receives.
LEMMA DoneIsReceived ==
  ASSUME IndInv, NEW p \in Updaters, pc[p] = "release"
  PROVE  actionDone = p /\ pc[Lifecycle] \in {"select", "drain"}
  <1>1. p \in Workers
    BY Roles DEF IndInv, SlotInv, UpdatePcs
  <1> QED
    BY <1>1, Roles DEF IndInv, SlotInv, Working

\* Who works moves, or waits for dsi.mu whose holder moves.
LEMMA WorkerMoves ==
  ASSUME IndInv, NEW q \in Updaters, Working(q)
  PROVE  Moves(q) \/ (Blocked(q) /\ Moves(Blocker(q)))
  <1>1. CASE Blocked(q)
    <2>1. pc[q] \in MuPcs /\ mu # Nobody
      BY <1>1, DoneIsReceived DEF Blocked, Unlocked, Working, UpdatePcs, ActionPcs, InitPcs
    <2>2. Blocker(q) = mu
      BY <2>1 DEF Blocker, MuPcs
    <2> QED
      BY <1>1, <2>1, <2>2, HolderMoves
  <1>2. CASE ~Blocked(q)
    BY <1>2 DEF Moves, Working, UpdatePcs, ActionPcs, InitPcs
  <1> QED
    BY <1>1, <1>2

\* Start, Stop, Kill, the initialization, the poll and Close never wait for each
\* other in a circle, and none is forgotten (lifecycle.go:23-71, instance.go:33-55).
THEOREM NobodyWaitsInVain == Spec => []NoDeadlock
  <1>1. ASSUME IndInv, NEW p \in Updaters, Blocked(p)
        PROVE  \E q \in Updaters : q = Blocker(p) /\ (Moves(q) \/ (Blocked(q) /\ Moves(Blocker(q))))
    <2>1. CASE pc[p] = "acquire"
      <3>1. ~ctxDone /\ ~(pc[Lifecycle] = "select" /\ accepting)
        BY <1>1, <2>1 DEF Blocked, Listening, MuPcs
      <3>2. pc[Lifecycle] \in UpdatePcs \/ (pc[Lifecycle] = "select" /\ actionDone # Nobody)
        BY <1>1, <3>1 DEF IndInv, SlotInv
      <3>3. Worker \in Updaters /\ Working(Worker)
        BY <1>1, <3>2, Roles DEF IndInv, TypeOK, SlotInv, Worker, Working, UpdatePcs
      <3>4. Blocker(p) = Worker
        BY <2>1 DEF Blocker
      <3> QED
        BY <1>1, <3>3, <3>4, WorkerMoves
    <2>2. CASE pc[p] \in MuPcs
      <3>1. mu # Nobody /\ Blocker(p) = mu
        BY <1>1, <2>2 DEF Blocked, Blocker, Unlocked, MuPcs
      <3> QED
        BY <1>1, <3>1, HolderMoves
    <2>3. CASE pc[p] = "drain"
      <3>1. p = Lifecycle
        BY <1>1, <2>3, Roles DEF IndInv, SlotInv
      <3>2. actionDone \in Updaters /\ Working(actionDone)
        BY <1>1, <2>3, <3>1, Roles DEF IndInv, TypeOK, SlotInv
      <3>3. Blocker(p) = actionDone
        BY <2>3 DEF Blocker
      <3> QED
        BY <1>1, <3>2, <3>3, WorkerMoves
    <2>4. CASE pc[p] = "signal"
      <3>1. p = Lifecycle
        BY <1>1, <2>4, Roles DEF IndInv, SlotInv
      <3>2. closer = "waiting"
        BY <1>1, <2>4, <3>1 DEF IndInv, TypeOK, SlotInv
      <3> QED
        BY <1>1, <2>4, <3>2 DEF Blocked, MuPcs
    <2> QED
      BY <1>1, <2>1, <2>2, <2>3, <2>4, DoneIsReceived DEF Blocked
  <1>2. IndInv /\ closer = "waiting" => pc[Lifecycle] # "exited"
    BY DEF IndInv, SlotInv
  <1>3. IndInv => NoDeadlock
    BY <1>1, <1>2 DEF NoDeadlock
  <1> QED
    BY Invariance, <1>3, PTL

-----------------------------------------------------------------------------
(* The refinement of ServerInstance.                                       *)

\* A new instance is a new server.
LEMMA InitRefines == Init => Server!Init
  BY Roles DEF Init, StartPc, Worker, Phase, UpdatePcs, Server!Init

\* Every step is a step of the server or leaves what it shows unchanged.
LEMMA StepRefines == ASSUME IndInv, [Next]_vars PROVE [Server!Next]_(Server!vars)
  <1> USE Roles
          DEF IndInv, TypeOK, SlotInv, Worker, Phase, UpdatePcs, slotVars, statusVars, callVars,
              initVars, closeVars, docker, Server!vars
  <1>1. ASSUME NEW w \in Workers, Accept(w) PROVE [Server!Next]_(Server!vars)
    <2>1. Server!Begin(w)
      BY <1>1 DEF Accept, Listening, Goto, Server!Begin
    <2> QED
      BY <2>1 DEF Server!Next
  <1>2. ASSUME NEW w \in Workers, Refuse(w) PROVE [Server!Next]_(Server!vars)
    BY <1>2 DEF Refuse, Goto
  <1>3. ASSUME NEW w \in Workers, Finish(w) PROVE [Server!Next]_(Server!vars)
    <2>1. Server!End(w)
      BY <1>3 DEF Finish, DoneRendezvous, Server!End
    <2> QED
      BY <2>1 DEF Server!Next
  <1>4. ASSUME NEW w \in Workers, Drain(w) PROVE [Server!Next]_(Server!vars)
    <2>1. Server!End(w)
      BY <1>4 DEF Drain, DoneRendezvous, Server!End
    <2> QED
      BY <2>1 DEF Server!Next
  <1>5. ASSUME NEW p \in Updaters, ReadContainerID(p) PROVE [Server!Next]_(Server!vars)
    BY <1>5 DEF ReadContainerID, Unlocked, Goto
  <1>6. ASSUME NEW p \in Updaters, Inspect(p) PROVE [Server!Next]_(Server!vars)
    BY <1>6 DEF Inspect, Goto, StatusOf
  <1>7. ASSUME NEW p \in Updaters, InspectFails(p) PROVE [Server!Next]_(Server!vars)
    <2>1. CASE p = Lifecycle
      <3>1. Server!End(Lifecycle)
        BY <1>7, <2>1 DEF InspectFails, AfterUpdate, Goto, Server!End
      <3> QED
        BY <3>1 DEF Server!Next
    <2>2. CASE p # Lifecycle
      BY <1>7, <2>2 DEF InspectFails, AfterUpdate, Goto
    <2> QED
      BY <2>1, <2>2
  <1>8. ASSUME NEW p \in Updaters, Publish(p) PROVE [Server!Next]_(Server!vars)
    <2>1. pc[p] = "publish" /\ Worker = p
      BY <1>8 DEF Publish, Goto, Working, ActionPcs, InitPcs
    <2>2. \/ next[p] \in {"idle", "running", "errored"}
          \/ next[p] = "initializing" /\ status \notin Server!Ready
      BY <2>1 DEF StatusInv, Statuses, Ready, Server!Ready
    <2>3. Server!Observe(p)
      BY <1>8, <2>1, <2>2 DEF Publish, LockAndSet, Goto, Server!Observe
    <2> QED
      BY <2>3 DEF Server!Next
  <1>9. ASSUME NEW p \in Updaters, Unlock(p, "publishing", AfterUpdate(p))
        PROVE  [Server!Next]_(Server!vars)
    <2>1. CASE p = Lifecycle
      <3>1. Server!End(Lifecycle)
        BY <1>9, <2>1 DEF Unlock, AfterUpdate, Goto, Server!End
      <3> QED
        BY <3>1 DEF Server!Next
    <2>2. CASE p # Lifecycle
      BY <1>9, <2>2 DEF Unlock, AfterUpdate, Goto
    <2> QED
      BY <2>1, <2>2
  <1>10. ASSUME NEW c \in Callers, NEW o \in Ops, Call(c, o) PROVE [Server!Next]_(Server!vars)
    BY <1>10 DEF Call, Goto
  <1>11. ASSUME NEW c \in Callers, CheckStatus(c) PROVE [Server!Next]_(Server!vars)
    BY <1>11 DEF CheckStatus, DeferredDone, Goto
  <1>12. ASSUME NEW c \in Callers, FetchContainerID(c) PROVE [Server!Next]_(Server!vars)
    BY <1>12 DEF FetchContainerID, Goto
  <1>13. ASSUME NEW c \in Callers, Announce(c) PROVE [Server!Next]_(Server!vars)
    <2>1. pc[c] = "announce" /\ Worker = c
      BY <1>13 DEF Announce, Goto, Working, ActionPcs, InitPcs
    <2>2. status = Required(op[c])
      BY <2>1 DEF StatusInv
    <2>3. Server!Act(c)
      BY <1>13, <2>1, <2>2 DEF Announce, LockAndSet, Goto, Transient, Required, Server!Act
    <2> QED
      BY <2>3 DEF Server!Next
  <1>14. ASSUME NEW c \in Callers, Unlock(c, "announcing", "call") PROVE [Server!Next]_(Server!vars)
    BY <1>14 DEF Unlock, Goto
  <1>15. ASSUME NEW c \in Callers, DockerCall(c) PROVE [Server!Next]_(Server!vars)
    BY <1>15 DEF DockerCall, DeferredDone, Goal, Goto
  <1>16. ASSUME ListContainers PROVE [Server!Next]_(Server!vars)
    BY <1>16 DEF ListContainers, InitReturns, Listed, Goto
  <1>17. ASSUME ListImages PROVE [Server!Next]_(Server!vars)
    BY <1>17 DEF ListImages, InitReturns, Goto
  <1>18. ASSUME PullImage PROVE [Server!Next]_(Server!vars)
    BY <1>18 DEF PullImage, InitReturns, Goto
  <1>19. ASSUME CreateContainer PROVE [Server!Next]_(Server!vars)
    BY <1>19 DEF CreateContainer, InitReturns, Goto
  <1>20. ASSUME StoreContainerID PROVE [Server!Next]_(Server!vars)
    BY <1>20 DEF StoreContainerID, Goto
  <1>21. ASSUME FailInit PROVE [Server!Next]_(Server!vars)
    <2>1. status \notin Server!Ready
      BY <1>21 DEF FailInit, Goto, ContainerInv, Ready, Server!Ready
    <2>3. Server!Fail
      BY <1>21, <2>1 DEF FailInit, LockAndSet, Goto, Server!Fail
    <2> QED
      BY <2>3 DEF Server!Next
  <1>22. ASSUME Unlock(Initializer, "failing", "ended") PROVE [Server!Next]_(Server!vars)
    BY <1>22 DEF Unlock, Goto
  <1>23. ASSUME Attach PROVE [Server!Next]_(Server!vars)
    BY <1>23 DEF Attach, Goto
  <1>24. ASSUME Detach PROVE [Server!Next]_(Server!vars)
    BY <1>24 DEF Detach, Goto
  <1>25. ASSUME Tick PROVE [Server!Next]_(Server!vars)
    <2>1. Server!Begin(Lifecycle)
      BY <1>25 DEF Tick, Polls, Goto, Server!Begin
    <2> QED
      BY <2>1 DEF Server!Next
  <1>26. ASSUME Leave PROVE [Server!Next]_(Server!vars)
    BY <1>26 DEF Leave, Deferred, Goto
  <1>27. ASSUME Close PROVE [Server!Next]_(Server!vars)
    <2>1. Server!Cancel
      BY <1>27 DEF Close, Server!Cancel
    <2> QED
      BY <2>1 DEF Server!Next
  <1>28. ASSUME CloseReturns PROVE [Server!Next]_(Server!vars)
    <2>1. Server!Closed
      BY <1>28 DEF CloseReturns, Goto, Server!Closed
    <2> QED
      BY <2>1 DEF Server!Next
  <1>29. ASSUME ContainerChanges PROVE [Server!Next]_(Server!vars)
    BY <1>29 DEF ContainerChanges
  <1>30. ASSUME DaemonChanges PROVE [Server!Next]_(Server!vars)
    BY <1>30 DEF DaemonChanges
  <1>31. ASSUME Restart PROVE [Server!Next]_(Server!vars)
    <2>1. Server!Reborn
      BY <1>31 DEF Restart, StartPc, Server!Reborn
    <2> QED
      BY <2>1 DEF Server!Next
  <1>32. ASSUME UNCHANGED vars PROVE [Server!Next]_(Server!vars)
    BY <1>32 DEF vars
  <1> QED
    BY <1>1, <1>2, <1>3, <1>4, <1>5, <1>6, <1>7, <1>8, <1>9, <1>10, <1>11, <1>12, <1>13,
      <1>14, <1>15, <1>16, <1>17, <1>18, <1>19, <1>20, <1>21, <1>22, <1>23, <1>24, <1>25,
      <1>26, <1>27, <1>28, <1>29, <1>30, <1>31, <1>32
    DEF Next, WorkerStep, UpdateStatus, Action, Initialize, Updaters, Workers

\* The Docker instance is a server.ServerInstance (instance.go in domain/server):
\* what its clients see of it, each status change included, is what the interface
\* promises.
THEOREM Refinement == Spec => ImplementsServerInstance
  <1>1. IndInv /\ [Next]_vars => [Server!Next]_(Server!vars)
    BY StepRefines
  <1> QED
    BY InitRefines, Invariance, <1>1, PTL DEF Spec, ImplementsServerInstance, Server!Spec
=============================================================================
