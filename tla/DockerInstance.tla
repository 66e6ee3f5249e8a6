--------------------------- MODULE DockerInstance ---------------------------
(***************************************************************************)
(* One Docker-backed server instance (internal/infrastructure/docker): the *)
(* lifecycle goroutine that hands out a single action slot and polls the   *)
(* daemon, the goroutine NewInstance starts to find or create and attach   *)
(* to the container, the goroutines of clients calling Start, Stop, Kill,  *)
(* and Close, together with the Docker daemon they talk to.                *)
(*                                                                         *)
(* Every unbuffered channel operation is one joint step of sender and      *)
(* receiver.  A read under dsi.mu.RLock is one step, enabled while nobody  *)
(* writes; setStatus is two, because it dispatches the event with dsi.mu   *)
(* held for writing.  Dispatches to listeners end (module EventEmitter).   *)
(***************************************************************************)
EXTENDS Naturals

CONSTANTS
  Callers,      \* goroutines of clients that call Start, Stop and Kill
  Initializer,  \* the goroutine of NewInstance that runs lifecycleInit
  Lifecycle,    \* the goroutine that runs lifecycle
  Nobody,       \* no goroutine
  MaxRestarts   \* bound: how often the process may die and start again

ASSUME InstanceAssumption ==
  /\ Initializer \notin Callers
  /\ Lifecycle \notin Callers \cup {Initializer}
  /\ Nobody \notin Callers \cup {Initializer, Lifecycle}
  /\ MaxRestarts \in Nat

VARIABLES
  ctxDone,      \* dsi.ctx is cancelled
  closer,       \* the goroutine in Close: "open", "waiting" or "returned"
  status,       \* dsi.status
  containerID,  \* dsi.containerID: "none" (empty) or "id"
  mu,           \* the goroutine that holds dsi.mu for writing
  accepting,    \* lifecycle's local actionChan is not nil
  actionDone,   \* whose doneChan lifecycle's local actionDone is
  pc,           \* where each goroutine is
  next,         \* the argument each goroutine is about to pass to setStatus
  op,           \* the action each caller is in
  target,       \* the container ID each caller's action has read
  found,        \* the container ID lifecycleInit returns
  initErr,      \* lifecycleInit returns an error
  blind,        \* history: the last update could not inspect the container
  container,    \* the daemon: State.Status of the instance's container
  ownImage,     \* the daemon: that container runs dsi.options.Image
  dockerUp,     \* the daemon answers
  restarts      \* how often the process was started again

Workers    == Callers \cup {Initializer}
Updaters   == Workers \cup {Lifecycle}
Statuses   == {"initializing", "idle", "starting", "running", "stopping", "errored"}
Ops        == {"start", "stop", "kill"}
Containers == {"absent", "created", "running", "exited", "other"}

UpdatePcs  == {"update", "inspect", "publish", "publishing"}
ActionPcs  == {"check", "fetch", "announce", "announcing", "call"}
InitPcs    == {"list", "images", "pull", "create"}
Pcs        == {"select", "drain", "signal", "exited", "idle", "acquire", "release", "store",
               "attach", "attached", "fail", "failing", "ended"}
              \cup UpdatePcs \cup ActionPcs \cup InitPcs

slotVars   == <<accepting, actionDone>>
statusVars == <<status, containerID, mu, blind>>
callVars   == <<op, target>>
initVars   == <<found, initErr>>
closeVars  == <<ctxDone, closer>>
docker     == <<container, ownImage, dockerUp>>
vars == <<closeVars, statusVars, slotVars, pc, next, callVars, initVars, docker, restarts>>

-----------------------------------------------------------------------------
\* NewInstance has just started its goroutines.
StartPc == [p \in Updaters |-> CASE p = Lifecycle   -> "select"
                                 [] p = Initializer -> "acquire"
                                 [] OTHER           -> "idle"]
NoNext   == [p \in Updaters |-> "none"]
NoOp     == [c \in Callers |-> "none"]
NoTarget == [c \in Callers |-> "none"]

\* The container may exist already, left by an earlier run or by a user.
Init ==
  /\ ctxDone = FALSE /\ closer = "open"
  /\ status = "initializing" /\ containerID = "none" /\ mu = Nobody /\ blind = FALSE
  /\ accepting = TRUE /\ actionDone = Nobody
  /\ pc = StartPc /\ next = NoNext
  /\ op = NoOp /\ target = NoTarget
  /\ found = "none" /\ initErr = FALSE
  /\ container \in Containers /\ ownImage \in BOOLEAN /\ dockerUp \in BOOLEAN
  /\ restarts = 0

Goto(p, from, to) == pc[p] = from /\ pc' = [pc EXCEPT ![p] = to]

\* A request the daemon answers: it is up and dsi.ctx is not cancelled.
Answers == dockerUp /\ ~ctxDone

\* dsi.mu can be taken, for reading or for writing.
Unlocked == mu = Nobody

-----------------------------------------------------------------------------
(* lifecycle: the select loop and its deferred calls.                      *)

\* The select loop receives actions, unless one is in flight.
ListeningAlways == pc[Lifecycle] = "select"
Listening == pc[Lifecycle] = "select" /\ accepting

\* lifecycleAction's send on actionChan meets lifecycle's receive.
Accept(w) ==
  /\ Listening
  /\ Goto(w, "acquire", IF w = Initializer THEN "list" ELSE "check")
  /\ actionDone' = w
  /\ accepting' = FALSE
  /\ UNCHANGED <<closeVars, statusVars, next, callVars, initVars, docker, restarts>>

\* lifecycleAction sees ctx.Done: the caller gets "context closed".
Refuse(w) ==
  /\ ctxDone
  /\ Goto(w, "acquire", IF w = Initializer THEN "fail" ELSE "idle")
  /\ IF w = Initializer
       THEN initErr' = TRUE /\ UNCHANGED op
       ELSE op' = [op EXCEPT ![w] = "none"] /\ UNCHANGED initErr
  /\ UNCHANGED <<closeVars, statusVars, slotVars, next, target, found, docker, restarts>>

\* Where a goroutine goes on once its action is done.
AfterAction(w) ==
  IF w # Initializer THEN "idle" ELSE IF initErr THEN "fail" ELSE "store"

\* The action's send on doneChan meets a receive of lifecycle, which goes to `to`.
DoneRendezvous(w, from, to) ==
  /\ pc[Lifecycle] = from
  /\ actionDone = w
  /\ pc[w] = "release"
  /\ pc' = [pc EXCEPT ![w] = AfterAction(w), ![Lifecycle] = to]
  /\ actionDone' = Nobody
  /\ op' = [c \in Callers |-> IF c = w THEN "none" ELSE op[c]]
  /\ target' = [c \in Callers |-> IF c = w THEN "none" ELSE target[c]]
  /\ UNCHANGED <<closeVars, statusVars, next, initVars, docker, restarts>>

FinishKeepsDeaf(w) == DoneRendezvous(w, "select", "select") /\ UNCHANGED accepting

\* case <-actionDone: listen for more work.
Finish(w) ==
  /\ DoneRendezvous(w, "select", "select")
  /\ accepting' = TRUE

\* The deferred <-actionDone: an action in flight is waited for.
Drain(w) ==
  /\ DoneRendezvous(w, "drain", "signal")
  /\ UNCHANGED accepting

\* The timer fires while no action is in flight.
PollsRunning == actionDone = Nobody /\ status = "running"
Polls == actionDone = Nobody

\* case <-time.After: poll the daemon.
Tick ==
  /\ Polls
  /\ Goto(Lifecycle, "select", "update")
  /\ UNCHANGED <<closeVars, statusVars, slotVars, next, callVars, initVars, docker, restarts>>

\* The deferred calls run once the loop is left: wait for an action in flight,
\* then send on ctxCancelDone.
DeferredSignalOnly == "signal"
DeferredWaitAlways == "drain"
Deferred == IF actionDone = Nobody THEN "signal" ELSE "drain"

\* case <-dsi.ctx.Done(): leave the loop.
Leave ==
  /\ ctxDone
  /\ Goto(Lifecycle, "select", Deferred)
  /\ UNCHANGED <<closeVars, statusVars, slotVars, next, callVars, initVars, docker, restarts>>

-----------------------------------------------------------------------------
(* lifecycleActionUpdateStatus and setStatus.                              *)

StatusOfCreated(c) == CASE c = "exited"  -> "idle"
                        [] c = "running" -> "running"
                        [] OTHER         -> "initializing"
StatusOf(c) == CASE c \in {"created", "exited"} -> "idle"
                 [] c = "running"               -> "running"
                 [] OTHER                       -> "errored"

\* Lock dsi.mu and assign dsi.status; the dispatch follows with mu held.
LockAndSet(p, s) ==
  /\ Unlocked
  /\ mu' = p
  /\ status' = s

\* The dispatch of setStatus is over: unlock.
Unlock(p, from, to) ==
  /\ Goto(p, from, to)
  /\ mu' = Nobody
  /\ UNCHANGED <<closeVars, status, containerID, blind, slotVars, next, callVars, initVars,
                 docker, restarts>>

AfterUpdate(p) == IF p = Lifecycle THEN "select" ELSE "release"

\* Read dsi.containerID; without one the status is Initializing.
ReadContainerID(p) ==
  /\ Unlocked
  /\ \/ /\ containerID = "none"
        /\ Goto(p, "update", "publish")
        /\ next' = [next EXCEPT ![p] = "initializing"]
     \/ /\ containerID # "none"
        /\ Goto(p, "update", "inspect")
        /\ UNCHANGED next
  /\ UNCHANGED <<closeVars, statusVars, slotVars, callVars, initVars, docker, restarts>>

Inspect(p) ==
  /\ Answers /\ container # "absent"
  /\ Goto(p, "inspect", "publish")
  /\ next' = [next EXCEPT ![p] = StatusOf(container)]
  /\ UNCHANGED <<closeVars, statusVars, slotVars, callVars, initVars, docker, restarts>>

\* ContainerInspect fails: the status stays what it was.
InspectFails(p) ==
  /\ ~Answers \/ container = "absent"
  /\ Goto(p, "inspect", AfterUpdate(p))
  /\ blind' = TRUE
  /\ UNCHANGED <<closeVars, status, containerID, mu, slotVars, next, callVars, initVars,
                 docker, restarts>>

Publish(p) ==
  /\ Goto(p, "publish", "publishing")
  /\ LockAndSet(p, next[p])
  /\ next' = [next EXCEPT ![p] = "none"]
  /\ blind' = FALSE
  /\ UNCHANGED <<closeVars, containerID, slotVars, callVars, initVars, docker, restarts>>

UpdateStatus(p) ==
  \/ ReadContainerID(p)
  \/ Inspect(p)
  \/ InspectFails(p)
  \/ Publish(p)
  \/ Unlock(p, "publishing", AfterUpdate(p))

-----------------------------------------------------------------------------
(* Start, Stop and Kill.                                                   *)

RequiredWeak(o) == IF o = "start" THEN "initializing" ELSE "running"
Required(o)  == IF o = "start" THEN "idle" ELSE "running"
Transient(o) == IF o = "start" THEN "starting" ELSE "stopping"
Goal(o)      == IF o = "start" THEN "running" ELSE "exited"

\* The deferred actionDone() updates the status, then sends on doneChan.
DoneOnly == "release"
DeferredDone == "update"

Call(c, o) ==
  /\ Goto(c, "idle", "acquire")
  /\ op' = [op EXCEPT ![c] = o]
  /\ UNCHANGED <<closeVars, statusVars, slotVars, next, target, initVars, docker, restarts>>

\* Check dsi.Status(); an action that does not fit it only updates the status.
CheckStatus(c) ==
  /\ Unlocked
  /\ Goto(c, "check", IF status = Required(op[c]) THEN "fetch" ELSE DeferredDone)
  /\ UNCHANGED <<closeVars, statusVars, slotVars, next, callVars, initVars, docker, restarts>>

FetchContainerID(c) ==
  /\ Unlocked
  /\ Goto(c, "fetch", "announce")
  /\ target' = [target EXCEPT ![c] = containerID]
  /\ UNCHANGED <<closeVars, statusVars, slotVars, next, op, initVars, docker, restarts>>

\* setStatus(Starting) or setStatus(Stopping).
Announce(c) ==
  /\ Goto(c, "announce", "announcing")
  /\ LockAndSet(c, Transient(op[c]))
  /\ UNCHANGED <<closeVars, containerID, blind, slotVars, next, callVars, initVars, docker,
                 restarts>>

\* ContainerStart, ContainerStop or ContainerKill ends: it took effect or it did
\* not, and its error, if any, is only logged.
DockerCall(c) ==
  /\ Goto(c, "call", DeferredDone)
  /\ \/ UNCHANGED container
     \/ /\ dockerUp /\ container # "absent" /\ target[c] # "none"
        /\ container' = Goal(op[c])
  /\ UNCHANGED <<closeVars, statusVars, slotVars, next, callVars, initVars, ownImage, dockerUp,
                 restarts>>

Action(c) ==
  \/ CheckStatus(c)
  \/ FetchContainerID(c)
  \/ Announce(c)
  \/ Unlock(c, "announcing", "call")
  \/ DockerCall(c)

-----------------------------------------------------------------------------
(* lifecycleInit and the rest of NewInstance's goroutine.                  *)

InitReturns(from, id, err) ==
  /\ Goto(Initializer, from, "update")
  /\ found' = id
  /\ initErr' = err

\* The list holds containers in any state (ListOptions{All: true}).
ListedRunning == container = "running"
Listed == container # "absent"

\* ContainerList: adopt the container named after the instance.  When its image
\* is another one, errors.Wrapf wraps the nil error of the list: nil is returned.
ListContainers ==
  /\ \/ ~Answers /\ InitReturns("list", "none", TRUE)
     \/ Answers /\ Listed /\ ~ownImage /\ InitReturns("list", "none", FALSE)
     \/ Answers /\ Listed /\ ownImage /\ InitReturns("list", "id", FALSE)
     \/ /\ Answers /\ ~Listed
        /\ Goto(Initializer, "list", "images")
        /\ UNCHANGED initVars
  /\ UNCHANGED <<closeVars, statusVars, slotVars, next, callVars, docker, restarts>>

\* ImageList: the image is there, or must be pulled.
ListImages ==
  /\ \/ ~Answers /\ InitReturns("images", "none", TRUE)
     \/ /\ Answers
        /\ \E pc1 \in {"pull", "create"} : Goto(Initializer, "images", pc1)
        /\ UNCHANGED initVars
  /\ UNCHANGED <<closeVars, statusVars, slotVars, next, callVars, docker, restarts>>

\* ImagePull and its progress up to EOF; the pull may fail at any point.
PullImage ==
  /\ \/ InitReturns("pull", "none", TRUE)
     \/ /\ Answers
        /\ Goto(Initializer, "pull", "create")
        /\ UNCHANGED initVars
  /\ UNCHANGED <<closeVars, statusVars, slotVars, next, callVars, docker, restarts>>

\* ContainerCreate: it may fail, and it may take effect with its answer lost.
CreateContainer ==
  /\ \/ InitReturns("create", "none", TRUE) /\ UNCHANGED <<container, ownImage>>
     \/ /\ dockerUp /\ container = "absent"
        /\ container' = "created"
        /\ ownImage' = TRUE
        /\ \/ Answers /\ InitReturns("create", "id", FALSE)
           \/ InitReturns("create", "none", TRUE)
  /\ UNCHANGED <<closeVars, statusVars, slotVars, next, callVars, dockerUp, restarts>>

\* lifecycleInit succeeded: remember the container, then attach to it.
StoreContainerID ==
  /\ Unlocked
  /\ Goto(Initializer, "store", "attach")
  /\ containerID' = found
  /\ UNCHANGED <<closeVars, status, mu, blind, slotVars, next, callVars, initVars, docker,
                 restarts>>

\* lifecycleInit failed: setStatus(Errored), outside the action slot.
FailInit ==
  /\ Goto(Initializer, "fail", "failing")
  /\ LockAndSet(Initializer, "errored")
  /\ UNCHANGED <<closeVars, containerID, blind, slotVars, next, callVars, initVars, docker,
                 restarts>>

\* ContainerAttach: the goroutine ends when it fails.
Attach ==
  /\ \/ Goto(Initializer, "attach", "ended")
     \/ /\ Answers /\ container # "absent" /\ containerID # "none"
        /\ Goto(Initializer, "attach", "attached")
  /\ UNCHANGED <<closeVars, statusVars, slotVars, next, callVars, initVars, docker, restarts>>

\* The attach loop ends when the context is cancelled or a write fails.
Detach ==
  /\ Goto(Initializer, "attached", "ended")
  /\ UNCHANGED <<closeVars, statusVars, slotVars, next, callVars, initVars, docker, restarts>>

Initialize ==
  \/ ListContainers
  \/ ListImages
  \/ PullImage
  \/ CreateContainer
  \/ StoreContainerID
  \/ FailInit
  \/ Unlock(Initializer, "failing", "ended")
  \/ Attach
  \/ Detach

-----------------------------------------------------------------------------
(* Close, the daemon and the process.                                      *)

\* ctxCancel(); the goroutine then waits on ctxCancelDone.
Close ==
  /\ closer = "open"
  /\ closer' = "waiting"
  /\ ctxDone' = TRUE
  /\ UNCHANGED <<statusVars, slotVars, pc, next, callVars, initVars, docker, restarts>>

\* lifecycle's deferred send on ctxCancelDone meets Close's receive.
CloseReturns ==
  /\ closer = "waiting"
  /\ Goto(Lifecycle, "signal", "exited")
  /\ closer' = "returned"
  /\ UNCHANGED <<ctxDone, statusVars, slotVars, next, callVars, initVars, docker, restarts>>

\* The container stops, pauses, is started or is removed by other hands.
ContainerChanges ==
  /\ container # "absent"
  /\ container' \in Containers \ {"created", container}
  /\ UNCHANGED <<closeVars, statusVars, slotVars, pc, next, callVars, initVars, ownImage,
                 dockerUp, restarts>>

DaemonChanges ==
  /\ dockerUp' = ~dockerUp
  /\ UNCHANGED <<closeVars, statusVars, slotVars, pc, next, callVars, initVars, container,
                 ownImage, restarts>>

\* The process dies, at any point, and is started again; the container survives.
Restart ==
  /\ restarts < MaxRestarts
  /\ restarts' = restarts + 1
  /\ ctxDone' = FALSE /\ closer' = "open"
  /\ status' = "initializing" /\ containerID' = "none" /\ mu' = Nobody /\ blind' = FALSE
  /\ accepting' = TRUE /\ actionDone' = Nobody
  /\ pc' = StartPc /\ next' = NoNext
  /\ op' = NoOp /\ target' = NoTarget
  /\ found' = "none" /\ initErr' = FALSE
  /\ UNCHANGED docker

-----------------------------------------------------------------------------
\* The steps of a worker, without a client's choice to make a call.
WorkerStep(w) ==
  \/ Accept(w) \/ Refuse(w) \/ Finish(w) \/ Drain(w)
  \/ UpdateStatus(w)

Next ==
  \/ \E w \in Workers : WorkerStep(w)
  \/ \E c \in Callers, o \in Ops : Call(c, o)
  \/ \E c \in Callers : Action(c)
  \/ Initialize
  \/ Tick \/ Leave
  \/ UpdateStatus(Lifecycle)
  \/ Close \/ CloseReturns
  \/ ContainerChanges \/ DaemonChanges \/ Restart

(***************************************************************************)
(* A goroutine that can go on does; requests to the daemon and dispatches  *)
(* end, but the pull of an image and the attachment only when the context  *)
(* is cancelled.  Fairness is strong where goroutines contend again and    *)
(* again: Go serves the senders on a channel in order, a writer waiting    *)
(* for an RWMutex holds off later readers, and a select draws at random    *)
(* among the cases that are ready.  Nothing is assumed of the clients, the *)
(* daemon's state and the process.                                         *)
(***************************************************************************)
Fairness ==
  /\ \A p \in Updaters : WF_vars(UpdateStatus(p))
  /\ \A c \in Callers : WF_vars(Action(c))
  /\ \A w \in Workers : SF_vars(Accept(w) \/ Refuse(w)) /\ WF_vars(Finish(w) \/ Drain(w))
  /\ SF_vars(Initialize /\ (pc[Initializer] \notin {"pull", "attached"} \/ ctxDone))
  /\ WF_vars(Tick)
  /\ SF_vars(Leave)
  /\ WF_vars(CloseReturns)

Spec == Init /\ [][Next]_vars /\ Fairness

-----------------------------------------------------------------------------
(* Safety.                                                                 *)

TypeOK ==
  /\ ctxDone \in BOOLEAN
  /\ closer \in {"open", "waiting", "returned"}
  /\ status \in Statuses
  /\ containerID \in {"none", "id"}
  /\ mu \in Updaters \cup {Nobody}
  /\ accepting \in BOOLEAN
  /\ actionDone \in Workers \cup {Nobody}
  /\ pc \in [Updaters -> Pcs]
  /\ next \in [Updaters -> Statuses \cup {"none"}]
  /\ op \in [Callers -> Ops \cup {"none"}]
  /\ target \in [Callers -> {"none", "id"}]
  /\ found \in {"none", "id"}
  /\ initErr \in BOOLEAN
  /\ blind \in BOOLEAN
  /\ container \in Containers
  /\ ownImage \in BOOLEAN
  /\ dockerUp \in BOOLEAN
  /\ restarts \in Nat

\* p works on the instance: it is inside an action or a poll.
Working(p) == pc[p] \in UpdatePcs \cup ActionPcs \cup InitPcs \cup {"release"}

\* "Block new actions while we're working" (lifecycle.go:39): no two of the
\* actions, the initialization and the poll ever overlap.
OneAtATime == \A p, q \in Updaters : Working(p) /\ Working(q) => p = q

\* A container is started, stopped or killed only under the ID that the
\* initialization stored, however early the client calls: a status that lets an
\* action through is only ever published once the ID is known.
CallsHaveContainer ==
  /\ \A c \in Callers : pc[c] \in {"announce", "announcing", "call"} => target[c] = "id"
  /\ status \in {"idle", "starting", "running", "stopping"} => containerID = "id"

\* A container left by an earlier run is found again: ContainerCreate is reached
\* only when there is none, also after a crash between its effect and its answer.
AdoptsExisting == pc[Initializer] = "create" => container = "absent"

\* When Close has returned no action is in flight and none will be let in.
ClosedIsQuiet ==
  closer = "returned" => pc[Lifecycle] = "exited" /\ \A p \in Updaters : ~Working(p)

\* Starting and Stopping do not outlive the action that set them, unless its
\* update, and every poll since, could not inspect the container.
TransientIsOwned ==
  status \in {"starting", "stopping"} /\ (\A p \in Updaters : ~Working(p)) => blind

\* lifecycleInit returns an error or a container: the goroutine of NewInstance
\* attaches only to a container.  Not so when the container found has another
\* image: the error it logs (lifecycle.go:137) is lost in wrapping a nil one.
AttachHasContainer == pc[Initializer] \in {"attach", "attached"} => containerID # "none"

-----------------------------------------------------------------------------
(* Waiting.                                                                *)

\* Who works on the instance, or is let in to.
Worker == IF pc[Lifecycle] \in UpdatePcs THEN Lifecycle ELSE actionDone

\* A read or write of dsi.mu comes next.
MuPcs == {"check", "fetch", "announce", "update", "publish", "store", "fail"}

\* p has to wait: for the slot, for lifecycle to take its send, for dsi.mu, for the
\* action in flight, or for Close.
Blocked(p) ==
  \/ pc[p] = "acquire" /\ ~Listening /\ ~ctxDone
  \/ pc[p] = "release" /\ ~(actionDone = p /\ pc[Lifecycle] \in {"select", "drain"})
  \/ pc[p] \in MuPcs /\ ~Unlocked
  \/ pc[p] = "drain" /\ ~(actionDone \in Workers /\ pc[actionDone] = "release")
  \/ pc[p] = "signal" /\ closer # "waiting"

\* Who keeps p waiting.
Blocker(p) == CASE pc[p] = "acquire"                  -> Worker
                [] pc[p] = "drain"                    -> actionDone
                [] pc[p] \in {"release", "signal"}    -> Nobody
                [] OTHER                              -> mu

\* p is at something and can go on with it.
Moves(p) ==
  p \in Updaters /\ pc[p] \notin {"idle", "select", "exited", "attached", "ended"} /\ ~Blocked(p)

\* Nobody waits in vain: whoever waits for the slot, for the action in flight or for
\* dsi.mu waits for a goroutine that moves, or that waits for one that does; an
\* action that is done, and lifecycle's farewell to Close, are always received.
NoDeadlock ==
  /\ \A p \in Updaters : Blocked(p) =>
       \E q \in Updaters : q = Blocker(p) /\ (Moves(q) \/ (Blocked(q) /\ Moves(Blocker(q))))
  /\ closer = "waiting" => pc[Lifecycle] # "exited"

-----------------------------------------------------------------------------
(* The promise of the interface.                                           *)

\* How far Close is, as the interface sees it.
Phase  == IF closer = "returned" THEN "closed" ELSE IF ctxDone THEN "closing" ELSE "open"

Server == INSTANCE ServerInstance WITH Agents <- Updaters, worker <- Worker, phase <- Phase

\* The instance is a server.ServerInstance: Starting follows only Idle, Stopping
\* only Running, a ready server is never Initializing again, and so on.
ImplementsServerInstance == Server!Spec

-----------------------------------------------------------------------------
(* Liveness.                                                               *)

\* Start, Stop and Kill return, closed or not, unless the pull of an image hangs.
ActionReturns ==
  \A c \in Callers : pc[c] = "acquire" ~> pc[c] = "idle" \/ pc[Initializer] = "pull"

\* Close returns, whatever is in flight: cancelling the context ends it.
CloseTerminates == closer = "waiting" ~> closer # "waiting"

\* While the instance is open and the daemon answers, a container that stays in
\* one state is eventually reported in that state, whatever clients attempt.
StatusConverges ==
  \A c \in Containers \ {"absent"} :
    <>[](Answers /\ containerID # "none" /\ container = c) => []<>(status = StatusOf(c))
=============================================================================
