# serverpouch in TLA+

serverpouch runs game servers in Docker containers and offers them over an HTTP
API. This directory holds a specification of its core, the TLC
configurations that check it on small instances, and proofs, checked by TLAPS,
of its safety for instances of any size. Paths below are relative to the
repository; `docker/` is `internal/infrastructure/docker/`, `events/` is
`internal/common/events/`.

## 1. The system

| component | state | operations | who it talks to |
|---|---|---|---|
| Docker server instance (`docker/lifecycle.go`, `instance.go`, `action.go`) | `dsi.status`, `dsi.containerID`, `dsi.mu`, `dsi.ctx`, `actionChan`, `ctxCancelDone`; `lifecycle`'s locals `actionChan` and `actionDone` | `NewInstance`, `Start`, `Stop`, `Kill`, `Status`, `Close`; goroutines `lifecycle`, and initialization with attachment | the Docker daemon; the three emitters of `dsi.events` |
| Server instance interface (`internal/domain/server/instance.go`) | status | the same, as an interface | implemented by the Docker instance |
| Event emitter (`events/events.go`) | `mu`, `listeners` | `On`, `Off`, `Dispatch`, `Close` | goroutines that receive from its channels |
| Registry, startup, shutdown (`cmd/serverpouch/main.go`, `internal/domain/usecases/`) | `srvInstances`, `srvMu`, the application context | `New`, `CreateServer`, `ListServers`, `GetServer`, `Close`; `main` | database, instances, HTTP server |
| HTTP handlers (`internal/delivery/http/`) | `appCtx`; the instances a handler has in hand | POST and GET on `/api/servers`; the router | usecases, instances |
| Database (`internal/infrastructure/database/`) | one pgx connection; the table `servers` | `CreateServer`, `ListServers`; `GetServer` and `UpdateServer`, which nothing calls | PostgreSQL |
| Terminal attachment (`docker/lifecycle.go:214-256`) | the attached connection, the emitters `TerminalIn` and `TerminalOut` | attach loop, scanner goroutine | daemon, emitters |
| Server configuration (`docker/config.go`, `http/openapi/server.go`) | none: conversions | `OAPIToConfig`, `ConfigToOAPI`, `toOptions`, JSON | HTTP, database, Docker |
| Migrations, generated code, mocks | none | - | - |

How they meet. `main` loads every row of the database and makes an instance for
each; each instance starts two goroutines. A handler of POST inserts a row,
makes an instance with the *application* context, publishes it in
`srvInstances` and answers. Clients of an instance reach `lifecycle` through an
unbuffered channel, on which they hand over a channel of their own to be
released with. Statuses go out through `dsi.events.Status`, dispatched while
`dsi.mu` is held. At a signal `main`'s deferred calls run backwards: HTTP
shutdown, `usc.Close`, which closes all instances in parallel, and the
application context.

What is hard here: an action slot handed around by channels and shared by
clients, a poll and an initialization, with cancellation from outside; a status
read under one lock and acted on later; a daemon whose calls fail, or take effect
with the answer lost, and whose containers change by other hands; death between
an effect and its record; an emitter whose dispatch waits for its slowest
listener with the mutex held; one database connection shared by all handlers; lists
that become maps, which Go ranges over in another order each time;
a shutdown whose safety rests on the order of deferred calls. `PROJECT.json`
lists each of these under `hazards`, at its line, with the properties that cover it.

What makes each component correct:

* *Instance*: one action, poll or initialization at a time; Docker is only told
  to act on a container that is known; a container that exists is adopted;
  nothing is in flight once `Close` returned; `Starting` and `Stopping` do not
  outlive their action; nobody waits in vain; the status follows the container; calls
  and `Close` return.
* *Interface*: the order of statuses a client may see.
* *Emitter*: no panic; a dispatch reaches exactly those subscribed at one moment, in
  order; `Dispatch` and `Off` return as long as listeners receive, and only such a
  listener can block them.
* *Registry*: what a client was told of is kept; one instance per server and
  process; instances outlive the request that made them; no handler works with
  a closed one; none is left running, whichever way `main` returns.
* *Status*: who can read a status finds that every listener has it, in the order
  of the assignments; calls return.
* *Attachment*: each client's commands are answered once and in order; an
  attachment ends with everything it has opened; commands and the terminal flow.
* *Configuration*: what is stored, answered and handed to Docker is what the client
  asked for, in every process and in whatever order maps are ranged over.

## 2. Modules

| module | contents |
|---|---|
| `DockerInstance` | the instance, its clients, `NewInstance`'s goroutines, the daemon, death and restart; its properties |
| `ServerInstance` | the abstract specification: what a client of `server.ServerInstance` may rely on |
| `DockerInstanceInv`, `DockerInstanceProofs` | the inductive invariant; the theorems |
| `EventEmitter` | the emitter with listeners, dispatchers and a closer |
| `Broadcast` | the abstract specification: what `events.EventEmitter` promises, without mutex and goroutines |
| `RWMutex` | `sync.RWMutex`, instantiated by `EventEmitter` and `StatusEvents` (external to the repository) |
| `EventEmitterInv`, `EventEmitterProofs` | likewise |
| `StatusEvents`, `StatusEventsProofs` | `dsi.mu`, `dsi.status` and its listeners: composes `RWMutex` (as `dsi.mu`) with `EventEmitter` (as `Events().Status`) |
| `Terminal`, `TerminalProofs` | the attach loop and its scanner: composes `EventEmitter` (as `Events().TerminalIn`) with the connection, the container and the consoles |
| `Servers` | the abstract specification: what the program promises of its servers, whatever process it runs as |
| `ServerRegistry` | `main`, usecases, the handlers, the database connection, death and restart |
| `ServerRegistryInv`, `ServerRegistryProofs` | likewise |
| `ServerConfig` | a configuration on its way from request to row, instance, answer and container |
| `ServerConfigProofs` | the theorems; the inductive invariant is in `ServerConfig` |
| `MC*` | what TLC needs in addition: symmetry, a reduced next-state relation for one liveness run |

Where two components share steps they are composed in one state space:
`StatusEvents` and `Terminal` instantiate `EventEmitter` and conjoin its actions
with theirs, so that all interleavings of the two are there. Elsewhere they
compose by assumption and guarantee. `DockerInstance` takes from the emitter that
a dispatch ends (`DispatchReturns`; `StatusEvents` says for which listeners), and
reduces an instance's events to that. `Terminal` reduces `TerminalOut` to the same.
`ServerRegistry` reduces an instance to whether it lives, and takes from
`DockerInstance` that `Close` returns (`CloseTerminates`).

### DockerInstance

`pc[p]` says where each goroutine is; a label names the call it is about to make.

| code | model |
|---|---|
| `select` of `lifecycle` (lifecycle.go:34-54) | `Accept`, `Finish`, `Tick`, `Leave`, one per case; `accepting` says that the local `actionChan` is not nil, `actionDone` whose `doneChan` the local holds |
| its deferred calls (24-32) | `Deferred`, `Drain`, `CloseReturns` |
| `lifecycleAction` (59-71) | `Accept`, `Refuse`; the returned closure is `UpdateStatus` followed by `Finish` or `Drain` |
| `lifecycleActionUpdateStatus` (77-106) | `ReadContainerID`, `Inspect`, `InspectFails`, `Publish`, `Unlock` |
| `setStatus` (instance.go:40-46) | two steps, `LockAndSet` and `Unlock`, as the dispatch happens with `dsi.mu` held |
| `Start`, `Stop`, `Kill` (action.go) | `Call`, `Accept`, `CheckStatus`, `FetchContainerID`, `Announce`, `Unlock`, `DockerCall`, then the deferred update: one action per access to shared state. The three differ in the status they need, the one they set and what they do to the container (`Required`, `Transient`, `Goal`) |
| `lifecycleInit` (120-210) | `ListContainers`, `ListImages`, `PullImage`, `CreateContainer`; `InitReturns` is a return through the deferred `actionDone()` |
| `NewInstance`'s goroutine (instance.go:78-91) | the above, `StoreContainerID`, `FailInit`, `Attach`, `Detach` |
| `Close` (52-54) | `Close`, `CloseReturns` |
| the daemon | `container` (the state that inspection maps to a status), `ownImage`, `dockerUp`; `ContainerChanges`, `DaemonChanges` |
| death of the process | `Restart` |

An unbuffered channel operation is one joint step of its two goroutines. A read
under `RLock` is one step, enabled when nobody writes. A request with `dsi.ctx`
fails when the context is cancelled or the daemon is down, and may take effect
with its answer lost. The container may be in any state at the start: left by an
earlier run, or by a user. Requests to inspect, list and create are each one step.
`Server` maps the instance to `ServerInstance`: its worker is the
goroutine whose `doneChan` `lifecycle` holds, or `lifecycle` itself while it
polls; its phase is how far `Close` is. `Blocked(p)` says that `p` is at a channel
or at `dsi.mu` and has to wait there, `Blocker(p)` for whom.

### EventEmitter

`On`, `Off` and `Close` are a step that queues for the mutex (`Lock`) and a step
with the method's body and the deferred unlock. `Dispatch` is `CallDispatch` (the
call of `RLock`), `Spawn` (the goroutines), a `Deliver` for each channel, and
`Return` (`wg.Wait`, `RUnlock`). `RWMutex` has Go's rule that a waiting writer
holds off later readers, on which both deadlocks below rest. A listener is one
subscription. Those in `Draining` have another goroutine receive from the
channel until `Off` has closed it; the others stop receiving when they call `Off`,
as the code in the repository does. `heard` and `due` are history variables.
`Abstract` maps the emitter to `Broadcast`, which has neither mutex nor waiting
goroutines: a dispatch takes effect where it starts its goroutines, owes its value
to the listeners its goroutines have yet to send to, and ends where it returns;
subscriptions begin and end where `e.listeners` changes.

### StatusEvents

`setStatus` (instance.go:40-46) is `CallSetStatus`, `LockMu` (the announcement to
readers), `Assign` (the assignment and the call of `Dispatch`), `Spawn`, the
`Deliver`s, and `Return`, which ends the dispatch and runs the deferred unlock.
`Status()` (33-38) is `CallStatus` and `StatusReturns`. Its callers are readers,
such as HTTP handlers, and listeners between two receives. A status is the number
of the call of `setStatus` that assigned it, so that two of them can be told apart
and ordered; which status an action sets is `DockerInstance`'s matter. `seen` and
`told` are history variables. A listener in `Status()` does not receive, unless it
is in `Draining`.

Here, in `EventEmitter` and in `Terminal`, `Blocked(g)` says that `g` is in a method
and has to wait there. It is written out, since ENABLED is out of the prover's
reach; TLC, on the instances of the runs, found it to agree with ENABLED of the
steps that would take `g` on.

### Terminal

| code | model |
|---|---|
| `ContainerAttach` and its error (lifecycle.go:215-225) | `Attach`, `AttachFails`, `GiveUp` |
| `On` and the deferred `Off` and `attach.Close()` (226, 235-236) | `Attach` calls `On`; `LockInput`, `Subscribe`; `Leave` calls `Off`; `LockInput`, `Detach` |
| the loop's `select` (238-242) | `Receive`, `Leave` |
| `attach.Conn.Write` (248-253) | `Write`, `WriteFails`, and `Leave` once the complaint is shown |
| the scanner goroutine (228-233) | `Scan`, `ShowReturns`, `ScanEnds` |
| `TerminalOut.Dispatch` | `Show`: the consoles it waits for; it returns when each has done `View` |
| the clients, the container, the daemon | `Command`, `View`, `PrintLine`, `End`, `Cancel` |

A console is a client that shows the terminal and sends commands from one
goroutine: it does `View` only between two commands. A line is not told from
another but by its client and number; what is under way from the container is a
number of lines. `ScanEnds` is enabled whenever a line is under way, for it may be
too long for the scanner.

### ServerRegistry

`main` goes through loading, loaded, serving, shutdown, closing and exited; when
the router fails it goes from loaded to closing, as `usc.Close` is deferred by
then. A handler of POST goes through `Query` or `QueryRefused` (pgx refuses a query while another is on
the connection), `Insert` or `InsertFails`, `NewInstance`, `Publish`, `Respond`.
The context an instance is made with is kept in `parent`: `Respond` cancels the
instances made with the request's own context, of which the code makes none.
`usc.Close` reads the map without its mutex; `CloseInstance` ranges over the map
as it is at each step, so that a late `Publish` would be seen going wrong in
`ClosesAll`. `acked` is a history variable: what a client has been told.
A handler of GET goes through `LookUp`, which takes instances from the map under
`srvMu` into `found`, and `Encode`, which asks them for their status without it.
`Abstract` maps the registry to `Servers`: the process is up from the load of the
servers until `usc.Close`, what is known is what has a row, and what runs are the
instances that live.

### ServerConfig

The conversions are operators: `OAPIToConfig`, `ConfigToOAPI`, `ToJSON`,
`ConvertToServer` and `ToOptions` stand for the functions of these names. A loop
that assigns to a map is `Assign`, where the last of the entries with one key
remains; a `range` over a map is `Ranges`, all lists of its pairs, so what a
function with a `range` returns is a set. A port mapping's text keeps the leading
zeros that `Atoi` drops; a malformed entry, or a host port too large for `Atoi`,
is `Malformed`. The actions follow one server: the handlers of POST
and GET, the creation of its container, a restart that reads the row, a container
removed by other hands and created anew, and a client that posts what it was
told (`Copy`). POST is one step here; its steps are those of `ServerRegistry`.

## 3. Runs

| run | instance | checks |
|---|---|---|
| `docker_safety` | 2 clients, 1 restart | inductive invariant, with the types; `NoDeadlock`, `OneAtATime`, `CallsHaveContainer`, `AdoptsExisting`, `ClosedIsQuiet`, `TransientIsOwned`; refinement of `ServerInstance` |
| `docker_live` | 1 client, no restart | `CloseTerminates`, `StatusConverges` |
| `docker_contend` | 2 clients, no restart, `SteadySpec` | `ActionReturns` |
| `docker_mismatch` | 2 clients | violation: `AttachHasContainer` |
| `emitter_safety` | 3 listeners (1 drains), 2 dispatchers, 2 calls each, a closer | inductive invariant, with the types; `NoPanic`, `StuckOnlyInOff`, `InOrder`; refinement of `Broadcast` |
| `emitter_live` | 2 listeners (both drain), 2 dispatchers, 2 calls each | `DispatchReturns`, `OffRemoves` |
| `emitter_self_off` | 2 listeners, none drains | violation: `OffRemoves` |
| `status` | 2 goroutines that set statuses, 2 each; 2 listeners (1 drains), 1 reader | inductive invariant, with the types; `Latest`, `StuckOnlyInListeners`, `InStatusOrder`; `CallsReturn` |
| `terminal` | 2 clients (1 a console), 2 commands each, 2 lines under way | inductive invariant, with the types; `StuckOnlyInLeaving`, `InputInOrder`; `AttachmentEnds`, `TerminalFlows` |
| `registry` | 3 handlers, 3 servers, any number of deaths | inductive invariant, with the types; `AckedIsKept`, `OneInstanceEach`, `LivesOn`, `ClosesAll`, `HandlesLive`; refinement of `Servers`; `ShutdownEnds` |
| `config_safety` | lists of up to 2 entries over 2 host ports with 0 or 1 leading zeros, 2 container ports, 2 host paths, 1 container path, 2 variables | inductive invariant, with the types; `TellsWhatIs`, `OnlyAsked`, `BindsAll` |
| `config_ports` | the same | violation: `ExposesPorts` |

Why the bounds are enough to be of interest. Two clients and the initialization
are three that want the slot: one holds it, one waits while another is served.
One restart is what it takes to meet a container the process left behind. Three listeners and two dispatchers
let one subscription come, one stay and one go during two overlapping
dispatches; two calls each let a second one overtake. Three handlers on one
connection give a query that runs, one that is refused and a handler already past
it; deaths are not counted, so they need no bound. Two goroutines that set
statuses are what the code has (the worker and the failing initialization); two
calls each let a listener miss or swap one. A console and a client that is none
let a complaint meet a command of either; two lines under way let one arrive
after the connection is closed. `MaxRestarts`, `MaxDispatch`, `MaxStatus`,
`MaxInput` and `MaxOutput` are the only counters bounded. Two entries are what it takes for one
to meet another in a map, by its host port, its container port or both, and two
of each kind let them differ; `MaxEntries` bounds the lists. The proofs have no bounds
(section 5).

`SteadySpec` (docker_contend) restricts the *environment*: the daemon stays up
or down and a container changes only by what the instance asks. The full
environment with two clients is too large for TLC's liveness check; with one
client `docker_live` has it. `Alike` (emitter_safety) permutes dispatchers and
the listeners that do not drain; none of the properties of that run tells them
apart, and no liveness is checked with it.

TLC's deadlock check, which finds only states that nobody can leave, is on except
where goroutines may all have finished or are shown to be stuck: in `emitter_safety` and `emitter_self_off` a listener that does
not drain can block the emitter, which is the finding below; in `status` and
`terminal` callers may all be done, or stuck as section 4 describes; in `config_safety`
and `config_ports` a refused request ends the behaviour.

### Fairness

* A goroutine that can go on does: weak fairness for each step of actions,
  updates, handlers and `main`. Go's scheduler is preemptive.
* Strong fairness where goroutines contend for something again and again: the
  send on `actionChan` (senders on a channel are served in order),
  `lifecycle` leaving its loop (a select draws at random among the ready cases),
  the initialization (it takes `dsi.mu`, which readers and writers share in
  order) and `Lock`, `LockMu` and `LockInput` (the mutex inside `RWMutex` serves its
  waiters in order).
* Requests to the daemon end. The pull of an image and the attachment need not,
  unless the context is cancelled: `ActionReturns` excludes a pull that hangs,
  `CloseTerminates` does not, since cancelling ends it.
* Nothing is assumed of clients, of the daemon's availability, of a container's
  changes, of queries to the database, of signals and of the process's death.
  `StatusConverges`, `ShutdownEnds`, `CallsReturn`, `AttachmentEnds` and
  `TerminalFlows` carry their hypotheses in the formula.
* In `Terminal` a write to the connection ends, and a console that is not in a
  command comes back to receive.

## 4. What the runs show beside what holds

* **A container with another image is taken for success** (`docker_mismatch`).
  When the container of the instance's name runs another image, `lifecycleInit`
  wraps the nil error of `ContainerList` (lifecycle.go:138) and so returns no
  error and an empty ID. `NewInstance` then attaches to no container. The
  instance is never `Errored`; every update publishes `Initializing` and every
  action is ignored.
* **`Off` by the goroutine that receives can block the emitter**
  (`emitter_self_off`). `Dispatch` holds the mutex for reading until each
  listener has received; a listener that has stopped receiving and calls `Off`
  waits for the mutex. The attach loop (lifecycle.go:236) and the tests do so.
  With another goroutine that drains the channel, `Off` returns (`emitter_live`).
  It is the only way the emitter's methods can block each other (`StuckOnlyInOff`),
  and nothing ends it (`OffStaysStuck`): both are proved for any instance.
* **A listener of `Status` must not ask for it** (`CallsReturn` of `status`). The
  liveness property needs its hypothesis: `setStatus` dispatches with `dsi.mu`
  held, so a listener that calls `Status()` from the goroutine that receives can
  wait for `dsi.mu` while the `setStatus` that holds it waits for the listener. In
  exchange, whoever can read a status knows that all listeners have it (`Latest`).
  Proved for any instance: this and `Off` from that goroutine are the only ways to
  get stuck (`StuckOnlyInListeners`), and they are for good (`StuckForGood`).
  No document says which listeners are allowed, so this is no violation run.
* **A console can meet the attach loop's complaint** (`AttachmentEnds` and
  `TerminalFlows` of `terminal`). When a write fails the loop complains on
  `TerminalOut` before it calls `Off`; a console in a `Dispatch` on `TerminalIn` waits
  for the loop, and the loop for the console. Without a failed write and without
  the end of the instance, everything flows, also after the scanner has given up.
  That a loop which stops receiving is the only cause of a deadlock here is an
  invariant of the run, and proved (`StuckOnlyInLeaving`).
* **Not every port asked for is exposed** (`config_ports`). A configuration maps
  host ports to container ports (config.go:22), so a request for "80:80/tcp" and
  "80:80/udp" loses the first; and two host ports of one container port share one
  binding (config.go:42), left to whichever the range meets last. The API
  promises "The ports to expose on the server" (openapi.yml:118) and answers 201.

What holds is as informative. The status is read, checked and acted on under
separate locks, and the failing initialization sets `Errored` outside the slot,
yet the refinement holds: nobody else changes a status an action has checked.
`containerID` is stored after the slot is released, yet no action can run without
it. `usc.Close` reads the map unlocked, yet every instance is closed, because
`Shutdown` has waited for the handlers; for the same reason a GET handler that
uses instances after releasing `srvMu` finds them alive. What is lost of a
request's ports is lost once, when it is converted: from then on the row, the
instance, each answer and a copy made of it agree.

## 5. Proofs

All theorems hold for every value of the constants that satisfies the named
assumption of the module (`InstanceAssumption`, `EmitterAssumption`,
`StatusAssumption`, `TerminalAssumption`, `RegistryAssumption`,
`ConfigAssumption`): the kinds of goroutines are disjoint, `Nobody` is none of
them, bounds are natural numbers, a malformed entry is no entry. No constant set is assumed finite. Each module
has an invariant `...Inv` that TLC checks as well, proved by `Invariance`:
true initially and preserved by each action; the properties follow from it.

*DockerInstance* (`IndInv`). `SlotInv` says that whoever works is the one in
`actionDone`, that an open slot has none, and that `lifecycle` polls and leaves
only while there is none; `MutualExclusion` and `QuietAfterClose` follow.
`OneAtATime` is not inductive by itself, as it says nothing of the slot that lets
the next one in. `ContainerInv` says that what is about to be published as ready,
and every action past its check, has a stored container ID, and that the
initialization, once past the list, has no container yet; `ContainerKnown` and
`Adoption` follow. `StatusInv` says that an action past its check still finds
the status it checked, and that nobody is about to publish `Initializing` over a
ready status; that takes mutual exclusion, so it is proved last.
`TransientOwned` follows. `NobodyWaitsInVain` (`NoDeadlock`) needs two facts more. By
`SlotInv`, a goroutine that is in `actionDone` is at work or about to send on its
`doneChan`, and `lifecycle` is then at the `select` or in the deferred call, so that
`DoneIsReceived`; and `lifecycle` is past its loop only once the context is
cancelled. By `MuInv`, `dsi.mu` is held for writing only by a goroutine about to
release it. So whoever waits for `dsi.mu` waits for one that moves (`HolderMoves`),
and whoever waits for the slot or for the action in flight waits for a worker that
moves or waits for that one (`WorkerMoves`): no chain is longer. This is the safety
core of `ActionReturns` and `CloseTerminates`. `Refinement` shows `Spec => Server!Spec`: the initial
state maps to an initial state and each action, under `IndInv`, to a step of
`ServerInstance` or to a stutter, one step of the proof per action.

*EventEmitter* (`EmitterInv`). `MutexInv` relates the mutex to where goroutines
are; `SenderInv` says that whoever still sends belongs to a `Dispatch` that holds
the read lock, so that the channels it sends on are subscribed and open; with
that, `DueInv` and `OrderInv` say who is yet to be reached and by how much a
listener is behind; `ListedInv` says that those in `e.listeners` have subscribed and
not yet left. `NeverPanics`, `DispatchReaches` and `DeliveryInOrder` follow.
`Refinement` shows `Spec => Abstract!Spec`, one step per action: a writer is alone
(`WritesAlone`), so nobody comes or goes with a dispatch in effect; a dispatch starts
one goroutine per open channel, so it owes its value to exactly those subscribed;
the other steps leave the mapping alone (`Mapping`, `CallsKept`).
`DeadlocksOnlyInOff` (`StuckOnlyInOff`) follows the mutex: who waits for it waits for
a writer, which waits for a `Dispatch`, which waits for a listener that has left its
loop; by `ListedInv` such a listener is in `Off`. `OffDeadlocks` shows that this
`Dispatch`'s goroutine and that `Off` survive every step.

*StatusEvents* (`StatusInv`) and *Terminal* (`TerminalInv`) are proved on top of
`EventEmitter`: `EventEmitterProofs` is instantiated with the updaters, or the
clients, as dispatchers, and its lemmas are cited for the emitter's part.
`EmitterWithin` shows that each step of the composition is one of the emitter or
leaves it alone, so that the theorems above hold of the emitter inside it. For the
status, `MuInv` says that a `Dispatch` runs only with `dsi.mu` held, so that one
runs at a time, and `SeenInv` that `dsi.status` is one ahead of what was handed out
while it is to be handed out, and a listener one behind while a goroutine still
sends to it; `ListenersAreTold` and `StatusOrder` follow. `DeadlocksOnlyInListeners`
follows the two mutexes in their order, `dsi.mu` before the emitter's: whoever waits
for the first waits for a `setStatus` in its dispatch, and that one as above. Its
lemma `WriterMoves` finds who moves when a writer waits; `ListedInv` keeps a listener
that is in `Status()` subscribed. `DeadlocksStay` is the action property that goes
with it. For the terminal,
`LoopInv` relates where the loop is to its subscription and connection, and
`AnswerInv` says that what the loop has received is answered, or in its hand;
`InputOrder` follows, and `DeadlocksOnlyInLeaving` (`StuckOnlyInLeaving`) by the same
argument, with consoles in the place of listeners.

*ServerRegistry* (`RegistryInv`). `HandlerInv` says that handlers with a row in
hand have different ones and run only while `main` waits for them;
`InstanceInv` that each instance is published or about to be and lives until
`main` closes it. `AckedKept`, `OneInstance`, `RequestsEnd`, `NothingLeft` and
`OnlyLive` follow. `Refinement` shows `Spec => Abstract!Spec`, one step of the proof
per action: it needs the invariant where a row without an instance could be
acknowledged, or an instance be left when the process halts.

*ServerConfig* (`ConfigInv`). The row is what the request asks for, so a process that
starts again has it too; the options are ones that `ToOptions` may return for it.
All rests on `AssignRange`: a range over a finite map lists each pair once, and
assigning such a list gives the map again. `LastEntry` (the last of the entries
with one key exists, by well-foundedness of `<`), `MapOfList` (a map has no more
pairs than the list it came from, so an answer is again a list of at most
`MaxEntries`) and `BindingsOfPorts` are the other lemmas. `RoundTrip`,
`BindsOnlyAsked` and `BindsAllAsked` follow.

Only model-checked: liveness (`CloseTerminates`, `StatusConverges`,
`ActionReturns`, `DispatchReturns`, `OffRemoves`, `CallsReturn`, `AttachmentEnds`,
`TerminalFlows`, `ShutdownEnds`), which rests on fairness and so is out of the
prover's reach. Every invariant, every action property and every refinement a run
checks is proved. `NoDeadlock` and the `StuckOnly...` invariants are the part of
liveness that can be: they say that somebody involved can always go on, for any
number of goroutines; that he does, and how often, is for the runs.

Proved, and in no run: `ReachesAll` (also a consequence of `ImplementsBroadcast`),
`OffStaysStuck` and `StuckForGood`. TLC has checked them on the instances of
`emitter_safety` and `status`.

## 6. Not modelled, and why

* The events `lifecycleInit` dispatches while it pulls, and the text of all
  events: no property depends on them.
* The slot of `DockerInstance` together with the emitters: `DockerInstance` takes it
  that dispatches end. A client that calls `Start`, `Stop` or `Kill` from the
  goroutine that shows the terminal breaks that, since a refusal is dispatched on
  `TerminalOut` with the slot held (action.go:25). The product of the two models is
  out of TLC's reach.
* Listeners that do more than listen. Those of `EventEmitter` call `On` and `Off` and
  do not dispatch on the same emitter; those of `StatusEvents` call `Status()` besides,
  but set no status: a listener of `Status` that calls `Start`, `Stop` or `Kill` from
  the goroutine that receives waits for the slot as well. The assumptions of the
  modules keep them apart, and the theorems on deadlocks are relative to that.
* A container that blocks its input until its output is read: `Terminal` takes it
  that a write to the connection ends.
* What becomes of the status of a container removed by other hands (it stays as it
  was), and of the terminal of a server started again (it is not attached again):
  no document promises anything of either.
* How the terminal's lines are cut and ended, and what happens to commands sent
  while nobody is attached: `Dispatch` with no listener returns at once, as in `EventEmitter`.
* Effects the daemon delays beyond its answer, other than lost answers.
* A second `Close` of an instance, which would wait for ever: its only caller
  calls once. `Close` of `TerminalIn` and `Status`, which has no caller: `Closer` is
  nobody there. (A closed `TerminalIn` would feed the attach loop zero values for ever.)
* Reading of the environment, logging, migrations, generated code: no state of
  this program; in `ServerRegistry` all that main needs before it loads the servers is
  there, or `LoadFails`. `ListenAndServe`'s error is dropped by the code, and nothing reacts to it.
* The image of a configuration, which is passed on as it is, and what the container's
  configuration repeats of the host's (`ExposedPorts`, `Volumes`).
* Encoding errors of responses: every configuration this code makes encodes. The
  database's `GetServer` and `UpdateServer`, which nothing calls.

## 7. Plan

Done, in this order: `DockerInstance` with `ServerInstance`, `EventEmitter` with
`RWMutex`, `ServerRegistry`, `ServerConfig`, then `StatusEvents`, `Terminal`, and
`Servers` with the refinement, each with its invariant, runs and theorems; then
`Broadcast` with its refinement, and who may wait for whom.

To come: a composition of `ServerRegistry` with instances whose `Close` takes
steps; the slot of `DockerInstance` with a dispatch that waits for its listeners
(action.go:25, section 6). Once the code has them: `UpdateServer` with a caller, and an attachment
that is renewed when a server is started again.
