--------------------------- MODULE ServerRegistry ---------------------------
(***************************************************************************)
(* The process around the server instances: main, which loads the servers  *)
(* from the database, serves HTTP until a signal and closes what it opened *)
(* (cmd/serverpouch/main.go); the handlers of POST /api/servers, which     *)
(* write a row, make an instance and publish it, and those of GET, which   *)
(* answer from published instances (delivery/http/server.go,               *)
(* domain/usecases); and the database behind its one shared connection     *)
(* (infrastructure/database).  The process may die at any point; the rows  *)
(* stay.  An instance is reduced to whether it lives, see ServerInstance.  *)
(***************************************************************************)

CONSTANTS
  Requests,  \* handlers of requests, each with a context of its own
  Servers,   \* the IDs the database draws for rows
  App,       \* the application context
  Nobody     \* no handler, no ID

ASSUME RegistryAssumption ==
  /\ App \notin Requests
  /\ Nobody \notin Requests \cup Servers

VARIABLES
  main,          \* where main is
  rows,          \* the database: the IDs of its rows
  querier,       \* the handler whose query is on the connection
  connLost,      \* the connection is gone; no new one is made
  srvInstances,  \* usc.srvInstances: the IDs with a published instance
  instance,      \* the life of each instance in this process
  parent,        \* the context each instance was made with
  pc,            \* where each handler is
  id,            \* the ID of the row each handler has inserted
  found,         \* the servers whose instances each handler has taken from the map
  acked          \* history: the servers a client was told of (201 Created)

database == <<rows, querier, connLost>>
registry == <<srvInstances, instance, parent>>
handlers == <<pc, id, found, acked>>
vars == <<main, database, registry, handlers>>

Idle == [r \in Requests |-> "idle"]
NoID == [r \in Requests |-> Nobody]
NotFound == [r \in Requests |-> {}]
None == [s \in Servers |-> "none"]

Init ==
  /\ main = "loading"
  /\ rows \in SUBSET Servers /\ querier = Nobody /\ connLost = FALSE
  /\ srvInstances = {} /\ instance = None /\ parent = [s \in Servers |-> App]
  /\ pc = Idle /\ id = NoID /\ found = NotFound
  /\ acked = {}

Goto(r, from, to) == pc[r] = from /\ pc' = [pc EXCEPT ![r] = to]

\* convertToServer takes the instance's ID from the row: the JSON has none.
ConvertZero(s) == CHOOSE zero \in Servers : TRUE
ConvertToServer(s) == s

-----------------------------------------------------------------------------
(* Startup: usecases.New and init, then the router and the HTTP server.    *)

\* The configurations of all rows.
Loaded == {ConvertToServer(s) : s \in rows}

\* An instance is made for every row.
Load ==
  /\ main = "loading"
  /\ srvInstances' = Loaded
  /\ instance' = [s \in Servers |-> IF s \in srvInstances' THEN "live" ELSE "none"]
  /\ main' = "loaded"
  /\ UNCHANGED <<database, parent, handlers>>

\* Something main needs is missing, the database is not reached or not migrated,
\* or a row is not converted: main returns before it defers usc.Close.
LoadFails ==
  /\ main = "loading"
  /\ main' = "exited"
  /\ UNCHANGED <<database, registry, handlers>>

\* The router is made, ListenAndServe started and Shutdown deferred.
Serve ==
  /\ main = "loaded"
  /\ main' = "serving"
  /\ UNCHANGED <<database, registry, handlers>>

\* httpRepo.New fails: main returns, and its deferred usc.Close runs.
RouterLeaves ==
  /\ main = "loaded"
  /\ main' = "exited"
  /\ UNCHANGED <<database, registry, handlers>>

RouterFails ==
  /\ main = "loaded"
  /\ main' = "closing"
  /\ UNCHANGED <<database, registry, handlers>>

-----------------------------------------------------------------------------
(* CreateServer, from the HTTP handler down to the row and back.           *)

\* The first bytes of a request are read; Shutdown will wait for its handler.
Receive(r) ==
  /\ main = "serving"
  /\ Goto(r, "idle", "insert") \/ Goto(r, "idle", "lookup")
  /\ UNCHANGED <<main, database, registry, id, found, acked>>

Query(r) ==
  /\ querier = Nobody /\ ~connLost
  /\ Goto(r, "insert", "inserting")
  /\ querier' = r
  /\ UNCHANGED <<main, rows, connLost, registry, id, found, acked>>

\* pgx fails at once when the connection is busy or closed: 500.
QueryRefused(r) ==
  /\ querier # Nobody \/ connLost
  /\ Goto(r, "insert", "idle")
  /\ UNCHANGED <<main, database, registry, id, found, acked>>

\* INSERT INTO servers.
NotCommitted(s) == rows
Committed(s) == rows \cup {s}

\* The row is committed and returned with the ID the database drew for it.
Insert(r) ==
  /\ Goto(r, "inserting", "instantiate")
  /\ querier' = Nobody
  /\ \E s \in Servers \ rows :
       /\ rows' = Committed(s)
       /\ id' = [id EXCEPT ![r] = ConvertToServer(s)]
  /\ UNCHANGED <<main, connLost, registry, found, acked>>

\* The insert fails; with the connection lost it may have been committed.
InsertFails(r) ==
  /\ Goto(r, "inserting", "idle")
  /\ querier' = Nobody
  /\ \/ connLost' \in BOOLEAN /\ UNCHANGED rows
     \/ connLost' = TRUE /\ \E s \in Servers \ rows : rows' = Committed(s)
  /\ UNCHANGED <<main, registry, id, found, acked>>

\* The handler passes on hi.appCtx, not the context of its request.
RequestContext(r) == r
InstanceContext(r) == App

NewInstance(r) ==
  /\ Goto(r, "instantiate", "publish")
  /\ instance' = [instance EXCEPT ![id[r]] = "live"]
  /\ parent' = [parent EXCEPT ![id[r]] = InstanceContext(r)]
  /\ UNCHANGED <<main, database, srvInstances, id, found, acked>>

\* usc.srvInstances[id] = inst, under srvMu.Lock().
Publish(r) ==
  /\ Goto(r, "publish", "respond")
  /\ srvInstances' = srvInstances \cup {id[r]}
  /\ UNCHANGED <<main, database, instance, parent, id, found, acked>>

\* 201 Created; the context of the request is cancelled when its handler ends.
Respond(r) ==
  /\ Goto(r, "respond", "idle")
  /\ acked' = acked \cup {id[r]}
  /\ id' = [id EXCEPT ![r] = Nobody]
  /\ instance' = [s \in Servers |->
       IF instance[s] = "live" /\ parent[s] = r THEN "cancelled" ELSE instance[s]]
  /\ UNCHANGED <<main, database, srvInstances, parent, found>>

CreateServer(r) ==
  \/ Query(r) \/ QueryRefused(r)
  \/ NewInstance(r) \/ Publish(r) \/ Respond(r)

-----------------------------------------------------------------------------
(* GET /api/servers/{id} and GET /api/servers.                             *)

\* Both read the map under srvMu.RLock().
ListServers  == srvInstances
GetServer(s) == s \in srvInstances

LookUp(r) ==
  /\ Goto(r, "lookup", "encode")
  /\ \/ found' = [found EXCEPT ![r] = ListServers]
     \/ \E s \in Servers : GetServer(s) /\ found' = [found EXCEPT ![r] = {s}]
  /\ UNCHANGED <<main, database, registry, id, acked>>

\* 404
LookUpFails(r) ==
  /\ \E s \in Servers : ~GetServer(s)
  /\ Goto(r, "lookup", "idle")
  /\ UNCHANGED <<main, database, registry, id, found, acked>>

\* ServerToOAPI asks the instances for their status, after srvMu is released.
Encode(r) ==
  /\ Goto(r, "encode", "idle")
  /\ found' = [found EXCEPT ![r] = {}]
  /\ UNCHANGED <<main, database, registry, id, acked>>

Get(r) == LookUp(r) \/ LookUpFails(r) \/ Encode(r)

-----------------------------------------------------------------------------
(* Shutdown, in the order of main's deferred calls, and death.             *)

\* SIGINT or SIGTERM: Shutdown stops accepting requests.
Signal ==
  /\ main = "serving"
  /\ main' = "shutdown"
  /\ UNCHANGED <<database, registry, handlers>>

\* Shutdown returns once no handler is running.
HandledAny == TRUE
Handled == \A r \in Requests : pc[r] = "idle"

\* usc.Close starts: it reads usc.srvInstances without srvMu.
ShutdownReturns ==
  /\ main = "shutdown"
  /\ Handled
  /\ main' = "closing"
  /\ UNCHANGED <<database, registry, handlers>>

CloseInstance(s) ==
  /\ main = "closing" /\ s \in srvInstances
  /\ instance[s] # "closed"
  /\ instance' = [instance EXCEPT ![s] = "closed"]
  /\ UNCHANGED <<main, database, srvInstances, parent, handlers>>

\* wg.Wait() in usc.Close.
AllClosedRows == \A s \in rows : instance[s] = "closed"
AllClosed == \A s \in srvInstances : instance[s] = "closed"

\* usc.Close returns, then the application context is cancelled.
Exit ==
  /\ main = "closing"
  /\ AllClosed
  /\ main' = "exited"
  /\ UNCHANGED <<database, registry, handlers>>

\* The process ends, or dies, and is started again.  An insert that is on its
\* way to the database may be committed all the same.
Restart ==
  /\ main' = "loading"
  /\ \/ UNCHANGED rows
     \/ /\ querier # Nobody
        /\ \E s \in Servers \ rows : rows' = Committed(s)
  /\ querier' = Nobody /\ connLost' = FALSE
  /\ srvInstances' = {} /\ instance' = None /\ parent' = [s \in Servers |-> App]
  /\ pc' = Idle /\ id' = NoID /\ found' = NotFound
  /\ UNCHANGED acked

\* The connection breaks between two queries.
ConnectionBreaks ==
  /\ querier = Nobody /\ ~connLost
  /\ connLost' = TRUE
  /\ UNCHANGED <<main, rows, querier, registry, handlers>>

-----------------------------------------------------------------------------
Next ==
  \/ Load \/ LoadFails \/ Serve \/ RouterFails
  \/ \E r \in Requests :
       Receive(r) \/ CreateServer(r) \/ Insert(r) \/ InsertFails(r) \/ Get(r)
  \/ Signal \/ ShutdownReturns \/ Exit
  \/ \E s \in Servers : CloseInstance(s)
  \/ ConnectionBreaks \/ Restart

(***************************************************************************)
(* Handlers and main run on, and instances close (DockerInstance,          *)
(* CloseTerminates).  Nothing is assumed of clients, of the database, of   *)
(* signals and of the process.                                             *)
(***************************************************************************)
Fairness ==
  /\ \A r \in Requests : WF_vars(CreateServer(r)) /\ WF_vars(Get(r))
  /\ WF_vars(ShutdownReturns) /\ WF_vars(Exit)
  /\ \A s \in Servers : WF_vars(CloseInstance(s))

Spec == Init /\ [][Next]_vars /\ Fairness

-----------------------------------------------------------------------------
(* Safety.                                                                 *)

TypeOK ==
  /\ main \in {"loading", "loaded", "serving", "shutdown", "closing", "exited"}
  /\ rows \subseteq Servers
  /\ querier \in Requests \cup {Nobody}
  /\ connLost \in BOOLEAN
  /\ srvInstances \subseteq Servers
  /\ instance \in [Servers -> {"none", "live", "cancelled", "closed"}]
  /\ parent \in [Servers -> Requests \cup {App}]
  /\ pc \in [Requests -> {"idle", "insert", "inserting", "instantiate", "publish", "respond",
                         "lookup", "encode"}]
  /\ id \in [Requests -> Servers \cup {Nobody}]
  /\ found \in [Requests -> SUBSET Servers]
  /\ acked \subseteq Servers

\* A server its client was told of is never lost: it has a row, whatever dies,
\* and while requests are served GetServer and ListServers find it, also in every
\* later process.
AckedIsKept ==
  /\ acked \subseteq rows
  /\ main \in {"serving", "shutdown"} =>
       acked \subseteq ListServers /\ \A s \in acked : GetServer(s)

\* No server is instantiated twice in one process: two instances would contend
\* for one container, and the map would forget, and never close, the first.
OneInstanceEach ==
  \A r \in Requests : pc[r] = "instantiate" => instance[id[r]] = "none"

\* "Utilize the application context so it isn't cancelled when the request ends"
\* (delivery/http/server.go:20): a published instance lives until usc.Close.
LivesOn ==
  main \in {"serving", "shutdown"} => \A s \in srvInstances : instance[s] = "live"

\* Nothing is left running: when main returns every instance ever made in this
\* process is closed, although usc.Close reads the map without its mutex.
ClosesAll ==
  main = "exited" => \A s \in Servers : instance[s] \in {"none", "closed"}

\* No handler works with an instance that is closed: the status it reads after
\* srvMu is released (openapi/server.go:25) is that of an instance that lives.
HandlesLive ==
  \A r \in Requests :
    /\ \A s \in found[r] : instance[s] = "live"
    /\ pc[r] = "respond" => instance[id[r]] = "live"

\* What the outside sees of main and of the instances.
Phase ==
  IF main \in {"loading", "exited"} THEN "down" ELSE IF main = "closing" THEN "stopping" ELSE "up"
Running == {s \in Servers : instance[s] = "live"}

Abstract == INSTANCE Servers WITH phase <- Phase, known <- rows, running <- Running

\* The registry keeps the promises of Servers, through every failure and death.
ImplementsServers == Abstract!Spec

-----------------------------------------------------------------------------
(* Liveness.                                                               *)

\* After a signal, or when the router fails, the process ends, if no query is on the
\* connection forever.
ShutdownEnds ==
  []<>(querier = Nobody) =>
    (main \in {"shutdown", "closing"} ~> main \in {"exited", "loading"})
=============================================================================
