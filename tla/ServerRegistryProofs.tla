------------------------ MODULE ServerRegistryProofs ------------------------
(***************************************************************************)
(* Theorems about ServerRegistry, for any number of handlers and servers   *)
(* and any number of deaths of the process.  HandlerInv and InstanceInv    *)
(* are inductive together: a handler publishes an instance that is in the  *)
(* map of nobody else, because the database never draws an ID twice.       *)
(* Fairness is not used.                                                   *)
(***************************************************************************)
EXTENDS ServerRegistryInv, TLAPS

\* Every step keeps the variables in their types.
LEMMA TypeStep == ASSUME TypeOK, HandlerInv, [Next]_vars PROVE TypeOK'
  <1> USE RegistryAssumption DEF RegistryAssumption, TypeOK, database, registry, handlers
  <1>1. ASSUME Load PROVE TypeOK'
    BY <1>1 DEF Load, Loaded, ConvertToServer
  <1>2. ASSUME LoadFails PROVE TypeOK'
    BY <1>2 DEF LoadFails
  <1>3. ASSUME NEW r \in Requests, Receive(r) PROVE TypeOK'
    BY <1>3 DEF Receive, Goto
  <1>4. ASSUME NEW r \in Requests, Query(r) PROVE TypeOK'
    BY <1>4 DEF Query, Goto
  <1>5. ASSUME NEW r \in Requests, QueryRefused(r) PROVE TypeOK'
    BY <1>5 DEF QueryRefused, Goto
  <1>6. ASSUME NEW r \in Requests, Insert(r) PROVE TypeOK'
    BY <1>6 DEF Insert, Goto, Committed, ConvertToServer
  <1>7. ASSUME NEW r \in Requests, InsertFails(r) PROVE TypeOK'
    BY <1>7 DEF InsertFails, Goto, Committed
  <1>8. ASSUME NEW r \in Requests, NewInstance(r) PROVE TypeOK'
    BY <1>8 DEF NewInstance, Goto, InstanceContext
  <1>9. ASSUME NEW r \in Requests, Publish(r) PROVE TypeOK'
    <2>1. id[r] \in Servers
      BY <1>9 DEF Publish, Goto, HandlerInv
    <2> QED
      BY <1>9, <2>1 DEF Publish, Goto
  <1>10. ASSUME NEW r \in Requests, Respond(r) PROVE TypeOK'
    <2>1. id[r] \in Servers
      BY <1>10 DEF Respond, Goto, HandlerInv
    <2>2. acked' \subseteq Servers /\ id' \in [Requests -> Servers \cup {Nobody}]
      BY <1>10, <2>1 DEF Respond
    <2>3. instance' \in [Servers -> {"none", "live", "cancelled", "closed"}]
      BY <1>10 DEF Respond
    <2> QED
      BY <1>10, <2>2, <2>3 DEF Respond, Goto
  <1>11. ASSUME Signal PROVE TypeOK'
    BY <1>11 DEF Signal
  <1>12. ASSUME ShutdownReturns PROVE TypeOK'
    BY <1>12 DEF ShutdownReturns, Handled
  <1>13. ASSUME NEW s \in Servers, CloseInstance(s) PROVE TypeOK'
    BY <1>13 DEF CloseInstance
  <1>14. ASSUME Exit PROVE TypeOK'
    BY <1>14 DEF Exit, AllClosed
  <1>15. ASSUME ConnectionBreaks PROVE TypeOK'
    BY <1>15 DEF ConnectionBreaks
  <1>16. ASSUME Restart PROVE TypeOK'
    BY <1>16 DEF Restart, Committed, Idle, NoID, NotFound, None
  <1>17. ASSUME UNCHANGED vars PROVE TypeOK'
    BY <1>17 DEF vars
  <1>18. ASSUME Serve PROVE TypeOK'
    BY <1>18 DEF Serve
  <1>19. ASSUME RouterFails PROVE TypeOK'
    BY <1>19 DEF RouterFails
  <1>20. ASSUME NEW r \in Requests, LookUp(r) PROVE TypeOK'
    BY <1>20 DEF LookUp, Goto, ListServers, GetServer
  <1>21. ASSUME NEW r \in Requests, LookUpFails(r) PROVE TypeOK'
    BY <1>21 DEF LookUpFails, Goto
  <1>22. ASSUME NEW r \in Requests, Encode(r) PROVE TypeOK'
    BY <1>22 DEF Encode, Goto
  <1> QED
    BY <1>1, <1>2, <1>3, <1>4, <1>5, <1>6, <1>7, <1>8, <1>9, <1>10, <1>11, <1>12, <1>13,
      <1>14, <1>15, <1>16, <1>17, <1>18, <1>19, <1>20, <1>21, <1>22
    DEF Next, CreateServer, Get

\* Only a row that no handler and no instance has is handed to a handler.
LEMMA HandlerStep == ASSUME TypeOK, HandlerInv, InstanceInv, [Next]_vars PROVE HandlerInv'
  <1> USE RegistryAssumption DEF RegistryAssumption, TypeOK, HandlerInv, InstanceInv, database, registry, handlers
  <1>1. ASSUME Load PROVE HandlerInv'
    BY <1>1 DEF Load, Loaded, ConvertToServer
  <1>2. ASSUME LoadFails PROVE HandlerInv'
    BY <1>2 DEF LoadFails
  <1>3. ASSUME NEW r \in Requests, Receive(r) PROVE HandlerInv'
    BY <1>3 DEF Receive, Goto
  <1>4. ASSUME NEW r \in Requests, Query(r) PROVE HandlerInv'
    BY <1>4 DEF Query, Goto
  <1>5. ASSUME NEW r \in Requests, QueryRefused(r) PROVE HandlerInv'
    BY <1>5 DEF QueryRefused, Goto
  <1>6. ASSUME NEW r \in Requests, Insert(r) PROVE HandlerInv'
    BY <1>6 DEF Insert, Goto, Committed, ConvertToServer
  <1>7. ASSUME NEW r \in Requests, InsertFails(r) PROVE HandlerInv'
    BY <1>7 DEF InsertFails, Goto, Committed
  <1>8. ASSUME NEW r \in Requests, NewInstance(r) PROVE HandlerInv'
    BY <1>8 DEF NewInstance, Goto, InstanceContext
  <1>9. ASSUME NEW r \in Requests, Publish(r) PROVE HandlerInv'
    BY <1>9 DEF Publish, Goto
  <1>10. ASSUME NEW r \in Requests, Respond(r) PROVE HandlerInv'
    BY <1>10 DEF Respond, Goto
  <1>11. ASSUME Signal PROVE HandlerInv'
    BY <1>11 DEF Signal
  <1>12. ASSUME ShutdownReturns PROVE HandlerInv'
    BY <1>12 DEF ShutdownReturns, Handled
  <1>13. ASSUME NEW s \in Servers, CloseInstance(s) PROVE HandlerInv'
    BY <1>13 DEF CloseInstance
  <1>14. ASSUME Exit PROVE HandlerInv'
    BY <1>14 DEF Exit, AllClosed
  <1>15. ASSUME ConnectionBreaks PROVE HandlerInv'
    BY <1>15 DEF ConnectionBreaks
  <1>16. ASSUME Restart PROVE HandlerInv'
    BY <1>16 DEF Restart, Committed, Idle, NoID, NotFound, None
  <1>17. ASSUME UNCHANGED vars PROVE HandlerInv'
    BY <1>17 DEF vars
  <1>18. ASSUME Serve PROVE HandlerInv'
    BY <1>18 DEF Serve
  <1>19. ASSUME RouterFails PROVE HandlerInv'
    BY <1>19 DEF RouterFails
  <1>20. ASSUME NEW r \in Requests, LookUp(r) PROVE HandlerInv'
    BY <1>20 DEF LookUp, Goto, ListServers, GetServer
  <1>21. ASSUME NEW r \in Requests, LookUpFails(r) PROVE HandlerInv'
    BY <1>21 DEF LookUpFails, Goto
  <1>22. ASSUME NEW r \in Requests, Encode(r) PROVE HandlerInv'
    BY <1>22 DEF Encode, Goto
  <1> QED
    BY <1>1, <1>2, <1>3, <1>4, <1>5, <1>6, <1>7, <1>8, <1>9, <1>10, <1>11, <1>12, <1>13,
      <1>14, <1>15, <1>16, <1>17, <1>18, <1>19, <1>20, <1>21, <1>22
    DEF Next, CreateServer, Get

\* An instance leaves the hands of its handler for the map, and lives until closed.
LEMMA InstanceStep == ASSUME TypeOK, HandlerInv, InstanceInv, [Next]_vars PROVE InstanceInv'
  <1> USE RegistryAssumption DEF RegistryAssumption, TypeOK, HandlerInv, InstanceInv, database, registry, handlers
  <1>1. ASSUME Load PROVE InstanceInv'
    BY <1>1 DEF Load, Loaded, ConvertToServer
  <1>2. ASSUME LoadFails PROVE InstanceInv'
    BY <1>2 DEF LoadFails
  <1>3. ASSUME NEW r \in Requests, Receive(r) PROVE InstanceInv'
    BY <1>3 DEF Receive, Goto
  <1>4. ASSUME NEW r \in Requests, Query(r) PROVE InstanceInv'
    BY <1>4 DEF Query, Goto
  <1>5. ASSUME NEW r \in Requests, QueryRefused(r) PROVE InstanceInv'
    BY <1>5 DEF QueryRefused, Goto
  <1>6. ASSUME NEW r \in Requests, Insert(r) PROVE InstanceInv'
    BY <1>6 DEF Insert, Goto, Committed, ConvertToServer
  <1>7. ASSUME NEW r \in Requests, InsertFails(r) PROVE InstanceInv'
    BY <1>7 DEF InsertFails, Goto, Committed
  <1>8. ASSUME NEW r \in Requests, NewInstance(r) PROVE InstanceInv'
    BY <1>8 DEF NewInstance, Goto, InstanceContext
  <1>9. ASSUME NEW r \in Requests, Publish(r) PROVE InstanceInv'
    BY <1>9 DEF Publish, Goto
  <1>10. ASSUME NEW r \in Requests, Respond(r) PROVE InstanceInv'
    BY <1>10 DEF Respond, Goto
  <1>11. ASSUME Signal PROVE InstanceInv'
    BY <1>11 DEF Signal
  <1>12. ASSUME ShutdownReturns PROVE InstanceInv'
    BY <1>12 DEF ShutdownReturns, Handled
  <1>13. ASSUME NEW s \in Servers, CloseInstance(s) PROVE InstanceInv'
    BY <1>13 DEF CloseInstance
  <1>14. ASSUME Exit PROVE InstanceInv'
    BY <1>14 DEF Exit, AllClosed
  <1>15. ASSUME ConnectionBreaks PROVE InstanceInv'
    BY <1>15 DEF ConnectionBreaks
  <1>16. ASSUME Restart PROVE InstanceInv'
    BY <1>16 DEF Restart, Committed, Idle, NoID, NotFound, None
  <1>17. ASSUME UNCHANGED vars PROVE InstanceInv'
    BY <1>17 DEF vars
  <1>18. ASSUME Serve PROVE InstanceInv'
    BY <1>18 DEF Serve
  <1>19. ASSUME RouterFails PROVE InstanceInv'
    BY <1>19 DEF RouterFails
  <1>20. ASSUME NEW r \in Requests, LookUp(r) PROVE InstanceInv'
    BY <1>20 DEF LookUp, Goto, ListServers, GetServer
  <1>21. ASSUME NEW r \in Requests, LookUpFails(r) PROVE InstanceInv'
    BY <1>21 DEF LookUpFails, Goto
  <1>22. ASSUME NEW r \in Requests, Encode(r) PROVE InstanceInv'
    BY <1>22 DEF Encode, Goto
  <1> QED
    BY <1>1, <1>2, <1>3, <1>4, <1>5, <1>6, <1>7, <1>8, <1>9, <1>10, <1>11, <1>12, <1>13,
      <1>14, <1>15, <1>16, <1>17, <1>18, <1>19, <1>20, <1>21, <1>22
    DEF Next, CreateServer, Get

\* A server is acknowledged when it is in the map, and the map is made from the rows.
LEMMA AckedStep == ASSUME TypeOK, HandlerInv, InstanceInv, AckedIsKept, [Next]_vars PROVE AckedIsKept'
  <1> USE RegistryAssumption DEF RegistryAssumption, TypeOK, HandlerInv, InstanceInv, AckedIsKept, ListServers, GetServer, database, registry, handlers
  <1>1. ASSUME Load PROVE AckedIsKept'
    BY <1>1 DEF Load, Loaded, ConvertToServer
  <1>2. ASSUME LoadFails PROVE AckedIsKept'
    BY <1>2 DEF LoadFails
  <1>3. ASSUME NEW r \in Requests, Receive(r) PROVE AckedIsKept'
    BY <1>3 DEF Receive, Goto
  <1>4. ASSUME NEW r \in Requests, Query(r) PROVE AckedIsKept'
    BY <1>4 DEF Query, Goto
  <1>5. ASSUME NEW r \in Requests, QueryRefused(r) PROVE AckedIsKept'
    BY <1>5 DEF QueryRefused, Goto
  <1>6. ASSUME NEW r \in Requests, Insert(r) PROVE AckedIsKept'
    BY <1>6 DEF Insert, Goto, Committed, ConvertToServer
  <1>7. ASSUME NEW r \in Requests, InsertFails(r) PROVE AckedIsKept'
    BY <1>7 DEF InsertFails, Goto, Committed
  <1>8. ASSUME NEW r \in Requests, NewInstance(r) PROVE AckedIsKept'
    BY <1>8 DEF NewInstance, Goto, InstanceContext
  <1>9. ASSUME NEW r \in Requests, Publish(r) PROVE AckedIsKept'
    BY <1>9 DEF Publish, Goto
  <1>10. ASSUME NEW r \in Requests, Respond(r) PROVE AckedIsKept'
    BY <1>10 DEF Respond, Goto
  <1>11. ASSUME Signal PROVE AckedIsKept'
    BY <1>11 DEF Signal
  <1>12. ASSUME ShutdownReturns PROVE AckedIsKept'
    BY <1>12 DEF ShutdownReturns, Handled
  <1>13. ASSUME NEW s \in Servers, CloseInstance(s) PROVE AckedIsKept'
    BY <1>13 DEF CloseInstance
  <1>14. ASSUME Exit PROVE AckedIsKept'
    BY <1>14 DEF Exit, AllClosed
  <1>15. ASSUME ConnectionBreaks PROVE AckedIsKept'
    BY <1>15 DEF ConnectionBreaks
  <1>16. ASSUME Restart PROVE AckedIsKept'
    BY <1>16 DEF Restart, Committed, Idle, NoID, NotFound, None
  <1>17. ASSUME UNCHANGED vars PROVE AckedIsKept'
    BY <1>17 DEF vars
  <1>18. ASSUME Serve PROVE AckedIsKept'
    BY <1>18 DEF Serve
  <1>19. ASSUME RouterFails PROVE AckedIsKept'
    BY <1>19 DEF RouterFails
  <1>20. ASSUME NEW r \in Requests, LookUp(r) PROVE AckedIsKept'
    BY <1>20 DEF LookUp, Goto
  <1>21. ASSUME NEW r \in Requests, LookUpFails(r) PROVE AckedIsKept'
    BY <1>21 DEF LookUpFails, Goto
  <1>22. ASSUME NEW r \in Requests, Encode(r) PROVE AckedIsKept'
    BY <1>22 DEF Encode, Goto
  <1> QED
    BY <1>1, <1>2, <1>3, <1>4, <1>5, <1>6, <1>7, <1>8, <1>9, <1>10, <1>11, <1>12, <1>13,
      <1>14, <1>15, <1>16, <1>17, <1>18, <1>19, <1>20, <1>21, <1>22
    DEF Next, CreateServer, Get

\* The first process satisfies the inductive invariant.
LEMMA InitInv == Init => RegistryInv
  <1> SUFFICES ASSUME Init PROVE RegistryInv
    OBVIOUS
  <1> USE RegistryAssumption DEF RegistryAssumption, Init, Idle, NoID, NotFound, None
  <1>1. TypeOK
    BY DEF TypeOK
  <1>2. HandlerInv
    BY DEF HandlerInv
  <1>3. InstanceInv
    BY DEF InstanceInv
  <1>4. AckedIsKept
    BY DEF AckedIsKept
  <1> QED
    BY <1>1, <1>2, <1>3, <1>4 DEF RegistryInv

\* Handlers, signals, closing and deaths keep the inductive invariant in any order.
THEOREM Invariance == Spec => []RegistryInv
  <1>1. RegistryInv /\ [Next]_vars => RegistryInv'
    BY TypeStep, HandlerStep, InstanceStep, AckedStep DEF RegistryInv
  <1> QED
    BY InitInv, <1>1, PTL DEF Spec

\* Every variable keeps its type.
THEOREM Typed == Spec => []TypeOK
  <1>1. RegistryInv => TypeOK
    BY DEF RegistryInv
  <1> QED
    BY Invariance, <1>1, PTL

\* A server its client was told of keeps its row through every death of the
\* process, and is found in every process that serves (servers.go:39-52).
THEOREM AckedKept == Spec => []AckedIsKept
  <1>1. RegistryInv => AckedIsKept
    BY DEF RegistryInv
  <1> QED
    BY Invariance, <1>1, PTL

\* Two handlers never instantiate one server (servers.go:45).
THEOREM OneInstance == Spec => []OneInstanceEach
  <1>1. RegistryInv => OneInstanceEach
    BY DEF RegistryInv, HandlerInv, OneInstanceEach
  <1> QED
    BY Invariance, <1>1, PTL

\* The end of a request never cancels the server it created
\* (delivery/http/server.go:20).
THEOREM RequestsEnd == Spec => []LivesOn
  <1>1. RegistryInv => LivesOn
    BY DEF RegistryInv, TypeOK, InstanceInv, LivesOn
  <1> QED
    BY Invariance, <1>1, PTL

\* Main never returns with an instance running: the order of its deferred calls
\* (main.go:87, 105) makes up for the mutex that usc.Close does not take.
THEOREM NothingLeft == Spec => []ClosesAll
  <1>1. RegistryInv => ClosesAll
    BY DEF RegistryInv, InstanceInv, ClosesAll
  <1> QED
    BY Invariance, <1>1, PTL

\* A handler never reads the status of an instance that is closed
\* (delivery/http/openapi/server.go:25).
THEOREM OnlyLive == Spec => []HandlesLive
  <1>1. ASSUME RegistryInv, NEW r \in Requests, NEW s \in Servers,
               s \in found[r] \/ (pc[r] = "respond" /\ s = id[r])
        PROVE  instance[s] = "live"
    <2>1. pc[r] # "idle" /\ s \in srvInstances
      BY <1>1 DEF RegistryInv, HandlerInv
    <2> QED
      BY <1>1, <2>1 DEF RegistryInv, HandlerInv, InstanceInv
  <1>2. RegistryInv => HandlesLive
    <2> SUFFICES ASSUME RegistryInv, NEW r \in Requests PROVE
                   /\ \A s \in found[r] : instance[s] = "live"
                   /\ pc[r] = "respond" => instance[id[r]] = "live"
      BY DEF HandlesLive
    <2>1. found[r] \subseteq Servers /\ (pc[r] = "respond" => id[r] \in Servers)
      BY DEF RegistryInv, TypeOK, HandlerInv
    <2> QED
      BY <1>1, <2>1
  <1> QED
    BY Invariance, <1>2, PTL

-----------------------------------------------------------------------------
(* The refinement of Servers.                                              *)

\* The instances that live, after a step that changes one of them or none.
LEMMA RunningSame ==
  ASSUME \A s \in Servers : instance'[s] = "live" <=> instance[s] = "live" PROVE Running' = Running
  BY DEF Running

\* Every step is a step of Servers or one it does not see.
LEMMA AbstractStep == ASSUME RegistryInv, RegistryInv', [Next]_vars PROVE [Abstract!Next]_(Abstract!vars)
  <1> DEFINE Same == UNCHANGED <<Phase, rows, Running, acked>>
  <1>0. ASSUME Same PROVE UNCHANGED Abstract!vars
    BY <1>0 DEF Abstract!vars
  <1> USE RegistryAssumption DEF RegistryAssumption, RegistryInv, TypeOK, database, registry, handlers
  <1>1. ASSUME Load PROVE Abstract!Boot
    BY <1>1 DEF Load, Loaded, ConvertToServer, Abstract!Boot, Phase, Running
  <1>2. ASSUME LoadFails PROVE Same
    BY <1>2 DEF LoadFails, Phase, Running
  <1>3. ASSUME Serve PROVE Same
    BY <1>3 DEF Serve, Phase, Running
  <1>4. ASSUME RouterFails PROVE Abstract!Leave
    BY <1>4 DEF RouterFails, Phase, Running, Abstract!Leave
  <1>5. ASSUME NEW r \in Requests, Receive(r) \/ Query(r) \/ QueryRefused(r) PROVE Same
    BY <1>5 DEF Receive, Query, QueryRefused, Phase, Running
  <1>6. ASSUME NEW r \in Requests, Insert(r) PROVE \E s \in Servers : Abstract!Store(s)
    BY <1>6 DEF Insert, Committed, Phase, Running, Abstract!Store
  <1>7. ASSUME NEW r \in Requests, InsertFails(r) PROVE Same \/ \E s \in Servers : Abstract!Store(s)
    BY <1>7 DEF InsertFails, Committed, Phase, Running, Abstract!Store
  <1>8. ASSUME NEW r \in Requests, NewInstance(r) PROVE Abstract!Run(id[r])
    BY <1>8 DEF NewInstance, Goto, HandlerInv, Phase, Running, Abstract!Run
  <1>9. ASSUME NEW r \in Requests, Publish(r) \/ Get(r) PROVE Same
    BY <1>9 DEF Publish, Get, LookUp, LookUpFails, Encode, Phase, Running
  <1>10. ASSUME NEW r \in Requests, Respond(r) PROVE Abstract!Ack(id[r])
    <2>1. pc[r] = "respond" /\ id[r] \in srvInstances /\ main \in {"serving", "shutdown"}
      BY <1>10 DEF Respond, Goto, HandlerInv
    <2>2. id[r] \in Running
      BY <2>1 DEF InstanceInv, Running
    <2>3. \A s \in Servers : instance'[s] = "live" <=> instance[s] = "live"
      BY <1>10 DEF Respond, InstanceInv
    <2>4. Running' = Running
      BY <2>3, RunningSame
    <2> QED
      BY <1>10, <2>1, <2>2, <2>4 DEF Respond, Phase, Abstract!Ack
  <1>11. ASSUME Signal PROVE Same
    BY <1>11 DEF Signal, Phase, Running
  <1>12. ASSUME ShutdownReturns PROVE Abstract!Leave
    BY <1>12 DEF ShutdownReturns, Phase, Running, Abstract!Leave
  <1>13. ASSUME NEW s \in Servers, CloseInstance(s) PROVE Same \/ Abstract!Stop(s)
    BY <1>13 DEF CloseInstance, Phase, Running, Abstract!Stop
  <1>14. ASSUME Exit PROVE Abstract!Halt
    BY <1>14 DEF Exit, InstanceInv, Phase, Running, Abstract!Halt
  <1>15. ASSUME ConnectionBreaks PROVE Same
    BY <1>15 DEF ConnectionBreaks, Phase, Running
  <1>16. ASSUME Restart PROVE Abstract!Die
    BY <1>16 DEF Restart, Committed, None, Phase, Running, Abstract!Die
  <1>17. ASSUME UNCHANGED vars PROVE Same
    BY <1>17 DEF vars, Phase, Running
  <1>18. ASSUME NEW r \in Requests, NewInstance(r) \/ Respond(r) PROVE id[r] \in Servers
    BY <1>18 DEF NewInstance, Respond, Goto, HandlerInv
  <1> HIDE DEF Same
  <1> QED
    BY <1>0, <1>1, <1>2, <1>3, <1>4, <1>5, <1>6, <1>7, <1>8, <1>9, <1>10, <1>11, <1>12, <1>13,
      <1>14, <1>15, <1>16, <1>17, <1>18
    DEF Next, CreateServer, Abstract!Next

\* The process that serves, dies and starts again over its rows is Servers.
THEOREM Refinement == Spec => ImplementsServers
  <1>1. Init => Abstract!Init
    BY DEF Init, None, Abstract!Init, Phase, Running
  <1>2. RegistryInv /\ RegistryInv' /\ [Next]_vars => [Abstract!Next]_(Abstract!vars)
    BY AbstractStep
  <1> QED
    BY Invariance, <1>1, <1>2, PTL DEF Spec, ImplementsServers, Abstract!Spec
=============================================================================
