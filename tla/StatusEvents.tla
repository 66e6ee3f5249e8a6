---------------------------- MODULE StatusEvents ----------------------------
(***************************************************************************)
(* The status of a docker server instance and its listeners                *)
(* (infrastructure/docker/instance.go): setStatus assigns dsi.status and   *)
(* dispatches it on Events().Status with dsi.mu held for writing; Status() *)
(* reads it with dsi.mu held for reading.  The emitter is EventEmitter,    *)
(* its dispatchers are the goroutines that call setStatus: the worker of   *)
(* lifecycle and the goroutine of NewInstance, which reports a failed      *)
(* init.  A status is the number of the setStatus that assigned it.        *)
(***************************************************************************)
EXTENDS Naturals

CONSTANTS
  Updaters,    \* goroutines that call setStatus
  Listeners,   \* subscriptions to Events().Status
  Readers,     \* other goroutines that call Status(), such as HTTP handlers
  Draining,    \* listeners whose channel another goroutine goes on receiving from
  Closer,      \* nobody: Events().Status.Close() has no caller
  Nobody,      \* no goroutine
  MaxStatus    \* bound: how often each updater calls setStatus

ASSUME StatusAssumption ==
  /\ Updaters \cap Listeners = {} /\ Readers \cap (Updaters \cup Listeners) = {}
  /\ Nobody \notin Updaters \cup Listeners \cup Readers \cup {Closer}
  /\ Closer \notin Updaters \cup Listeners
  /\ Draining \subseteq Listeners
  /\ MaxStatus \in Nat

VARIABLES
  muWriter, muReaders, muHeldOff,  \* dsi.mu
  status,  \* dsi.status
  mine,    \* the status each updater assigned last
  at,      \* where each goroutine is
  writer, readers, heldOff, listeners, channel, senders, sent, pc, heard, due,
           \* the emitter dsi.events.Status
  told,    \* history: the last status that Dispatch handed to its goroutines
  seen     \* history: the last status each listener received, told if none since On

Mu == INSTANCE RWMutex WITH writer <- muWriter, readers <- muReaders, heldOff <- muHeldOff
Emitter == INSTANCE EventEmitter WITH Dispatchers <- Updaters, MaxDispatch <- MaxStatus

Callers == Listeners \cup Readers

muVars   == <<muWriter, muReaders, muHeldOff>>
instance == <<muVars, status, mine, at>>
emitter  == <<writer, readers, heldOff, listeners, channel, senders, sent, pc, heard, due>>
history  == <<told, seen>>
vars == <<instance, emitter, history>>

Init ==
  /\ Mu!Unused
  /\ status = 0
  /\ mine = [u \in Updaters |-> 0]
  /\ at = [g \in Updaters \cup Callers |-> "out"]
  /\ Emitter!Init
  /\ told = 0
  /\ seen = [l \in Listeners |-> 0]

Goto(g, from, to) == at[g] = from /\ at' = [at EXCEPT ![g] = to]

-----------------------------------------------------------------------------
(* setStatus.                                                              *)

CallSetStatus(u) ==
  /\ sent[u] < MaxStatus
  /\ Goto(u, "out", "setStatus")
  /\ UNCHANGED <<muVars, status, mine, emitter, history>>

LockMu(u) ==
  /\ at[u] = "setStatus"
  /\ Mu!BecomeWriter(u)
  /\ UNCHANGED <<status, mine, at, emitter, history>>

\* dsi.status = status; dsi.events.Status.Dispatch(status)
AssignUnlocks(u) ==
  /\ Mu!Writes(u)
  /\ Goto(u, "setStatus", "dispatch")
  /\ status' = status + 1
  /\ mine' = [mine EXCEPT ![u] = status + 1]
  /\ Emitter!CallDispatch(u)
  /\ Mu!Unlock
  /\ UNCHANGED history

Assign(u) ==
  /\ Mu!Writes(u)
  /\ Goto(u, "setStatus", "dispatch")
  /\ status' = status + 1
  /\ mine' = [mine EXCEPT ![u] = status + 1]
  /\ Emitter!CallDispatch(u)
  /\ UNCHANGED <<muVars, history>>

Spawn(u) ==
  /\ Emitter!Spawn(u)
  /\ told' = mine[u]
  /\ UNCHANGED <<instance, seen>>

\* Dispatch returns, then the deferred dsi.mu.Unlock() runs.
ReturnKeepsMu(u) ==
  /\ Goto(u, "dispatch", "out")
  /\ Emitter!Return(u)
  /\ UNCHANGED <<muVars, status, mine, history>>

Return(u) ==
  /\ Goto(u, "dispatch", "out")
  /\ Emitter!Return(u)
  /\ Mu!Unlock
  /\ UNCHANGED <<status, mine, history>>

-----------------------------------------------------------------------------
(* Status(), called by a reader or by a listener in its receive loop.      *)

CallStatus(g) ==
  /\ g \in Listeners => pc[g] = "receiving"
  /\ Goto(g, "out", "status")
  /\ Mu!RLock(g)
  /\ UNCHANGED <<status, mine, emitter, history>>

StatusReturns(g) ==
  /\ Mu!Reads(g)
  /\ Goto(g, "status", "out")
  /\ Mu!RUnlock(g)
  /\ UNCHANGED <<status, mine, emitter, history>>

-----------------------------------------------------------------------------
(* Listeners.                                                              *)

\* The listener runs On or Off up to, and behind, e.mu.Lock().
Subscribe(l) ==
  /\ Emitter!CallOn(l) \/ Emitter!Lock(l)
  /\ UNCHANGED <<instance, history>>

On(l) ==
  /\ Emitter!On(l)
  /\ seen' = [seen EXCEPT ![l] = told]
  /\ UNCHANGED <<instance, told>>

CallOff(l) ==
  /\ at[l] = "out"
  /\ Emitter!CallOff(l)
  /\ UNCHANGED <<instance, history>>

Off(l) ==
  /\ Emitter!Off(l)
  /\ UNCHANGED <<instance, history>>

\* The listener does not receive while it is in Status(), unless it is drained.
Deliver(s) ==
  /\ at[s[3]] = "out" \/ s[3] \in Draining
  /\ Emitter!Deliver(s)
  /\ seen' = [seen EXCEPT ![s[3]] = mine[s[1]]]
  /\ UNCHANGED <<instance, told>>

-----------------------------------------------------------------------------
SetStatus(u) == CallSetStatus(u) \/ LockMu(u) \/ Assign(u) \/ Spawn(u) \/ Return(u)

Next ==
  \/ \E u \in Updaters : SetStatus(u)
  \/ \E g \in Callers : CallStatus(g) \/ StatusReturns(g)
  \/ \E l \in Listeners : Subscribe(l) \/ On(l) \/ CallOff(l) \/ Off(l)
  \/ \E s \in senders : Deliver(s)

(***************************************************************************)
(* Goroutines run on; both mutexes serve their waiters in order, hence     *)
(* strong fairness of the two locks.  A listener that is in its receive    *)
(* loop receives.  Nobody has to call anything.                            *)
(***************************************************************************)
Fairness ==
  /\ \A u \in Updaters :
       SF_vars(LockMu(u)) /\ WF_vars(Assign(u)) /\ WF_vars(Spawn(u)) /\ WF_vars(Return(u))
  /\ \A g \in Callers : WF_vars(StatusReturns(g))
  /\ \A l \in Listeners :
       /\ SF_vars(Emitter!Lock(l) /\ UNCHANGED <<instance, history>>)
       /\ WF_vars(On(l)) /\ WF_vars(Off(l))
       /\ WF_vars(\E s \in senders : s[3] = l /\ Deliver(s))

Spec == Init /\ [][Next]_vars /\ Fairness

-----------------------------------------------------------------------------
(* Safety.                                                                 *)

TypeOK ==
  /\ muWriter \in Updaters \cup {Nobody}
  /\ muReaders \subseteq Callers /\ muHeldOff \subseteq Callers
  /\ status \in Nat /\ told \in Nat
  /\ mine \in [Updaters -> Nat]
  /\ at \in [Updaters \cup Callers -> {"out", "setStatus", "dispatch", "status"}]
  /\ seen \in [Listeners -> Nat]

-----------------------------------------------------------------------------
(* The inductive invariant.                                                *)

\* Who holds dsi.mu, and who waits for it, is in a method that takes it; a
\* goroutine is in the emitter's Dispatch only while it holds dsi.mu alone.
MuInv ==
  /\ muReaders \cap muHeldOff = {} /\ (muHeldOff # {} => muWriter # Nobody)
  /\ \A g \in Callers : at[g] \in {"out", "status"} /\ (at[g] = "status" <=> g \in muReaders \cup muHeldOff)
  /\ \A u \in Updaters :
       /\ at[u] # "status"
       /\ u = muWriter => at[u] # "out"
       /\ at[u] = "dispatch" => u = muWriter /\ muReaders = {}
       /\ pc[u] \in {"idle", "rlock", "waiting"}
       /\ at[u] = "dispatch" <=> pc[u] # "idle"

\* Subscriptions in the emitter are those that are in their loop or in Off; only in
\* its loop a listener calls Status().
ListedInv ==
  /\ pc[Closer] = "idle"
  /\ \A l \in Listeners :
       /\ l \in listeners <=> pc[l] \in {"receiving", "off"}
       /\ at[l] = "status" => pc[l] = "receiving"

\* The status that is being dispatched is dsi.status, one ahead of what was handed
\* out before; a listener is behind only by what a goroutine still sends to it.
SeenInv ==
  /\ \A u \in Updaters : at[u] = "dispatch" => mine[u] = status
  /\ status = IF \E u \in Updaters : pc[u] = "rlock" THEN told + 1 ELSE told
  /\ \A l \in listeners :
       told = IF \E s \in senders : s[3] = l THEN seen[l] + 1 ELSE seen[l]

\* setStatus, Status() and the emitter's methods keep dsi.status and what listeners
\* know of it in step, whatever overlaps.
StatusInv == TypeOK /\ MuInv /\ ListedInv /\ SeenInv

-----------------------------------------------------------------------------
\* No goroutine reads a status its listeners have not heard of: whenever dsi.mu is
\* not held by a setStatus under way, every listener in its receive loop has
\* received dsi.status, or subscribed after it was dispatched.
Latest ==
  (muWriter = Nobody \/ muReaders # {}) =>
    \A l \in Listeners : pc[l] = "receiving" => seen[l] = status

\* Across all goroutines that call setStatus a listener receives the statuses in
\* the order they were assigned and misses none from its On to its Off.
InStatusOrder ==
  [][\A l \in Listeners :
       pc[l] = "receiving" /\ pc'[l] = "receiving" => seen'[l] \in {seen[l], seen[l] + 1}]_vars

-----------------------------------------------------------------------------
(* Waiting.                                                                *)

\* l takes what is sent to it.
Hears(l) == Emitter!Receives(l) /\ (at[l] = "out" \/ l \in Draining)

\* g is in setStatus, Status(), On or Off.
InMethod(g) == at[g] # "out" \/ (g \in Listeners /\ pc[g] \in {"on", "off"})

\* g is in a method and waits there: for dsi.mu, for the emitter's mutex, or for
\* listeners to receive.
Blocked(g) ==
  \/ at[g] = "setStatus" /\ muWriter # Nobody /\ ~Mu!Writes(g)
  \/ at[g] = "status" /\ ~Mu!Reads(g)
  \/ g \in Listeners /\ pc[g] \in {"on", "off"} /\ Emitter!Blocked(g)
  \/ at[g] = "dispatch" /\ pc[g] = "rlock" /\ Emitter!Blocked(g)
  \/ /\ at[g] = "dispatch" /\ pc[g] = "waiting"
     /\ ~Emitter!AllSent(g) /\ \A s \in senders : s[1] = g => ~Hears(s[3])

\* A listener that nobody drains is in Status() or Off while a status is sent to it.
WaitsForItself(l) ==
  l \notin Draining /\ (at[l] = "status" \/ pc[l] = "off") /\ \E s \in senders : s[3] = l

\* The two mutexes and the listeners never make goroutines wait for each other in a
\* circle, but for one way: a listener asks for the status, or unsubscribes, from
\* the goroutine that was to receive the status being dispatched.
StuckOnlyInListeners ==
  (\E g \in Updaters \cup Callers : Blocked(g)) =>
    \/ \E g \in Updaters \cup Callers : InMethod(g) /\ ~Blocked(g)
    \/ \E l \in Listeners : WaitsForItself(l)

\* And from that circle there is no way out, whatever anybody does.
StuckForGood == [][\A l \in Listeners : WaitsForItself(l) => WaitsForItself(l)']_vars

-----------------------------------------------------------------------------
(* Liveness.                                                               *)

\* As long as no listener calls Status() or Off from the goroutine that receives,
\* every setStatus and every Status() returns: also the Status() of a listener
\* that another goroutine drains, called while its status is being dispatched.
CallsReturn ==
  (\A l \in Listeners \ Draining : [](at[l] # "status" /\ pc[l] # "off"))
    => \A g \in Updaters \cup Callers : at[g] # "out" ~> at[g] = "out"
=============================================================================
