---------------------------- MODULE EventEmitter ----------------------------
(***************************************************************************)
(* events.EventEmitter (internal/common/events/events.go) with goroutines  *)
(* that use it.  A listener is one subscription: it calls On, receives     *)
(* from its channel in a loop and calls Off, as lifecycleInitAttach and    *)
(* the tests do.  Dispatchers call Dispatch, the closer calls Close.       *)
(*                                                                         *)
(* Dispatch starts one goroutine per channel that sends the value; a send  *)
(* on an unbuffered channel is a joint step with the listener's receive.   *)
(***************************************************************************)
EXTENDS Naturals

CONSTANTS
  Listeners,    \* subscriptions, each with a channel of its own
  Dispatchers,  \* goroutines that call Dispatch
  Closer,       \* the goroutine that calls Close
  Nobody,       \* no goroutine
  Draining,     \* the listeners that still receive while their Off waits
  MaxDispatch   \* bound: how often each dispatcher calls Dispatch

ASSUME EmitterAssumption ==
  /\ Listeners \cap Dispatchers = {}
  /\ Closer \notin Listeners \cup Dispatchers
  /\ Nobody \notin Listeners \cup Dispatchers \cup {Closer}
  /\ Draining \subseteq Listeners
  /\ MaxDispatch \in Nat

VARIABLES
  writer, readers, heldOff,  \* e.mu
  listeners,  \* e.listeners
  channel,    \* each subscription's channel: "none", "open" or "closed"
  senders,    \* the goroutines of Dispatch that have not sent: <<who, which call, to whom>>
  sent,       \* how often each dispatcher called Dispatch
  pc,         \* where each goroutine is
  heard,      \* history: the last call of each dispatcher each listener received from
  due         \* history: the subscribed listeners a dispatcher's call has not reached

Writers    == Listeners \cup {Closer}
Goroutines == Writers \cup Dispatchers

Pcs        == {"idle", "on", "receiving", "off", "gone", "close", "rlock", "waiting"}

Mutex == INSTANCE RWMutex

mutexVars == <<writer, readers, heldOff>>
vars == <<mutexVars, listeners, channel, senders, sent, pc, heard, due>>

Init ==
  /\ Mutex!Unused
  /\ listeners = {}
  /\ channel = [l \in Listeners |-> "none"]
  /\ senders = {}
  /\ sent = [d \in Dispatchers |-> 0]
  /\ pc = [g \in Goroutines |-> "idle"]
  /\ heard = [l \in Listeners |-> [d \in Dispatchers |-> 0]]
  /\ due = [d \in Dispatchers |-> {}]

Goto(g, from, to) == pc[g] = from /\ pc' = [pc EXCEPT ![g] = to]

-----------------------------------------------------------------------------
(* On, Off and Close: they do their work under e.mu.Lock().                *)

CallOn(l) ==
  /\ Goto(l, "idle", "on")
  /\ UNCHANGED <<mutexVars, listeners, channel, senders, sent, heard, due>>

\* The listener leaves its receive loop.
CallOff(l) ==
  /\ Goto(l, "receiving", "off")
  /\ UNCHANGED <<mutexVars, listeners, channel, senders, sent, heard, due>>

CallClose ==
  /\ Goto(Closer, "idle", "close")
  /\ UNCHANGED <<mutexVars, listeners, channel, senders, sent, heard, due>>

Lock(g) ==
  /\ pc[g] \in {"on", "off", "close"}
  /\ Mutex!BecomeWriter(g)
  /\ UNCHANGED <<listeners, channel, senders, sent, pc, heard, due>>

On(l) ==
  /\ Mutex!Writes(l)
  /\ Goto(l, "on", "receiving")
  /\ listeners' = listeners \cup {l}
  /\ channel' = [channel EXCEPT ![l] = "open"]
  /\ Mutex!Unlock
  /\ UNCHANGED <<senders, sent, heard, due>>

\* The channels in gone are closed; e.listeners becomes rest.
Remove(gone, rest) ==
  /\ listeners' = rest
  /\ channel' = [l \in Listeners |-> IF l \in gone THEN "closed" ELSE channel[l]]
  /\ due' = [d \in Dispatchers |-> due[d] \ gone]

OffKeepsListed(l) ==
  /\ Mutex!Writes(l)
  /\ Goto(l, "off", "gone")
  /\ Remove({l} \cap listeners, listeners)
  /\ Mutex!Unlock
  /\ UNCHANGED <<senders, sent, heard>>

\* A channel that Close has removed already is not closed again.
Off(l) ==
  /\ Mutex!Writes(l)
  /\ Goto(l, "off", "gone")
  /\ Remove({l} \cap listeners, listeners \ {l})
  /\ Mutex!Unlock
  /\ UNCHANGED <<senders, sent, heard>>

Close ==
  /\ Mutex!Writes(Closer)
  /\ Goto(Closer, "close", "idle")
  /\ Remove(listeners, {})
  /\ Mutex!Unlock
  /\ UNCHANGED <<senders, sent, heard>>

-----------------------------------------------------------------------------
(* Dispatch: it sends to every listener under e.mu.RLock().                *)

CallDispatch(d) ==
  /\ sent[d] < MaxDispatch
  /\ Goto(d, "idle", "rlock")
  /\ sent' = [sent EXCEPT ![d] = @ + 1]
  /\ due' = [due EXCEPT ![d] = {l \in listeners : pc[l] = "receiving"}]
  /\ Mutex!RLock(d)
  /\ UNCHANGED <<listeners, channel, senders, heard>>

SpawnUnlocked(d) ==
  /\ Goto(d, "rlock", "waiting")
  /\ senders' = senders \cup {<<d, sent[d], l>> : l \in listeners}
  /\ UNCHANGED <<mutexVars, listeners, channel, sent, heard, due>>

\* One goroutine is started for each channel in e.listeners.
Spawn(d) ==
  /\ Mutex!Reads(d)
  /\ Goto(d, "rlock", "waiting")
  /\ senders' = senders \cup {<<d, sent[d], l>> : l \in listeners}
  /\ UNCHANGED <<mutexVars, listeners, channel, sent, heard, due>>

\* A listener receives while it loops, and in its Off if another goroutine drains it.
Receives(l) == pc[l] = "receiving" \/ (pc[l] = "off" /\ l \in Draining)

\* The value of s is received: its goroutine ends with wg.Done().
Deliver(s) ==
  /\ s \in senders
  /\ channel[s[3]] = "open"
  /\ Receives(s[3])
  /\ senders' = senders \ {s}
  /\ heard' = [heard EXCEPT ![s[3]][s[1]] = s[2]]
  /\ due' = [due EXCEPT ![s[1]] = IF s[2] = sent[s[1]] THEN @ \ {s[3]} ELSE @]
  /\ UNCHANGED <<mutexVars, listeners, channel, sent, pc>>

\* wg.Wait() returns once every goroutine of this call has sent.
AllSentAny(d) == TRUE
AllSent(d) == \A l \in Listeners : <<d, sent[d], l>> \notin senders

ReturnKeepsRLock(d) ==
  /\ AllSent(d)
  /\ Goto(d, "waiting", "idle")
  /\ UNCHANGED <<mutexVars, listeners, channel, senders, sent, heard, due>>

Return(d) ==
  /\ AllSent(d)
  /\ Goto(d, "waiting", "idle")
  /\ Mutex!RUnlock(d)
  /\ UNCHANGED <<listeners, channel, senders, sent, heard, due>>

-----------------------------------------------------------------------------
Next ==
  \/ \E l \in Listeners : CallOn(l) \/ CallOff(l) \/ On(l) \/ Off(l)
  \/ CallClose \/ Close
  \/ \E g \in Writers : Lock(g)
  \/ \E d \in Dispatchers : CallDispatch(d) \/ Spawn(d) \/ Return(d)
  \/ \E s \in senders : Deliver(s)

(***************************************************************************)
(* Goroutines run on.  The mutex inside RWMutex serves its waiters in      *)
(* order, so Lock is strongly fair; once a goroutine is the writer nobody  *)
(* overtakes it.  Listeners that receive do so again and again; whether    *)
(* anyone subscribes, unsubscribes, dispatches or closes is up to them.    *)
(***************************************************************************)
Fairness ==
  /\ \A g \in Writers : SF_vars(Lock(g))
  /\ \A l \in Listeners : WF_vars(On(l)) /\ WF_vars(Off(l))
  /\ WF_vars(Close)
  /\ \A d \in Dispatchers : WF_vars(Spawn(d)) /\ WF_vars(Return(d))
  /\ \A l \in Listeners : WF_vars(\E s \in senders : s[3] = l /\ Deliver(s))

Spec == Init /\ [][Next]_vars /\ Fairness

-----------------------------------------------------------------------------
(* Safety.                                                                 *)

TypeOK ==
  /\ writer \in Writers \cup {Nobody}
  /\ readers \subseteq Dispatchers
  /\ heldOff \subseteq Dispatchers
  /\ listeners \subseteq Listeners
  /\ channel \in [Listeners -> {"none", "open", "closed"}]
  /\ senders \subseteq Dispatchers \X Nat \X Listeners
  /\ sent \in [Dispatchers -> Nat]
  /\ pc \in [Goroutines -> Pcs]
  /\ \A l \in Listeners : pc[l] \in {"idle", "on", "receiving", "off", "gone"}
  /\ \A d \in Dispatchers : pc[d] \in {"idle", "rlock", "waiting"}
  /\ pc[Closer] \in {"idle", "close"}
  /\ heard \in [Listeners -> [Dispatchers -> Nat]]
  /\ due \in [Dispatchers -> SUBSET Listeners]

\* The emitter never panics: no goroutine is left to send on a channel that Off
\* or Close has closed, and every channel they may still close is open.
NoPanic ==
  /\ \A s \in senders : channel[s[3]] = "open"
  /\ \A l \in listeners : channel[l] = "open"

\* When Dispatch returns, its value has reached every listener that was
\* subscribed when it was called and was not removed meanwhile.
ReachesAll ==
  [][\A d \in Dispatchers : pc[d] = "waiting" /\ pc'[d] = "idle" => due[d] = {}]_vars

\* A listener receives the values of one dispatcher in the order of its calls,
\* none of them twice, and from the first it receives on it misses none.
InOrder ==
  [][\A l \in Listeners, d \in Dispatchers :
       heard'[l][d] # heard[l][d] =>
         \/ heard'[l][d] = heard[l][d] + 1
         \/ heard[l][d] = 0 /\ heard'[l][d] > 0]_vars

\* The calls of d that have taken effect: one does when its goroutines are started.
Dispatched(d) == IF pc[d] = "rlock" THEN sent[d] - 1 ELSE sent[d]

Abstract == INSTANCE Broadcast WITH
  inEffect <- {d \in Dispatchers : pc[d] = "waiting"},
  owed     <- [d \in Dispatchers |-> {l \in Listeners : <<d, sent[d], l>> \in senders}],
  calls    <- [d \in Dispatchers |-> Dispatched(d)]

\* Each Dispatch reaches exactly those subscribed at one moment of it, all of them
\* before it returns, and whoever comes or goes does so between two of them.
ImplementsBroadcast == Abstract!Spec

-----------------------------------------------------------------------------
(* Waiting.                                                                *)

\* g is in a method and waits there: for the mutex, or for listeners to receive.
Blocked(g) ==
  \/ pc[g] \in {"on", "off", "close"} /\ writer # Nobody /\ ~Mutex!Writes(g)
  \/ pc[g] = "rlock" /\ ~Mutex!Reads(g)
  \/ pc[g] = "waiting" /\ ~AllSent(g) /\ \A s \in senders : s[1] = g => ~Receives(s[3])

\* A listener waits in Off for a Dispatch that waits for it to receive.
MeetsItsOff(l) == pc[l] = "off" /\ ~Receives(l) /\ \E s \in senders : s[3] = l

\* On, Off, Close and Dispatch never wait for each other in a circle, but for one
\* way: a listener that nobody drains called Off while a Dispatch is sending to it.
StuckOnlyInOff ==
  (\E g \in Goroutines : Blocked(g)) =>
    \/ \E g \in Goroutines : pc[g] \notin {"idle", "receiving", "gone"} /\ ~Blocked(g)
    \/ \E l \in Listeners : MeetsItsOff(l)

\* And then for good: neither that Off nor that Dispatch ever returns.
OffStaysStuck == [][\A l \in Listeners : MeetsItsOff(l) => MeetsItsOff(l)']_vars

-----------------------------------------------------------------------------
(* Liveness.                                                               *)

\* Dispatch returns.
DispatchReturns == \A d \in Dispatchers : pc[d] # "idle" ~> pc[d] = "idle"

\* "Off removes a specified channel" (events_test.go:35): it returns.
OffRemoves == \A l \in Listeners : pc[l] = "off" ~> pc[l] = "gone"
=============================================================================
