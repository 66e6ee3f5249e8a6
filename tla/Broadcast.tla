----------------------------- MODULE Broadcast -----------------------------
(***************************************************************************)
(* What events.EventEmitter promises, without its mutex and goroutines.    *)
(* Each call of Dispatch takes effect at one moment: it then owes its      *)
(* value to everyone subscribed at that moment, and to nobody else, and it *)
(* ends when all of them have it.  While a call is in effect nobody comes  *)
(* or goes, so no value is owed to a listener that is not there.  It is    *)
(* the abstract specification of EventEmitter.                             *)
(***************************************************************************)
EXTENDS Naturals

CONSTANTS
  Listeners,   \* subscriptions
  Dispatchers  \* goroutines that call Dispatch

VARIABLES
  channel,   \* each subscription: "none" (not yet made), "open" or "closed"
  inEffect,  \* the dispatchers whose call has taken effect and not ended
  owed,      \* the listeners each dispatcher's call must still reach
  calls,     \* how many calls of each dispatcher have taken effect
  heard      \* the last call of each dispatcher each listener received from

vars == <<channel, inEffect, owed, calls, heard>>

Subscribed == {l \in Listeners : channel[l] = "open"}

Init ==
  /\ channel = [l \in Listeners |-> "none"]
  /\ inEffect = {} /\ owed = [d \in Dispatchers |-> {}]
  /\ calls = [d \in Dispatchers |-> 0]
  /\ heard = [l \in Listeners |-> [d \in Dispatchers |-> 0]]

Subscribe(l) ==
  /\ inEffect = {}
  /\ channel[l] = "none" /\ channel' = [channel EXCEPT ![l] = "open"]
  /\ UNCHANGED <<inEffect, owed, calls, heard>>

\* Off removes one subscription, Close all of them.
Unsubscribe(gone) ==
  /\ inEffect = {}
  /\ gone \subseteq Subscribed
  /\ channel' = [l \in Listeners |-> IF l \in gone THEN "closed" ELSE channel[l]]
  /\ UNCHANGED <<inEffect, owed, calls, heard>>

Dispatch(d) ==
  /\ d \notin inEffect /\ inEffect' = inEffect \cup {d}
  /\ owed' = [owed EXCEPT ![d] = Subscribed]
  /\ calls' = [calls EXCEPT ![d] = @ + 1]
  /\ UNCHANGED <<channel, heard>>

Receive(l, d) ==
  /\ l \in owed[d] /\ owed' = [owed EXCEPT ![d] = @ \ {l}]
  /\ heard' = [heard EXCEPT ![l][d] = calls[d]]
  /\ UNCHANGED <<channel, inEffect, calls>>

Return(d) ==
  /\ d \in inEffect /\ owed[d] = {}
  /\ inEffect' = inEffect \ {d}
  /\ UNCHANGED <<channel, owed, calls, heard>>

Next ==
  \/ \E l \in Listeners : Subscribe(l)
  \/ Unsubscribe(Subscribed)
  \/ \E l \in Listeners : Unsubscribe({l})
  \/ \E d \in Dispatchers : Dispatch(d) \/ Return(d)
  \/ \E l \in Listeners, d \in Dispatchers : Receive(l, d)

Spec == Init /\ [][Next]_vars
=============================================================================
