------------------------- MODULE EventEmitterProofs -------------------------
(***************************************************************************)
(* Theorems about EventEmitter, for any number of listeners, dispatchers   *)
(* and calls.  The mutex keeps e.listeners as it is while goroutines of    *)
(* Dispatch are left (MutexInv, SenderInv); what a call still owes is then *)
(* what they still send (DueInv, OrderInv).  Fairness is not used.         *)
(***************************************************************************)
EXTENDS EventEmitterInv, TLAPS

\* The goroutines are distinct.
LEMMA Roles ==
  /\ Closer \in Writers /\ Closer \in Goroutines /\ Closer \notin Listeners
  /\ \A l \in Listeners : l \in Writers /\ l \in Goroutines /\ l \notin Dispatchers
  /\ \A d \in Dispatchers : d \in Goroutines /\ d \notin Writers
  /\ \A g \in Writers : g \in Goroutines /\ g \notin Dispatchers /\ g # Nobody
  /\ Nobody \notin Goroutines
  BY EmitterAssumption DEF EmitterAssumption, Writers, Goroutines

-----------------------------------------------------------------------------
(* Every step preserves the parts of EmitterInv.                           *)

\* Every step keeps the variables in their types.
LEMMA TypeStep == ASSUME TypeOK, [Next]_vars PROVE TypeOK'
  <1> USE Roles DEF TypeOK, Pcs, mutexVars
  <1>1. ASSUME NEW l \in Listeners, CallOn(l) PROVE TypeOK'
    BY <1>1 DEF CallOn, Goto
  <1>2. ASSUME NEW l \in Listeners, CallOff(l) PROVE TypeOK'
    BY <1>2 DEF CallOff, Goto
  <1>3. ASSUME NEW l \in Listeners, On(l) PROVE TypeOK'
    BY <1>3 DEF On, Goto, Mutex!Writes, Mutex!Unlock
  <1>4. ASSUME NEW l \in Listeners, Off(l) PROVE TypeOK'
    BY <1>4 DEF Off, Goto, Remove, Mutex!Writes, Mutex!Unlock
  <1>5. ASSUME CallClose PROVE TypeOK'
    BY <1>5 DEF CallClose, Goto
  <1>6. ASSUME Close PROVE TypeOK'
    BY <1>6 DEF Close, Goto, Remove, Mutex!Writes, Mutex!Unlock
  <1>7. ASSUME NEW g \in Writers, Lock(g) PROVE TypeOK'
    BY <1>7 DEF Lock, Mutex!BecomeWriter
  <1>8. ASSUME NEW d \in Dispatchers, CallDispatch(d) PROVE TypeOK'
    BY <1>8 DEF CallDispatch, Goto, Mutex!RLock
  <1>9. ASSUME NEW d \in Dispatchers, Spawn(d) PROVE TypeOK'
    BY <1>9 DEF Spawn, Goto, Mutex!Reads
  <1>10. ASSUME NEW d \in Dispatchers, Return(d) PROVE TypeOK'
    BY <1>10 DEF Return, Goto, AllSent, Mutex!RUnlock
  <1>11. ASSUME NEW s \in senders, Deliver(s) PROVE TypeOK'
    BY <1>11 DEF Deliver
  <1>12. ASSUME UNCHANGED vars PROVE TypeOK'
    BY <1>12 DEF vars
  <1> QED
    BY <1>1, <1>2, <1>3, <1>4, <1>5, <1>6, <1>7, <1>8, <1>9, <1>10, <1>11, <1>12 DEF Next

\* Who is at the mutex is in a method that takes it.
LEMMA MutexStep == ASSUME TypeOK, MutexInv, [Next]_vars PROVE MutexInv'
  <1> USE Roles DEF TypeOK, MutexInv, mutexVars
  <1>1. ASSUME NEW l \in Listeners, CallOn(l) PROVE MutexInv'
    BY <1>1 DEF CallOn, Goto
  <1>2. ASSUME NEW l \in Listeners, CallOff(l) PROVE MutexInv'
    BY <1>2 DEF CallOff, Goto
  <1>3. ASSUME NEW l \in Listeners, On(l) PROVE MutexInv'
    BY <1>3 DEF On, Goto, Mutex!Writes, Mutex!Unlock
  <1>4. ASSUME NEW l \in Listeners, Off(l) PROVE MutexInv'
    BY <1>4 DEF Off, Goto, Remove, Mutex!Writes, Mutex!Unlock
  <1>5. ASSUME CallClose PROVE MutexInv'
    BY <1>5 DEF CallClose, Goto
  <1>6. ASSUME Close PROVE MutexInv'
    BY <1>6 DEF Close, Goto, Remove, Mutex!Writes, Mutex!Unlock
  <1>7. ASSUME NEW g \in Writers, Lock(g) PROVE MutexInv'
    BY <1>7 DEF Lock, Mutex!BecomeWriter
  <1>8. ASSUME NEW d \in Dispatchers, CallDispatch(d) PROVE MutexInv'
    BY <1>8 DEF CallDispatch, Goto, Mutex!RLock
  <1>9. ASSUME NEW d \in Dispatchers, Spawn(d) PROVE MutexInv'
    BY <1>9 DEF Spawn, Goto, Mutex!Reads
  <1>10. ASSUME NEW d \in Dispatchers, Return(d) PROVE MutexInv'
    BY <1>10 DEF Return, Goto, AllSent, Mutex!RUnlock
  <1>11. ASSUME NEW s \in senders, Deliver(s) PROVE MutexInv'
    BY <1>11 DEF Deliver
  <1>12. ASSUME UNCHANGED vars PROVE MutexInv'
    BY <1>12 DEF vars
  <1> QED
    BY <1>1, <1>2, <1>3, <1>4, <1>5, <1>6, <1>7, <1>8, <1>9, <1>10, <1>11, <1>12 DEF Next

\* On, Off and Close change e.listeners and the channels together.
LEMMA ListedStep == ASSUME TypeOK, ListedInv, [Next]_vars PROVE ListedInv'
  <1> USE Roles DEF TypeOK, ListedInv, mutexVars
  <1>1. ASSUME NEW l \in Listeners, CallOn(l) PROVE ListedInv'
    BY <1>1 DEF CallOn, Goto
  <1>2. ASSUME NEW l \in Listeners, CallOff(l) PROVE ListedInv'
    BY <1>2 DEF CallOff, Goto
  <1>3. ASSUME NEW l \in Listeners, On(l) PROVE ListedInv'
    BY <1>3 DEF On, Goto, Mutex!Writes, Mutex!Unlock
  <1>4. ASSUME NEW l \in Listeners, Off(l) PROVE ListedInv'
    BY <1>4 DEF Off, Goto, Remove, Mutex!Writes, Mutex!Unlock
  <1>5. ASSUME CallClose PROVE ListedInv'
    BY <1>5 DEF CallClose, Goto
  <1>6. ASSUME Close PROVE ListedInv'
    BY <1>6 DEF Close, Goto, Remove, Mutex!Writes, Mutex!Unlock
  <1>7. ASSUME NEW g \in Writers, Lock(g) PROVE ListedInv'
    BY <1>7 DEF Lock, Mutex!BecomeWriter
  <1>8. ASSUME NEW d \in Dispatchers, CallDispatch(d) PROVE ListedInv'
    BY <1>8 DEF CallDispatch, Goto, Mutex!RLock
  <1>9. ASSUME NEW d \in Dispatchers, Spawn(d) PROVE ListedInv'
    BY <1>9 DEF Spawn, Goto, Mutex!Reads
  <1>10. ASSUME NEW d \in Dispatchers, Return(d) PROVE ListedInv'
    BY <1>10 DEF Return, Goto, AllSent, Mutex!RUnlock
  <1>11. ASSUME NEW s \in senders, Deliver(s) PROVE ListedInv'
    BY <1>11 DEF Deliver
  <1>12. ASSUME UNCHANGED vars PROVE ListedInv'
    BY <1>12 DEF vars
  <1> QED
    BY <1>1, <1>2, <1>3, <1>4, <1>5, <1>6, <1>7, <1>8, <1>9, <1>10, <1>11, <1>12 DEF Next

\* Off and Close write only when nobody reads, so when nobody sends.
LEMMA SenderStep == ASSUME TypeOK, MutexInv, SenderInv, [Next]_vars PROVE SenderInv'
  <1> USE Roles DEF TypeOK, MutexInv, SenderInv, mutexVars
  <1>1. ASSUME NEW l \in Listeners, CallOn(l) PROVE SenderInv'
    BY <1>1 DEF CallOn, Goto
  <1>2. ASSUME NEW l \in Listeners, CallOff(l) PROVE SenderInv'
    BY <1>2 DEF CallOff, Goto
  <1>3. ASSUME NEW l \in Listeners, On(l) PROVE SenderInv'
    BY <1>3 DEF On, Goto, Mutex!Writes, Mutex!Unlock
  <1>4. ASSUME NEW l \in Listeners, Off(l) PROVE SenderInv'
    BY <1>4 DEF Off, Goto, Remove, Mutex!Writes, Mutex!Unlock
  <1>5. ASSUME CallClose PROVE SenderInv'
    BY <1>5 DEF CallClose, Goto
  <1>6. ASSUME Close PROVE SenderInv'
    BY <1>6 DEF Close, Goto, Remove, Mutex!Writes, Mutex!Unlock
  <1>7. ASSUME NEW g \in Writers, Lock(g) PROVE SenderInv'
    BY <1>7 DEF Lock, Mutex!BecomeWriter
  <1>8. ASSUME NEW d \in Dispatchers, CallDispatch(d) PROVE SenderInv'
    BY <1>8 DEF CallDispatch, Goto, Mutex!RLock
  <1>9. ASSUME NEW d \in Dispatchers, Spawn(d) PROVE SenderInv'
    BY <1>9 DEF Spawn, Goto, Mutex!Reads
  <1>10. ASSUME NEW d \in Dispatchers, Return(d) PROVE SenderInv'
    BY <1>10 DEF Return, Goto, AllSent, Mutex!RUnlock
  <1>11. ASSUME NEW s \in senders, Deliver(s) PROVE SenderInv'
    BY <1>11 DEF Deliver
  <1>12. ASSUME UNCHANGED vars PROVE SenderInv'
    BY <1>12 DEF vars
  <1> QED
    BY <1>1, <1>2, <1>3, <1>4, <1>5, <1>6, <1>7, <1>8, <1>9, <1>10, <1>11, <1>12 DEF Next

\* A call owes its value to no one its goroutines do not send to.
LEMMA DueStep == ASSUME TypeOK, MutexInv, SenderInv, DueInv, [Next]_vars PROVE DueInv'
  <1> USE Roles DEF TypeOK, MutexInv, SenderInv, DueInv, mutexVars
  <1>1. ASSUME NEW l \in Listeners, CallOn(l) PROVE DueInv'
    BY <1>1 DEF CallOn, Goto
  <1>2. ASSUME NEW l \in Listeners, CallOff(l) PROVE DueInv'
    BY <1>2 DEF CallOff, Goto
  <1>3. ASSUME NEW l \in Listeners, On(l) PROVE DueInv'
    BY <1>3 DEF On, Goto, Mutex!Writes, Mutex!Unlock
  <1>4. ASSUME NEW l \in Listeners, Off(l) PROVE DueInv'
    BY <1>4 DEF Off, Goto, Remove, Mutex!Writes, Mutex!Unlock
  <1>5. ASSUME CallClose PROVE DueInv'
    BY <1>5 DEF CallClose, Goto
  <1>6. ASSUME Close PROVE DueInv'
    BY <1>6 DEF Close, Goto, Remove, Mutex!Writes, Mutex!Unlock
  <1>7. ASSUME NEW g \in Writers, Lock(g) PROVE DueInv'
    BY <1>7 DEF Lock, Mutex!BecomeWriter
  <1>8. ASSUME NEW d \in Dispatchers, CallDispatch(d) PROVE DueInv'
    BY <1>8 DEF CallDispatch, Goto, Mutex!RLock
  <1>9. ASSUME NEW d \in Dispatchers, Spawn(d) PROVE DueInv'
    BY <1>9 DEF Spawn, Goto, Mutex!Reads
  <1>10. ASSUME NEW d \in Dispatchers, Return(d) PROVE DueInv'
    BY <1>10 DEF Return, Goto, AllSent, Mutex!RUnlock
  <1>11. ASSUME NEW s \in senders, Deliver(s) PROVE DueInv'
    BY <1>11 DEF Deliver
  <1>12. ASSUME UNCHANGED vars PROVE DueInv'
    BY <1>12 DEF vars
  <1> QED
    BY <1>1, <1>2, <1>3, <1>4, <1>5, <1>6, <1>7, <1>8, <1>9, <1>10, <1>11, <1>12 DEF Next

\* A dispatcher calls again only when every listener has the value before.
LEMMA OrderStep == ASSUME EmitterInv, [Next]_vars PROVE OrderInv'
  <1> USE Roles DEF EmitterInv, TypeOK, MutexInv, SenderInv, OrderInv, mutexVars
  <1>1. ASSUME NEW l \in Listeners, CallOn(l) PROVE OrderInv'
    BY <1>1 DEF CallOn, Goto
  <1>2. ASSUME NEW l \in Listeners, CallOff(l) PROVE OrderInv'
    BY <1>2 DEF CallOff, Goto
  <1>3. ASSUME NEW l \in Listeners, On(l) PROVE OrderInv'
    BY <1>3 DEF On, Goto, Mutex!Writes, Mutex!Unlock
  <1>4. ASSUME NEW l \in Listeners, Off(l) PROVE OrderInv'
    BY <1>4 DEF Off, Goto, Remove, Mutex!Writes, Mutex!Unlock
  <1>5. ASSUME CallClose PROVE OrderInv'
    BY <1>5 DEF CallClose, Goto
  <1>6. ASSUME Close PROVE OrderInv'
    BY <1>6 DEF Close, Goto, Remove, Mutex!Writes, Mutex!Unlock
  <1>7. ASSUME NEW g \in Writers, Lock(g) PROVE OrderInv'
    BY <1>7 DEF Lock, Mutex!BecomeWriter
  <1>8. ASSUME NEW d \in Dispatchers, CallDispatch(d) PROVE OrderInv'
    <2>1. /\ pc[d] = "idle" /\ pc' = [pc EXCEPT ![d] = "rlock"]
          /\ sent' = [sent EXCEPT ![d] = @ + 1] /\ sent[d] \in Nat
          /\ UNCHANGED <<listeners, senders, heard>>
      BY <1>8 DEF CallDispatch, Goto
    <2>2. SUFFICES ASSUME NEW l \in Listeners, NEW e \in Dispatchers
                   PROVE  OrderInv!(l, e)'
      BY DEF OrderInv
    <2>3. CASE e # d
      BY <2>1, <2>3
    <2>4. CASE e = d
      <3>1. \A m \in Listeners : <<d, sent[d], m>> \notin senders
        BY <2>1
      <3>2. l \in listeners /\ heard[l][d] > 0 => heard[l][d] = sent[d]
        BY <2>1, <3>1
      <3>3. sent'[d] = sent[d] + 1 /\ pc'[d] = "rlock" /\ pc'[l] = pc[l]
        BY <2>1
      <3>4. sent[d] = (sent[d] + 1) - 1
        BY <2>1
      <3>5. l \in listeners' /\ heard'[l][d] > 0 => heard'[l][d] = sent'[d] - 1
        BY <2>1, <3>2, <3>3, <3>4
      <3>6. pc'[l] \in {"idle", "on"} => heard'[l][d] = 0
        BY <2>1, <3>3
      <3> QED
        BY ONLY <2>4, <3>3, <3>5, <3>6 DEF OrderInv
    <2> QED
      BY <2>3, <2>4
  <1>9. ASSUME NEW d \in Dispatchers, Spawn(d) PROVE OrderInv'
    BY <1>9 DEF Spawn, Goto, Mutex!Reads
  <1>10. ASSUME NEW d \in Dispatchers, Return(d) PROVE OrderInv'
    BY <1>10 DEF Return, Goto, AllSent, Mutex!RUnlock
  <1>11. ASSUME NEW s \in senders, Deliver(s) PROVE OrderInv'
    <2>1. PICK d \in Dispatchers, l \in Listeners : s = <<d, sent[d], l>>
      OBVIOUS
    <2>2. /\ pc[l] \in {"receiving", "off"} /\ senders' = senders \ {s}
          /\ heard' = [heard EXCEPT ![l][d] = sent[d]]
          /\ UNCHANGED <<listeners, sent, pc>>
      BY <1>11, <2>1 DEF Deliver, Receives
    <2>3. pc[d] = "waiting"
      BY <2>1
    <2>4. \A m \in Listeners, e \in Dispatchers :
            heard'[m][e] = IF m = l /\ e = d THEN sent[d] ELSE heard[m][e]
      BY <2>2
    <2>5. \A m \in Listeners, e \in Dispatchers :
            <<e, sent[e], m>> \in senders' <=> <<e, sent[e], m>> \in senders /\ ~(m = l /\ e = d)
      BY <2>1, <2>2
    <2> QED
      BY <2>2, <2>3, <2>4, <2>5
  <1>12. ASSUME UNCHANGED vars PROVE OrderInv'
    BY <1>12 DEF vars
  <1> QED
    BY <1>1, <1>2, <1>3, <1>4, <1>5, <1>6, <1>7, <1>8, <1>9, <1>10, <1>11, <1>12 DEF Next

-----------------------------------------------------------------------------
(* The properties of the specification.                                    *)

\* A new emitter satisfies the inductive invariant.
LEMMA InitInv == Init => EmitterInv
  BY Roles DEF Init, EmitterInv, TypeOK, Pcs, MutexInv, ListedInv, SenderInv, DueInv, OrderInv,
           Mutex!Unused

\* On, Off, Dispatch and Close keep the inductive invariant in any interleaving.
THEOREM Invariance == Spec => []EmitterInv
  <1>1. EmitterInv /\ [Next]_vars => EmitterInv'
    BY TypeStep, MutexStep, ListedStep, SenderStep, DueStep, OrderStep DEF EmitterInv
  <1> QED
    BY InitInv, <1>1, PTL DEF Spec

\* Every variable keeps its type.
THEOREM Typed == Spec => []TypeOK
  <1>1. EmitterInv => TypeOK
    BY DEF EmitterInv
  <1> QED
    BY Invariance, <1>1, PTL

\* Nobody sends on a closed channel, and none is closed twice: Off and Close never
\* overlap a Dispatch (events.go:31-71).
THEOREM NeverPanics == Spec => []NoPanic
  <1>1. EmitterInv => NoPanic
    BY DEF EmitterInv, ListedInv, SenderInv, NoPanic, TypeOK
  <1> QED
    BY Invariance, <1>1, PTL

\* Dispatch returns only when its value has reached every listener that stayed
\* (events.go:46-60).
THEOREM DispatchReaches == Spec => ReachesAll
  <1>1. ASSUME EmitterInv, [Next]_vars, NEW d \in Dispatchers, pc[d] = "waiting", pc'[d] = "idle"
        PROVE  due[d] = {}
    <2>1. Return(d)
      BY <1>1, Roles DEF EmitterInv, TypeOK, Next, vars, CallOn, CallOff, On, Off, CallClose, Close,
         Lock, CallDispatch, Spawn, Return, Deliver, Goto
    <2>2. \A l \in due[d] : l \in Listeners /\ <<d, sent[d], l>> \in senders
      BY <1>1 DEF EmitterInv, TypeOK, DueInv
    <2> QED
      BY <2>1, <2>2 DEF Return, AllSent
  <1>2. EmitterInv /\ [Next]_vars =>
          [\A d \in Dispatchers : pc[d] = "waiting" /\ pc'[d] = "idle" => due[d] = {}]_vars
    BY <1>1
  <1> QED
    BY Invariance, <1>2, PTL DEF Spec, ReachesAll

\* A listener receives each dispatcher's values in order, without a gap and
\* without a repetition, although each is sent by a goroutine of its own.
THEOREM DeliveryInOrder == Spec => InOrder
  <1>1. ASSUME EmitterInv, [Next]_vars, NEW l \in Listeners, NEW d \in Dispatchers,
               heard'[l][d] # heard[l][d]
        PROVE  \/ heard'[l][d] = heard[l][d] + 1
               \/ heard[l][d] = 0 /\ heard'[l][d] > 0
    <2>1. PICK s \in senders : Deliver(s)
      BY <1>1 DEF Next, vars, CallOn, CallOff, On, Off, CallClose, Close, Lock, CallDispatch,
         Spawn, Return
    <2>2. s = <<d, sent[d], l>> /\ heard'[l][d] = sent[d]
      BY <1>1, <2>1 DEF EmitterInv, TypeOK, SenderInv, Deliver
    <2>3. l \in listeners /\ heard[l][d] \in Nat /\ sent[d] \in Nat
      <3>1. heard[l][d] \in Nat /\ sent[d] \in Nat
        BY <1>1 DEF EmitterInv, TypeOK
      <3>2. s[3] \in listeners
        BY <1>1 DEF EmitterInv, SenderInv
      <3> QED
        BY <2>2, <3>1, <3>2
    <2>4. heard[l][d] > 0 => heard[l][d] = sent[d] - 1
      BY <1>1, <2>2, <2>3 DEF EmitterInv, OrderInv
    <2> QED
      BY <1>1, <2>2, <2>3, <2>4
  <1>2. EmitterInv /\ [Next]_vars =>
          [\A l \in Listeners, d \in Dispatchers :
             heard'[l][d] # heard[l][d] =>
               \/ heard'[l][d] = heard[l][d] + 1
               \/ heard[l][d] = 0 /\ heard'[l][d] > 0]_vars
    BY <1>1
  <1> QED
    BY Invariance, <1>2, PTL DEF Spec, InOrder

-----------------------------------------------------------------------------
(* The refinement of Broadcast.                                            *)

\* What the mapping sees of a step: who is in effect, what is owed, what took effect.
LEMMA Mapping ==
  ASSUME EmitterInv
  PROVE  \A d \in Dispatchers :
           /\ pc[d] # "waiting" => \A l \in Listeners : <<d, sent[d], l>> \notin senders
           /\ sent[d] \in Nat
           /\ \A l \in Listeners : <<d, sent[d], l>> \in senders => channel[l] = "open"
  BY DEF EmitterInv, TypeOK, ListedInv, SenderInv

\* Only a step of Dispatch itself changes what Broadcast knows of calls.
LEMMA CallsKept ==
  ASSUME UNCHANGED <<senders, sent>>,
         \A d \in Dispatchers : pc'[d] = pc[d]
  PROVE  /\ UNCHANGED {d \in Dispatchers : pc[d] = "waiting"}
         /\ UNCHANGED [d \in Dispatchers |-> {l \in Listeners : <<d, sent[d], l>> \in senders}]
         /\ UNCHANGED [d \in Dispatchers |-> Dispatched(d)]
  BY DEF Dispatched

\* While a writer writes no call is in effect.
LEMMA WritesAlone ==
  ASSUME EmitterInv, NEW g, Mutex!Writes(g)
  PROVE  {d \in Dispatchers : pc[d] = "waiting"} = {}
  BY DEF EmitterInv, MutexInv, Mutex!Writes

\* Each step of the emitter is one of Broadcast or changes nothing it knows of.
LEMMA RefinementStep ==
  ASSUME EmitterInv, EmitterInv', [Next]_vars
  PROVE  [Abstract!Next]_(Abstract!vars)
  <1> USE Roles DEF Abstract!vars, mutexVars
  <1>1. ASSUME NEW l \in Listeners, CallOn(l) PROVE UNCHANGED Abstract!vars
    BY <1>1, CallsKept DEF CallOn, Goto, EmitterInv, TypeOK
  <1>2. ASSUME NEW l \in Listeners, CallOff(l) PROVE UNCHANGED Abstract!vars
    BY <1>2, CallsKept DEF CallOff, Goto, EmitterInv, TypeOK
  <1>3. ASSUME NEW l \in Listeners, On(l) PROVE Abstract!Subscribe(l)
    <2>1. UNCHANGED <<senders, sent>> /\ \A d \in Dispatchers : pc'[d] = pc[d]
      BY <1>3 DEF On, Goto, EmitterInv, TypeOK
    <2>2. {d \in Dispatchers : pc[d] = "waiting"} = {}
      BY <1>3, WritesAlone DEF On
    <2>3. channel[l] = "none" /\ channel' = [channel EXCEPT ![l] = "open"] /\ UNCHANGED heard
      BY <1>3 DEF On, Goto, EmitterInv, ListedInv
    <2> QED
      BY <2>1, <2>2, <2>3, CallsKept DEF Abstract!Subscribe
  <1>4. ASSUME NEW gone \in SUBSET listeners, NEW rest, Remove(gone, rest),
               UNCHANGED <<senders, sent, heard>>,
               \A d \in Dispatchers : pc'[d] = pc[d],
               {d \in Dispatchers : pc[d] = "waiting"} = {}
        PROVE  Abstract!Unsubscribe(gone)
    <2>1. gone \subseteq Abstract!Subscribed
      BY DEF EmitterInv, TypeOK, ListedInv, Abstract!Subscribed
    <2> QED
      BY <1>4, <2>1, CallsKept DEF Remove, Abstract!Unsubscribe
  <1>5. ASSUME NEW l \in Listeners, Off(l)
        PROVE  Abstract!Unsubscribe({l}) \/ UNCHANGED Abstract!vars
    <2>1. /\ Remove({l} \cap listeners, listeners \ {l})
          /\ UNCHANGED <<senders, sent, heard>> /\ \A d \in Dispatchers : pc'[d] = pc[d]
      BY <1>5 DEF Off, Goto, EmitterInv, TypeOK
    <2>2. {d \in Dispatchers : pc[d] = "waiting"} = {}
      BY <1>5, WritesAlone DEF Off
    <2>3. CASE l \in listeners
      <3>1. {l} \cap listeners = {l} /\ {l} \in SUBSET listeners
        BY <2>3
      <3> QED
        BY <1>4, <2>1, <2>2, <3>1
    <2>4. CASE l \notin listeners
      <3>1. UNCHANGED channel
        BY <2>1, <2>4 DEF Remove, EmitterInv, TypeOK
      <3> QED
        BY <2>1, <3>1, CallsKept
    <2> QED
      BY <2>3, <2>4
  <1>6. ASSUME CallClose PROVE UNCHANGED Abstract!vars
    BY <1>6, CallsKept DEF CallClose, Goto, EmitterInv, TypeOK
  <1>7. ASSUME Close PROVE Abstract!Unsubscribe(Abstract!Subscribed)
    <2>1. listeners = Abstract!Subscribed
      BY DEF EmitterInv, TypeOK, ListedInv, Abstract!Subscribed
    <2>2. /\ Remove(listeners, {})
          /\ UNCHANGED <<senders, sent, heard>> /\ \A d \in Dispatchers : pc'[d] = pc[d]
      BY <1>7 DEF Close, Goto, EmitterInv, TypeOK
    <2>3. {d \in Dispatchers : pc[d] = "waiting"} = {}
      BY <1>7, WritesAlone DEF Close
    <2> QED
      BY <1>4, <2>1, <2>2, <2>3
  <1>8. ASSUME NEW g \in Writers, Lock(g) PROVE UNCHANGED Abstract!vars
    BY <1>8, CallsKept DEF Lock
  <1>9. ASSUME NEW d \in Dispatchers, CallDispatch(d) PROVE UNCHANGED Abstract!vars
    <2>1. /\ pc[d] = "idle" /\ pc' = [pc EXCEPT ![d] = "rlock"]
          /\ sent' = [sent EXCEPT ![d] = @ + 1] /\ UNCHANGED <<channel, senders, heard>>
      BY <1>9 DEF CallDispatch, Goto
    <2>2. \A e \in Dispatchers : pc'[e] = (IF e = d THEN "rlock" ELSE pc[e])
                              /\ sent'[e] = (IF e = d THEN sent[e] + 1 ELSE sent[e])
      BY <2>1 DEF EmitterInv, TypeOK
    <2>3. \A e \in Dispatchers : pc'[e] = "waiting" <=> pc[e] = "waiting"
      BY <2>1, <2>2
    <2>4. \A e \in Dispatchers : Dispatched(e)' = Dispatched(e)
      BY <2>1, <2>2, Mapping DEF Dispatched
    <2>5. \A e \in Dispatchers, l \in Listeners :
            <<e, sent'[e], l>> \in senders' <=> <<e, sent[e], l>> \in senders
      <3>1. \A l \in Listeners : <<d, sent'[d], l>> \notin senders'
        BY <2>1, <2>2 DEF EmitterInv, SenderInv
      <3> QED
        BY <2>1, <2>2, <3>1, Mapping
    <2> QED
      BY <2>1, <2>3, <2>4, <2>5
  <1>10. ASSUME NEW d \in Dispatchers, Spawn(d) PROVE Abstract!Dispatch(d)
    <2>1. /\ pc[d] = "rlock" /\ pc' = [pc EXCEPT ![d] = "waiting"]
          /\ senders' = senders \cup {<<d, sent[d], l>> : l \in listeners}
          /\ UNCHANGED <<channel, sent, heard>>
      BY <1>10 DEF Spawn, Goto
    <2>2. \A e \in Dispatchers : pc'[e] = (IF e = d THEN "waiting" ELSE pc[e])
      BY <2>1 DEF EmitterInv, TypeOK
    <2>3. listeners = Abstract!Subscribed
      BY DEF EmitterInv, TypeOK, ListedInv, Abstract!Subscribed
    <2>4. Dispatched(d)' = Dispatched(d) + 1
      BY <2>1, <2>2, Mapping DEF Dispatched
    <2>5. \A e \in Dispatchers : e # d => Dispatched(e)' = Dispatched(e)
      BY <2>1, <2>2 DEF Dispatched
    <2>6. \A e \in Dispatchers, l \in Listeners :
            <<e, sent'[e], l>> \in senders'
              <=> IF e = d THEN l \in Abstract!Subscribed ELSE <<e, sent[e], l>> \in senders
      BY <2>1, <2>3, Mapping
    <2>7. \A e \in Dispatchers : pc'[e] = "waiting" <=> pc[e] = "waiting" \/ e = d
      BY <2>2
    <2> QED
      BY <2>1, <2>4, <2>5, <2>6, <2>7 DEF Abstract!Dispatch, Abstract!Subscribed
  <1>11. ASSUME NEW d \in Dispatchers, Return(d) PROVE Abstract!Return(d)
    <2>1. /\ pc[d] = "waiting" /\ pc' = [pc EXCEPT ![d] = "idle"]
          /\ \A l \in Listeners : <<d, sent[d], l>> \notin senders
          /\ UNCHANGED <<channel, senders, sent, heard>>
      BY <1>11 DEF Return, Goto, AllSent
    <2>2. \A e \in Dispatchers : pc'[e] = (IF e = d THEN "idle" ELSE pc[e])
      BY <2>1 DEF EmitterInv, TypeOK
    <2>3. \A e \in Dispatchers : Dispatched(e)' = Dispatched(e)
      BY <2>1, <2>2 DEF Dispatched
    <2> QED
      BY <2>1, <2>2, <2>3 DEF Abstract!Return
  <1>12. ASSUME NEW s \in senders, Deliver(s) PROVE Abstract!Next
    <2>1. PICK d \in Dispatchers, l \in Listeners : s = <<d, sent[d], l>>
      BY DEF EmitterInv, TypeOK, SenderInv
    <2>2. /\ senders' = senders \ {s} /\ heard' = [heard EXCEPT ![l][d] = sent[d]]
          /\ UNCHANGED <<channel, sent, pc>>
      BY <1>12, <2>1 DEF Deliver
    <2>3. pc[d] = "waiting" /\ Dispatched(d) = sent[d]
      BY <2>1 DEF EmitterInv, SenderInv, Dispatched
    <2>4. \A e \in Dispatchers, m \in Listeners :
            <<e, sent'[e], m>> \in senders'
              <=> <<e, sent[e], m>> \in senders /\ ~(e = d /\ m = l)
      BY <2>1, <2>2
    <2>5. \A e \in Dispatchers : Dispatched(e)' = Dispatched(e)
      BY <2>2 DEF Dispatched
    <2>6. Abstract!Receive(l, d)
      BY <2>1, <2>2, <2>3, <2>4, <2>5 DEF Abstract!Receive
    <2> QED
      BY <2>6 DEF Abstract!Next
  <1>13. ASSUME UNCHANGED vars PROVE UNCHANGED Abstract!vars
    BY <1>13, CallsKept DEF vars
  <1> QED
    BY <1>1, <1>2, <1>3, <1>5, <1>6, <1>7, <1>8, <1>9, <1>10, <1>11, <1>12, <1>13
       DEF Next, Abstract!Next

\* EventEmitter implements Broadcast: its mutex, its goroutines and their wait make
\* each Dispatch take effect at one moment (events.go:46-60).
THEOREM Refinement == Spec => ImplementsBroadcast
  <1>1. Init => Abstract!Init
    BY Roles DEF Init, Abstract!Init, Dispatched
  <1>2. EmitterInv /\ EmitterInv' /\ [Next]_vars => [Abstract!Next]_(Abstract!vars)
    BY RefinementStep
  <1> QED
    BY <1>1, <1>2, Invariance, PTL DEF Spec, ImplementsBroadcast, Abstract!Spec

-----------------------------------------------------------------------------
(* Waiting.                                                                *)

\* On, Off, Close and Dispatch wait for each other in a circle only by a listener's
\* Off that meets a Dispatch (events.go:31-60).
THEOREM DeadlocksOnlyInOff == Spec => []StuckOnlyInOff
  <1>1. ASSUME EmitterInv,
               \A g \in Goroutines : pc[g] \notin {"idle", "receiving", "gone"} => Blocked(g),
               NEW g \in Goroutines, Blocked(g)
        PROVE  \E l \in Listeners : MeetsItsOff(l)
    <2>1. CASE readers = {}
      <3>1. writer # Nobody => writer \in Goroutines /\ ~Blocked(writer)
                                /\ pc[writer] \in {"on", "off", "close"}
        BY <1>1, <2>1, Roles DEF EmitterInv, TypeOK, MutexInv, Blocked, Mutex!Writes
      <3>2. writer = Nobody
        BY <1>1, <3>1
      <3>3. \A d \in Dispatchers : pc[d] = "idle"
        BY <1>1, <2>1, <3>2 DEF EmitterInv, TypeOK, MutexInv
      <3> QED
        BY <1>1, <3>2, <3>3, Roles DEF Blocked, EmitterInv, TypeOK, Goroutines, Writers
    <2>2. CASE readers # {}
      <3>1. PICK d \in Dispatchers : d \in readers
        BY <1>1, <2>2 DEF EmitterInv, TypeOK
      <3>2. pc[d] \in {"rlock", "waiting"} /\ Blocked(d)
        BY <1>1, <3>1, Roles DEF EmitterInv, MutexInv
      <3>3. /\ pc[d] = "waiting" /\ ~AllSent(d)
            /\ \A s \in senders : s[1] = d => ~Receives(s[3])
        BY <3>1, <3>2 DEF Blocked, Mutex!Reads
      <3>4. PICK l \in Listeners : <<d, sent[d], l>> \in senders
        BY <3>3 DEF AllSent
      <3>5. ~Receives(l) /\ pc[l] \in {"receiving", "off"}
        BY <1>1, <3>3, <3>4 DEF EmitterInv, SenderInv, ListedInv
      <3> QED
        BY <3>4, <3>5 DEF Receives, MeetsItsOff
    <2> QED
      BY <2>1, <2>2
  <1>2. EmitterInv => StuckOnlyInOff
    BY <1>1 DEF StuckOnlyInOff
  <1> QED
    BY Invariance, <1>2, PTL

\* An Off that meets a Dispatch waits for ever, and the Dispatch with it, although
\* Off is to remove the channel (events_test.go:35).
THEOREM OffDeadlocks == Spec => OffStaysStuck
  <1>1. ASSUME EmitterInv, [Next]_vars, NEW l \in Listeners, MeetsItsOff(l)
        PROVE  MeetsItsOff(l)'
    <2> USE Roles DEF EmitterInv, TypeOK, mutexVars
    <2>1. PICK s \in senders : s[3] = l
      BY <1>1 DEF MeetsItsOff
    <2>2. pc[l] = "off" /\ l \notin Draining /\ s[1] \in readers
      BY <1>1, <2>1 DEF MeetsItsOff, Receives, SenderInv
    <2>3. SUFFICES pc'[l] = "off" /\ s \in senders'
      BY <2>1, <2>2 DEF MeetsItsOff, Receives
    <2>4. ASSUME NEW k \in Listeners, CallOn(k) \/ CallOff(k) \/ On(k) \/ Off(k)
          PROVE  pc'[l] = "off" /\ s \in senders'
      BY <1>1, <2>2, <2>4 DEF CallOn, CallOff, On, Off, Goto, Mutex!Writes
    <2>5. CASE CallClose \/ Close
      BY <1>1, <2>2, <2>5 DEF CallClose, Close, Goto
    <2>6. ASSUME NEW g \in Writers, Lock(g) PROVE pc'[l] = "off" /\ s \in senders'
      BY <2>2, <2>6 DEF Lock
    <2>7. ASSUME NEW d \in Dispatchers, CallDispatch(d) \/ Spawn(d) \/ Return(d)
          PROVE  pc'[l] = "off" /\ s \in senders'
      BY <1>1, <2>2, <2>7 DEF CallDispatch, Spawn, Return, Goto
    <2>8. ASSUME NEW t \in senders, Deliver(t) PROVE pc'[l] = "off" /\ s \in senders'
      BY <2>1, <2>2, <2>8 DEF Deliver, Receives
    <2>9. CASE UNCHANGED vars
      BY <2>2, <2>9 DEF vars
    <2> QED
      BY <1>1, <2>4, <2>5, <2>6, <2>7, <2>8, <2>9 DEF Next
  <1>2. EmitterInv /\ [Next]_vars => [\A l \in Listeners : MeetsItsOff(l) => MeetsItsOff(l)']_vars
    BY <1>1
  <1> QED
    BY Invariance, <1>2, PTL DEF Spec, OffStaysStuck
=============================================================================
