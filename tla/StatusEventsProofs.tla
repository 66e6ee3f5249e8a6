------------------------- MODULE StatusEventsProofs -------------------------
(***************************************************************************)
(* Theorems about StatusEvents, for any number of updaters, listeners,     *)
(* readers and calls.  Every step is a step of the emitter or leaves it as *)
(* it is, so the emitter keeps the invariant proved of it in               *)
(* EventEmitterProofs; with dsi.mu, which admits one Dispatch at a time,   *)
(* follows what each listener has seen.  Fairness is not used.             *)
(***************************************************************************)
EXTENDS StatusEvents, TLAPS

E == INSTANCE EventEmitterProofs WITH Dispatchers <- Updaters, MaxDispatch <- MaxStatus

\* The assumption of EventEmitter holds of its use here.
LEMMA EmitterUse == E!EmitterAssumption
  BY StatusAssumption DEF StatusAssumption, E!EmitterAssumption

-----------------------------------------------------------------------------
(* The emitter within.                                                     *)

\* A step is a step of the emitter or leaves it alone.
LEMMA EmitterStep == ASSUME [Next]_vars PROVE [E!Next]_(E!vars)
  <1> USE DEF emitter, instance, history, muVars, E!vars, E!mutexVars
  <1>1. ASSUME NEW u \in Updaters, CallSetStatus(u) \/ LockMu(u) PROVE UNCHANGED E!vars
    BY <1>1 DEF CallSetStatus, LockMu
  <1>2. ASSUME NEW u \in Updaters, Assign(u) PROVE E!CallDispatch(u)
    BY <1>2 DEF Assign, Emitter!CallDispatch, E!CallDispatch, Emitter!Goto, E!Goto,
                Emitter!Mutex!RLock, E!Mutex!RLock
  <1>3. ASSUME NEW u \in Updaters, Spawn(u) PROVE E!Spawn(u)
    BY <1>3 DEF Spawn, Emitter!Spawn, E!Spawn, Emitter!Goto, E!Goto, Emitter!mutexVars,
                Emitter!Mutex!Reads, E!Mutex!Reads
  <1>4. ASSUME NEW u \in Updaters, Return(u) PROVE E!Return(u)
    BY <1>4 DEF Return, Emitter!Return, E!Return, Emitter!Goto, E!Goto, Emitter!AllSent, E!AllSent,
                Emitter!Mutex!RUnlock, E!Mutex!RUnlock
  <1>5. ASSUME NEW g \in Callers, CallStatus(g) \/ StatusReturns(g) PROVE UNCHANGED E!vars
    BY <1>5 DEF CallStatus, StatusReturns
  <1>6. ASSUME NEW l \in Listeners, Subscribe(l) PROVE E!CallOn(l) \/ E!Lock(l)
    BY <1>6 DEF Subscribe, Emitter!CallOn, E!CallOn, Emitter!Lock, E!Lock, Emitter!Goto, E!Goto,
                Emitter!mutexVars, Emitter!Mutex!BecomeWriter, E!Mutex!BecomeWriter
  <1>7. ASSUME NEW l \in Listeners, On(l) PROVE E!On(l)
    BY <1>7 DEF On, Emitter!On, E!On, Emitter!Goto, E!Goto, Emitter!Mutex!Writes, E!Mutex!Writes,
                Emitter!Mutex!Unlock, E!Mutex!Unlock
  <1>8. ASSUME NEW l \in Listeners, CallOff(l) PROVE E!CallOff(l)
    BY <1>8 DEF CallOff, Emitter!CallOff, E!CallOff, Emitter!Goto, E!Goto, Emitter!mutexVars
  <1>9. ASSUME NEW l \in Listeners, Off(l) PROVE E!Off(l)
    BY <1>9 DEF Off, Emitter!Off, E!Off, Emitter!Goto, E!Goto, Emitter!Remove, E!Remove,
                Emitter!Mutex!Writes, E!Mutex!Writes, Emitter!Mutex!Unlock, E!Mutex!Unlock
  <1>10. ASSUME NEW s \in senders, Deliver(s) PROVE E!Deliver(s)
    BY <1>10 DEF Deliver, Emitter!Deliver, E!Deliver, Emitter!Receives, E!Receives, Emitter!mutexVars
  <1>11. ASSUME UNCHANGED vars PROVE UNCHANGED E!vars
    BY <1>11 DEF vars
  <1> QED
    BY <1>1, <1>2, <1>3, <1>4, <1>5, <1>6, <1>7, <1>8, <1>9, <1>10, <1>11
       DEF Next, SetStatus, E!Next, E!Writers

\* The emitter's invariant is kept.
LEMMA EmitterKept == ASSUME E!EmitterInv, [Next]_vars PROVE E!EmitterInv'
  BY EmitterUse, EmitterStep, E!TypeStep, E!MutexStep, E!ListedStep, E!SenderStep, E!DueStep,
     E!OrderStep DEF E!EmitterInv

\* What the proofs below use of it.
LEMMA EmitterFacts ==
  ASSUME E!EmitterInv
  PROVE  /\ listeners \subseteq Listeners
         /\ senders \subseteq Updaters \X Nat \X Listeners
         /\ pc \in [Listeners \cup {Closer} \cup Updaters -> E!Pcs]
         /\ \A s \in senders : pc[s[1]] = "waiting" /\ s[2] = sent[s[1]] /\ s[3] \in listeners
  BY DEF E!EmitterInv, E!TypeOK, E!SenderInv, E!Goroutines, E!Writers

-----------------------------------------------------------------------------
(* Every step preserves the parts of StatusInv.                            *)

\* Every step keeps the variables in their types.
LEMMA TypeStep == ASSUME TypeOK, E!EmitterInv, [Next]_vars PROVE TypeOK'
  <1> USE StatusAssumption, EmitterFacts DEF StatusAssumption, TypeOK, Callers, muVars, instance, history
  <1>1. ASSUME NEW u \in Updaters, SetStatus(u) PROVE TypeOK'
    <2>1. CASE CallSetStatus(u)
      BY <2>1 DEF CallSetStatus, Goto
    <2>2. CASE LockMu(u)
      BY <2>2 DEF LockMu, Mu!BecomeWriter
    <2>3. CASE Assign(u)
      BY <2>3 DEF Assign, Goto
    <2>4. CASE Spawn(u)
      BY <2>4 DEF Spawn
    <2>5. CASE Return(u)
      BY <2>5 DEF Return, Goto, Mu!Unlock
    <2> QED
      BY <1>1, <2>1, <2>2, <2>3, <2>4, <2>5 DEF SetStatus
  <1>2. ASSUME NEW g \in Callers, CallStatus(g) PROVE TypeOK'
    BY <1>2 DEF CallStatus, Goto, Mu!RLock
  <1>3. ASSUME NEW g \in Callers, StatusReturns(g) PROVE TypeOK'
    BY <1>3 DEF StatusReturns, Goto, Mu!RUnlock
  <1>4. ASSUME NEW l \in Listeners, Subscribe(l) \/ CallOff(l) \/ Off(l) PROVE TypeOK'
    BY <1>4 DEF Subscribe, CallOff, Off
  <1>5. ASSUME NEW l \in Listeners, On(l) PROVE TypeOK'
    BY <1>5 DEF On
  <1>6. ASSUME NEW s \in senders, Deliver(s) PROVE TypeOK'
    BY <1>6 DEF Deliver
  <1>7. ASSUME UNCHANGED vars PROVE TypeOK'
    BY <1>7 DEF vars
  <1> QED
    BY <1>1, <1>2, <1>3, <1>4, <1>5, <1>6, <1>7 DEF Next

\* dsi.mu is with those that are in setStatus and Status(); Dispatch runs under it.
LEMMA MuStep == ASSUME StatusInv, E!EmitterInv, [Next]_vars PROVE MuInv'
  <1> USE StatusAssumption, EmitterFacts DEF StatusAssumption, StatusInv, TypeOK, MuInv, Callers, muVars,
        instance, history, emitter, E!Pcs
  <1>1. ASSUME NEW u \in Updaters, CallSetStatus(u) PROVE MuInv'
    BY <1>1 DEF CallSetStatus, Goto
  <1>2. ASSUME NEW u \in Updaters, LockMu(u) PROVE MuInv'
    BY <1>2 DEF LockMu, Mu!BecomeWriter
  <1>3. ASSUME NEW u \in Updaters, Assign(u) PROVE MuInv'
    BY <1>3 DEF Assign, Goto, Mu!Writes, Emitter!CallDispatch, Emitter!Goto
  <1>4. ASSUME NEW u \in Updaters, Spawn(u) PROVE MuInv'
    BY <1>4 DEF Spawn, Emitter!Spawn, Emitter!Goto
  <1>5. ASSUME NEW u \in Updaters, Return(u) PROVE MuInv'
    BY <1>5 DEF Return, Goto, Mu!Unlock, Emitter!Return, Emitter!Goto
  <1>6. ASSUME NEW g \in Callers, CallStatus(g) PROVE MuInv'
    BY <1>6 DEF CallStatus, Goto, Mu!RLock
  <1>7. ASSUME NEW g \in Callers, StatusReturns(g) PROVE MuInv'
    BY <1>7 DEF StatusReturns, Goto, Mu!Reads, Mu!RUnlock
  <1>8. ASSUME NEW l \in Listeners, Subscribe(l) PROVE MuInv'
    BY <1>8 DEF Subscribe, Emitter!CallOn, Emitter!Lock, Emitter!Goto
  <1>9. ASSUME NEW l \in Listeners, On(l) PROVE MuInv'
    BY <1>9 DEF On, Emitter!On, Emitter!Goto
  <1>10. ASSUME NEW l \in Listeners, CallOff(l) PROVE MuInv'
    BY <1>10 DEF CallOff, Emitter!CallOff, Emitter!Goto
  <1>11. ASSUME NEW l \in Listeners, Off(l) PROVE MuInv'
    BY <1>11 DEF Off, Emitter!Off, Emitter!Goto
  <1>12. ASSUME NEW s \in senders, Deliver(s) PROVE MuInv'
    BY <1>12 DEF Deliver, Emitter!Deliver
  <1>13. ASSUME UNCHANGED vars PROVE MuInv'
    BY <1>13 DEF vars
  <1> QED
    BY <1>1, <1>2, <1>3, <1>4, <1>5, <1>6, <1>7, <1>8, <1>9, <1>10, <1>11, <1>12, <1>13 DEF Next, SetStatus

\* A listener is in e.listeners from On to Off.
LEMMA ListedStep == ASSUME StatusInv, E!EmitterInv, [Next]_vars PROVE ListedInv'
  <1> USE StatusAssumption, EmitterFacts DEF StatusAssumption, StatusInv, TypeOK, ListedInv, Callers,
        Goto, muVars, instance, history, emitter, E!Pcs
  <1>1. ASSUME NEW u \in Updaters, SetStatus(u) PROVE ListedInv'
    <2>1. UNCHANGED listeners /\ \A g \in Callers : at'[g] = at[g]
      BY <1>1 DEF SetStatus, CallSetStatus, LockMu, Assign, Spawn, Return, Emitter!CallDispatch,
                  Emitter!Spawn, Emitter!Return
    <2>2. \A g \in Listeners \cup {Closer} : pc'[g] = pc[g]
      BY <1>1 DEF SetStatus, CallSetStatus, LockMu, Assign, Spawn, Return, Emitter!CallDispatch,
                  Emitter!Spawn, Emitter!Return, Emitter!Goto
    <2> QED
      BY <2>1, <2>2
  <1>2. ASSUME NEW g \in Callers, CallStatus(g) \/ StatusReturns(g) PROVE ListedInv'
    BY <1>2 DEF CallStatus, StatusReturns
  <1>3. ASSUME NEW l \in Listeners, Subscribe(l) \/ CallOff(l) PROVE ListedInv'
    BY <1>3 DEF Subscribe, CallOff, Emitter!CallOn, Emitter!CallOff, Emitter!Lock, Emitter!Goto
  <1>4. ASSUME NEW l \in Listeners, On(l) PROVE ListedInv'
    BY <1>4 DEF On, Emitter!On, Emitter!Goto
  <1>5. ASSUME NEW l \in Listeners, Off(l) PROVE ListedInv'
    BY <1>5 DEF Off, Emitter!Off, Emitter!Remove, Emitter!Goto
  <1>6. ASSUME NEW s \in senders, Deliver(s) PROVE ListedInv'
    BY <1>6 DEF Deliver, Emitter!Deliver
  <1>7. ASSUME UNCHANGED vars PROVE ListedInv'
    BY <1>7 DEF vars
  <1> QED
    BY <1>1, <1>2, <1>3, <1>4, <1>5, <1>6, <1>7 DEF Next

-----------------------------------------------------------------------------
(* What listeners have seen.                                               *)

\* One goroutine at a time is in Dispatch, and none while dsi.mu is not written.
LEMMA OneDispatch ==
  ASSUME StatusInv, E!EmitterInv
  PROVE  /\ \A u, w \in Updaters : pc[u] # "idle" /\ pc[w] # "idle" => u = w
         /\ \A s, t \in senders : s[3] = t[3] => s = t
         /\ \A s \in senders : s[1] \in Updaters /\ at[s[1]] = "dispatch"
  <1>1. \A u, w \in Updaters : pc[u] # "idle" /\ pc[w] # "idle" => u = w
    BY DEF StatusInv, MuInv
  <1>2. \A s \in senders : s[1] \in Updaters /\ pc[s[1]] = "waiting" /\ s[2] = sent[s[1]]
    BY EmitterFacts
  <1>3. \A s \in senders : s = <<s[1], s[2], s[3]>>
    BY EmitterFacts
  <1> QED
    BY <1>1, <1>2, <1>3 DEF StatusInv, MuInv

\* dsi.status, what is being handed out and what was received stay in step.
LEMMA SeenStep == ASSUME StatusInv, E!EmitterInv, [Next]_vars PROVE SeenInv'
  <1> USE StatusAssumption, EmitterFacts, OneDispatch
      DEF StatusAssumption, StatusInv, TypeOK, SeenInv, Callers, muVars, instance, history, emitter
  <1>1. ASSUME NEW u \in Updaters, CallSetStatus(u) \/ LockMu(u) PROVE SeenInv'
    BY <1>1 DEF CallSetStatus, LockMu, Goto
  <1>2. ASSUME NEW u \in Updaters, Assign(u) PROVE SeenInv'
    <2>1. \A w \in Updaters : at[w] # "dispatch" /\ pc[w] = "idle"
      BY <1>2 DEF Assign, Mu!Writes, MuInv, Goto
    <2>2. status = told /\ status' = told' + 1
      BY <1>2, <2>1 DEF Assign
    <2>3. pc'[u] = "rlock"
      BY <1>2 DEF Assign, Emitter!CallDispatch, Emitter!Goto
    <2>4. \A w \in Updaters : at'[w] = "dispatch" => mine'[w] = status'
      BY <1>2, <2>1 DEF Assign, Goto
    <2>5. UNCHANGED <<told, seen, senders, listeners>>
      BY <1>2 DEF Assign, Emitter!CallDispatch
    <2> QED
      BY <2>2, <2>3, <2>4, <2>5
  <1>3. ASSUME NEW u \in Updaters, Spawn(u) PROVE SeenInv'
    <2>1. pc[u] = "rlock" /\ \A w \in Updaters : pc'[w] # "rlock"
      BY <1>3 DEF Spawn, Emitter!Spawn, Emitter!Goto
    <2>2. told' = status /\ status = told + 1
      BY <1>3, <2>1 DEF Spawn, MuInv
    <2>3. senders = {}
      BY <2>1
    <2>4. senders' = {<<u, sent[u], l>> : l \in listeners}
      BY <1>3, <2>3 DEF Spawn, Emitter!Spawn
    <2>5. ASSUME NEW l \in listeners PROVE <<u, sent[u], l>> \in senders' /\ <<u, sent[u], l>>[3] = l
      BY <2>4
    <2>6. \A l \in listeners : \E s \in senders' : s[3] = l
      BY <2>5
    <2>7. \A l \in listeners : told = seen[l]
      BY <2>3
    <2>8. UNCHANGED <<seen, status, mine, at, listeners>>
      BY <1>3 DEF Spawn, Emitter!Spawn
    <2> QED
      BY <2>1, <2>2, <2>6, <2>7, <2>8
  <1>4. ASSUME NEW u \in Updaters, Return(u) PROVE SeenInv'
    BY <1>4 DEF Return, Goto, Emitter!Return, Emitter!Goto
  <1>5. ASSUME NEW g \in Callers, CallStatus(g) \/ StatusReturns(g) PROVE SeenInv'
    BY <1>5 DEF CallStatus, StatusReturns, Goto
  <1>6. ASSUME NEW l \in Listeners, Subscribe(l) \/ CallOff(l) PROVE SeenInv'
    BY <1>6 DEF Subscribe, CallOff, Emitter!CallOn, Emitter!CallOff, Emitter!Lock, Emitter!Goto
  <1>7. ASSUME NEW l \in Listeners, On(l) PROVE SeenInv'
    <2>1. pc[l] = "on" /\ listeners' = listeners \cup {l} /\ senders' = senders
      BY <1>7 DEF On, Emitter!On, Emitter!Goto
    <2>2. \A s \in senders : s[3] # l
      BY <2>1 DEF ListedInv
    <2>3. seen'[l] = told /\ \A k \in Listeners : k # l => seen'[k] = seen[k]
      BY <1>7 DEF On
    <2>4. UNCHANGED <<status, told, mine, at>> /\ \A u \in Updaters : pc'[u] = pc[u]
      BY <1>7 DEF On, Emitter!On, Emitter!Goto
    <2> QED
      BY <2>1, <2>2, <2>3, <2>4
  <1>8. ASSUME NEW l \in Listeners, Off(l) PROVE SeenInv'
    BY <1>8 DEF Off, Emitter!Off, Emitter!Remove, Emitter!Goto
  <1>9. ASSUME NEW s \in senders, Deliver(s) PROVE SeenInv'
    <2>1. senders' = senders \ {s} /\ seen' = [seen EXCEPT ![s[3]] = mine[s[1]]]
      BY <1>9 DEF Deliver, Emitter!Deliver
    <2>2. mine[s[1]] = told
      BY DEF MuInv
    <2>3. \A t \in senders' : t[3] # s[3]
      BY <2>1
    <2>4. \A l \in listeners : l # s[3] =>
            ((\E t \in senders' : t[3] = l) <=> (\E t \in senders : t[3] = l)) /\ seen'[l] = seen[l]
      BY <2>1
    <2>5. UNCHANGED <<status, told, mine, at, pc, listeners>>
      BY <1>9 DEF Deliver, Emitter!Deliver
    <2>6. seen'[s[3]] = told
      BY <2>1, <2>2
    <2> QED
      BY <2>3, <2>4, <2>5, <2>6
  <1>10. ASSUME UNCHANGED vars PROVE SeenInv'
    BY <1>10 DEF vars
  <1> QED
    BY <1>1, <1>2, <1>3, <1>4, <1>5, <1>6, <1>7, <1>8, <1>9, <1>10 DEF Next, SetStatus

-----------------------------------------------------------------------------
(* The theorems.                                                           *)

\* The initial state satisfies the invariants.
LEMMA InitInv == Init => StatusInv /\ E!EmitterInv
  <1> SUFFICES ASSUME Init PROVE StatusInv /\ E!EmitterInv
    OBVIOUS
  <1>1. E!Init
    BY DEF Init, Emitter!Init, E!Init, Emitter!Mutex!Unused, E!Mutex!Unused, Emitter!Goroutines,
           E!Goroutines, Emitter!Writers, E!Writers
  <1>2. E!EmitterInv
    BY <1>1, EmitterUse, E!InitInv
  <1>3. StatusInv
    BY <1>2, EmitterFacts, StatusAssumption
       DEF StatusAssumption, Init, StatusInv, TypeOK, MuInv, ListedInv, SeenInv, Callers, Mu!Unused,
           Emitter!Init, Emitter!Goroutines, Emitter!Writers
  <1> QED
    BY <1>2, <1>3

\* Both invariants hold always.
LEMMA Invariant == Spec => [](StatusInv /\ E!EmitterInv)
  <1>1. StatusInv /\ E!EmitterInv /\ [Next]_vars => (StatusInv /\ E!EmitterInv)'
    BY EmitterKept, TypeStep, MuStep, ListedStep, SeenStep DEF StatusInv
  <1> QED
    BY InitInv, <1>1, PTL DEF Spec

\* setStatus, Status() and the emitter's methods keep the inductive invariant in
\* any interleaving.
THEOREM Invariance == Spec => []StatusInv
  BY Invariant, PTL

\* The status emitter runs inside this code as EventEmitter says it does, so what
\* is proved of EventEmitter holds of it.
THEOREM EmitterWithin == Spec => E!Init /\ [][E!Next]_(E!vars)
  <1>1. Init => E!Init
    BY DEF Init, Emitter!Init, E!Init, Emitter!Mutex!Unused, E!Mutex!Unused, Emitter!Goroutines,
           E!Goroutines, Emitter!Writers, E!Writers
  <1>2. [Next]_vars => [E!Next]_(E!vars)
    BY EmitterStep
  <1> QED
    BY <1>1, <1>2, PTL DEF Spec

\* Nobody reads from Status() what a listener in its loop has not received.
THEOREM ListenersAreTold == Spec => []Latest
  <1>1. StatusInv /\ E!EmitterInv => Latest
    <2> SUFFICES ASSUME StatusInv, E!EmitterInv, muWriter = Nobody \/ muReaders # {},
                        NEW l \in Listeners, pc[l] = "receiving"
                 PROVE  seen[l] = status
      BY DEF Latest
    <2>1. \A u \in Updaters : at[u] # "dispatch" /\ pc[u] = "idle"
      BY StatusAssumption DEF StatusAssumption, StatusInv, MuInv
    <2>2. senders = {}
      BY <2>1, OneDispatch
    <2>3. l \in listeners
      BY DEF StatusInv, ListedInv
    <2> QED
      BY <2>1, <2>2, <2>3 DEF StatusInv, SeenInv
  <1> QED
    BY Invariant, <1>1, PTL

\* Statuses reach a listener in the order they were assigned, none of them lost.
THEOREM StatusOrder == Spec => InStatusOrder
  <1>1. ASSUME StatusInv, E!EmitterInv, [Next]_vars, NEW l \in Listeners,
               pc[l] = "receiving", pc'[l] = "receiving"
        PROVE  seen'[l] \in {seen[l], seen[l] + 1}
    <2>1. ASSUME NEW k \in Listeners, On(k) PROVE seen'[l] = seen[l]
      BY <1>1, <2>1 DEF On, Emitter!On, Emitter!Goto, StatusInv, TypeOK
    <2>2. ASSUME NEW s \in senders, Deliver(s) PROVE seen'[l] \in {seen[l], seen[l] + 1}
      <3>1. seen' = [seen EXCEPT ![s[3]] = mine[s[1]]]
        BY <2>2 DEF Deliver
      <3>2. mine[s[1]] = status /\ status = told
        BY <1>1, OneDispatch, EmitterFacts DEF StatusInv, MuInv, SeenInv
      <3>3. told = seen[s[3]] + 1
        BY <1>1, EmitterFacts DEF StatusInv, SeenInv
      <3> QED
        BY <1>1, <3>1, <3>2, <3>3 DEF StatusInv, TypeOK
    <2>3. CASE UNCHANGED seen
      BY <2>3
    <2> QED
      BY <1>1, <2>1, <2>2, <2>3
         DEF Next, SetStatus, CallSetStatus, LockMu, Assign, Spawn, Return, CallStatus, StatusReturns,
             Subscribe, CallOff, Off, vars, instance, history
  <1>2. StatusInv /\ E!EmitterInv /\ [Next]_vars =>
          [\A l \in Listeners : pc[l] = "receiving" /\ pc'[l] = "receiving" =>
             seen'[l] \in {seen[l], seen[l] + 1}]_vars
    BY <1>1
  <1> QED
    BY Invariant, <1>2, PTL DEF Spec, InStatusOrder

-----------------------------------------------------------------------------
(* Waiting.                                                                *)

\* Where the goroutines are when they wait at the two mutexes.
LEMMA WaitFacts ==
  ASSUME StatusInv, E!EmitterInv
  PROVE  /\ \A u \in Updaters : at[u] = "dispatch" => u = muWriter /\ muReaders = {}
         /\ \A u \in Updaters : u \in readers => at[u] = "dispatch"
         /\ \A u \in Updaters : pc[u] = "rlock" => u \in readers \cup heldOff
         /\ readers \subseteq Updaters
         /\ heldOff # {} => writer # Nobody
         /\ writer # Nobody => writer \in Listeners /\ pc[writer] \in {"on", "off"}
         /\ \A g \in Callers : at[g] = "status" <=> g \in muReaders \cup muHeldOff
         /\ \A l \in Listeners : at[l] = "status" => pc[l] = "receiving"
         /\ muHeldOff # {} => muWriter # Nobody
         /\ muWriter # Nobody => muWriter \in Updaters /\ at[muWriter] \in {"setStatus", "dispatch"}
         /\ muReaders \subseteq Callers
  <1> USE StatusAssumption DEF StatusAssumption, StatusInv, TypeOK, MuInv, ListedInv, E!EmitterInv
  <1>1. writer # Nobody => writer \in Listeners /\ pc[writer] \in {"on", "off"}
    BY DEF E!TypeOK, E!MutexInv, E!Writers
  <1>2. \A u \in Updaters : u \in readers => at[u] = "dispatch"
    BY DEF E!TypeOK, E!MutexInv
  <1>3. muWriter # Nobody => muWriter \in Updaters /\ at[muWriter] \in {"setStatus", "dispatch"}
    OBVIOUS
  <1>4. /\ \A u \in Updaters : pc[u] = "rlock" => u \in readers \cup heldOff
        /\ heldOff # {} => writer # Nobody
        /\ readers \subseteq Updaters
    BY DEF E!TypeOK, E!MutexInv
  <1> QED
    BY <1>1, <1>2, <1>3, <1>4

\* A listener that has e.mu to itself goes on.
LEMMA WriterMoves ==
  ASSUME StatusInv, E!EmitterInv, writer # Nobody, readers = {}
  PROVE  writer \in Listeners /\ InMethod(writer) /\ ~Blocked(writer)
  <1>1. writer \in Listeners /\ pc[writer] \in {"on", "off"} /\ at[writer] \in {"out", "status"}
    BY WaitFacts DEF StatusInv, MuInv, Callers
  <1>2. at[writer] = "out" /\ ~Emitter!Blocked(writer)
    BY <1>1, WaitFacts DEF Emitter!Blocked, Emitter!Mutex!Writes
  <1> QED
    BY <1>1, <1>2 DEF InMethod, Blocked

\* setStatus, Status(), On and Off wait for each other in a circle only when a
\* listener's Status() or Off meets the dispatch it was to receive (instance.go:33-46).
THEOREM DeadlocksOnlyInListeners == Spec => []StuckOnlyInListeners
  <1>1. ASSUME StatusInv, E!EmitterInv,
               \A g \in Updaters \cup Callers : InMethod(g) => Blocked(g),
               NEW g \in Updaters \cup Callers, Blocked(g)
        PROVE  \E l \in Listeners : WaitsForItself(l)
    <2>1. CASE \E u \in Updaters : at[u] = "dispatch"
      <3>1. PICK u \in Updaters : at[u] = "dispatch" /\ Blocked(u)
        BY <1>1, <2>1 DEF InMethod
      <3>2. readers # {}
        <4>1. SUFFICES ASSUME readers = {} PROVE FALSE
          OBVIOUS
        <4>2. pc[u] # "waiting" /\ pc[u] \in {"rlock", "waiting"}
          BY <1>1, <3>1, <4>1 DEF E!EmitterInv, E!MutexInv, StatusInv, MuInv
        <4>3. writer # Nobody
          BY <1>1, <3>1, <4>1, <4>2, WaitFacts
        <4> QED
          BY <1>1, <4>1, <4>3, WriterMoves DEF Callers
      <3>3. u \in readers
        BY <1>1, <3>1, <3>2, WaitFacts
      <3>4. ~Emitter!AllSent(u) /\ \A s \in senders : s[1] = u => ~Hears(s[3])
        BY <1>1, <3>1, <3>3, StatusAssumption
           DEF StatusAssumption, Blocked, Emitter!Blocked, Emitter!Mutex!Reads
      <3>5. PICK l \in Listeners : <<u, sent[u], l>> \in senders
        BY <3>4 DEF Emitter!AllSent
      <3>6. ~Hears(l) /\ pc[l] \in {"receiving", "off"} /\ at[l] \in {"out", "status"}
        BY <1>1, <3>4, <3>5, EmitterFacts DEF StatusInv, ListedInv, MuInv, Callers
      <3>7. l \notin Draining /\ (at[l] = "status" \/ pc[l] = "off")
        BY <3>6 DEF Hears, Emitter!Receives
      <3> QED
        BY <3>5, <3>7 DEF WaitsForItself
    <2>2. CASE ~\E u \in Updaters : at[u] = "dispatch"
      <3>1. readers = {}
        BY <1>1, <2>2, WaitFacts
      <3>2. writer = Nobody
        BY <1>1, <3>1, WriterMoves DEF Callers
      <3>3. \A l \in Listeners : pc[l] \in {"on", "off"} => ~Emitter!Blocked(l)
        BY <3>2 DEF Emitter!Blocked
      <3>4. muReaders = {}
        <4>1. SUFFICES ASSUME NEW r \in muReaders PROVE FALSE
          OBVIOUS
        <4>2. r \in Callers /\ at[r] = "status"
          BY <1>1, WaitFacts
        <4>3. Blocked(r)
          BY <1>1, <4>2 DEF InMethod
        <4> QED
          BY <3>3, <4>2, <4>3 DEF Blocked, Mu!Reads
      <3>5. muWriter = Nobody
        <4>1. SUFFICES ASSUME muWriter # Nobody PROVE FALSE
          OBVIOUS
        <4>2. muWriter \in Updaters /\ at[muWriter] = "setStatus"
          BY <1>1, <2>2, <4>1, WaitFacts
        <4>3. Blocked(muWriter)
          BY <1>1, <4>2 DEF InMethod
        <4> QED
          BY <3>3, <3>4, <4>2, <4>3 DEF Blocked, Mu!Writes
      <3>6. muHeldOff = {} /\ at[g] # "status"
        BY <1>1, <3>4, <3>5, WaitFacts DEF StatusInv, MuInv
      <3> QED
        BY <1>1, <2>2, <3>3, <3>5, <3>6, StatusAssumption DEF Blocked, StatusInv, MuInv, Callers
    <2> QED
      BY <2>1, <2>2
  <1>2. StatusInv /\ E!EmitterInv => StuckOnlyInListeners
    BY <1>1 DEF StuckOnlyInListeners
  <1> QED
    BY Invariant, <1>2, PTL

\* A listener that waits for itself does so for ever (instance.go:44).
THEOREM DeadlocksStay == Spec => StuckForGood
  <1>1. ASSUME StatusInv, E!EmitterInv, [Next]_vars, NEW l \in Listeners, WaitsForItself(l)
        PROVE  WaitsForItself(l)'
    <2> USE DEF emitter, instance, muVars, history
    <2>1. PICK s \in senders : s[3] = l
      BY <1>1 DEF WaitsForItself
    <2>2. /\ l \notin Draining
          /\ \/ at[l] = "status" /\ pc[l] = "receiving"
             \/ at[l] = "out" /\ pc[l] = "off"
      BY <1>1, WaitFacts DEF WaitsForItself, StatusInv, MuInv, Callers
    <2>3. s[1] \in readers /\ muReaders = {}
      BY <1>1, <2>1, OneDispatch, WaitFacts DEF E!EmitterInv, E!SenderInv
    <2>4. SUFFICES /\ at'[l] = at[l] /\ pc'[l] = pc[l]
                   /\ s \in senders'
      BY <2>1, <2>2 DEF WaitsForItself
    <2>5. ASSUME NEW u \in Updaters, SetStatus(u)
          PROVE  at'[l] = at[l] /\ pc'[l] = pc[l] /\ s \in senders'
      <3>1. u # l
        BY StatusAssumption DEF StatusAssumption
      <3>2. at'[l] = at[l]
        BY <2>5, <3>1, <1>1
           DEF SetStatus, CallSetStatus, LockMu, Assign, Spawn, Return, Goto, StatusInv, TypeOK,
               Callers
      <3>3. pc'[l] = pc[l]
        BY <2>5, <3>1, <1>1, EmitterFacts
           DEF SetStatus, CallSetStatus, LockMu, Assign, Spawn, Return, Emitter!CallDispatch,
               Emitter!Spawn, Emitter!Return, Emitter!Goto
      <3>4. s \in senders'
        BY <2>5 DEF SetStatus, CallSetStatus, LockMu, Assign, Spawn, Return, Emitter!CallDispatch,
               Emitter!Spawn, Emitter!Return
      <3> QED
        BY <3>2, <3>3, <3>4
    <2>6. ASSUME NEW g \in Callers, CallStatus(g) \/ StatusReturns(g)
          PROVE  at'[l] = at[l] /\ pc'[l] = pc[l] /\ s \in senders'
      <3>1. CallStatus(g) /\ g # l
        BY <2>2, <2>3, <2>6 DEF CallStatus, StatusReturns, Mu!Reads, Goto
      <3> QED
        BY <1>1, <3>1 DEF CallStatus, Goto, StatusInv, TypeOK, Callers
    <2>7. ASSUME NEW k \in Listeners, Subscribe(k) \/ On(k) \/ CallOff(k) \/ Off(k)
          PROVE  at'[l] = at[l] /\ pc'[l] = pc[l] /\ s \in senders'
      <3>1. /\ ~Off(k) /\ UNCHANGED <<at, senders>>
            /\ UNCHANGED pc \/ (k # l /\ \E to \in E!Pcs : pc' = [pc EXCEPT ![k] = to])
        BY <2>2, <2>3, <2>7 DEF Subscribe, On, CallOff, Off, Emitter!CallOn, Emitter!Lock, Emitter!On,
           Emitter!CallOff, Emitter!Off, Emitter!Goto, Emitter!Mutex!Writes, E!Pcs
      <3> QED
        BY <1>1, <3>1, EmitterFacts
    <2>8. ASSUME NEW t \in senders, Deliver(t)
          PROVE  at'[l] = at[l] /\ pc'[l] = pc[l] /\ s \in senders'
      BY <2>1, <2>2, <2>8 DEF Deliver, Emitter!Deliver, Emitter!Receives
    <2>9. CASE UNCHANGED vars
      BY <2>1, <2>9 DEF vars
    <2> QED
      BY <1>1, <2>5, <2>6, <2>7, <2>8, <2>9 DEF Next
  <1>2. StatusInv /\ E!EmitterInv /\ [Next]_vars =>
          [\A l \in Listeners : WaitsForItself(l) => WaitsForItself(l)']_vars
    BY <1>1
  <1> QED
    BY Invariant, <1>2, PTL DEF Spec, StuckForGood
=============================================================================
