--------------------------- MODULE TerminalProofs ---------------------------
(***************************************************************************)
(* Theorems about Terminal, for any number of clients, consoles and lines. *)
(* Every step is a step of the TerminalIn emitter or leaves it as it is,   *)
(* so the invariant proved in EventEmitterProofs is kept; it says that the *)
(* loop receives each client's lines in order, and AnswerInv that the loop *)
(* answers what it receives before it receives more.                       *)
(***************************************************************************)
EXTENDS Terminal, TLAPS

E == INSTANCE EventEmitterProofs WITH
  Listeners <- {Attacher}, Dispatchers <- Clients, Draining <- {}, MaxDispatch <- MaxInput

\* The assumption of EventEmitter holds of its use here.
LEMMA EmitterUse == E!EmitterAssumption
  BY TerminalAssumption DEF TerminalAssumption, E!EmitterAssumption

-----------------------------------------------------------------------------
(* The emitter within.                                                     *)

\* A step is a step of the emitter or leaves it alone.
LEMMA EmitterStep == ASSUME [Next]_vars PROVE [E!Next]_(E!vars)
  <1> USE DEF input, E!vars, E!mutexVars
  <1>1. ASSUME Attach PROVE E!CallOn(Attacher)
    BY <1>1 DEF Attach, In!CallOn, E!CallOn, In!Goto, E!Goto, In!mutexVars
  <1>2. ASSUME LockInput PROVE E!Lock(Attacher)
    BY <1>2 DEF LockInput, In!Lock, E!Lock, In!Mutex!BecomeWriter, E!Mutex!BecomeWriter
  <1>3. ASSUME Subscribe PROVE E!On(Attacher)
    BY <1>3 DEF Subscribe, In!On, E!On, In!Goto, E!Goto, In!Mutex!Writes, E!Mutex!Writes,
                In!Mutex!Unlock, E!Mutex!Unlock
  <1>4. ASSUME NEW s \in senders, Receive(s) PROVE E!Deliver(s)
    BY <1>4 DEF Receive, In!Deliver, E!Deliver, In!Receives, E!Receives, In!mutexVars
  <1>5. ASSUME Leave PROVE E!CallOff(Attacher)
    BY <1>5 DEF Leave, In!CallOff, E!CallOff, In!Goto, E!Goto, In!mutexVars
  <1>6. ASSUME Detach PROVE E!Off(Attacher)
    BY <1>6 DEF Detach, In!Off, E!Off, In!Goto, E!Goto, In!Remove, E!Remove, In!Mutex!Writes,
                E!Mutex!Writes, In!Mutex!Unlock, E!Mutex!Unlock
  <1>7. ASSUME NEW c \in Clients, Command(c) PROVE E!CallDispatch(c) \/ E!Spawn(c) \/ E!Return(c)
    BY <1>7 DEF Command, In!CallDispatch, E!CallDispatch, In!Spawn, E!Spawn, In!Return, E!Return,
                In!Goto, E!Goto, In!mutexVars, In!AllSent, E!AllSent, In!Mutex!RLock, E!Mutex!RLock,
                In!Mutex!Reads, E!Mutex!Reads, In!Mutex!RUnlock, E!Mutex!RUnlock
  <1>8. ASSUME \/ AttachFails \/ WriteStep \/ GiveUp \/ Scan \/ ShowReturns \/ ScanEnds
               \/ PrintLine \/ End \/ Cancel
               \/ \E c \in Clients, g \in {Attacher, Scanner} : View(c, g)
        PROVE  UNCHANGED E!vars
    BY <1>8 DEF AttachFails, WriteStep, Write, WriteFails, GiveUp, Scan, ShowReturns, ScanEnds,
                PrintLine, End, Cancel, View
  <1>9. ASSUME UNCHANGED vars PROVE UNCHANGED E!vars
    BY <1>9 DEF vars
  <1> QED
    BY <1>1, <1>2, <1>3, <1>4, <1>5, <1>6, <1>7, <1>8, <1>9
       DEF Next, AttachStep, E!Next, E!Writers

\* The emitter's invariant is kept.
LEMMA EmitterKept == ASSUME E!EmitterInv, [Next]_vars PROVE E!EmitterInv'
  BY EmitterUse, EmitterStep, E!TypeStep, E!MutexStep, E!ListedStep, E!SenderStep, E!DueStep,
     E!OrderStep DEF E!EmitterInv

\* What the proofs below use of it.
LEMMA EmitterFacts ==
  ASSUME E!EmitterInv
  PROVE  /\ senders \subseteq Clients \X Nat \X {Attacher}
         /\ pc \in [{Attacher} \cup {Closer} \cup Clients -> E!Pcs]
         /\ sent \in [Clients -> Nat]
         /\ heard \in [{Attacher} -> [Clients -> Nat]]
         /\ listeners \subseteq {Attacher}
         /\ \A s \in senders : s[2] = sent[s[1]] /\ Attacher \in listeners
         /\ \A s \in senders : heard[Attacher][s[1]] \in {0, s[2] - 1}
  <1>1. ASSUME E!EmitterInv, NEW s \in senders PROVE heard[Attacher][s[1]] \in {0, s[2] - 1}
    <2>1. s \in Clients \X Nat \X {Attacher}
      BY <1>1 DEF E!EmitterInv, E!TypeOK
    <2>2. s[2] = sent[s[1]] /\ s[3] \in listeners /\ s[3] = Attacher /\ s = <<s[1], s[2], s[3]>>
      BY <1>1, <2>1 DEF E!EmitterInv, E!SenderInv
    <2>3. heard[Attacher][s[1]] \in Nat /\ s[1] \in Clients
      BY <1>1, <2>1 DEF E!EmitterInv, E!TypeOK
    <2> QED
      BY <1>1, <2>2, <2>3 DEF E!EmitterInv, E!OrderInv
  <1> QED
    BY <1>1 DEF E!EmitterInv, E!TypeOK, E!SenderInv, E!Goroutines, E!Writers

-----------------------------------------------------------------------------
(* Every step preserves the parts of TerminalInv.                          *)

\* Every step keeps the variables in their types.
LEMMA TypeStep == ASSUME TypeOK, AnswerInv, E!EmitterInv, [Next]_vars PROVE TypeOK'
  <1> USE TerminalAssumption, EmitterFacts
      DEF TerminalAssumption, TypeOK, AttachPcs, ScanPcs, Goto, input, loop, remote
  <1>1. CASE Attach
    BY <1>1 DEF Attach, In!CallOn, In!Goto
  <1>2. CASE AttachFails
    BY <1>2 DEF AttachFails, Show
  <1>3. CASE LockInput
    BY <1>3 DEF LockInput, In!Lock
  <1>4. CASE Subscribe
    BY <1>4 DEF Subscribe, In!On, In!Goto
  <1>5. CASE Write
    BY <1>5 DEF Write, Answer, AnswerInv
  <1>6. CASE WriteFails
    BY <1>6 DEF WriteFails, Answer, AnswerInv, Show
  <1>7. CASE GiveUp
    BY <1>7 DEF GiveUp, Shown
  <1>8. CASE Leave
    BY <1>8 DEF Leave, In!CallOff, In!Goto, Shown
  <1>9. CASE Detach
    BY <1>9 DEF Detach, In!Off, In!Goto
  <1>10. ASSUME NEW s \in senders, Receive(s) PROVE TypeOK'
    BY <1>10 DEF Receive, In!Deliver
  <1>11. CASE Scan
    BY <1>11 DEF Scan, Show
  <1>12. CASE ShowReturns
    BY <1>12 DEF ShowReturns, Shown
  <1>13. CASE ScanEnds
    BY <1>13 DEF ScanEnds
  <1>14. ASSUME NEW c \in Clients, Command(c) PROVE TypeOK'
    BY <1>14 DEF Command, In!CallDispatch, In!Spawn, In!Return, In!Goto
  <1>15. ASSUME NEW c \in Clients, NEW g \in {Attacher, Scanner}, View(c, g) PROVE TypeOK'
    BY <1>15 DEF View
  <1>16. CASE PrintLine \/ End \/ Cancel
    <2>1. stream' \in 0..MaxOutput
      BY <1>16 DEF PrintLine, End, Cancel
    <2> QED
      BY <1>16, <2>1 DEF PrintLine, End, Cancel
  <1>17. CASE UNCHANGED vars
    BY <1>17 DEF vars
  <1> QED
    BY <1>1, <1>2, <1>3, <1>4, <1>5, <1>6, <1>7, <1>8, <1>9, <1>10, <1>11, <1>12, <1>13, <1>14,
       <1>15, <1>16, <1>17 DEF Next, AttachStep, WriteStep

\* The loop, its subscription and its connection stay together.
LEMMA LoopStep == ASSUME TypeOK, LoopInv, E!EmitterInv, [Next]_vars PROVE LoopInv'
  <1> USE TerminalAssumption, EmitterFacts
      DEF TerminalAssumption, TypeOK, LoopInv, AttachPcs, ScanPcs, Goto, input, loop, remote
  <1>1. CASE Attach
    BY <1>1 DEF Attach, In!CallOn, In!Goto
  <1>2. CASE AttachFails
    BY <1>2 DEF AttachFails, Show
  <1>3. CASE LockInput
    BY <1>3 DEF LockInput, In!Lock
  <1>4. CASE Subscribe
    BY <1>4 DEF Subscribe, In!On, In!Goto
  <1>5. CASE Write
    BY <1>5 DEF Write, Answer
  <1>6. CASE WriteFails
    BY <1>6 DEF WriteFails, Answer, Show
  <1>7. CASE GiveUp
    BY <1>7 DEF GiveUp, Shown
  <1>8. CASE Leave
    BY <1>8 DEF Leave, In!CallOff, In!Goto, Shown
  <1>9. CASE Detach
    BY <1>9 DEF Detach, In!Off, In!Goto
  <1>10. ASSUME NEW s \in senders, Receive(s) PROVE LoopInv'
    BY <1>10 DEF Receive, In!Deliver, In!Receives
  <1>11. CASE Scan
    BY <1>11 DEF Scan, Show
  <1>12. CASE ShowReturns
    BY <1>12 DEF ShowReturns, Shown
  <1>13. CASE ScanEnds
    BY <1>13 DEF ScanEnds
  <1>14. ASSUME NEW c \in Clients, Command(c) PROVE LoopInv'
    BY <1>14 DEF Command, In!CallDispatch, In!Spawn, In!Return, In!Goto
  <1>15. ASSUME NEW c \in Clients, NEW g \in {Attacher, Scanner}, View(c, g) PROVE LoopInv'
    BY <1>15 DEF View
  <1>16. CASE PrintLine \/ End \/ Cancel
    BY <1>16 DEF PrintLine, End, Cancel
  <1>17. CASE UNCHANGED vars
    BY <1>17 DEF vars
  <1> QED
    BY <1>1, <1>2, <1>3, <1>4, <1>5, <1>6, <1>7, <1>8, <1>9, <1>10, <1>11, <1>12, <1>13, <1>14,
       <1>15, <1>16, <1>17 DEF Next, AttachStep, WriteStep

\* The loop answers a line before it receives the next.
LEMMA AnswerStep == ASSUME TypeOK, LoopInv, AnswerInv, E!EmitterInv, [Next]_vars PROVE AnswerInv'
  <1> USE TerminalAssumption, EmitterFacts
      DEF TerminalAssumption, TypeOK, AnswerInv, AttachPcs, ScanPcs, Goto, input, loop, remote
  <1>1. CASE Attach
    BY <1>1 DEF Attach, LoopInv, In!CallOn, In!Goto
  <1>2. CASE AttachFails
    BY <1>2 DEF AttachFails, Show
  <1>3. CASE LockInput
    BY <1>3 DEF LockInput, In!Lock
  <1>4. CASE Subscribe
    BY <1>4 DEF Subscribe, In!On, In!Goto
  <1>5. CASE Write
    BY <1>5 DEF Write, Answer
  <1>6. CASE WriteFails
    BY <1>6 DEF WriteFails, Answer, Show
  <1>7. CASE GiveUp
    BY <1>7 DEF GiveUp, Shown
  <1>8. CASE Leave
    BY <1>8 DEF Leave, In!CallOff, In!Goto, Shown
  <1>9. CASE Detach
    BY <1>9 DEF Detach, In!Off, In!Goto
  <1>10. ASSUME NEW s \in senders, Receive(s) PROVE AnswerInv'
    BY <1>10 DEF Receive, In!Deliver
  <1>11. CASE Scan
    BY <1>11 DEF Scan, Show
  <1>12. CASE ShowReturns
    BY <1>12 DEF ShowReturns, Shown
  <1>13. CASE ScanEnds
    BY <1>13 DEF ScanEnds
  <1>14. ASSUME NEW c \in Clients, Command(c) PROVE AnswerInv'
    BY <1>14 DEF Command, In!CallDispatch, In!Spawn, In!Return, In!Goto
  <1>15. ASSUME NEW c \in Clients, NEW g \in {Attacher, Scanner}, View(c, g) PROVE AnswerInv'
    BY <1>15 DEF View
  <1>16. CASE PrintLine \/ End \/ Cancel
    BY <1>16 DEF PrintLine, End, Cancel
  <1>17. CASE UNCHANGED vars
    BY <1>17 DEF vars
  <1> QED
    BY <1>1, <1>2, <1>3, <1>4, <1>5, <1>6, <1>7, <1>8, <1>9, <1>10, <1>11, <1>12, <1>13, <1>14,
       <1>15, <1>16, <1>17 DEF Next, AttachStep, WriteStep

-----------------------------------------------------------------------------
(* The theorems.                                                           *)

\* The initial state satisfies the invariants.
LEMMA InitInv == Init => TerminalInv /\ E!EmitterInv /\ E!Init
  <1> SUFFICES ASSUME Init PROVE TerminalInv /\ E!EmitterInv /\ E!Init
    OBVIOUS
  <1>1. E!Init
    BY DEF Init, In!Init, E!Init, In!Mutex!Unused, E!Mutex!Unused, In!Goroutines, E!Goroutines,
           In!Writers, E!Writers
  <1>2. E!EmitterInv
    BY <1>1, EmitterUse, E!InitInv
  <1> USE TerminalAssumption DEF TerminalAssumption, Init
  <1>3. TypeOK
    <2>1. at \in [{Attacher, Scanner} -> AttachPcs \cup ScanPcs] /\ at[Attacher] = "attach" /\ at[Scanner] = "none"
      BY DEF AttachPcs, ScanPcs
    <2>2. owed \in [{Attacher, Scanner} -> SUBSET Consoles] /\ answered \in [Clients -> Nat]
      OBVIOUS
    <2>3. stream \in 0..MaxOutput
      OBVIOUS
    <2> QED
      BY <2>1, <2>2, <2>3 DEF TypeOK, AttachPcs, ScanPcs
  <1>4. LoopInv
    BY DEF LoopInv, In!Init, In!Goroutines, In!Writers
  <1>5. AnswerInv
    BY DEF AnswerInv, In!Init
  <1> QED
    BY <1>1, <1>2, <1>3, <1>4, <1>5 DEF TerminalInv

\* Both invariants hold always.
LEMMA Invariant == Spec => [](TerminalInv /\ E!EmitterInv)
  <1>1. TerminalInv /\ E!EmitterInv /\ [Next]_vars => (TerminalInv /\ E!EmitterInv)'
    BY EmitterKept, TypeStep, LoopStep, AnswerStep DEF TerminalInv
  <1> QED
    BY InitInv, <1>1, PTL DEF Spec

\* Commands, output, failures and the end of the context keep the inductive
\* invariant in any interleaving.
THEOREM Invariance == Spec => []TerminalInv
  BY Invariant, PTL

\* TerminalIn runs inside this code as EventEmitter says it does.
THEOREM EmitterWithin == Spec => E!Init /\ [][E!Next]_(E!vars)
  <1>1. [Next]_vars => [E!Next]_(E!vars)
    BY EmitterStep
  <1> QED
    BY InitInv, <1>1, PTL DEF Spec

\* The commands of each client are answered in their order, none left out.
THEOREM InputOrder == Spec => InputInOrder
  <1>1. ASSUME TerminalInv, [Next]_vars, NEW c \in Clients, heard'[Attacher][c] # heard[Attacher][c]
        PROVE  answered[c] = heard[Attacher][c]
    <2>1. PICK s \in senders : Receive(s)
      BY <1>1 DEF Next, AttachStep, WriteStep, Attach, AttachFails, LockInput, Subscribe, Write,
         WriteFails, GiveUp, Leave, Detach, Scan, ShowReturns, ScanEnds, Command, View, PrintLine, End,
         Cancel, vars, input, In!CallOn, In!Lock, In!On, In!CallOff, In!Off, In!CallDispatch,
         In!Spawn, In!Return
    <2>2. hand \notin Clients
      BY <1>1, <2>1 DEF Receive, Goto, TerminalInv, AnswerInv
    <2> QED
      BY <1>1, <2>2 DEF TerminalInv, AnswerInv
  <1>2. TerminalInv /\ E!EmitterInv /\ [Next]_vars =>
          [\A c \in Clients :
             heard'[Attacher][c] # heard[Attacher][c] => answered[c] = heard[Attacher][c]]_vars
    BY <1>1
  <1> QED
    BY Invariant, <1>2, PTL DEF Spec, InputInOrder

-----------------------------------------------------------------------------
(* Waiting.                                                                *)

\* A loop that has e.mu to itself, for its On or its Off, goes on.
LEMMA WriterMoves ==
  ASSUME TerminalInv, E!EmitterInv, writer # Nobody, readers = {}
  PROVE  InMethod(Attacher) /\ ~Blocked(Attacher)
  <1>1. writer = Attacher /\ pc[Attacher] \in {"on", "off"}
    BY TerminalAssumption DEF TerminalAssumption, TerminalInv, LoopInv, E!EmitterInv, E!TypeOK,
       E!MutexInv, E!Writers
  <1>2. ~In!Blocked(Attacher)
    BY <1>1 DEF In!Blocked, In!Mutex!Writes
  <1>3. at[Attacher] # "complain" /\ (pc[Attacher] = "on" \/ at[Attacher] = "leave")
    BY <1>1 DEF TerminalInv, TypeOK, LoopInv, AttachPcs
  <1> QED
    BY <1>1, <1>2, <1>3, TerminalAssumption DEF TerminalAssumption, InMethod, Blocked

\* The loop, the scanner, clients and consoles are stuck only when the loop stopped
\* receiving, to leave or to complain, with a command under way to it
\* (lifecycle.go:235-251).
THEOREM DeadlocksOnlyInLeaving == Spec => []StuckOnlyInLeaving
  <1>1. ASSUME TerminalInv, E!EmitterInv,
               \A g \in Clients \cup {Attacher, Scanner} : InMethod(g) => Blocked(g),
               NEW g \in Clients \cup {Attacher, Scanner}, Blocked(g)
        PROVE  LeavesUnheard
    <2> USE TerminalAssumption DEF TerminalAssumption
    <2>1. CASE senders # {}
      <3>1. PICK s \in senders : TRUE
        BY <2>1
      <3>2. s[1] \in Clients /\ pc[s[1]] = "waiting" /\ Attacher \in listeners
        BY <1>1, <3>1, EmitterFacts DEF E!EmitterInv, E!SenderInv
      <3>3. ~(at[Attacher] = "loop" /\ pc[Attacher] = "receiving")
        BY <1>1, <3>2 DEF InMethod, Blocked
      <3>4. pc[Attacher] \in {"receiving", "off"}
        BY <1>1, <3>2 DEF E!EmitterInv, E!ListedInv
      <3>5. at[Attacher] \in {"write", "complain", "leave"}
        BY <1>1, <3>3, <3>4 DEF TerminalInv, TypeOK, LoopInv, AttachPcs
      <3>6. Blocked(Attacher)
        BY <1>1, <3>5 DEF InMethod
      <3>7. at[Attacher] # "write"
        BY <1>1, <3>6 DEF Blocked, TerminalInv, LoopInv
      <3>8. at[Attacher] = "complain" => \E c \in owed[Attacher] : pc[c] # "idle"
        BY <1>1, <3>6 DEF Blocked, Unseen, Shown, TerminalInv, LoopInv
      <3> QED
        BY <2>1, <3>5, <3>7, <3>8 DEF LeavesUnheard
    <2>2. CASE senders = {}
      <3>1. \A c \in Clients : pc[c] # "waiting"
        BY <1>1, <2>2 DEF InMethod, Blocked, In!AllSent
      <3>2. readers = {}
        <4>1. SUFFICES ASSUME NEW c \in readers PROVE FALSE
          OBVIOUS
        <4>2. c \in Clients /\ pc[c] = "rlock"
          BY <1>1, <3>1 DEF E!EmitterInv, E!TypeOK, E!MutexInv
        <4> QED
          BY <1>1, <4>2 DEF InMethod, Blocked, In!Blocked, In!Mutex!Reads
      <3>3. writer = Nobody
        BY <1>1, <3>2, WriterMoves
      <3>4. \A c \in Clients : pc[c] = "idle"
        BY <1>1, <3>1, <3>2, <3>3 DEF E!EmitterInv, E!TypeOK, E!MutexInv
      <3>5. \A h \in {Attacher, Scanner} : ~Unseen(h)
        BY <1>1, <3>4 DEF Unseen, Shown, TerminalInv, TypeOK
      <3> QED
        BY <1>1, <3>3, <3>4, <3>5 DEF Blocked, In!Blocked
    <2> QED
      BY <2>1, <2>2
  <1>2. TerminalInv /\ E!EmitterInv => StuckOnlyInLeaving
    BY <1>1 DEF StuckOnlyInLeaving
  <1> QED
    BY Invariant, <1>2, PTL
=============================================================================
