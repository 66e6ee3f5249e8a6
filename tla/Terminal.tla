------------------------------ MODULE Terminal ------------------------------
(***************************************************************************)
(* The terminal of a docker server instance: lifecycleInitAttach           *)
(* (infrastructure/docker/lifecycle.go), which attaches to the container   *)
(* once, passes what clients dispatch on Events().TerminalIn to it and     *)
(* complains on Events().TerminalOut when it cannot, and its scanner       *)
(* goroutine, which dispatches the lines of the container on TerminalOut.  *)
(* TerminalIn is EventEmitter with the attach loop as its one listener.    *)
(* TerminalOut is reduced to what EventEmitter promises: a Dispatch        *)
(* returns when every console has received.  A console is a client that    *)
(* receives TerminalOut and dispatches TerminalIn from one goroutine.      *)
(***************************************************************************)
EXTENDS Naturals

CONSTANTS
  Clients,    \* goroutines that dispatch on TerminalIn
  Consoles,   \* the clients that also listen to TerminalOut
  Attacher,   \* the goroutine of lifecycleInitAttach
  Scanner,    \* the goroutine it starts
  Closer,     \* nobody: TerminalIn.Close() has no caller
  Nobody,     \* no goroutine
  MaxInput,   \* bound: how many lines each client dispatches
  MaxOutput   \* bound: how many lines are under way from the container

ASSUME TerminalAssumption ==
  /\ Consoles \subseteq Clients
  /\ Attacher # Scanner /\ Attacher \notin Clients /\ Scanner \notin Clients
  /\ Closer \notin Clients \cup {Attacher}
  /\ Nobody \notin Clients \cup {Attacher, Scanner, Closer}
  /\ MaxInput \in Nat /\ MaxOutput \in Nat

VARIABLES
  writer, readers, heldOff, listeners, channel, senders, sent, pc, heard, due,
             \* the emitter dsi.events.TerminalIn
  at,        \* where the attacher and the scanner are
  hand,      \* the client whose line the attach loop has received
  owed,      \* the consoles the attacher's and the scanner's Dispatch waits for
  conn,      \* the attached connection: "none", "open" or "closed" on this side
  stream,    \* how many lines of the container are on their way to the scanner
  ended,     \* the container or the daemon has ended the stream
  ctxDone,   \* dsi.ctx is done
  answered   \* history: the last line of each client that was written or complained of

In == INSTANCE EventEmitter WITH
  Listeners <- {Attacher}, Dispatchers <- Clients, Draining <- {}, MaxDispatch <- MaxInput

input   == <<writer, readers, heldOff, listeners, channel, senders, sent, pc, heard, due>>
loop    == <<at, hand, owed>>
remote  == <<stream, ended>>
vars    == <<input, loop, conn, remote, ctxDone, answered>>

AttachPcs == {"attach", "loop", "write", "complain", "leave", "gone"}
ScanPcs   == {"none", "scan", "show", "ended"}

Init ==
  /\ In!Init
  /\ at = [g \in {Attacher, Scanner} |-> IF g = Attacher THEN "attach" ELSE "none"]
  /\ hand = Nobody
  /\ owed = [g \in {Attacher, Scanner} |-> {}]
  /\ conn = "none" /\ stream = 0 /\ ended = FALSE
  /\ ctxDone = FALSE
  /\ answered = [c \in Clients |-> 0]

Goto(g, from, to) == at[g] = from /\ at' = [at EXCEPT ![g] = to]

\* TerminalOut.Dispatch: g waits for every console.
Show(g) == owed' = [owed EXCEPT ![g] = Consoles]
Shown(g) == owed[g] = {}

-----------------------------------------------------------------------------
(* The attach goroutine.                                                   *)

\* The connection is there, the scanner is started, and On is called.
Attach ==
  /\ at[Attacher] = "attach"
  /\ at' = [at EXCEPT ![Attacher] = "loop", ![Scanner] = "scan"]
  /\ conn' = "open"
  /\ In!CallOn(Attacher)
  /\ UNCHANGED <<hand, owed, remote, ctxDone, answered>>

AttachFails ==
  /\ Goto(Attacher, "attach", "complain")
  /\ Show(Attacher)
  /\ UNCHANGED <<input, hand, conn, remote, ctxDone, answered>>

\* On and Off get e.mu.
LockInput ==
  /\ In!Lock(Attacher)
  /\ UNCHANGED <<loop, conn, remote, ctxDone, answered>>

Subscribe ==
  /\ In!On(Attacher)
  /\ UNCHANGED <<loop, conn, remote, ctxDone, answered>>

\* case termIn := <-termInChan
ReceiveAlways(s) ==
  /\ at' = [at EXCEPT ![Attacher] = "write"]
  /\ In!Deliver(s)
  /\ hand' = s[1]
  /\ UNCHANGED <<owed, conn, remote, ctxDone, answered>>

Receive(s) ==
  /\ Goto(Attacher, "loop", "write")
  /\ In!Deliver(s)
  /\ hand' = s[1]
  /\ UNCHANGED <<owed, conn, remote, ctxDone, answered>>

Answer == answered' = [answered EXCEPT ![hand] = heard[Attacher][hand]] /\ hand' = Nobody

WriteOnce ==
  /\ Goto(Attacher, "write", "gone")
  /\ Answer
  /\ UNCHANGED <<input, owed, conn, remote, ctxDone>>

Write ==
  /\ Goto(Attacher, "write", "loop")
  /\ Answer
  /\ UNCHANGED <<input, owed, conn, remote, ctxDone>>

WriteFails ==
  /\ Goto(Attacher, "write", "complain")
  /\ Answer
  /\ Show(Attacher)
  /\ UNCHANGED <<input, conn, remote, ctxDone>>

\* The complaint about ContainerAttach has been shown: the goroutine returns.
GiveUp ==
  /\ conn = "none" /\ Shown(Attacher)
  /\ Goto(Attacher, "complain", "gone")
  /\ UNCHANGED <<input, hand, owed, conn, remote, ctxDone, answered>>

\* The context is done, or the complaint about Write has been shown: Off is called.
Leave ==
  /\ \/ ctxDone /\ Goto(Attacher, "loop", "leave")
     \/ conn = "open" /\ Shown(Attacher) /\ Goto(Attacher, "complain", "leave")
  /\ In!CallOff(Attacher)
  /\ UNCHANGED <<hand, owed, conn, remote, ctxDone, answered>>

\* The deferred calls: Off, then attach.Close().
DetachKeepsOpen ==
  /\ Goto(Attacher, "leave", "gone")
  /\ In!Off(Attacher)
  /\ UNCHANGED <<hand, owed, conn, remote, ctxDone, answered>>

Detach ==
  /\ Goto(Attacher, "leave", "gone")
  /\ In!Off(Attacher)
  /\ conn' = "closed"
  /\ UNCHANGED <<hand, owed, remote, ctxDone, answered>>

-----------------------------------------------------------------------------
(* The scanner goroutine.                                                  *)

\* A line is read; lines that were buffered are, too, when attach.Close() has run.
Scan ==
  /\ stream > 0 /\ stream' = stream - 1
  /\ Goto(Scanner, "scan", "show")
  /\ Show(Scanner)
  /\ UNCHANGED <<input, hand, conn, ended, ctxDone, answered>>

ShowReturns ==
  /\ Shown(Scanner)
  /\ Goto(Scanner, "show", "scan")
  /\ UNCHANGED <<input, hand, owed, conn, remote, ctxDone, answered>>

\* The stream has ended or is closed, or a line is longer than the scanner's buffer.
ScanEnds ==
  /\ conn = "closed" \/ stream > 0 \/ ended
  /\ Goto(Scanner, "scan", "ended")
  /\ UNCHANGED <<input, hand, owed, conn, remote, ctxDone, answered>>

-----------------------------------------------------------------------------
(* Clients, the container and the context.                                 *)

Command(c) ==
  /\ In!CallDispatch(c) \/ In!Spawn(c) \/ In!Return(c)
  /\ UNCHANGED <<loop, conn, remote, ctxDone, answered>>

\* A console that is not in a command receives what g dispatches.
View(c, g) ==
  /\ c \in owed[g] /\ pc[c] = "idle"
  /\ owed' = [owed EXCEPT ![g] = @ \ {c}]
  /\ UNCHANGED <<input, at, hand, conn, remote, ctxDone, answered>>

PrintLine ==
  /\ conn = "open" /\ ~ended
  /\ stream < MaxOutput /\ stream' = stream + 1
  /\ UNCHANGED <<input, loop, conn, ended, ctxDone, answered>>

End ==
  /\ conn = "open" /\ ended' = TRUE
  /\ UNCHANGED <<input, loop, conn, stream, ctxDone, answered>>

Cancel ==
  /\ ctxDone' = TRUE
  /\ UNCHANGED <<input, loop, conn, remote, answered>>

-----------------------------------------------------------------------------
AttachStep == Attach \/ AttachFails
WriteStep  == Write \/ WriteFails

Next ==
  \/ AttachStep \/ LockInput \/ Subscribe \/ WriteStep \/ GiveUp \/ Leave \/ Detach
  \/ \E s \in senders : Receive(s)
  \/ Scan \/ ShowReturns \/ ScanEnds
  \/ \E c \in Clients : Command(c) \/ \E g \in {Attacher, Scanner} : View(c, g)
  \/ PrintLine \/ End \/ Cancel

(***************************************************************************)
(* Goroutines run on, requests to the daemon and writes to the connection  *)
(* end, consoles come back to receive.  e.mu serves its waiters in order.  *)
(* Nobody has to dispatch, print, or cancel.                               *)
(***************************************************************************)
Fairness ==
  /\ WF_vars(AttachStep) /\ WF_vars(WriteStep) /\ SF_vars(LockInput)
  /\ WF_vars(Subscribe) /\ WF_vars(GiveUp) /\ WF_vars(Leave) /\ WF_vars(Detach)
  /\ WF_vars(\E s \in senders : Receive(s))
  /\ WF_vars(Scan \/ ScanEnds) /\ WF_vars(ShowReturns)
  /\ \A c \in Clients :
       /\ WF_vars((In!Spawn(c) \/ In!Return(c)) /\ UNCHANGED <<loop, conn, remote, ctxDone, answered>>)
       /\ \A g \in {Attacher, Scanner} : WF_vars(View(c, g))

Spec == Init /\ [][Next]_vars /\ Fairness

-----------------------------------------------------------------------------
(* Safety.                                                                 *)

TypeOK ==
  /\ at \in [{Attacher, Scanner} -> AttachPcs \cup ScanPcs]
  /\ at[Attacher] \in AttachPcs /\ at[Scanner] \in ScanPcs
  /\ hand \in Clients \cup {Nobody}
  /\ owed \in [{Attacher, Scanner} -> SUBSET Consoles]
  /\ conn \in {"none", "open", "closed"} /\ stream \in 0..MaxOutput
  /\ ended \in BOOLEAN /\ ctxDone \in BOOLEAN
  /\ answered \in [Clients -> Nat]

\* Where the attach goroutine is, what it is to the emitter, and its connection.
LoopInv ==
  /\ pc[Closer] = "idle"
  /\ at[Attacher] = "attach" => conn = "none" /\ pc[Attacher] = "idle"
  /\ at[Attacher] = "loop" => conn = "open" /\ pc[Attacher] \in {"on", "receiving"}
  /\ at[Attacher] = "write" => conn = "open" /\ pc[Attacher] = "receiving"
  /\ at[Attacher] = "complain" =>
       <<conn, pc[Attacher]>> \in {<<"none", "idle">>, <<"open", "receiving">>}
  /\ at[Attacher] = "leave" => conn = "open" /\ pc[Attacher] = "off"
  /\ at[Attacher] = "gone" => <<conn, pc[Attacher]>> \in {<<"none", "idle">>, <<"closed", "gone">>}
  /\ conn = "none" <=> at[Scanner] = "none"

\* A line that reached the loop is answered, or it is the one in the loop's hand.
AnswerInv ==
  /\ hand \in Clients <=> at[Attacher] = "write"
  /\ \A c \in Clients :
       \/ answered[c] = heard[Attacher][c]
       \/ hand = c /\ answered[c] \in {0, heard[Attacher][c] - 1}
  /\ owed[Attacher] # {} => at[Attacher] = "complain"
  /\ owed[Scanner] # {} => at[Scanner] = "show"

\* The loop, its subscription, its connection and its answers agree, whatever the
\* clients, the container and the context do meanwhile.
TerminalInv == TypeOK /\ LoopInv /\ AnswerInv

\* The loop takes a client's next command only when all it has taken before are
\* written to the container or complained of: with the emitter's InOrder, commands
\* are answered in the order of the calls and none is lost between two others.
InputInOrder ==
  [][\A c \in Clients :
       heard'[Attacher][c] # heard[Attacher][c] => answered[c] = heard[Attacher][c]]_vars

-----------------------------------------------------------------------------
(* Waiting.                                                                *)

\* g is in a command, in On or Off, in a request, or in a dispatch.
InMethod(g) ==
  \/ g \in Clients /\ pc[g] # "idle"
  \/ g = Attacher /\ (at[g] \notin {"loop", "gone"} \/ pc[g] = "on")
  \/ g = Scanner /\ at[g] = "show"

\* g's dispatch waits for consoles all of which are in a command.
Unseen(g) == ~Shown(g) /\ \A c \in owed[g] : pc[c] # "idle"

\* g is in a method and waits there: for the emitter's mutex, for the loop to
\* receive, or for consoles to.
Blocked(g) ==
  \/ g \in Clients /\ pc[g] = "rlock" /\ In!Blocked(g)
  \/ /\ g \in Clients /\ pc[g] = "waiting" /\ ~In!AllSent(g)
     /\ ~(at[Attacher] = "loop" /\ pc[Attacher] = "receiving")
  \/ g = Attacher /\ pc[g] \in {"on", "off"} /\ In!Blocked(g)
  \/ g = Attacher /\ at[g] = "complain" /\ Unseen(g)
  \/ g = Scanner /\ at[g] = "show" /\ Unseen(g)

\* The loop has received its last: it calls Off, or complains to a console that
\* waits for it, while a command is being sent to it.
LeavesUnheard ==
  /\ senders # {}
  /\ \/ at[Attacher] = "leave"
     \/ at[Attacher] = "complain" /\ \E c \in owed[Attacher] : pc[c] # "idle"

\* The loop, the scanner, clients and consoles wait for each other in a circle only
\* when the loop stops receiving while a command is being sent to it.
StuckOnlyInLeaving ==
  (\E g \in Clients \cup {Attacher, Scanner} : Blocked(g)) =>
    (\E g \in Clients \cup {Attacher, Scanner} : InMethod(g) /\ ~Blocked(g)) \/ LeavesUnheard

-----------------------------------------------------------------------------
(* Liveness.                                                               *)

\* Once the instance is closed or a write has failed, the attachment and its scanner
\* end, unless a command that met the deferred Off or the complaint never returns.
AttachmentEnds ==
  []<>(\A c \in Clients : pc[c] = "idle") =>
    (ctxDone \/ at[Attacher] = "complain"
       ~> at[Attacher] = "gone" /\ at[Scanner] \in {"none", "ended"})

\* As long as the instance is open and no write fails, every command returns, and
\* every line the scanner has read is shown, also to consoles that send commands.
TerminalFlows ==
  [](at[Attacher] \notin {"complain", "leave"}) =>
    /\ \A c \in Clients : pc[c] # "idle" ~> pc[c] = "idle"
    /\ at[Scanner] = "show" ~> at[Scanner] # "show"
=============================================================================
