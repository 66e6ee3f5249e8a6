-------------------------- MODULE EventEmitterInv --------------------------
(* The inductive invariant behind the safety of EventEmitter. *)
EXTENDS EventEmitter

\* Who holds e.mu, and who waits for it, is in a method that takes it.
MutexInv ==
  /\ writer # Nobody => pc[writer] \in {"on", "off", "close"}
  /\ heldOff # {} => writer # Nobody
  /\ \A d \in Dispatchers :
       /\ d \in heldOff => pc[d] = "rlock" /\ d \notin readers
       /\ d \in readers => pc[d] \in {"rlock", "waiting"}
       /\ pc[d] = "waiting" => d \in readers
       /\ pc[d] = "rlock" => d \in readers \cup heldOff

\* A subscription is in e.listeners from its On to its Off or Close, and its
\* channel is open for just as long.
ListedInv ==
  \A l \in Listeners :
    /\ l \in listeners <=> channel[l] = "open"
    /\ l \in listeners => pc[l] \in {"receiving", "off"}
    /\ pc[l] \in {"idle", "on"} => channel[l] = "none"

\* A goroutine that sends belongs to the Dispatch its caller is in, which keeps
\* the listeners as they are by reading.
SenderInv ==
  \A s \in senders :
    /\ pc[s[1]] = "waiting" /\ s[1] \in readers
    /\ s[2] = sent[s[1]]
    /\ s[3] \in listeners

\* The listeners a call must still reach are subscribed, then sent to.
DueInv ==
  \A d \in Dispatchers :
    /\ pc[d] = "rlock" => due[d] \subseteq listeners
    /\ pc[d] = "waiting" => \A l \in due[d] : <<d, sent[d], l>> \in senders

\* A listener is behind a dispatcher only by the call the dispatcher is in.
OrderInv ==
  \A l \in Listeners, d \in Dispatchers :
    /\ pc[l] \in {"idle", "on"} => heard[l][d] = 0
    /\ l \in listeners /\ heard[l][d] > 0 =>
         heard[l][d] = IF pc[d] = "rlock" \/ <<d, sent[d], l>> \in senders
                         THEN sent[d] - 1 ELSE sent[d]

\* No call of the emitter finds it in a state in which a goroutine sends to a
\* listener that is not there, or one that is there goes without a value.
EmitterInv == TypeOK /\ MutexInv /\ ListedInv /\ SenderInv /\ DueInv /\ OrderInv
=============================================================================
