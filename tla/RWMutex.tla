------------------------------ MODULE RWMutex -------------------------------
(***************************************************************************)
(* sync.RWMutex of the Go library, as the emitter uses it.  A goroutine    *)
(* that calls Lock first becomes the writer, which holds off the readers   *)
(* that come after it, then waits for the readers before it; Unlock admits *)
(* the readers held off before another writer can get in.                  *)
(***************************************************************************)

CONSTANT Nobody

VARIABLES
  writer,   \* the goroutine that writes or is the next to write
  readers,  \* the goroutines that read
  heldOff   \* the goroutines in RLock that wait for the writer to unlock

rwVars == <<writer, readers, heldOff>>

Unused == writer = Nobody /\ readers = {} /\ heldOff = {}

BecomeWriter(g) ==
  /\ writer = Nobody
  /\ writer' = g
  /\ UNCHANGED <<readers, heldOff>>

\* Lock has returned: the writer writes alone.
Writes(g) == writer = g /\ readers = {}

Unlock ==
  /\ writer' = Nobody
  /\ readers' = heldOff
  /\ heldOff' = {}

RLock(g) ==
  /\ \/ writer = Nobody /\ readers' = readers \cup {g} /\ UNCHANGED heldOff
     \/ writer # Nobody /\ heldOff' = heldOff \cup {g} /\ UNCHANGED readers
  /\ UNCHANGED writer

\* RLock has returned.
Reads(g) == g \in readers

RUnlock(g) == readers' = readers \ {g} /\ UNCHANGED <<writer, heldOff>>
=============================================================================
