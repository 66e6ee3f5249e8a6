---------------------------- MODULE MCStatusEvents ----------------------------
(* Two goroutines that set the status, two listeners, one of them drained. *)
EXTENDS StatusEvents

=============================================================================
