---------------------------- MODULE RecentWrites ----------------------------
(***************************************************************************)
(* What the circular buffer of the aesdchar driver promises its caller: it *)
(* keeps the most recent Capacity write commands, oldest first, and hands  *)
(* back the memory of the one command it drops, so that the caller can     *)
(* free it.  CircularBuffer implements this with a ring of entries.        *)
(***************************************************************************)
EXTENDS Naturals, Sequences

CONSTANTS
  Capacity,   (* how many commands are kept *)
  Command,    (* records with a field buffptr *)
  Nothing     (* returned when no command was dropped *)

VARIABLES
  log,        (* the commands kept, oldest first *)
  returned    (* what the last addition handed back *)

vars == <<log, returned>>

Init ==
  /\ log = <<>>
  /\ returned = Nothing

(* A command is added while there is room for it ... *)
AddWithRoom(c) ==
  /\ Len(log) < Capacity
  /\ log' = Append(log, c)
  /\ returned' = Nothing

(* ... or takes the place of the oldest one, whose memory is handed back. *)
AddEvicting(c) ==
  /\ Len(log) = Capacity
  /\ log' = Append(Tail(log), c)
  /\ returned' = Head(log).buffptr

Next == \E c \in Command : AddWithRoom(c) \/ AddEvicting(c)

Spec == Init /\ [][Next]_vars
=============================================================================
