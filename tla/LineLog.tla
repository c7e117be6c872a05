------------------------------- MODULE LineLog -------------------------------
(***************************************************************************)
(* What the aesdchar device promises the processes that write to it: the   *)
(* chunks of all writes, in the order the writes took effect, cut after    *)
(* every chunk that ends a line; the newest Capacity lines are kept.  The  *)
(* chunk of a write takes effect at once, or, if the write fails, not at   *)
(* all -- with the two exceptions the driver has, named below.             *)
(***************************************************************************)
EXTENDS Naturals, Sequences

CONSTANTS
  Capacity,   (* lines kept                  *)
  Chunk,      (* what one write() passes     *)
  EndsLine    (* the chunks that end a line  *)

VARIABLES
  lines,      (* complete lines, oldest first, each a sequence of chunks *)
  partial     (* the line begun                                          *)

vars == <<lines, partial>>

Init == lines = <<>> /\ partial = <<>>

Extend(c) ==
  /\ c \notin EndsLine
  /\ partial' = Append(partial, c)
  /\ UNCHANGED lines

Complete(c) ==
  /\ c \in EndsLine
  /\ lines' = Append(IF Len(lines) = Capacity THEN Tail(lines) ELSE lines,
                     Append(partial, c))
  /\ partial' = <<>>

(* A write killed while it waits for the readers has already put its chunk *)
(* in the line begun, where it stays.                                      *)
Killed(c) ==
  /\ c \in EndsLine
  /\ partial' = Append(partial, c)
  /\ UNCHANGED lines

(* A write that finds no memory drops the line begun.                      *)
NoMemory ==
  /\ partial' = <<>>
  /\ UNCHANGED lines

(* The module is unloaded. *)
Unload == lines' = <<>> /\ partial' = <<>>

Next ==
  \/ \E c \in Chunk : Extend(c) \/ Complete(c) \/ Killed(c)
  \/ NoMemory
  \/ Unload

Spec == Init /\ [][Next]_vars
=============================================================================
