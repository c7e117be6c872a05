--------------------------- MODULE CircularBuffer ---------------------------
(***************************************************************************)
(* The ring of write commands of the aesdchar driver:                      *)
(*   src/aesd-char-driver/aesd-circular-buffer.[ch].                       *)
(*                                                                         *)
(* struct aesd_circular_buffer is the variables entry, in_offs, out_offs   *)
(* and full; a pointer is an element of Ptr or NULL.  The functions that   *)
(* only search the ring are state functions here, named as in the C file.  *)
(* They walk the ring by recursive functions on 0..N, so that theorems     *)
(* may be stated about this module.                                        *)
(***************************************************************************)
EXTENDS Integers, Sequences, FiniteSetsExt

CONSTANTS
  AESDCHAR_MAX_WRITE_OPERATIONS_SUPPORTED,   (* number of entries, 10 in the code *)
  Ptr,                                       (* addresses kmalloc can return      *)
  NULL,
  Sizes                                      (* sizes a stored command can have   *)

N == AESDCHAR_MAX_WRITE_OPERATIONS_SUPPORTED

ASSUME CapacityAssumption == N \in Nat \ {0}
ASSUME NullAssumption == NULL \notin Ptr
(* aesd_write returns early on count == 0, so no stored command is empty. *)
ASSUME SizesAssumption == Sizes \subseteq Nat \ {0}

VARIABLES
  entry,      (* struct aesd_buffer_entry entry[N]                   *)
  in_offs,    (* where the next command goes                         *)
  out_offs,   (* where the oldest command is                         *)
  full,
  returned    (* what the last aesd_circular_buffer_add_entry returned *)

bufferVars == <<entry, in_offs, out_offs, full>>
vars == <<entry, in_offs, out_offs, full, returned>>

Index == 0 .. N-1
BufferEntry == [buffptr : Ptr, size : Sizes]
NoEntry == [buffptr |-> NULL, size |-> 0]
-----------------------------------------------------------------------------
(* Searching the ring.                                                     *)

(* Mutant: counting from index 0 instead of the oldest command. *)
MutGetFromZero(entry_offset) ==
  IF entry_offset < N THEN entry[entry_offset] ELSE NoEntry

(* The command at a distance from the oldest.  The C function returns a    *)
(* NULL pointer beyond the ring; its callers treat that like an entry      *)
(* whose buffptr is NULL, which is what NoEntry is.                        *)
get_entry_by_offset(entry_offset) ==
  IF entry_offset < N THEN entry[(out_offs + entry_offset) % N] ELSE NoEntry

IsEnd(i) == i = N \/ get_entry_by_offset(i).buffptr = NULL

(* How far the loops "for (index = 0; index < MAX; index++)" get before    *)
(* they meet a NULL buffptr.                                               *)
Walked == Min({i \in 0..N : IsEnd(i)})

(* Sum of the sizes of the first i commands from the oldest. *)
SizeBefore[i \in 0..N] ==
  IF i = 0 THEN 0 ELSE SizeBefore[i-1] + get_entry_by_offset(i-1).size

(* The loop subtracts the sizes of the commands it passes from char_offset *)
(* and stops at the first command larger than what is left.                *)
NotFound == [index |-> -1, entry_offset_byte |-> -1]

find_entry_offset_for_fpos(char_offset) ==
  LET hits == {i \in 0 .. Walked-1 :
                 char_offset - SizeBefore[i] < get_entry_by_offset(i).size}
  IN  IF hits = {} THEN NotFound
      ELSE [index |-> Min(hits),
            entry_offset_byte |-> char_offset - SizeBefore[Min(hits)]]

(* Mutant: walking up to in_offs, which is 0 commands when the ring is full. *)
MutEOFBeforeIn == SizeBefore[(in_offs - out_offs) % N]

find_EOF_offset == SizeBefore[Walked]

(* Mutant: ">" for ">=", the offset just past the command is accepted. *)
MutAbsolutePastEnd(entry_offset, char_offset) ==
  LET current == get_entry_by_offset(entry_offset)
  IN  IF current.buffptr = NULL \/ char_offset > current.size
      THEN -1
      ELSE char_offset + SizeBefore[entry_offset]

find_absolute_offset(entry_offset, char_offset) ==
  LET current == get_entry_by_offset(entry_offset)
  IN  IF current.buffptr = NULL \/ char_offset >= current.size
      THEN -1
      ELSE char_offset + SizeBefore[entry_offset]
-----------------------------------------------------------------------------
(* aesd_circular_buffer_init: memset to zero. *)
BufferInit ==
  /\ entry = [i \in Index |-> NoEntry]
  /\ in_offs = 0
  /\ out_offs = 0
  /\ full = FALSE

Init == BufferInit /\ returned = NULL

(* Mutant: the oldest command is overwritten but still taken for the oldest. *)
MutAddKeepsOut(add) ==
  /\ returned' = IF full THEN entry[out_offs].buffptr ELSE NULL
  /\ entry' = [entry EXCEPT ![in_offs] = add]
  /\ in_offs' = (in_offs + 1) % N
  /\ full' = (full \/ in_offs' = out_offs)
  /\ UNCHANGED out_offs

(* Mutant: the command to return is looked up after out_offs has advanced. *)
MutAddReturnsNext(add) ==
  /\ out_offs' = IF full THEN (out_offs + 1) % N ELSE out_offs
  /\ returned' = IF full THEN entry[out_offs'].buffptr ELSE NULL
  /\ entry' = [entry EXCEPT ![in_offs] = add]
  /\ in_offs' = (in_offs + 1) % N
  /\ full' = (full \/ in_offs' = out_offs')

(* in_offs is compared with the out_offs this very call may have advanced. *)
add_entry(add) ==
  /\ returned' = IF full THEN entry[out_offs].buffptr ELSE NULL
  /\ out_offs' = IF full THEN (out_offs + 1) % N ELSE out_offs
  /\ entry' = [entry EXCEPT ![in_offs] = add]
  /\ in_offs' = (in_offs + 1) % N
  /\ full' = (full \/ in_offs' = out_offs')

(* The caller adds memory it has just allocated, so none the ring holds.   *)
Held == {entry[i].buffptr : i \in Index} \ {NULL}

Next == \E add \in BufferEntry : add.buffptr \notin Held /\ add_entry(add)

Spec == Init /\ [][Next]_vars
-----------------------------------------------------------------------------
TypeOK ==
  /\ entry \in [Index -> BufferEntry \cup {NoEntry}]
  /\ in_offs \in Index
  /\ out_offs \in Index
  /\ full \in BOOLEAN
  /\ returned \in Ptr \cup {NULL}

(* The ring is filled from index 0 and never drained: until it is full the *)
(* used entries are those below in_offs; once it is full the next entry to *)
(* overwrite is the oldest one.  The search loops rely on it when they take*)
(* a NULL buffptr for the end of the data, and the driver relies on it when*)
(* it frees the pointer add_entry returns as the one it overwrote.         *)
RingShape ==
  /\ full => in_offs = out_offs
  /\ ~full => out_offs = 0
  /\ \A i \in Index : (full \/ i < in_offs) <=> entry[i].buffptr # NULL

IInv == TypeOK /\ RingShape

(* The commands in the ring, oldest first.                                 *)
Count == IF full THEN N ELSE in_offs
Log == [i \in 1..Count |-> entry[(out_offs + i - 1) % N]]

(* The ring implements "keep the most recent N commands". *)
Abstract == INSTANCE RecentWrites WITH
              Capacity <- N, Command <- BufferEntry, Nothing <- NULL,
              log <- Log, returned <- returned
Implements == Abstract!Spec
=============================================================================
