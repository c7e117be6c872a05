-------------------------- MODULE MCCircularBuffer --------------------------
(***************************************************************************)
(* Model checking of CircularBuffer: the searches are compared with their  *)
(* specification in the C file's comments, which speaks of "the zero       *)
(* referenced character index if all buffer strings were concatenated end  *)
(* to end" (aesd-circular-buffer.c:34-36).                                 *)
(***************************************************************************)
EXTENDS CircularBuffer, SequencesExt

(* All buffer strings concatenated: one <<command, byte>> per byte, both   *)
(* counted from zero, the command from the oldest.                         *)
Concatenated ==
  FlattenSeq([i \in 1..Len(Log) |-> [b \in 1..Log[i].size |-> <<i-1, b-1>>]])

Offsets == 0 .. Len(Concatenated) + 1

(* find_entry_offset_for_fpos finds, for every file position, the byte at  *)
(* that place of the concatenation, and nothing at or past its end.        *)
FposFindsByte ==
  \A c \in Offsets :
    find_entry_offset_for_fpos(c) =
      IF c < Len(Concatenated)
      THEN [index |-> Concatenated[c+1][1],
            entry_offset_byte |-> Concatenated[c+1][2]]
      ELSE NotFound

(* find_absolute_offset, the ioctl's translation of (command, offset in    *)
(* it), is the inverse of that search: it yields the position where read() *)
(* finds this very byte, and -1 exactly for the pairs that are not there.  *)
AbsoluteOffsetInvertsFpos ==
  \A cmd \in 0..N+1, off \in Offsets :
    LET p == find_absolute_offset(cmd, off)
    IN  IF \E k \in DOMAIN Concatenated : Concatenated[k] = <<cmd, off>>
        THEN /\ p \in 0 .. Len(Concatenated) - 1
             /\ find_entry_offset_for_fpos(p) =
                  [index |-> cmd, entry_offset_byte |-> off]
        ELSE p = -1

(* The end of file llseek and reads use is the length of all stored data.  *)
EOFIsTotalSize == find_EOF_offset = Len(Concatenated)
=============================================================================
