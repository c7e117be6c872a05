-------------------------- MODULE MCAesdCharDriver --------------------------
EXTENDS AesdCharDriver, TLC

CONSTANTS part, short, long   (* chunks: without a newline, and with one *)

(* One byte each. *)
MCFewChunks == {part, short}
MCFewChunkSize == [c \in MCFewChunks |-> 1]
MCFewEndsLine == {short}

(* Lines written at once, of one byte and of two. *)
MCLines == {short, long}
MCLineSize == [c \in MCLines |-> IF c = long THEN 2 ELSE 1]

Symmetry == Permutations(Proc) \cup Permutations(Ptr)
=============================================================================
