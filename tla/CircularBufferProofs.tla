------------------------ MODULE CircularBufferProofs ------------------------
(***************************************************************************)
(* Theorems about the ring of the aesdchar driver, for every capacity and  *)
(* every set of addresses and sizes.                                       *)
(***************************************************************************)
EXTENDS MCCircularBuffer, SequenceLemmas

(* Stepping a ring index: the modulus is one comparison.                   *)
LEMMA Wrap ==
  ASSUME NEW x \in Index
  PROVE  (x + 1) % N = IF x + 1 = N THEN 0 ELSE x + 1
  BY CapacityAssumption DEF Index

(* Going a distance shorter than the ring from an index: at most one wrap. *)
LEMMA WrapFar ==
  ASSUME NEW x \in Index, NEW d \in Index
  PROVE  (x + d) % N = IF x + d < N THEN x + d ELSE x + d - N
  BY CapacityAssumption DEF Index

(* A NULL buffptr tells an unused entry from a command.                    *)
LEMMA EntryNull ==
  ASSUME NEW e \in BufferEntry
  PROVE  e.buffptr # NULL /\ e # NoEntry
  BY NullAssumption, SizesAssumption DEF BufferEntry, NoEntry
-----------------------------------------------------------------------------
LEMMA InitInv == Init => IInv
<1> SUFFICES ASSUME Init PROVE IInv
  OBVIOUS
<1>1. full = FALSE /\ ~full
  BY DEF Init, BufferInit
<1>2. TypeOK
  <2>1. 0 \in Index
    BY CapacityAssumption DEF Index
  <2>2. entry \in [Index -> BufferEntry \cup {NoEntry}]
    BY DEF Init, BufferInit
  <2> QED
    BY <1>1, <2>1, <2>2 DEF Init, BufferInit, TypeOK
<1>3. ASSUME NEW i \in Index
      PROVE  ~(i < in_offs) /\ entry[i].buffptr = NULL
  <2>1. ~(i < in_offs)
    BY CapacityAssumption DEF Init, BufferInit, Index
  <2>2. entry[i] = NoEntry
    BY DEF Init, BufferInit
  <2> QED
    BY <2>1, <2>2 DEF NoEntry
<1>4. RingShape
  BY <1>1, <1>3 DEF Init, BufferInit, RingShape
<1> QED
  BY <1>2, <1>4 DEF IInv

LEMMA AddInv ==
  ASSUME IInv, NEW add \in BufferEntry, add_entry(add)
  PROVE  IInv'
<1> USE DEF IInv, TypeOK
<1>1. in_offs \in Index /\ out_offs \in Index /\ N \in Nat \ {0}
  BY CapacityAssumption
<1>2. in_offs' = IF in_offs + 1 = N THEN 0 ELSE in_offs + 1
  BY Wrap DEF add_entry
<1>3. out_offs' = IF full THEN in_offs' ELSE 0
  BY DEF add_entry, RingShape
<1>4. full' = (full \/ in_offs + 1 = N)
  BY <1>1, <1>2, <1>3 DEF add_entry, Index
<1>5. TypeOK'
  <2>1. in_offs' \in Index /\ out_offs' \in Index
    BY <1>1, <1>2, <1>3 DEF Index
  <2>2. full' \in BOOLEAN
    BY <1>4
  <2>3. returned' \in Ptr \cup {NULL}
    BY DEF add_entry, BufferEntry, NoEntry
  <2> QED
    BY <2>1, <2>2, <2>3 DEF add_entry
<1>6. RingShape'
  <2>1. \A i \in Index : (full' \/ i < in_offs') <=> entry'[i].buffptr # NULL
    <3> TAKE i \in Index
    <3>1. CASE i = in_offs
      <4>1. entry'[i].buffptr # NULL
        BY <3>1, EntryNull DEF add_entry
      <4>2. in_offs + 1 = N \/ i < in_offs'
        BY <3>1, <1>1, <1>2 DEF Index
      <4> QED
        BY <4>1, <4>2, <1>4
    <3>2. CASE i # in_offs
      <4>1. entry'[i] = entry[i]
        BY <3>2 DEF add_entry
      <4>2. ~(in_offs + 1 = N) => (i < in_offs' <=> i < in_offs)
        BY <3>2, <1>1, <1>2 DEF Index
      <4>3. in_offs + 1 = N => i < in_offs
        BY <3>2, <1>1 DEF Index
      <4> QED
        BY <4>1, <4>2, <4>3, <1>4 DEF RingShape
    <3> QED
      BY <3>1, <3>2
  <2>2. full' => in_offs' = out_offs'
    BY <1>1, <1>2, <1>3, <1>4 DEF Index
  <2>3. ~full' => out_offs' = 0
    BY <1>3, <1>4
  <2> QED
    BY <2>1, <2>2, <2>3 DEF RingShape
<1> QED
  BY <1>5, <1>6

(* The ring keeps its shape: used entries are contiguous from the oldest,  *)
(* and when it is full the next overwritten entry is the oldest one, which *)
(* is what add_entry (aesd-circular-buffer.c:154-173) returns for freeing. *)
THEOREM RingInvariant == Spec => []IInv
<1>1. IInv /\ UNCHANGED vars => IInv'
  BY DEF IInv, TypeOK, RingShape, vars
<1>2. IInv /\ [Next]_vars => IInv'
  BY <1>1, AddInv DEF Next
<1> QED
  BY InitInv, <1>2, PTL DEF Spec
-----------------------------------------------------------------------------
(* Where the commands of the abstract log are in the ring.                 *)
Slot(i) == IF ~full THEN i - 1
           ELSE IF out_offs + (i-1) < N THEN out_offs + (i-1)
                                        ELSE out_offs + (i-1) - N

LogIsQueue ==
  /\ Count \in 0..N
  /\ Log \in Seq(BufferEntry)
  /\ Len(Log) = Count
  /\ \A i \in 1..Count : Slot(i) \in Index /\ Log[i] = entry[Slot(i)]

LEMMA LogContents == IInv => LogIsQueue
<1> SUFFICES ASSUME IInv PROVE LogIsQueue
  OBVIOUS
<1> USE DEF IInv, TypeOK
<1>1. Count \in 0..N
  BY CapacityAssumption DEF Count, Index
<1>2. ASSUME NEW i \in 1..Count
      PROVE  /\ Slot(i) \in Index
             /\ Log[i] = entry[Slot(i)]
             /\ Log[i] \in BufferEntry
  <2>1. i-1 \in Index /\ i-1 < N
    BY <1>1, CapacityAssumption DEF Index
  <2>2. Log[i] = entry[(out_offs + (i-1)) % N]
    <3>1. out_offs + i - 1 = out_offs + (i-1)
      BY <2>1 DEF Index
    <3> QED
      BY <3>1 DEF Log
  <2>3. (out_offs + (i-1)) % N = Slot(i)
    BY <2>1, WrapFar DEF RingShape, Slot, Index
  <2>4. Slot(i) \in Index
    BY <2>1, CapacityAssumption DEF Slot, Index
  <2>5. full \/ Slot(i) < in_offs
    BY <2>1 DEF Slot, Count, Index
  <2>6. Log[i] \in BufferEntry
    BY <2>2, <2>3, <2>4, <2>5 DEF RingShape, NoEntry
  <2> QED
    BY <2>2, <2>3, <2>4, <2>6
<1>3. Log \in Seq(BufferEntry) /\ Len(Log) = Count
  BY <1>1, <1>2 DEF Log
<1> QED
  BY <1>1, <1>2, <1>3 DEF LogIsQueue

(* Adding to a ring with room appends to the abstract log.                 *)
LEMMA AddAppends ==
  ASSUME IInv, NEW add \in BufferEntry, add_entry(add), ~full
  PROVE  Abstract!AddWithRoom(add)
<1>1. LogIsQueue /\ LogIsQueue'
  BY AddInv, LogContents, PTL
<1>2. in_offs \in Index /\ N \in Nat \ {0} /\ Count = in_offs /\ out_offs = 0
  BY CapacityAssumption DEF IInv, TypeOK, RingShape, Count
<1>3. in_offs' = (IF in_offs + 1 = N THEN 0 ELSE in_offs + 1) /\ out_offs' = 0
  BY <1>2, Wrap DEF add_entry
<1>4. full' = (in_offs + 1 = N)
  BY <1>2, <1>3 DEF add_entry, Index
<1>5. Count' = Count + 1
  BY <1>2, <1>3, <1>4 DEF Count
<1>6. Log' = Append(Log, add)
  <2>1. Log' \in Seq(BufferEntry) /\ Len(Log') = Count + 1
    BY <1>1, <1>5 DEF LogIsQueue
  <2>2. Log \in Seq(BufferEntry) /\ Len(Log) = Count
    BY <1>1 DEF LogIsQueue
  <2>3. ASSUME NEW i \in 1 .. Count+1
        PROVE  Log'[i] = Append(Log, add)[i]
    <3>1. Log'[i] = entry'[i-1]
      BY <1>1, <1>2, <1>3, <1>4, <1>5 DEF LogIsQueue, Slot, Index
    <3>2. CASE i = Count + 1
      BY <3>1, <3>2, <2>2, <1>2 DEF add_entry, IInv, TypeOK
    <3>3. CASE i \in 1..Count
      <4>1. entry'[i-1] = entry[i-1]
        BY <3>3, <1>2 DEF add_entry, IInv, TypeOK, Index
      <4>2. Log[i] = entry[i-1]
        BY <3>3, <1>1 DEF LogIsQueue, Slot
      <4> QED
        BY <3>1, <3>3, <4>1, <4>2, <2>2
    <3>4. i = Count + 1 \/ i \in 1..Count
      BY <1>2 DEF Index
    <3> QED
      BY <3>2, <3>3, <3>4
  <2> QED
    BY <2>1, <2>2, <2>3
<1>7. Len(Log) < N
  BY <1>1, <1>2 DEF LogIsQueue, Index
<1>8. returned' = NULL
  BY DEF add_entry
<1> QED
  BY <1>6, <1>7, <1>8 DEF Abstract!AddWithRoom

(* Adding to a full ring drops the oldest command of the abstract log and  *)
(* returns its memory.                                                     *)
LEMMA AddEvicts ==
  ASSUME IInv, NEW add \in BufferEntry, add_entry(add), full
  PROVE  Abstract!AddEvicting(add)
<1>1. LogIsQueue /\ LogIsQueue'
  BY AddInv, LogContents, PTL
<1>2. in_offs \in Index /\ N \in Nat \ {0} /\ out_offs = in_offs
      /\ Count = N /\ full' /\ Count' = N
  BY CapacityAssumption DEF IInv, TypeOK, RingShape, Count, add_entry
<1>3. out_offs' = IF out_offs + 1 = N THEN 0 ELSE out_offs + 1
  BY <1>2, Wrap DEF add_entry
<1>4. /\ Log \in Seq(BufferEntry) /\ Len(Log) = N
      /\ Log' \in Seq(BufferEntry) /\ Len(Log') = N
      /\ Log # <<>>
  BY <1>1, <1>2 DEF LogIsQueue
<1>5. Log' = Append(Tail(Log), add)
  <2>1. ASSUME NEW i \in 1..N
        PROVE  Log'[i] = Append(Tail(Log), add)[i]
    <3>1. Log'[i] = entry'[Slot(i)']
      BY <1>1, <1>2 DEF LogIsQueue
    <3>2. CASE i = N
      <4>1. Slot(i)' = in_offs
        BY <3>2, <1>2, <1>3 DEF Slot, Index
      <4> QED
        BY <3>1, <3>2, <4>1, <1>2, <1>4 DEF add_entry, IInv, TypeOK
    <3>3. CASE i \in 1 .. N-1
      <4>1. Slot(i)' = Slot(i+1) /\ Slot(i+1) # in_offs
        BY <3>3, <1>2, <1>3 DEF Slot, Index
      <4>2. Slot(i+1) \in Index /\ Log[i+1] = entry[Slot(i+1)]
        BY <3>3, <1>1, <1>2 DEF LogIsQueue
      <4>3. entry'[Slot(i+1)] = entry[Slot(i+1)]
        BY <4>1, <4>2 DEF add_entry, IInv, TypeOK
      <4> QED
        BY <3>1, <3>3, <4>1, <4>2, <4>3, <1>2, <1>4
    <3>4. i = N \/ i \in 1 .. N-1
      BY <1>2
    <3> QED
      BY <3>2, <3>3, <3>4
  <2> QED
    BY <2>1, <1>4, <1>2
<1>6. returned' = Head(Log).buffptr
  <2>1. Slot(1) = out_offs
    BY <1>2 DEF Slot, Index
  <2>2. Log[1] = entry[out_offs]
    BY <2>1, <1>1, <1>2 DEF LogIsQueue
  <2>3. Head(Log) = Log[1]
    BY <1>4
  <2>4. returned' = entry[out_offs].buffptr
    BY DEF add_entry
  <2> QED
    BY <2>2, <2>3, <2>4
<1> QED
  BY <1>4, <1>5, <1>6 DEF Abstract!AddEvicting

(* The ring implements the abstract log of the most recent N commands: for *)
(* every capacity, additions keep the newest N commands in their order and *)
(* return exactly the memory of the command that was dropped.              *)
THEOREM RingImplementsRecentWrites == Spec => Implements
<1>1. Init => Abstract!Init
  <2> SUFFICES ASSUME Init PROVE Log = <<>> /\ returned = NULL
    BY DEF Abstract!Init
  <2>1. Count = 0
    BY DEF Init, BufferInit, Count
  <2> QED
    BY <2>1 DEF Log, Init
<1>2. IInv /\ [Next]_vars => [Abstract!Next]_Abstract!vars
  <2> SUFFICES ASSUME IInv, [Next]_vars
               PROVE  Abstract!Next \/ UNCHANGED Abstract!vars
    OBVIOUS
  <2>1. CASE Next
    <3>1. PICK add \in BufferEntry : add_entry(add)
      BY <2>1 DEF Next
    <3>2. Abstract!AddWithRoom(add) \/ Abstract!AddEvicting(add)
      BY <3>1, AddAppends, AddEvicts
    <3> QED
      BY <3>1, <3>2 DEF Abstract!Next
  <2>2. CASE UNCHANGED vars
    <3>1. Count' = Count
      BY <2>2 DEF vars, Count
    <3>2. entry' = entry /\ out_offs' = out_offs
      BY <2>2 DEF vars
    <3>3. Log' = Log
      BY <3>1, <3>2 DEF Log
    <3> QED
      BY <2>2, <3>3 DEF vars, Abstract!vars
  <2> QED
    BY <2>1, <2>2
<1> QED
  BY <1>1, <1>2, RingInvariant, PTL DEF Spec, Implements, Abstract!Spec
-----------------------------------------------------------------------------
(* The searches.  The command at a distance from the oldest is the one at  *)
(* that place of the log, and beyond the log there is none.                *)
LEMMA EntryIsCommand ==
  ASSUME IInv, NEW i \in 0 .. Count-1
  PROVE  /\ i \in 0..N-1 /\ Log[i+1] \in BufferEntry
         /\ get_entry_by_offset(i) = Log[i+1] /\ ~IsEnd(i)
<1> DEFINE m == i + 1
<1> USE DEF IInv, TypeOK
<1>1. LogIsQueue
  BY LogContents
<1>2. Count \in 0..N /\ N \in Nat \ {0} /\ i \in Index /\ m \in 1..Count /\ m - 1 = i
  BY <1>1, CapacityAssumption DEF LogIsQueue, Index
<1>3. Log[m] = entry[Slot(m)] /\ Log[m] \in BufferEntry
  <2> HIDE DEF m
  <2>1. Log[m] = entry[Slot(m)]
    BY <1>1, <1>2 DEF LogIsQueue
  <2>2. Len(Log) = Count /\ Log \in Seq(BufferEntry)
    BY <1>1 DEF LogIsQueue
  <2> QED
    BY <1>2, <2>1, <2>2, ElementOfSeq
<1>4. (out_offs + i) % N = Slot(m)
  <2>1. (out_offs + i) % N = IF out_offs + i < N THEN out_offs + i ELSE out_offs + i - N
    BY <1>2, WrapFar
  <2> QED
    BY <1>2, <2>1 DEF Slot, RingShape, Index
<1>5. get_entry_by_offset(i) = Log[m]
  BY <1>2, <1>3, <1>4 DEF get_entry_by_offset, Index
<1>6. ~IsEnd(i)
  BY <1>2, <1>3, <1>5, EntryNull DEF IsEnd, Index
<1> QED
  BY <1>2, <1>3, <1>5, <1>6 DEF Index

LEMMA NoEntryBeyond ==
  ASSUME IInv, NEW i \in Nat, i >= Count
  PROVE  get_entry_by_offset(i) = NoEntry /\ (i <= N => IsEnd(i))
<1> USE DEF IInv, TypeOK
<1>1. CASE i < N
  <2>1. ~full /\ in_offs <= i /\ i \in Index /\ out_offs = 0
    <3>1. full => Count = N
      BY DEF Count
    <3>2. ~full => Count = in_offs /\ out_offs = 0
      BY DEF Count, RingShape
    <3> QED
      BY <1>1, <3>1, <3>2, CapacityAssumption DEF Index
  <2>2. (out_offs + i) % N = i
    BY <1>1, <2>1, WrapFar DEF Index
  <2>3. entry[i].buffptr = NULL
    BY <2>1, CapacityAssumption DEF RingShape, Index
  <2>4. entry[i] = NoEntry
    BY <2>1, <2>3, EntryNull
  <2> QED
    BY <1>1, <2>2, <2>4 DEF get_entry_by_offset, IsEnd, NoEntry
<1>2. CASE i >= N
  BY <1>2, CapacityAssumption DEF get_entry_by_offset, IsEnd, NoEntry
<1> QED
  BY <1>1, <1>2, CapacityAssumption

LEMMA WalkedIsCount == IInv => Walked = Count
<1> SUFFICES ASSUME IInv PROVE Walked = Count
  OBVIOUS
<1> DEFINE Ends == {i \in 0..N : IsEnd(i)}
<1>1. Count \in 0..N /\ N \in Nat
  BY LogContents, CapacityAssumption DEF LogIsQueue
<1>2. Count \in Ends /\ Ends \in SUBSET Nat
  BY <1>1, NoEntryBeyond
<1>3. \A i \in Ends : Count <= i
  BY <1>1, EntryIsCommand
<1>4. Walked = Min(Ends)
  BY DEF Walked
<1> HIDE DEF Ends
<1>5. Min(Ends) \in Ends /\ Min(Ends) <= Count
  BY <1>2, MinIsLeast
<1>6. Min(Ends) \in Nat /\ Count \in Nat /\ Count <= Min(Ends)
  BY <1>1, <1>2, <1>3, <1>5
<1>7. Min(Ends) = Count
  BY <1>5, <1>6
<1> QED
  BY <1>4, <1>7

(* What comes before a command, in bytes.                                  *)
SizeAt(i) == get_entry_by_offset(i).size

LEMMA SizeBeforeSums ==
  ASSUME IInv
  PROVE  /\ SizeBefore \in [0..N -> Nat] /\ SizeBefore[0] = 0
         /\ \A i \in 0..N-1 : SizeAt(i) \in Nat /\ SizeBefore[i+1] = SizeBefore[i] + SizeAt(i)
<1> DEFINE size == [i \in 0..N-1 |-> SizeAt(i)]
<1>1. N \in Nat /\ \A i \in 0..N-1 : size[i] \in Nat
  <2>1. N \in Nat
    BY CapacityAssumption
  <2>2. ASSUME NEW i \in 0..N-1 PROVE SizeAt(i) \in Nat
    <3>1. (out_offs + i) % N \in Index
      BY CapacityAssumption DEF IInv, TypeOK, Index
    <3>2. SizeAt(i) = entry[(out_offs + i) % N].size
      BY <2>1 DEF SizeAt, get_entry_by_offset
    <3>3. entry[(out_offs + i) % N] \in BufferEntry \cup {NoEntry}
      BY <3>1 DEF IInv, TypeOK
    <3>4. \A e \in BufferEntry : e.size \in Sizes
      BY DEF BufferEntry
    <3>5. NoEntry.size = 0
      BY DEF NoEntry
    <3> DEFINE e == entry[(out_offs + i) % N]
    <3>6. SizeAt(i) = e.size /\ (e \in BufferEntry \/ e = NoEntry)
      BY <3>2, <3>3
    <3> HIDE DEF e
    <3>7. e.size \in Sizes \cup {0}
      BY <3>4, <3>5, <3>6
    <3>8. \A n \in Sizes \cup {0} : n \in Nat
      BY SizesAssumption
    <3> QED
      BY <3>6, <3>7, <3>8
  <2> QED
    BY <2>1, <2>2
<1> DEFINE Defines(f) ==
      f = [i \in 0..N |-> IF i = 0 THEN 0 ELSE f[i-1] + get_entry_by_offset(i-1).size]
<1>2. \A f : Sums(f, size, N) <=> Defines(f)
  <2>1. \A i \in 0..N : i # 0 => size[i-1] = get_entry_by_offset(i-1).size
    BY <1>1 DEF SizeAt
  <2> HIDE DEF size
  <2> QED
    BY <2>1 DEF Sums
<1>3. \E f : Defines(f)
  <2> HIDE DEF size, Defines
  <2> QED
    BY <1>1, <1>2, SumsExist
<1>4. SizeBefore = CHOOSE f : Defines(f)
  BY DEF SizeBefore
<1>5. Sums(SizeBefore, size, N)
  <2> HIDE DEF size, Defines
  <2> QED
    BY <1>2, <1>3, <1>4
<1>6. /\ SizeBefore \in [0..N -> Nat] /\ SizeBefore[0] = 0
      /\ \A i \in 0..N-1 : SizeBefore[i+1] = SizeBefore[i] + size[i]
  <2> HIDE DEF size
  <2> QED
    BY <1>1, <1>5, SumsType
<1> QED
  BY <1>1, <1>6

(* The sums grow with the distance from the oldest command, strictly while *)
(* there are commands.                                                     *)
LEMMA SizeBeforeGrows ==
  ASSUME IInv, NEW i \in 0..N, NEW j \in 0..N, i <= j
  PROVE  SizeBefore[i] <= SizeBefore[j]
<1>1. N \in Nat /\ SizeBefore \in [0..N -> Nat]
  BY CapacityAssumption, SizeBeforeSums
<1>2. \A k \in 0..N-1 : SizeBefore[k] <= SizeBefore[k+1]
  <2> TAKE k \in 0..N-1
  <2> DEFINE after == SizeBefore[k+1]
             before == SizeBefore[k]
             size == SizeAt(k)
  <2>1. before \in Nat /\ size \in Nat /\ after = before + size
    BY <1>1, SizeBeforeSums
  <2> HIDE DEF after, before, size
  <2>2. before <= after
    BY <2>1
  <2> QED
    BY <2>2 DEF before, after
<1> QED
  BY ONLY <1>1, <1>2, i \in 0..N, j \in 0..N, i <= j, SumsGrow

(* The k-th command from the oldest contains the byte at position c.       *)
Covers(k, c) == SizeBefore[k] <= c /\ c < SizeBefore[k+1]

(* At most one command contains a byte.                                    *)
LEMMA OneContains ==
  ASSUME IInv, NEW c \in Nat, NEW k \in 0..N-1, NEW m \in 0..N-1,
         Covers(k, c), Covers(m, c)
  PROVE  k = m
<1>1. N \in Nat /\ SizeBefore \in [0..N -> Nat]
  BY CapacityAssumption, SizeBeforeSums
<1>2. ASSUME NEW i \in 0..N-1, NEW j \in 0..N-1, i < j, Covers(i, c), Covers(j, c)
      PROVE  FALSE
  <2> DEFINE n == i + 1
  <2>1. n \in 0..N /\ j \in 0..N /\ n <= j
    BY <1>1, <1>2
  <2>2. c < SizeBefore[n] /\ SizeBefore[j] <= c
    BY <1>2 DEF Covers
  <2>3. SizeBefore[n] \in Nat /\ SizeBefore[j] \in Nat
    BY <1>1, <2>1
  <2> HIDE DEF n
  <2>4. SizeBefore[n] <= SizeBefore[j]
    BY <2>1, SizeBeforeGrows
  <2> QED
    BY ONLY <2>2, <2>3, <2>4, c \in Nat
<1> QED
  BY <1>1, <1>2

(* The loop of find_entry_offset_for_fpos stops at the first command whose *)
(* end lies beyond the position.                                           *)
Hits(c) == {i \in 0 .. Count-1 : c < SizeBefore[i+1]}

LEMMA SearchStops ==
  ASSUME IInv, NEW c \in Nat
  PROVE  find_entry_offset_for_fpos(c) =
           IF Hits(c) = {} THEN NotFound
           ELSE [index |-> Min(Hits(c)), entry_offset_byte |-> c - SizeBefore[Min(Hits(c))]]
<1> DEFINE hits == {i \in 0 .. Walked-1 : c - SizeBefore[i] < get_entry_by_offset(i).size}
<1>1. hits = Hits(c)
  <2>1. Walked = Count /\ Count \in 0..N /\ N \in Nat
    BY WalkedIsCount, LogContents, CapacityAssumption DEF LogIsQueue
  <2>2. ASSUME NEW i \in 0 .. Count-1
        PROVE  (c - SizeBefore[i] < get_entry_by_offset(i).size) <=> (c < SizeBefore[i+1])
    <3> DEFINE after == SizeBefore[i+1]
               before == SizeBefore[i]
               size == SizeAt(i)
    <3>1. i \in 0..N-1 /\ i \in 0..N
      BY <2>1
    <3>2. before \in Nat /\ size \in Nat /\ after = before + size
      BY <3>1, SizeBeforeSums
    <3> HIDE DEF after, before, size
    <3>3. (c - before < size) <=> (c < after)
      BY <3>2
    <3> QED
      BY <3>3 DEF before, after, size, SizeAt
  <2> QED
    BY <2>1, <2>2 DEF Hits
<1> QED
  BY <1>1 DEF find_entry_offset_for_fpos

LEMMA SearchFinds ==
  ASSUME IInv, NEW c \in Nat, c < SizeBefore[Count]
  PROVE  \E k \in 0 .. Count-1 :
           /\ Covers(k, c)
           /\ find_entry_offset_for_fpos(c) = [index |-> k, entry_offset_byte |-> c - SizeBefore[k]]
<1>1. Count \in 0..N /\ N \in Nat
  BY LogContents, CapacityAssumption DEF LogIsQueue
<1>2. SizeBefore \in [0..N -> Nat] /\ SizeBefore[0] = 0
  BY SizeBeforeSums
<1>3. Count # 0
  BY <1>2
<1>4. Count-1 \in Hits(c) /\ Hits(c) \in SUBSET Nat
  <2>1. Count-1 \in 0 .. Count-1 /\ (Count-1)+1 = Count
    BY <1>1, <1>3
  <2> QED
    BY <1>1, <2>1 DEF Hits
<1> DEFINE k == Min(Hits(c))
<1>5. k \in Hits(c) /\ \A n \in Hits(c) : k <= n
  BY <1>4, MinIsLeast
<1> HIDE DEF k
<1>6. k \in 0 .. Count-1 /\ c < SizeBefore[k+1]
  BY <1>5 DEF Hits
<1>7. SizeBefore[k] <= c
  <2>1. CASE k = 0
    BY <1>2, <2>1
  <2>2. CASE k # 0
    <3> DEFINE j == k - 1
    <3>1. j \in 0 .. Count-1 /\ j + 1 = k /\ j < k
      BY <1>1, <1>6, <2>2
    <3>2. k \in 0..N
      BY <1>1, <1>6
    <3> HIDE DEF j
    <3>3. j \notin Hits(c)
      BY <1>1, <1>5, <1>6, <3>1
    <3>4. ~(c < SizeBefore[k])
      BY <3>1, <3>3 DEF Hits
    <3>5. SizeBefore[k] \in Nat
      BY <1>2, <3>2
    <3> QED
      BY <3>4, <3>5
  <2> QED
    BY <2>1, <2>2
<1>8. find_entry_offset_for_fpos(c) = [index |-> k, entry_offset_byte |-> c - SizeBefore[k]]
  BY <1>4, SearchStops DEF k
<1> QED
  BY <1>6, <1>7, <1>8 DEF Covers

LEMMA SearchFails ==
  ASSUME IInv, NEW c \in Nat, SizeBefore[Count] <= c
  PROVE  find_entry_offset_for_fpos(c) = NotFound
<1>1. Count \in 0..N /\ N \in Nat
  BY LogContents, CapacityAssumption DEF LogIsQueue
<1>2. SizeBefore \in [0..N -> Nat]
  BY SizeBeforeSums
<1>3. ASSUME NEW i \in 0 .. Count-1 PROVE ~(c < SizeBefore[i+1])
  <2> DEFINE n == i + 1
  <2>1. n \in 0..N /\ n <= Count
    BY <1>1
  <2> HIDE DEF n
  <2>2. SizeBefore[n] <= SizeBefore[Count]
    BY <1>1, <2>1, SizeBeforeGrows
  <2>3. SizeBefore[n] \in Nat /\ SizeBefore[Count] \in Nat
    BY <1>1, <1>2, <2>1
  <2>4. ~(c < SizeBefore[n])
    BY <2>2, <2>3
  <2> QED
    BY <2>4 DEF n
<1>4. Hits(c) = {}
  BY <1>3 DEF Hits
<1> QED
  BY <1>4, SearchStops

(* The concatenation has SizeBefore[Count] bytes; those of a command stand *)
(* together, after those of the commands before it.                        *)
LEMMA BytesInPlace ==
  ASSUME IInv
  PROVE  /\ Concatenated \in Seq(Nat \X Nat)
         /\ Len(Concatenated) = SizeBefore[Count] /\ SizeBefore[Count] \in Nat
         /\ \A k \in 0 .. Count-1 : \A b \in 1..SizeAt(k) :
              Concatenated[SizeBefore[k] + b] = <<k, b-1>>
<1> DEFINE Bytes(i) == [b \in 1..Log[i].size |-> <<i-1, b-1>>]
           parts == [i \in 1..Len(Log) |-> Bytes(i)]
           f == [i \in 0..Count |-> SizeBefore[i]]
<1>1. /\ Count \in 0..N /\ N \in Nat /\ Len(Log) = Count
      /\ \A i \in 1..Count : Log[i] \in BufferEntry
  BY LogContents, CapacityAssumption, ElementOfSeq DEF LogIsQueue
<1>2. SizeBefore \in [0..N -> Nat] /\ SizeBefore[0] = 0
  BY SizeBeforeSums
<1>3. \A i \in 1..Count : Log[i].size \in Nat
  BY <1>1, SizesAssumption DEF BufferEntry
<1>4. \A i \in 1..Count : Bytes(i) \in Seq(Nat \X Nat) /\ Len(Bytes(i)) = Log[i].size
  <2> TAKE i \in 1..Count
  <2>1. Log[i].size \in Nat /\ i-1 \in Nat
    BY <1>1, <1>3
  <2>2. Bytes(i) \in [1..Log[i].size -> Nat \X Nat]
    BY <2>1
  <2> QED
    BY <2>1, <2>2
<1>5. parts \in Seq(Seq(Nat \X Nat)) /\ Len(parts) = Count /\ \A i \in 1..Count : parts[i] = Bytes(i)
  <2> HIDE DEF Bytes
  <2>1. parts \in [1..Count -> Seq(Nat \X Nat)] /\ Count \in Nat
    BY <1>1, <1>4
  <2> QED
    BY <1>1, <2>1
<1>6. Concatenated = FlattenSeq(parts)
  BY DEF Concatenated
<1> HIDE DEF Bytes, parts
<1>7. \A k \in 0 .. Count-1 : /\ SizeAt(k) = Log[k+1].size /\ parts[k+1] = Bytes(k+1)
                              /\ Len(parts[k+1]) = SizeAt(k) /\ f[k+1] = f[k] + SizeAt(k)
  <2> TAKE k \in 0 .. Count-1
  <2> DEFINE m == k + 1
  <2>1. m \in 1..Count /\ m \in 0..Count /\ k \in 0..Count /\ k \in 0..N-1
    BY <1>1
  <2>2. SizeAt(k) = Log[m].size
    BY EntryIsCommand DEF SizeAt
  <2>3. SizeBefore[m] = SizeBefore[k] + SizeAt(k)
    BY <2>1, SizeBeforeSums
  <2> HIDE DEF m
  <2>4. parts[m] = Bytes(m) /\ Len(parts[m]) = SizeAt(k) /\ f[m] = f[k] + SizeAt(k)
    BY <1>4, <1>5, <2>1, <2>2, <2>3
  <2> QED
    BY <2>2, <2>4 DEF m
<1>8. f \in [0..Len(parts) -> Nat] /\ f[0] = 0 /\ f[Count] = SizeBefore[Count] /\ SizeBefore[Count] \in Nat
  BY <1>1, <1>2, <1>5
<1>9. \A k \in 0 .. Count-1 : f[k] = SizeBefore[k]
  BY <1>1
<1> HIDE DEF f
<1>10. PartsInPlace(parts, f)
  <2>1. \A k \in 0 .. Len(parts)-1 : f[k+1] = f[k] + Len(parts[k+1])
    BY <1>5, <1>7
  <2> QED
    BY ONLY <1>5, <1>8, <2>1, FlattenPlace
<1>11. Concatenated \in Seq(Nat \X Nat)
  BY <1>5, <1>6, FlattenType
<1>12. Len(Concatenated) = SizeBefore[Count]
  BY <1>5, <1>6, <1>8, <1>10 DEF PartsInPlace
<1>13. ASSUME NEW k \in 0 .. Count-1, NEW b \in 1..SizeAt(k)
       PROVE  Concatenated[SizeBefore[k] + b] = <<k, b-1>>
  <2> DEFINE m == k + 1
  <2>1. m \in 1..Count /\ m - 1 = k
    BY <1>1
  <2>2. Len(parts[m]) = SizeAt(k) /\ SizeAt(k) = Log[m].size /\ parts[m] = Bytes(m)
    BY <1>7
  <2>3. Concatenated[f[k] + b] = parts[m][b]
    BY <1>5, <1>6, <1>7, <1>10 DEF PartsInPlace
  <2> HIDE DEF m
  <2>4. Bytes(m)[b] = <<m-1, b-1>>
    BY <2>2 DEF Bytes
  <2> QED
    BY <1>9, <2>1, <2>2, <2>3, <2>4
<1> QED
  BY <1>8, <1>11, <1>12, <1>13

(* The byte at a position of the concatenation, by the command that        *)
(* contains it.                                                            *)
LEMMA ByteAt ==
  ASSUME IInv, NEW c \in Nat, NEW k \in 0 .. Count-1, Covers(k, c)
  PROVE  /\ Concatenated[c+1] = <<k, c - SizeBefore[k]>>
         /\ c - SizeBefore[k] \in Nat /\ c - SizeBefore[k] < SizeAt(k)
         /\ c < SizeBefore[Count]
<1> DEFINE before == SizeBefore[k]
           after == SizeBefore[k+1]
           size == SizeAt(k)
           b == c - before + 1
           m == k + 1
<1>1. Count \in 0..N /\ N \in Nat
  BY LogContents, CapacityAssumption DEF LogIsQueue
<1>2. k \in 0..N-1 /\ m \in 0..N /\ m <= Count
  BY <1>1
<1>3. before \in Nat /\ size \in Nat /\ after = before + size /\ before <= c /\ c < after
  <2>1. k \in 0..N
    BY <1>1
  <2> QED
    BY <1>2, <2>1, SizeBeforeSums DEF Covers
<1>4. Concatenated[before + b] = <<k, b-1>>
  <2>1. b \in 1..size
    <3> HIDE DEF before, after, size
    <3> QED
      BY ONLY <1>3, c \in Nat DEF b
  <2> HIDE DEF b
  <2> QED
    BY <2>1, BytesInPlace
<1>5. SizeBefore[m] <= SizeBefore[Count] /\ SizeBefore[Count] \in Nat
  <2> HIDE DEF m
  <2> QED
    BY <1>1, <1>2, SizeBeforeGrows, BytesInPlace
<1>6. before + b = c+1 /\ b-1 = c - before /\ c - before \in Nat /\ c - before < size
  <2> HIDE DEF before, after, size
  <2> QED
    BY ONLY <1>3, c \in Nat DEF b
<1>7. after <= SizeBefore[Count]
  BY <1>5
<1>8. c < SizeBefore[Count]
  <2> HIDE DEF before, after, size
  <2> QED
    BY <1>3, <1>5, <1>7
<1> QED
  BY <1>4, <1>6, <1>8

(* find_entry_offset_for_fpos finds for every position the byte that       *)
(* stands there in the concatenation, and nothing at or past the end.      *)
THEOREM SearchFindsByte == Spec => []FposFindsByte
<1>1. IInv => FposFindsByte
  <2> SUFFICES ASSUME IInv, NEW c \in Offsets
               PROVE  find_entry_offset_for_fpos(c) =
                        IF c < Len(Concatenated)
                        THEN [index |-> Concatenated[c+1][1],
                              entry_offset_byte |-> Concatenated[c+1][2]]
                        ELSE NotFound
    BY DEF FposFindsByte
  <2>1. Len(Concatenated) = SizeBefore[Count] /\ SizeBefore[Count] \in Nat
    BY BytesInPlace
  <2>2. c \in Nat
    BY <2>1 DEF Offsets
  <2>3. CASE c < SizeBefore[Count]
    <3>1. PICK k \in 0 .. Count-1 :
            /\ Covers(k, c)
            /\ find_entry_offset_for_fpos(c) = [index |-> k, entry_offset_byte |-> c - SizeBefore[k]]
      BY <2>2, <2>3, SearchFinds
    <3>2. Concatenated[c+1] = <<k, c - SizeBefore[k]>>
      BY <2>2, <3>1, ByteAt
    <3> QED
      BY <2>1, <2>3, <3>1, <3>2
  <2>4. CASE ~(c < SizeBefore[Count])
    <3>1. SizeBefore[Count] <= c
      BY <2>1, <2>2, <2>4
    <3> QED
      BY <2>1, <2>2, <2>4, <3>1, SearchFails
  <2> QED
    BY <2>3, <2>4
<1> QED
  BY <1>1, RingInvariant, PTL

(* A pair of a command and an offset in it names a byte of the             *)
(* concatenation exactly when the command is there and is long enough.     *)
LEMMA PairsOfBytes ==
  ASSUME IInv, NEW cmd \in Nat, NEW off \in Nat
  PROVE  (\E k \in DOMAIN Concatenated : Concatenated[k] = <<cmd, off>>)
         <=> (cmd < Count /\ off < SizeAt(cmd))
<1>1. Count \in 0..N /\ N \in Nat
  BY LogContents, CapacityAssumption DEF LogIsQueue
<1>2. /\ DOMAIN Concatenated = 1 .. SizeBefore[Count]
      /\ SizeBefore[Count] \in Nat
  BY BytesInPlace, LenProperties
<1>3. ASSUME NEW k \in DOMAIN Concatenated, Concatenated[k] = <<cmd, off>>
      PROVE  cmd < Count /\ off < SizeAt(cmd)
  <2> DEFINE c == k - 1
  <2>1. c \in Nat /\ c < SizeBefore[Count] /\ c + 1 = k
    BY <1>2
  <2> HIDE DEF c
  <2>2. PICK m \in 0 .. Count-1 : Covers(m, c)
    BY <2>1, SearchFinds
  <2>3. Concatenated[c+1] = <<m, c - SizeBefore[m]>> /\ c - SizeBefore[m] < SizeAt(m)
    BY <2>1, <2>2, ByteAt
  <2>4. cmd = m /\ off = c - SizeBefore[m]
    BY <1>3, <2>1, <2>3
  <2>5. m < Count
    BY <1>1
  <2> QED
    BY <2>3, <2>4, <2>5
<1>4. ASSUME cmd < Count, off < SizeAt(cmd)
      PROVE  \E k \in DOMAIN Concatenated : Concatenated[k] = <<cmd, off>>
  <2> DEFINE before == SizeBefore[cmd]
             after == SizeBefore[cmd+1]
             size == SizeAt(cmd)
             c == before + off
             k == c + 1
  <2>1. cmd \in 0 .. Count-1 /\ cmd \in 0..N-1 /\ cmd \in 0..N
    BY <1>1, <1>4
  <2>2. before \in Nat /\ size \in Nat /\ after = before + size /\ off < size
    BY <1>4, <2>1, SizeBeforeSums
  <2> HIDE DEF before, after, size
  <2>3. c \in Nat /\ before <= c /\ c < after /\ c - before = off /\ k = c + 1
    BY ONLY <2>2, off \in Nat DEF c, k
  <2>4. Covers(cmd, c)
    BY <2>3 DEF Covers, before, after
  <2> HIDE DEF c, k
  <2>5. Concatenated[c+1] = <<cmd, c - SizeBefore[cmd]>> /\ c < SizeBefore[Count]
    BY <2>1, <2>3, <2>4, ByteAt
  <2>6. k \in DOMAIN Concatenated
    BY <1>2, <2>3, <2>5
  <2>7. Concatenated[k] = <<cmd, off>>
    BY <2>3, <2>5 DEF before
  <2> QED
    BY <2>6, <2>7
<1> QED
  BY <1>3, <1>4

(* find_absolute_offset is the inverse of that search on the pairs that    *)
(* name a byte, and refuses every other pair.                              *)
THEOREM AbsoluteOffsetInverts == Spec => []AbsoluteOffsetInvertsFpos
<1>1. IInv => AbsoluteOffsetInvertsFpos
  <2> SUFFICES ASSUME IInv, NEW cmd \in 0..N+1, NEW off \in Offsets
               PROVE  LET p == find_absolute_offset(cmd, off)
                      IN  IF \E k \in DOMAIN Concatenated : Concatenated[k] = <<cmd, off>>
                          THEN /\ p \in 0 .. Len(Concatenated) - 1
                               /\ find_entry_offset_for_fpos(p) =
                                    [index |-> cmd, entry_offset_byte |-> off]
                          ELSE p = -1
    BY DEF AbsoluteOffsetInvertsFpos
  <2> DEFINE p == find_absolute_offset(cmd, off)
             before == SizeBefore[cmd]
             after == SizeBefore[cmd+1]
             size == SizeAt(cmd)
  <2>1. /\ Len(Concatenated) = SizeBefore[Count] /\ SizeBefore[Count] \in Nat
        /\ Count \in 0..N /\ N \in Nat
    BY BytesInPlace, LogContents, CapacityAssumption DEF LogIsQueue
  <2>2. cmd \in Nat /\ off \in Nat
    BY <2>1 DEF Offsets
  <2>3. p = IF get_entry_by_offset(cmd).buffptr = NULL \/ off >= size
            THEN -1 ELSE off + before
    BY DEF find_absolute_offset, SizeAt
  <2> HIDE DEF p
  <2>4. CASE cmd < Count /\ off < size
    <3>1. cmd \in 0 .. Count-1 /\ cmd \in 0..N-1 /\ cmd \in 0..N
      BY <2>1, <2>2, <2>4
    <3>2. before \in Nat /\ size \in Nat /\ after = before + size /\ off < size
      BY <2>4, <3>1, SizeBeforeSums
    <3>3. get_entry_by_offset(cmd).buffptr # NULL
      BY <3>1, EntryIsCommand DEF IsEnd
    <3> HIDE DEF before, after, size
    <3>4. p = off + before /\ p \in Nat /\ before <= p /\ p < after /\ p - before = off
      BY <2>2, <2>3, <3>2, <3>3
    <3>5. Covers(cmd, p)
      BY <3>4 DEF Covers, before, after
    <3>6. p < SizeBefore[Count]
      BY <3>1, <3>4, <3>5, ByteAt
    <3>7. PICK k \in 0 .. Count-1 :
            /\ Covers(k, p)
            /\ find_entry_offset_for_fpos(p) = [index |-> k, entry_offset_byte |-> p - SizeBefore[k]]
      BY <3>4, <3>6, SearchFinds
    <3>8. k = cmd
      <4>1. k \in 0..N-1
        BY <2>1
      <4> QED
        BY <3>1, <3>4, <3>5, <3>7, <4>1, OneContains
    <3>9. find_entry_offset_for_fpos(p) = [index |-> cmd, entry_offset_byte |-> off]
      BY <3>4, <3>7, <3>8 DEF before
    <3>10. p \in 0 .. Len(Concatenated) - 1
      BY <2>1, <3>4, <3>6
    <3>11. \E k_1 \in DOMAIN Concatenated : Concatenated[k_1] = <<cmd, off>>
      BY <2>2, <2>4, PairsOfBytes DEF size
    <3> QED
      BY <3>9, <3>10, <3>11 DEF p
  <2>5. CASE ~(cmd < Count /\ off < size)
    <3>1. ~ \E k \in DOMAIN Concatenated : Concatenated[k] = <<cmd, off>>
      BY <2>2, <2>5, PairsOfBytes
    <3>2. p = -1
      <4>1. CASE cmd < Count
        <5>1. cmd \in 0..N-1
          BY <2>1, <2>2, <4>1
        <5>2. size \in Nat
          BY <5>1, SizeBeforeSums
        <5> HIDE DEF size
        <5>3. off >= size
          BY <2>2, <2>5, <4>1, <5>2
        <5> QED
          BY <2>3, <5>3
      <4>2. CASE ~(cmd < Count)
        <5>1. cmd >= Count
          BY <2>1, <2>2, <4>2
        <5>2. get_entry_by_offset(cmd) = NoEntry
          BY <2>2, <5>1, NoEntryBeyond
        <5> QED
          BY <2>3, <5>2 DEF NoEntry
      <4> QED
        BY <4>1, <4>2
    <3> QED
      BY <3>1, <3>2 DEF p
  <2> QED
    BY <2>4, <2>5
<1> QED
  BY <1>1, RingInvariant, PTL

(* The end of file is the length of the concatenation.                     *)
THEOREM EOFIsTotal == Spec => []EOFIsTotalSize
<1>1. IInv => EOFIsTotalSize
  <2> SUFFICES ASSUME IInv PROVE EOFIsTotalSize
    OBVIOUS
  <2>1. find_EOF_offset = SizeBefore[Count]
    BY WalkedIsCount DEF find_EOF_offset
  <2> QED
    BY <2>1, BytesInPlace DEF EOFIsTotalSize
<1> QED
  BY <1>1, RingInvariant, PTL
=============================================================================
