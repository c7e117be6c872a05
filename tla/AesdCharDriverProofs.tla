------------------------ MODULE AesdCharDriverProofs ------------------------
(***************************************************************************)
(* What the aesdchar driver does right for any number of processes, any    *)
(* ring, any sizes of what is written and whatever fails: its locks        *)
(* exclude what they must and its memory has one owner (DriverInv); the    *)
(* size recorded with a block is that of what is in it (StoredInv), so     *)
(* that the ring is used as it expects; a read returns bytes of one state  *)
(* (ReadingInv); the lines kept are those LineLog promises; and a seek     *)
(* into a command finds it when no other is added meanwhile (SeekingInv).  *)
(*                                                                         *)
(* What the ring does is not proved again: RingLemmas is the module of the *)
(* ring's own lemmas, of the driver's ring.                                *)
(***************************************************************************)
EXTENDS AesdCharDriver, SequenceLemmas

Writing == {"append", "down_write", "add"}

(* temp_entry_mutex is held by one process at a time, and a command is     *)
(* added while nobody reads.                                               *)
LocksExclude ==
  /\ \A p, q \in Proc : pc[p] \in Writing /\ pc[q] \in Writing => p = q
  /\ \A p, q \in Proc : pc[p] = "add" => pc[q] # "copy"

(* TypeOK without the bounds of sizes and positions.                       *)
Slot == [buffptr : Ptr \cup {NULL}, size : Nat]
Types ==
  /\ loaded \in BOOLEAN
  /\ entry \in [Ring!Index -> Slot]
  /\ in_offs \in Ring!Index
  /\ out_offs \in Ring!Index
  /\ full \in BOOLEAN
  /\ temp_entry \in Slot
  /\ heap \subseteq Ptr
  /\ pc \in [Proc -> Pc]
  /\ chunk \in [Proc -> Chunk \cup {NULL}]

(* Where a call is tells what it has.                                      *)
CallsProgress ==
  /\ \A p \in Proc : pc[p] \in {"lock"} \cup Writing => chunk[p] \in Chunk
  /\ \A p \in Proc : pc[p] \in {"down_write", "add"} => temp_entry.buffptr # NULL
  /\ ~loaded => \A p \in Proc : pc[p] = "closed"

DriverInv == Types /\ LocksExclude /\ CallsProgress /\ Ring!RingShape /\ OneOwner

USE DEF Pc, Writing, Slot, ringVars, readVars, localVars, At, Goes

LEMMA RingNat == Ring!N \in Nat \ {0} /\ 0 \in Ring!Index
BY BoundsAssumption DEF Ring!N, Ring!Index

LEMMA InitInv == Init => DriverInv
<1> SUFFICES ASSUME Init PROVE DriverInv
  OBVIOUS
<1>1. /\ entry = [k \in Ring!Index |-> NoEntry] /\ temp_entry = NoEntry
      /\ in_offs = 0 /\ out_offs = 0 /\ full = FALSE
  BY DEF Init, Zeroed
<1>2. Types
  BY <1>1, RingNat DEF Init, Types, NoEntry
<1>3. LocksExclude /\ CallsProgress
  BY DEF Init, LocksExclude, CallsProgress
<1>4. Ring!RingShape
  BY <1>1 DEF Ring!RingShape, Ring!Index, NoEntry
<1>5. OneOwner
  BY <1>1 DEF Init, OneOwner, Ring!Held, NoEntry
<1> QED
  BY <1>2, <1>3, <1>4, <1>5 DEF DriverInv
-----------------------------------------------------------------------------
(* Steps that leave the ring and the memory alone.                         *)
LEMMA RingStays ==
  ASSUME DriverInv, UNCHANGED <<loaded, ringVars, temp_entry, heap>>
  PROVE  Ring!RingShape' /\ OneOwner'
<1>1. Ring!RingShape'
  BY DEF DriverInv, Ring!RingShape
<1>2. Ring!Held' = Ring!Held
  BY DEF Ring!Held
<1> QED
  BY <1>1, <1>2 DEF DriverInv, OneOwner

LEMMA WaitsKeepInv ==
  ASSUME DriverInv, NEW p \in Proc,
         \/ Opens(p) \/ Releases(p) \/ Killed(p) \/ CallsWrite(p) \/ WriteLocks(p)
         \/ WriteExcludesReaders(p) \/ CallsRead(p) \/ ReadLocks(p) \/ ReadCopies(p)
         \/ ReadEnds(p) \/ ReadFaults(p) \/ CallsSeek(p) \/ FindsPosition(p) \/ Seeks(p)
  PROVE  DriverInv'
<1> USE DEF DriverInv, Types
<1>1. CASE Opens(p)
  <2>1. Types'
    BY <1>1 DEF Opens, heapVars
  <2>2. LocksExclude' /\ CallsProgress'
    BY <1>1 DEF Opens, LocksExclude, CallsProgress
  <2>3. UNCHANGED <<loaded, ringVars, temp_entry, heap>>
    BY <1>1 DEF Opens, heapVars
  <2> QED
    BY <2>1, <2>2, <2>3, RingStays
<1>2. CASE Releases(p)
  <2>1. Types'
    BY <1>2 DEF Releases, heapVars
  <2>2. LocksExclude' /\ CallsProgress'
    BY <1>2 DEF Releases, LocksExclude, CallsProgress
  <2>3. UNCHANGED <<loaded, ringVars, temp_entry, heap>>
    BY <1>2 DEF Releases, heapVars
  <2> QED
    BY <2>1, <2>2, <2>3, RingStays
<1>3. CASE Killed(p)
  <2>1. Types'
    BY <1>3 DEF Killed, Leaves, heapVars
  <2>2. LocksExclude' /\ CallsProgress'
    BY <1>3 DEF Killed, Leaves, LocksExclude, CallsProgress
  <2>3. UNCHANGED <<loaded, ringVars, temp_entry, heap>>
    BY <1>3 DEF Killed, Leaves, heapVars
  <2> QED
    BY <2>1, <2>2, <2>3, RingStays
<1>4. CASE CallsWrite(p)
  <2>1. Types'
    BY <1>4 DEF CallsWrite, heapVars
  <2>2. LocksExclude' /\ CallsProgress'
    BY <1>4 DEF CallsWrite, LocksExclude, CallsProgress
  <2>3. UNCHANGED <<loaded, ringVars, temp_entry, heap>>
    BY <1>4 DEF CallsWrite, heapVars
  <2> QED
    BY <2>1, <2>2, <2>3, RingStays
<1>5. CASE WriteLocks(p)
  <2>1. Types'
    BY <1>5 DEF WriteLocks, MutexFree, heapVars
  <2>2. LocksExclude' /\ CallsProgress'
    BY <1>5 DEF WriteLocks, MutexFree, LocksExclude, CallsProgress
  <2>3. UNCHANGED <<loaded, ringVars, temp_entry, heap>>
    BY <1>5 DEF WriteLocks, MutexFree, heapVars
  <2> QED
    BY <2>1, <2>2, <2>3, RingStays
<1>6. CASE WriteExcludesReaders(p)
  <2>1. Types'
    BY <1>6 DEF WriteExcludesReaders, NoReader, NoWriter, heapVars
  <2>2. LocksExclude' /\ CallsProgress'
    BY <1>6 DEF WriteExcludesReaders, NoReader, NoWriter, LocksExclude, CallsProgress
  <2>3. UNCHANGED <<loaded, ringVars, temp_entry, heap>>
    BY <1>6 DEF WriteExcludesReaders, NoReader, NoWriter, heapVars
  <2> QED
    BY <2>1, <2>2, <2>3, RingStays
<1>7. CASE CallsRead(p)
  <2>1. Types'
    BY <1>7 DEF CallsRead, heapVars
  <2>2. LocksExclude' /\ CallsProgress'
    BY <1>7 DEF CallsRead, LocksExclude, CallsProgress
  <2>3. UNCHANGED <<loaded, ringVars, temp_entry, heap>>
    BY <1>7 DEF CallsRead, heapVars
  <2> QED
    BY <2>1, <2>2, <2>3, RingStays
<1>8. CASE ReadLocks(p)
  <2>1. Types'
    BY <1>8 DEF ReadLocks, NoWriter, heapVars
  <2>2. LocksExclude' /\ CallsProgress'
    BY <1>8 DEF ReadLocks, NoWriter, LocksExclude, CallsProgress
  <2>3. UNCHANGED <<loaded, ringVars, temp_entry, heap>>
    BY <1>8 DEF ReadLocks, NoWriter, heapVars
  <2> QED
    BY <2>1, <2>2, <2>3, RingStays
<1>9. CASE ReadCopies(p)
  <2>1. Types'
    BY <1>9 DEF ReadCopies, heapVars
  <2>2. LocksExclude' /\ CallsProgress'
    BY <1>9 DEF ReadCopies, LocksExclude, CallsProgress
  <2>3. UNCHANGED <<loaded, ringVars, temp_entry, heap>>
    BY <1>9 DEF ReadCopies, heapVars
  <2> QED
    BY <2>1, <2>2, <2>3, RingStays
<1>10. CASE ReadEnds(p)
  <2>1. Types'
    BY <1>10 DEF ReadEnds, Leaves, heapVars
  <2>2. LocksExclude' /\ CallsProgress'
    BY <1>10 DEF ReadEnds, Leaves, LocksExclude, CallsProgress
  <2>3. UNCHANGED <<loaded, ringVars, temp_entry, heap>>
    BY <1>10 DEF ReadEnds, Leaves, heapVars
  <2> QED
    BY <2>1, <2>2, <2>3, RingStays
<1>11. CASE ReadFaults(p)
  <2>1. Types'
    BY <1>11 DEF ReadFaults, Leaves, heapVars
  <2>2. LocksExclude' /\ CallsProgress'
    BY <1>11 DEF ReadFaults, Leaves, LocksExclude, CallsProgress
  <2>3. UNCHANGED <<loaded, ringVars, temp_entry, heap>>
    BY <1>11 DEF ReadFaults, Leaves, heapVars
  <2> QED
    BY <2>1, <2>2, <2>3, RingStays
<1>12. CASE CallsSeek(p)
  <2>1. Types'
    BY <1>12 DEF CallsSeek, heapVars
  <2>2. LocksExclude' /\ CallsProgress'
    BY <1>12 DEF CallsSeek, LocksExclude, CallsProgress
  <2>3. UNCHANGED <<loaded, ringVars, temp_entry, heap>>
    BY <1>12 DEF CallsSeek, heapVars
  <2> QED
    BY <2>1, <2>2, <2>3, RingStays
<1>13. CASE FindsPosition(p)
  <2>1. Types'
    BY <1>13 DEF FindsPosition, NoWriter, Leaves, heapVars
  <2>2. LocksExclude' /\ CallsProgress'
    BY <1>13 DEF FindsPosition, NoWriter, Leaves, LocksExclude, CallsProgress
  <2>3. UNCHANGED <<loaded, ringVars, temp_entry, heap>>
    BY <1>13 DEF FindsPosition, NoWriter, Leaves, heapVars
  <2> QED
    BY <2>1, <2>2, <2>3, RingStays
<1>14. CASE Seeks(p)
  <2>1. Types'
    BY <1>14 DEF Seeks, NoWriter, Leaves, heapVars
  <2>2. LocksExclude' /\ CallsProgress'
    BY <1>14 DEF Seeks, NoWriter, Leaves, LocksExclude, CallsProgress
  <2>3. UNCHANGED <<loaded, ringVars, temp_entry, heap>>
    BY <1>14 DEF Seeks, NoWriter, Leaves, heapVars
  <2> QED
    BY <2>1, <2>2, <2>3, RingStays
<1> QED
  BY <1>1, <1>2, <1>3, <1>4, <1>5, <1>6, <1>7, <1>8, <1>9, <1>10, <1>11, <1>12, <1>13, <1>14
-----------------------------------------------------------------------------
(* The steps of aesd_write that allocate and free.  The line begun moves   *)
(* from one block to another ...                                           *)
LEMMA MovedLineIsOwned ==
  ASSUME DriverInv, loaded, NEW q, NEW line, Reallocated(temp_entry.buffptr, q, line),
         temp_entry'.buffptr = q, UNCHANGED <<loaded, ringVars>>
  PROVE  /\ Ring!RingShape' /\ OneOwner'
         /\ q \in Ptr /\ q # NULL /\ heap' \subseteq Ptr
<1> USE DEF DriverInv, Types
<1>1. Ring!RingShape'
  BY DEF Ring!RingShape
<1>2. Ring!Held' = Ring!Held
  BY DEF Ring!Held
<1>3. temp_entry.buffptr \in Ptr \cup {NULL} /\ heap \subseteq Ptr
  OBVIOUS
<1>4. q \in Ptr /\ q # NULL
  BY <1>3, NullAssumption DEF Reallocated
<1>5. heap' = (heap \ {temp_entry.buffptr}) \cup {q}
  BY DEF Reallocated
<1>6. heap = Ring!Held \cup ({temp_entry.buffptr} \ {NULL}) /\ temp_entry.buffptr \notin Ring!Held
  BY DEF OneOwner
<1>7. q \notin Ring!Held
  BY <1>4, <1>6 DEF Reallocated
<1>8. heap' = Ring!Held' \cup ({temp_entry'.buffptr} \ {NULL})
  BY <1>2, <1>4, <1>5, <1>6, <1>7
<1>9. OneOwner'
  BY <1>2, <1>7, <1>8 DEF OneOwner
<1> QED
  BY <1>1, <1>3, <1>4, <1>5, <1>9

LEMMA AppendKeepsInv ==
  ASSUME DriverInv, NEW p \in Proc, WriteAppends(p) \/ WriteFaults(p)
  PROVE  DriverInv'
<1> USE DEF DriverInv, Types
<1>1. CASE WriteAppends(p)
  <2>1. PICK q \in Ptr :
          /\ Reallocated(temp_entry.buffptr, q, Append(LineBegun, chunk[p]))
          /\ temp_entry' = [buffptr |-> q, size |-> temp_entry.size + ChunkSize[chunk[p]]]
    BY <1>1 DEF WriteAppends
  <2>2. /\ Ring!RingShape' /\ OneOwner'
        /\ q \in Ptr /\ q # NULL /\ heap' \subseteq Ptr
    BY <1>1, <2>1, MovedLineIsOwned DEF WriteAppends
  <2>3. temp_entry' \in Slot /\ temp_entry'.buffptr # NULL
    <3>1. chunk[p] \in Chunk
      BY <1>1 DEF WriteAppends, CallsProgress
    <3>2. ChunkSize[chunk[p]] \in Nat
      BY <3>1, ChunkAssumption
    <3> QED
      BY <2>1, <2>2, <3>2
  <2>4. Types'
    BY <1>1, <2>2, <2>3 DEF WriteAppends, Leaves
  <2>5. LocksExclude' /\ CallsProgress'
    <3>1. LocksExclude'
      BY <1>1 DEF WriteAppends, Leaves, LocksExclude
    <3>2. CallsProgress'
      BY <1>1, <2>3 DEF WriteAppends, Leaves, CallsProgress
    <3> QED
      BY <3>1, <3>2
  <2> QED
    BY <2>2, <2>4, <2>5
<1>2. CASE WriteFaults(p)
  <2>1. PICK q \in Ptr :
          /\ Reallocated(temp_entry.buffptr, q, LineBegun)
          /\ temp_entry' = [temp_entry EXCEPT !.buffptr = q]
    BY <1>2 DEF WriteFaults
  <2>2. temp_entry' \in Slot /\ temp_entry'.buffptr = q
    BY <2>1
  <2>3. /\ Ring!RingShape' /\ OneOwner'
        /\ q \in Ptr /\ q # NULL /\ heap' \subseteq Ptr
    BY <1>2, <2>1, <2>2, MovedLineIsOwned DEF WriteFaults
  <2>4. Types'
    BY <1>2, <2>2, <2>3 DEF WriteFaults, Leaves
  <2>5. LocksExclude' /\ CallsProgress'
    <3>1. LocksExclude'
      BY <1>2 DEF WriteFaults, Leaves, LocksExclude
    <3>2. CallsProgress'
      BY <1>2, <2>2, <2>3 DEF WriteFaults, Leaves, CallsProgress
    <3> QED
      BY <3>1, <3>2
  <2> QED
    BY <2>3, <2>4, <2>5
<1> QED
  BY <1>1, <1>2

(* ... is given up ...                                                     *)
LEMMA NoMemoryKeepsInv ==
  ASSUME DriverInv, NEW p \in Proc, WriteFindsNoMemory(p)
  PROVE  DriverInv'
<1> USE DEF DriverInv, Types
<1>1. /\ loaded /\ loaded' /\ temp_entry' = NoEntry
      /\ heap' = heap \ {temp_entry.buffptr} /\ UNCHANGED ringVars
  BY DEF WriteFindsNoMemory, kfree
<1>2. Types'
  BY <1>1 DEF WriteFindsNoMemory, Leaves, NoEntry
<1>3. LocksExclude' /\ CallsProgress'
  BY <1>1 DEF WriteFindsNoMemory, Leaves, LocksExclude, CallsProgress
<1>4. Ring!RingShape' /\ Ring!Held' = Ring!Held
  BY <1>1 DEF Ring!RingShape, Ring!Held
<1>5. OneOwner'
  <2>1. NULL \notin Ring!Held /\ temp_entry'.buffptr = NULL
    BY <1>1 DEF Ring!Held, NoEntry
  <2>2. heap' = Ring!Held
    BY <1>1, <2>1 DEF OneOwner
  <2> QED
    BY <1>1, <1>4, <2>1, <2>2 DEF OneOwner
<1> QED
  BY <1>2, <1>3, <1>4, <1>5

(* ... or joins the ring, in the slot of the command that is freed.        *)
LEMMA AddKeepsInv ==
  ASSUME DriverInv, NEW p \in Proc, WriteAdds(p)
  PROVE  DriverInv'
<1> USE DEF DriverInv, Types
<1> DEFINE old == entry[in_offs].buffptr
<1> DEFINE new == temp_entry.buffptr
<1>1. /\ loaded /\ loaded' /\ temp_entry' = NoEntry
      /\ Ring!add_entry(temp_entry) /\ heap' = heap \ {returned_entry_buff_ptr'}
  BY DEF WriteAdds, kfree
<1>2. /\ in_offs \in 0 .. Ring!N - 1 /\ Ring!N \in Nat \ {0}
      /\ full => out_offs = in_offs
      /\ ~full => out_offs = 0
  BY RingNat DEF Ring!Index, Ring!RingShape
<1>3. (in_offs + 1) % Ring!N = IF in_offs + 1 = Ring!N THEN 0 ELSE in_offs + 1
  BY <1>2
<1>4. /\ in_offs' = IF in_offs + 1 = Ring!N THEN 0 ELSE in_offs + 1
      /\ out_offs' = IF full THEN in_offs' ELSE 0
      /\ full' = (full \/ in_offs + 1 = Ring!N)
  BY <1>1, <1>2, <1>3 DEF Ring!add_entry
<1>5. entry' = [entry EXCEPT ![in_offs] = temp_entry]
  BY <1>1 DEF Ring!add_entry
<1>6. new # NULL /\ new \notin Ring!Held
  BY <1>1 DEF WriteAdds, CallsProgress, OneOwner
<1>7. returned_entry_buff_ptr' = old
  <2>1. CASE full
    BY <1>1, <1>2, <2>1 DEF Ring!add_entry
  <2>2. CASE ~full
    <3>1. returned_entry_buff_ptr' = NULL
      BY <1>1, <2>2 DEF Ring!add_entry
    <3>2. old = NULL
      BY <1>2, <2>2 DEF Ring!RingShape, Ring!Index
    <3> QED
      BY <3>1, <3>2
  <2> QED
    BY <2>1, <2>2
<1>8. \A i \in Ring!Index :
        entry'[i].buffptr = IF i = in_offs THEN new ELSE entry[i].buffptr
  BY <1>5
<1>9. Types'
  <2>1. in_offs' \in Ring!Index /\ out_offs' \in Ring!Index
    BY <1>2, <1>4 DEF Ring!Index
  <2>2. entry' \in [Ring!Index -> Slot] /\ full' \in BOOLEAN
    BY <1>4, <1>5
  <2>3. temp_entry' \in Slot /\ heap' \subseteq Ptr
    BY <1>1 DEF NoEntry
  <2>4. pc' \in [Proc -> Pc] /\ chunk' \in [Proc -> Chunk \cup {NULL}]
    BY DEF WriteAdds, Leaves
  <2> QED
    BY <1>1, <2>1, <2>2, <2>3, <2>4
<1>10. LocksExclude' /\ CallsProgress'
  <2>1. \A q \in Proc : pc'[q] = IF q = p THEN "idle" ELSE pc[q]
    BY DEF WriteAdds, Leaves
  <2>2. \A q \in Proc : q # p => chunk'[q] = chunk[q]
    BY DEF WriteAdds, Leaves
  <2>3. \A q \in Proc : q # p => pc[q] \notin Writing
    BY DEF WriteAdds, LocksExclude
  <2>4. LocksExclude'
    BY <2>1 DEF LocksExclude
  <2> QED
    BY <1>1, <2>1, <2>2, <2>3, <2>4 DEF CallsProgress
<1>11. Ring!RingShape'
  <2>1. \A i \in Ring!Index : (full' \/ i < in_offs') <=> entry'[i].buffptr # NULL
    <3> TAKE i \in Ring!Index
    <3>1. CASE i = in_offs
      <4>1. entry'[i].buffptr # NULL
        BY <3>1, <1>6, <1>8
      <4>2. in_offs + 1 = Ring!N \/ i < in_offs'
        BY <3>1, <1>2, <1>4
      <4> QED
        BY <4>1, <4>2, <1>4
    <3>2. CASE i # in_offs
      <4>1. entry'[i].buffptr = entry[i].buffptr
        BY <3>2, <1>8
      <4>2. ~(in_offs + 1 = Ring!N) => (i < in_offs' <=> i < in_offs)
        BY <3>2, <1>2, <1>4 DEF Ring!Index
      <4>3. in_offs + 1 = Ring!N => i < in_offs
        BY <3>2, <1>2 DEF Ring!Index
      <4> QED
        BY <4>1, <4>2, <4>3, <1>4 DEF Ring!RingShape
    <3> QED
      BY <3>1, <3>2
  <2> QED
    BY <2>1, <1>2, <1>4 DEF Ring!RingShape
<1>12. OneOwner'
  <2>1. \A i \in Ring!Index : i # in_offs => entry[i].buffptr # old \/ old = NULL
    BY <1>1 DEF OneOwner
  <2>2. Ring!Held' = (Ring!Held \ {old}) \cup {new}
    <3>1. in_offs \in Ring!Index
      OBVIOUS
    <3>2. Ring!Held = {entry[i].buffptr : i \in Ring!Index} \ {NULL}
      BY DEF Ring!Held
    <3>3. Ring!Held' = {entry'[i].buffptr : i \in Ring!Index} \ {NULL}
      BY DEF Ring!Held
    <3> HIDE DEF old, new
    <3>4. ASSUME NEW a \in Ring!Held' PROVE a \in (Ring!Held \ {old}) \cup {new}
      <4>1. PICK i \in Ring!Index : a = entry'[i].buffptr /\ a # NULL
        BY <3>3
      <4> QED
        BY <4>1, <1>8, <2>1, <3>2
    <3>5. ASSUME NEW a \in (Ring!Held \ {old}) \cup {new} PROVE a \in Ring!Held'
      <4>1. CASE a = new
        BY <4>1, <3>1, <3>3, <1>6, <1>8
      <4>2. CASE a # new
        <5>1. PICK i \in Ring!Index : a = entry[i].buffptr /\ a # NULL /\ a # old
          BY <4>2, <3>2
        <5>2. i # in_offs
          BY <5>1 DEF old
        <5> QED
          BY <5>1, <5>2, <3>3, <1>8
      <4> QED
        BY <4>1, <4>2
    <3> QED
      BY <3>4, <3>5
  <2>3. temp_entry'.buffptr = NULL /\ NULL \notin Ring!Held'
    BY <1>1 DEF NoEntry, Ring!Held
  <2>4. heap = Ring!Held \cup {new}
    BY <1>1, <1>6 DEF OneOwner
  <2>5. heap' = Ring!Held'
    <3>1. old # new
      BY <1>6 DEF Ring!Held
    <3> QED
      BY <1>1, <1>7, <2>2, <2>4, <3>1
  <2>6. \A i, j \in Ring!Index :
          entry'[i].buffptr = entry'[j].buffptr /\ entry'[i].buffptr # NULL => i = j
    <3>1. \A i \in Ring!Index : entry[i].buffptr # new
      BY <1>6 DEF Ring!Held
    <3>2. \A i, j \in Ring!Index :
            entry[i].buffptr = entry[j].buffptr /\ entry[i].buffptr # NULL => i = j
      BY <1>1 DEF OneOwner
    <3> HIDE DEF new
    <3> QED
      BY <1>8, <3>1, <3>2
  <2> QED
    BY <1>1, <2>3, <2>5, <2>6 DEF OneOwner
<1> QED
  BY <1>9, <1>10, <1>11, <1>12
-----------------------------------------------------------------------------
LEMMA ModuleKeepsInv ==
  ASSUME DriverInv, Unload \/ Load
  PROVE  DriverInv'
<1> USE DEF DriverInv, Types
<1>1. CASE Unload
  <2>1. heap' = {}
    <3>1. heap' = heap \ ({entry[i].buffptr : i \in Ring!Index} \cup {temp_entry.buffptr})
      BY <1>1 DEF Unload, kfree
    <3>2. heap = Ring!Held \cup ({temp_entry.buffptr} \ {NULL})
      BY <1>1 DEF Unload, OneOwner
    <3> QED
      BY <3>1, <3>2 DEF Ring!Held
  <2>2. Types'
    BY <1>1, <2>1 DEF Unload
  <2>3. LocksExclude' /\ CallsProgress'
    BY <1>1 DEF Unload, LocksExclude, CallsProgress
  <2>4. Ring!RingShape'
    BY <1>1 DEF Unload, Ring!RingShape
  <2>5. OneOwner'
    BY <1>1, <2>1 DEF Unload, OneOwner
  <2> QED
    BY <2>2, <2>3, <2>4, <2>5
<1>2. CASE Load
  <2>1. /\ entry' = [k \in Ring!Index |-> NoEntry] /\ temp_entry' = NoEntry
        /\ in_offs' = 0 /\ out_offs' = 0 /\ full' = FALSE /\ loaded' = TRUE
    BY <1>2 DEF Load, Zeroed
  <2>2. heap' = {}
    BY <1>2 DEF Load, heapVars, OneOwner
  <2>3. Types'
    BY <1>2, <2>1, <2>2, RingNat DEF Load, NoEntry
  <2>4. LocksExclude' /\ CallsProgress'
    BY <1>2, <2>1 DEF Load, LocksExclude, CallsProgress
  <2>5. Ring!RingShape'
    BY <2>1 DEF Ring!RingShape, Ring!Index, NoEntry
  <2>6. OneOwner'
    BY <2>1, <2>2 DEF OneOwner, Ring!Held, NoEntry
  <2> QED
    BY <2>3, <2>4, <2>5, <2>6
<1> QED
  BY <1>1, <1>2

LEMMA StutterKeepsInv == DriverInv /\ UNCHANGED vars => DriverInv'
<1> SUFFICES ASSUME DriverInv, UNCHANGED vars PROVE DriverInv'
  OBVIOUS
<1>1. Types' /\ LocksExclude' /\ CallsProgress'
  BY DEF vars, heapVars, DriverInv, Types, LocksExclude, CallsProgress
<1>2. Ring!RingShape' /\ OneOwner'
  BY RingStays DEF vars, heapVars
<1> QED
  BY <1>1, <1>2 DEF DriverInv

LEMMA NextKeepsInv == DriverInv /\ [Next]_vars => DriverInv'
BY WaitsKeepInv, AppendKeepsInv, NoMemoryKeepsInv, AddKeepsInv, ModuleKeepsInv,
  StutterKeepsInv DEF Next

LEMMA InvAlways == Spec => []DriverInv
BY InitInv, NextKeepsInv, PTL DEF Spec

(* No block of memory is leaked, freed twice or used after it was freed,   *)
(* whatever fails and whoever is killed (main.c:214-228, 251-257,          *)
(* 328-355).                                                               *)
THEOREM MemoryHasOneOwner == Spec => []OneOwner
BY InvAlways, PTL DEF DriverInv

(* One process at a time works on the line begun, and none adds a command  *)
(* while another reads (main.c:160, 203, 244).                             *)
THEOREM LocksExcludeAlways == Spec => []LocksExclude
BY InvAlways, PTL DEF DriverInv

(* While a read copies command after command, no step of any process       *)
(* changes the ring: what it found stays where it found it                 *)
(* (main.c:160-186).                                                       *)
RingRests ==
  (\E p \in Proc : pc[p] = "copy") => UNCHANGED <<entry, in_offs, out_offs, full>>

LEMMA RingRestsInStep == DriverInv /\ [Next]_vars => RingRests
<1> SUFFICES ASSUME DriverInv, [Next]_vars, NEW r \in Proc, pc[r] = "copy"
             PROVE  UNCHANGED <<entry, in_offs, out_offs, full>>
  BY DEF RingRests
<1>1. \A p \in Proc : ~WriteAdds(p)
  BY DEF WriteAdds, DriverInv, LocksExclude
<1>2. ~Load
  BY DEF Load, DriverInv, CallsProgress
<1>3. CASE UNCHANGED vars
  BY <1>3 DEF vars
<1>4. CASE Unload
  BY <1>4 DEF Unload
<1>5. ASSUME NEW p \in Proc,
             \/ Opens(p) \/ Releases(p) \/ Killed(p) \/ CallsWrite(p) \/ WriteLocks(p)
             \/ WriteExcludesReaders(p) \/ CallsRead(p) \/ ReadLocks(p)
             \/ ReadCopies(p) \/ ReadEnds(p) \/ ReadFaults(p) \/ CallsSeek(p)
             \/ FindsPosition(p) \/ Seeks(p)
             \/ WriteAppends(p) \/ WriteFindsNoMemory(p) \/ WriteFaults(p)
      PROVE  UNCHANGED <<entry, in_offs, out_offs, full>>
  BY <1>5 DEF Opens, Releases, Killed, CallsWrite, WriteLocks, WriteExcludesReaders,
    CallsRead, ReadLocks, ReadCopies, ReadEnds, ReadFaults, CallsSeek,
    FindsPosition, Seeks, WriteAppends, WriteFindsNoMemory, WriteFaults
<1> QED
  BY <1>1, <1>2, <1>3, <1>4, <1>5 DEF Next

THEOREM RingRestsWhileRead == Spec => [][RingRests]_vars
BY RingRestsInStep, InvAlways, PTL DEF Spec
-----------------------------------------------------------------------------
RingLemmas == INSTANCE CircularBufferProofs WITH
                Sizes <- 1..MaxSize, returned <- returned_entry_buff_ptr

RingOK == Ring!TypeOK /\ Ring!RingShape

LEMMA MaxSizeNat == /\ MaxSize \in Nat
  /\ \E most \in Nat : (\A c \in Chunk : ChunkSize[c] <= most) /\ MaxSize = MaxLine * most
<1> DEFINE Most(m) == \A c \in Chunk : ChunkSize[c] <= m
           S == {ChunkSize[c] : c \in Chunk}
           most == CHOOSE m \in S : Most(m)
<1>1. \E m \in S : Most(m)
  BY LargestChunkAssumption
<1>2. most \in S /\ Most(most)
  <2> HIDE DEF S, Most
  <2> QED
    BY <1>1
<1>3. most \in Nat
  BY <1>2, ChunkAssumption
<1>4. MaxSize = MaxLine * most
  BY DEF MaxSize
<1> HIDE DEF most
<1> QED
  BY <1>2, <1>3, <1>4, OneMoreTimes, BoundsAssumption

LEMMA RingAssumptions ==
  /\ RingLemmas!N \in Nat \ {0}
  /\ NULL \notin Ptr
  /\ 1..MaxSize \subseteq Nat \ {0}
<1>1. RingLemmas!N \in Nat \ {0}
  BY BoundsAssumption DEF RingLemmas!N
<1>2. 1..MaxSize \subseteq Nat \ {0}
  BY MaxSizeNat
<1> QED
  BY <1>1, <1>2, NullAssumption

SameRing ==
  /\ RingLemmas!N = Ring!N /\ RingLemmas!Index = Ring!Index
  /\ RingLemmas!BufferEntry = Ring!BufferEntry /\ RingLemmas!NoEntry = Ring!NoEntry
  /\ RingLemmas!Count = Ring!Count /\ RingLemmas!Log = Ring!Log
  /\ RingLemmas!IInv = RingOK
  /\ \A i : RingLemmas!get_entry_by_offset(i) = Ring!get_entry_by_offset(i)
  /\ RingLemmas!SizeBefore = Ring!SizeBefore

LEMMA RingIsSame == SameRing
<1>1. RingLemmas!N = Ring!N
  BY DEF RingLemmas!N, Ring!N
<1>2. RingLemmas!Index = Ring!Index
  BY DEF RingLemmas!N, Ring!N, RingLemmas!Index, Ring!Index
<1>3. RingLemmas!BufferEntry = Ring!BufferEntry /\ RingLemmas!NoEntry = Ring!NoEntry
  BY DEF RingLemmas!BufferEntry, Ring!BufferEntry, RingLemmas!NoEntry, Ring!NoEntry
<1>4. RingLemmas!Count = Ring!Count
  BY DEF RingLemmas!N, Ring!N, RingLemmas!Count, Ring!Count
<1>5. RingLemmas!Log = Ring!Log
  BY <1>1, <1>4 DEF RingLemmas!Log, Ring!Log
<1>6. RingLemmas!IInv = RingOK
  BY <1>1, <1>2, <1>3 DEF RingLemmas!IInv, RingOK, RingLemmas!TypeOK, Ring!TypeOK, RingLemmas!RingShape, Ring!RingShape
<1>7. \A i : RingLemmas!get_entry_by_offset(i) = Ring!get_entry_by_offset(i)
  BY <1>1, <1>3 DEF RingLemmas!get_entry_by_offset, Ring!get_entry_by_offset
<1>8. RingLemmas!SizeBefore = Ring!SizeBefore
  BY <1>1, <1>7 DEF RingLemmas!SizeBefore, Ring!SizeBefore
<1> QED
  BY <1>1, <1>2, <1>3, <1>4, <1>5, <1>6, <1>7, <1>8 DEF SameRing
-----------------------------------------------------------------------------
LEMMA TimesMonotonic ==
  ASSUME NEW a \in Nat, NEW b \in Nat, NEW m \in Nat, a <= b
  PROVE  a * m <= b * m /\ a * m \in Nat
<1> DEFINE d == b - a
<1>1. d \in Nat /\ b = a + d
  OBVIOUS
<1> HIDE DEF d
<1>2. a * m \in Nat /\ d * m \in Nat
  BY <1>1
<1>3. (a + d) * m = a * m + d * m
  BY <1>1
<1> QED
  BY <1>1, <1>2, <1>3

(* What a block can hold, and how many bytes that is.                      *)
Lines == {line \in Seq(Chunk) : Len(line) <= MaxLine}

ChunkSizes(line) == [i \in 0 .. Len(line)-1 |-> ChunkSize[line[i+1]]]
AddsUp(f, line) ==
  /\ f \in [0..Len(line) -> Nat] /\ f[0] = 0
  /\ Sums(f, ChunkSizes(line), Len(line)) /\ LineSize(line) = f[Len(line)]
  /\ \A i \in 0 .. Len(line)-1 :
       /\ ChunkSizes(line)[i] = ChunkSize[line[i+1]]
       /\ ChunkSize[line[i+1]] \in Nat \ {0}
       /\ f[i+1] = f[i] + ChunkSize[line[i+1]]

LEMMA LineSums ==
  ASSUME NEW line \in Seq(Chunk)
  PROVE  \E f : AddsUp(f, line)
<1> DEFINE size == ChunkSizes(line)
           Defines(f) == f = [n \in 0..Len(line) |-> IF n = 0 THEN 0 ELSE f[n-1] + ChunkSize[line[n]]]
           F == CHOOSE f : Defines(f)
<1>1. Len(line) \in Nat /\ \A i \in 1..Len(line) : line[i] \in Chunk
  BY LenProperties, ElementOfSeq
<1>2. \A i \in 0 .. Len(line)-1 : size[i] \in Nat \ {0} /\ size[i] = ChunkSize[line[i+1]]
  <2> TAKE i \in 0 .. Len(line)-1
  <2>1. i+1 \in 1..Len(line)
    BY <1>1
  <2> QED
    BY <1>1, <2>1, ChunkAssumption DEF ChunkSizes
<1>3. \A f : Sums(f, size, Len(line)) <=> Defines(f)
  <2>1. \A n \in 0..Len(line) : n # 0 => size[n-1] = ChunkSize[line[n]]
    <3> TAKE n \in 0..Len(line)
    <3> HAVE n # 0
    <3>1. n-1 \in 0 .. Len(line)-1 /\ (n-1)+1 = n
      BY <1>1
    <3> QED
      BY <1>2, <3>1
  <2> HIDE DEF size
  <2> QED
    BY <2>1 DEF Sums
<1>4. LineSize(line) = F[Len(line)]
  BY DEF LineSize
<1> HIDE DEF size, Defines
<1>5. \E f : Defines(f)
  <2>1. \A i \in 0 .. Len(line)-1 : size[i] \in Nat
    BY <1>2
  <2> QED
    BY <1>1, <1>3, <2>1, SumsExist
<1>6. Sums(F, size, Len(line))
  BY <1>3, <1>5
<1> HIDE DEF F
<1>7. /\ F \in [0..Len(line) -> Nat] /\ F[0] = 0
      /\ \A i \in 0 .. Len(line)-1 : F[i+1] = F[i] + size[i]
  <2>1. \A i \in 0 .. Len(line)-1 : size[i] \in Nat
    BY <1>2
  <2> QED
    BY <1>1, <1>6, <2>1, SumsType
<1>8. \A i \in 0 .. Len(line)-1 :
        /\ size[i] = ChunkSize[line[i+1]] /\ ChunkSize[line[i+1]] \in Nat \ {0}
        /\ F[i+1] = F[i] + ChunkSize[line[i+1]]
  BY <1>2, <1>7
<1>9. AddsUp(F, line)
  BY <1>4, <1>6, <1>7, <1>8 DEF AddsUp, size
<1> QED
  BY <1>9

LEMMA LineSizeEmpty == LineSize(<<>>) = 0
<1>1. <<>> \in Seq(Chunk) /\ Len(<<>>) = 0
  BY EmptySeq
<1> QED
  BY <1>1, LineSums DEF AddsUp

LEMMA LineSizeAppend ==
  ASSUME NEW line \in Seq(Chunk), NEW c \in Chunk
  PROVE  LineSize(Append(line, c)) = LineSize(line) + ChunkSize[c]
<1> DEFINE more == Append(line, c)
           n == Len(line)
           m == n + 1
<1>1. /\ more \in Seq(Chunk) /\ Len(more) = m /\ n \in Nat /\ more[m] = c
      /\ \A i \in 1..n : more[i] = line[i]
  BY AppendProperties, LenProperties
<1> HIDE DEF more
<1>2. PICK f : AddsUp(f, line)
  BY LineSums
<1>3. PICK g : AddsUp(g, more)
  BY <1>1, LineSums
<1>4. ASSUME NEW i \in 0 .. n-1 PROVE ChunkSizes(line)[i] = ChunkSizes(more)[i]
  <2>1. i+1 \in 1..n /\ i \in 0 .. Len(more)-1
    BY <1>1
  <2> QED
    BY <1>1, <1>2, <1>3, <2>1 DEF AddsUp
<1>5. f[n] = g[n]
  <2>1. m \in Nat /\ n <= m
    BY <1>1
  <2>2. Sums(f, ChunkSizes(line), n) /\ Sums(g, ChunkSizes(more), m)
    BY <1>1, <1>2, <1>3 DEF AddsUp
  <2> HIDE DEF m, n
  <2> QED
    BY ONLY <1>1, <1>4, <2>1, <2>2, SumsAgree
<1>6. g[m] = g[n] + ChunkSize[c]
  <2>1. n \in 0 .. Len(more)-1 /\ n+1 = m
    BY <1>1
  <2>2. g[n+1] = g[n] + ChunkSize[more[n+1]]
    BY <1>3, <2>1 DEF AddsUp
  <2> QED
    BY <1>1, <2>1, <2>2
<1>7. LineSize(line) = f[n] /\ LineSize(more) = g[m]
  BY <1>1, <1>2, <1>3 DEF AddsUp
<1> QED
  BY <1>5, <1>6, <1>7 DEF more

LEMMA LineSizeBounds ==
  ASSUME NEW line \in Lines
  PROVE  LineSize(line) \in 0..MaxSize /\ (line # <<>> => LineSize(line) \in 1..MaxSize)
<1> DEFINE n == Len(line)
<1>1. line \in Seq(Chunk) /\ n \in Nat /\ n <= MaxLine
      /\ \A i \in 1..n : line[i] \in Chunk
  BY LenProperties, ElementOfSeq DEF Lines
<1>0. PICK f : AddsUp(f, line)
  BY <1>1, LineSums
<1>2. /\ f \in [0..n -> Nat] /\ LineSize(line) = f[n] /\ f[0] = 0
      /\ \A i \in 0 .. n-1 : /\ f[i+1] = f[i] + ChunkSize[line[i+1]]
                             /\ ChunkSize[line[i+1]] \in Nat \ {0}
  BY <1>0 DEF AddsUp
<1>3. PICK most \in Nat : (\A c \in Chunk : ChunkSize[c] <= most) /\ MaxSize = MaxLine * most
  BY MaxSizeNat
<1>4. \A i \in 0 .. n-1 : f[i+1] <= f[i] + most
  <2> TAKE i \in 0 .. n-1
  <2> DEFINE j == i + 1
             size == ChunkSize[line[j]]
  <2>1. j \in 1..n /\ i \in 0..n
    BY <1>1
  <2>2. f[j] = f[i] + size /\ size \in Nat /\ f[i] \in Nat
    BY <1>2, <2>1
  <2>3. size <= most
    BY <1>1, <1>3, <2>1
  <2> HIDE DEF j, size
  <2>4. f[j] <= f[i] + most
    BY <2>2, <2>3
  <2> QED
    BY <2>4 DEF j
<1>5. f[n] <= n * most
  <2>1. n \in 0..n
    BY <1>1
  <2> HIDE DEF n
  <2> QED
    BY <1>1, <1>2, <1>4, <2>1, SumsBounded
<1>6. n * most <= MaxSize /\ n * most \in Nat
  <2> HIDE DEF n
  <2> QED
    BY <1>1, <1>3, TimesMonotonic, BoundsAssumption
<1>7. f[n] \in Nat /\ f[n] <= MaxSize
  <2> DEFINE times == n * most
  <2>1. f[n] \in Nat /\ f[n] <= times /\ times <= MaxSize /\ times \in Nat /\ MaxSize \in Nat
    BY <1>1, <1>2, <1>5, <1>6, MaxSizeNat
  <2> HIDE DEF times
  <2> QED
    BY <2>1
<1>8. line # <<>> => f[n] # 0
  <2> HAVE line # <<>>
  <2> DEFINE k == n - 1
             size == ChunkSize[line[k+1]]
  <2>1. k \in 0 .. n-1 /\ k \in 0..n /\ k + 1 = n
    BY <1>1, EmptySeq
  <2>2. f[k+1] = f[k] + size /\ size \in Nat \ {0} /\ f[k] \in Nat
    BY <1>2, <2>1
  <2> HIDE DEF k, size
  <2>3. f[n] = f[k] + size
    BY <2>1, <2>2
  <2> QED
    BY <2>2, <2>3
<1> QED
  BY <1>2, <1>7, <1>8, MaxSizeNat
-----------------------------------------------------------------------------
(* What the ring does for the driver.                                      *)
LEMMA RingContents ==
  ASSUME RingOK
  PROVE  /\ Ring!N \in Nat \ {0} /\ Ring!Count \in 0..Ring!N
         /\ Ring!Log \in Seq(Ring!BufferEntry) /\ Len(Ring!Log) = Ring!Count
         /\ \A i \in 1..Ring!Count : /\ RingLemmas!Slot(i) \in Ring!Index
                                     /\ Ring!Log[i] = entry[RingLemmas!Slot(i)]
<1>1. RingLemmas!IInv /\ SameRing
  BY RingIsSame DEF SameRing
<1>2. RingLemmas!LogIsQueue
  BY <1>1, RingAssumptions, RingLemmas!LogContents
<1> QED
  BY <1>1, <1>2, RingNat DEF RingLemmas!LogIsQueue, SameRing

LEMMA RingTakes ==
  ASSUME RingOK, NEW add \in Ring!BufferEntry, Ring!add_entry(add)
  PROVE  /\ RingOK'
         /\ Ring!Log' = Append(IF Len(Ring!Log) = Ring!N THEN Tail(Ring!Log) ELSE Ring!Log, add)
         /\ returned_entry_buff_ptr' =
              IF Len(Ring!Log) = Ring!N THEN Head(Ring!Log).buffptr ELSE NULL
<1>1. RingLemmas!IInv /\ add \in RingLemmas!BufferEntry
  BY RingIsSame DEF SameRing
<1>2. RingLemmas!add_entry(add)
  BY RingIsSame DEF SameRing, RingLemmas!add_entry, Ring!add_entry
<1>3. SameRing /\ SameRing'
  BY RingIsSame, PTL
<1>4. RingOK'
  <2>1. RingLemmas!IInv'
    BY <1>1, <1>2, RingAssumptions, RingLemmas!AddInv
  <2> QED
    BY <1>3, <2>1 DEF SameRing
<1>5. RingLemmas!Abstract!AddWithRoom(add) \/ RingLemmas!Abstract!AddEvicting(add)
  <2>1. CASE full
    BY <1>1, <1>2, <2>1, RingAssumptions, RingLemmas!AddEvicts
  <2>2. CASE ~full
    BY <1>1, <1>2, <2>2, RingAssumptions, RingLemmas!AddAppends
  <2> QED
    BY <2>1, <2>2
<1>6. Len(Ring!Log) \in 0..Ring!N /\ Ring!N \in Nat
  BY RingContents
<1> QED
  BY <1>3, <1>4, <1>5, <1>6
  DEF SameRing, RingLemmas!Abstract!AddWithRoom, RingLemmas!Abstract!AddEvicting
-----------------------------------------------------------------------------
(* What is stored.  The blocks hold lines of bounded length, their sizes   *)
(* are recorded, and a line on its way to the ring is complete.            *)
Adding == {"down_write", "add"}
LineComplete ==
  \A p \in Proc : pc[p] \in Adding => LineBegun # <<>> /\ Last(LineBegun) \in EndsLine

StoredInv ==
  /\ Ring!TypeOK
  /\ temp_entry.size \in 0..MaxSize
  /\ data \in [Ptr -> Lines]
  /\ SizesMatch
  /\ LineComplete

LEMMA LineBegunIsLine ==
  ASSUME DriverInv, data \in [Ptr -> Lines]
  PROVE  LineBegun \in Lines
<1>1. <<>> \in Lines
  BY EmptySeq, BoundsAssumption DEF Lines
<1>2. temp_entry.buffptr \in Ptr \cup {NULL}
  BY DEF DriverInv, Types
<1> QED
  BY <1>1, <1>2 DEF LineBegun

LEMMA StoredInit == Init => StoredInv
<1> SUFFICES ASSUME Init PROVE StoredInv
  OBVIOUS
<1>1. /\ entry = [k \in Ring!Index |-> NoEntry] /\ temp_entry = NoEntry
      /\ in_offs = 0 /\ out_offs = 0 /\ full = FALSE
  BY DEF Init, Zeroed
<1>2. Ring!TypeOK
  BY <1>1, RingNat DEF Init, Ring!TypeOK, NoEntry, Ring!NoEntry
<1>3. temp_entry.size \in 0..MaxSize
  BY <1>1, MaxSizeNat DEF NoEntry
<1>4. data \in [Ptr -> Lines]
  <2>1. <<>> \in Lines
    BY EmptySeq, BoundsAssumption DEF Lines
  <2> QED
    BY <2>1 DEF Init
<1>5. SizesMatch
  BY <1>1, LineSizeEmpty DEF SizesMatch, LineBegun, NoEntry
<1>6. LineComplete
  BY DEF Init, LineComplete, Adding
<1> QED
  BY <1>2, <1>3, <1>4, <1>5, <1>6 DEF StoredInv

LEMMA StoredStays ==
  ASSUME StoredInv, UNCHANGED <<loaded, ringVars, temp_entry, heapVars>>,
         \A r \in Proc : pc'[r] \in Adding => pc[r] \in Adding
  PROVE  StoredInv'
<1>1. Ring!TypeOK'
  BY DEF StoredInv, Ring!TypeOK
<1>2. LineBegun' = LineBegun
  BY DEF LineBegun, heapVars
<1>3. SizesMatch'
  BY <1>2 DEF StoredInv, SizesMatch, heapVars
<1>4. LineComplete'
  BY <1>2 DEF StoredInv, LineComplete
<1> QED
  BY <1>1, <1>3, <1>4 DEF StoredInv, heapVars

Waits(p) ==
  \/ Opens(p) \/ Releases(p) \/ Killed(p) \/ CallsWrite(p) \/ WriteLocks(p)
  \/ WriteExcludesReaders(p) \/ CallsRead(p) \/ ReadLocks(p) \/ ReadCopies(p)
  \/ ReadEnds(p) \/ ReadFaults(p) \/ CallsSeek(p) \/ FindsPosition(p) \/ Seeks(p)

LEMMA WaitsKeepMemory ==
  ASSUME DriverInv, NEW p \in Proc, Waits(p)
  PROVE  /\ UNCHANGED <<loaded, ringVars, temp_entry, heapVars>>
         /\ \A r \in Proc : pc'[r] \in Adding => pc[r] \in Adding
<1> USE DEF DriverInv, Types, Adding
<1>1. CASE Opens(p) \/ Releases(p) \/ Killed(p) \/ CallsWrite(p) \/ WriteLocks(p)
  BY <1>1 DEF Opens, Releases, Killed, CallsWrite, WriteLocks, Leaves
<1>2. CASE WriteExcludesReaders(p) \/ CallsRead(p) \/ ReadLocks(p) \/ CallsSeek(p)
  BY <1>2 DEF WriteExcludesReaders, CallsRead, ReadLocks, CallsSeek
<1>3. CASE ReadCopies(p) \/ ReadEnds(p) \/ ReadFaults(p)
  BY <1>3 DEF ReadCopies, ReadEnds, ReadFaults, Leaves
<1>4. CASE FindsPosition(p) \/ Seeks(p)
  BY <1>4 DEF FindsPosition, Seeks, Leaves
<1> QED
  BY <1>1, <1>2, <1>3, <1>4 DEF Waits

LEMMA MovedLineIsStored ==
  ASSUME DriverInv, StoredInv, loaded, NEW q \in Ptr, NEW line \in Lines,
         Reallocated(temp_entry.buffptr, q, line), temp_entry'.buffptr = q,
         UNCHANGED <<loaded, ringVars>>
  PROVE  /\ Ring!TypeOK' /\ data' \in [Ptr -> Lines] /\ LineBegun' = line
         /\ \A i \in Ring!Index : entry[i].buffptr # NULL =>
              data'[entry[i].buffptr] = data[entry[i].buffptr]
<1>1. q \notin Ring!Held /\ q # NULL
  <2>1. heap = Ring!Held \cup ({temp_entry.buffptr} \ {NULL})
        /\ temp_entry.buffptr \notin Ring!Held
    BY DEF DriverInv, OneOwner
  <2> QED
    BY <2>1, NullAssumption DEF Reallocated
<1>2. data' = [r \in Ptr |-> IF r = q THEN line ELSE IF r = temp_entry.buffptr THEN <<>> ELSE data[r]]
  BY DEF Reallocated
<1>3. <<>> \in Lines
  BY EmptySeq, BoundsAssumption DEF Lines
<1>4. data' \in [Ptr -> Lines] /\ data'[q] = line
  BY <1>2, <1>3 DEF StoredInv
<1>5. LineBegun' = line
  BY <1>1, <1>4 DEF LineBegun
<1>6. ASSUME NEW i \in Ring!Index, entry[i].buffptr # NULL
      PROVE  data'[entry[i].buffptr] = data[entry[i].buffptr]
  <2>1. entry[i].buffptr \in Ring!Held /\ entry[i].buffptr \in Ptr
    BY <1>6 DEF Ring!Held, DriverInv, Types
  <2>2. temp_entry.buffptr \notin Ring!Held
    BY DEF DriverInv, OneOwner
  <2> QED
    BY <1>1, <1>2, <2>1, <2>2
<1>7. Ring!TypeOK'
  BY DEF StoredInv, Ring!TypeOK
<1> QED
  BY <1>4, <1>5, <1>6, <1>7

LEMMA AppendedLine ==
  ASSUME DriverInv, StoredInv, NEW p \in Proc, WriteAppends(p)
  PROVE  /\ chunk[p] \in Chunk /\ LineBegun \in Seq(Chunk)
         /\ Append(LineBegun, chunk[p]) \in Lines
         /\ LineSize(Append(LineBegun, chunk[p])) = LineSize(LineBegun) + ChunkSize[chunk[p]]
<1>1. chunk[p] \in Chunk
  BY DEF WriteAppends, DriverInv, CallsProgress
<1>2. LineBegun \in Seq(Chunk) /\ Len(LineBegun) \in Nat /\ Len(LineBegun) < MaxLine
  BY LineBegunIsLine, LenProperties DEF StoredInv, Lines, WriteAppends
<1>3. /\ Append(LineBegun, chunk[p]) \in Seq(Chunk)
      /\ Len(Append(LineBegun, chunk[p])) = Len(LineBegun) + 1
  BY <1>1, <1>2, AppendProperties
<1>4. Append(LineBegun, chunk[p]) \in Lines
  BY <1>2, <1>3, BoundsAssumption DEF Lines
<1> QED
  BY <1>1, <1>2, <1>4, LineSizeAppend

LEMMA AppendKeepsStored ==
  ASSUME DriverInv, StoredInv, NEW p \in Proc, WriteAppends(p)
  PROVE  StoredInv'
<1> DEFINE line == Append(LineBegun, chunk[p])
<1>1. PICK q \in Ptr :
        /\ Reallocated(temp_entry.buffptr, q, line)
        /\ temp_entry' = [buffptr |-> q, size |-> temp_entry.size + ChunkSize[chunk[p]]]
  BY DEF WriteAppends
<1>2. loaded /\ UNCHANGED <<loaded, ringVars>>
  BY DEF WriteAppends
<1>3. /\ line \in Lines /\ LineSize(line) = LineSize(LineBegun) + ChunkSize[chunk[p]]
      /\ chunk[p] \in Chunk /\ LineBegun \in Seq(Chunk)
  BY AppendedLine
<1>4. line # <<>> /\ Last(line) = chunk[p]
  <2>1. Len(line) = Len(LineBegun) + 1 /\ Len(LineBegun) \in Nat /\ line[Len(LineBegun) + 1] = chunk[p]
    BY <1>3, AppendProperties, LenProperties
  <2> HIDE DEF line
  <2>2. line # <<>>
    BY <2>1, EmptySeq
  <2> QED
    BY <2>1, <2>2 DEF Last
<1> HIDE DEF line
<1>5. /\ Ring!TypeOK' /\ data' \in [Ptr -> Lines] /\ LineBegun' = line
      /\ \A i \in Ring!Index : entry[i].buffptr # NULL =>
           data'[entry[i].buffptr] = data[entry[i].buffptr]
  <2>1. temp_entry'.buffptr = q
    BY <1>1
  <2> QED
    BY <1>1, <1>2, <1>3, <2>1, MovedLineIsStored
<1>6. temp_entry'.size = LineSize(line)
  BY <1>1, <1>2, <1>3 DEF StoredInv, SizesMatch
<1>7. temp_entry'.size \in 0..MaxSize
  BY <1>3, <1>6, LineSizeBounds
<1>8. SizesMatch'
  BY <1>2, <1>5, <1>6 DEF SizesMatch, StoredInv
<1>9. LineComplete'
  <2>1. CASE chunk[p] \in EndsLine
    BY <1>4, <1>5, <2>1 DEF LineComplete
  <2>2. CASE chunk[p] \notin EndsLine
    <3>1. \A r \in Proc : pc'[r] \notin Adding
      BY <2>2 DEF WriteAppends, Leaves, DriverInv, Types, LocksExclude, Adding
    <3> QED
      BY <3>1 DEF LineComplete
  <2> QED
    BY <2>1, <2>2
<1> QED
  BY <1>5, <1>7, <1>8, <1>9 DEF StoredInv

LEMMA FaultKeepsStored ==
  ASSUME DriverInv, StoredInv, NEW p \in Proc, WriteFaults(p)
  PROVE  StoredInv' /\ LineBegun' = LineBegun
<1>1. PICK q \in Ptr :
        /\ Reallocated(temp_entry.buffptr, q, LineBegun)
        /\ temp_entry' = [temp_entry EXCEPT !.buffptr = q]
  BY DEF WriteFaults
<1>2. loaded /\ UNCHANGED <<loaded, ringVars>>
  BY DEF WriteFaults
<1>3. temp_entry'.buffptr = q /\ temp_entry'.size = temp_entry.size
  BY <1>1 DEF DriverInv, Types
<1>4. LineBegun \in Lines
  BY LineBegunIsLine DEF StoredInv
<1>5. /\ Ring!TypeOK' /\ data' \in [Ptr -> Lines] /\ LineBegun' = LineBegun
      /\ \A i \in Ring!Index : entry[i].buffptr # NULL =>
           data'[entry[i].buffptr] = data[entry[i].buffptr]
  BY <1>1, <1>2, <1>3, <1>4, MovedLineIsStored
<1>6. SizesMatch'
  BY <1>2, <1>3, <1>5 DEF SizesMatch, StoredInv
<1>7. LineComplete'
  <2>1. \A r \in Proc : pc'[r] \notin Adding
    BY DEF WriteFaults, Leaves, DriverInv, Types, LocksExclude, Adding
  <2> QED
    BY <2>1 DEF LineComplete
<1> QED
  BY <1>3, <1>5, <1>6, <1>7 DEF StoredInv

(* Freeing blocks no command of the ring is in leaves the commands alone.  *)
LEMMA NoMemoryKeepsStored ==
  ASSUME DriverInv, StoredInv, NEW p \in Proc, WriteFindsNoMemory(p)
  PROVE  /\ StoredInv' /\ LineBegun' = <<>>
         /\ \A i \in Ring!Index : entry[i].buffptr # NULL =>
              data'[entry[i].buffptr] = data[entry[i].buffptr]
<1>1. /\ loaded /\ UNCHANGED <<loaded, ringVars>> /\ temp_entry' = NoEntry
      /\ data' = [r \in Ptr |-> IF r \in {temp_entry.buffptr} THEN <<>> ELSE data[r]]
  BY DEF WriteFindsNoMemory, kfree
<1>2. <<>> \in Lines
  BY EmptySeq, BoundsAssumption DEF Lines
<1>3. data' \in [Ptr -> Lines] /\ LineBegun' = <<>>
  BY <1>1, <1>2 DEF StoredInv, LineBegun, NoEntry
<1>4. ASSUME NEW i \in Ring!Index, entry[i].buffptr # NULL
      PROVE  data'[entry[i].buffptr] = data[entry[i].buffptr]
  <2>1. entry[i].buffptr \in Ring!Held /\ entry[i].buffptr \in Ptr
    BY <1>4 DEF Ring!Held, DriverInv, Types
  <2>2. temp_entry.buffptr \notin Ring!Held
    BY <1>1 DEF DriverInv, OneOwner
  <2> QED
    BY <1>1, <2>1, <2>2
<1>5. temp_entry'.size = 0 /\ temp_entry'.size \in 0..MaxSize
  BY <1>1, MaxSizeNat DEF NoEntry
<1>6. SizesMatch'
  BY <1>1, <1>3, <1>4, <1>5, LineSizeEmpty DEF SizesMatch, StoredInv
<1>7. LineComplete'
  <2>1. \A r \in Proc : pc'[r] \notin Adding
    BY DEF WriteFindsNoMemory, Leaves, DriverInv, Types, LocksExclude, Adding
  <2> QED
    BY <2>1 DEF LineComplete
<1>8. Ring!TypeOK'
  BY <1>1 DEF StoredInv, Ring!TypeOK
<1> QED
  BY <1>3, <1>4, <1>5, <1>6, <1>7, <1>8 DEF StoredInv

(* The command added is one the ring expects, and only the block of the    *)
(* command it displaces is emptied.                                        *)
LEMMA AddedCommand ==
  ASSUME DriverInv, StoredInv, NEW p \in Proc, WriteAdds(p)
  PROVE  /\ temp_entry \in Ring!BufferEntry /\ temp_entry.buffptr \notin Ring!Held
         /\ LineBegun = data[temp_entry.buffptr] /\ temp_entry.size = LineSize(LineBegun)
         /\ data' \in [Ptr -> Lines]
         /\ data'[temp_entry.buffptr] = data[temp_entry.buffptr]
         /\ \A i \in Ring!Index : i # in_offs /\ entry[i].buffptr # NULL =>
              data'[entry[i].buffptr] = data[entry[i].buffptr]
<1> DEFINE new == temp_entry.buffptr
           old == returned_entry_buff_ptr'
<1>1. /\ loaded /\ pc[p] = "add" /\ Ring!add_entry(temp_entry)
      /\ data' = [r \in Ptr |-> IF r \in {old} THEN <<>> ELSE data[r]]
  BY DEF WriteAdds, kfree
<1>2. new # NULL /\ new \in Ptr /\ new \notin Ring!Held
  BY <1>1 DEF DriverInv, Types, CallsProgress, OneOwner
<1>3. LineBegun = data[new] /\ temp_entry.size = LineSize(LineBegun)
  BY <1>1, <1>2 DEF LineBegun, StoredInv, SizesMatch
<1>4. LineBegun \in Lines /\ LineBegun # <<>>
  BY <1>1, LineBegunIsLine DEF StoredInv, LineComplete, Adding
<1>5. temp_entry.size \in 1..MaxSize
  BY <1>3, <1>4, LineSizeBounds
<1>6. temp_entry = [buffptr |-> temp_entry.buffptr, size |-> temp_entry.size]
  BY DEF DriverInv, Types
<1>7. temp_entry \in Ring!BufferEntry
  BY <1>2, <1>5, <1>6 DEF Ring!BufferEntry
<1>8. old = NULL \/ old = entry[in_offs].buffptr
  <2>1. full => in_offs = out_offs
    BY DEF DriverInv, Ring!RingShape
  <2> QED
    BY <1>1, <2>1 DEF Ring!add_entry
<1>9. in_offs \in Ring!Index
  BY DEF DriverInv, Types
<1> HIDE DEF new, old
<1>10. data' \in [Ptr -> Lines]
  <2>1. <<>> \in Lines
    BY EmptySeq, BoundsAssumption DEF Lines
  <2> QED
    BY <1>1, <2>1 DEF StoredInv
<1>11. data'[new] = data[new]
  <2>1. new # old
    BY <1>2, <1>8, <1>9 DEF Ring!Held
  <2> QED
    BY <1>1, <1>2, <2>1
<1>12. ASSUME NEW i \in Ring!Index, i # in_offs, entry[i].buffptr # NULL
       PROVE  data'[entry[i].buffptr] = data[entry[i].buffptr]
  <2>1. entry[i].buffptr \in Ptr
    BY <1>12 DEF DriverInv, Types
  <2>2. entry[i].buffptr # entry[in_offs].buffptr
    BY <1>1, <1>9, <1>12 DEF DriverInv, OneOwner
  <2>3. entry[i].buffptr # old
    BY <1>8, <1>12, <2>2
  <2> QED
    BY <1>1, <2>1, <2>3
<1> QED
  BY <1>2, <1>3, <1>7, <1>10, <1>11, <1>12 DEF new

LEMMA AddKeepsStored ==
  ASSUME DriverInv, StoredInv, NEW p \in Proc, WriteAdds(p)
  PROVE  StoredInv'
<1>1. loaded /\ temp_entry' = NoEntry /\ Ring!add_entry(temp_entry)
  BY DEF WriteAdds
<1>2. RingOK /\ temp_entry \in Ring!BufferEntry
  BY AddedCommand DEF RingOK, DriverInv, StoredInv
<1>3. Ring!TypeOK'
  BY <1>1, <1>2, RingTakes DEF RingOK
<1>4. temp_entry'.size = 0 /\ temp_entry'.size \in 0..MaxSize /\ LineBegun' = <<>>
  BY <1>1, MaxSizeNat DEF NoEntry, LineBegun
<1>5. ASSUME NEW i \in Ring!Index, entry'[i].buffptr # NULL
      PROVE  entry'[i].size = LineSize(data'[entry'[i].buffptr])
  <2>1. entry' = [entry EXCEPT ![in_offs] = temp_entry]
    BY <1>1 DEF Ring!add_entry
  <2>2. CASE i = in_offs
    <3>1. entry'[i] = temp_entry
      BY <2>1, <2>2 DEF DriverInv, Types
    <3> QED
      BY <3>1, AddedCommand
  <2>3. CASE i # in_offs
    <3>1. entry'[i] = entry[i]
      BY <2>1, <2>3 DEF DriverInv, Types
    <3>2. data'[entry[i].buffptr] = data[entry[i].buffptr]
      BY <1>5, <2>3, <3>1, AddedCommand
    <3>3. entry[i].size = LineSize(data[entry[i].buffptr])
      BY <1>1, <1>5, <3>1 DEF StoredInv, SizesMatch
    <3> QED
      BY <3>1, <3>2, <3>3
  <2> QED
    BY <2>2, <2>3
<1>6. SizesMatch'
  BY <1>4, <1>5, LineSizeEmpty DEF SizesMatch
<1>7. LineComplete'
  <2>1. \A r \in Proc : pc'[r] \notin Adding
    BY DEF WriteAdds, Leaves, DriverInv, Types, LocksExclude, Adding
  <2> QED
    BY <2>1 DEF LineComplete
<1> QED
  BY <1>3, <1>4, <1>6, <1>7, AddedCommand DEF StoredInv

LEMMA ModuleKeepsStored ==
  ASSUME DriverInv, StoredInv, Unload \/ Load
  PROVE  StoredInv'
<1>1. CASE Unload
  <2>1. /\ loaded' = FALSE /\ UNCHANGED <<ringVars, temp_entry, pc>>
        /\ \A r \in Proc : pc[r] = "closed"
    BY <1>1 DEF Unload
  <2>2. data' \in [Ptr -> Lines]
    <3>1. <<>> \in Lines
      BY EmptySeq, BoundsAssumption DEF Lines
    <3> QED
      BY <1>1, <3>1 DEF Unload, kfree, StoredInv
  <2>3. Ring!TypeOK'
    BY <2>1 DEF StoredInv, Ring!TypeOK
  <2>4. LineComplete' /\ SizesMatch'
    BY <2>1 DEF LineComplete, SizesMatch, Adding
  <2> QED
    BY <2>1, <2>2, <2>3, <2>4 DEF StoredInv
<1>2. CASE Load
  <2>1. /\ entry' = [k \in Ring!Index |-> NoEntry] /\ temp_entry' = NoEntry
        /\ in_offs' = 0 /\ out_offs' = 0 /\ full' = FALSE
        /\ UNCHANGED <<returned_entry_buff_ptr, data, pc>>
        /\ \A r \in Proc : pc[r] = "closed"
    BY <1>2 DEF Load, Zeroed, heapVars, DriverInv, CallsProgress
  <2>2. Ring!TypeOK'
    BY <2>1, RingNat DEF StoredInv, Ring!TypeOK, NoEntry, Ring!NoEntry
  <2>3. temp_entry'.size \in 0..MaxSize
    BY <2>1, MaxSizeNat DEF NoEntry
  <2>4. LineComplete'
    BY <2>1 DEF LineComplete, Adding
  <2>5. SizesMatch'
    BY <2>1, LineSizeEmpty DEF SizesMatch, LineBegun, NoEntry
  <2> QED
    BY <2>1, <2>2, <2>3, <2>4, <2>5 DEF StoredInv
<1> QED
  BY <1>1, <1>2

LEMMA NextKeepsStored == DriverInv /\ StoredInv /\ [Next]_vars => StoredInv'
<1> SUFFICES ASSUME DriverInv, StoredInv, [Next]_vars PROVE StoredInv'
  OBVIOUS
<1>1. CASE UNCHANGED vars
  BY <1>1, StoredStays DEF vars
<1>2. CASE Unload \/ Load
  BY <1>2, ModuleKeepsStored
<1>3. ASSUME NEW p \in Proc, Waits(p) PROVE StoredInv'
  BY <1>3, WaitsKeepMemory, StoredStays
<1>4. ASSUME NEW p \in Proc,
             WriteAppends(p) \/ WriteFindsNoMemory(p) \/ WriteFaults(p) \/ WriteAdds(p)
      PROVE  StoredInv'
  BY <1>4, AppendKeepsStored, NoMemoryKeepsStored, FaultKeepsStored, AddKeepsStored
<1> QED
  BY <1>1, <1>2, <1>3, <1>4 DEF Next, Waits

LEMMA StoredAlways == Spec => []StoredInv
BY InitInv, NextKeepsInv, InvAlways, StoredInit, NextKeepsStored, PTL DEF Spec

(* While it is loaded the driver adds to the ring only memory the ring     *)
(* does not hold, with its size, and changes it in no other way.           *)
THEOREM RingUsedAsExpectedAlways == Spec => RingUsedAsExpected
<1>1. DriverInv /\ StoredInv /\ [Next]_vars => [loaded /\ loaded' => Ring!Next]_ringVars
  <2> SUFFICES ASSUME DriverInv, StoredInv, [Next]_vars, loaded, loaded', ~UNCHANGED ringVars
               PROVE  Ring!Next
    OBVIOUS
  <2>1. ~Unload /\ ~Load
    BY DEF Unload, Load
  <2>2. PICK p \in Proc : WriteAdds(p)
    <3>1. \A p \in Proc : ~Waits(p)
      BY WaitsKeepMemory
    <3>2. \A p \in Proc : ~WriteAppends(p) /\ ~WriteFindsNoMemory(p) /\ ~WriteFaults(p)
      BY DEF WriteAppends, WriteFindsNoMemory, WriteFaults
    <3> QED
      BY <2>1, <3>1, <3>2 DEF Next, vars, Waits
  <2>3. temp_entry \in Ring!BufferEntry /\ temp_entry.buffptr \notin Ring!Held
    BY <2>2, AddedCommand
  <2> QED
    BY <2>2, <2>3 DEF WriteAdds, Ring!Next
<1> QED
  BY <1>1, InvAlways, StoredAlways, PTL DEF Spec, RingUsedAsExpected
-----------------------------------------------------------------------------
(* The searches of the ring, for the driver.                               *)
SameSearch ==
  /\ RingLemmas!NotFound = Ring!NotFound
  /\ \A c : RingLemmas!find_entry_offset_for_fpos(c) = Ring!find_entry_offset_for_fpos(c)
  /\ RingLemmas!find_EOF_offset = Ring!find_EOF_offset

LEMMA SearchIsSame == SameSearch
<1>1. /\ RingLemmas!N = Ring!N /\ RingLemmas!SizeBefore = Ring!SizeBefore
      /\ \A i : RingLemmas!get_entry_by_offset(i) = Ring!get_entry_by_offset(i)
  BY RingIsSame DEF SameRing
<1>2. \A S : RingLemmas!Min(S) = Ring!Min(S)
  BY DEF RingLemmas!Min, Ring!Min
<1>3. \A i : RingLemmas!IsEnd(i) <=> Ring!IsEnd(i)
  BY <1>1 DEF RingLemmas!IsEnd, Ring!IsEnd
<1>4. RingLemmas!Walked = Ring!Walked
  <2>1. {i \in 0..RingLemmas!N : RingLemmas!IsEnd(i)} = {i \in 0..Ring!N : Ring!IsEnd(i)}
    BY <1>1, <1>3
  <2> QED
    BY <1>2, <2>1 DEF RingLemmas!Walked, Ring!Walked
<1>5. RingLemmas!NotFound = Ring!NotFound
  BY DEF RingLemmas!NotFound, Ring!NotFound
<1>6. \A c : RingLemmas!find_entry_offset_for_fpos(c) = Ring!find_entry_offset_for_fpos(c)
  BY <1>1, <1>2, <1>4, <1>5
  DEF RingLemmas!find_entry_offset_for_fpos, Ring!find_entry_offset_for_fpos
<1>7. RingLemmas!find_EOF_offset = Ring!find_EOF_offset
  BY <1>1, <1>4 DEF RingLemmas!find_EOF_offset, Ring!find_EOF_offset
<1> QED
  BY <1>5, <1>6, <1>7 DEF SameSearch

LEMMA RingSizes ==
  ASSUME RingOK
  PROVE  /\ Ring!SizeBefore \in [0..Ring!N -> Nat] /\ Ring!SizeBefore[0] = 0
         /\ \A i \in 0 .. Ring!Count-1 :
              /\ Ring!SizeBefore[i+1] = Ring!SizeBefore[i] + Ring!Log[i+1].size
              /\ Ring!get_entry_by_offset(i) = Ring!Log[i+1]
         /\ Ring!SizeBefore[Ring!Count] \in Position
<1> DEFINE before == Ring!SizeBefore
<1>1. RingLemmas!IInv /\ SameRing
  BY RingIsSame DEF SameRing
<1>2. /\ before \in [0..Ring!N -> Nat] /\ before[0] = 0
      /\ \A i \in 0 .. Ring!N-1 : before[i+1] = before[i] + Ring!get_entry_by_offset(i).size
  BY <1>1, RingAssumptions, RingLemmas!SizeBeforeSums DEF SameRing, RingLemmas!SizeAt
<1>3. \A i \in 0 .. Ring!Count-1 : Ring!get_entry_by_offset(i) = Ring!Log[i+1]
  BY <1>1, RingAssumptions, RingLemmas!EntryIsCommand DEF SameRing
<1>4. \A i \in Nat : i >= Ring!Count => Ring!get_entry_by_offset(i) = Ring!NoEntry
  BY <1>1, RingAssumptions, RingLemmas!NoEntryBeyond DEF SameRing
<1>5. Ring!N \in Nat \ {0} /\ Ring!Count \in 0..Ring!N /\ MaxSize \in Nat
      /\ \A i \in 1..Ring!Count : Ring!Log[i].size \in 1..MaxSize
  <2>1. \A e \in Ring!BufferEntry : e.size \in 1..MaxSize
    BY DEF Ring!BufferEntry
  <2> QED
    BY <2>1, RingContents, MaxSizeNat, ElementOfSeq
<1> HIDE DEF before
<1>6. ASSUME NEW i \in 0 .. Ring!N-1 PROVE before[i+1] <= before[i] + MaxSize
  <2> DEFINE size == Ring!get_entry_by_offset(i).size
             j == i + 1
  <2>1. size \in Nat /\ size <= MaxSize
    <3>1. CASE i < Ring!Count
      <4>1. i \in 0 .. Ring!Count-1 /\ j \in 1..Ring!Count
        BY <1>5, <3>1
      <4>2. size = Ring!Log[j].size
        BY <1>3, <4>1
      <4> HIDE DEF size, j
      <4> QED
        BY <1>5, <4>1, <4>2
    <3>2. CASE ~(i < Ring!Count)
      <4>1. i \in Nat /\ i >= Ring!Count
        BY <1>5, <3>2
      <4>2. size = 0
        BY <1>4, <4>1 DEF Ring!NoEntry
      <4> QED
        BY <1>5, <4>2
    <3> QED
      BY <3>1, <3>2
  <2>2. before[j] = before[i] + size /\ before[i] \in Nat
    <3>1. i \in 0..Ring!N
      BY <1>5
    <3> QED
      BY <1>2, <3>1
  <2> HIDE DEF size, j
  <2>3. before[j] <= before[i] + MaxSize
    BY <1>5, <2>1, <2>2
  <2> QED
    BY <2>3 DEF j
<1>7. \A i \in 0..Ring!N : before[i] <= i * MaxSize
  BY <1>2, <1>5, <1>6, SumsBounded
<1>8. before[Ring!Count] \in Position
  <2> DEFINE times == Ring!Count * MaxSize
             all == Ring!N * MaxSize
  <2>1. before[Ring!Count] \in Nat /\ before[Ring!Count] <= times
    BY <1>2, <1>5, <1>7
  <2>2. times <= all /\ times \in Nat /\ all \in Nat
    <3>1. Ring!Count \in Nat /\ Ring!N \in Nat /\ Ring!Count <= Ring!N
      BY <1>5
    <3> QED
      BY <1>5, <3>1, TimesMonotonic
  <2>3. Position = 0..all
    BY DEF Position
  <2> HIDE DEF times, all
  <2> QED
    BY <2>1, <2>2, <2>3
<1>9. ASSUME NEW i \in 0 .. Ring!Count-1
      PROVE  /\ before[i+1] = before[i] + Ring!Log[i+1].size
             /\ Ring!get_entry_by_offset(i) = Ring!Log[i+1]
  <2>1. i \in 0 .. Ring!N-1
    BY <1>5
  <2> QED
    BY <1>2, <1>3, <2>1
<1> QED
  BY <1>2, <1>8, <1>9 DEF before

LEMMA RingSearch ==
  ASSUME RingOK, NEW c \in Nat
  PROVE  /\ c < Ring!SizeBefore[Ring!Count] =>
              \E k \in 0 .. Ring!Count-1 :
                /\ Ring!SizeBefore[k] <= c /\ c < Ring!SizeBefore[k+1]
                /\ Ring!find_entry_offset_for_fpos(c) =
                     [index |-> k, entry_offset_byte |-> c - Ring!SizeBefore[k]]
         /\ ~(c < Ring!SizeBefore[Ring!Count]) =>
              Ring!find_entry_offset_for_fpos(c) = Ring!NotFound
         /\ Ring!find_EOF_offset = Ring!SizeBefore[Ring!Count]
<1>1. RingLemmas!IInv /\ SameRing /\ SameSearch
  BY RingIsSame, SearchIsSame DEF SameRing
<1>2. /\ RingLemmas!find_entry_offset_for_fpos(c) = Ring!find_entry_offset_for_fpos(c)
      /\ RingLemmas!NotFound = Ring!NotFound
      /\ RingLemmas!Count = Ring!Count /\ RingLemmas!SizeBefore = Ring!SizeBefore
  BY <1>1 DEF SameRing, SameSearch
<1>3. Ring!find_EOF_offset = Ring!SizeBefore[Ring!Count]
  <2>1. RingLemmas!Walked = RingLemmas!Count
    BY <1>1, RingAssumptions, RingLemmas!WalkedIsCount
  <2> QED
    BY <1>1, <2>1 DEF SameRing, SameSearch, RingLemmas!find_EOF_offset
<1>4. CASE c < Ring!SizeBefore[Ring!Count]
  <2>1. c < RingLemmas!SizeBefore[RingLemmas!Count]
    BY <1>1, <1>4 DEF SameRing
  <2>2. \E k \in 0 .. RingLemmas!Count-1 :
          /\ RingLemmas!Covers(k, c)
          /\ RingLemmas!find_entry_offset_for_fpos(c) =
               [index |-> k, entry_offset_byte |-> c - RingLemmas!SizeBefore[k]]
    BY <1>1, <2>1, RingAssumptions, RingLemmas!SearchFinds
  <2> QED
    BY <1>2, <1>3, <1>4, <2>2 DEF RingLemmas!Covers
<1>5. CASE ~(c < Ring!SizeBefore[Ring!Count])
  <2>1. RingLemmas!SizeBefore[RingLemmas!Count] <= c
    <3>1. Ring!SizeBefore[Ring!Count] \in Nat
      BY RingSizes, RingContents
    <3> QED
      BY <1>1, <1>5, <3>1 DEF SameRing
  <2>2. RingLemmas!find_entry_offset_for_fpos(c) = RingLemmas!NotFound
    BY <1>1, <2>1, RingAssumptions, RingLemmas!SearchFails
  <2> QED
    BY <1>2, <1>3, <1>5, <2>2
<1> QED
  BY <1>4, <1>5
-----------------------------------------------------------------------------
(* Reading.  The bytes of a command stand together in the concatenation,   *)
(* after those of the commands before it.                                  *)
LEMMA BytesPlaces ==
  ASSUME RingOK
  PROVE  /\ Bytes \in Seq(Ptr \X Nat) /\ Len(Bytes) = Ring!SizeBefore[Ring!Count]
         /\ \A k \in 0 .. Ring!Count-1 : \A b \in 1..Ring!Log[k+1].size :
              Bytes[Ring!SizeBefore[k] + b] = <<Ring!Log[k+1].buffptr, b>>
<1> DEFINE S == Ptr \X Nat
           Block(i) == [b \in 1..Ring!Log[i].size |-> <<Ring!Log[i].buffptr, b>>]
           parts == [i \in 1..Len(Ring!Log) |-> Block(i)]
           f == [i \in 0..Ring!Count |-> Ring!SizeBefore[i]]
<1>1. /\ Ring!Count \in 0..Ring!N /\ Ring!N \in Nat /\ Len(Ring!Log) = Ring!Count
      /\ \A i \in 1..Ring!Count : Ring!Log[i].size \in Nat /\ Ring!Log[i].buffptr \in Ptr
  <2>1. \A e \in Ring!BufferEntry : e.size \in Nat /\ e.buffptr \in Ptr
    BY MaxSizeNat DEF Ring!BufferEntry
  <2> QED
    BY <2>1, RingContents, ElementOfSeq
<1>2. /\ Ring!SizeBefore \in [0..Ring!N -> Nat] /\ Ring!SizeBefore[0] = 0
      /\ \A i \in 0 .. Ring!Count-1 : Ring!SizeBefore[i+1] = Ring!SizeBefore[i] + Ring!Log[i+1].size
  BY RingSizes
<1>3. \A i \in 1..Ring!Count : Block(i) \in Seq(S) /\ Len(Block(i)) = Ring!Log[i].size
  <2> TAKE i \in 1..Ring!Count
  <2>1. Block(i) \in [1..Ring!Log[i].size -> S]
    BY <1>1
  <2> QED
    BY <1>1, <2>1
<1> HIDE DEF S
<1>4. /\ parts \in Seq(Seq(S)) /\ Len(parts) = Ring!Count
      /\ \A i \in 1..Ring!Count : parts[i] = Block(i)
  <2> HIDE DEF Block
  <2>1. parts \in [1..Ring!Count -> Seq(S)] /\ Ring!Count \in Nat
    BY <1>1, <1>3
  <2> QED
    BY <1>1, <2>1
<1>5. Bytes = FlattenSeq(parts)
  BY DEF Bytes
<1> HIDE DEF Block, parts
<1>6. ASSUME NEW k \in 0 .. Ring!Count-1
      PROVE  /\ Len(parts[k+1]) = Ring!Log[k+1].size /\ parts[k+1] = Block(k+1)
             /\ f[k] = Ring!SizeBefore[k] /\ f[k+1] = f[k] + Len(parts[k+1])
  <2> DEFINE m == k + 1
  <2>1. m \in 1..Ring!Count /\ m \in 0..Ring!Count /\ k \in 0..Ring!Count
    BY <1>1
  <2>2. Ring!SizeBefore[m] = Ring!SizeBefore[k] + Ring!Log[m].size
    BY <1>2
  <2> HIDE DEF m
  <2>3. /\ Len(parts[m]) = Ring!Log[m].size /\ parts[m] = Block(m)
        /\ f[k] = Ring!SizeBefore[k] /\ f[m] = f[k] + Len(parts[m])
    BY <1>3, <1>4, <2>1, <2>2
  <2> QED
    BY <2>3 DEF m
<1>7. /\ f \in [0..Len(parts) -> Nat] /\ f[0] = 0
      /\ f[Ring!Count] = Ring!SizeBefore[Ring!Count]
  BY <1>1, <1>2, <1>4
<1> HIDE DEF f
<1>8. PartsInPlace(parts, f)
  <2>1. \A k \in 0 .. Len(parts)-1 : f[k+1] = f[k] + Len(parts[k+1])
    BY <1>4, <1>6
  <2> QED
    BY ONLY <1>4, <1>7, <2>1, FlattenPlace
<1>9. Bytes \in Seq(S)
  BY <1>4, <1>5, FlattenType
<1>10. Len(Bytes) = Ring!SizeBefore[Ring!Count]
  BY <1>4, <1>5, <1>7, <1>8 DEF PartsInPlace
<1>11. ASSUME NEW k \in 0 .. Ring!Count-1, NEW b \in 1..Ring!Log[k+1].size
       PROVE  Bytes[Ring!SizeBefore[k] + b] = <<Ring!Log[k+1].buffptr, b>>
  <2>1. b \in 1..Len(parts[k+1]) /\ f[k] = Ring!SizeBefore[k] /\ parts[k+1] = Block(k+1)
    BY <1>6
  <2>2. Bytes[f[k] + b] = parts[k+1][b]
    BY <1>4, <1>5, <1>8, <2>1 DEF PartsInPlace
  <2>3. Block(k+1)[b] = <<Ring!Log[k+1].buffptr, b>>
    BY DEF Block
  <2> QED
    BY <2>1, <2>2, <2>3
<1> QED
  BY <1>9, <1>10, <1>11 DEF S

(* What one turn of the loop of aesd_read copies at position c, of at most *)
(* n bytes: the bytes that stand there.                                    *)
LEMMA MinOfTwo ==
  ASSUME NEW a \in Nat, NEW b \in Nat
  PROVE  Ring!Min({a, b}) = IF a <= b THEN a ELSE b
<1>1. \E m \in {a, b} : \A x \in {a, b} : m <= x
  OBVIOUS
<1> DEFINE Least(m) == m \in {a, b} /\ \A x \in {a, b} : m <= x
<1>2. Ring!Min({a, b}) = CHOOSE m : Least(m)
  BY DEF Ring!Min
<1>3. \E m : Least(m)
  BY <1>1
<1>4. Least(Ring!Min({a, b}))
  <2> HIDE DEF Least
  <2> QED
    BY <1>2, <1>3
<1> QED
  BY <1>4

CopiedPart(p, bytes, s) ==
  /\ s \in 1..count[p] /\ char_offset[p] + s <= Len(Bytes)
  /\ bytes \in Seq(Ptr \X Nat) /\ Len(bytes) = s
  /\ \A i \in 1..s : bytes[i] = Bytes[char_offset[p] + i]
  /\ count' = [count EXCEPT ![p] = @ - s]
  /\ got' = [got EXCEPT ![p] = @ \o bytes]
  /\ char_offset' = [char_offset EXCEPT ![p] = @ + s]

LEMMA CopiesBytes ==
  ASSUME RingOK, NEW p \in Proc, char_offset[p] \in Nat, count[p] \in Nat, ReadCopies(p)
  PROVE  \E bytes, s : CopiedPart(p, bytes, s)
<1> DEFINE c == char_offset[p]
           n == count[p]
           found == Ring!find_entry_offset_for_fpos(c)
<1>1. c \in Nat /\ n \in Nat /\ n > 0 /\ found # Ring!NotFound
  BY DEF ReadCopies
<1>2. PICK k \in 0 .. Ring!Count-1 :
        /\ Ring!SizeBefore[k] <= c /\ c < Ring!SizeBefore[k+1]
        /\ found = [index |-> k, entry_offset_byte |-> c - Ring!SizeBefore[k]]
  BY <1>1, RingSearch
<1> DEFINE before == Ring!SizeBefore[k]
           off == c - before
           command == Ring!Log[k+1]
           size == command.size
           s == Ring!Min({n, size - off})
           bytes == [i \in 1..s |-> <<command.buffptr, off + i>>]
<1>3. found.index = k /\ found.entry_offset_byte = off /\ Ring!get_entry_by_offset(k) = command
      /\ Ring!SizeBefore[k+1] = before + size
  BY <1>2, RingSizes
<1>4. /\ count' = [count EXCEPT ![p] = @ - s]
      /\ got' = [got EXCEPT ![p] = @ \o bytes]
      /\ char_offset' = [char_offset EXCEPT ![p] = @ + s]
  <2> HIDE DEF command, off
  <2>1. command.buffptr = Ring!get_entry_by_offset(found.index).buffptr
        /\ size = Ring!get_entry_by_offset(found.index).size /\ off = found.entry_offset_byte
    BY <1>3
  <2> HIDE DEF found
  <2> QED
    BY <2>1 DEF ReadCopies, found
<1>5. /\ before \in Nat /\ size \in Nat /\ command.buffptr \in Ptr
      /\ Ring!Count \in 0..Ring!N /\ Ring!N \in Nat
  <2>1. Ring!Count \in 0..Ring!N /\ Ring!N \in Nat
    BY RingContents
  <2>2. \A e \in Ring!BufferEntry : e.size \in Nat /\ e.buffptr \in Ptr
    BY MaxSizeNat DEF Ring!BufferEntry
  <2>3. k+1 \in 1..Ring!Count /\ k \in 0..Ring!N
    BY <2>1
  <2>4. command \in Ring!BufferEntry
    BY <2>3, RingContents, ElementOfSeq
  <2>5. before \in Nat
    BY <2>3, RingSizes
  <2> QED
    BY <2>1, <2>2, <2>4, <2>5
<1> HIDE DEF command
<1>6. off \in Nat /\ size - off \in Nat /\ size - off > 0
  <2>1. before <= c /\ c < before + size
    BY <1>2, <1>3
  <2> HIDE DEF before, size
  <2> QED
    BY <1>1, <1>5, <2>1
<1>7. s \in 1..n /\ off + s <= size
  <2> HIDE DEF before, size, off
  <2>1. s = IF n <= size - off THEN n ELSE size - off
    BY <1>1, <1>6, MinOfTwo
  <2> HIDE DEF s
  <2> QED
    BY <1>1, <1>5, <1>6, <2>1
<1> HIDE DEF s
<1>8. bytes \in Seq(Ptr \X Nat) /\ Len(bytes) = s
  <2> HIDE DEF off
  <2>1. bytes \in [1..s -> Ptr \X Nat] /\ s \in Nat
    BY <1>1, <1>5, <1>6, <1>7
  <2> QED
    BY <2>1
<1>9. ASSUME NEW i \in 1..s PROVE bytes[i] = Bytes[c + i]
  <2> DEFINE b == off + i
  <2>1. b \in 1..size /\ before + b = c + i
    <3> HIDE DEF before, size
    <3> QED
      BY <1>1, <1>5, <1>6, <1>7
  <2>2. bytes[i] = <<command.buffptr, b>>
    OBVIOUS
  <2> HIDE DEF b
  <2>3. Bytes[before + b] = <<command.buffptr, b>>
    BY <2>1, BytesPlaces DEF command
  <2> QED
    BY <2>1, <2>2, <2>3
<1>10. c + s <= Len(Bytes)
  <2> DEFINE m == k + 1
             after == Ring!SizeBefore[m]
             all == Ring!SizeBefore[Ring!Count]
  <2>1. after <= all /\ after \in Nat /\ all \in Nat
    <3>1. m \in 0..RingLemmas!N /\ RingLemmas!Count \in 0..RingLemmas!N /\ m <= RingLemmas!Count
          /\ m \in 0..Ring!N /\ Ring!Count \in 0..Ring!N
      BY <1>5, RingIsSame DEF SameRing
    <3>2. RingLemmas!IInv
      BY RingIsSame DEF SameRing
    <3> HIDE DEF m
    <3>3. RingLemmas!SizeBefore[m] <= RingLemmas!SizeBefore[RingLemmas!Count]
      BY <3>1, <3>2, RingAssumptions, RingLemmas!SizeBeforeGrows
    <3> QED
      BY <3>1, <3>3, RingIsSame, RingSizes DEF SameRing
  <2>2. after = before + size /\ Len(Bytes) = all
    BY <1>3, BytesPlaces
  <2> HIDE DEF before, size, after, all, m
  <2> QED
    BY <1>1, <1>5, <1>6, <1>7, <2>1, <2>2 DEF off
<1>11. CopiedPart(p, bytes, s)
  <2> HIDE DEF bytes
  <2> QED
    BY <1>4, <1>7, <1>8, <1>9, <1>10 DEF CopiedPart
<1> QED
  BY <1>11

(* A call that is reading has copied the bytes from the file's position up *)
(* to char_offset, and is not past the end unless it has copied nothing.   *)
Copied(p) ==
  /\ count[p] <= asked[p]
  /\ Len(got[p]) = asked[p] - count[p]
  /\ char_offset[p] = f_pos[p] + Len(got[p])
  /\ got[p] # <<>> => char_offset[p] <= Len(Bytes)
  /\ \A i \in 1..Len(got[p]) : got[p][i] = Bytes[f_pos[p] + i]

ReadTypes ==
  /\ f_pos \in [Proc -> Position]
  /\ char_offset \in [Proc -> Position]
  /\ count \in [Proc -> 0..MaxCount]
  /\ asked \in [Proc -> 0..MaxCount]
  /\ got \in [Proc -> Seq(Ptr \X Nat)]

ReadingInv ==
  /\ ReadTypes
  /\ \A p \in Proc : pc[p] = "down_read" =>
       count[p] = asked[p] /\ got[p] = <<>> /\ char_offset[p] = f_pos[p]
  /\ \A p \in Proc : pc[p] = "copy" => Copied(p)

LEMMA PositionNat == Position \subseteq Nat /\ 0 \in Position
<1>1. Ring!N * MaxSize \in Nat
  BY RingNat, MaxSizeNat, TimesMonotonic
<1> QED
  BY <1>1 DEF Position

LEMMA ReadingInit == Init => ReadingInv
<1> SUFFICES ASSUME Init PROVE ReadingInv
  OBVIOUS
<1>1. ReadTypes
  <2>1. <<>> \in Seq(Ptr \X Nat) /\ 0 \in 0..MaxCount
    BY EmptySeq, BoundsAssumption
  <2> QED
    BY <2>1, PositionNat DEF Init, ReadTypes
<1> QED
  BY <1>1 DEF Init, ReadingInv

SameReader(r) ==
  /\ pc'[r] = pc[r] /\ f_pos'[r] = f_pos[r] /\ char_offset'[r] = char_offset[r]
  /\ count'[r] = count[r] /\ asked'[r] = asked[r] /\ got'[r] = got[r]

(* A step disturbs no reader but its own process.                          *)
LEMMA ReaderUndisturbed ==
  ASSUME ReadingInv, RingRests, NEW r \in Proc, SameReader(r)
  PROVE  /\ pc'[r] = "down_read" =>
              count'[r] = asked'[r] /\ got'[r] = <<>> /\ char_offset'[r] = f_pos'[r]
         /\ pc'[r] = "copy" => Copied(r)'
<1>1. pc[r] = "down_read" =>
        count'[r] = asked'[r] /\ got'[r] = <<>> /\ char_offset'[r] = f_pos'[r]
  BY DEF ReadingInv, SameReader
<1>2. CASE pc[r] = "copy"
  <2>1. UNCHANGED <<entry, in_offs, out_offs, full>>
    BY <1>2 DEF RingRests
  <2>2. Bytes' = Bytes
    BY <2>1 DEF Bytes, Ring!Log, Ring!Count
  <2>3. Copied(r)
    BY <1>2 DEF ReadingInv
  <2>4. Copied(r)'
    BY <2>2, <2>3 DEF Copied, SameReader
  <2> QED
    BY <1>1, <2>4 DEF SameReader
<1>3. CASE pc[r] # "copy"
  BY <1>1, <1>3 DEF SameReader
<1> QED
  BY <1>2, <1>3

LEMMA ReadingStays ==
  ASSUME ReadingInv, RingRests, ReadTypes', NEW p \in Proc,
         \A r \in Proc : r # p => SameReader(r), pc'[p] \notin {"down_read", "copy"}
  PROVE  ReadingInv'
<1>1. ASSUME NEW r \in Proc
      PROVE  /\ pc'[r] = "down_read" =>
                  count'[r] = asked'[r] /\ got'[r] = <<>> /\ char_offset'[r] = f_pos'[r]
             /\ pc'[r] = "copy" => Copied(r)'
  <2>1. CASE r = p
    BY <2>1
  <2>2. CASE r # p
    BY <2>2, ReaderUndisturbed
  <2> QED
    BY <2>1, <2>2
<1> QED
  BY <1>1 DEF ReadingInv

(* The calls that do not read, and the end of those that do.               *)
LEMMA OthersKeepReading ==
  ASSUME DriverInv, ReadingInv, RingRests, NEW p \in Proc,
         \/ Opens(p) \/ CallsWrite(p) \/ WriteLocks(p) \/ WriteExcludesReaders(p)
         \/ CallsSeek(p)
  PROVE  ReadingInv'
<1>1. UNCHANGED <<f_pos, char_offset, count, asked, got>>
  BY DEF Opens, CallsWrite, WriteLocks, WriteExcludesReaders, CallsSeek
<1>2. /\ \A r \in Proc : r # p => pc'[r] = pc[r]
      /\ pc'[p] \notin {"down_read", "copy"}
  BY DEF Opens, CallsWrite, WriteLocks, WriteExcludesReaders, CallsSeek, DriverInv, Types
<1>3. ReadTypes'
  BY <1>1 DEF ReadingInv, ReadTypes
<1>4. \A r \in Proc : r # p => SameReader(r)
  BY <1>1, <1>2 DEF SameReader
<1> QED
  BY <1>2, <1>3, <1>4, ReadingStays

LEMMA LeavingKeepsReading ==
  ASSUME DriverInv, ReadingInv, RingRests, NEW p \in Proc, NEW place \in {"idle", "closed"},
         Leaves(p, place), NEW position \in Position, f_pos' = [f_pos EXCEPT ![p] = position]
  PROVE  ReadingInv'
<1>1. ReadTypes'
  <2>1. <<>> \in Seq(Ptr \X Nat) /\ 0 \in 0..MaxCount
    BY EmptySeq, BoundsAssumption
  <2> QED
    BY <2>1, PositionNat DEF ReadingInv, ReadTypes, Leaves
<1>2. pc'[p] \notin {"down_read", "copy"}
  BY DEF Leaves, DriverInv, Types
<1>3. \A r \in Proc : r # p => SameReader(r)
  BY DEF SameReader, Leaves, DriverInv, Types, ReadingInv, ReadTypes
<1> QED
  BY <1>1, <1>2, <1>3, ReadingStays

LEMMA EndsKeepReading ==
  ASSUME DriverInv, StoredInv, ReadingInv, RingRests, NEW p \in Proc,
         \/ Killed(p) \/ ReadEnds(p) \/ ReadFaults(p) \/ Seeks(p)
         \/ WriteFindsNoMemory(p) \/ WriteFaults(p) \/ WriteAdds(p)
  PROVE  ReadingInv'
<1>1. /\ f_pos = [f_pos EXCEPT ![p] = f_pos[p]] /\ f_pos[p] \in Position
      /\ char_offset[p] \in Position /\ 0 \in Position
  BY PositionNat DEF ReadingInv, ReadTypes
<1>2. CASE Killed(p)
  BY <1>1, <1>2, LeavingKeepsReading DEF Killed
<1>3. CASE ReadEnds(p)
  BY <1>1, <1>3, LeavingKeepsReading DEF ReadEnds
<1>4. CASE ReadFaults(p)
  <2>1. Leaves(p, "idle") /\ f_pos' = [f_pos EXCEPT ![p] = f_pos[p]]
    BY <1>1, <1>4 DEF ReadFaults
  <2> QED
    BY <1>1, <2>1, LeavingKeepsReading
<1>5. CASE Seeks(p)
  <2>1. PICK position : f_pos' = [f_pos EXCEPT ![p] = IF position \in 0..Ring!find_EOF_offset THEN position ELSE @]
    BY <1>5 DEF Seeks
  <2> DEFINE next == IF position \in 0..Ring!find_EOF_offset THEN position ELSE f_pos[p]
  <2>2. next \in Position
    <3>1. RingOK
      BY DEF RingOK, DriverInv, StoredInv
    <3>2. Ring!find_EOF_offset = Ring!SizeBefore[Ring!Count]
          /\ Ring!SizeBefore[Ring!Count] \in Position
      BY <3>1, RingSearch, RingSizes
    <3>3. 0..Ring!find_EOF_offset \subseteq Position
      BY <3>2, RingNat, MaxSizeNat, TimesMonotonic DEF Position
    <3> QED
      BY <1>1, <3>3
  <2>3. f_pos' = [f_pos EXCEPT ![p] = next]
    BY <2>1
  <2> HIDE DEF next
  <2>4. Leaves(p, "idle")
    BY <1>5 DEF Seeks
  <2> QED
    BY <2>2, <2>3, <2>4, LeavingKeepsReading
<1>6. CASE WriteFindsNoMemory(p) \/ WriteFaults(p) \/ WriteAdds(p)
  <2>1. Leaves(p, "idle") /\ f_pos' = [f_pos EXCEPT ![p] = f_pos[p]]
    BY <1>1, <1>6 DEF WriteFindsNoMemory, WriteFaults, WriteAdds
  <2> QED
    BY <1>1, <2>1, LeavingKeepsReading
<1> QED
  BY <1>2, <1>3, <1>4, <1>5, <1>6

LEMMA AppendKeepsReading ==
  ASSUME DriverInv, ReadingInv, RingRests, NEW p \in Proc,
         WriteAppends(p)
  PROVE  ReadingInv'
<1>1. CASE chunk[p] \in EndsLine
  <2>1. UNCHANGED <<f_pos, char_offset, count, asked, got>> /\ Goes(p, "down_write")
    BY <1>1 DEF WriteAppends
  <2>2. ReadTypes'
    BY <2>1 DEF ReadingInv, ReadTypes
  <2>3. pc'[p] \notin {"down_read", "copy"} /\ \A r \in Proc : r # p => SameReader(r)
    BY <2>1 DEF SameReader, DriverInv, Types
  <2> QED
    BY <2>2, <2>3, ReadingStays
<1>2. CASE chunk[p] \notin EndsLine
  <2>1. f_pos = [f_pos EXCEPT ![p] = f_pos[p]] /\ f_pos[p] \in Position
    BY DEF ReadingInv, ReadTypes
  <2>2. Leaves(p, "idle") /\ f_pos' = f_pos
    BY <1>2 DEF WriteAppends
  <2> QED
    BY <2>1, <2>2, LeavingKeepsReading
<1> QED
  BY <1>1, <1>2

LEMMA ReleaseKeepsReading ==
  ASSUME DriverInv, ReadingInv, RingRests, NEW p \in Proc, Releases(p) \/ FindsPosition(p)
  PROVE  ReadingInv'
<1>1. CASE Releases(p)
  <2>1. ReadTypes'
    BY <1>1, PositionNat DEF Releases, ReadingInv, ReadTypes
  <2>2. pc'[p] \notin {"down_read", "copy"} /\ \A r \in Proc : r # p => SameReader(r)
    BY <1>1 DEF Releases, SameReader, DriverInv, Types, ReadingInv, ReadTypes
  <2> QED
    BY <2>1, <2>2, ReadingStays
<1>2. CASE FindsPosition(p)
  <2>1. f_pos = [f_pos EXCEPT ![p] = f_pos[p]] /\ f_pos[p] \in Position /\ f_pos' = f_pos
    BY <1>2 DEF ReadingInv, ReadTypes, FindsPosition
  <2>2. CASE Leaves(p, "idle")
    BY <2>1, <2>2, LeavingKeepsReading
  <2>3. CASE Goes(p, "llseek") /\ UNCHANGED readVars
    <3>1. ReadTypes'
      BY <2>1, <2>3 DEF ReadingInv, ReadTypes
    <3>2. pc'[p] \notin {"down_read", "copy"} /\ \A r \in Proc : r # p => SameReader(r)
      BY <2>1, <2>3 DEF SameReader, DriverInv, Types
    <3> QED
      BY <3>1, <3>2, ReadingStays
  <2> QED
    BY <1>2, <2>2, <2>3 DEF FindsPosition
<1> QED
  BY <1>1, <1>2

LEMMA NobodyReads ==
  ASSUME ReadingInv, RingRests, UNCHANGED <<pc, f_pos, readVars>>
  PROVE  ReadingInv'
<1>1. ReadTypes' /\ \A r \in Proc : SameReader(r)
  BY DEF ReadingInv, ReadTypes, SameReader
<1> QED
  BY <1>1, ReaderUndisturbed DEF ReadingInv

(* A read begins ...                                                       *)
LEMMA CallsKeepReading ==
  ASSUME DriverInv, ReadingInv, RingRests, NEW p \in Proc, CallsRead(p)
  PROVE  ReadingInv'
<1>1. PICK n \in 1..MaxCount :
        count' = [count EXCEPT ![p] = n] /\ asked' = [asked EXCEPT ![p] = n]
  BY DEF CallsRead
<1>2. /\ char_offset' = [char_offset EXCEPT ![p] = f_pos[p]] /\ f_pos' = f_pos
      /\ got' = [got EXCEPT ![p] = <<>>] /\ pc' = [pc EXCEPT ![p] = "down_read"]
  BY DEF CallsRead
<1>3. ReadTypes'
  <2>1. <<>> \in Seq(Ptr \X Nat) /\ n \in 0..MaxCount
    BY EmptySeq, BoundsAssumption
  <2> QED
    BY <1>1, <1>2, <2>1 DEF ReadingInv, ReadTypes
<1>4. ASSUME NEW r \in Proc
      PROVE  /\ pc'[r] = "down_read" =>
                  count'[r] = asked'[r] /\ got'[r] = <<>> /\ char_offset'[r] = f_pos'[r]
             /\ pc'[r] = "copy" => Copied(r)'
  <2>1. CASE r = p
    BY <1>1, <1>2, <2>1 DEF ReadingInv, ReadTypes, DriverInv, Types
  <2>2. CASE r # p
    <3>1. SameReader(r)
      BY <1>1, <1>2, <2>2 DEF SameReader, ReadingInv, ReadTypes, DriverInv, Types
    <3> QED
      BY <3>1, ReaderUndisturbed
  <2> QED
    BY <2>1, <2>2
<1> QED
  BY <1>3, <1>4 DEF ReadingInv

(* ... gets the semaphore ...                                              *)
LEMMA LocksKeepReading ==
  ASSUME DriverInv, ReadingInv, RingRests, NEW p \in Proc, ReadLocks(p)
  PROVE  ReadingInv'
<1>1. /\ pc[p] = "down_read" /\ pc' = [pc EXCEPT ![p] = "copy"]
      /\ UNCHANGED <<f_pos, readVars>>
  BY DEF ReadLocks
<1>2. ReadTypes'
  BY <1>1 DEF ReadingInv, ReadTypes
<1>3. ASSUME NEW r \in Proc
      PROVE  /\ pc'[r] = "down_read" =>
                  count'[r] = asked'[r] /\ got'[r] = <<>> /\ char_offset'[r] = f_pos'[r]
             /\ pc'[r] = "copy" => Copied(r)'
  <2>1. CASE r = p
    <3>1. /\ count'[p] = asked'[p] /\ got'[p] = <<>> /\ char_offset'[p] = f_pos'[p]
      BY <1>1 DEF ReadingInv
    <3>2. asked'[p] \in 0..MaxCount /\ f_pos'[p] \in Position
      BY <1>1 DEF ReadingInv, ReadTypes
    <3>3. asked'[p] \in Nat /\ f_pos'[p] \in Nat
      <4>1. 0..MaxCount \subseteq Nat
        OBVIOUS
      <4> QED
        BY <3>2, <4>1, PositionNat
    <3>4. Copied(p)'
      BY <3>1, <3>3, EmptySeq DEF Copied
    <3> QED
      BY <1>1, <2>1, <3>4 DEF DriverInv, Types
  <2>2. CASE r # p
    <3>1. SameReader(r)
      BY <1>1, <2>2 DEF SameReader, DriverInv, Types
    <3> QED
      BY <3>1, ReaderUndisturbed
  <2> QED
    BY <2>1, <2>2
<1> QED
  BY <1>2, <1>3 DEF ReadingInv

(* ... and copies part after part.                                         *)
LEMMA CopiesKeepReading ==
  ASSUME DriverInv, StoredInv, ReadingInv, RingRests, NEW p \in Proc, ReadCopies(p)
  PROVE  ReadingInv'
<1>1. RingOK /\ char_offset[p] \in Nat /\ count[p] \in Nat /\ asked[p] \in Nat
      /\ f_pos[p] \in Nat /\ got[p] \in Seq(Ptr \X Nat) /\ count[p] <= MaxCount
  <2>1. RingOK
    BY DEF RingOK, DriverInv, StoredInv
  <2>2. /\ char_offset[p] \in Position /\ f_pos[p] \in Position
        /\ count[p] \in 0..MaxCount /\ asked[p] \in 0..MaxCount /\ got[p] \in Seq(Ptr \X Nat)
    BY DEF ReadingInv, ReadTypes
  <2>3. \A n \in 0..MaxCount : n \in Nat /\ n <= MaxCount
    OBVIOUS
  <2> QED
    BY <2>1, <2>2, <2>3, PositionNat
<1>2. PICK bytes, s : CopiedPart(p, bytes, s)
  BY <1>1, CopiesBytes
<1>3. /\ pc[p] = "copy" /\ pc' = pc /\ f_pos' = f_pos /\ asked' = asked
      /\ UNCHANGED <<entry, in_offs, out_offs, full>>
  BY DEF ReadCopies
<1>4. Bytes' = Bytes
  BY <1>3 DEF Bytes, Ring!Log, Ring!Count
<1>5. Copied(p)
  BY <1>3 DEF ReadingInv
<1>6. /\ count'[p] = count[p] - s /\ char_offset'[p] = char_offset[p] + s
      /\ got'[p] = got[p] \o bytes /\ s \in 1..count[p]
      /\ bytes \in Seq(Ptr \X Nat) /\ Len(bytes) = s
      /\ char_offset[p] + s <= Len(Bytes)
      /\ \A i \in 1..s : bytes[i] = Bytes[char_offset[p] + i]
  BY <1>2 DEF CopiedPart, ReadingInv, ReadTypes
<1> DEFINE old == got[p]
           new == got[p] \o bytes
<1>7. /\ new \in Seq(Ptr \X Nat) /\ Len(new) = Len(old) + s /\ Len(old) \in Nat
      /\ \A i \in 1 .. Len(old) + s :
           new[i] = IF i <= Len(old) THEN old[i] ELSE bytes[i - Len(old)]
  BY <1>1, <1>6, ConcatProperties, LenProperties
<1>8. Len(Bytes) \in Nat
  BY <1>1, BytesPlaces, LenProperties
<1> HIDE DEF new
<1>9. Copied(p)'
  <2> DEFINE n == count[p]
             all == asked[p]
             c == char_offset[p]
             pos == f_pos[p]
             length == Len(old)
             total == Len(new)
  <2>0. /\ n <= all /\ length = all - n /\ c = pos + length /\ total = length + s
        /\ n \in Nat /\ all \in Nat /\ c \in Nat /\ pos \in Nat /\ length \in Nat /\ s \in 1..n
    BY <1>1, <1>5, <1>6, <1>7 DEF Copied
  <2>1. n - s <= all /\ total = all - (n - s) /\ c + s = pos + total
    <3> HIDE DEF n, all, c, pos, length, total
    <3> QED
      BY ONLY <2>0
  <2>2. c + s <= Len(Bytes)
    BY <1>6
  <2>3. ASSUME NEW i \in 1..Len(new) PROVE new[i] = Bytes[f_pos[p] + i]
    <3>1. CASE i <= Len(old)
      <4>1. i \in 1..Len(old) /\ new[i] = old[i]
        BY <1>1, <1>6, <1>7, <3>1
      <4> QED
        BY <1>5, <4>1 DEF Copied
    <3>2. CASE i > Len(old)
      <4> DEFINE j == i - Len(old)
      <4>1. j \in 1..s /\ c + j = pos + i
        <5>1. i \in 1..total /\ i > length
          BY <3>2
        <5>2. total \in Nat
          BY <2>0
        <5>3. j = i - length
          OBVIOUS
        <5> HIDE DEF n, all, c, pos, length, total, j
        <5> QED
          BY ONLY <2>0, <5>1, <5>2, <5>3
      <4>2. new[i] = bytes[j]
        BY <1>6, <1>7, <3>2
      <4> HIDE DEF j
      <4> QED
        BY <1>6, <4>1, <4>2
    <3> QED
      BY <1>7, <1>6, <3>1, <3>2
  <2> QED
    BY <1>3, <1>4, <1>6, <2>1, <2>2, <2>3 DEF Copied, new
<1>10. ReadTypes'
  <2>1. count'[p] \in 0..MaxCount
    <3> DEFINE n == count[p]
    <3>1. n \in Nat /\ n <= MaxCount /\ s \in 1..n /\ count'[p] = n - s
      BY <1>1, <1>6
    <3> HIDE DEF n
    <3> QED
      BY ONLY <3>1, BoundsAssumption
  <2>2. char_offset'[p] \in Position
    <3>1. Len(Bytes) \in Position
      BY <1>1, BytesPlaces, RingSizes
    <3>2. char_offset'[p] \in 0..Len(Bytes)
      BY <1>1, <1>6, <1>8
    <3> QED
      BY <1>8, <3>1, <3>2, RingNat, MaxSizeNat, TimesMonotonic DEF Position
  <2>3. /\ count' = [count EXCEPT ![p] = count'[p]]
        /\ char_offset' = [char_offset EXCEPT ![p] = char_offset'[p]]
        /\ got' = [got EXCEPT ![p] = new]
    BY <1>2, <1>6 DEF CopiedPart, new
  <2> QED
    BY <1>3, <1>7, <2>1, <2>2, <2>3 DEF ReadingInv, ReadTypes
<1>11. ASSUME NEW r \in Proc
      PROVE  /\ pc'[r] = "down_read" =>
                  count'[r] = asked'[r] /\ got'[r] = <<>> /\ char_offset'[r] = f_pos'[r]
             /\ pc'[r] = "copy" => Copied(r)'
  <2>1. CASE r = p
    BY <1>3, <1>9, <2>1
  <2>2. CASE r # p
    <3>1. SameReader(r)
      BY <1>2, <1>3, <2>2 DEF CopiedPart, SameReader, ReadingInv, ReadTypes
    <3> QED
      BY <3>1, ReaderUndisturbed
  <2> QED
    BY <2>1, <2>2
<1> QED
  BY <1>10, <1>11 DEF ReadingInv

LEMMA NextKeepsReading == DriverInv /\ StoredInv /\ ReadingInv /\ [Next]_vars => ReadingInv'
<1> SUFFICES ASSUME DriverInv, StoredInv, ReadingInv, [Next]_vars PROVE ReadingInv'
  OBVIOUS
<1>1. RingRests
  BY RingRestsInStep
<1>2. CASE UNCHANGED vars \/ Unload \/ Load
  BY <1>1, <1>2, NobodyReads DEF vars, Unload, Load
<1>3. ASSUME NEW p \in Proc, Waits(p)
      PROVE  ReadingInv'
  BY <1>1, <1>3, OthersKeepReading, EndsKeepReading, ReleaseKeepsReading, CallsKeepReading,
    LocksKeepReading, CopiesKeepReading DEF Waits
<1>4. ASSUME NEW p \in Proc,
             WriteAppends(p) \/ WriteFindsNoMemory(p) \/ WriteFaults(p) \/ WriteAdds(p)
      PROVE  ReadingInv'
  BY <1>1, <1>4, AppendKeepsReading, EndsKeepReading
<1> QED
  BY <1>2, <1>3, <1>4 DEF Next, Waits

LEMMA ReadingAlways == Spec => []ReadingInv
BY InvAlways, StoredAlways, ReadingInit, NextKeepsReading, PTL DEF Spec

(* Types, with the bounds of sizes and positions: no sum of sizes, and no  *)
(* file position, exceeds what the ring can hold.  And the size recorded   *)
(* with each block is that of the line in it, whatever fails on the way    *)
(* (main.c:171-174, 226, 238).                                             *)
THEOREM SizesMatchAlways == Spec => []Inv
<1>1. DriverInv /\ StoredInv /\ ReadingInv => Inv
  <2> SUFFICES ASSUME DriverInv, StoredInv, ReadingInv PROVE Inv
    OBVIOUS
  <2>1. temp_entry \in [buffptr : Ptr \cup {NULL}, size : 0..MaxSize]
    BY DEF DriverInv, Types, StoredInv
  <2>2. DOMAIN data = Ptr /\ \A q \in Ptr : data[q] \in Seq(Chunk)
    BY DEF StoredInv, Lines
  <2> QED
    BY <2>1, <2>2 DEF Inv, TypeOK, DriverInv, Types, StoredInv, ReadingInv, ReadTypes
<1> QED
  BY <1>1, InvAlways, StoredAlways, ReadingAlways, PTL

LEMMA WhoEndsRead ==
  ASSUME DriverInv, [Next]_vars, NEW p \in Proc, pc[p] = "copy", pc'[p] = "idle"
  PROVE  ReadEnds(p) \/ ReadFaults(p)
<1> USE DEF DriverInv, Types
<1>1. ~UNCHANGED pc
  OBVIOUS
<1>2. ~Unload /\ ~Load /\ ~UNCHANGED vars
  BY <1>1 DEF Unload, Load, vars
<1>3. ASSUME NEW q \in Proc,
             \/ Opens(q) \/ Releases(q) \/ Killed(q) \/ CallsWrite(q) \/ WriteLocks(q)
             \/ WriteExcludesReaders(q) \/ CallsRead(q) \/ ReadLocks(q) \/ ReadCopies(q)
             \/ CallsSeek(q) \/ FindsPosition(q) \/ Seeks(q)
      PROVE  FALSE
  <2>1. CASE Opens(q) \/ Releases(q) \/ Killed(q) \/ CallsWrite(q) \/ WriteLocks(q)
    BY <2>1 DEF Opens, Releases, Killed, CallsWrite, WriteLocks, Leaves
  <2>2. CASE WriteExcludesReaders(q) \/ CallsRead(q) \/ ReadLocks(q) \/ ReadCopies(q)
    BY <2>2 DEF WriteExcludesReaders, CallsRead, ReadLocks, ReadCopies
  <2>3. CASE CallsSeek(q) \/ FindsPosition(q) \/ Seeks(q)
    BY <2>3 DEF CallsSeek, FindsPosition, Seeks, Leaves
  <2> QED
    BY <1>3, <2>1, <2>2, <2>3
<1>4. ASSUME NEW q \in Proc,
             WriteAppends(q) \/ WriteFindsNoMemory(q) \/ WriteFaults(q) \/ WriteAdds(q)
      PROVE  FALSE
  BY <1>4 DEF WriteAppends, WriteFindsNoMemory, WriteFaults, WriteAdds, Leaves
<1>5. ASSUME NEW q \in Proc, ReadEnds(q) \/ ReadFaults(q)
      PROVE  q = p
  BY <1>5 DEF ReadEnds, ReadFaults, Leaves
<1> QED
  BY <1>2, <1>3, <1>4, <1>5 DEF Next

(* A read that succeeds returns exactly the bytes from its position on, as *)
(* many as it asked for or as there are, all from one state of the ring,   *)
(* and moves the position by as much (main.c:160-186).                     *)
THEOREM ReadsAreExactAlways == Spec => ReadsAreExact
<1>1. DriverInv /\ StoredInv /\ ReadingInv /\ [Next]_vars => ReadsOneState
  <2> SUFFICES ASSUME DriverInv, StoredInv, ReadingInv, [Next]_vars,
                      NEW p \in Proc, pc[p] = "copy", pc'[p] = "idle"
               PROVE  \/ /\ got[p] = SubSeq(Bytes, f_pos[p] + 1,
                                            Ring!Min({f_pos[p] + asked[p], Len(Bytes)}))
                         /\ f_pos'[p] = f_pos[p] + Len(got[p])
                      \/ "user_memory" \in Failures /\ f_pos' = f_pos
    BY DEF ReadsOneState
  <2>1. CASE ReadFaults(p)
    BY <2>1 DEF ReadFaults
  <2>2. CASE ReadEnds(p)
    <3> DEFINE pos == f_pos[p]
               n == asked[p]
               length == Len(got[p])
               all == Len(Bytes)
               m == pos + 1
               last == Ring!Min({pos + n, all})
               part == SubSeq(Bytes, m, last)
    <3>1. Copied(p) /\ got[p] \in Seq(Ptr \X Nat)
      BY DEF ReadingInv, ReadTypes
    <3>2. pos \in Nat /\ n \in Nat /\ char_offset[p] \in Nat /\ count[p] \in Nat
      <4>1. pos \in Position /\ char_offset[p] \in Position /\ n \in 0..MaxCount
            /\ count[p] \in 0..MaxCount
        BY DEF ReadingInv, ReadTypes
      <4>2. \A k \in 0..MaxCount : k \in Nat
        OBVIOUS
      <4> QED
        BY <4>1, <4>2, PositionNat
    <3>3. RingOK
      BY DEF RingOK, DriverInv, StoredInv
    <3>4. /\ Bytes \in Seq(Ptr \X Nat) /\ all \in Nat /\ all = Ring!SizeBefore[Ring!Count]
          /\ length \in Nat
      BY <3>1, <3>3, BytesPlaces, LenProperties
    <3>5. f_pos'[p] = pos + length
      BY <2>2, <3>1 DEF ReadEnds, ReadingInv, ReadTypes, Copied
    <3>6. /\ count[p] <= n /\ length = n - count[p] /\ char_offset[p] = pos + length
          /\ length = 0 \/ pos + length <= all
      BY <3>1, EmptySeq DEF Copied
    <3>7. count[p] = 0 \/ all <= char_offset[p]
      <4>1. CASE char_offset[p] < all
        <5>1. PICK k \in 0 .. Ring!Count-1 :
                Ring!find_entry_offset_for_fpos(char_offset[p]) =
                  [index |-> k, entry_offset_byte |-> char_offset[p] - Ring!SizeBefore[k]]
          BY <3>2, <3>3, <3>4, <4>1, RingSearch
        <5>2. Ring!find_entry_offset_for_fpos(char_offset[p]) # Ring!NotFound
          BY <5>1 DEF Ring!NotFound
        <5> QED
          BY <2>2, <5>2 DEF ReadEnds
      <4> QED
        BY <3>2, <3>4, <4>1
    <3>8. last = IF pos + n <= all THEN pos + n ELSE all
      BY <3>2, <3>4, MinOfTwo
    <3> HIDE DEF pos, n, length, all, last, m
    <3>9. last \in Nat /\ (length = 0 => last <= pos) /\ (length # 0 => last = pos + length)
          /\ last <= all
      <4> DEFINE rest == count[p]
                 c == char_offset[p]
      <4>1. /\ rest \in Nat /\ rest <= n /\ length = n - rest /\ c = pos + length
            /\ length = 0 \/ pos + length <= all
            /\ rest = 0 \/ all <= c
        BY <3>2, <3>6, <3>7
      <4>2. pos \in Nat /\ n \in Nat /\ all \in Nat /\ length \in Nat
        BY <3>2, <3>4
      <4> HIDE DEF rest, c
      <4>3. CASE pos + n <= all
        <5>1. last = pos + n
          BY <3>8, <4>3
        <5>2. length = n
          BY <4>1, <4>2, <4>3
        <5> QED
          BY <4>2, <4>3, <5>1, <5>2
      <4>4. CASE ~(pos + n <= all)
        <5>1. last = all
          BY <3>8, <4>4
        <5>2. all <= pos + length
          BY <4>1, <4>2, <4>4
        <5> QED
          BY <4>1, <4>2, <5>1, <5>2
      <4> QED
        BY <4>3, <4>4
    <3>10. m \in Nat /\ m > 0 /\ (length = 0 => last < m) /\ (length # 0 => m <= last)
           /\ (length # 0 => last - m + 1 = length)
      BY <3>2, <3>4, <3>9 DEF m
    <3>11. \A i \in m..last : Bytes[i] \in Ptr \X Nat
      <4> TAKE i \in m..last
      <4>1. i \in 1..Len(Bytes)
        BY <3>4, <3>9, <3>10 DEF all
      <4> QED
        BY <3>4, <4>1, ElementOfSeq
    <3>12. /\ part \in Seq(Ptr \X Nat) /\ Len(part) = IF m <= last THEN last - m + 1 ELSE 0
           /\ \A i \in 1 .. last - m + 1 : part[i] = Bytes[m + i - 1]
      <4>1. m \in Int /\ last \in Int
        BY <3>9, <3>10
      <4> QED
        BY ONLY <3>11, <4>1, SubSeqProperties
    <3> HIDE DEF part
    <3>13. Len(part) = length
      <4>1. CASE length = 0
        BY <3>9, <3>10, <3>12, <4>1
      <4>2. CASE length # 0
        BY <3>10, <3>12, <4>2
      <4> QED
        BY <4>1, <4>2
    <3>14. ASSUME NEW i \in 1..length PROVE part[i] = got[p][i]
      <4>1. i \in 1 .. last - m + 1 /\ m + i - 1 = pos + i
        BY <3>2, <3>4, <3>9, <3>10, <3>14 DEF m
      <4>2. got[p][i] = Bytes[pos + i]
        BY <3>1 DEF Copied, length, pos
      <4> QED
        BY <3>12, <4>1, <4>2
    <3>15. part = got[p]
      <4>1. Len(got[p]) = Len(part) /\ \A i \in 1..Len(got[p]) : part[i] = got[p][i]
        BY <3>13, <3>14 DEF length
      <4> QED
        BY <3>1, <3>12, <4>1, SeqEqual
    <3> QED
      BY <3>5, <3>15 DEF part, last, m, pos, n, all, length
  <2> QED
    BY <2>1, <2>2, WhoEndsRead
<1> QED
  BY <1>1, InvAlways, StoredAlways, ReadingAlways, PTL DEF Spec, ReadsAreExact
-----------------------------------------------------------------------------
(* What the device promises: its lines and the line begun are LineLog's.   *)
RingLines == [i \in 1..Len(Ring!Log) |-> data[Ring!Log[i].buffptr]]
Kept == IF loaded THEN RingLines ELSE <<>>
Begun == IF ~loaded THEN <<>> ELSE IF InFlight THEN Front(LineBegun) ELSE LineBegun

LEMMA FrontAndLast ==
  ASSUME NEW S, NEW s \in Seq(S), s # <<>>
  PROVE  /\ Front(s) \in Seq(S) /\ Last(s) \in S
         /\ Append(Front(s), Last(s)) = s
<1> DEFINE n == Len(s)
           k == n - 1
<1>1. n \in Nat /\ k \in Nat /\ k + 1 = n /\ 1 <= n
  BY EmptySeq, LenProperties
<1>2. /\ Front(s) \in Seq(S) /\ Len(Front(s)) = k
      /\ \A i \in 1..k : Front(s)[i] = s[i]
  <2>1. Front(s) = SubSeq(s, 1, k)
    BY DEF Front
  <2>2. \A i \in 1..k : i \in 1..n
    BY <1>1
  <2>3. \A i \in 1..n : s[i] \in S
    BY ElementOfSeq
  <2>4. /\ SubSeq(s, 1, k) \in Seq(S) /\ Len(SubSeq(s, 1, k)) = k
        /\ \A i \in 1..k : SubSeq(s, 1, k)[i] = s[i]
    <3> HIDE DEF k
    <3> QED
      BY <1>1, <2>2, <2>3
  <2> QED
    BY <2>1, <2>4
<1>3. Last(s) = s[n] /\ s[n] \in S
  BY <1>1, ElementOfSeq DEF Last
<1> DEFINE t == Append(Front(s), Last(s))
<1>4. /\ t \in Seq(S) /\ Len(t) = n /\ t[n] = s[n]
      /\ \A i \in 1..k : t[i] = s[i]
  <2> DEFINE f == Front(s)
             e == Last(s)
  <2>1. f \in Seq(S) /\ e \in S /\ Len(f) = k
    BY <1>2, <1>3
  <2> HIDE DEF f, e, k, n
  <2>2. /\ Append(f, e) \in Seq(S) /\ Len(Append(f, e)) = k + 1
        /\ Append(f, e)[k+1] = e /\ \A i \in 1..k : Append(f, e)[i] = f[i]
    BY <2>1, AppendProperties
  <2> QED
    BY <1>1, <1>2, <1>3, <2>2 DEF f, e
<1>5. t = s
  <2> HIDE DEF t, n, k
  <2>1. \A i \in 1..n : i = n \/ i \in 1..k
    BY <1>1
  <2>2. \A i \in 1 .. Len(t) : t[i] = s[i]
    <3> TAKE i \in 1 .. Len(t)
    <3>1. i = n \/ i \in 1..k
      BY <1>4, <2>1
    <3> QED
      BY <1>4, <3>1
  <2> QED
    BY <1>4, <2>2, SeqEqual DEF n
<1> QED
  BY <1>2, <1>3, <1>5

LEMMA FrontOfAppend ==
  ASSUME NEW S, NEW s \in Seq(S), NEW c \in S
  PROVE  Front(Append(s, c)) = s /\ Last(Append(s, c)) = c /\ Append(s, c) # <<>>
<1> DEFINE n == Len(s)
           t == Append(s, c)
<1>1. /\ t \in Seq(S) /\ t # <<>> /\ Len(t) = n + 1 /\ n \in Nat
      /\ t[n+1] = c /\ \A i \in 1..n : t[i] = s[i]
  BY AppendProperties, LenProperties
<1> HIDE DEF t
<1>2. Last(t) = c
  BY <1>1 DEF Last
<1>3. Front(t) \in Seq(S) /\ Len(Front(t)) = n /\ \A i \in 1..n : Front(t)[i] = t[i]
  <2>1. Front(t) = SubSeq(t, 1, n)
    BY <1>1 DEF Front
  <2>2. \A i \in 1..n : i \in 1 .. Len(t) /\ t[i] \in S
    BY <1>1, ElementOfSeq
  <2>3. /\ SubSeq(t, 1, n) \in Seq(S) /\ Len(SubSeq(t, 1, n)) = n
        /\ \A i \in 1..n : SubSeq(t, 1, n)[i] = t[i]
    BY <1>1, <2>2
  <2> QED
    BY <2>1, <2>3
<1>4. Front(t) = s
  BY <1>1, <1>3, SeqEqual
<1> QED
  BY <1>1, <1>2, <1>4 DEF t

Stored == RingOK /\ data \in [Ptr -> Lines]
LinesAreStored ==
  /\ RingLines \in Seq(Lines) /\ Len(RingLines) = Ring!Count /\ Len(Ring!Log) = Ring!Count
  /\ \A i \in 1..Ring!Count :
       /\ RingLines[i] = data[Ring!Log[i].buffptr]
       /\ Ring!Log[i].buffptr \in Ptr /\ Ring!Log[i].buffptr # NULL

LEMMA RingLinesStored == Stored => LinesAreStored
<1> SUFFICES ASSUME RingOK, data \in [Ptr -> Lines] PROVE LinesAreStored
  BY DEF Stored
<1>1. /\ Ring!Count \in Nat /\ Len(Ring!Log) = Ring!Count
      /\ Ring!Log \in Seq(Ring!BufferEntry)
  BY RingContents
<1>2. ASSUME NEW i \in 1..Ring!Count
      PROVE  Ring!Log[i].buffptr \in Ptr /\ Ring!Log[i].buffptr # NULL
  <2>1. Ring!Log[i] \in Ring!BufferEntry
    BY <1>1, ElementOfSeq
  <2> QED
    BY <2>1, NullAssumption DEF Ring!BufferEntry
<1>3. \A i \in 1..Ring!Count : data[Ring!Log[i].buffptr] \in Lines
  BY <1>2
<1>4. RingLines = [i \in 1..Ring!Count |-> data[Ring!Log[i].buffptr]]
  BY <1>1 DEF RingLines
<1>5. RingLines \in Seq(Lines) /\ Len(RingLines) = Ring!Count
  BY <1>1, <1>3, <1>4
<1> QED
  BY <1>1, <1>2, <1>4, <1>5 DEF LinesAreStored

(* The ring's lines stay when its entries and their blocks do.             *)
LEMMA KeptStays ==
  ASSUME RingOK, UNCHANGED <<loaded, ringVars>>,
         \A i \in Ring!Index : entry[i].buffptr # NULL =>
           data'[entry[i].buffptr] = data[entry[i].buffptr]
  PROVE  Kept' = Kept
<1>1. Ring!Log' = Ring!Log
  BY DEF Ring!Log, Ring!Count, Ring!N
<1>2. /\ Len(Ring!Log) = Ring!Count /\ Ring!Log \in Seq(Ring!BufferEntry)
      /\ \A i \in 1..Ring!Count : RingLemmas!Slot(i) \in Ring!Index
                                  /\ Ring!Log[i] = entry[RingLemmas!Slot(i)]
  BY RingContents
<1>3. ASSUME NEW i \in 1..Len(Ring!Log)
      PROVE  data'[Ring!Log[i].buffptr] = data[Ring!Log[i].buffptr]
  <2>1. Ring!Log[i] \in Ring!BufferEntry
    BY <1>2, ElementOfSeq
  <2>2. Ring!Log[i].buffptr # NULL
    BY <2>1, NullAssumption DEF Ring!BufferEntry
  <2> QED
    BY <1>2, <2>2
<1>4. RingLines' = RingLines
  BY <1>1, <1>3 DEF RingLines
<1> QED
  BY <1>4 DEF Kept
-----------------------------------------------------------------------------
LEMMA NobodyWrites ==
  ASSUME DriverInv, NEW p \in Proc, pc[p] = "append"
  PROVE  ~InFlight /\ \A r \in Proc : r # p => pc[r] \notin Adding
BY DEF DriverInv, LocksExclude, InFlight, Adding

(* Every step is a step of LineLog, or none.                               *)
LEMMA AppendKeepsPromise ==
  ASSUME DriverInv, StoredInv, NEW p \in Proc, WriteAppends(p)
  PROVE  \/ Kept' = Kept /\ Begun' = Begun
         \/ /\ chunk[p] \in Chunk \ EndsLine
            /\ Kept' = Kept /\ Begun' = Append(Begun, chunk[p])
<1> DEFINE line == Append(LineBegun, chunk[p])
<1>1. PICK q \in Ptr :
        /\ Reallocated(temp_entry.buffptr, q, line)
        /\ temp_entry' = [buffptr |-> q, size |-> temp_entry.size + ChunkSize[chunk[p]]]
  BY DEF WriteAppends
<1>2. loaded /\ UNCHANGED <<loaded, ringVars>> /\ pc[p] = "append"
  BY DEF WriteAppends
<1>3. line \in Lines /\ chunk[p] \in Chunk /\ LineBegun \in Seq(Chunk)
  BY AppendedLine
<1>4. Front(line) = LineBegun
  BY <1>3, FrontOfAppend
<1> HIDE DEF line
<1>5. /\ LineBegun' = line
      /\ \A i \in Ring!Index : entry[i].buffptr # NULL =>
           data'[entry[i].buffptr] = data[entry[i].buffptr]
  <2>1. temp_entry'.buffptr = q
    BY <1>1
  <2> QED
    BY <1>1, <1>2, <1>3, <2>1, MovedLineIsStored
<1>6. Kept' = Kept
  BY <1>2, <1>5, KeptStays DEF RingOK, DriverInv, StoredInv
<1>7. Begun = LineBegun
  BY <1>2, NobodyWrites DEF Begun
<1>8. CASE chunk[p] \in EndsLine
  <2>1. pc'[p] = "down_write"
    BY <1>8 DEF WriteAppends, DriverInv, Types
  <2>2. InFlight'
    BY <2>1 DEF InFlight
  <2>3. Begun' = Front(line)
    BY <1>2, <1>5, <2>2 DEF Begun
  <2> QED
    BY <1>4, <1>6, <1>7, <2>3
<1>9. CASE chunk[p] \notin EndsLine
  <2>1. pc' = [pc EXCEPT ![p] = "idle"]
    BY <1>9 DEF WriteAppends, Leaves
  <2>2. ~InFlight'
    BY <1>2, <2>1, NobodyWrites DEF InFlight, Adding, DriverInv, Types
  <2>3. Begun' = line
    BY <1>2, <1>5, <2>2 DEF Begun
  <2> QED
    BY <1>3, <1>6, <1>7, <1>9, <2>3 DEF line
<1> QED
  BY <1>8, <1>9

LEMMA FailureKeepsPromise ==
  ASSUME DriverInv, StoredInv, NEW p \in Proc, WriteFindsNoMemory(p) \/ WriteFaults(p)
  PROVE  Kept' = Kept /\ (Begun' = Begun \/ Begun' = <<>>)
<1>1. loaded /\ UNCHANGED <<loaded, ringVars>> /\ pc[p] = "append" /\ pc' = [pc EXCEPT ![p] = "idle"]
  BY DEF WriteFindsNoMemory, WriteFaults, Leaves
<1>2. ~InFlight /\ ~InFlight'
  BY <1>1, NobodyWrites DEF InFlight, Adding, DriverInv, Types
<1>3. CASE WriteFindsNoMemory(p)
  <2>1. /\ LineBegun' = <<>>
        /\ \A i \in Ring!Index : entry[i].buffptr # NULL =>
             data'[entry[i].buffptr] = data[entry[i].buffptr]
    BY <1>3, NoMemoryKeepsStored
  <2>2. Kept' = Kept
    BY <1>1, <2>1, KeptStays DEF RingOK, DriverInv, StoredInv
  <2> QED
    BY <1>1, <1>2, <2>1, <2>2 DEF Begun
<1>4. CASE WriteFaults(p)
  <2>1. PICK q \in Ptr :
          /\ Reallocated(temp_entry.buffptr, q, LineBegun)
          /\ temp_entry' = [temp_entry EXCEPT !.buffptr = q]
    BY <1>4 DEF WriteFaults
  <2>2. temp_entry'.buffptr = q
    BY <2>1 DEF DriverInv, Types
  <2>3. LineBegun \in Lines
    BY LineBegunIsLine DEF StoredInv
  <2>4. /\ LineBegun' = LineBegun
        /\ \A i \in Ring!Index : entry[i].buffptr # NULL =>
             data'[entry[i].buffptr] = data[entry[i].buffptr]
    BY <1>1, <2>1, <2>2, <2>3, MovedLineIsStored
  <2>5. Kept' = Kept
    BY <1>1, <2>4, KeptStays DEF RingOK, DriverInv, StoredInv
  <2> QED
    BY <1>1, <1>2, <2>4, <2>5 DEF Begun
<1> QED
  BY <1>3, <1>4

(* The oldest line is the only one whose block an addition takes back.     *)
LEMMA SlotsBehind ==
  ASSUME DriverInv, RingOK, NEW i \in 1..Ring!Count, Len(Ring!Log) = Ring!N => i # 1
  PROVE  RingLemmas!Slot(i) # in_offs
<1>1. Len(Ring!Log) = Ring!Count /\ Ring!N \in Nat \ {0}
  BY RingContents
<1>2. in_offs \in Ring!Index /\ out_offs \in Ring!Index /\ full \in BOOLEAN
      /\ (full => in_offs = out_offs)
  BY DEF DriverInv, Types, Ring!RingShape
<1>3. SameRing
  BY RingIsSame
<1>4. CASE full
  BY <1>1, <1>2, <1>3, <1>4 DEF SameRing, RingLemmas!Slot, Ring!Count, Ring!Index
<1>5. CASE ~full
  BY <1>1, <1>2, <1>3, <1>5 DEF SameRing, RingLemmas!Slot, Ring!Count, Ring!Index
<1> QED
  BY <1>2, <1>4, <1>5

LEMMA KilledKeepsPromise ==
  ASSUME DriverInv, StoredInv, NEW p \in Proc, Waits(p)
  PROVE  /\ Kept' = Kept
         /\ \/ Begun' = Begun
            \/ \E c \in Chunk : c \in EndsLine /\ Begun' = Append(Begun, c)
<1>1. /\ UNCHANGED <<loaded, ringVars, temp_entry, heapVars>>
      /\ \A r \in Proc : pc'[r] \in Adding => pc[r] \in Adding
  BY WaitsKeepMemory
<1>2. Kept' = Kept
  BY <1>1, KeptStays DEF RingOK, DriverInv, StoredInv, heapVars
<1>3. LineBegun' = LineBegun
  BY <1>1 DEF LineBegun, heapVars
<1>4. InFlight' => InFlight
  BY <1>1 DEF InFlight, Adding
<1>5. CASE InFlight' = InFlight
  BY <1>1, <1>2, <1>3, <1>5 DEF Begun
<1>6. CASE InFlight /\ ~InFlight'
  <2>1. LineBegun # <<>> /\ Last(LineBegun) \in EndsLine
    BY <1>6 DEF StoredInv, LineComplete, InFlight, Adding
  <2>2. LineBegun \in Seq(Chunk)
    BY LineBegunIsLine DEF StoredInv, Lines
  <2>3. Last(LineBegun) \in Chunk /\ Append(Front(LineBegun), Last(LineBegun)) = LineBegun
    BY <2>1, <2>2, FrontAndLast
  <2>4. loaded
    BY <1>6 DEF DriverInv, CallsProgress, InFlight
  <2>5. Begun = Front(LineBegun) /\ Begun' = LineBegun
    BY <1>1, <1>3, <1>6, <2>4 DEF Begun
  <2> QED
    BY <1>2, <2>1, <2>3, <2>5
<1> QED
  BY <1>2, <1>4, <1>5, <1>6 DEF InFlight

(* Dropping the oldest line when the ring is full, and appending the line  *)
(* begun, is what the ring and the blocks do.                              *)
LEMMA AddKeepsPromise ==
  ASSUME DriverInv, StoredInv, NEW p \in Proc, WriteAdds(p)
  PROVE  \E c \in Chunk :
           /\ c \in EndsLine
           /\ Kept' = Append(IF Len(Kept) = Ring!N THEN Tail(Kept) ELSE Kept, Append(Begun, c))
           /\ Begun' = <<>>
<1> DEFINE base == IF Len(Ring!Log) = Ring!N THEN Tail(Ring!Log) ELSE Ring!Log
           kept == IF Len(RingLines) = Ring!N THEN Tail(RingLines) ELSE RingLines
           line == LineBegun
           m == Len(base)
<1>1. /\ loaded /\ loaded' /\ pc[p] = "add" /\ pc' = [pc EXCEPT ![p] = "idle"]
      /\ Ring!add_entry(temp_entry) /\ temp_entry' = NoEntry
  BY DEF WriteAdds, Leaves
<1>2. RingOK
  BY DEF RingOK, DriverInv, StoredInv
<1>3. /\ temp_entry \in Ring!BufferEntry /\ LineBegun = data[temp_entry.buffptr]
      /\ data' \in [Ptr -> Lines] /\ data'[temp_entry.buffptr] = data[temp_entry.buffptr]
      /\ \A i \in Ring!Index : i # in_offs /\ entry[i].buffptr # NULL =>
           data'[entry[i].buffptr] = data[entry[i].buffptr]
  BY AddedCommand
<1>4. RingOK' /\ Ring!Log' = Append(base, temp_entry)
  BY <1>1, <1>2, <1>3, RingTakes
<1>5. LineBegun # <<>> /\ Last(LineBegun) \in EndsLine /\ LineBegun \in Lines
      /\ LineBegun \in Seq(Chunk)
  BY <1>1, LineBegunIsLine DEF StoredInv, LineComplete, Adding, Lines
<1>6. Last(LineBegun) \in Chunk /\ Append(Front(LineBegun), Last(LineBegun)) = LineBegun
  BY <1>5, FrontAndLast
<1>7. Begun = Front(LineBegun) /\ Kept = RingLines /\ Kept' = RingLines'
  BY <1>1 DEF Begun, InFlight, Kept
<1>8. Begun' = <<>>
  <2>1. LineBegun' = <<>>
    BY <1>1 DEF LineBegun, NoEntry
  <2>2. ~InFlight'
    BY <1>1 DEF InFlight, DriverInv, Types, LocksExclude
  <2> QED
    BY <2>1, <2>2 DEF Begun
<1>9. /\ RingLines \in Seq(Lines) /\ Len(RingLines) = Ring!Count /\ Len(Ring!Log) = Ring!Count
      /\ \A i \in 1..Ring!Count :
           /\ RingLines[i] = data[Ring!Log[i].buffptr]
           /\ Ring!Log[i].buffptr \in Ptr /\ Ring!Log[i].buffptr # NULL
  BY <1>2, RingLinesStored DEF StoredInv, Stored, LinesAreStored
<1>10. /\ Ring!Log \in Seq(Ring!BufferEntry) /\ Ring!N \in Nat \ {0} /\ Ring!Count \in Nat
       /\ \A i \in 1..Ring!Count : RingLemmas!Slot(i) \in Ring!Index
                                   /\ Ring!Log[i] = entry[RingLemmas!Slot(i)]
  BY <1>2, RingContents
<1>11. ASSUME NEW i \in 1..Ring!Count, Len(Ring!Log) = Ring!N => i # 1
       PROVE  RingLines[i] = data'[Ring!Log[i].buffptr]
  <2>1. RingLemmas!Slot(i) # in_offs
    BY <1>2, <1>11, SlotsBehind
  <2>2. data'[Ring!Log[i].buffptr] = data[Ring!Log[i].buffptr]
    BY <1>3, <1>9, <1>10, <2>1
  <2> QED
    BY <1>9, <2>2
<1>12. /\ base \in Seq(Ring!BufferEntry) /\ kept \in Seq(Lines)
       /\ m \in Nat /\ Len(kept) = m
       /\ \A i \in 1..m : kept[i] = data'[base[i].buffptr]
  <2>1. CASE Len(Ring!Log) = Ring!N
    <3>1. Ring!Log # <<>> /\ RingLines # <<>>
      BY <1>9, <1>10, <2>1, EmptySeq
    <3>2. /\ Tail(Ring!Log) \in Seq(Ring!BufferEntry) /\ Len(Tail(Ring!Log)) = Ring!Count - 1
          /\ \A i \in 1 .. Ring!Count - 1 : Tail(Ring!Log)[i] = Ring!Log[i+1]
      BY <1>9, <1>10, <3>1, HeadTailProperties
    <3>3. /\ Tail(RingLines) \in Seq(Lines) /\ Len(Tail(RingLines)) = Ring!Count - 1
          /\ \A i \in 1 .. Ring!Count - 1 : Tail(RingLines)[i] = RingLines[i+1]
      BY <1>9, <3>1, HeadTailProperties
    <3>4. ASSUME NEW i \in 1 .. Ring!Count - 1
          PROVE  Tail(RingLines)[i] = data'[Tail(Ring!Log)[i].buffptr]
      <4> DEFINE j == i + 1
      <4>1. j \in 1..Ring!Count /\ j # 1
        BY <1>10
      <4>2. RingLines[j] = data'[Ring!Log[j].buffptr]
        BY <1>11, <4>1
      <4> QED
        BY <3>2, <3>3, <4>2
    <3>5. base = Tail(Ring!Log) /\ kept = Tail(RingLines)
      BY <1>9, <2>1
    <3>6. Ring!Count - 1 \in Nat
      BY <1>9, <1>10, <2>1
    <3> HIDE DEF base, kept
    <3> QED
      BY <3>2, <3>3, <3>4, <3>5, <3>6
  <2>2. CASE Len(Ring!Log) # Ring!N
    <3>1. base = Ring!Log /\ kept = RingLines
      BY <1>9, <2>2
    <3> HIDE DEF base, kept
    <3> QED
      BY <1>9, <1>10, <1>11, <2>2, <3>1
  <2> QED
    BY <2>1, <2>2
<1> DEFINE k == m + 1
<1>13. /\ Ring!Log' \in Seq(Ring!BufferEntry) /\ Len(Ring!Log') = k /\ Ring!Log'[k] = temp_entry
       /\ \A i \in 1..m : Ring!Log'[i] = base[i]
  <2> HIDE DEF base
  <2> QED
    BY <1>3, <1>4, <1>12, AppendProperties
<1>14. /\ Append(kept, LineBegun) \in Seq(Lines) /\ Len(Append(kept, LineBegun)) = k
       /\ Append(kept, LineBegun)[k] = LineBegun
       /\ \A i \in 1..m : Append(kept, LineBegun)[i] = kept[i]
  <2> HIDE DEF kept
  <2> QED
    BY <1>5, <1>12, AppendProperties
<1>15. /\ RingLines' \in Seq(Lines) /\ Len(RingLines') = k
       /\ \A i \in 1..k : RingLines'[i] = data'[Ring!Log'[i].buffptr]
  <2>1. /\ RingLines' \in Seq(Lines) /\ Len(RingLines') = Ring!Count' /\ Len(Ring!Log') = Ring!Count'
        /\ \A i \in 1..Ring!Count' : RingLines'[i] = data'[Ring!Log'[i].buffptr]
    <3>1. Stored'
      BY <1>3, <1>4 DEF Stored
    <3>2. LinesAreStored'
      BY <3>1, RingLinesStored, PTL
    <3> QED
      BY <3>2 DEF LinesAreStored
  <2> QED
    BY <1>13, <2>1
<1>16. RingLines' = Append(kept, LineBegun)
  <2> DEFINE t == Append(kept, LineBegun)
  <2>1. \A i \in 1..k : i = k \/ i \in 1..m
    <3> HIDE DEF m
    <3> QED
      BY <1>12
  <2>2. ASSUME NEW i \in 1..k PROVE RingLines'[i] = t[i]
    <3> HIDE DEF k, m, base, kept
    <3>1. CASE i = k
      BY <1>3, <1>13, <1>14, <1>15, <3>1
    <3>2. CASE i \in 1..m
      <4>1. RingLines'[i] = data'[base[i].buffptr]
        BY <1>13, <1>15, <3>2
      <4> QED
        BY <1>12, <1>14, <3>2, <4>1
    <3> QED
      BY <2>1, <3>1, <3>2
  <2> HIDE DEF k, t
  <2>3. t \in Seq(Lines) /\ Len(t) = k
    BY <1>14 DEF t
  <2>4. RingLines' = t
    BY <1>15, <2>2, <2>3, SeqEqual
  <2> QED
    BY <2>4 DEF t
<1> QED
  BY <1>5, <1>6, <1>7, <1>8, <1>16

LEMMA NextKeepsPromise ==
  DriverInv /\ StoredInv /\ [Next]_vars => [Promise!Next]_Promise!vars
<1> SUFFICES ASSUME DriverInv, StoredInv, [Next]_vars PROVE [Promise!Next]_Promise!vars
  OBVIOUS
<1>1. Kept' = Kept /\ Begun' = Begun => UNCHANGED Promise!vars
  BY DEF Promise!vars, Kept, Begun, RingLines
<1>2. ASSUME NEW c \in Chunk, c \notin EndsLine, Kept' = Kept, Begun' = Append(Begun, c)
      PROVE  Promise!Extend(c)
  BY <1>2 DEF Promise!Extend, Kept, Begun, RingLines
<1>3. ASSUME NEW c \in Chunk, c \in EndsLine, Kept' = Kept, Begun' = Append(Begun, c)
      PROVE  Promise!Killed(c)
  BY <1>3 DEF Promise!Killed, Kept, Begun, RingLines
<1>4. ASSUME NEW c \in Chunk, c \in EndsLine,
             Kept' = Append(IF Len(Kept) = Ring!N THEN Tail(Kept) ELSE Kept, Append(Begun, c)),
             Begun' = <<>>
      PROVE  Promise!Complete(c)
  BY <1>4 DEF Promise!Complete, Kept, Begun, RingLines
<1>5. Kept' = Kept /\ Begun' = <<>> => Promise!NoMemory
  BY DEF Promise!NoMemory, Kept, Begun, RingLines
<1>6. Kept' = <<>> /\ Begun' = <<>> => Promise!Unload
  BY DEF Promise!Unload, Kept, Begun, RingLines
<1>7. CASE UNCHANGED vars
  <2>1. Kept' = Kept
    BY <1>7, KeptStays DEF vars, ringVars, heapVars, DriverInv, StoredInv, RingOK
  <2>2. Begun' = Begun
    BY <1>7 DEF vars, heapVars, Begun, InFlight, LineBegun
  <2> QED
    BY <1>1, <2>1, <2>2
<1>8. CASE Unload
  BY <1>6, <1>8 DEF Unload, Kept, Begun, Promise!Next
<1>9. CASE Load
  <2>1. /\ ~loaded /\ loaded' /\ in_offs' = 0 /\ full' = FALSE /\ temp_entry' = NoEntry
        /\ \A p \in Proc : pc'[p] = "closed"
    BY <1>9 DEF Load, Zeroed, DriverInv, CallsProgress
  <2>2. Begun' = <<>> /\ Begun = <<>>
    BY <2>1 DEF Begun, InFlight, LineBegun, NoEntry
  <2>3. Ring!Log' = <<>> /\ Len(<<>>) = 0
    BY <2>1 DEF Ring!Log, Ring!Count
  <2>4. Kept' = <<>> /\ Kept = <<>>
    BY <2>1, <2>3 DEF Kept, RingLines
  <2> QED
    BY <1>1, <2>2, <2>4
<1>10. ASSUME NEW p \in Proc, Waits(p) PROVE [Promise!Next]_Promise!vars
  BY <1>1, <1>3, <1>10, KilledKeepsPromise DEF Promise!Next
<1>11. ASSUME NEW p \in Proc, WriteAppends(p) PROVE [Promise!Next]_Promise!vars
  BY <1>1, <1>2, <1>11, AppendKeepsPromise DEF Promise!Next
<1>12. ASSUME NEW p \in Proc, WriteFindsNoMemory(p) \/ WriteFaults(p)
       PROVE  [Promise!Next]_Promise!vars
  BY <1>1, <1>5, <1>12, FailureKeepsPromise DEF Promise!Next
<1>13. ASSUME NEW p \in Proc, WriteAdds(p) PROVE [Promise!Next]_Promise!vars
  BY <1>4, <1>13, AddKeepsPromise DEF Promise!Next
<1> QED
  BY <1>7, <1>8, <1>9, <1>10, <1>11, <1>12, <1>13 DEF Next, Waits

(* The device keeps the newest lines of everything written, whatever fails *)
(* on the way and however writers, readers and signals interleave          *)
(* (main.c:203-244).                                                       *)
THEOREM KeepsPromiseAlways == Spec => KeepsPromise
<1>1. Init => Promise!Init
  <2> SUFFICES ASSUME Init PROVE Promise!Init
    OBVIOUS
  <2>1. /\ loaded /\ in_offs = 0 /\ full = FALSE /\ temp_entry = NoEntry
        /\ \A p \in Proc : pc[p] = "closed"
    BY DEF Init, Zeroed
  <2>2. Begun = <<>>
    BY <2>1 DEF Begun, InFlight, LineBegun, NoEntry
  <2>3. Ring!Log = <<>> /\ Len(<<>>) = 0
    BY <2>1 DEF Ring!Log, Ring!Count
  <2>4. Kept = <<>>
    BY <2>1, <2>3 DEF Kept, RingLines
  <2> QED
    BY <2>2, <2>4 DEF Promise!Init, Kept, Begun, RingLines
<1>2. DriverInv /\ StoredInv /\ [Next]_vars => [Promise!Next]_Promise!vars
  BY NextKeepsPromise
<1> QED
  BY <1>1, <1>2, InvAlways, StoredAlways, PTL DEF Spec, KeepsPromise, Promise!Spec
-----------------------------------------------------------------------------
(* A seek into a command.  Where the first search found it, the byte asked *)
(* for stays as long as no command is added.                               *)
SeekingPlaces == {"seekto", "llseek"}

ByteFound(p) ==
  LET t == target[p]
  IN  /\ t.whence = "SET" /\ t.offset \in Nat
      /\ t.offset < Len(Bytes) /\ Bytes[t.offset + 1] = t.byte

SeekingInv ==
  /\ DOMAIN target = Proc
  /\ \A p \in Proc : pc[p] = "seekto" =>
       target[p].write_cmd \in Nat /\ target[p].write_cmd_offset \in Nat
  /\ \A p \in Proc : pc[p] = "llseek" /\ target[p].byte # NULL => ByteFound(p)

(* The position aesd_ioctl stores is that of the byte.                     *)
LEMMA PositionOfByte ==
  ASSUME RingOK, NEW cmd \in Nat, NEW off \in Nat,
         ~(Ring!find_absolute_offset(cmd, off) < 0)
  PROVE  LET pos == Ring!find_absolute_offset(cmd, off)
         IN  pos \in Nat /\ pos < Len(Bytes) /\ Bytes[pos + 1] = Byte(cmd, off)
<1> DEFINE pos == Ring!find_absolute_offset(cmd, off)
           command == Ring!get_entry_by_offset(cmd)
           before == Ring!SizeBefore[cmd]
           size == command.size
           b == off + 1
<1>1. command.buffptr # NULL /\ ~(off >= size) /\ pos = off + before
  BY DEF Ring!find_absolute_offset
<1>2. RingLemmas!IInv /\ SameRing
  BY RingIsSame DEF SameRing
<1>3. Ring!Count \in 0..Ring!N /\ Ring!N \in Nat \ {0}
  BY RingContents
<1>4. cmd < Ring!Count
  <2>1. \A i \in Nat : i >= Ring!Count => Ring!get_entry_by_offset(i) = Ring!NoEntry
    BY <1>2, RingAssumptions, RingLemmas!NoEntryBeyond DEF SameRing
  <2> QED
    BY <1>1, <1>3, <2>1 DEF Ring!NoEntry
<1>5. cmd \in 0 .. Ring!Count-1 /\ cmd \in 0..Ring!N /\ cmd+1 \in 0..Ring!N
      /\ cmd+1 \in 1..Ring!Count
  BY <1>3, <1>4
<1>6. /\ command = Ring!Log[cmd+1] /\ before \in Nat
      /\ Ring!SizeBefore[cmd+1] = before + size
  BY <1>5, RingSizes
<1>7. size \in Nat
  <2>1. Ring!Log[cmd+1] \in Ring!BufferEntry
    BY <1>5, RingContents, ElementOfSeq
  <2> QED
    BY <1>6, <2>1, MaxSizeNat DEF Ring!BufferEntry
<1>8. /\ Len(Bytes) = Ring!SizeBefore[Ring!Count]
      /\ \A d \in 1..size : Bytes[before + d] = <<command.buffptr, d>>
  BY <1>5, <1>6, BytesPlaces
<1>9. Ring!SizeBefore[cmd+1] <= Ring!SizeBefore[Ring!Count] /\ Ring!SizeBefore[Ring!Count] \in Nat
  <2>1. RingLemmas!SizeBefore[cmd+1] <= RingLemmas!SizeBefore[RingLemmas!Count]
    BY <1>2, <1>3, <1>5, RingAssumptions, RingLemmas!SizeBeforeGrows DEF SameRing
  <2> QED
    BY <1>2, <1>3, <2>1, RingSizes DEF SameRing
<1>10. Byte(cmd, off) = <<command.buffptr, b>>
  <2>1. pos # -1
    BY <1>1, <1>6
  <2> QED
    BY <2>1 DEF Byte
<1> HIDE DEF pos, command, before, size
<1>11. pos \in Nat /\ b \in 1..size /\ pos + 1 = before + b
       /\ pos < before + size
  BY <1>1, <1>6, <1>7
<1>12. pos < Len(Bytes)
  BY <1>6, <1>7, <1>8, <1>9, <1>11
<1>13. Bytes[before + b] = <<command.buffptr, b>>
  BY <1>8, <1>11
<1> QED
  BY <1>10, <1>11, <1>12, <1>13 DEF pos

LEMMA SeekingInit == Init => SeekingInv
BY DEF Init, SeekingInv

(* No command is added, and the module is not loaded, while a process is   *)
(* between the two searches of a seek.                                     *)
NotOvertaken ==
  (\E p \in Proc : pc[p] = "llseek" /\ target[p].byte # NULL) => UNCHANGED ringVars

(* What a step does to the seek of a process.                              *)
SeekStep(r) ==
  \/ pc'[r] = pc[r] /\ target'[r] = target[r]
  \/ pc'[r] \notin SeekingPlaces
  \/ /\ pc'[r] = "seekto"
     /\ target'[r].write_cmd \in Nat /\ target'[r].write_cmd_offset \in Nat
  \/ pc'[r] = "llseek" /\ target'[r].byte = NULL
  \/ FindsPosition(r) /\ pc'[r] = "llseek"

LEMMA SeekStepAlways ==
  ASSUME DriverInv, SeekingInv, [Next]_vars
  PROVE  DOMAIN target' = Proc /\ \A r \in Proc : SeekStep(r)
<1> USE DEF DriverInv, Types, SeekingInv, SeekingPlaces, SeekStep
<1>1. CASE UNCHANGED vars
  BY <1>1 DEF vars
<1>2. CASE Unload \/ Load
  BY <1>2 DEF Unload, Load
<1>3. ASSUME NEW p \in Proc,
             Opens(p) \/ Releases(p) \/ Killed(p) \/ CallsWrite(p) \/ WriteLocks(p)
             \/ WriteExcludesReaders(p) \/ CallsRead(p) \/ ReadLocks(p) \/ ReadCopies(p)
             \/ ReadEnds(p) \/ ReadFaults(p) \/ Seeks(p)
      PROVE  DOMAIN target' = Proc /\ \A r \in Proc : SeekStep(r)
  <2>1. CASE Opens(p) \/ Releases(p) \/ Killed(p) \/ CallsWrite(p) \/ WriteLocks(p)
    BY <2>1 DEF Opens, Releases, Killed, CallsWrite, WriteLocks, Leaves
  <2>2. CASE WriteExcludesReaders(p) \/ CallsRead(p) \/ ReadLocks(p) \/ ReadCopies(p)
    BY <2>2 DEF WriteExcludesReaders, CallsRead, ReadLocks, ReadCopies
  <2>3. CASE ReadEnds(p) \/ ReadFaults(p) \/ Seeks(p)
    BY <2>3 DEF ReadEnds, ReadFaults, Seeks, Leaves
  <2> QED
    BY <1>3, <2>1, <2>2, <2>3
<1>4. ASSUME NEW p \in Proc,
             WriteAppends(p) \/ WriteFindsNoMemory(p) \/ WriteFaults(p) \/ WriteAdds(p)
      PROVE  DOMAIN target' = Proc /\ \A r \in Proc : SeekStep(r)
  BY <1>4 DEF WriteAppends, WriteFindsNoMemory, WriteFaults, WriteAdds, Leaves
<1>5. ASSUME NEW p \in Proc, CallsSeek(p)
      PROVE  DOMAIN target' = Proc /\ \A r \in Proc : SeekStep(r)
  <2>1. \A n \in 0..MaxCount : n \in Nat
    BY BoundsAssumption
  <2>2. CASE pc' = [pc EXCEPT ![p] = "seekto"]
    <3>1. PICK cmd, off \in 0..MaxCount :
            target' = [target EXCEPT ![p] = [write_cmd |-> cmd, write_cmd_offset |-> off]]
      BY <1>5, <2>2 DEF CallsSeek
    <3> QED
      BY <2>1, <2>2, <3>1
  <2>3. CASE pc' = [pc EXCEPT ![p] = "llseek"]
    <3>1. PICK whence \in {"SET", "CUR", "END"}, offset \in -MaxCount..MaxCount :
            target' = [target EXCEPT ![p] = [whence |-> whence, offset |-> offset,
                                             byte |-> NULL, write_cmd |-> NULL]]
      BY <1>5, <2>3 DEF CallsSeek
    <3> QED
      BY <2>3, <3>1
  <2> QED
    BY <1>5, <2>2, <2>3 DEF CallsSeek
<1>6. ASSUME NEW p \in Proc, FindsPosition(p)
      PROVE  DOMAIN target' = Proc /\ \A r \in Proc : SeekStep(r)
  <2>1. \/ pc' = [pc EXCEPT ![p] = "idle"] /\ target' = [target EXCEPT ![p] = NULL]
        \/ /\ pc' = [pc EXCEPT ![p] = "llseek"]
           /\ \E t : target' = [target EXCEPT ![p] = t]
    BY <1>6 DEF FindsPosition, Leaves
  <2> QED
    BY <1>6, <2>1
<1> QED
  BY <1>1, <1>2, <1>3, <1>4, <1>5, <1>6 DEF Next

LEMMA NextKeepsSeeking ==
  DriverInv /\ StoredInv /\ SeekingInv /\ [Next]_vars /\ NotOvertaken => SeekingInv'
<1> SUFFICES ASSUME DriverInv, StoredInv, SeekingInv, [Next]_vars, NotOvertaken
             PROVE  SeekingInv'
  OBVIOUS
<1>1. DOMAIN target' = Proc /\ \A r \in Proc : SeekStep(r)
  BY SeekStepAlways
<1>2. UNCHANGED ringVars => Bytes' = Bytes
  BY DEF Bytes, Ring!Log, Ring!Count, Ring!N
<1>3. ASSUME NEW r \in Proc, pc'[r] = "seekto"
      PROVE  target'[r].write_cmd \in Nat /\ target'[r].write_cmd_offset \in Nat
  BY <1>1, <1>3 DEF SeekStep, SeekingPlaces, SeekingInv
<1>4. ASSUME NEW r \in Proc, pc'[r] = "llseek", target'[r].byte # NULL
      PROVE  ByteFound(r)'
  <2>1. CASE pc[r] = "llseek" /\ target'[r] = target[r]
    <3>1. ByteFound(r) /\ UNCHANGED ringVars
      BY <1>4, <2>1 DEF SeekingInv, NotOvertaken
    <3> QED
      BY <1>2, <2>1, <3>1 DEF ByteFound
  <2>2. CASE FindsPosition(r)
    <3> DEFINE t == target[r]
               pos == Ring!find_absolute_offset(t.write_cmd, t.write_cmd_offset)
    <3>1. /\ pc[r] = "seekto" /\ UNCHANGED ringVars /\ ~(pos < 0)
          /\ target'[r] = [whence |-> "SET", offset |-> pos, write_cmd |-> t.write_cmd,
                           byte |-> Byte(t.write_cmd, t.write_cmd_offset)]
      BY <1>4, <2>2 DEF FindsPosition, Leaves, SeekingInv, DriverInv, Types
    <3>2. t.write_cmd \in Nat /\ t.write_cmd_offset \in Nat
      BY <3>1 DEF SeekingInv
    <3>3. /\ pos \in Nat /\ pos < Len(Bytes)
          /\ Bytes[pos + 1] = Byte(t.write_cmd, t.write_cmd_offset)
      <4>1. RingOK
        BY DEF RingOK, DriverInv, StoredInv
      <4> QED
        BY <3>1, <3>2, <4>1, PositionOfByte
    <3> HIDE DEF pos, t
    <3> QED
      BY <1>2, <3>1, <3>3 DEF ByteFound
  <2> QED
    BY <1>1, <1>4, <2>1, <2>2 DEF SeekStep, SeekingPlaces
<1> QED
  BY <1>1, <1>3, <1>4 DEF SeekingInv

LEMMA WhoEndsSeek ==
  ASSUME DriverInv, [Next]_vars, NEW p \in Proc, pc[p] = "llseek", pc'[p] = "idle"
  PROVE  Seeks(p)
<1> USE DEF DriverInv, Types
<1>1. ~UNCHANGED vars /\ ~Unload /\ ~Load
  BY DEF vars, Unload, Load
<1>2. ASSUME NEW q \in Proc,
             Opens(q) \/ Releases(q) \/ Killed(q) \/ CallsWrite(q) \/ WriteLocks(q)
             \/ WriteExcludesReaders(q) \/ CallsRead(q) \/ ReadLocks(q) \/ ReadCopies(q)
             \/ ReadEnds(q) \/ ReadFaults(q)
      PROVE  FALSE
  <2>1. ~Opens(q) /\ ~Releases(q) /\ ~Killed(q) /\ ~CallsWrite(q) /\ ~WriteLocks(q)
    BY DEF Opens, Releases, Killed, CallsWrite, WriteLocks, Leaves
  <2>2. ~WriteExcludesReaders(q) /\ ~CallsRead(q) /\ ~ReadLocks(q) /\ ~ReadCopies(q)
    BY DEF WriteExcludesReaders, CallsRead, ReadLocks, ReadCopies
  <2>3. ~ReadEnds(q) /\ ~ReadFaults(q)
    BY DEF ReadEnds, ReadFaults, Leaves
  <2> QED
    BY <1>2, <2>1, <2>2, <2>3
<1>3. ASSUME NEW q \in Proc,
             WriteAppends(q) \/ WriteFindsNoMemory(q) \/ WriteFaults(q) \/ WriteAdds(q)
             \/ CallsSeek(q) \/ FindsPosition(q)
      PROVE  FALSE
  <2>1. ~WriteAppends(q) /\ ~WriteFindsNoMemory(q) /\ ~WriteFaults(q) /\ ~WriteAdds(q)
    BY DEF WriteAppends, WriteFindsNoMemory, WriteFaults, WriteAdds, Leaves
  <2>2. ~CallsSeek(q) /\ ~FindsPosition(q)
    BY DEF CallsSeek, FindsPosition, Leaves
  <2> QED
    BY <1>3, <2>1, <2>2
<1>4. \A q \in Proc : Seeks(q) => q = p
  BY DEF Seeks, Leaves
<1> QED
  BY <1>1, <1>2, <1>3, <1>4 DEF Next

(* A seek into a command ends on the byte asked for, for any number of     *)
(* processes, if no command is added between its two searches              *)
(* (main.c:119-148); the run driver_seek_race shows what happens when one  *)
(* is.                                                                     *)
THEOREM SeekFindsUnlessOvertaken ==
  Spec /\ [][NotOvertaken]_vars => SeektoFindsCommand
<1>1. SeekingInv /\ UNCHANGED vars => SeekingInv'
  <2> SUFFICES ASSUME SeekingInv, UNCHANGED vars PROVE SeekingInv'
    OBVIOUS
  <2>1. Bytes' = Bytes
    BY DEF vars, Bytes, Ring!Log, Ring!Count, Ring!N
  <2>2. UNCHANGED <<pc, target>>
    BY DEF vars
  <2> QED
    BY <2>1, <2>2 DEF SeekingInv, ByteFound
<1>2. DriverInv /\ StoredInv /\ SeekingInv /\ [Next]_vars /\ [NotOvertaken]_vars => SeekingInv'
  BY <1>1, NextKeepsSeeking
<1>3. DriverInv /\ StoredInv /\ ReadingInv /\ SeekingInv /\ [Next]_vars => SeeksIntoCommand
  <2> SUFFICES ASSUME DriverInv, StoredInv, ReadingInv, SeekingInv, [Next]_vars, NEW p \in Proc,
                      pc[p] = "llseek", pc'[p] = "idle", target[p].byte # NULL
               PROVE  f_pos'[p] < Len(Bytes) /\ Bytes[f_pos'[p] + 1] = target[p].byte
    BY DEF SeeksIntoCommand
  <2>1. Seeks(p)
    BY WhoEndsSeek
  <2>2. ByteFound(p)
    BY DEF SeekingInv
  <2>3. RingOK
    BY DEF RingOK, DriverInv, StoredInv
  <2>4. Ring!find_EOF_offset = Len(Bytes) /\ Len(Bytes) \in Nat
    <3>1. 0 \in Nat
      OBVIOUS
    <3>2. Bytes \in Seq(Ptr \X Nat)
      BY <2>3, BytesPlaces
    <3> QED
      BY <2>3, <3>1, <3>2, RingSearch, BytesPlaces, LenProperties
  <2>5. target[p].offset \in 0..Ring!find_EOF_offset /\ target[p].whence = "SET"
        /\ target[p].offset + 0 = target[p].offset
    BY <2>2, <2>4 DEF ByteFound
  <2>6. f_pos'[p] = target[p].offset
    BY <2>1, <2>5 DEF Seeks, ReadingInv, ReadTypes
  <2> QED
    BY <2>2, <2>6 DEF ByteFound
<1> QED
  BY <1>2, <1>3, SeekingInit, InvAlways, StoredAlways, ReadingAlways, PTL
  DEF Spec, SeektoFindsCommand

(* So it does when one process uses the device.                            *)
THEOREM SeekFindsAlone ==
  ASSUME \A p, q \in Proc : p = q
  PROVE  Spec => SeektoFindsCommand
<1>1. DriverInv /\ [Next]_vars => NotOvertaken
  <2> SUFFICES ASSUME DriverInv, [Next]_vars, NEW p \in Proc, pc[p] = "llseek"
               PROVE  UNCHANGED ringVars
    BY DEF NotOvertaken
  <2>1. loaded /\ ~Unload /\ ~Load
    BY DEF Unload, Load, DriverInv, CallsProgress
  <2>2. UNCHANGED vars => UNCHANGED ringVars
    BY DEF vars
  <2>3. ASSUME NEW q \in Proc, Waits(q) PROVE UNCHANGED ringVars
    BY <2>3, WaitsKeepMemory
  <2>4. ASSUME NEW q \in Proc
        PROVE  ~WriteAppends(q) /\ ~WriteFindsNoMemory(q) /\ ~WriteFaults(q) /\ ~WriteAdds(q)
    <3>1. pc[q] = "llseek"
      OBVIOUS
    <3> QED
      BY <3>1 DEF WriteAppends, WriteFindsNoMemory, WriteFaults, WriteAdds
  <2> QED
    BY <2>1, <2>2, <2>3, <2>4 DEF Next, Waits
<1> QED
  BY <1>1, InvAlways, SeekFindsUnlessOvertaken, PTL DEF Spec
=============================================================================
