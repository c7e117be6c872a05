--------------------------- MODULE AesdCharDriver ---------------------------
(***************************************************************************)
(* The aesdchar character device, src/aesd-char-driver/main.c: processes   *)
(* open, write, read, seek and close it concurrently; the module is loaded *)
(* and unloaded.  The ring of commands is CircularBuffer's.                *)
(*                                                                         *)
(* A process is inside at most one system call; pc says where.  A step is  *)
(* what a call does between two points where it takes a lock, except that  *)
(* a read copies one command per step, with the semaphore held.  So who    *)
(* holds the mutex and the semaphore follows from the program counters.    *)
(*                                                                         *)
(* A write passes a chunk, which may end a line; a block of memory holds a *)
(* sequence of chunks; a byte is a place in a block.                       *)
(***************************************************************************)
EXTENDS Integers, Sequences, FiniteSets, SequencesExt

CONSTANTS
  Proc,       (* processes, each with one file open at a time           *)
  Chunk,      (* what write() passes ...                                *)
  ChunkSize,  (* ... how many bytes that is ...                         *)
  EndsLine,   (* ... and the chunks whose last byte is a newline        *)
  AESDCHAR_MAX_WRITE_OPERATIONS_SUPPORTED,   (* commands in the ring   *)
  Ptr,        (* addresses kmalloc can return                           *)
  NULL,
  Calls,      (* the system calls processes use: "write", "read", "seek"  *)
  Failures,   (* what may fail: memory, user memory, a fatal signal     *)
  MaxLine,    (* bound: chunks in the largest block                     *)
  MaxCount    (* bound: bytes one read asks for                         *)

CallsThatFail == {"memory", "user_memory", "killed"}

ASSUME ChunkAssumption ==
  EndsLine \subseteq Chunk /\ ChunkSize \in [Chunk -> Nat \ {0}]
(* The kernel cuts what a write() passes at MAX_RW_COUNT bytes.            *)
ASSUME LargestChunkAssumption ==
  \E c \in Chunk : \A d \in Chunk : ChunkSize[d] <= ChunkSize[c]
ASSUME FailuresAssumption == Failures \subseteq CallsThatFail
ASSUME BoundsAssumption ==
  /\ AESDCHAR_MAX_WRITE_OPERATIONS_SUPPORTED \in Nat \ {0}
  /\ MaxLine \in Nat /\ MaxCount \in Nat
ASSUME NullAssumption == NULL \notin Ptr

VARIABLES
  loaded,                            (* the module is in the kernel         *)
  entry, in_offs, out_offs, full,    (* aesd_device.buffer                  *)
  temp_entry,                        (* aesd_device.temp_entry              *)
  returned_entry_buff_ptr,           (* of the last write to add a command  *)
  heap,                              (* blocks allocated                    *)
  data,                              (* the chunks in each block            *)
  f_pos,                             (* of each process's file              *)
  pc,
  chunk,                             (* a write's argument                  *)
  count, char_offset, got,           (* a read: bytes left to copy, where,  *)
                                     (* and the bytes copied                *)
  asked,                             (* the count a read was called with    *)
  target                             (* a seek's command or position        *)

ringVars  == <<entry, in_offs, out_offs, full, returned_entry_buff_ptr>>
heapVars  == <<heap, data>>
readVars  == <<count, char_offset, got, asked>>
localVars == <<chunk, readVars, target>>
vars == <<loaded, ringVars, temp_entry, heapVars, f_pos, pc, localVars>>

LineSize(line) ==
  LET sum[n \in 0..Len(line)] == IF n = 0 THEN 0 ELSE sum[n-1] + ChunkSize[line[n]]
  IN  sum[Len(line)]
MaxSize == MaxLine * (CHOOSE m \in {ChunkSize[c] : c \in Chunk} :
                        \A c \in Chunk : ChunkSize[c] <= m)

Ring == INSTANCE CircularBuffer WITH
          Sizes <- 1..MaxSize, returned <- returned_entry_buff_ptr

NoEntry == [buffptr |-> NULL, size |-> 0]

(* struct mutex temp_entry_mutex; struct rw_semaphore                      *)
(* circular_buffer_semaphore.                                              *)
MutexFree == \A p \in Proc : pc[p] \notin {"append", "down_write", "add"}
NoReader == \A p \in Proc : pc[p] # "copy"
NoWriter == \A p \in Proc : pc[p] # "add"

At(p, place) == loaded /\ pc[p] = place
Goes(p, place) == pc' = [pc EXCEPT ![p] = place]

(* The call returns, or is abandoned: its local variables are gone.        *)
Leaves(p, place) ==
  /\ Goes(p, place)
  /\ chunk' = [chunk EXCEPT ![p] = NULL]
  /\ count' = [count EXCEPT ![p] = 0]
  /\ asked' = [asked EXCEPT ![p] = 0]
  /\ char_offset' = [char_offset EXCEPT ![p] = 0]
  /\ got' = [got EXCEPT ![p] = <<>>]
  /\ target' = [target EXCEPT ![p] = NULL]

(* kmalloc or krealloc: the line of the old block, and more, in q.  The    *)
(* old block is freed unless it is the same.                               *)
Reallocated(old, q, line) ==
  /\ q \in (Ptr \ heap) \cup ({old} \ {NULL})
  /\ heap' = (heap \ {old}) \cup {q}
  /\ data' = [r \in Ptr |-> IF r = q THEN line ELSE IF r = old THEN <<>> ELSE data[r]]

kfree(ptrs) ==
  /\ heap' = heap \ ptrs
  /\ data' = [r \in Ptr |-> IF r \in ptrs THEN <<>> ELSE data[r]]

LineBegun == IF temp_entry.buffptr = NULL THEN <<>> ELSE data[temp_entry.buffptr]
-----------------------------------------------------------------------------
(* The system call interface.                                              *)

Opens(p) ==
  /\ At(p, "closed")
  /\ Goes(p, "idle")
  /\ UNCHANGED <<loaded, ringVars, temp_entry, heapVars, f_pos, localVars>>

Releases(p) ==
  /\ At(p, "idle")
  /\ f_pos' = [f_pos EXCEPT ![p] = 0]
  /\ Goes(p, "closed")
  /\ UNCHANGED <<loaded, ringVars, temp_entry, heapVars, localVars>>

CallsWrite(p) ==
  /\ At(p, "idle") /\ "write" \in Calls
  /\ \E c \in Chunk : chunk' = [chunk EXCEPT ![p] = c]
  /\ Goes(p, "lock")
  /\ UNCHANGED <<loaded, ringVars, temp_entry, heapVars, f_pos, readVars, target>>

CallsRead(p) ==
  /\ At(p, "idle") /\ "read" \in Calls
  /\ \E n \in 1..MaxCount :
       /\ count' = [count EXCEPT ![p] = n]
       /\ asked' = [asked EXCEPT ![p] = n]
  /\ char_offset' = [char_offset EXCEPT ![p] = f_pos[p]]
  /\ got' = [got EXCEPT ![p] = <<>>]
  /\ Goes(p, "down_read")
  /\ UNCHANGED <<loaded, ringVars, temp_entry, heapVars, f_pos, chunk, target>>

CallsSeek(p) ==
  /\ At(p, "idle") /\ "seek" \in Calls
  /\ \/ /\ \E cmd, off \in 0..MaxCount :
             target' = [target EXCEPT ![p] = [write_cmd |-> cmd, write_cmd_offset |-> off]]
        /\ Goes(p, "seekto")
     \/ /\ \E whence \in {"SET", "CUR", "END"}, offset \in -MaxCount..MaxCount :
             target' = [target EXCEPT ![p] = [whence |-> whence, offset |-> offset,
                                              byte |-> NULL, write_cmd |-> NULL]]
        /\ Goes(p, "llseek")
  /\ UNCHANGED <<loaded, ringVars, temp_entry, heapVars, f_pos, chunk, readVars>>

(* A fatal signal ends the wait for a lock with -EINTR, and the process    *)
(* with it: its file is closed.                                            *)
Killed(p) ==
  /\ "killed" \in Failures
  /\ pc[p] \in {"lock", "down_write", "down_read", "seekto", "llseek"}
  /\ Leaves(p, "closed")
  /\ f_pos' = [f_pos EXCEPT ![p] = 0]
  /\ UNCHANGED <<loaded, ringVars, temp_entry, heapVars>>
-----------------------------------------------------------------------------
(* aesd_write.                                                             *)

(* Mutant: temp_entry_mutex is not taken. *)
MutWriteLocksNot(p) ==
  /\ At(p, "lock")
  /\ Goes(p, "append")
  /\ UNCHANGED <<loaded, ringVars, temp_entry, heapVars, f_pos, localVars>>

(* mutex_lock_killable *)
WriteLocks(p) ==
  /\ At(p, "lock")
  /\ MutexFree
  /\ Goes(p, "append")
  /\ UNCHANGED <<loaded, ringVars, temp_entry, heapVars, f_pos, localVars>>

(* Mutant: copy_from_user to the start of the block. *)
MutAppendsAtStart(p) ==
  /\ At(p, "append")
  /\ Len(LineBegun) < MaxLine
  /\ \E q \in Ptr :
       /\ Reallocated(temp_entry.buffptr, q, <<chunk[p]>> \o Tail(LineBegun \o <<chunk[p]>>))
       /\ temp_entry' = [buffptr |-> q, size |-> temp_entry.size + ChunkSize[chunk[p]]]
  /\ IF chunk[p] \in EndsLine
     THEN Goes(p, "down_write") /\ UNCHANGED localVars
     ELSE Leaves(p, "idle")
  /\ UNCHANGED <<loaded, ringVars, f_pos>>

(* copy_from_user appends the chunk; only its last byte decides whether    *)
(* the command is complete, and an incomplete one waits for more.          *)
WriteAppends(p) ==
  /\ At(p, "append")
  /\ Len(LineBegun) < MaxLine
  /\ \E q \in Ptr :
       /\ Reallocated(temp_entry.buffptr, q, Append(LineBegun, chunk[p]))
       /\ temp_entry' = [buffptr |-> q, size |-> temp_entry.size + ChunkSize[chunk[p]]]
  /\ IF chunk[p] \in EndsLine
     THEN Goes(p, "down_write") /\ UNCHANGED localVars
     ELSE Leaves(p, "idle")
  /\ UNCHANGED <<loaded, ringVars, f_pos>>

(* Mutant: the size of the line begun survives its memory. *)
MutNoMemoryKeepsSize(p) ==
  /\ At(p, "append")
  /\ "memory" \in Failures \/ Len(LineBegun) = MaxLine
  /\ kfree({temp_entry.buffptr})
  /\ temp_entry' = [temp_entry EXCEPT !.buffptr = NULL]
  /\ Leaves(p, "idle")
  /\ UNCHANGED <<loaded, ringVars, f_pos>>

(* Without memory, or beyond the largest block there is, the line begun is *)
(* freed, which krealloc has left alone.                                   *)
WriteFindsNoMemory(p) ==
  /\ At(p, "append")
  /\ "memory" \in Failures \/ Len(LineBegun) = MaxLine
  /\ kfree({temp_entry.buffptr})
  /\ temp_entry' = NoEntry
  /\ Leaves(p, "idle")
  /\ UNCHANGED <<loaded, ringVars, f_pos>>

(* When the user's memory cannot be read the larger block stays, with the  *)
(* line begun.                                                             *)
WriteFaults(p) ==
  /\ At(p, "append")
  /\ "user_memory" \in Failures
  /\ \E q \in Ptr :
       /\ Reallocated(temp_entry.buffptr, q, LineBegun)
       /\ temp_entry' = [temp_entry EXCEPT !.buffptr = q]
  /\ Leaves(p, "idle")
  /\ UNCHANGED <<loaded, ringVars, f_pos>>

(* Mutant: down_read for down_write, readers are not excluded. *)
MutWriteAmongReaders(p) ==
  /\ At(p, "down_write")
  /\ NoWriter
  /\ Goes(p, "add")
  /\ UNCHANGED <<loaded, ringVars, temp_entry, heapVars, f_pos, localVars>>

(* down_write_killable *)
WriteExcludesReaders(p) ==
  /\ At(p, "down_write")
  /\ NoReader /\ NoWriter
  /\ Goes(p, "add")
  /\ UNCHANGED <<loaded, ringVars, temp_entry, heapVars, f_pos, localVars>>

(* Mutant: the displaced command is not freed. *)
MutAddsWithoutFree(p) ==
  /\ At(p, "add")
  /\ Ring!add_entry(temp_entry)
  /\ temp_entry' = NoEntry
  /\ Leaves(p, "idle")
  /\ UNCHANGED <<loaded, heapVars, f_pos>>

(* Mutant: temp_entry still refers to the command added. *)
MutAddsKeepingTemp(p) ==
  /\ At(p, "add")
  /\ Ring!add_entry(temp_entry)
  /\ kfree({returned_entry_buff_ptr'})
  /\ Leaves(p, "idle")
  /\ UNCHANGED <<loaded, temp_entry, f_pos>>

(* The command joins the ring, the one it displaces is freed, and both     *)
(* locks are released.                                                     *)
WriteAdds(p) ==
  /\ At(p, "add")
  /\ Ring!add_entry(temp_entry)
  /\ kfree({returned_entry_buff_ptr'})
  /\ temp_entry' = NoEntry
  /\ Leaves(p, "idle")
  /\ UNCHANGED <<loaded, f_pos>>
-----------------------------------------------------------------------------
(* aesd_read.                                                              *)

(* down_read_killable *)
ReadLocks(p) ==
  /\ At(p, "down_read")
  /\ NoWriter
  /\ Goes(p, "copy")
  /\ UNCHANGED <<loaded, ringVars, temp_entry, heapVars, f_pos, localVars>>

(* One turn of the loop: the rest of the command at char_offset, or as     *)
(* much of it as is asked for.                                             *)
ReadCopies(p) ==
  LET found == Ring!find_entry_offset_for_fpos(char_offset[p])
      command == Ring!get_entry_by_offset(found.index)
      copy_size == Ring!Min({count[p], command.size - found.entry_offset_byte})
      bytes == [i \in 1..copy_size |-> <<command.buffptr, found.entry_offset_byte + i>>]
  IN  /\ At(p, "copy")
      /\ count[p] > 0
      /\ found # Ring!NotFound
      /\ count' = [count EXCEPT ![p] = @ - copy_size]
      /\ got' = [got EXCEPT ![p] = @ \o bytes]
      /\ char_offset' = [char_offset EXCEPT ![p] = @ + copy_size]
      /\ UNCHANGED <<loaded, ringVars, temp_entry, heapVars, f_pos, pc, chunk,
                     asked, target>>

(* Enough, or no more: the lock is released and the position stored.       *)
ReadEnds(p) ==
  /\ At(p, "copy")
  /\ \/ count[p] = 0
     \/ Ring!find_entry_offset_for_fpos(char_offset[p]) = Ring!NotFound
  /\ f_pos' = [f_pos EXCEPT ![p] = char_offset[p]]
  /\ Leaves(p, "idle")
  /\ UNCHANGED <<loaded, ringVars, temp_entry, heapVars>>

(* copy_to_user fails: the kernel keeps the old position when read()       *)
(* reports an error.                                                       *)
ReadFaults(p) ==
  /\ At(p, "copy")
  /\ "user_memory" \in Failures
  /\ count[p] > 0
  /\ Ring!find_entry_offset_for_fpos(char_offset[p]) # Ring!NotFound
  /\ Leaves(p, "idle")
  /\ UNCHANGED <<loaded, ringVars, temp_entry, heapVars, f_pos>>
-----------------------------------------------------------------------------
(* aesd_ioctl and aesd_llseek.  Each takes the semaphore for its search of *)
(* the ring and releases it before it uses what it found; f_pos is the     *)
(* process's own, so that aesd_llseek is one step.                         *)

Byte(command, offset) ==
  LET pos == Ring!find_absolute_offset(command, offset)
  IN  IF pos = -1 THEN NULL
      ELSE <<Ring!get_entry_by_offset(command).buffptr, offset + 1>>

(* Mutant: the commands before write_cmd are not counted. *)
MutFindsOffsetInCommand(p) ==
  LET t == target[p]
  IN  /\ At(p, "seekto")
      /\ NoWriter
      /\ IF Ring!find_absolute_offset(t.write_cmd, t.write_cmd_offset) < 0
         THEN Leaves(p, "idle")
         ELSE /\ target' = [target EXCEPT ![p] =
                   [whence |-> "SET", offset |-> t.write_cmd_offset, write_cmd |-> t.write_cmd,
                    byte |-> Byte(t.write_cmd, t.write_cmd_offset)]]
              /\ Goes(p, "llseek")
              /\ UNCHANGED <<chunk, readVars>>
      /\ UNCHANGED <<loaded, ringVars, temp_entry, heapVars, f_pos>>

(* AESDCHAR_IOCSEEKTO; -EINVAL when there is no such byte.                 *)
FindsPosition(p) ==
  LET t == target[p]
      absolute_offset == Ring!find_absolute_offset(t.write_cmd, t.write_cmd_offset)
  IN  /\ At(p, "seekto")
      /\ NoWriter
      /\ IF absolute_offset < 0
         THEN Leaves(p, "idle")
         ELSE /\ target' = [target EXCEPT ![p] =
                   [whence |-> "SET", offset |-> absolute_offset, write_cmd |-> t.write_cmd,
                    byte |-> Byte(t.write_cmd, t.write_cmd_offset)]]
              /\ Goes(p, "llseek")
              /\ UNCHANGED <<chunk, readVars>>
      /\ UNCHANGED <<loaded, ringVars, temp_entry, heapVars, f_pos>>

(* -ERANGE, and no move, beyond the end of the data.                       *)
Seeks(p) ==
  LET eof_offset == Ring!find_EOF_offset
      position == target[p].offset + CASE target[p].whence = "SET" -> 0
                                       [] target[p].whence = "CUR" -> f_pos[p]
                                       [] target[p].whence = "END" -> eof_offset
  IN  /\ At(p, "llseek")
      /\ NoWriter
      /\ f_pos' = [f_pos EXCEPT ![p] = IF position \in 0..eof_offset THEN position ELSE @]
      /\ Leaves(p, "idle")
      /\ UNCHANGED <<loaded, ringVars, temp_entry, heapVars>>
-----------------------------------------------------------------------------
(* aesd_cleanup_module: the kernel unloads the module only when no file is *)
(* open.  The blocks of the ring and of the line begun are freed.          *)
Unload ==
  /\ loaded
  /\ \A p \in Proc : pc[p] = "closed"
  /\ kfree({entry[i].buffptr : i \in Ring!Index} \cup {temp_entry.buffptr})
  /\ loaded' = FALSE
  /\ UNCHANGED <<ringVars, temp_entry, f_pos, pc, localVars>>

(* aesd_init_module zeroes the device.                                     *)
Zeroed(e, i, o, f, t) ==
  /\ e = [k \in Ring!Index |-> NoEntry]
  /\ i = 0
  /\ o = 0
  /\ f = FALSE
  /\ t = NoEntry

Load ==
  /\ ~loaded
  /\ loaded' = TRUE
  /\ Zeroed(entry', in_offs', out_offs', full', temp_entry')
  /\ UNCHANGED <<returned_entry_buff_ptr, heapVars, f_pos, pc, localVars>>

Init ==
  /\ loaded = TRUE
  /\ Zeroed(entry, in_offs, out_offs, full, temp_entry)
  /\ returned_entry_buff_ptr = NULL
  /\ heap = {}
  /\ data = [q \in Ptr |-> <<>>]
  /\ f_pos = [p \in Proc |-> 0]
  /\ pc = [p \in Proc |-> "closed"]
  /\ chunk = [p \in Proc |-> NULL]
  /\ count = [p \in Proc |-> 0]
  /\ asked = [p \in Proc |-> 0]
  /\ char_offset = [p \in Proc |-> 0]
  /\ got = [p \in Proc |-> <<>>]
  /\ target = [p \in Proc |-> NULL]

Next ==
  \/ \E p \in Proc :
       \/ Opens(p) \/ Releases(p) \/ Killed(p)
       \/ CallsWrite(p) \/ WriteLocks(p) \/ WriteAppends(p) \/ WriteFindsNoMemory(p)
       \/ WriteFaults(p) \/ WriteExcludesReaders(p) \/ WriteAdds(p)
       \/ CallsRead(p) \/ ReadLocks(p) \/ ReadCopies(p) \/ ReadEnds(p) \/ ReadFaults(p)
       \/ CallsSeek(p) \/ FindsPosition(p) \/ Seeks(p)
  \/ Unload \/ Load

Spec == Init /\ [][Next]_vars
-----------------------------------------------------------------------------
Pc == {"closed", "idle", "lock", "append", "down_write", "add", "down_read", "copy",
       "seekto", "llseek"}
Position == 0 .. Ring!N * MaxSize

TypeOK ==
  /\ loaded \in BOOLEAN
  /\ Ring!TypeOK
  /\ temp_entry \in [buffptr : Ptr \cup {NULL}, size : 0..MaxSize]
  /\ heap \subseteq Ptr
  /\ DOMAIN data = Ptr /\ \A q \in Ptr : data[q] \in Seq(Chunk)
  /\ f_pos \in [Proc -> Position]
  /\ pc \in [Proc -> Pc]
  /\ chunk \in [Proc -> Chunk \cup {NULL}]
  /\ count \in [Proc -> 0..MaxCount]
  /\ asked \in [Proc -> 0..MaxCount]
  /\ char_offset \in [Proc -> Position]

(* Every block of memory has one owner, a slot of the ring or temp_entry,  *)
(* and every owner has memory: nothing is leaked, freed twice or used      *)
(* after it was freed, and unloading the module frees everything           *)
(* (main.c:214-228, 251-257, 328-355).                                     *)
OneOwner ==
  IF ~loaded THEN heap = {}
  ELSE /\ heap = Ring!Held \cup ({temp_entry.buffptr} \ {NULL})
       /\ temp_entry.buffptr \notin Ring!Held
       /\ \A i, j \in Ring!Index :
            entry[i].buffptr = entry[j].buffptr /\ entry[i].buffptr # NULL => i = j

(* The size recorded with a block is that of the data in it, whatever      *)
(* failed on the way: no read goes beyond its block (main.c:171-174,       *)
(* 226, 238).                                                              *)
SizesMatch ==
  loaded =>
    /\ \A i \in Ring!Index : entry[i].buffptr # NULL =>
         entry[i].size = LineSize(data[entry[i].buffptr])
    /\ temp_entry.size = LineSize(LineBegun)

Inv == TypeOK /\ SizesMatch

(* All commands concatenated, byte by byte.                                *)
Bytes ==
  FlattenSeq([i \in 1..Len(Ring!Log) |->
                [b \in 1..Ring!Log[i].size |-> <<Ring!Log[i].buffptr, b>>]])

(* A read that succeeds returns exactly the bytes from its position on, as *)
(* many as it asked for or as there are, all from one state of the ring    *)
(* although it copies command by command, and moves the position by as     *)
(* much (main.c:160-186).                                                  *)
ReadsOneState ==
  \A p \in Proc :
    pc[p] = "copy" /\ pc'[p] = "idle" =>
      \/ /\ got[p] = SubSeq(Bytes, f_pos[p] + 1,
                            Ring!Min({f_pos[p] + asked[p], Len(Bytes)}))
         /\ f_pos'[p] = f_pos[p] + Len(got[p])
      \/ "user_memory" \in Failures /\ f_pos' = f_pos
ReadsAreExact == [][ReadsOneState]_vars

(* The driver adds to the ring only what CircularBuffer expects, memory    *)
(* the ring does not hold, and changes it in no other way while loaded.    *)
RingUsedAsExpected == [][loaded /\ loaded' => Ring!Next]_ringVars

(* The device keeps the newest N lines of everything written, lines of     *)
(* several writes included, whatever fails on the way; only a writer that  *)
(* is killed leaves two lines in one command (main.c:203-244).  The chunk  *)
(* of a write that ends a line counts from WriteAdds on.                   *)
InFlight == \E p \in Proc : pc[p] \in {"down_write", "add"}
Promise == INSTANCE LineLog WITH
  Capacity <- Ring!N,
  lines <- IF loaded THEN [i \in 1..Len(Ring!Log) |-> data[Ring!Log[i].buffptr]] ELSE <<>>,
  partial <- IF ~loaded THEN <<>>
             ELSE IF InFlight THEN Front(LineBegun) ELSE LineBegun
KeepsPromise == Promise!Spec

(* A seek into a write command (aesd_ioctl.h:26-32) ends on the byte asked *)
(* for: of the command that had this number when the call looked, or of    *)
(* the one that has it now.                                                *)
SeeksIntoCommand ==
  \A p \in Proc :
    LET t == target[p]
    IN  pc[p] = "llseek" /\ pc'[p] = "idle" /\ t.byte # NULL =>
          \/ f_pos'[p] < Len(Bytes) /\ Bytes[f_pos'[p] + 1] = t.byte
          \/ f_pos'[p] < Len(Bytes) /\ t.write_cmd < Len(Ring!Log)
               /\ Bytes[f_pos'[p] + 1] = <<Ring!Log[t.write_cmd + 1].buffptr, t.byte[2]>>
SeektoFindsCommand == [][SeeksIntoCommand]_vars
=============================================================================
