-------------------------- MODULE LogProtocolProofs --------------------------
(***************************************************************************)
(* The stream log_file has one user at a time, who writes one packet, and  *)
(* the server keeps its promise to its clients, whatever they send,        *)
(* however many there are, and whatever fails.                             *)
(***************************************************************************)
EXTENDS LogProtocol, SequenceLemmas, TLAPS

Place == {"recv", "lock", "write", "ioctl", "send", "close", "gone"}

OneUser ==
  /\ pc \in [Client -> Place]
  /\ log_file_mutex \in Client \cup {NULL}
  /\ StreamHasOneUser

USE NullAssumption DEF OneUser, Place, Working, StreamHasOneUser, At, Goes,
  deviceVars, streamVars

LEMMA InitOneUser == Init => OneUser
BY DEF Init

LEMMA StepKeepsOneUser ==
  ASSUME OneUser, NEW c \in Client,
         \/ Connects(c) \/ Closes(c) \/ Receives(c) \/ ReceivesEnd(c)
         \/ Locks(c) \/ Works(c) \/ Sends(c) \/ SendFails(c)
  PROVE  OneUser'
(* Outside of process_packet, and from one step of it to the next.         *)
<1>1. CASE Connects(c) \/ Closes(c) \/ Receives(c) \/ ReceivesEnd(c)
  BY <1>1 DEF Connects, Closes, Receives, ReceivesEnd
<1>2. CASE Locks(c)
  <2>1. /\ log_file_mutex = NULL /\ log_file_mutex' = c
        /\ \E place \in {"write", "ioctl"} : pc' = [pc EXCEPT ![c] = place]
    BY <1>2 DEF Locks
  <2> QED
    BY <2>1
<1>3. CASE WritesPiece(c) \/ Reads(c) \/ Sends(c) \/ SendFails(c)
  BY <1>3 DEF WritesPiece, Reads, Sends, SendFails
<1>4. CASE WritesLast(c) \/ WriteFails(c) \/ FindsPlace(c)
  <2>1. /\ pc[c] \in Working /\ UNCHANGED log_file_mutex
        /\ \E place \in {"send", "close"} : pc' = [pc EXCEPT ![c] = place]
    BY <1>4 DEF WritesLast, WriteFails, FindsPlace, SendsFrom
  <2> QED
    BY <2>1
<1>5. CASE FindsNoPlace(c) \/ ReadsEnd(c)
  BY <1>5 DEF FindsNoPlace, ReadsEnd
<1>6. CASE Unlocks(c)
  <2>1. /\ pc[c] = "close" /\ log_file_mutex' = NULL
        /\ \E place \in {"gone", "recv"} : pc' = [pc EXCEPT ![c] = place]
    BY <1>6 DEF Unlocks
  <2> QED
    BY <2>1
<1> QED
  BY <1>1, <1>2, <1>3, <1>4, <1>5, <1>6 DEF Works

LEMMA NextKeepsOneUser == OneUser /\ [Next]_vars => OneUser'
<1> SUFFICES ASSUME OneUser, [Next]_vars PROVE OneUser'
  OBVIOUS
<1>1. CASE Restarts
  BY <1>1 DEF Restarts
<1>2. CASE UNCHANGED vars
  BY <1>2 DEF vars
<1> QED
  BY <1>1, <1>2, StepKeepsOneUser DEF Next

(* One thread at a time works on the stream and the device, from opening   *)
(* to closing, and it holds log_file_mutex (aesdsocket_client.c:242-262,   *)
(* 273-283).                                                               *)
THEOREM StreamHasOneUserAlways == Spec => []StreamHasOneUser
<1>1. OneUser => StreamHasOneUser
  OBVIOUS
<1> QED
  BY <1>1, InitOneUser, NextKeepsOneUser, PTL DEF Spec

(* While a client thread serves a packet nobody else changes the log: no   *)
(* line comes between the packet's own line and the reply that is sent     *)
(* (aesdsocket_client.c:242-262), except that the server is started again. *)
OthersWait ==
  \A c \in Client : log_file_mutex = c /\ ~Works(c) /\ ~Restarts => UNCHANGED deviceVars

THEOREM LogRestsWhileServed == Spec => [][OthersWait]_vars
<1>1. OneUser /\ [Next]_vars => OthersWait
  <2> SUFFICES ASSUME OneUser, [Next]_vars, ~Restarts, NEW c \in Client,
                      log_file_mutex = c, ~Works(c)
               PROVE  UNCHANGED deviceVars
    BY DEF OthersWait
  <2>1. CASE UNCHANGED vars
    BY <2>1 DEF vars
  <2>2. ASSUME NEW d \in Client,
               \/ Connects(d) \/ Closes(d) \/ Receives(d) \/ ReceivesEnd(d)
               \/ Locks(d) \/ Sends(d) \/ SendFails(d)
        PROVE  UNCHANGED deviceVars
    BY <2>2 DEF Connects, Closes, Receives, ReceivesEnd, Locks, Sends, SendFails
  <2>3. ASSUME NEW d \in Client, Works(d)
        PROVE  d = c
    BY <2>3 DEF Works, WritesPiece, WritesLast, WriteFails, FindsPlace, FindsNoPlace,
      Reads, ReadsEnd, SendFails, Unlocks
  <2> QED
    BY <2>1, <2>2, <2>3 DEF Next
<1> QED
  BY <1>1, InitOneUser, NextKeepsOneUser, PTL DEF Spec
-----------------------------------------------------------------------------
(* The whole invariant: who works on the stream, and on what.              *)
IInv == OneUser /\ Inv

LEMMA ContentType == TypeOK => Content \in Seq(Chunk) /\ Len(Content) \in Nat
BY FlattenType, LenProperties DEF TypeOK, Content

LEMMA PiecesType ==
  ASSUME NEW p \in Packet
  PROVE  Pieces[p] \in Seq(Chunk) /\ Pieces[p] # <<>> /\ Len(Pieces[p]) \in Nat \ {0}
BY PiecesAssumption, EmptySeq

(* The thread that writes is the one that holds the mutex.                 *)
LEMMA WriterHolds ==
  ASSUME IInv, NEW c \in Client, At(c, "write")
  PROVE  /\ log_file_mutex = c
         /\ \A d \in Client : At(d, "write") => d = c
         /\ Torn = SubSeq(partial, 1, Len(partial) - Written(c))
<1>1. log_file_mutex = c /\ \A d \in Client : At(d, "write") => d = c
  BY DEF IInv
<1> QED
  BY <1>1 DEF Torn

(* What is left of a packet while it is written.                           *)
LEMMA WriterHas ==
  ASSUME IInv, NEW c \in Client, At(c, "write")
  PROVE  /\ packet[c] \in Packet /\ Pieces[packet[c]] \in Seq(Chunk)
         /\ Len(Pieces[packet[c]]) \in Nat
         /\ Written(c) \in Nat /\ Written(c) < Len(Pieces[packet[c]])
         /\ pieces = SubSeq(Pieces[packet[c]], Written(c) + 1, Len(Pieces[packet[c]]))
         /\ pieces \in Seq(Chunk) /\ pieces # <<>>
         /\ Len(pieces) = Len(Pieces[packet[c]]) - Written(c)
         /\ Torn \in Seq(Chunk) /\ Len(Torn) = Len(partial) - Written(c)
         /\ Torn = SubSeq(partial, 1, Len(partial) - Written(c))
         /\ Len(Torn) \in Nat /\ Len(partial) = Len(Torn) + Written(c)
         /\ \A i \in 1..Len(Torn) : Torn[i] = partial[i]
         /\ \A i \in 1..Written(c) : partial[Len(Torn) + i] = Pieces[packet[c]][i]
<1> DEFINE whole == Pieces[packet[c]]
           k == Written(c)
<1>1. packet[c] \in Packet
  BY DEF IInv, Inv, CallsProgress
<1>2. whole \in Seq(Chunk) /\ Len(whole) \in Nat
  BY <1>1, PiecesType
<1>3. /\ k \in 0 .. Len(whole) - 1 /\ pieces = SubSeq(whole, k + 1, Len(whole))
      /\ k <= Len(partial)
      /\ \A i \in 1..k : partial[Len(partial) - k + i] = whole[i]
  BY DEF IInv, Inv, RestOfPacket
<1>4. pieces \in Seq(Chunk) /\ partial \in Seq(Chunk) /\ Len(partial) \in Nat
  BY LenProperties DEF IInv, Inv, TypeOK
<1>5. Torn = SubSeq(partial, 1, Len(partial) - k)
  BY WriterHolds
<1> HIDE DEF whole, k
<1>6. k \in Nat /\ k < Len(whole) /\ k \in 0..Len(whole) /\ Len(partial) - k \in 0..Len(partial)
  BY <1>2, <1>3, <1>4
<1>7. Len(pieces) = Len(whole) - k
  BY <1>2, <1>3, <1>6, SplitAt
<1> DEFINE n == Len(partial) - k
<1>8. Torn \in Seq(Chunk) /\ Len(Torn) = n /\ \A i \in 1..n : Torn[i] = partial[i]
  <2> HIDE DEF n
  <2>1. n \in 0..Len(partial) /\ Torn = SubSeq(partial, 1, n)
    BY <1>5, <1>6 DEF n
  <2> QED
    BY <1>4, <2>1, SplitAt
<1>9. /\ Len(Torn) \in Nat /\ Len(partial) = Len(Torn) + k
      /\ \A i \in 1..k : partial[Len(Torn) + i] = whole[i]
  BY <1>3, <1>4, <1>6, <1>8
<1>10. pieces # <<>>
  <2>1. Len(pieces) # 0
    BY <1>2, <1>6, <1>7
  <2> QED
    BY <2>1, EmptySeq
<1>11. Len(Torn) = Len(partial) - k /\ \A i \in 1..Len(Torn) : Torn[i] = partial[i]
  BY <1>8
<1>12. pieces = SubSeq(whole, k + 1, Len(whole)) /\ k \in Nat /\ k < Len(whole)
  BY <1>3, <1>6
<1> HIDE DEF n
<1>13. Torn \in Seq(Chunk)
  BY <1>8
<1>14. pieces \in Seq(Chunk)
  BY <1>4
<1> QED
  BY <1>1, <1>2, <1>5, <1>7, <1>9, <1>10, <1>11, <1>12, <1>13, <1>14, Zenon DEF whole, k

LEMMA InitIInv == Init => IInv
<1> SUFFICES ASSUME Init PROVE Inv
  BY InitOneUser DEF IInv
<1>1. TypeOK
  BY EmptySeq DEF Init, TypeOK, Device!Init
<1>2. RestOfPacket /\ CallsProgress
  BY DEF Init, RestOfPacket, CallsProgress
<1> QED
  BY <1>1, <1>2 DEF Inv

(* The packet and the line begun stay as they are while nobody writes ...  *)
LEMMA NobodyWrites ==
  ASSUME \A c \in Client : pc'[c] # "write", pieces' = <<>>
  PROVE  RestOfPacket' /\ Torn' = partial'
BY DEF RestOfPacket, Torn

(* ... and while who writes does something else.                           *)
LEMMA RestStays ==
  ASSUME IInv, UNCHANGED <<partial, pieces, log_file_mutex>>,
         \A c \in Client : At(c, "write") <=> pc'[c] = "write",
         \A c \in Client : At(c, "write") => packet'[c] = packet[c]
  PROVE  RestOfPacket' /\ Torn' = Torn
<1>1. CASE \A c \in Client : ~At(c, "write")
  BY <1>1 DEF RestOfPacket, Torn, IInv, Inv
<1>2. ASSUME NEW c \in Client, At(c, "write")
      PROVE  RestOfPacket' /\ Torn' = Torn
  <2>1. log_file_mutex = c /\ \A d \in Client : At(d, "write") => d = c
    BY <1>2, WriterHolds
  <2>2. Written(c)' = Written(c)
    BY <1>2 DEF Written
  <2>3. Torn' = Torn
    BY <1>2, <2>1, <2>2 DEF Torn
  <2>4. \A d \in Client : pc'[d] = "write" => d = c
    BY <2>1
  <2>5. LET whole == Pieces[packet[c]]
        IN  /\ Written(c) \in 0 .. Len(whole) - 1
            /\ pieces = SubSeq(whole, Written(c) + 1, Len(whole))
            /\ Written(c) <= Len(partial)
            /\ \A i \in 1 .. Written(c) : partial[Len(partial) - Written(c) + i] = whole[i]
    BY <1>2 DEF RestOfPacket, IInv, Inv
  <2>6. RestOfPacket'
    BY <1>2, <2>2, <2>4, <2>5, Zenon DEF RestOfPacket
  <2> QED
    BY <2>3, <2>6
<1> QED
  BY <1>1, <1>2

LEMMA OutsideKeepsInv ==
  ASSUME IInv, NEW c \in Client,
         Connects(c) \/ Closes(c) \/ Receives(c) \/ ReceivesEnd(c)
  PROVE  Inv' /\ Torn' = Torn
<1> USE DEF IInv, Inv
<1>2. TypeOK'
  <2>1. CASE Connects(c)
    BY <2>1 DEF TypeOK, Connects
  <2>2. CASE Closes(c)
    BY <2>2 DEF TypeOK, Closes
  <2>3. CASE Receives(c)
    BY <2>3 DEF TypeOK, Receives
  <2>4. CASE ReceivesEnd(c)
    BY <2>4 DEF TypeOK, ReceivesEnd
  <2> QED
    BY <2>1, <2>2, <2>3, <2>4
<1>3. RestOfPacket' /\ Torn' = Torn
  <2>1. UNCHANGED <<partial, pieces, log_file_mutex>>
    BY DEF Connects, Closes, Receives, ReceivesEnd
  <2>2. \A d \in Client : At(d, "write") <=> pc'[d] = "write"
    BY DEF Connects, Closes, Receives, ReceivesEnd
  <2>3. \A d \in Client : At(d, "write") => packet'[d] = packet[d]
    BY DEF Connects, Closes, Receives, ReceivesEnd, TypeOK
  <2> QED
    BY <2>1, <2>2, <2>3, RestStays
<1>4. CallsProgress'
  BY DEF TypeOK, CallsProgress, Connects, Closes, Receives, ReceivesEnd
<1> QED
  BY <1>2, <1>3, <1>4

LEMMA LocksKeepsInv ==
  ASSUME IInv, NEW c \in Client, Locks(c)
  PROVE  Inv' /\ Torn' = Torn
<1> USE DEF IInv, Inv
<1>1. packet[c] \in Packet
  BY DEF Locks, CallsProgress
<1>2. Pieces[packet[c]] \in Seq(Chunk) /\ Len(Pieces[packet[c]]) \in Nat \ {0}
  BY <1>1, PiecesType
<1>3. TypeOK'
  BY <1>2 DEF TypeOK, Locks
<1>4. /\ \A d \in Client : ~At(d, "write")
      /\ \A d \in Client : pc'[d] = "write" => d = c
      /\ pieces = <<>> /\ Torn = partial /\ partial' = partial /\ packet' = packet
  BY DEF Locks, RestOfPacket, Torn
<1>5. CallsProgress'
  BY <1>1, <1>4 DEF Locks, CallsProgress
<1>6. CASE pc'[c] = "write"
  <2> DEFINE whole == Pieces[packet[c]]
  <2>1. pieces' = whole /\ log_file_mutex' = c
    BY <1>6 DEF Locks
  <2>2. Written(c)' = 0
    BY <1>2, <1>4, <2>1 DEF Written
  <2>3. partial \in Seq(Chunk) /\ Len(partial) \in Nat
    BY LenProperties DEF TypeOK
  <2>4. Torn' = SubSeq(partial, 1, Len(partial))
    BY <1>4, <1>6, <2>1, <2>2, <2>3 DEF Torn
  <2>5. Torn' = partial
    BY <2>3, <2>4, SubSeqFull
  <2>6. whole = SubSeq(whole, 0 + 1, Len(whole))
    BY <1>2, SubSeqFull
  <2>8. RestOfPacket'
    BY <1>2, <1>4, <1>6, <2>1, <2>2, <2>3, <2>5, <2>6 DEF RestOfPacket
  <2> QED
    BY <1>3, <1>4, <1>5, <2>5, <2>8
<1>7. CASE pc'[c] # "write"
  <2>1. pieces' = <<>> /\ \A d \in Client : pc'[d] # "write"
    BY <1>4, <1>7 DEF Locks, TypeOK
  <2> QED
    BY <1>3, <1>4, <1>5, <2>1 DEF RestOfPacket, Torn
<1> QED
  BY <1>6, <1>7

(* One more piece of the packet is in the line begun.                      *)
LEMMA WritesPieceKeepsInv ==
  ASSUME IInv, NEW c \in Client, WritesPiece(c)
  PROVE  Inv' /\ Torn' = Torn
<1> USE DEF IInv, Inv
<1> DEFINE whole == Pieces[packet[c]]
           k == Written(c)
<1>1. At(c, "write") /\ pc' = pc /\ packet' = packet /\ log_file_mutex' = log_file_mutex
  BY DEF WritesPiece
<1>2. /\ packet[c] \in Packet /\ whole \in Seq(Chunk) /\ Len(whole) \in Nat
      /\ k \in Nat /\ k < Len(whole)
      /\ pieces = SubSeq(whole, k + 1, Len(whole))
      /\ pieces \in Seq(Chunk) /\ pieces # <<>> /\ Len(pieces) = Len(whole) - k
      /\ Torn = SubSeq(partial, 1, Len(partial) - k)
      /\ Torn \in Seq(Chunk) /\ Len(Torn) \in Nat /\ Len(partial) = Len(Torn) + k
      /\ \A i \in 1..Len(Torn) : Torn[i] = partial[i]
      /\ \A i \in 1..k : partial[Len(Torn) + i] = whole[i]
  BY <1>1, WriterHas
<1>3. /\ Len(pieces) > 1 /\ pieces' = Tail(pieces)
      /\ partial \in Seq(Chunk) /\ partial' = Append(partial, Head(pieces))
  BY DEF WritesPiece, Device!Extend, TypeOK
<1>5. pieces' \in Seq(Chunk) /\ Len(pieces') = Len(pieces) - 1
  BY <1>2, <1>3, HeadTailProperties
<1>6. Written(c)' = k + 1 /\ k + 1 \in 0 .. Len(whole) - 1
  BY <1>1, <1>2, <1>3, <1>5 DEF Written
<1> HIDE DEF whole, k
<1>7. /\ whole[k + 1] \in Chunk /\ Head(pieces) = whole[k + 1]
      /\ pieces' = SubSeq(whole, (k + 1) + 1, Len(whole))
  BY <1>2, <1>3, TakeOne
<1>8. /\ partial' \in Seq(Chunk) /\ Len(partial') = Len(partial) + 1
      /\ \A i \in 1..Len(partial) : partial'[i] = partial[i]
      /\ partial'[Len(partial) + 1] = whole[k + 1]
  <2> DEFINE e == whole[k + 1]
  <2>1. partial \in Seq(Chunk) /\ e \in Chunk /\ partial' = Append(partial, e)
    BY <1>3, <1>7
  <2> HIDE DEF e
  <2>2. /\ partial' \in Seq(Chunk) /\ Len(partial') = Len(partial) + 1
        /\ \A i \in 1..Len(partial) : partial'[i] = partial[i]
        /\ partial'[Len(partial) + 1] = e
    BY <2>1, AppendProperties
  <2> QED
    BY <2>2 DEF e
<1>9. ASSUME NEW i \in 1..k+1 PROVE partial'[Len(Torn) + i] = whole[i]
  <2>1. k \in Nat /\ Len(Torn) \in Nat /\ Len(partial) = Len(Torn) + k
    BY <1>2
  <2>2. CASE i \in 1..k
    <3>1. Len(Torn) + i \in 1..Len(partial)
      BY <2>1, <2>2
    <3>2. partial'[Len(Torn) + i] = partial[Len(Torn) + i]
      BY <1>8, <3>1
    <3>3. partial[Len(Torn) + i] = whole[i]
      BY <1>2, <2>2
    <3> QED
      BY <3>2, <3>3
  <2>3. CASE i = k + 1
    <3>1. Len(Torn) + i = Len(partial) + 1
      BY <2>1, <2>3
    <3> QED
      BY <1>8, <2>3, <3>1
  <2> QED
    BY <2>1, <2>2, <2>3
<1>10. Torn' = Torn
  <2>1. log_file_mutex' = c /\ pc'[c] = "write"
    BY <1>1, WriterHolds
  <2>2. Torn' = SubSeq(partial', 1, Len(partial') - (k + 1))
    BY <1>6, <2>1 DEF Torn
  <2> DEFINE n == Len(Torn)
  <2>3. Len(partial') - (k + 1) = n /\ n \in 0..Len(partial')
    BY <1>2, <1>8
  <2>4. \A i \in 1..n : partial'[i] = Torn[i]
    BY <1>2, <1>8
  <2> HIDE DEF n
  <2>5. /\ SubSeq(partial', 1, n) \in Seq(Chunk) /\ Len(SubSeq(partial', 1, n)) = n
        /\ \A i \in 1..n : SubSeq(partial', 1, n)[i] = partial'[i]
    BY <1>8, <2>3, SplitAt
  <2>6. SubSeq(partial', 1, n) = Torn
    BY <1>2, <2>4, <2>5, SeqEqual DEF n
  <2> QED
    BY <2>2, <2>3, <2>6
<1>13. RestOfPacket'
  <2>1. \A d \in Client : pc'[d] = "write" => d = c
    BY <1>1, WriterHolds
  <2>2. k \in Nat /\ Len(Torn) \in Nat /\ Len(partial) = Len(Torn) + k
        /\ Len(partial') = Len(partial) + 1
    BY <1>2, <1>8
  <2>3. k + 1 <= Len(partial') /\ Len(partial') - (k + 1) = Len(Torn)
    BY <2>2
  <2>4. pc'[c] = "write" /\ \E d \in Client : pc'[d] = "write"
    BY <1>1
  <2>5. pieces' = SubSeq(whole', Written(c)' + 1, Len(whole'))
        /\ Written(c)' \in 0 .. Len(whole') - 1 /\ Written(c)' <= Len(partial')
    BY <1>1, <1>6, <1>7, <2>3 DEF whole
  <2>6. \A i \in 1..Written(c)' : partial'[Len(partial') - Written(c)' + i] = whole'[i]
    BY <1>1, <1>6, <1>9, <2>3 DEF whole
  <2> QED
    BY <2>1, <2>4, <2>5, <2>6 DEF RestOfPacket, whole
<1>11. TypeOK'
  BY <1>5, <1>8 DEF TypeOK, WritesPiece, Device!Extend
<1>12. CallsProgress'
  BY DEF CallsProgress, WritesPiece
<1> QED
  BY <1>10, <1>11, <1>12, <1>13

(* A step of send_file begins it.                                          *)
LEMMA SendsFromIs ==
  ASSUME NEW c \in Client, NEW position \in Nat, TypeOK, SendsFrom(c, position)
  PROVE  /\ buffer' = <<>> /\ f_pos' \in Nat /\ failed' \in BOOLEAN
         /\ pc' = [pc EXCEPT ![c] = "send"] \/ pc' = [pc EXCEPT ![c] = "close"]
BY DEF SendsFrom, TypeOK

(* The packet is written, or what was begun of it stays or is dropped.     *)
LEMMA WriteEndsKeepsInv ==
  ASSUME IInv, NEW c \in Client, WritesLast(c) \/ WriteFails(c)
  PROVE  Inv' /\ Torn' = partial'
<1> USE DEF IInv, Inv
<1>1. /\ At(c, "write") /\ pieces' = <<>> /\ SendsFrom(c, 0)
      /\ UNCHANGED <<log_file_mutex, sent, packet, open>>
  BY DEF WritesLast, WriteFails
<1>2. \A d \in Client : At(d, "write") => d = c
  BY <1>1, WriterHolds
<1>3. /\ buffer' = <<>> /\ f_pos' \in Nat /\ failed' \in BOOLEAN
      /\ pc' = [pc EXCEPT ![c] = "send"] \/ pc' = [pc EXCEPT ![c] = "close"]
  BY <1>1, SendsFromIs
<1>4. RestOfPacket' /\ Torn' = partial'
  <2>1. \A d \in Client : pc'[d] # "write"
    BY <1>2, <1>3
  <2> QED
    BY <1>1, <2>1, NobodyWrites
<1>5. CallsProgress'
  BY <1>1, <1>2, <1>3 DEF CallsProgress
<1>6. lines' \in Seq(Seq(Chunk)) /\ partial' \in Seq(Chunk)
  <2>1. CASE WritesLast(c)
    <3>1. Head(pieces) \in Chunk
      BY <1>1, WriterHas, HeadTailProperties
    <3>2. Append(partial, Head(pieces)) \in Seq(Chunk)
      BY <3>1, AppendProperties DEF TypeOK
    <3> DEFINE kept == IF Len(lines) = Capacity THEN Tail(lines) ELSE lines
    <3>3. kept \in Seq(Seq(Chunk))
      <4>1. Len(lines) = Capacity => lines # <<>>
        BY SizesAssumption, EmptySeq
      <4> QED
        BY <4>1, HeadTailProperties DEF TypeOK
    <3>4. lines' = Append(kept, Append(partial, Head(pieces))) /\ partial' = <<>>
      BY <2>1 DEF WritesLast, Device!Complete
    <3> HIDE DEF kept
    <3> QED
      BY <3>2, <3>3, <3>4, AppendProperties, EmptySeq
  <2>2. CASE WriteFails(c)
    <3>1. lines' = lines /\ partial' \in {<<>>, partial}
      BY <2>2 DEF WriteFails, Device!NoMemory, deviceVars
    <3>2. lines \in Seq(Seq(Chunk)) /\ {<<>>, partial} \subseteq Seq(Chunk)
      BY EmptySeq DEF TypeOK
    <3> QED
      BY ONLY <3>1, <3>2, Zenon
  <2> QED
    BY <2>1, <2>2
<1>7. TypeOK'
  <2>1. pieces' \in Seq(Chunk) /\ buffer' \in Seq(Chunk)
    BY <1>1, <1>3, EmptySeq
  <2> QED
    BY <1>1, <1>3, <1>6, <2>1 DEF TypeOK
<1> QED
  BY <1>4, <1>5, <1>7

(* The place AESDCHAR_IOCSEEKTO returns is an offset.                      *)
LEMMA OffsetOfType ==
  ASSUME TypeOK, NEW t \in [write_cmd : Nat, write_cmd_offset : Nat], HasPlace(t)
  PROVE  OffsetOf(t) \in Nat /\ t.write_cmd \in 0..Len(lines)
<1> DEFINE i == t.write_cmd
<1>1. lines \in Seq(Seq(Chunk)) /\ Len(lines) \in Nat
  BY LenProperties DEF TypeOK
<1>2. i \in 0..Len(lines) /\ t.write_cmd_offset \in Nat
  BY <1>1 DEF HasPlace
<1> HIDE DEF i
<1>3. SubSeq(lines, 1, i) \in Seq(Seq(Chunk))
  BY <1>1, <1>2, SplitAt
<1>4. FlattenSeq(SubSeq(lines, 1, i)) \in Seq(Chunk)
  BY <1>3, FlattenType
<1>5. Len(FlattenSeq(SubSeq(lines, 1, i))) \in Nat
  BY <1>4, LenProperties
<1> QED
  BY <1>2, <1>5 DEF OffsetOf, i

LEMMA SeektoType ==
  ASSUME IInv, NEW c \in Client, At(c, "ioctl")
  PROVE  Seekto[packet[c]] \in [write_cmd : Nat, write_cmd_offset : Nat]
<1>1. packet[c] \in Packet /\ Seekto[packet[c]] # NULL
  BY DEF IInv, Inv, CallsProgress
<1> QED
  BY <1>1, SeektoAssumption

(* What is left of what was read.                                          *)
LEMMA SendsType ==
  ASSUME IInv, NEW c \in Client, Sends(c)
  PROVE  sent' \in Seq(Chunk) /\ buffer' \in Seq(Chunk)
<1>1. sent \in Seq(Chunk) /\ buffer \in Seq(Chunk) /\ Len(buffer) \in Nat
  BY LenProperties DEF IInv, Inv, TypeOK
<1>2. PICK n \in 1..Len(buffer) : /\ sent' = sent \o SubSeq(buffer, 1, n)
                                 /\ buffer' = SubSeq(buffer, n + 1, Len(buffer))
  BY DEF Sends
<1>3. n \in 0..Len(buffer)
  BY <1>1
<1>4. SubSeq(buffer, 1, n) \in Seq(Chunk) /\ SubSeq(buffer, n + 1, Len(buffer)) \in Seq(Chunk)
  BY <1>1, <1>3, SplitAt
<1> QED
  BY <1>1, <1>2, <1>4, ConcatProperties

(* read() returns some of what is left, and at least one byte.             *)
LEMMA ReadsPart ==
  ASSUME IInv, NEW c \in Client, Reads(c)
  PROVE  \E n \in Nat : /\ f_pos < n /\ n <= Len(Content)
                        /\ buffer' = SubSeq(Content, f_pos + 1, n) /\ buffer' \in Seq(Chunk)
                        /\ f_pos' = n
<1> DEFINE n == Min({f_pos + SendSize, Len(Content)})
<1>1. Content \in Seq(Chunk) /\ Len(Content) \in Nat /\ f_pos \in Nat
  BY ContentType DEF IInv, Inv, TypeOK
<1>2. f_pos < Len(Content)
  BY DEF Reads
<1>3. n \in {f_pos + SendSize, Len(Content)} /\ n <= f_pos + SendSize /\ n <= Len(Content)
  BY <1>1, SizesAssumption DEF Min
<1>4. n \in Nat /\ f_pos < n
  BY <1>1, <1>2, <1>3, SizesAssumption
<1>5. buffer' = SubSeq(Content, f_pos + 1, n) /\ f_pos' = f_pos + Len(buffer')
  BY DEF Reads
<1> DEFINE m == f_pos + 1
<1>6. m \in Int /\ \A i \in m..n : Content[i] \in Chunk
  BY <1>1, <1>3, <1>4, ElementOfSeq
<1>7. (IF m <= n THEN n - m + 1 ELSE 0) = n - f_pos
  BY <1>1, <1>4
<1> HIDE DEF n, m
<1>8. /\ SubSeq(Content, m, n) \in Seq(Chunk)
      /\ Len(SubSeq(Content, m, n)) = IF m <= n THEN n - m + 1 ELSE 0
  BY <1>4, <1>6, SubSeqProperties
<1>9. f_pos' = f_pos + (n - f_pos)
  BY <1>5, <1>7, <1>8 DEF m
<1>10. f_pos' = n
  BY <1>1, <1>4, <1>9
<1> QED
  BY <1>3, <1>4, <1>5, <1>8, <1>10 DEF m

(* While the place is sought and the reply sent, the device stays as it is. *)
LEMMA RepliesKeepInv ==
  ASSUME IInv, NEW c \in Client,
         \/ FindsPlace(c) \/ FindsNoPlace(c) \/ Reads(c) \/ ReadsEnd(c)
         \/ Sends(c) \/ SendFails(c)
  PROVE  Inv' /\ Torn' = Torn
<1> USE DEF IInv, Inv
<1>1. /\ UNCHANGED <<lines, partial, pieces, log_file_mutex, packet, open>>
      /\ pc[c] \in {"ioctl", "send"}
      /\ \/ pc' = pc
         \/ pc' = [pc EXCEPT ![c] = "send"] \/ pc' = [pc EXCEPT ![c] = "close"]
  BY DEF FindsPlace, FindsNoPlace, Reads, ReadsEnd, Sends, SendFails, SendsFrom
<1>2. RestOfPacket' /\ Torn' = Torn
  <2>1. \A d \in Client : At(d, "write") <=> pc'[d] = "write"
    BY <1>1
  <2> QED
    BY <1>1, <2>1, RestStays
<1>3. buffer' \in Seq(Chunk) /\ sent' \in Seq(Chunk) /\ f_pos' \in Nat /\ failed' \in BOOLEAN
  <2>1. CASE FindsPlace(c)
    <3>1. At(c, "ioctl") /\ HasPlace(Seekto[packet[c]])
          /\ SendsFrom(c, OffsetOf(Seekto[packet[c]])) /\ sent' = sent
      BY <2>1 DEF FindsPlace
    <3>2. OffsetOf(Seekto[packet[c]]) \in Nat
      BY <3>1, SeektoType, OffsetOfType
    <3>3. buffer' = <<>> /\ f_pos' \in Nat /\ failed' \in BOOLEAN
      BY <3>1, <3>2, SendsFromIs
    <3> QED
      BY <3>1, <3>3, EmptySeq DEF TypeOK
  <2>2. CASE Reads(c)
    <3>1. buffer' \in Seq(Chunk) /\ f_pos' \in Nat
      BY <2>2, ReadsPart
    <3> QED
      BY <2>2, <3>1 DEF Reads, TypeOK
  <2>3. CASE Sends(c)
    BY <2>3, SendsType DEF Sends, TypeOK
  <2>4. CASE FindsNoPlace(c) \/ ReadsEnd(c) \/ SendFails(c)
    BY <2>4, EmptySeq DEF FindsNoPlace, ReadsEnd, SendFails, TypeOK
  <2> QED
    BY <2>1, <2>2, <2>3, <2>4
<1>4. TypeOK'
  BY <1>1, <1>3 DEF TypeOK
<1>5. CallsProgress'
  <2>1. log_file_mutex = c
    BY <1>1
  <2>2. \A d \in Client : pc'[d] \in {"lock", "write", "ioctl"} => pc'[d] = pc[d]
    BY <1>1
  <2>3. \A d \in Client : pc'[d] \in {"write", "ioctl"} => d = c
    BY <1>1, <2>1
  <2>4. pc'[c] \in {"send", "close"}
    BY <1>1 DEF Sends, FindsPlace, FindsNoPlace, Reads, ReadsEnd, SendFails, SendsFrom
  <2> QED
    BY <1>1, <2>1, <2>2, <2>3, <2>4 DEF CallsProgress
<1> QED
  BY <1>2, <1>4, <1>5

LEMMA UnlocksKeepsInv ==
  ASSUME IInv, NEW c \in Client, Unlocks(c)
  PROVE  Inv' /\ Torn' = Torn
<1> USE DEF IInv, Inv
<1>1. /\ UNCHANGED <<lines, partial, pieces, buffer>>
      /\ log_file_mutex' = NULL /\ f_pos' = 0 /\ sent' = <<>> /\ failed' = FALSE
      /\ packet' = [packet EXCEPT ![c] = NULL]
      /\ pc[c] = "close" /\ log_file_mutex = c
      /\ pc' = [pc EXCEPT ![c] = "gone"] \/ pc' = [pc EXCEPT ![c] = "recv"]
      /\ open' \in [Client -> BOOLEAN]
  BY DEF Unlocks, TypeOK
<1>2. RestOfPacket' /\ Torn' = Torn
  <2>1. (\A d \in Client : ~At(d, "write")) /\ (\A d \in Client : pc'[d] # "write")
    BY <1>1
  <2>2. pieces' = <<>> /\ Torn = partial
    BY <1>1, <2>1 DEF RestOfPacket, Torn
  <2> QED
    BY <1>1, <2>1, <2>2, NobodyWrites
<1>3. TypeOK'
  BY <1>1, EmptySeq DEF TypeOK
<1>4. CallsProgress'
  BY <1>1 DEF CallsProgress
<1> QED
  BY <1>2, <1>3, <1>4

LEMMA RestartsKeepsInv ==
  ASSUME IInv, Restarts
  PROVE  Inv' /\ Torn' = partial'
<1> USE DEF IInv, Inv
<1>1. RestOfPacket' /\ Torn' = partial'
  BY NobodyWrites DEF Restarts
<1>2. lines' = lines /\ partial' \in Seq(Chunk)
  <2>1. CASE UNCHANGED deviceVars
    BY <2>1 DEF TypeOK
  <2>2. CASE Len(pieces) = 1 /\ Device!Killed(Head(pieces))
    <3>1. pieces \in Seq(Chunk) /\ pieces # <<>> /\ partial \in Seq(Chunk)
      <4>1. pieces \in Seq(Chunk) /\ partial \in Seq(Chunk) /\ Len(pieces) = 1
        BY <2>2 DEF TypeOK
      <4>2. Len(<<>>) = 0
        BY EmptySeq
      <4> QED
        BY <4>1, <4>2
    <3>2. Head(pieces) \in Chunk
      BY <3>1, HeadTailProperties
    <3>3. Append(partial, Head(pieces)) \in Seq(Chunk)
      BY <3>1, <3>2, AppendProperties
    <3> QED
      BY <2>2, <3>3 DEF Device!Killed
  <2> QED
    BY <2>1, <2>2 DEF Restarts
<1>3. TypeOK'
  BY <1>2, EmptySeq DEF TypeOK, Restarts
<1>4. CallsProgress'
  BY DEF CallsProgress, Restarts
<1> QED
  BY <1>1, <1>3, <1>4

LEMMA NextKeepsIInv == IInv /\ [Next]_vars => IInv'
<1> SUFFICES ASSUME IInv, [Next]_vars PROVE Inv'
  BY NextKeepsOneUser DEF IInv
<1>1. ASSUME NEW c \in Client, Works(c) PROVE Inv'
  <2>1. CASE WritesPiece(c)
    BY <2>1, WritesPieceKeepsInv
  <2>2. CASE WritesLast(c) \/ WriteFails(c)
    BY <2>2, WriteEndsKeepsInv
  <2>3. CASE FindsPlace(c) \/ FindsNoPlace(c) \/ Reads(c) \/ ReadsEnd(c) \/ SendFails(c)
    BY <2>3, RepliesKeepInv
  <2>4. CASE Unlocks(c)
    BY <2>4, UnlocksKeepsInv
  <2> QED
    BY <1>1, <2>1, <2>2, <2>3, <2>4 DEF Works
<1>2. ASSUME NEW c \in Client, Sends(c) \/ SendFails(c) PROVE Inv'
  BY <1>2, RepliesKeepInv
<1>3. ASSUME NEW c \in Client, Connects(c) \/ Closes(c) \/ Receives(c) \/ ReceivesEnd(c)
      PROVE  Inv'
  BY <1>3, OutsideKeepsInv
<1>4. ASSUME NEW c \in Client, Locks(c) PROVE Inv'
  BY <1>4, LocksKeepsInv
<1>5. CASE Restarts
  BY <1>5, RestartsKeepsInv
<1>6. CASE UNCHANGED vars
  <2>1. RestOfPacket'
    BY <1>6, RestStays DEF vars
  <2> QED
    BY <1>6, <2>1 DEF vars, IInv, Inv, TypeOK, CallsProgress
<1> QED
  BY <1>1, <1>2, <1>3, <1>4, <1>5, <1>6 DEF Next

(* Whatever is received, in whatever order threads take the mutex, and     *)
(* whatever fails, what a thread has left to write is the rest of its own  *)
(* packet and what it has written the end of the line begun: a failed      *)
(* write leaves nothing for the next packet (aesdsocket_client.c:277-281); *)
(* and a reply begins only when its packet is written or its place found   *)
(* (aesdsocket_client.c:236-309).                                          *)
THEOREM PacketsStayWhole == Spec => []Inv
<1>1. IInv => Inv
  BY DEF IInv
<1> QED
  BY <1>1, InitIInv, NextKeepsIInv, PTL DEF Spec
-----------------------------------------------------------------------------
(* The server implements LogService, step by step.                         *)

LEMMA ChangesOne ==
  ASSUME NEW D, NEW T, NEW c \in D, NEW f \in [D -> T], NEW g \in [D -> T],
         \A d \in D \ {c} : g[d] = f[d]
  PROVE  /\ g = [f EXCEPT ![c] = g[c]]
         /\ g[c] = f[c] => g = f
OBVIOUS

LEMMA RestType == TypeOK => Rest \in Seq(Chunk)
<1> SUFFICES ASSUME TypeOK PROVE Rest \in Seq(Chunk)
  OBVIOUS
<1> DEFINE m == f_pos + 1
<1>1. Content \in Seq(Chunk) /\ Len(Content) \in Nat /\ f_pos \in Nat
  BY ContentType DEF TypeOK
<1>2. m \in Int /\ \A i \in m..Len(Content) : Content[i] \in Chunk
  BY <1>1, ElementOfSeq
<1> HIDE DEF m
<1>3. SubSeq(Content, m, Len(Content)) \in Seq(Chunk)
  BY <1>1, <1>2, SubSeqProperties
<1> QED
  BY <1>3 DEF Rest, m

(* From the start of the log it is all of it.                              *)
LEMMA RestFromStart ==
  ASSUME TypeOK, f_pos = 0
  PROVE  Rest = Content
<1>1. Content \in Seq(Chunk) /\ 0 + 1 = 1
  BY ContentType
<1> QED
  BY <1>1, SubSeqFull DEF Rest

(* What clients are shown is of the kind LogService speaks of.             *)
ViewOK ==
  /\ Status \in [Client -> {"idle", "asked", "served", "cut", "gone"}]
  /\ Reply \in [Client -> Seq(Chunk)]
  /\ Rest \in Seq(Chunk)
  /\ f_pos = 0 => Rest = Content

LEMMA ViewType == IInv => ViewOK
<1> SUFFICES ASSUME IInv PROVE ViewOK
  OBVIOUS
<1>1. Status \in [Client -> {"idle", "asked", "served", "cut", "gone"}]
  BY DEF IInv, Status
<1>2. sent \in Seq(Chunk) /\ buffer \in Seq(Chunk) /\ Rest \in Seq(Chunk)
  BY RestType DEF IInv, Inv, TypeOK
<1>3. sent \o buffer \in Seq(Chunk)
  BY <1>2, ConcatProperties
<1>4. WholeReply \in Seq(Chunk)
  BY <1>2, <1>3, ConcatProperties DEF WholeReply
<1>5. <<>> \in Seq(Chunk)
  BY EmptySeq
<1>6. Reply \in [Client -> Seq(Chunk)]
  BY <1>2, <1>4, <1>5 DEF Reply
<1> QED
  BY <1>1, <1>2, <1>6, RestFromStart DEF ViewOK, IInv, Inv

(* LogService's sequences are those of LogProtocol.                        *)
LEMMA SameOperators ==
  /\ \A s : Service!FlattenSeq(s) = FlattenSeq(s)
  /\ \A s : Service!Prefixes(s) = Prefixes(s)
BY DEF Service!FlattenSeq, FlattenSeq, Service!Prefixes, Prefixes

(* A client sees nothing of what another client's thread does: while that  *)
(* thread works on the stream, no reply of its own is on the way.          *)
LEMMA OthersSeeNothing ==
  ASSUME IInv, NEW c \in Client, NEW d \in Client, d # c, pc'[d] = pc[d],
         log_file_mutex \in {c, NULL} \/ UNCHANGED <<lines, streamVars>>
  PROVE  Status'[d] = Status[d] /\ Reply'[d] = Reply[d]
<1>1. CASE UNCHANGED <<lines, streamVars>>
  <2>1. WholeReply' = WholeReply
    BY <1>1 DEF Rest, Content, WholeReply
  <2>2. (failed' <=> failed) /\ sent' = sent
    BY <1>1
  <2>3. Status'[d] = Status[d]
    <3>1. CASE pc[d] \in {"send", "close"}
      <4>1. /\ Status[d] = IF failed THEN "cut" ELSE "served"
            /\ Status'[d] = IF failed' THEN "cut" ELSE "served"
        BY <3>1 DEF Status
      <4> QED
        BY <2>2, <4>1
    <3>2. CASE pc[d] \notin {"send", "close"}
      BY <3>2 DEF Status, IInv
    <3> QED
      BY <3>1, <3>2
  <2>4. Reply'[d] = Reply[d]
    <3>1. CASE pc[d] = "send"
      BY <2>1, <3>1 DEF Reply
    <3>2. CASE pc[d] = "close"
      BY <2>2, <3>2 DEF Reply
    <3>3. CASE pc[d] \notin {"send", "close"}
      BY <3>3 DEF Reply
    <3> QED
      BY <3>1, <3>2, <3>3
  <2> QED
    BY <2>3, <2>4
<1>2. CASE log_file_mutex \in {c, NULL}
  <2>1. pc[d] \in {"recv", "lock", "gone"}
    BY <1>2 DEF IInv
  <2> QED
    BY <2>1 DEF Status, Reply
<1> QED
  BY <1>1, <1>2

(* So a step of one thread shows in what its own client sees.              *)
LEMMA OneSees ==
  ASSUME IInv, IInv', NEW c \in Client, \A d \in Client \ {c} : pc'[d] = pc[d],
         log_file_mutex \in {c, NULL} \/ UNCHANGED <<lines, streamVars>>
  PROVE  /\ Status' = [Status EXCEPT ![c] = Status'[c]]
         /\ Reply' = [Reply EXCEPT ![c] = Reply'[c]]
         /\ Status'[c] = Status[c] => Status' = Status
         /\ Reply'[c] = Reply[c] => Reply' = Reply
<1>1. \A d \in Client \ {c} : Status'[d] = Status[d] /\ Reply'[d] = Reply[d]
  BY OthersSeeNothing
<1>2. ViewOK /\ ViewOK'
  BY ViewType, PTL
<1>3. /\ Status' = [Status EXCEPT ![c] = Status'[c]]
      /\ Status'[c] = Status[c] => Status' = Status
  BY <1>1, <1>2, ChangesOne DEF ViewOK
<1>4. /\ Reply' = [Reply EXCEPT ![c] = Reply'[c]]
      /\ Reply'[c] = Reply[c] => Reply' = Reply
  BY <1>1, <1>2, ChangesOne DEF ViewOK
<1> QED
  BY <1>3, <1>4

SeenTheSame == UNCHANGED <<lines, Torn, packet, Status, Reply>>

(* recv(), and connections that come and go.                               *)
LEMMA OutsideStep ==
  ASSUME IInv, IInv', NEW c \in Client,
         Connects(c) \/ Closes(c) \/ Receives(c) \/ ReceivesEnd(c)
  PROVE  Service!Come(c) \/ Service!Ask(c) \/ Service!Leave(c) \/ SeenTheSame
<1>1. UNCHANGED <<lines, streamVars>> /\ \A d \in Client \ {c} : pc'[d] = pc[d]
  BY DEF IInv, Connects, Closes, Receives, ReceivesEnd
<1>2. Torn' = Torn
  BY OutsideKeepsInv
<1>3. /\ Status' = [Status EXCEPT ![c] = Status'[c]]
      /\ Status'[c] = Status[c] => Status' = Status
      /\ Reply'[c] = Reply[c] => Reply' = Reply
  BY <1>1, OneSees
<1>4. CASE Connects(c)
  <2>1. /\ Status[c] = "gone" /\ Status'[c] = "idle" /\ Reply'[c] = Reply[c]
        /\ packet' = packet
    BY <1>4 DEF Connects, Status, Reply, IInv
  <2> QED
    BY <1>1, <1>2, <1>3, <2>1 DEF Service!Come
<1>5. CASE Closes(c)
  <2>1. pc' = pc /\ packet' = packet
    BY <1>5 DEF Closes
  <2>2. Status' = Status /\ Reply' = Reply
    BY <1>1, <2>1 DEF Status, Reply, WholeReply, Rest, Content
  <2> QED
    BY <1>1, <1>2, <2>1, <2>2 DEF SeenTheSame
<1>6. CASE Receives(c)
  <2>1. /\ Status[c] = "idle" /\ Status'[c] = "asked" /\ Reply'[c] = Reply[c]
        /\ \E p \in Packet : packet' = [packet EXCEPT ![c] = p]
    BY <1>6 DEF Receives, Status, Reply, IInv
  <2> QED
    BY <1>1, <1>2, <1>3, <2>1 DEF Service!Ask
<1>7. CASE ReceivesEnd(c)
  <2>1. /\ Status[c] = "idle" /\ Status'[c] = "gone" /\ Reply'[c] = Reply[c]
        /\ packet' = packet
    BY <1>7 DEF ReceivesEnd, Status, Reply, IInv
  <2> QED
    BY <1>1, <1>2, <1>3, <2>1 DEF Service!Leave
<1> QED
  BY <1>4, <1>5, <1>6, <1>7

(* Taking the mutex, and writing all but the last piece, changes nothing a *)
(* client sees.                                                            *)
LEMMA QuietStep ==
  ASSUME IInv, IInv', NEW c \in Client, Locks(c) \/ WritesPiece(c)
  PROVE  SeenTheSame
<1>1. log_file_mutex \in {c, NULL} /\ \A d \in Client \ {c} : pc'[d] = pc[d]
  BY DEF IInv, Locks, WritesPiece
<1>2. Torn' = Torn
  BY LocksKeepsInv, WritesPieceKeepsInv
<1>3. lines' = lines /\ packet' = packet
  BY DEF Locks, WritesPiece, Device!Extend
<1>4. /\ pc[c] \in {"lock", "write"}  /\ pc'[c] \in {"write", "ioctl"}
  BY DEF Locks, WritesPiece, IInv
<1>5. Status'[c] = Status[c] /\ Reply'[c] = Reply[c]
  BY <1>4 DEF Status, Reply
<1> QED
  BY <1>1, <1>2, <1>3, <1>5, OneSees DEF SeenTheSame
(* What is sent from a place on is the answer, unless fseek() fails.       *)
LEMMA SendsFromServes ==
  ASSUME IInv, IInv', NEW c \in Client, pc[c] \in {"write", "ioctl"},
         NEW position, SendsFrom(c, position), sent' = sent,
         NEW answer, f_pos' = position => Rest' = answer
  PROVE  Status[c] = "asked" /\ Service!Served(c, answer)
<1>1. log_file_mutex = c /\ sent = <<>> /\ ~failed /\ Status[c] = "asked" /\ Reply[c] = <<>>
  BY DEF IInv, Inv, CallsProgress, Status, Reply
<1>2. \A d \in Client \ {c} : pc'[d] = pc[d]
  BY DEF SendsFrom, IInv
<1>3. /\ Status' = [Status EXCEPT ![c] = Status'[c]]
      /\ Reply' = [Reply EXCEPT ![c] = Reply'[c]]
      /\ Reply'[c] = Reply[c] => Reply' = Reply
  BY <1>1, <1>2, OneSees
<1>4. CASE f_pos' = position /\ Goes(c, "send") /\ UNCHANGED failed
  <2>1. Status'[c] = "served" /\ Reply'[c] = WholeReply'
    BY <1>1, <1>4 DEF Status, Reply, IInv
  <2>2. WholeReply' = (<<>> \o <<>>) \o Rest'
    BY <1>1 DEF WholeReply, SendsFrom
  <2>3. Rest' \in Seq(Chunk)
    <3>1. ViewOK'
      BY ViewType, PTL
    <3> QED
      BY <3>1 DEF ViewOK
  <2>4. WholeReply' = Rest'
    <3> DEFINE r == Rest'
    <3>1. r \in Seq(Chunk) /\ WholeReply' = (<<>> \o <<>>) \o r
      BY <2>2, <2>3
    <3> HIDE DEF r
    <3>2. <<>> \o <<>> = <<>> /\ <<>> \o r = r
      BY <3>1, EmptySeq, ConcatEmptySeq
    <3> QED
      BY <3>1, <3>2 DEF r
  <2> QED
    BY <1>1, <1>3, <1>4, <2>1, <2>4 DEF Service!Served
<1>5. CASE failed' = TRUE /\ Goes(c, "close")
  <2>1. Status'[c] = "cut" /\ Reply'[c] = <<>>
    BY <1>1, <1>5 DEF Status, Reply, IInv
  <2> QED
    BY <1>1, <1>3, <2>1 DEF Service!Served
<1> QED
  BY <1>4, <1>5 DEF SendsFrom
(* The last piece completes the line: what is left of lines lost, and the  *)
(* whole packet.                                                           *)
LEMMA LineIsWhole ==
  ASSUME IInv, NEW c \in Client, At(c, "write"), Len(pieces) = 1
  PROVE  Append(partial, Head(pieces)) = Torn \o Pieces[packet[c]]
<1> DEFINE whole == Pieces[packet[c]]
           k == Written(c)
           line == Append(partial, Head(pieces))
<1>2. /\ whole \in Seq(Chunk) /\ Len(whole) \in Nat /\ k \in Nat /\ k < Len(whole)
      /\ pieces = SubSeq(whole, k + 1, Len(whole))
      /\ Len(pieces) = Len(whole) - k
      /\ Torn \in Seq(Chunk) /\ Len(Torn) \in Nat /\ Len(partial) = Len(Torn) + k
      /\ \A i \in 1..Len(Torn) : Torn[i] = partial[i]
      /\ \A i \in 1..k : partial[Len(Torn) + i] = whole[i]
  BY WriterHas
<1>3. partial \in Seq(Chunk)
  BY DEF IInv, Inv, TypeOK
<1> HIDE DEF whole, k
<1>4. Len(whole) = k + 1
  BY <1>2
<1>5. whole[k + 1] \in Chunk /\ Head(pieces) = whole[k + 1]
  BY <1>2, TakeOne
<1>6. /\ line \in Seq(Chunk) /\ Len(line) = Len(partial) + 1
      /\ \A i \in 1..Len(partial) : line[i] = partial[i]
      /\ line[Len(partial) + 1] = whole[k + 1]
  <2> DEFINE e == Head(pieces)
  <2>1. e \in Chunk /\ e = whole[k + 1]
    BY <1>5
  <2> HIDE DEF e
  <2>2. /\ Append(partial, e) \in Seq(Chunk) /\ Len(Append(partial, e)) = Len(partial) + 1
        /\ \A i \in 1..Len(partial) : Append(partial, e)[i] = partial[i]
        /\ Append(partial, e)[Len(partial) + 1] = e
    BY <1>3, <2>1, AppendProperties
  <2> QED
    BY <2>1, <2>2 DEF e
<1> HIDE DEF line
<1>7. Len(line) = Len(Torn) + Len(whole)
  BY <1>2, <1>4, <1>6
<1>8. \A i \in 1..Len(Torn) : line[i] = Torn[i]
  BY <1>2, <1>6
<1>9. ASSUME NEW i \in 1..Len(whole) PROVE line[Len(Torn) + i] = whole[i]
  <2>1. CASE i \in 1..k
    <3>1. Len(Torn) + i \in 1..Len(partial)
      BY <1>2, <2>1
    <3> QED
      BY <1>2, <1>6, <2>1, <3>1
  <2>2. CASE i = k + 1
    <3>1. Len(Torn) + i = Len(partial) + 1
      BY <1>2, <2>2
    <3> QED
      BY <1>6, <2>2, <3>1
  <2> QED
    BY <1>2, <1>4, <2>1, <2>2
<1>10. line = Torn \o whole
  BY <1>2, <1>6, <1>7, <1>8, <1>9, Joins
<1> QED
  BY <1>10 DEF line, whole

LEMMA WritesLastStep ==
  ASSUME IInv, IInv', NEW c \in Client, WritesLast(c)
  PROVE  Service!AddLine(c)
<1>1. /\ pc[c] = "write" /\ SendsFrom(c, 0) /\ sent' = sent /\ packet' = packet
      /\ Device!Complete(Head(pieces)) /\ Len(pieces) = 1
  BY DEF WritesLast
<1>2. Torn' = <<>>
  BY <1>1, WriteEndsKeepsInv DEF Device!Complete
<1>3. lines' = Service!Newest(Torn \o Pieces[packet[c]])
  BY <1>1, LineIsWhole DEF Device!Complete, Service!Newest
<1>4. Seekto[packet[c]] = NULL
  BY <1>1 DEF IInv, Inv, CallsProgress
<1>5. f_pos' = 0 => Rest' = FlattenSeq(lines')
  <2>1. ViewOK'
    BY ViewType, PTL
  <2> QED
    BY <2>1 DEF ViewOK, Content
<1>6. Status[c] = "asked" /\ Service!Served(c, FlattenSeq(lines'))
  BY <1>1, <1>5, SendsFromServes
<1> QED
  BY <1>1, <1>2, <1>3, <1>4, <1>6, SameOperators DEF Service!AddLine
(* What has been written of a packet are its first pieces.                 *)
LEMMA LineBegun ==
  ASSUME IInv, NEW c \in Client, At(c, "write")
  PROVE  \E begun \in Prefixes(Pieces[packet[c]]) : partial = Torn \o begun
<1> DEFINE whole == Pieces[packet[c]]
           k == Written(c)
           begun == SubSeq(whole, 1, k)
<1>1. /\ whole \in Seq(Chunk) /\ Len(whole) \in Nat /\ k \in Nat /\ k < Len(whole)
      /\ Torn \in Seq(Chunk) /\ Len(Torn) \in Nat /\ Len(partial) = Len(Torn) + k
      /\ \A i \in 1..Len(Torn) : Torn[i] = partial[i]
      /\ \A i \in 1..k : partial[Len(Torn) + i] = whole[i]
  BY WriterHas
<1>2. partial \in Seq(Chunk)
  BY DEF IInv, Inv, TypeOK
<1> HIDE DEF whole, k
<1>3. k \in 0..Len(whole)
  BY <1>1
<1>4. begun \in Seq(Chunk) /\ Len(begun) = k /\ \A i \in 1..k : begun[i] = whole[i]
  BY <1>1, <1>3, SplitAt
<1>5. begun \in Prefixes(whole)
  BY <1>3 DEF Prefixes
<1> HIDE DEF begun
<1>6. partial = Torn \o begun
  <2>1. Len(partial) = Len(Torn) + Len(begun)
    BY <1>1, <1>4
  <2>2. \A i \in 1..Len(Torn) : partial[i] = Torn[i]
    BY <1>1
  <2>3. \A i \in 1..Len(begun) : partial[Len(Torn) + i] = begun[i]
    BY <1>1, <1>4
  <2> QED
    BY <1>1, <1>2, <1>4, <2>1, <2>2, <2>3, Joins
<1> QED
  BY <1>5, <1>6 DEF whole

LEMMA WriteFailsStep ==
  ASSUME IInv, IInv', NEW c \in Client, WriteFails(c)
  PROVE  Service!LoseLine(c)
<1>1. /\ pc[c] = "write" /\ SendsFrom(c, 0) /\ sent' = sent /\ packet' = packet
      /\ lines' = lines
      /\ partial' \in {<<>>, partial}
  BY DEF WriteFails, Device!NoMemory
<1>2. Torn' = partial'
  BY WriteEndsKeepsInv
<1>3. PICK begun \in Prefixes(Pieces[packet[c]]) : partial = Torn \o begun
  BY <1>1, LineBegun
<1>4. Torn' \in {<<>>} \cup {Torn \o b : b \in Service!Begun(packet[c])}
  BY <1>1, <1>2, <1>3, SameOperators DEF Service!Begun
<1>5. Seekto[packet[c]] = NULL
  BY <1>1 DEF IInv, Inv, CallsProgress
<1>6. f_pos' = 0 => Rest' = FlattenSeq(lines)
  <2>1. ViewOK'
    BY ViewType, PTL
  <2>2. Content' = FlattenSeq(lines)
    BY <1>1 DEF Content
  <2> QED
    BY <2>1, <2>2 DEF ViewOK
<1>7. Status[c] = "asked" /\ Service!Served(c, FlattenSeq(lines))
  BY <1>1, <1>6, SendsFromServes
<1>8. Service!Served(c, Service!FlattenSeq(lines))
  BY <1>7, SameOperators
<1> QED
  BY <1>1, <1>4, <1>5, <1>7, <1>8 DEF Service!LoseLine

(* What send_file sends from the offset of a place on is the log from that *)
(* place on.                                                               *)
LEMMA PlaceIsOffset ==
  ASSUME TypeOK, NEW t \in [write_cmd : Nat, write_cmd_offset : Nat], HasPlace(t)
  PROVE  SubSeq(Content, OffsetOf(t) + 1, Len(Content)) = Service!FromPlace(t)
<1> DEFINE i == t.write_cmd
           k == t.write_cmd_offset
           before == FlattenSeq(SubSeq(lines, 1, i))
           rest == FlattenSeq(SubSeq(lines, i + 1, Len(lines)))
<1>1. lines \in Seq(Seq(Chunk)) /\ i \in 0..Len(lines) /\ k \in Nat
  BY OffsetOfType DEF TypeOK
<1>2. OffsetOf(t) = Len(before) + k
  BY DEF OffsetOf
<1>3. Service!FromPlace(t) = SubSeq(rest, k + 1, Len(rest))
  BY SameOperators DEF Service!FromPlace
<1> HIDE DEF i, k
<1>4. /\ SubSeq(lines, 1, i) \in Seq(Seq(Chunk))
      /\ SubSeq(lines, i + 1, Len(lines)) \in Seq(Seq(Chunk))
  BY <1>1, FlattenSplit
<1>5. Content = before \o rest
  BY <1>1, FlattenSplit DEF Content
<1>6. before \in Seq(Chunk) /\ rest \in Seq(Chunk)
  BY <1>4, FlattenType
<1> HIDE DEF before, rest
<1>7. SubSeq(before \o rest, Len(before) + k + 1, Len(before \o rest))
        = SubSeq(rest, k + 1, Len(rest))
  BY <1>1, <1>6, SuffixOfConcat
<1> QED
  BY <1>2, <1>3, <1>5, <1>7

LEMMA FindsPlaceStep ==
  ASSUME IInv, IInv', NEW c \in Client, FindsPlace(c)
  PROVE  Service!FindPlace(c)
<1> DEFINE t == Seekto[packet[c]]
<1>1. /\ pc[c] = "ioctl" /\ SendsFrom(c, OffsetOf(t)) /\ HasPlace(t)
      /\ UNCHANGED <<sent, packet, lines>>
  BY DEF FindsPlace
<1>2. t \in [write_cmd : Nat, write_cmd_offset : Nat] /\ t # NULL
  BY <1>1, SeektoType DEF IInv, Inv, CallsProgress
<1>3. Torn' = Torn
  BY RepliesKeepInv
<1> HIDE DEF t
<1>4. f_pos' = OffsetOf(t) => Rest' = Service!FromPlace(t)
  <2>1. SubSeq(Content, OffsetOf(t) + 1, Len(Content)) = Service!FromPlace(t)
    BY <1>1, <1>2, PlaceIsOffset DEF IInv, Inv
  <2>2. Content' = Content
    BY <1>1 DEF Content
  <2> QED
    BY <2>1, <2>2 DEF Rest
<1>5. Status[c] = "asked" /\ Service!Served(c, Service!FromPlace(t))
  BY <1>1, <1>4, SendsFromServes
<1>6. Service!HasPlace(t)
  BY <1>1 DEF HasPlace, Service!HasPlace
<1> QED
  BY <1>1, <1>2, <1>3, <1>5, <1>6 DEF Service!FindPlace, t

LEMMA FindsNoPlaceStep ==
  ASSUME IInv, IInv', NEW c \in Client, FindsNoPlace(c)
  PROVE  Service!Refuse(c)
<1>1. /\ pc[c] = "ioctl" /\ ~HasPlace(Seekto[packet[c]]) /\ failed' = TRUE
      /\ pc' = [pc EXCEPT ![c] = "close"] /\ UNCHANGED <<sent, packet, lines>>
      /\ log_file_mutex = c
  BY DEF FindsNoPlace, IInv
<1>2. Seekto[packet[c]] # NULL /\ sent = <<>>
  BY <1>1 DEF IInv, Inv, CallsProgress
<1>3. Torn' = Torn
  BY RepliesKeepInv
<1>4. ~Service!HasPlace(Seekto[packet[c]])
  BY <1>1 DEF HasPlace, Service!HasPlace
<1>5. Status[c] = "asked" /\ Status'[c] = "cut" /\ Reply'[c] = Reply[c]
  BY <1>1, <1>2 DEF Status, Reply, IInv
<1>6. Status' = [Status EXCEPT ![c] = Status'[c]] /\ Reply' = Reply
  <2>1. \A d \in Client \ {c} : pc'[d] = pc[d]
    BY <1>1 DEF IInv
  <2> QED
    BY <1>1, <1>5, <2>1, OneSees
<1> QED
  BY <1>1, <1>2, <1>3, <1>4, <1>5, <1>6 DEF Service!Refuse
(* What send_file has sent, has read, and has not yet read.                *)
LEMMA SendTypes ==
  ASSUME IInv, NEW c \in Client, At(c, "send")
  PROVE  /\ sent \in Seq(Chunk) /\ buffer \in Seq(Chunk) /\ Rest \in Seq(Chunk)
         /\ Reply[c] = (sent \o buffer) \o Rest
         /\ log_file_mutex = c
BY ViewType DEF IInv, Inv, TypeOK, ViewOK, Reply, WholeReply

(* Reading and sending on, the reply stays what it was.                    *)
LEMMA ReadsSame ==
  ASSUME IInv, NEW c \in Client, Reads(c)
  PROVE  WholeReply' = WholeReply
<1>1. /\ At(c, "send") /\ buffer = <<>> /\ sent' = sent /\ Content' = Content
  BY DEF Reads, Content
<1>2. sent \in Seq(Chunk) /\ Content \in Seq(Chunk) /\ f_pos \in Nat
  BY ContentType DEF IInv, Inv, TypeOK
<1>3. PICK n \in Nat : /\ f_pos <= n /\ n <= Len(Content)
                       /\ buffer' = SubSeq(Content, f_pos + 1, n)
                       /\ f_pos' = n
  BY <1>2, ReadsPart
<1> DEFINE b == SubSeq(Content, f_pos + 1, n)
           r == SubSeq(Content, n + 1, Len(Content))
<1>4. b \in Seq(Chunk) /\ r \in Seq(Chunk) /\ b \o r = Rest
  BY <1>2, <1>3, TakePart DEF Rest
<1>5. WholeReply' = (sent \o b) \o r
  <2>1. sent' = sent /\ buffer' = b
    BY <1>1, <1>3
  <2>2. Rest' = r
    BY <1>1, <1>3 DEF Rest
  <2> HIDE DEF b, r
  <2> QED
    BY <2>1, <2>2 DEF WholeReply
<1> HIDE DEF b, r
<1>6. (sent \o b) \o r = sent \o (b \o r)
  <2>1. sent \in Seq(Chunk) /\ b \in Seq(Chunk) /\ r \in Seq(Chunk)
    BY <1>2, <1>4
  <2> QED
    BY <2>1, ConcatAssociative
<1>7. WholeReply = (sent \o <<>>) \o Rest
  BY <1>1 DEF WholeReply
<1>8. sent \o <<>> = sent
  BY <1>2, ConcatEmptySeq
<1> QED
  BY <1>4, <1>5, <1>6, <1>7, <1>8

LEMMA SendsSame ==
  ASSUME IInv, NEW c \in Client, Sends(c)
  PROVE  WholeReply' = WholeReply
<1>1. sent \in Seq(Chunk) /\ buffer \in Seq(Chunk) /\ Len(buffer) \in Nat
  BY LenProperties DEF IInv, Inv, TypeOK
<1>2. PICK n \in 1..Len(buffer) : /\ sent' = sent \o SubSeq(buffer, 1, n)
                                 /\ buffer' = SubSeq(buffer, n + 1, Len(buffer))
  BY DEF Sends
<1> DEFINE a == SubSeq(buffer, 1, n)
           b == SubSeq(buffer, n + 1, Len(buffer))
<1>3. n \in 0..Len(buffer)
  BY <1>1
<1>4. a \in Seq(Chunk) /\ b \in Seq(Chunk) /\ buffer = a \o b
  BY <1>1, <1>3, SplitAt
<1>5. WholeReply' = ((sent \o a) \o b) \o Rest
  BY <1>2 DEF WholeReply, Rest, Content, Sends
<1>6. WholeReply = (sent \o buffer) \o Rest
  BY DEF WholeReply
<1> HIDE DEF a, b
<1>7. (sent \o a) \o b = sent \o (a \o b)
  BY <1>1, <1>4, ConcatAssociative
<1> QED
  BY <1>4, <1>5, <1>6, <1>7

LEMMA SendStep ==
  ASSUME IInv, IInv', NEW c \in Client, Reads(c) \/ Sends(c)
  PROVE  SeenTheSame
<1>1. At(c, "send") /\ pc' = pc /\ failed' = failed /\ packet' = packet /\ lines' = lines
  BY DEF Reads, Sends
<1>2. log_file_mutex = c /\ WholeReply' = WholeReply
  BY <1>1, ReadsSame, SendsSame DEF IInv
<1>3. Torn' = Torn
  BY RepliesKeepInv
<1>4. Status'[c] = Status[c] /\ Reply'[c] = Reply[c]
  BY <1>1, <1>2 DEF Status, Reply
<1> QED
  BY <1>1, <1>2, <1>3, <1>4, OneSees DEF SeenTheSame
(* What cannot be sent is missing from the reply, and nothing else.        *)
LEMMA SendFailsStep ==
  ASSUME IInv, IInv', NEW c \in Client, SendFails(c)
  PROVE  Service!Cut(c)
<1>1. /\ At(c, "send") /\ pc' = pc /\ buffer' = <<>> /\ failed' = TRUE
      /\ UNCHANGED <<lines, sent, f_pos, packet>>
  BY DEF SendFails
<1>2. /\ sent \in Seq(Chunk) /\ buffer \in Seq(Chunk) /\ Rest \in Seq(Chunk)
      /\ Reply[c] = (sent \o buffer) \o Rest /\ log_file_mutex = c
  BY <1>1, SendTypes
<1> DEFINE r == Reply[c]
           i == Len(sent)
           j == Len(sent) + Len(buffer)
<1>3. /\ i \in 0..Len(r) /\ j \in 0..Len(r) /\ i <= j
      /\ SubSeq(r, 1, i) = sent /\ SubSeq(r, j + 1, Len(r)) = Rest
  BY <1>2, CutMiddle
<1>4. Reply'[c] = (sent \o <<>>) \o Rest
  BY <1>1 DEF Reply, WholeReply, Rest, Content
<1>5. Reply'[c] = sent \o Rest
  BY <1>2, <1>4, ConcatEmptySeq
<1>6. Status[c] \in {"served", "cut"} /\ Status'[c] = "cut"
  BY <1>1 DEF Status
<1>7. Torn' = Torn
  BY RepliesKeepInv
<1>8. /\ Status' = [Status EXCEPT ![c] = "cut"]
      /\ Reply' = [Reply EXCEPT ![c] = Reply'[c]]
  BY <1>1, <1>2, <1>6, OneSees
<1>9. Reply' = [Reply EXCEPT ![c] = SubSeq(Reply[c], 1, i) \o SubSeq(Reply[c], j + 1, Len(Reply[c]))]
  BY <1>3, <1>5, <1>8
<1> HIDE DEF i, j
<1> QED
  BY <1>1, <1>3, <1>6, <1>7, <1>8, <1>9 DEF Service!Cut

(* At the end of the device all of the reply has been sent; if the last    *)
(* fseek() fails, the connection is given up all the same.                 *)
LEMMA ReadsEndStep ==
  ASSUME IInv, IInv', NEW c \in Client, ReadsEnd(c)
  PROVE  Service!Cut(c) \/ SeenTheSame
<1>1. /\ At(c, "send") /\ buffer = <<>> /\ f_pos >= Len(Content)
      /\ pc' = [pc EXCEPT ![c] = "close"] /\ UNCHANGED <<lines, sent, packet>>
      /\ (failed' <=> failed) \/ (failed' <=> TRUE)
  BY DEF ReadsEnd, IInv, Inv, TypeOK
<1>2. /\ sent \in Seq(Chunk) /\ buffer \in Seq(Chunk)
      /\ Reply[c] = (sent \o buffer) \o Rest /\ log_file_mutex = c
  BY <1>1, SendTypes
<1>3. Rest = <<>>
  <2>1. Len(Content) \in Nat /\ f_pos \in Nat
    BY ContentType DEF IInv, Inv, TypeOK
  <2>2. f_pos + 1 \in Int /\ Len(Content) \in Int /\ Len(Content) < f_pos + 1
    BY <1>1, <2>1
  <2> QED
    BY <2>2, SubSeqEmpty DEF Rest
<1>4. Reply[c] = sent
  <2>1. Reply[c] = (sent \o <<>>) \o <<>>
    BY <1>1, <1>2, <1>3
  <2> QED
    BY <1>2, <2>1, ConcatEmptySeq
<1>5. pc'[c] = "close" /\ \A d \in Client \ {c} : pc'[d] = pc[d]
  BY <1>1 DEF IInv
<1>6. Reply'[c] = Reply[c]
  BY <1>1, <1>4, <1>5 DEF Reply
<1>7. /\ Status[c] = IF failed THEN "cut" ELSE "served"
      /\ Status'[c] = IF failed' THEN "cut" ELSE "served"
  BY <1>1, <1>5 DEF Status
<1>8. Torn' = Torn
  BY RepliesKeepInv
<1>9. /\ Status' = [Status EXCEPT ![c] = Status'[c]]
      /\ Status'[c] = Status[c] => Status' = Status
      /\ Reply' = [Reply EXCEPT ![c] = Reply'[c]] /\ Reply' = Reply
  BY <1>2, <1>5, <1>6, OneSees
<1>10. CASE Status'[c] = Status[c]
  BY <1>1, <1>8, <1>9, <1>10 DEF SeenTheSame
<1>11. CASE Status'[c] # Status[c]
  <2>1. Status[c] = "served" /\ Status'[c] = "cut"
    BY <1>1, <1>7, <1>11
  <2>2. SubSeq(sent, 1, 0) \o SubSeq(sent, 0 + 1, Len(sent)) = sent /\ 0 \in 0..Len(sent)
    <3>1. 0 \in 0..Len(sent)
      BY <1>2, LenProperties
    <3> QED
      BY <1>2, <3>1, SplitAt
  <2>3. Reply' = [Reply EXCEPT ![c] = SubSeq(Reply[c], 1, 0) \o SubSeq(Reply[c], 0 + 1, Len(Reply[c]))]
    BY <1>4, <1>6, <1>9, <2>2
  <2>4. \E i, j \in 0..Len(Reply[c]) :
          /\ i <= j
          /\ Reply' = [Reply EXCEPT ![c] = SubSeq(Reply[c], 1, i)
                                          \o SubSeq(Reply[c], j + 1, Len(Reply[c]))]
    <3> DEFINE zero == 0
    <3>1. zero \in 0..Len(Reply[c]) /\ zero <= zero
      BY <1>4, <2>2
    <3>2. Reply' = [Reply EXCEPT ![c] = SubSeq(Reply[c], 1, zero)
                                         \o SubSeq(Reply[c], zero + 1, Len(Reply[c]))]
      BY <2>3
    <3> HIDE DEF zero
    <3> QED
      BY <3>1, <3>2
  <2> QED
    BY <1>1, <1>8, <1>9, <2>1, <2>4 DEF Service!Cut
<1> QED
  BY <1>10, <1>11
LEMMA UnlocksStep ==
  ASSUME IInv, IInv', NEW c \in Client, Unlocks(c)
  PROVE  Service!Deliver(c)
<1>1. /\ pc[c] = "close" /\ log_file_mutex = c /\ lines' = lines
      /\ packet' = [packet EXCEPT ![c] = NULL]
      /\ pc' = [pc EXCEPT ![c] = IF failed THEN "gone" ELSE "recv"]
  BY DEF Unlocks, IInv
<1>2. Torn' = Torn
  BY UnlocksKeepsInv
<1>3. \A d \in Client \ {c} : pc'[d] = pc[d]
  BY <1>1 DEF IInv
<1>4. /\ Status' = [Status EXCEPT ![c] = Status'[c]]
      /\ Reply' = [Reply EXCEPT ![c] = Reply'[c]]
  BY <1>1, <1>3, OneSees
<1>5. pc'[c] = IF failed THEN "gone" ELSE "recv"
  BY <1>1 DEF IInv
<1>6. Reply'[c] = <<>>
  BY <1>5 DEF Reply
<1>7. /\ Status[c] = IF failed THEN "cut" ELSE "served"
      /\ Status'[c] = IF failed THEN "gone" ELSE "idle"
  BY <1>1, <1>5 DEF Status
<1>8. /\ Status[c] \in {"served", "cut"}
      /\ Status'[c] = IF Status[c] = "served" THEN "idle" ELSE "gone"
  BY <1>7
<1> QED
  BY <1>1, <1>2, <1>4, <1>6, <1>8 DEF Service!Deliver

(* A write that is killed leaves its packet's first pieces, or all of them. *)
LEMMA RestartsStep ==
  ASSUME IInv, IInv', Restarts
  PROVE  Service!Restart
<1>1. /\ pc' = [c \in Client |-> "gone"] /\ packet' = [c \in Client |-> NULL]
      /\ Torn' = partial'
  BY RestartsKeepsInv DEF Restarts
<1>2. /\ Status' = [c \in Client |-> "gone"] /\ Reply' = [c \in Client |-> <<>>]
  BY <1>1 DEF Status, Reply
<1>3. lines' = lines
  BY DEF Restarts, Device!Killed
<1>4. Torn' \in {Torn} \cup {Torn \o begun : begun \in
                UNION {Service!Begun(packet[c]) : c \in {d \in Client : Status[d] = "asked"}}}
  <2>1. CASE \A c \in Client : ~At(c, "write")
    <3>1. Torn = partial /\ pieces = <<>>
      BY <2>1 DEF Torn, IInv, Inv, RestOfPacket
    <3>2. Len(pieces) # 1
      BY <3>1, EmptySeq
    <3> QED
      BY <1>1, <3>1, <3>2 DEF Restarts
  <2>2. ASSUME NEW c \in Client, At(c, "write")
        PROVE  \E begun \in Service!Begun(packet[c]) : partial' = Torn \o begun
    <3>1. CASE UNCHANGED deviceVars
      BY <2>2, <3>1, LineBegun, SameOperators DEF Service!Begun
    <3>2. CASE Len(pieces) = 1 /\ Device!Killed(Head(pieces))
      <4> DEFINE whole == Pieces[packet[c]]
      <4>1. partial' = Torn \o whole
        BY <2>2, <3>2, LineIsWhole DEF Device!Killed
      <4>2. whole \in Seq(Chunk) /\ Len(whole) \in Nat
        BY <2>2, WriterHas
      <4>3. whole = SubSeq(whole, 1, Len(whole)) /\ Len(whole) \in 0..Len(whole)
        BY <4>2, SubSeqFull
      <4>4. whole \in Prefixes(whole)
        BY <4>3 DEF Prefixes
      <4> QED
        BY <4>1, <4>4, SameOperators DEF Service!Begun
    <3> QED
      BY <3>1, <3>2 DEF Restarts
  <2>3. \A c \in Client : At(c, "write") => Status[c] = "asked"
    BY DEF Status
  <2> QED
    BY <1>1, <2>1, <2>2, <2>3
<1> QED
  BY <1>1, <1>2, <1>3, <1>4 DEF Service!Restart
LEMMA InitIsInit == Init => Service!Init
<1> SUFFICES ASSUME Init PROVE Service!Init
  OBVIOUS
<1>1. Torn = partial /\ partial = <<>> /\ lines = <<>>
  BY DEF Init, Torn, Device!Init
<1>2. Status = [c \in Client |-> "gone"] /\ Reply = [c \in Client |-> <<>>]
  BY DEF Init, Status, Reply
<1> QED
  BY <1>1, <1>2 DEF Init, Service!Init

LEMMA StepIsStep ==
  ASSUME IInv, IInv', [Next]_vars
  PROVE  Service!Next \/ SeenTheSame
<1>1. ASSUME NEW c \in Client, Connects(c) \/ Closes(c) \/ Receives(c) \/ ReceivesEnd(c)
      PROVE  Service!Next \/ SeenTheSame
  BY <1>1, OutsideStep DEF Service!Next
<1>2. ASSUME NEW c \in Client, Locks(c) \/ WritesPiece(c) PROVE SeenTheSame
  BY <1>2, QuietStep
<1>3. ASSUME NEW c \in Client, WritesLast(c) \/ WriteFails(c) PROVE Service!Next
  BY <1>3, WritesLastStep, WriteFailsStep DEF Service!Next
<1>4. ASSUME NEW c \in Client, FindsPlace(c) \/ FindsNoPlace(c) PROVE Service!Next
  BY <1>4, FindsPlaceStep, FindsNoPlaceStep DEF Service!Next
<1>5. ASSUME NEW c \in Client, Reads(c) \/ Sends(c) PROVE SeenTheSame
  BY <1>5, SendStep
<1>6. ASSUME NEW c \in Client, SendFails(c) \/ ReadsEnd(c) PROVE Service!Next \/ SeenTheSame
  BY <1>6, SendFailsStep, ReadsEndStep DEF Service!Next
<1>7. ASSUME NEW c \in Client, Unlocks(c) PROVE Service!Next
  BY <1>7, UnlocksStep DEF Service!Next
<1>8. CASE Restarts
  BY <1>8, RestartsStep DEF Service!Next
<1>9. CASE UNCHANGED vars
  <2>1. lines' = lines /\ packet' = packet /\ Status' = Status
    BY <1>9 DEF vars, Status
  <2>2. Torn' = Torn
    BY <1>9, RestStays DEF vars
  <2>3. Reply' = Reply
    BY <1>9 DEF vars, Reply, WholeReply, Rest, Content
  <2> QED
    BY <2>1, <2>2, <2>3 DEF SeenTheSame
<1> QED
  BY <1>1, <1>2, <1>3, <1>4, <1>5, <1>6, <1>7, <1>8, <1>9 DEF Next, Works

(* The server keeps its promise to its clients, through interleaved        *)
(* packets, several writes and reads per packet, partial sends, failures   *)
(* and restarts (aesdsocket_client.c:63-105, 236-309): every client is     *)
(* sent the log as it was when its packet was the newest line, or from the *)
(* place it asked for on, and nothing of anyone else's reply; a line in    *)
(* the log is a whole packet, or begins with what was left of a lost one.  *)
THEOREM ServesClients == Spec => Implements
<1>1. Init => Service!Init
  BY InitIsInit
<1>2. IInv /\ IInv' /\ [Next]_vars => [Service!Next]_(Service!vars)
  <2> SUFFICES ASSUME IInv, IInv', [Next]_vars
               PROVE  Service!Next \/ UNCHANGED Service!vars
    OBVIOUS
  <2> QED
    BY StepIsStep DEF SeenTheSame, Service!vars
<1> QED
  BY <1>1, <1>2, InitIInv, NextKeepsIInv, PTL DEF Spec, Implements, Service!Spec
=============================================================================
