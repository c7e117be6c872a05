---------------------------- MODULE LogProtocol ----------------------------
(***************************************************************************)
(* How the client threads of aesdsocket serve packets from the aesdchar    *)
(* device: process_packet, flush_packet_to_client, process_seekto_packet   *)
(* and send_file of src/server/src/aesdsocket_client.c, open_log_file and  *)
(* close_log_file of aesdsocket_logging.c.                                 *)
(*                                                                         *)
(* The device is LineLog, which AesdCharDriver implements; it outlives the *)
(* process.  What is done with the stream is the work of the thread that   *)
(* holds log_file_mutex.  The C library writes a packet in pieces when it  *)
(* is larger than the stream's buffer.  Chunks stand for bytes: offsets    *)
(* and sizes count chunks.  Nobody else writes to the device, and what     *)
(* is_seekto_packet makes of a packet depends on the packet only: when     *)
(* threads parse at the same time it may not, see SeektoThreads.           *)
(***************************************************************************)
EXTENDS Integers, Sequences, SequencesExt

CONSTANTS
  Client,
  Packet,       (* lines clients send                                      *)
  NULL,
  Capacity,     (* AESDCHAR_MAX_WRITE_OPERATIONS_SUPPORTED                 *)
  Chunk,        (* what one write() to the device passes                   *)
  Pieces,       (* the chunks fwrite and fflush make of a packet           *)
  Seekto,       (* what is_seekto_packet makes of a packet, NULL if FALSE  *)
  SendSize,     (* packet_size: how much send_file reads at a time         *)
  Failures,     (* what may fail: "write", "fseek", "send", "process"      *)
  MaxTorn       (* bound: pieces in a line begun that is left so           *)

EndsLine == {Last(Pieces[p]) : p \in Packet}

(* Only the last piece of a packet ends with a newline. *)
ASSUME PiecesAssumption ==
  /\ Pieces \in [Packet -> Seq(Chunk) \ {<<>>}]
  /\ \A p \in Packet : \A i \in 1 .. Len(Pieces[p])-1 : Pieces[p][i] \notin EndsLine
ASSUME SeektoAssumption ==
  Seekto \in [Packet -> [write_cmd : Nat, write_cmd_offset : Nat] \cup {NULL}]
ASSUME SizesAssumption == SendSize \in Nat \ {0} /\ Capacity \in Nat \ {0}
ASSUME FailuresAssumption == Failures \subseteq {"write", "fseek", "send", "process"}
ASSUME NullAssumption == NULL \notin Client \cup Packet

VARIABLES
  lines, partial,    (* the device: complete lines, and the line begun     *)
  log_file_mutex,    (* the client whose thread holds it, or NULL          *)
  pieces,            (* of the packet, not yet written                     *)
  f_pos,             (* where send_file reads next                         *)
  buffer,            (* bytes read and not yet sent                        *)
  sent,              (* bytes sent of the reply                            *)
  failed,            (* ret_val is EXIT_FAILURE                            *)
  pc, packet,        (* of each client's thread                            *)
  open               (* its connection can be sent to                      *)

deviceVars == <<lines, partial>>
streamVars == <<log_file_mutex, pieces, f_pos, buffer, sent, failed>>
vars == <<deviceVars, streamVars, pc, packet, open>>

Device == INSTANCE LineLog

At(c, place) == pc[c] = place
Goes(c, place) == pc' = [pc EXCEPT ![c] = place]

(* What read() of the device returns from its start to its end.            *)
Content == FlattenSeq(lines)
-----------------------------------------------------------------------------
(* Connections.                                                            *)

Connects(c) ==
  /\ At(c, "gone")
  /\ Goes(c, "recv")
  /\ open' = [open EXCEPT ![c] = TRUE]
  /\ UNCHANGED <<deviceVars, streamVars, packet>>

(* The peer closes, or the joiner shuts the socket down.                   *)
Closes(c) ==
  /\ open[c]
  /\ open' = [open EXCEPT ![c] = FALSE]
  /\ UNCHANGED <<deviceVars, streamVars, pc, packet>>

(* recv() returns the rest of a packet, perhaps on a connection since shut *)
(* down ...                                                                *)
Receives(c) ==
  /\ At(c, "recv")
  /\ \E p \in Packet : packet' = [packet EXCEPT ![c] = p]
  /\ Goes(c, "lock")
  /\ UNCHANGED <<deviceVars, streamVars, open>>

(* ... or nothing, or more than a packet can hold, or the server is told   *)
(* to stop.                                                                *)
ReceivesEnd(c) ==
  /\ At(c, "recv")
  /\ open' = [open EXCEPT ![c] = FALSE]
  /\ Goes(c, "gone")
  /\ UNCHANGED <<deviceVars, streamVars, packet>>
-----------------------------------------------------------------------------
(* process_packet                                                          *)

(* log_file_mutex is taken and the device opened.                          *)
Locks(c) ==
  /\ At(c, "lock")
  /\ log_file_mutex = NULL
  /\ log_file_mutex' = c
  /\ failed' = FALSE
  /\ IF Seekto[packet[c]] = NULL
     THEN pieces' = Pieces[packet[c]] /\ Goes(c, "write")
     ELSE UNCHANGED pieces /\ Goes(c, "ioctl")
  /\ UNCHANGED <<deviceVars, f_pos, buffer, sent, packet, open>>

(* send_file begins with fseek(position, SEEK_SET), whose failure it       *)
(* reports.                                                                *)
SendsFrom(c, position) ==
  /\ buffer' = <<>>
  /\ \/ f_pos' = position /\ Goes(c, "send") /\ UNCHANGED failed
     \/ "fseek" \in Failures /\ failed' = TRUE /\ Goes(c, "close") /\ UNCHANGED f_pos

(* Mutant: the mutex is released before the log is sent. *)
MutWritesLast(c) ==
  /\ At(c, "write")
  /\ Len(pieces) = 1
  /\ Device!Complete(Head(pieces))
  /\ pieces' = <<>>
  /\ log_file_mutex' = NULL
  /\ SendsFrom(c, 0)
  /\ UNCHANGED <<sent, packet, open>>

(* fwrite and fflush: the pieces reach the device one after the other.     *)
WritesPiece(c) ==
  /\ At(c, "write")
  /\ Len(pieces) > 1
  /\ Device!Extend(Head(pieces))
  /\ pieces' = Tail(pieces)
  /\ UNCHANGED <<log_file_mutex, f_pos, buffer, failed, sent, pc, packet, open>>

WritesLast(c) ==
  /\ At(c, "write")
  /\ Len(pieces) = 1
  /\ Device!Complete(Head(pieces))
  /\ pieces' = <<>>
  /\ SendsFrom(c, 0)
  /\ UNCHANGED <<log_file_mutex, sent, packet, open>>

(* Mutant: the library keeps what it could not write for the next flush. *)
MutWriteFails(c) ==
  /\ At(c, "write")
  /\ "write" \in Failures
  /\ Device!NoMemory
  /\ SendsFrom(c, 0)
  /\ UNCHANGED <<log_file_mutex, pieces, sent, packet, open>>

(* A write finds no memory, or is interrupted: the library drops what it   *)
(* has not written, and nobody looks at what fwrite and fflush return.     *)
WriteFails(c) ==
  /\ At(c, "write")
  /\ "write" \in Failures
  /\ \/ Device!NoMemory
     \/ Len(partial) <= MaxTorn /\ UNCHANGED deviceVars
  /\ pieces' = <<>>
  /\ SendsFrom(c, 0)
  /\ UNCHANGED <<log_file_mutex, sent, packet, open>>

(* AESDCHAR_IOCSEEKTO returns the place as an offset, if there is one.     *)
HasPlace(t) ==
  /\ t.write_cmd < Len(lines)
  /\ t.write_cmd_offset < Len(lines[t.write_cmd + 1])
OffsetOf(t) ==
  Len(FlattenSeq(SubSeq(lines, 1, t.write_cmd))) + t.write_cmd_offset

(* Mutant: the offset within the command is all that is asked of send_file. *)
MutFindsPlace(c) ==
  /\ At(c, "ioctl")
  /\ HasPlace(Seekto[packet[c]])
  /\ SendsFrom(c, Seekto[packet[c]].write_cmd_offset)
  /\ UNCHANGED <<deviceVars, log_file_mutex, pieces, sent, packet, open>>

FindsPlace(c) ==
  /\ At(c, "ioctl")
  /\ HasPlace(Seekto[packet[c]])
  /\ SendsFrom(c, OffsetOf(Seekto[packet[c]]))
  /\ UNCHANGED <<deviceVars, log_file_mutex, pieces, sent, packet, open>>

FindsNoPlace(c) ==
  /\ At(c, "ioctl")
  /\ ~HasPlace(Seekto[packet[c]])
  /\ failed' = TRUE
  /\ Goes(c, "close")
  /\ UNCHANGED <<deviceVars, log_file_mutex, pieces, f_pos, buffer, sent, packet, open>>
-----------------------------------------------------------------------------
(* The loops of send_file.                                                 *)

Reads(c) ==
  /\ At(c, "send") /\ buffer = <<>> /\ f_pos < Len(Content)
  /\ buffer' = SubSeq(Content, f_pos + 1, Min({f_pos + SendSize, Len(Content)}))
  /\ f_pos' = f_pos + Len(buffer')
  /\ UNCHANGED <<deviceVars, log_file_mutex, pieces, failed, sent, pc, packet, open>>

(* The end of the device: fseek(0, SEEK_END) may fail too.                 *)
ReadsEnd(c) ==
  /\ At(c, "send") /\ buffer = <<>> /\ f_pos >= Len(Content)
  /\ failed' \in {failed, failed \/ "fseek" \in Failures}
  /\ Goes(c, "close")
  /\ UNCHANGED <<deviceVars, log_file_mutex, pieces, f_pos, buffer, sent, packet, open>>

Sends(c) ==
  /\ At(c, "send") /\ buffer # <<>> /\ open[c]
  /\ \E bytes_sent \in 1..Len(buffer) :
       /\ sent' = sent \o SubSeq(buffer, 1, bytes_sent)
       /\ buffer' = SubSeq(buffer, bytes_sent + 1, Len(buffer))
  /\ UNCHANGED <<deviceVars, log_file_mutex, pieces, f_pos, failed, pc, packet, open>>

(* Mutant: a failed send() is tried again. *)
MutSendFails(c) ==
  /\ At(c, "send") /\ buffer # <<>>
  /\ ~open[c] \/ "send" \in Failures
  /\ failed' = TRUE
  /\ UNCHANGED <<deviceVars, log_file_mutex, pieces, f_pos, buffer, sent, pc, packet, open>>

(* send() fails on a connection that is shut, or is interrupted by a       *)
(* signal: what was read is dropped, and reading goes on.                  *)
SendFails(c) ==
  /\ At(c, "send") /\ buffer # <<>>
  /\ ~open[c] \/ "send" \in Failures
  /\ buffer' = <<>>
  /\ failed' = TRUE
  /\ UNCHANGED <<deviceVars, log_file_mutex, pieces, f_pos, sent, pc, packet, open>>

(* The stream is closed and the mutex released.  After a failure the       *)
(* thread gives its connection up.                                         *)
Unlocks(c) ==
  /\ At(c, "close")
  /\ log_file_mutex' = NULL
  /\ f_pos' = 0
  /\ sent' = <<>>
  /\ failed' = FALSE
  /\ packet' = [packet EXCEPT ![c] = NULL]
  /\ IF failed
     THEN Goes(c, "gone") /\ open' = [open EXCEPT ![c] = FALSE]
     ELSE Goes(c, "recv") /\ UNCHANGED open
  /\ UNCHANGED <<deviceVars, pieces, buffer>>
-----------------------------------------------------------------------------
(* The process is killed, exits with client threads at work, or uses the   *)
(* stream open_log_file could not open; and is started again.  A write     *)
(* killed on its way leaves its piece in the line begun.                   *)
Restarts ==
  /\ "process" \in Failures
  /\ \/ UNCHANGED deviceVars
     \/ Len(pieces) = 1 /\ Device!Killed(Head(pieces))
  /\ Len(partial') <= MaxTorn
  /\ pc' = [c \in Client |-> "gone"]
  /\ open' = [c \in Client |-> FALSE]
  /\ log_file_mutex' = NULL
  /\ pieces' = <<>>
  /\ buffer' = <<>>
  /\ f_pos' = 0
  /\ failed' = FALSE
  /\ sent' = <<>>
  /\ packet' = [c \in Client |-> NULL]

Init ==
  /\ Device!Init
  /\ log_file_mutex = NULL
  /\ pieces = <<>>
  /\ f_pos = 0
  /\ buffer = <<>>
  /\ failed = FALSE
  /\ pc = [c \in Client |-> "gone"]
  /\ packet = [c \in Client |-> NULL]
  /\ open = [c \in Client |-> FALSE]
  /\ sent = <<>>

(* Steps that wait neither for the mutex nor for a peer that can be sent to. *)
Works(c) ==
  \/ WritesPiece(c) \/ WritesLast(c) \/ WriteFails(c) \/ FindsPlace(c) \/ FindsNoPlace(c)
  \/ Reads(c) \/ ReadsEnd(c) \/ (~open[c] /\ SendFails(c)) \/ Unlocks(c)

Next ==
  \/ \E c \in Client :
       \/ Connects(c) \/ Closes(c) \/ Receives(c) \/ ReceivesEnd(c)
       \/ Locks(c) \/ Works(c) \/ Sends(c) \/ SendFails(c)
  \/ Restarts

(* A thread that can run is eventually scheduled.                          *)
Spec == Init /\ [][Next]_vars /\ \A c \in Client : WF_vars(Works(c))
-----------------------------------------------------------------------------
TypeOK ==
  /\ lines \in Seq(Seq(Chunk)) /\ partial \in Seq(Chunk)
  /\ log_file_mutex \in Client \cup {NULL}
  /\ pieces \in Seq(Chunk)
  /\ f_pos \in Nat
  /\ buffer \in Seq(Chunk) /\ sent \in Seq(Chunk)
  /\ failed \in BOOLEAN
  /\ pc \in [Client -> {"recv", "lock", "write", "ioctl", "send", "close", "gone"}]
  /\ packet \in [Client -> Packet \cup {NULL}]
  /\ open \in [Client -> BOOLEAN]

(* One thread at a time works on the stream and the device, from opening   *)
(* to closing, and it holds log_file_mutex (aesdsocket_client.c:242-262,   *)
(* 273-283).                                                               *)
Working == {"write", "ioctl", "send", "close"}
StreamHasOneUser == \A c \in Client : pc[c] \in Working <=> log_file_mutex = c

(* What of a packet has not been written is the rest of that packet, and   *)
(* what has been is the end of the line begun, of the thread that writes:  *)
(* nothing of it is left over for the next packet, whatever fails          *)
(* (aesdsocket_client.c:277-281).                                          *)
Written(c) == Len(Pieces[packet[c]]) - Len(pieces)
Torn ==
  IF \E c \in Client : At(c, "write")
  THEN SubSeq(partial, 1, Len(partial) - Written(log_file_mutex))
  ELSE partial
RestOfPacket ==
  /\ (\A c \in Client : ~At(c, "write")) => pieces = <<>>
  /\ \A c \in Client : At(c, "write") =>
       LET whole == Pieces[packet[c]]
       IN  /\ Written(c) \in 0 .. Len(whole) - 1
           /\ pieces = SubSeq(whole, Written(c) + 1, Len(whole))
           /\ Written(c) <= Len(partial)
           /\ \A i \in 1 .. Written(c) : partial[Len(partial) - Written(c) + i] = whole[i]

(* A thread in process_packet has a packet, and takes the branch it is     *)
(* for; no reply is begun before the packet is written or its place found  *)
(* (aesdsocket_client.c:236-309).                                          *)
CallsProgress ==
  /\ \A c \in Client : pc[c] \in {"lock", "write", "ioctl"} => packet[c] \in Packet
  /\ \A c \in Client : At(c, "write") => Seekto[packet[c]] = NULL
  /\ \A c \in Client : At(c, "ioctl") => Seekto[packet[c]] # NULL
  /\ \A c \in Client : pc[c] \in {"write", "ioctl"} => sent = <<>> /\ ~failed
  /\ log_file_mutex = NULL => sent = <<>>

Inv == TypeOK /\ RestOfPacket /\ CallsProgress
-----------------------------------------------------------------------------
(* What the clients are promised.  A packet counts as asked from recv() to *)
(* its last write; its reply is all of it that has been or will be sent.   *)
Rest == SubSeq(Content, f_pos + 1, Len(Content))
WholeReply == sent \o buffer \o Rest

Status ==
  [c \in Client |->
     CASE pc[c] = "recv" -> "idle"
       [] pc[c] \in {"lock", "write", "ioctl"} -> "asked"
       [] pc[c] \in {"send", "close"} -> IF failed THEN "cut" ELSE "served"
       [] pc[c] = "gone" -> "gone"]
Reply ==
  [c \in Client |-> CASE pc[c] = "send" -> WholeReply
                      [] pc[c] = "close" -> sent
                      [] OTHER -> <<>>]

Service == INSTANCE LogService WITH
  log <- lines, torn <- Torn, request <- packet, status <- Status, reply <- Reply

(* The server keeps its promise to its clients, through interleaved        *)
(* packets, several writes and reads per packet, partial sends, failures   *)
(* and restarts (aesdsocket_client.c:63-105, 236-309).                     *)
Implements == Service!Spec

(* A client that is sent to keeps reading, or closes.                      *)
PeersRead == \A c \in Client : WF_vars(Sends(c))

(* As long as every client reads what it is sent, no thread keeps the      *)
(* mutex: the loops of send_file end whatever fails                        *)
(* (aesdsocket_client.c:78-95).                                            *)
MutexReleased ==
  PeersRead => \A c \in Client : log_file_mutex = c ~> log_file_mutex # c
=============================================================================
