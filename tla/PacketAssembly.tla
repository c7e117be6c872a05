--------------------------- MODULE PacketAssembly ---------------------------
(***************************************************************************)
(* How a client thread cuts the bytes of its connection into packets:      *)
(* process_received_data and ensure_packet_capacity of                     *)
(* src/server/src/aesdsocket_client.c, and the recv() loop around them.    *)
(*                                                                         *)
(* A byte is a newline or not.  packet_size is a uint16_t: it is doubled   *)
(* modulo UintLimit, while realloc is asked for the doubled int.           *)
(***************************************************************************)
EXTENDS Integers

CONSTANTS
  SOCKET_BUFFER_SIZE,   (* 1024 in aesdsocket_cfg.h   *)
  MAX_PACKET_SIZE,      (* 32762 in aesdsocket_cfg.h  *)
  UintLimit             (* 2^16                       *)

ASSUME BufferAssumption == SOCKET_BUFFER_SIZE \in Nat \ {0}
(* A packet_size that is doubled is below MAX_PACKET_SIZE. *)
ASSUME LimitAssumption ==
  /\ MAX_PACKET_SIZE \in Nat /\ UintLimit \in Nat
  /\ SOCKET_BUFFER_SIZE < UintLimit
  /\ 2 * (MAX_PACKET_SIZE - 1) < UintLimit

VARIABLES
  capacity,       (* bytes allocated for packet                             *)
  packet_size,    (* what the program takes capacity to be                  *)
  packet_index,   (* bytes of the packet so far                             *)
  left,           (* bytes received and not yet looked at                   *)
  since,          (* bytes of the stream since its last newline             *)
  packet,         (* the length of the packet being processed, or 0         *)
  open            (* the thread is in its recv() loop                       *)

vars == <<capacity, packet_size, packet_index, left, since, packet, open>>

Init ==
  /\ capacity = SOCKET_BUFFER_SIZE
  /\ packet_size = SOCKET_BUFFER_SIZE
  /\ packet_index = 0
  /\ left = 0
  /\ since = 0
  /\ packet = 0
  /\ open = TRUE

(* recv() returns up to a buffer of data ...                               *)
Receive ==
  /\ open /\ packet = 0 /\ left = 0
  /\ left' \in 1..SOCKET_BUFFER_SIZE
  /\ UNCHANGED <<capacity, packet_size, packet_index, since, packet, open>>

(* ... or nothing, or the server is told to stop.                          *)
Leave ==
  /\ open /\ packet = 0 /\ left = 0
  /\ open' = FALSE
  /\ UNCHANGED <<capacity, packet_size, packet_index, left, since, packet>>

(* Mutant: "greater than" for "at least" in the test of the packet's room. *)
MutRoomPastEnd ==
  IF packet_index > packet_size
  THEN capacity' = 2 * packet_size /\ packet_size' = (2 * packet_size) % UintLimit
  ELSE UNCHANGED <<capacity, packet_size>>

(* ensure_packet_capacity, when the packet is not yet too long: the        *)
(* memory is doubled when it is full.                                      *)
EnsureRoom ==
  IF packet_index >= packet_size
  THEN capacity' = 2 * packet_size /\ packet_size' = (2 * packet_size) % UintLimit
  ELSE UNCHANGED <<capacity, packet_size>>

(* The next byte is stored; a newline ends the packet.                     *)
Store(newline) ==
  /\ open /\ packet = 0 /\ left > 0
  /\ packet_index < MAX_PACKET_SIZE
  /\ EnsureRoom
  /\ left' = left - 1
  /\ packet_index' = packet_index + 1
  /\ since' = since + 1
  /\ packet' = IF newline THEN packet_index' ELSE 0
  /\ UNCHANGED open

(* The packet is too long, or realloc fails: the rest of the data is       *)
(* dropped and the loop left.                                              *)
GiveUp ==
  /\ open /\ packet = 0 /\ left > 0
  /\ packet_index >= MAX_PACKET_SIZE \/ packet_index >= packet_size
  /\ left' = 0
  /\ open' = FALSE
  /\ UNCHANGED <<capacity, packet_size, packet_index, since, packet>>

(* Mutant: the next packet is appended to the one processed. *)
MutProcessKeepsIndex ==
  /\ open /\ packet > 0
  /\ packet' = 0
  /\ since' = 0
  /\ UNCHANGED <<capacity, packet_size, packet_index, left, open>>

(* process_packet, which uses all of packet for what it sends back: with   *)
(* success the next packet begins, otherwise the loop is left.             *)
Process ==
  /\ open /\ packet > 0
  /\ packet' = 0
  /\ packet_index' = 0
  /\ since' = 0
  /\ \/ UNCHANGED <<left, open>>
     \/ left' = 0 /\ open' = FALSE
  /\ UNCHANGED <<capacity, packet_size>>

Done == ~open /\ UNCHANGED vars

Next ==
  Receive \/ Leave \/ Store(TRUE) \/ Store(FALSE) \/ GiveUp \/ Process \/ Done

Spec == Init /\ [][Next]_vars
-----------------------------------------------------------------------------
TypeOK ==
  /\ capacity \in 1 .. UintLimit-1
  /\ packet_size \in 0 .. UintLimit-1
  /\ packet_index \in 0..MAX_PACKET_SIZE
  /\ left \in 0..SOCKET_BUFFER_SIZE
  /\ since \in Nat
  /\ packet \in 0..MAX_PACKET_SIZE
  /\ open \in BOOLEAN

(* The program's idea of how much memory it has is right, although the     *)
(* uint16_t is doubled again and again, and what it has stored is in it:   *)
(* neither the next byte nor the sending, which reads packet_size bytes at *)
(* a time into packet, goes beyond the allocation                          *)
(* (aesdsocket_client.c:79, 113-123, 326).                                 *)
InBounds ==
  /\ packet_size = capacity
  /\ packet_index <= capacity

(* A packet that is processed is one line of the stream, whatever pieces   *)
(* recv() returned it in, and no line is longer than MAX_PACKET_SIZE.      *)
PacketIsLine ==
  /\ packet_index = since
  /\ packet > 0 => packet = since

Inv == TypeOK /\ InBounds /\ PacketIsLine

(* The byte is stored inside the memory there is at that moment.           *)
StoresInside == [][packet_index' > packet_index => packet_index < capacity']_vars
=============================================================================
