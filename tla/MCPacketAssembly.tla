-------------------------- MODULE MCPacketAssembly --------------------------
(***************************************************************************)
(* Model checking of what a client thread makes of its input: packets, and *)
(* of a packet a line or a seek command.  A packet of at most MaxText + 2  *)
(* characters has a content, and commands are compared with their grammar. *)
(***************************************************************************)
EXTENDS PacketAssembly, Sequences, SequencesExt

CONSTANTS
  UINT32_MAX,
  LONG_MAX64, LONG_MAX32,   (* of a wide long, and of a narrow one *)
  MaxText,                  (* bound *)
  NULL

(* A narrow long has as many bits as uint32_t, a wide one has more.        *)
ASSUME WidthAssumption ==
  /\ LONG_MAX32 \in Nat /\ UINT32_MAX = 2 * LONG_MAX32 + 1
  /\ LONG_MAX64 \in Nat /\ LONG_MAX64 > UINT32_MAX

VARIABLE text               (* of the packet, between the prefix and the newline *)

Wide == INSTANCE SeektoParser WITH LONG_MAX <- LONG_MAX64
Narrow == INSTANCE SeektoParser WITH LONG_MAX <- LONG_MAX32

Char == {"0", "1", "9", ",", " ", "+", "-", "x", Wide!NUL}
Texts(length) == IF length \in 2 .. MaxText+2 THEN [1 .. length-2 -> Char] ELSE {<<>>}
Packet == Wide!SEEKTO_PACKET_PREFIX \o text \o <<"newline">>

ASSUME NullAssumption ==
  /\ NULL \notin Nat /\ NULL \notin Seq(Char)
  /\ NULL \notin [write_cmd : Nat, write_cmd_offset : Nat]

MCInit == Init /\ text = <<>>
MCNext ==
  \/ Store(TRUE) /\ text' \in Texts(packet')
  \/ Process /\ text' = <<>>
  \/ (Receive \/ Leave \/ Store(FALSE) \/ GiveUp \/ Done) /\ UNCHANGED text
MCSpec == MCInit /\ [][MCNext]_<<vars, text>>
-----------------------------------------------------------------------------
(* The grammar.  The fields of a text are what is between its commas, if   *)
(* anything; a field reads as n if it is a numeral in front of which       *)
(* spaces and a sign may stand.                                            *)
Visible == SubSeq(text, 1, Wide!strcspn(text, 1, {Wide!NUL}) - 1)

Fields ==
  {f \in (1..Len(Visible)) \X (1..Len(Visible)) :
     /\ f[1] <= f[2] /\ \A k \in f[1]..f[2] : Visible[k] # Wide!Comma
     /\ f[1] = 1 \/ Visible[f[1] - 1] = Wide!Comma
     /\ f[2] = Len(Visible) \/ Visible[f[2] + 1] = Wide!Comma}

(* From right to left, the digits count ones, tens, hundreds, ...          *)
Numeral(digits) ==
  LET length == Len(digits)
      unit[n \in 0..length] == IF n = 0 THEN 1 ELSE 10 * unit[n-1]
      sum[n \in 0..length] ==
        IF n = 0 THEN 0 ELSE sum[n-1] + unit[n-1] * Wide!Value(digits[length - n + 1])
  IN  sum[length]

Reads(f, n) ==
  \E first \in f[1]..f[2] :
    /\ \A k \in first..f[2] : Visible[k] \in ToSet(Wide!Digits)
    /\ \A k \in f[1] .. first-2 : Visible[k] \in Wide!Space
    /\ first > f[1] => Visible[first-1] \in Wide!Space \cup Wide!Signs
    /\ n = Numeral(SubSeq(Visible, first, f[2]))
    /\ first > f[1] /\ Visible[first-1] = Wide!Minus => n = 0

Numbers(f) == {n \in 0..UINT32_MAX : Reads(f, n)}

(* The first two fields, read as numbers that fit 32 bits, are the place   *)
(* asked for; a third one is ignored.                                      *)
Meanings ==
  LET FirstTwo == {fg \in Fields \X Fields :
                     /\ fg[1][2] < fg[2][1]
                     /\ \A h \in Fields : h = fg[1] \/ h[1] >= fg[2][1]}
  IN  UNION {[write_cmd : Numbers(fg[1]), write_cmd_offset : Numbers(fg[2])] : fg \in FirstTwo}

(* A packet is taken for a seek command, and for which, exactly as its     *)
(* grammar has it: commas, spaces, signs, a 0 byte, numbers that do not    *)
(* fit, and what follows them, in any combination                          *)
(* (aesdsocket_client.c:135-234).                                          *)
ParserMatchesGrammar ==
  packet > 0 =>
    Meanings = {Wide!is_seekto_packet(Packet)} \ {NULL}

(* Where long has 32 bits, (long)UINT32_MAX is negative: no packet at all  *)
(* is taken for a command, and all of them become lines                    *)
(* (aesdsocket_client.c:175-182).                                          *)
NarrowLongRefusesAll == packet > 0 => Narrow!is_seekto_packet(Packet) = NULL
=============================================================================
