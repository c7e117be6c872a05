---------------------------- MODULE SeektoParser ----------------------------
(***************************************************************************)
(* How aesdsocket tells a seek command from a line: is_seekto_packet and   *)
(* the functions it calls, src/server/src/aesdsocket_client.c.  A string   *)
(* is the sequence of its characters; the prefix "AESDCHAR_IOCSEEKTO:",    *)
(* which is only ever compared as a whole, is one of them.                 *)
(***************************************************************************)
EXTENDS Integers, Sequences, SequencesExt

CONSTANTS
  UINT32_MAX,
  LONG_MAX,     (* 2^63 - 1, or 2^31 - 1 where long has 32 bits *)
  NULL

SEEKTO_PACKET_PREFIX == <<"P">>
NUL == "0 byte"
Space == {" "}
Minus == "-"
Signs == {"+", Minus}
Comma == ","
Digits == <<"0", "1", "2", "3", "4", "5", "6", "7", "8", "9">>
Value(digit) == CHOOSE n \in 0..9 : Digits[n + 1] = digit
-----------------------------------------------------------------------------
(* The C library.                                                          *)

(* From place i on, where the first character not in / in the set is.      *)
strspn(str, i, chars) == Min({k \in i..Len(str) : str[k] \notin chars} \cup {Len(str) + 1})
strcspn(str, i, chars) == Min({k \in i..Len(str) : str[k] \in chars} \cup {Len(str) + 1})

(* Mutant: a comma ends an empty token. *)
Mutstrtok(str, i) ==
  LET end == strcspn(str, i, {Comma})
  IN  [token |-> IF i > Len(str) THEN NULL ELSE SubSeq(str, i, end - 1),
       next |-> end + 1]

(* strtok(str, ","), from place i on: a token is not empty, and the next   *)
(* one is looked for behind the comma that ends it.                        *)
strtok(str, i) ==
  LET first == strspn(str, i, {Comma})
      end == strcspn(str, first, {Comma})
  IN  [token |-> IF first > Len(str) THEN NULL ELSE SubSeq(str, first, end - 1),
       next |-> end + 1]

Saturated(n) ==
  IF n > LONG_MAX THEN LONG_MAX ELSE IF n < -LONG_MAX - 1 THEN -LONG_MAX - 1 ELSE n

(* strtol(str, &endptr, 10); of endptr, what its caller asks of it.        *)
strtol(str) ==
  LET sign == strspn(str, 1, Space)
      signed == sign <= Len(str) /\ str[sign] \in Signs
      first == IF signed THEN sign + 1 ELSE sign
      end == strspn(str, first, ToSet(Digits))
      of[n \in 0 .. end-first] == IF n = 0 THEN 0 ELSE 10 * of[n-1] + Value(str[first + n-1])
      value == of[end - first]
  IN  [value |-> Saturated(IF signed /\ str[sign] = Minus THEN -value ELSE value),
       converted |-> first < end,
       complete |-> end = Len(str) + 1]

(* (long)n, of a value that may be too large for it.                       *)
AsLong(n) == IF n > LONG_MAX THEN n - 2 * (LONG_MAX + 1) ELSE n
-----------------------------------------------------------------------------
(* The number, or NULL for FALSE.                                          *)
convert_str_to_long(str, min_value, max_value) ==
  LET result == strtol(str)
  IN  IF /\ result.converted
         /\ result.complete
         /\ result.value \in min_value..max_value
      THEN result.value ELSE NULL

(* Mutant: the bounds are compared as unsigned numbers. *)
Mutconvert_x_and_y(x_str, y_str) ==
  LET x == convert_str_to_long(x_str, 0, UINT32_MAX)
      y == convert_str_to_long(y_str, 0, UINT32_MAX)
  IN  IF x = NULL \/ y = NULL THEN NULL
      ELSE [write_cmd |-> x, write_cmd_offset |-> y]

(* The second half of parse_x_str_and_y_str, what it makes of the tokens.  *)
convert_x_and_y(x_str, y_str) ==
  LET x == convert_str_to_long(x_str, 0, AsLong(UINT32_MAX))
      y == convert_str_to_long(y_str, 0, AsLong(UINT32_MAX))
  IN  IF x = NULL \/ y = NULL THEN NULL
      ELSE [write_cmd |-> x, write_cmd_offset |-> y]

parse_x_str_and_y_str(xy_str) ==
  LET x == strtok(xy_str, 1)
      y == strtok(xy_str, x.next)
  IN  IF x.token = NULL \/ y.token = NULL THEN NULL
      ELSE convert_x_and_y(x.token, y.token)

HasPrefix(packet) ==
  /\ Len(packet) > Len(SEEKTO_PACKET_PREFIX)
  /\ IsPrefix(SEEKTO_PACKET_PREFIX, packet)

(* parse_xy_str: a copy of what follows the prefix.  Its last character,   *)
(* the newline, is overwritten with a NUL; an earlier one ends the string. *)
xy_str_of(packet) ==
  LET copy == SubSeq(packet, Len(SEEKTO_PACKET_PREFIX) + 1, Len(packet) - 1)
  IN  SubSeq(copy, 1, strcspn(copy, 1, {NUL}) - 1)

(* The place the packet asks for, or NULL for FALSE.                       *)
is_seekto_packet(packet) ==
  IF HasPrefix(packet) THEN parse_x_str_and_y_str(xy_str_of(packet)) ELSE NULL
=============================================================================
