--------------------------- MODULE MCLogProtocol ---------------------------
EXTENDS LogProtocol, TLC

CONSTANTS head, tail, short,   (* chunks: the two of a long line, a short line *)
          line, longline, seek (* packets                                      *)

Parser == INSTANCE SeektoParser WITH UINT32_MAX <- 11, LONG_MAX <- 95

MCChunk == {head, tail, short}
MCPacket == {line, longline, seek}
MCPieces == (line :> <<short>>) @@ (longline :> <<head, tail>>) @@ (seek :> <<short>>)

(* The long line begins like a command. *)
Text == (line :> <<"x", "newline">>)
     @@ (longline :> <<"P", "1", ",", "x", "newline">>)
     @@ (seek :> <<"P", "1", ",", "1", "newline">>)
MCSeekto == [p \in MCPacket |->
               IF p = seek THEN [write_cmd |-> 1, write_cmd_offset |-> 1] ELSE NULL]
ASSUME SeektoIsParsed == \A p \in MCPacket : MCSeekto[p] = Parser!is_seekto_packet(Text[p])
=============================================================================
