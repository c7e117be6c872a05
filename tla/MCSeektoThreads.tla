-------------------------- MODULE MCSeektoThreads --------------------------
EXTENDS SeektoThreads
MCPacket == {<<"P", "0", ",", "2", "newline">>, <<"P", "1", ",", "3", "newline">>}
=============================================================================
