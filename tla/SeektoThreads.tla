--------------------------- MODULE SeektoThreads ---------------------------
(***************************************************************************)
(* Client threads that look at their packets at the same time.             *)
(* process_packet of src/server/src/aesdsocket_client.c calls              *)
(* is_seekto_packet before it takes log_file_mutex; the strtok it uses     *)
(* keeps one place for all threads of the process.  A call of strtok is    *)
(* one step.  What a string that was freed is read as, is anything.        *)
(***************************************************************************)
EXTENDS SeektoParser

CONSTANTS
  Client,
  Packet        (* what clients send, with the prefix *)

VARIABLES
  pc, packet,            (* of each thread: one packet                     *)
  xy_str,                (* of each thread: the copy, or NULL when freed   *)
  x_str, y_str,          (* of each thread: tokens, and whose copy's       *)
  olds,                  (* strtok's: whose copy it is in, and where       *)
  seekto_cmd             (* what each thread makes of its packet           *)

vars == <<pc, packet, xy_str, x_str, y_str, olds, seekto_cmd>>

At(c, place) == pc[c] = place
Goes(c, place) == pc' = [pc EXCEPT ![c] = place]

NoToken(c) == [copy |-> c, token |-> NULL]

Init ==
  /\ pc = [c \in Client |-> "recv"]
  /\ packet = [c \in Client |-> NULL]
  /\ xy_str = [c \in Client |-> NULL]
  /\ x_str = [c \in Client |-> NoToken(c)]
  /\ y_str = [c \in Client |-> NoToken(c)]
  /\ olds = [copy |-> NULL, next |-> 1]
  /\ seekto_cmd = [c \in Client |-> NULL]

(* The prefix is compared and the rest copied.                             *)
Begins(c) ==
  /\ At(c, "recv")
  /\ \E p \in Packet :
       /\ HasPrefix(p)
       /\ packet' = [packet EXCEPT ![c] = p]
       /\ xy_str' = [xy_str EXCEPT ![c] = xy_str_of(p)]
  /\ Goes(c, "x")
  /\ UNCHANGED <<x_str, y_str, olds, seekto_cmd>>

(* strtok(xy_str, ",")                                                     *)
FindsX(c) ==
  LET x == strtok(xy_str[c], 1)
  IN  /\ At(c, "x")
      /\ x_str' = [x_str EXCEPT ![c] = [copy |-> c, token |-> x.token]]
      /\ olds' = [copy |-> c, next |-> x.next]
      /\ Goes(c, "y")
      /\ UNCHANGED <<packet, xy_str, y_str, seekto_cmd>>

(* strtok(NULL, ",") goes on where the last call, of any thread, ended; a  *)
(* freed copy may hold a token or not.                                     *)
FindsY(c) ==
  /\ At(c, "y")
  /\ IF xy_str[olds.copy] = NULL
     THEN /\ \E token \in {NULL, <<>>} :
               y_str' = [y_str EXCEPT ![c] = [copy |-> olds.copy, token |-> token]]
          /\ UNCHANGED olds
     ELSE LET y == strtok(xy_str[olds.copy], olds.next)
          IN  /\ y_str' = [y_str EXCEPT ![c] = [copy |-> olds.copy, token |-> y.token]]
              /\ olds' = [olds EXCEPT !.next = y.next]
  /\ Goes(c, "convert")
  /\ UNCHANGED <<packet, xy_str, x_str, seekto_cmd>>

(* The tokens are converted and the copy freed.                            *)
Converts(c) ==
  /\ At(c, "convert")
  /\ \E y \in IF xy_str[y_str[c].copy] = NULL THEN [1..1 -> ToSet(Digits)] \cup {<<>>}
              ELSE {y_str[c].token} :
       seekto_cmd' = [seekto_cmd EXCEPT ![c] =
                        IF NULL \in {x_str[c].token, y_str[c].token} THEN NULL
                        ELSE convert_x_and_y(x_str[c].token, y)]
  /\ xy_str' = [xy_str EXCEPT ![c] = NULL]
  /\ Goes(c, "done")
  /\ UNCHANGED <<packet, x_str, y_str, olds>>

Over == (\A c \in Client : At(c, "done")) /\ UNCHANGED vars

Next ==
  \/ \E c \in Client : Begins(c) \/ FindsX(c) \/ FindsY(c) \/ Converts(c)
  \/ Over

Spec == Init /\ [][Next]_vars
-----------------------------------------------------------------------------
(* What is passed to the device is "the zero referenced write command to   *)
(* seek into" and "the zero referenced offset within the write" that the   *)
(* thread's own packet names, or nothing if it names none                  *)
(* (aesd_ioctl.h:26-32).                                                   *)
EachParsesItsOwn ==
  \A c \in Client : At(c, "done") => seekto_cmd[c] = is_seekto_packet(packet[c])
=============================================================================
