----------------------------- MODULE LogService -----------------------------
(***************************************************************************)
(* What aesdsocket promises its clients: packets are served one after the  *)
(* other; each joins the log, of which the newest Capacity lines are kept, *)
(* or asks for a place in it; and the client is sent the whole log as it   *)
(* is at that moment, or all of it from that place on.                     *)
(*                                                                         *)
(* The exceptions are actions of their own: a packet the device has no     *)
(* memory for, a place that does not exist, a connection that breaks while *)
(* the reply is sent, and a server that dies.                              *)
(***************************************************************************)
EXTENDS Integers, Sequences, SequencesExt

CONSTANTS
  Client,
  Packet,
  NULL,
  Capacity,    (* lines kept                                              *)
  Pieces,      (* the chunks a packet consists of                         *)
  Seekto       (* the place a packet asks for, or NULL                    *)

VARIABLES
  log,         (* the lines, oldest first, each a sequence of chunks      *)
  torn,        (* pieces of lost lines, which the next line begins with   *)
  request,     (* of each client: the packet being served, or NULL        *)
  status,      (* "gone", "idle", "asked", "served", or "cut" when its    *)
               (* connection is going to be given up                      *)
  reply        (* what it is sent in answer to its request                *)

vars == <<log, torn, request, status, reply>>

(* The log from place t on, if there is such a place.                      *)
HasPlace(t) == t.write_cmd < Len(log) /\ t.write_cmd_offset < Len(log[t.write_cmd + 1])
FromPlace(t) ==
  LET rest == FlattenSeq(SubSeq(log, t.write_cmd + 1, Len(log)))
  IN  SubSeq(rest, t.write_cmd_offset + 1, Len(rest))

Newest(line) == Append(IF Len(log) = Capacity THEN Tail(log) ELSE log, line)

(* The reply begins, or the connection is given up before it does.         *)
Served(c, answer) ==
  \/ /\ status' = [status EXCEPT ![c] = "served"]
     /\ reply' = [reply EXCEPT ![c] = answer]
  \/ /\ status' = [status EXCEPT ![c] = "cut"]
     /\ UNCHANGED reply

(* The first pieces of a packet, all of them included.                     *)
Begun(p) == Prefixes(Pieces[p])
-----------------------------------------------------------------------------
Init ==
  /\ log = <<>>
  /\ torn = <<>>
  /\ request = [c \in Client |-> NULL]
  /\ status = [c \in Client |-> "gone"]
  /\ reply = [c \in Client |-> <<>>]

Ask(c) ==
  /\ status[c] = "idle"
  /\ \E p \in Packet : request' = [request EXCEPT ![c] = p]
  /\ status' = [status EXCEPT ![c] = "asked"]
  /\ UNCHANGED <<log, torn, reply>>

AddLine(c) ==
  /\ status[c] = "asked" /\ Seekto[request[c]] = NULL
  /\ log' = Newest(torn \o Pieces[request[c]])
  /\ torn' = <<>>
  /\ Served(c, FlattenSeq(log'))
  /\ UNCHANGED request

(* The line is lost, and the client not told: the device has no memory and *)
(* drops the line begun, or the packet's last pieces do not reach it.      *)
LoseLine(c) ==
  /\ status[c] = "asked" /\ Seekto[request[c]] = NULL
  /\ torn' \in {<<>>} \cup {torn \o begun : begun \in Begun(request[c])}
  /\ Served(c, FlattenSeq(log))
  /\ UNCHANGED <<log, request>>

FindPlace(c) ==
  /\ status[c] = "asked" /\ Seekto[request[c]] # NULL
  /\ HasPlace(Seekto[request[c]])
  /\ Served(c, FromPlace(Seekto[request[c]]))
  /\ UNCHANGED <<log, torn, request>>

(* There is no such place: the client is sent nothing and given up.        *)
Refuse(c) ==
  /\ status[c] = "asked" /\ Seekto[request[c]] # NULL
  /\ ~HasPlace(Seekto[request[c]])
  /\ status' = [status EXCEPT ![c] = "cut"]
  /\ UNCHANGED <<log, torn, request, reply>>

(* The whole reply has been sent, or the connection is given up.           *)
Deliver(c) ==
  /\ status[c] \in {"served", "cut"}
  /\ status' = [status EXCEPT ![c] = IF @ = "served" THEN "idle" ELSE "gone"]
  /\ request' = [request EXCEPT ![c] = NULL]
  /\ reply' = [reply EXCEPT ![c] = <<>>]
  /\ UNCHANGED <<log, torn>>

(* A part of the reply cannot be sent and is left out.  What follows it    *)
(* may still be sent before the connection is given up.                    *)
Cut(c) ==
  /\ status[c] \in {"served", "cut"}
  /\ status' = [status EXCEPT ![c] = "cut"]
  /\ \E i, j \in 0..Len(reply[c]) :
       /\ i <= j
       /\ reply' = [reply EXCEPT ![c] = SubSeq(@, 1, i) \o SubSeq(@, j + 1, Len(@))]
  /\ UNCHANGED <<log, torn, request>>

Leave(c) ==
  /\ status[c] = "idle"
  /\ status' = [status EXCEPT ![c] = "gone"]
  /\ UNCHANGED <<log, torn, request, reply>>

Come(c) ==
  /\ status[c] = "gone"
  /\ status' = [status EXCEPT ![c] = "idle"]
  /\ UNCHANGED <<log, torn, request, reply>>

(* The server dies and is started again.  The log survives; the packet     *)
(* being written may leave its first pieces.                               *)
Restart ==
  /\ status' = [c \in Client |-> "gone"]
  /\ request' = [c \in Client |-> NULL]
  /\ reply' = [c \in Client |-> <<>>]
  /\ torn' \in {torn} \cup {torn \o begun : begun \in
                UNION {Begun(request[c]) : c \in {d \in Client : status[d] = "asked"}}}
  /\ UNCHANGED log

Next ==
  \/ \E c \in Client :
       \/ Ask(c) \/ AddLine(c) \/ LoseLine(c) \/ FindPlace(c) \/ Refuse(c)
       \/ Deliver(c) \/ Cut(c) \/ Leave(c) \/ Come(c)
  \/ Restart

Spec == Init /\ [][Next]_vars
=============================================================================
