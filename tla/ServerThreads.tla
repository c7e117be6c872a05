---------------------------- MODULE ServerThreads ----------------------------
(***************************************************************************)
(* The threads of aesdsocket between run_server() and exit(): the main     *)
(* thread and its accept loop, the thread handler that joins the client    *)
(* threads (called the joiner here), one thread per connection, and the    *)
(* SIGINT/SIGTERM handler, which interrupts any of them.                   *)
(*   src/server/src/aesdsocket.c, aesdsocket_threads.c,                    *)
(*   aesdsocket_client.c, aesdsocket_socket.c, aesdsocket_logging.c,       *)
(* built as aesdsocket_cfg.h has it, USE_AESD_CHAR_DEVICE == 1.            *)
(*                                                                         *)
(* A thread is a program counter.  Everything a thread does while it holds *)
(* thread_list_mutex is one step, except for the joiner, which may block   *)
(* in pthread_join with the mutex held; so the mutex is taken exactly when *)
(* jpc is one of JoinerLocked.  What a packet contains, and what of it is  *)
(* sent back, is not described: a thread processes a packet or fails to.   *)
(***************************************************************************)
EXTENDS Integers, FiniteSets

CONSTANTS
  Client,     (* connections; each one has a thread node of its own        *)
  Fd,         (* descriptor numbers                                        *)
  Signal,     (* the SIGINTs and SIGTERMs delivered in a behaviour         *)
  Failures,   (* the calls that may fail for want of resources             *)
  MaxLines,   (* bound: the newlines in what one recv() returns            *)
  NULL


CallsThatFail == {"accept", "malloc", "pthread_create", "fopen"}

ASSUME FdAssumption == Fd \subseteq Nat /\ 0 \in Fd
ASSUME MaxLinesAssumption == MaxLines \in Nat
ASSUME FailuresAssumption == Failures \subseteq CallsThatFail
ASSUME KindsAssumption ==
  /\ Client \cap {"free", "listen", "log", "main", "joiner"} = {}
  /\ Signal \cap (Client \cup {"main", "joiner"}) = {}
  /\ NULL \notin Fd /\ NULL \notin Client \cup Signal

VARIABLES
  process_running,
  server_sock_fd,   (* -1 when closed                                        *)
  listening,        (* FALSE once the listening socket has been shut down    *)
  file,             (* the descriptor table: what each number refers to      *)
  conn,             (* the connection as the network sees it                 *)
  log_file,         (* descriptor of the stream log_file, or NULL            *)
  log_file_mutex,   (* the client thread holding it, or NULL                 *)
  thread_list,      (* the nodes in the list (its order is left out)         *)
  node,             (* memory of each node: "none", "allocated" or "freed"   *)
  thread_completed, (* of each node                                          *)
  client_sock_fd,   (* of each node                                          *)
  sock_fd,          (* the local copy of it each client thread works with    *)
  lines,            (* newlines in the data received and not yet processed   *)
  cpc, jpc, mpc,    (* program counters: client threads, joiner, main        *)
  accepted,         (* main: the connection accept returned, or NULL ...     *)
  accepted_sock_fd, (* ... and its descriptor                                *)
  ret_val,          (* main: "success" or "failure"                          *)
  spc, host         (* each signal's handler, and what it interrupted        *)

netVars    == <<file, conn, listening, server_sock_fd>>
logVars    == <<log_file, log_file_mutex>>
nodeVars   == <<thread_list, node, thread_completed, client_sock_fd>>
mainVars   == <<accepted, accepted_sock_fd, ret_val>>
threadVars == <<sock_fd, lines>>
signalVars == <<spc, host>>
vars == <<netVars, logVars, nodeVars, mainVars, signalVars,
          process_running, threadVars, cpc, jpc, mpc>>

FdOrNone == Fd \cup {-1}
Thread == Client \cup {"main", "joiner"}
-----------------------------------------------------------------------------
(* Vocabulary.                                                             *)

ProcessOver == mpc \in {"exited", "crashed"}

(* A thread runs unless the process is gone or a handler has interrupted   *)
(* it and not yet returned.  A handler is itself interrupted by the other  *)
(* signal.                                                                 *)
InHandler(s) == spc[s] \in {"entered", "close", "forget"}
Runs(t) == ~ProcessOver /\ \A s \in Signal : InHandler(s) => host[s] # t

(* The kernel hands out the lowest free number.                            *)
LowestFree(f) ==
  /\ file[f] = "free"
  /\ \A g \in Fd : file[g] = "free" => f <= g
NoneFree == \A f \in Fd : file[f] # "free"

(* shutdown() and close() of a number: the connection it refers to is shut *)
(* down, and the number becomes free.  A bad number changes nothing.       *)
ShutConn(fd) ==
  IF fd \in Fd /\ file[fd] \in Client THEN [conn EXCEPT ![file[fd]] = "shut"] ELSE conn
Closed(fd) == IF fd \in Fd THEN [file EXCEPT ![fd] = "free"] ELSE file

IsListener(fd) == fd \in Fd /\ file[fd] = "listen"

(* The number refers to a connection / to one the peer may still use.      *)
IsConn(fd) == fd \in Fd /\ file[fd] \in Client
Connected(fd) == IsConn(fd) /\ conn[file[fd]] = "open"

(* close_socket: shutdown, close, forget.                                  *)
close_socket(fd) ==
  /\ conn' = ShutConn(fd)
  /\ file' = Closed(fd)

JoinerLocked == {"check", "join", "sweep", "final_check", "final_join"}
ListMutexFree == jpc \notin JoinerLocked

Completed == {c \in thread_list : thread_completed[c]}

(* pthread_cond_signal and pthread_cond_broadcast: the joiner is the only  *)
(* thread that ever waits on thread_list_cond.                             *)
WakeJoiner ==
  jpc' = CASE jpc = "wait"       -> "woken"
           [] jpc = "final_wait" -> "final_woken"
           [] OTHER              -> jpc
-----------------------------------------------------------------------------
(* The peers: they connect, which is part of MainAccepts, and may close.   *)

PeerCloses(c) ==
  /\ conn[c] = "open"
  /\ conn' = [conn EXCEPT ![c] = "shut"]
  /\ UNCHANGED <<file, listening, server_sock_fd, logVars, nodeVars, mainVars,
                 signalVars, process_running, threadVars, cpc, jpc, mpc>>
-----------------------------------------------------------------------------
(* The main thread, from run_server() to exit().                           *)

MainAt(pc) == mpc = pc /\ Runs("main")

(* run_thread_handler: the joiner is created, or the server gives up.      *)
MainSetup ==
  /\ MainAt("setup")
  /\ \/ /\ jpc' = "start"
        /\ mpc' = "loop"
        /\ UNCHANGED <<process_running, ret_val>>
     \/ /\ "pthread_create" \in Failures
        /\ process_running' = FALSE
        /\ ret_val' = "failure"
        /\ mpc' = "free"
        /\ UNCHANGED jpc
  /\ UNCHANGED <<netVars, logVars, nodeVars, accepted, accepted_sock_fd,
                 signalVars, threadVars, cpc>>

(* handle_client_connections: the loop condition, accept(), which waits    *)
(* for a peer to connect ...                                               *)
MainLoop ==
  /\ MainAt("loop")
  /\ mpc' = IF process_running THEN "accept" ELSE "stop"
  /\ UNCHANGED <<netVars, logVars, nodeVars, mainVars, signalVars,
                 process_running, threadVars, cpc, jpc>>

MainAccepts ==
  /\ MainAt("accept")
  /\ listening
  /\ \E c \in Client, f \in Fd :
       /\ conn[c] = "none"
       /\ LowestFree(f)
       /\ conn' = [conn EXCEPT ![c] = "open"]
       /\ file' = [file EXCEPT ![f] = c]
       /\ accepted' = c
       /\ accepted_sock_fd' = f
  /\ mpc' = "create"
  /\ UNCHANGED <<listening, server_sock_fd, logVars, nodeVars, ret_val, signalVars,
                 process_running, threadVars, cpc, jpc>>

(* ... which fails when the listener has been shut down, for want of a     *)
(* descriptor, or for a reason of the network's.                           *)
(* Mutant: every failure of accept() is an error. *)
MutAcceptFailsAlways ==
  /\ MainAt("accept")
  /\ ~listening \/ NoneFree \/ "accept" \in Failures
  /\ ret_val' = "failure"
  /\ mpc' = "stop"
  /\ UNCHANGED <<netVars, logVars, nodeVars, accepted, accepted_sock_fd, signalVars,
                 process_running, threadVars, cpc, jpc>>

MainAcceptFails ==
  /\ MainAt("accept")
  /\ ~listening \/ NoneFree \/ "accept" \in Failures
  /\ ret_val' = IF process_running THEN "failure" ELSE ret_val
  /\ mpc' = "stop"
  /\ UNCHANGED <<netVars, logVars, nodeVars, accepted, accepted_sock_fd, signalVars,
                 process_running, threadVars, cpc, jpc>>

(* Main has no use for these any more.                                     *)
MainForgetsConnection == accepted' = NULL /\ accepted_sock_fd' = -1

(* create_client_communication_thread: the node is in the list before its  *)
(* thread exists; the mutex is held throughout.                            *)
MainCreates ==
  /\ MainAt("create")
  /\ ListMutexFree
  /\ node' = [node EXCEPT ![accepted] = "allocated"]
  /\ thread_list' = thread_list \cup {accepted}
  /\ thread_completed' = [thread_completed EXCEPT ![accepted] = FALSE]
  /\ client_sock_fd' = [client_sock_fd EXCEPT ![accepted] = accepted_sock_fd]
  /\ cpc' = [cpc EXCEPT ![accepted] = "start"]
  /\ mpc' = "loop"
  /\ MainForgetsConnection
  /\ UNCHANGED <<netVars, logVars, ret_val, signalVars, process_running, threadVars, jpc>>

(* Without memory or a thread nothing is left in the list; the connection  *)
(* is closed once the mutex is released.                                   *)
MainCannotCreate ==
  /\ MainAt("create")
  /\ ListMutexFree
  /\ Failures \cap {"malloc", "pthread_create"} # {}
  /\ ret_val' = "failure"
  /\ mpc' = "abandon"
  /\ UNCHANGED <<netVars, logVars, nodeVars, accepted, accepted_sock_fd, signalVars,
                 process_running, threadVars, cpc, jpc>>

(* Mutant: the connection is not closed when its thread cannot be created. *)
MutAbandonsOpen ==
  /\ MainAt("abandon")
  /\ mpc' = "stop"
  /\ MainForgetsConnection
  /\ UNCHANGED <<netVars, logVars, nodeVars, ret_val, signalVars,
                 process_running, threadVars, cpc, jpc>>

MainAbandons ==
  /\ MainAt("abandon")
  /\ close_socket(accepted_sock_fd)
  /\ mpc' = "stop"
  /\ MainForgetsConnection
  /\ UNCHANGED <<listening, server_sock_fd, logVars, nodeVars, ret_val, signalVars,
                 process_running, threadVars, cpc, jpc>>

(* stop_server_process, wake_thread_handler, pthread_join of the joiner.   *)
MainStops ==
  /\ MainAt("stop")
  /\ process_running' = FALSE
  /\ mpc' = "wake"
  /\ UNCHANGED <<netVars, logVars, nodeVars, mainVars, signalVars, threadVars, cpc, jpc>>

MainWakes ==
  /\ MainAt("wake")
  /\ ListMutexFree
  /\ WakeJoiner
  /\ mpc' = "join"
  /\ UNCHANGED <<netVars, logVars, nodeVars, mainVars, signalVars,
                 process_running, threadVars, cpc>>

MainJoins ==
  /\ MainAt("join")
  /\ jpc = "exited"
  /\ mpc' = "free"
  /\ UNCHANGED <<netVars, logVars, nodeVars, mainVars, signalVars,
                 process_running, threadVars, cpc, jpc>>

(* free_resources: the listener and the log file, if still open.           *)
MainFrees ==
  /\ MainAt("free")
  /\ file' = [f \in Fd |-> IF f \in {server_sock_fd, log_file} THEN "free" ELSE file[f]]
  /\ conn' = ShutConn(server_sock_fd)
  /\ listening' = (listening /\ ~IsListener(server_sock_fd))
  /\ server_sock_fd' = -1
  /\ log_file' = NULL
  /\ mpc' = "exiting"
  /\ UNCHANGED <<log_file_mutex, nodeVars, mainVars, signalVars,
                 process_running, threadVars, cpc, jpc>>

MainExits ==
  /\ MainAt("exiting")
  /\ mpc' = "exited"
  /\ UNCHANGED <<netVars, logVars, nodeVars, mainVars, signalVars,
                 process_running, threadVars, cpc, jpc>>
-----------------------------------------------------------------------------
(* sig_int_term_handler, on whichever thread takes the signal.  The test   *)
(* of server_sock_fd, close() and the store of -1 are steps of their own:  *)
(* another thread's handler may run in between.                            *)

TakesSignal(x) ==
  /\ Runs(x)
  /\ CASE x = "main"      -> TRUE
       [] x = "joiner"    -> jpc \notin {"none", "exited"}
       [] x \in Client    -> cpc[x] \notin {"none", "exited"}
       [] x \in Signal    -> InHandler(x)

(* stop_server_process; a recv() of the interrupted thread, if it has      *)
(* begun, is going to fail with EINTR (sa_flags is 0).                     *)
HandlerEnters(s) ==
  /\ ~ProcessOver
  /\ spc[s] = "pending"
  /\ \E x \in Thread \cup Signal :
       /\ TakesSignal(x)
       /\ host' = [host EXCEPT ![s] = x]
       /\ \/ UNCHANGED cpc
          \/ x \in Client /\ cpc[x] = "recv" /\ cpc' = [cpc EXCEPT ![x] = "end"]
  /\ spc' = [spc EXCEPT ![s] = "entered"]
  /\ process_running' = FALSE
  /\ UNCHANGED <<netVars, logVars, nodeVars, mainVars, threadVars, jpc, mpc>>

HandlerReturns(s) ==
  /\ spc' = [spc EXCEPT ![s] = "done"]
  /\ host' = [host EXCEPT ![s] = NULL]

HandlerTests(s) ==
  /\ spc[s] = "entered" /\ Runs(s)
  /\ IF server_sock_fd = -1
     THEN HandlerReturns(s)
     ELSE spc' = [spc EXCEPT ![s] = "close"] /\ UNCHANGED host
  /\ conn' = ShutConn(server_sock_fd)
  /\ listening' = (listening /\ ~IsListener(server_sock_fd))
  /\ UNCHANGED <<file, server_sock_fd, logVars, nodeVars, mainVars,
                 process_running, threadVars, cpc, jpc, mpc>>

HandlerCloses(s) ==
  /\ spc[s] = "close" /\ Runs(s)
  /\ file' = Closed(server_sock_fd)
  /\ spc' = [spc EXCEPT ![s] = "forget"]
  /\ UNCHANGED <<conn, listening, server_sock_fd, logVars, nodeVars, mainVars, host,
                 process_running, threadVars, cpc, jpc, mpc>>

HandlerForgets(s) ==
  /\ spc[s] = "forget" /\ Runs(s)
  /\ server_sock_fd' = -1
  /\ HandlerReturns(s)
  /\ UNCHANGED <<file, conn, listening, logVars, nodeVars, mainVars,
                 process_running, threadVars, cpc, jpc, mpc>>
-----------------------------------------------------------------------------
(* A client thread, handle_client_communication.                           *)

ClientAt(c, pc) == cpc[c] = pc /\ Runs(c)
ClientGoes(c, pcs) == \E pc \in pcs : cpc' = [cpc EXCEPT ![c] = pc]

(* The descriptor is copied out of the node without the mutex.             *)
(* Mutant: the thread is passed a pointer to main's accepted_sock_fd, which *)
(* main may have used for the next connection by now.                       *)
MutStartsOnMainsFd(c) ==
  /\ ClientAt(c, "start")
  /\ sock_fd' = [sock_fd EXCEPT ![c] = IF accepted_sock_fd # -1 THEN accepted_sock_fd
                                       ELSE client_sock_fd[c]]
  /\ ClientGoes(c, {"recv"})
  /\ UNCHANGED <<netVars, logVars, nodeVars, mainVars, signalVars,
                 process_running, lines, jpc, mpc>>

ClientStarts(c) ==
  /\ ClientAt(c, "start")
  /\ sock_fd' = [sock_fd EXCEPT ![c] = client_sock_fd[c]]
  /\ ClientGoes(c, {"recv"} \cup IF "malloc" \in Failures THEN {"end"} ELSE {})
  /\ UNCHANGED <<netVars, logVars, nodeVars, mainVars, signalVars,
                 process_running, lines, jpc, mpc>>

(* recv() returns data, some of it perhaps sent before the connection was  *)
(* shut down, with so many newlines; or too much for a packet.             *)
ClientReceives(c) ==
  /\ ClientAt(c, "recv")
  /\ IsConn(sock_fd[c])
  /\ \/ \E n \in 0..MaxLines :
          /\ lines' = [lines EXCEPT ![c] = n]
          /\ ClientGoes(c, {IF n = 0 THEN "check" ELSE "lock"})
     \/ ClientGoes(c, {"end"}) /\ UNCHANGED lines
  /\ UNCHANGED <<netVars, logVars, nodeVars, mainVars, signalVars,
                 process_running, sock_fd, jpc, mpc>>

(* recv() returns 0 or fails.                                              *)
ClientReceivesEnd(c) ==
  /\ ClientAt(c, "recv")
  /\ ~Connected(sock_fd[c])
  /\ ClientGoes(c, {"end"})
  /\ UNCHANGED <<netVars, logVars, nodeVars, mainVars, signalVars,
                 process_running, threadVars, jpc, mpc>>

(* A packet is processed under log_file_mutex, on a stream opened for it.  *)
(* What open_log_file returns is ignored.                                  *)
(* Mutant: log_file_mutex is not taken. *)
MutOpensUnlocked(c) ==
  /\ ClientAt(c, "lock")
  /\ log_file_mutex' = c
  /\ \E f \in Fd : LowestFree(f) /\ log_file' = f /\ file' = [file EXCEPT ![f] = "log"]
  /\ ClientGoes(c, {"io"})
  /\ UNCHANGED <<conn, listening, server_sock_fd, nodeVars, mainVars, signalVars,
                 process_running, threadVars, jpc, mpc>>

ClientLocks(c) ==
  /\ ClientAt(c, "lock")
  /\ log_file_mutex = NULL
  /\ log_file_mutex' = c
  /\ \/ \E f \in Fd : LowestFree(f) /\ log_file' = f /\ file' = [file EXCEPT ![f] = "log"]
     \/ (NoneFree \/ "fopen" \in Failures) /\ log_file' = NULL /\ UNCHANGED file
  /\ ClientGoes(c, {"io"})
  /\ UNCHANGED <<conn, listening, server_sock_fd, nodeVars, mainVars, signalVars,
                 process_running, threadVars, jpc, mpc>>

(* fwrite or ioctl and the sending are over, well or not; the stream is    *)
(* closed.  After a failure the rest of the data is dropped.               *)
ClientProcesses(c) ==
  /\ ClientAt(c, "io")
  /\ log_file # NULL
  /\ file' = Closed(log_file)
  /\ log_file' = NULL
  /\ log_file_mutex' = NULL
  /\ \/ /\ lines' = [lines EXCEPT ![c] = @ - 1]
        /\ ClientGoes(c, {IF lines[c] > 1 THEN "lock" ELSE "check"})
     \/ /\ lines' = [lines EXCEPT ![c] = 0]
        /\ ClientGoes(c, {"end"})
  /\ UNCHANGED <<conn, listening, server_sock_fd, nodeVars, mainVars, signalVars,
                 process_running, sock_fd, jpc, mpc>>

(* fwrite, fileno and fseek dereference the stream.                        *)
ClientCrashes(c) ==
  /\ ClientAt(c, "io")
  /\ log_file = NULL
  /\ mpc' = "crashed"
  /\ UNCHANGED <<netVars, logVars, nodeVars, mainVars, signalVars,
                 process_running, threadVars, cpc, jpc>>

(* The loop condition.                                                     *)
ClientChecks(c) ==
  /\ ClientAt(c, "check")
  /\ ClientGoes(c, {IF process_running THEN "recv" ELSE "end"})
  /\ UNCHANGED <<netVars, logVars, nodeVars, mainVars, signalVars,
                 process_running, threadVars, jpc, mpc>>

(* The socket is closed unless the joiner has done so, the node is marked  *)
(* and the joiner woken, all under thread_list_mutex.                      *)
(* Mutant: pthread_cond_signal forgotten. *)
MutEndsQuietly(c) ==
  /\ ClientAt(c, "end")
  /\ ListMutexFree
  /\ close_socket(client_sock_fd[c])
  /\ client_sock_fd' = [client_sock_fd EXCEPT ![c] = -1]
  /\ thread_completed' = [thread_completed EXCEPT ![c] = TRUE]
  /\ ClientGoes(c, {"exiting"})
  /\ UNCHANGED <<listening, server_sock_fd, logVars, thread_list, node, mainVars,
                 signalVars, process_running, threadVars, jpc, mpc>>

ClientEnds(c) ==
  /\ ClientAt(c, "end")
  /\ ListMutexFree
  /\ close_socket(client_sock_fd[c])
  /\ client_sock_fd' = [client_sock_fd EXCEPT ![c] = -1]
  /\ thread_completed' = [thread_completed EXCEPT ![c] = TRUE]
  /\ WakeJoiner
  /\ ClientGoes(c, {"exiting"})
  /\ UNCHANGED <<listening, server_sock_fd, logVars, thread_list, node, mainVars,
                 signalVars, process_running, threadVars, mpc>>

ClientExits(c) ==
  /\ ClientAt(c, "exiting")
  /\ ClientGoes(c, {"exited"})
  /\ sock_fd' = [sock_fd EXCEPT ![c] = -1]
  /\ UNCHANGED <<netVars, logVars, nodeVars, mainVars, signalVars,
                 process_running, lines, jpc, mpc>>
-----------------------------------------------------------------------------
(* The joiner, thread_handler.                                             *)

JoinerAt(pcs) == jpc \in pcs /\ Runs("joiner")

(* The nested loops of thread_handler.  The mutex is taken first, at the   *)
(* start and again before pthread_cond_wait returns; no other thread keeps *)
(* it across a step.                                                       *)
(* Mutant: it waits before it looks whether a thread has completed. *)
MutWaitsFirst ==
  /\ JoinerAt({"start", "woken", "check"})
  /\ jpc' = CASE ~process_running -> "leave"
              [] process_running /\ (jpc # "woken" \/ Completed = {}) -> "wait"
              [] process_running /\ jpc = "woken" /\ Completed # {} -> "join"
  /\ UNCHANGED <<netVars, logVars, nodeVars, mainVars, signalVars,
                 process_running, threadVars, cpc, mpc>>

JoinerChecks ==
  /\ JoinerAt({"start", "woken", "check"})
  /\ jpc' = CASE ~process_running -> "leave"
              [] process_running /\ Completed = {} -> "wait"
              [] process_running /\ Completed # {} -> "join"
  /\ UNCHANGED <<netVars, logVars, nodeVars, mainVars, signalVars,
                 process_running, threadVars, cpc, mpc>>

(* pthread_cond_wait may return without having been signalled.             *)
JoinerWakesUnasked ==
  /\ JoinerAt({"wait", "final_wait"})
  /\ WakeJoiner
  /\ UNCHANGED <<netVars, logVars, nodeVars, mainVars, signalVars,
                 process_running, threadVars, cpc, mpc>>

(* join_completed_client_threads, one node at a time: pthread_join waits   *)
(* for the thread to be gone, with the mutex held.                         *)
JoinerJoins ==
  /\ JoinerAt({"join", "final_join"})
  /\ \E c \in Completed :
       /\ cpc[c] = "exited"
       /\ thread_list' = thread_list \ {c}
       /\ node' = [node EXCEPT ![c] = "freed"]
  /\ jpc' = CASE \E c \in thread_list' : thread_completed[c] -> jpc
              [] OTHER -> IF jpc = "join" THEN "check" ELSE "final_check"
  /\ UNCHANGED <<netVars, logVars, thread_completed, client_sock_fd, mainVars,
                 signalVars, process_running, threadVars, cpc, mpc>>

(* force_joining_client_communication_threads takes the mutex again and    *)
(* closes the sockets of the nodes there are, one at a time ...            *)
(* Mutant: the node keeps the number of the socket it has closed. *)
MutSweepsKeepingFd ==
  /\ JoinerAt({"leave", "sweep"})
  /\ \E c \in thread_list :
       client_sock_fd[c] # -1 /\ close_socket(client_sock_fd[c])
  /\ jpc' = "sweep"
  /\ UNCHANGED <<listening, server_sock_fd, logVars, nodeVars, mainVars, signalVars,
                 process_running, threadVars, cpc, mpc>>

JoinerSweeps ==
  /\ JoinerAt({"leave", "sweep"})
  /\ \E c \in thread_list :
       /\ client_sock_fd[c] # -1
       /\ close_socket(client_sock_fd[c])
       /\ client_sock_fd' = [client_sock_fd EXCEPT ![c] = -1]
  /\ jpc' = "sweep"
  /\ UNCHANGED <<listening, server_sock_fd, logVars, thread_list, node,
                 thread_completed, mainVars, signalVars, process_running, threadVars,
                 cpc, mpc>>

(* Mutant: the joiner waits for the threads without closing their sockets. *)
MutNeverSweeps ==
  /\ JoinerAt({"leave", "sweep"})
  /\ jpc' = "final_check"
  /\ UNCHANGED <<netVars, logVars, nodeVars, mainVars, signalVars,
                 process_running, threadVars, cpc, mpc>>

JoinerHasSwept ==
  /\ JoinerAt({"leave", "sweep"})
  /\ \A c \in thread_list : client_sock_fd[c] = -1
  /\ jpc' = "final_check"
  /\ UNCHANGED <<netVars, logVars, nodeVars, mainVars, signalVars,
                 process_running, threadVars, cpc, mpc>>

(* ... and then joins threads until the list is empty.                     *)
JoinerChecksLast ==
  /\ JoinerAt({"final_woken", "final_check"})
  /\ jpc' = CASE thread_list = {} -> "exited"
              [] thread_list # {} /\ Completed = {} -> "final_wait"
              [] thread_list # {} /\ Completed # {} -> "final_join"
  /\ UNCHANGED <<netVars, logVars, nodeVars, mainVars, signalVars,
                 process_running, threadVars, cpc, mpc>>
-----------------------------------------------------------------------------
(* The signal handlers are installed before run_server() is called.        *)
Init ==
  /\ process_running = TRUE
  /\ server_sock_fd = 0
  /\ listening = TRUE
  /\ file = [f \in Fd |-> IF f = 0 THEN "listen" ELSE "free"]
  /\ conn = [c \in Client |-> "none"]
  /\ log_file = NULL
  /\ log_file_mutex = NULL
  /\ thread_list = {}
  /\ node = [c \in Client |-> "none"]
  /\ thread_completed = [c \in Client |-> FALSE]
  /\ client_sock_fd = [c \in Client |-> -1]
  /\ sock_fd = [c \in Client |-> -1]
  /\ lines = [c \in Client |-> 0]
  /\ cpc = [c \in Client |-> "none"]
  /\ jpc = "none"
  /\ mpc = "setup"
  /\ accepted = NULL
  /\ accepted_sock_fd = -1
  /\ ret_val = "success"
  /\ spc = [s \in Signal |-> "pending"]
  /\ host = [s \in Signal |-> NULL]

(* Steps a thread takes without waiting for the outside world.             *)
MainStep ==
  \/ MainSetup \/ MainLoop \/ MainCreates \/ MainCannotCreate \/ MainAbandons
  \/ MainStops \/ MainWakes \/ MainJoins \/ MainFrees \/ MainExits
ClientStep(c) ==
  \/ ClientStarts(c) \/ ClientReceivesEnd(c) \/ ClientLocks(c) \/ ClientChecks(c)
  \/ ClientCrashes(c) \/ ClientEnds(c) \/ ClientExits(c)
JoinerStep ==
  \/ JoinerChecks \/ JoinerJoins \/ JoinerSweeps
  \/ JoinerHasSwept \/ JoinerChecksLast
HandlerStep(s) == HandlerTests(s) \/ HandlerCloses(s) \/ HandlerForgets(s)

(* The process is over: nothing more happens.                              *)
Over == ProcessOver /\ UNCHANGED vars

Next ==
  \/ MainStep \/ MainAccepts \/ MainAcceptFails
  \/ \E c \in Client :
       ClientStep(c) \/ ClientReceives(c) \/ ClientProcesses(c) \/ PeerCloses(c)
  \/ JoinerStep \/ JoinerWakesUnasked
  \/ \E s \in Signal : HandlerEnters(s) \/ HandlerStep(s)
  \/ Over

Spec == Init /\ [][Next]_vars

(* A runnable thread is eventually scheduled; a mutex that stays free is   *)
(* obtained; recv() and send() on a connection that is shut return.        *)
(* Nothing is assumed of peers, of signals, of calls that may fail, or of  *)
(* a recv() or send() that waits for the peer.                             *)
Fairness ==
  /\ WF_vars(MainStep) /\ WF_vars(~listening /\ MainAcceptFails)
  /\ WF_vars(JoinerStep)
  /\ \A s \in Signal : WF_vars(HandlerStep(s))
  /\ \A c \in Client :
       /\ WF_vars(ClientStep(c))
       /\ WF_vars(~Connected(sock_fd[c]) /\ ClientProcesses(c))

FairSpec == Spec /\ Fairness
-----------------------------------------------------------------------------
(* Safety.                                                                 *)

MainPc == {"setup", "loop", "accept", "create", "abandon", "stop", "wake", "join",
           "free", "exiting", "exited", "crashed"}
JoinerPc == {"none", "start", "check", "wait", "woken", "join", "leave", "sweep",
             "final_check", "final_wait", "final_woken", "final_join", "exited"}
ClientPc == {"none", "start", "recv", "lock", "io", "check", "end", "exiting", "exited"}
HandlerPc == {"pending", "entered", "close", "forget", "done"}

TypeOK ==
  /\ process_running \in BOOLEAN
  /\ server_sock_fd \in FdOrNone
  /\ listening \in BOOLEAN
  /\ file \in [Fd -> Client \cup {"free", "listen", "log"}]
  /\ conn \in [Client -> {"none", "open", "shut"}]
  /\ log_file \in Fd \cup {NULL}
  /\ log_file_mutex \in Client \cup {NULL}
  /\ thread_list \in SUBSET Client
  /\ node \in [Client -> {"none", "allocated", "freed"}]
  /\ thread_completed \in [Client -> BOOLEAN]
  /\ client_sock_fd \in [Client -> FdOrNone]
  /\ sock_fd \in [Client -> FdOrNone]
  /\ lines \in [Client -> 0..MaxLines]
  /\ \A c \in Client : cpc[c] \in {"lock", "io"} => lines[c] > 0
  /\ cpc \in [Client -> ClientPc]
  /\ jpc \in JoinerPc
  /\ mpc \in MainPc
  /\ accepted \in Client \cup {NULL}
  /\ accepted_sock_fd \in FdOrNone
  /\ ret_val \in {"success", "failure"}
  /\ spc \in [Signal -> HandlerPc]
  /\ host \in [Signal -> Thread \cup Signal \cup {NULL}]

(* A client thread works on its node, in the list or not, until it has     *)
(* released thread_list_mutex for the last time: as long as it has not     *)
(* ended, the node is in the list and its memory is not freed             *)
(* (aesdsocket_client.c:389-396 against aesdsocket_threads.c:81-84).       *)
NodesOutliveThreads ==
  \A c \in Client :
    /\ cpc[c] \notin {"none", "exited"} => c \in thread_list
    /\ c \in thread_list <=> node[c] = "allocated"

(* A waiting joiner has nothing to do: no thread of the list has completed *)
(* without waking it, and it does not wait for clients once main has told  *)
(* it to stop (aesdsocket_threads.c:123-132, 192-197).                     *)
NoLostWakeup ==
  /\ jpc \in {"wait", "final_wait"} => Completed = {}
  /\ jpc = "wait" => mpc \notin {"join", "free", "exiting", "exited"}

(* What main knows about a connection it has accepted and not yet passed   *)
(* on, and what thread_completed and main's progress tell: the facts that  *)
(* make the two invariants above inductive.                                *)
Bookkeeping ==
  /\ mpc \in {"create", "abandon"} =>
       /\ accepted \in Client
       /\ cpc[accepted] = "none" /\ node[accepted] = "none"
       /\ conn[accepted] # "none"
  /\ \A c \in Client :
       /\ conn[c] = "none" => cpc[c] = "none"
       /\ cpc[c] = "none" => node[c] = "none"
       /\ c \in thread_list =>
            (thread_completed[c] <=> cpc[c] \in {"exiting", "exited"})
  /\ mpc \in {"wake", "join", "free", "exiting", "exited"} => ~process_running
  /\ mpc = "setup" => jpc = "none"

Inv == TypeOK /\ NodesOutliveThreads /\ NoLostWakeup /\ Bookkeeping

(* A descriptor a node still records belongs to its connection, so that    *)
(* neither the joiner nor the thread shuts down somebody else's socket.    *)
(* It holds until a second signal comes: two handlers on two threads may   *)
(* close the listener's number twice, the second time after it was given   *)
(* out again (aesdsocket.c:93-95, aesdsocket_socket.c:100-105).            *)
AtMostOneSignal ==
  \A s, t \in Signal : spc[s] # "pending" /\ spc[t] # "pending" => s = t

DescriptorsOwned ==
  AtMostOneSignal =>
    \A c \in thread_list :
      client_sock_fd[c] # -1 => file[client_sock_fd[c]] = c

(* While the server runs a client thread receives and sends on its own     *)
(* connection, although it works with a copy of the descriptor.            *)
SocketPrivate ==
  \A c \in Client :
    process_running /\ cpc[c] \in {"recv", "lock", "io", "check"} =>
      IsConn(sock_fd[c]) /\ file[sock_fd[c]] = c

(* The thread that processes a packet has the log open, if it could open   *)
(* it, on a descriptor nobody else uses or closes, until main frees the    *)
(* resources or a second signal comes: the one global log_file is          *)
(* protected by log_file_mutex (aesdsocket_client.c:242, 273-283).         *)
LogStreamIntact ==
  \A c \in Client :
    cpc[c] = "io" /\ mpc \notin {"exiting", "exited", "crashed"} =>
      /\ log_file_mutex = c
      /\ log_file # NULL /\ AtMostOneSignal => file[log_file] = "log"

(* When no call fails for want of resources the server, however and        *)
(* whenever it is signalled, reports success.                              *)
CleanStop == Failures = {} => ret_val = "success"

(* No descriptor is leaked: when the process ends, after whatever failure, *)
(* and every client thread has gone, all numbers have been closed.         *)
NothingLeftOpen ==
  mpc = "exited" /\ (\A c \in Client : cpc[c] \in {"none", "exited"}) =>
    \A f \in Fd : file[f] = "free"

-----------------------------------------------------------------------------
(* Liveness.                                                               *)

(* A thread that has completed is joined and its node freed, whatever the  *)
(* other clients do.                                                       *)
CompletedIsJoined ==
  \A c \in Client :
    (c \in thread_list /\ thread_completed[c]) ~> (node[c] = "freed" \/ ProcessOver)

(* If main registers no connection once the server has been stopped, the   *)
(* shutdown completes, whatever the peers do.                              *)
QuiescentShutdown ==
  (mpc \in {"stop", "wake"} /\ ~process_running
     /\ jpc \in {"start", "check", "wait", "woken", "leave"})
    ~> ProcessOver

(* A server that has been told to stop stops: every client thread is       *)
(* forced out of recv() (aesdsocket_threads.c:96), joined, and its node    *)
(* freed, before the process exits.                                        *)
EventuallyExits ==
  ~process_running ~>
    \/ mpc = "exited" /\ \A c \in Client : cpc[c] \in {"none", "exited"} /\ node[c] # "allocated"
    \/ mpc = "crashed"
=============================================================================
