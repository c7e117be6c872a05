----------------------------- MODULE ServerMain -----------------------------
(***************************************************************************)
(* main() of aesdsocket around run_server(): the parameters, the listening *)
(* socket, the daemon, the signal handlers, and the way out.               *)
(*   src/server/src/aesdsocket.c, aesdsocket_socket.c                      *)
(*                                                                         *)
(* The process started is "parent"; with -d it forks "child" and leaves.   *)
(* Every call of the C library may fail.  What run_server() does is in     *)
(* ServerThreads; here it returns, with success or not.  SIGINT and        *)
(* SIGTERM may come at any time.                                           *)
(***************************************************************************)
EXTENDS Integers

CONSTANT Fd     (* descriptor numbers *)

Std == 0..2     (* STDIN_FILENO .. STDERR_FILENO *)
Process == {"parent", "child"}
Signal == {"SIGINT", "SIGTERM"}

ASSUME FdAssumption == Fd \subseteq Nat /\ Std \subseteq Fd

VARIABLES
  args,             (* "none", "-d", or anything else                       *)
  inherited,        (* the standard descriptors open when main() is called  *)
  socket,           (* the listening socket, which both processes share     *)
  pc, ret_val,      (* of each process                                      *)
  server_sock_fd, process_running,
  file,             (* the descriptor table of each process                 *)
  session,          (* the process has a session of its own                 *)
  handlers,         (* the signals for which it has installed the handler   *)
  served,           (* it has run the server                                *)
  status            (* how it ended                                         *)

vars == <<args, inherited, socket, pc, ret_val, server_sock_fd, process_running,
          file, session, handlers, served, status>>

Goes(p, place) == pc' = [pc EXCEPT ![p] = place]

(* The kernel hands out the lowest free number.                            *)
LowestFree(p, f) ==
  /\ file[p][f] = "free"
  /\ \A g \in Fd : file[p][g] = "free" => f <= g

AllFree == [f \in Fd |-> "free"]

(* An error is remembered, and main() breaks out to free_resources.        *)
Fails(p) ==
  /\ ret_val' = [ret_val EXCEPT ![p] = "failure"]
  /\ Goes(p, "free")

(* The process ends; the kernel closes what it has open.                   *)
Ends(p, how) ==
  /\ status' = [status EXCEPT ![p] = how]
  /\ file' = [file EXCEPT ![p] = AllFree]
  /\ Goes(p, "gone")
-----------------------------------------------------------------------------
Init ==
  /\ args \in {"none", "-d", "other"}
  /\ inherited \in SUBSET Std
  /\ socket = "none"
  /\ pc = [p \in Process |-> IF p = "parent" THEN "parameters" ELSE "none"]
  /\ ret_val = [p \in Process |-> "success"]
  /\ server_sock_fd = [p \in Process |-> -1]
  /\ process_running = [p \in Process |-> TRUE]
  /\ file = [p \in Process |->
               IF p = "parent" THEN [f \in Fd |-> IF f \in inherited THEN "std" ELSE "free"]
               ELSE AllFree]
  /\ session = [p \in Process |-> FALSE]
  /\ handlers = [p \in Process |-> {}]
  /\ served = [p \in Process |-> FALSE]
  /\ status = [p \in Process |-> "running"]

(* handle_input_parameters *)
ReadsParameters(p) ==
  /\ pc[p] = "parameters"
  /\ IF args = "other" THEN Fails(p) ELSE Goes(p, "socket") /\ UNCHANGED ret_val
  /\ UNCHANGED <<args, inherited, socket, server_sock_fd, process_running, file,
                 session, handlers, served, status>>

(* create_server_socket; getaddrinfo and socket may fail before there is a *)
(* descriptor, setsockopt when there is one.                               *)
CreatesSocket(p) ==
  /\ pc[p] = "socket"
  /\ \E f \in Fd :
       /\ LowestFree(p, f)
       /\ server_sock_fd' = [server_sock_fd EXCEPT ![p] = f]
       /\ file' = [file EXCEPT ![p][f] = "listen"]
  /\ socket' = "created"
  /\ Fails(p) \/ (Goes(p, "bind") /\ UNCHANGED ret_val)
  /\ UNCHANGED <<args, inherited, process_running, session, handlers, served, status>>

(* Mutant: a failure of getaddrinfo is only logged. *)
MutHasNoSocket(p) ==
  /\ pc[p] = "socket"
  /\ Goes(p, "free")
  /\ UNCHANGED <<args, inherited, socket, ret_val, server_sock_fd, process_running,
                 file, session, handlers, served, status>>

HasNoSocket(p) ==
  /\ pc[p] = "socket"
  /\ Fails(p)
  /\ UNCHANGED <<args, inherited, socket, server_sock_fd, process_running, file,
                 session, handlers, served, status>>

BindsSocket(p) ==
  /\ pc[p] = "bind"
  /\ \/ socket' = "bound" /\ Goes(p, "listen") /\ UNCHANGED ret_val
     \/ Fails(p) /\ UNCHANGED socket
  /\ UNCHANGED <<args, inherited, server_sock_fd, process_running, file, session,
                 handlers, served, status>>

ListensOnSocket(p) ==
  /\ pc[p] = "listen"
  /\ \/ /\ socket' = "listening"
        /\ Goes(p, IF args = "-d" THEN "fork" ELSE "sigint")
        /\ UNCHANGED ret_val
     \/ Fails(p) /\ UNCHANGED socket
  /\ UNCHANGED <<args, inherited, server_sock_fd, process_running, file, session,
                 handlers, served, status>>

(* handle_run_as_daemon: the child has the parent's descriptors.           *)
Forks(p) ==
  /\ pc[p] = "fork"
  /\ \/ /\ pc' = [pc EXCEPT ![p] = "leave", !["child"] = "detach"]
        /\ server_sock_fd' = [server_sock_fd EXCEPT !["child"] = server_sock_fd[p]]
        /\ file' = [file EXCEPT !["child"] = file[p]]
        /\ UNCHANGED ret_val
     \/ Fails(p) /\ UNCHANGED <<server_sock_fd, file>>
  /\ UNCHANGED <<args, inherited, socket, process_running, session, handlers, served,
                 status>>

(* Mutant: the parent leaves by way of free_resources. *)
MutParentLeavesFreeing(p) ==
  /\ pc[p] = "leave"
  /\ Ends(p, "success")
  /\ socket' = "shut"
  /\ UNCHANGED <<args, inherited, ret_val, server_sock_fd, process_running, session,
                 handlers, served>>

(* _exit(EXIT_SUCCESS), which does not shut the socket down.               *)
ParentLeaves(p) ==
  /\ pc[p] = "leave"
  /\ Ends(p, "success")
  /\ UNCHANGED <<args, inherited, socket, ret_val, server_sock_fd, process_running,
                 session, handlers, served>>

(* setup_daemon: setsid and chdir ...                                      *)
Detaches(p) ==
  /\ pc[p] = "detach"
  /\ \/ session' = [session EXCEPT ![p] = TRUE] /\ Goes(p, "redirect") /\ UNCHANGED ret_val
     \/ session' \in {session, [session EXCEPT ![p] = TRUE]} /\ Fails(p)
  /\ UNCHANGED <<args, inherited, socket, server_sock_fd, process_running, file,
                 handlers, served, status>>

(* Mutant: null_fd is closed in any case. *)
MutRedirects(p) ==
  /\ pc[p] = "redirect"
  /\ \E null_fd \in Fd :
       /\ LowestFree(p, null_fd)
       /\ file' = [file EXCEPT ![p] =
                     [f \in Fd |-> IF f = null_fd THEN "free"
                                   ELSE IF f \in Std THEN "null" ELSE @[f]]]
  /\ Goes(p, "sigint")
  /\ UNCHANGED <<args, inherited, socket, ret_val, server_sock_fd, process_running,
                 session, handlers, served, status>>

(* ... and /dev/null on the three standard descriptors, whatever they      *)
(* referred to.  The number open() returned is closed unless it is one.    *)
Redirects(p) ==
  /\ pc[p] = "redirect"
  /\ \E null_fd \in Fd :
       /\ LowestFree(p, null_fd)
       /\ file' = [file EXCEPT ![p] = [f \in Fd |-> IF f \in Std THEN "null" ELSE @[f]]]
  /\ Goes(p, "sigint")
  /\ UNCHANGED <<args, inherited, socket, ret_val, server_sock_fd, process_running,
                 session, handlers, served, status>>

CannotRedirect(p) ==
  /\ pc[p] = "redirect"
  /\ Fails(p)
  /\ UNCHANGED <<args, inherited, socket, server_sock_fd, process_running, file,
                 session, handlers, served, status>>

(* setup_signal_handlers: sigaction() for SIGINT and then, whatever came   *)
(* of it, for SIGTERM.                                                     *)
Installs(p, signal) ==
  \/ handlers' = [handlers EXCEPT ![p] = @ \cup {signal}] /\ UNCHANGED ret_val
  \/ ret_val' = [ret_val EXCEPT ![p] = "failure"] /\ UNCHANGED handlers

InstallsFirst(p) ==
  /\ pc[p] = "sigint"
  /\ Installs(p, "SIGINT")
  /\ Goes(p, "sigterm")
  /\ UNCHANGED <<args, inherited, socket, server_sock_fd, process_running, file, session,
                 served, status>>

InstallsSecond(p) ==
  /\ pc[p] = "sigterm"
  /\ Installs(p, "SIGTERM")
  /\ Goes(p, IF ret_val'[p] = "success" THEN "run" ELSE "free")
  /\ UNCHANGED <<args, inherited, socket, server_sock_fd, process_running, file, session,
                 served, status>>

(* A signal that has no handler yet kills the process.                    *)
Killed(p) ==
  /\ pc[p] \notin {"none", "gone"}
  /\ handlers[p] # Signal
  /\ Ends(p, "killed")
  /\ UNCHANGED <<args, inherited, socket, ret_val, server_sock_fd, process_running,
                 session, handlers, served>>

(* close_socket, unless the socket is closed: shutdown() reaches the       *)
(* socket itself, close() this process's descriptor.                       *)
Closes(p) ==
  LET f == server_sock_fd[p]
  IN  /\ socket' = IF f # -1 /\ file[p][f] = "listen" THEN "shut" ELSE socket
      /\ file' = IF f # -1 THEN [file EXCEPT ![p][f] = "free"] ELSE file
      /\ server_sock_fd' = [server_sock_fd EXCEPT ![p] = -1]

(* sig_int_term_handler: from the first sigaction() that succeeds until    *)
(* the process ends.  ServerThreads has its steps one by one.              *)
Handles(p) ==
  /\ pc[p] \notin {"none", "gone"}
  /\ handlers[p] # {}
  /\ process_running' = [process_running EXCEPT ![p] = FALSE]
  /\ Closes(p)
  /\ UNCHANGED <<args, inherited, pc, ret_val, session, handlers, served, status>>

(* run_server returns; whatever ended it, the server no longer runs.       *)
Serves(p) ==
  /\ pc[p] = "run"
  /\ served' = [served EXCEPT ![p] = TRUE]
  /\ \E r \in {"success", "failure"} : ret_val' = [ret_val EXCEPT ![p] = r]
  /\ process_running' = [process_running EXCEPT ![p] = FALSE]
  /\ Goes(p, "free")
  /\ UNCHANGED <<args, inherited, socket, server_sock_fd, file, session, handlers, status>>

(* free_resources.                                                         *)
FreesResources(p) ==
  /\ pc[p] = "free"
  /\ Closes(p)
  /\ Goes(p, "exit")
  /\ UNCHANGED <<args, inherited, ret_val, process_running, session, handlers, served,
                 status>>

Exits(p) ==
  /\ pc[p] = "exit"
  /\ Ends(p, ret_val[p])
  /\ UNCHANGED <<args, inherited, socket, ret_val, server_sock_fd, process_running,
                 session, handlers, served>>

Over == (\A p \in Process : pc[p] \in {"none", "gone"}) /\ UNCHANGED vars

Next ==
  \/ \E p \in Process :
       \/ ReadsParameters(p) \/ CreatesSocket(p) \/ HasNoSocket(p) \/ BindsSocket(p)
       \/ ListensOnSocket(p) \/ Forks(p) \/ ParentLeaves(p) \/ Detaches(p)
       \/ Redirects(p) \/ CannotRedirect(p) \/ InstallsFirst(p) \/ InstallsSecond(p)
       \/ Killed(p) \/ Handles(p) \/ Serves(p) \/ FreesResources(p) \/ Exits(p)
  \/ Over

Spec == Init /\ [][Next]_vars
-----------------------------------------------------------------------------
Places == {"none", "parameters", "socket", "bind", "listen", "fork", "leave", "detach",
           "redirect", "sigint", "sigterm", "run", "free", "exit", "gone"}

TypeOK ==
  /\ args \in {"none", "-d", "other"}
  /\ inherited \subseteq Std
  /\ socket \in {"none", "created", "bound", "listening", "shut"}
  /\ pc \in [Process -> Places]
  /\ ret_val \in [Process -> {"success", "failure"}]
  /\ server_sock_fd \in [Process -> Fd \cup {-1}]
  /\ process_running \in [Process -> BOOLEAN]
  /\ file \in [Process -> [Fd -> {"free", "std", "listen", "null"}]]
  /\ session \in [Process -> BOOLEAN]
  /\ handlers \in [Process -> SUBSET Signal]
  /\ served \in [Process -> BOOLEAN]
  /\ status \in [Process -> {"running", "success", "failure", "killed"}]

(* Whoever started aesdsocket is told success only by a server that has    *)
(* run, or by the parent of a daemon (aesdsocket.c:313-349).               *)
ExitTellsTruth ==
  \A p \in Process :
    status[p] = "success" => served[p] \/ (p = "parent" /\ pc["child"] # "none")

(* From listen() until the first signal, or the end of run_server(), the   *)
(* port is listened on, in the daemon too, while and after the parent      *)
(* leaves: aesdsocket accepts connections from the moment its caller is    *)
(* told of success.  For a daemon the standard descriptors must be open at *)
(* the start: otherwise the socket gets one of their numbers, which        *)
(* setup_daemon redirects (aesdsocket.c:188-190, 210-212).                 *)
Listening ==
  \A p \in Process :
    /\ inherited = Std \/ args # "-d"
    /\ process_running[p]
    /\ pc[p] \in {"fork", "detach", "redirect", "sigint", "sigterm", "run"}
    => /\ socket = "listening"
       /\ server_sock_fd[p] # -1
       /\ file[p][server_sock_fd[p]] = "listen"

(* A daemon that serves has its own session, /dev/null for its standard    *)
(* descriptors, and on no other number: the three numbers are not free for *)
(* a connection or the log to take, whatever was open at the start, and if *)
(* all were, not even when the signal handler closes the socket            *)
(* (aesdsocket.c:89-97, 171-193).                                          *)
DaemonDetached ==
  pc["child"] = "run" =>
    /\ session["child"]
    /\ process_running["child"] \/ inherited = Std =>
         \A f \in Fd : file["child"][f] = "null" <=> f \in Std

Inv == TypeOK /\ ExitTellsTruth
=============================================================================
