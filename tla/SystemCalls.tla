---------------------------- MODULE SystemCalls ----------------------------
(***************************************************************************)
(* do_system, do_exec and do_exec_redirect of                              *)
(* src/examples/systemcalls/systemcalls.c: threads of one process execute  *)
(* commands in child processes.  A command ends with status 0, with        *)
(* another one, or by a signal.  system() waits for its own child; the     *)
(* wait() of the other two takes any.                                      *)
(***************************************************************************)
EXTENDS Naturals, FiniteSets

CONSTANTS
  Caller,     (* threads that call these functions                        *)
  Pid,        (* bound: the children the process has in its life          *)
  Failures,   (* calls that may fail                                      *)
  NULL

ASSUME CallsAssumption == Failures \subseteq {"open", "fork", "dup2", "execv", "wait"}
ASSUME NoPidAssumption == NULL \notin Pid
ASSUME FiniteAssumption == IsFiniteSet(Caller) /\ IsFiniteSet(Pid)

VARIABLES
  pc,         (* of each caller: "out", "fork", "wait" or "returned"      *)
  function,   (* the one it calls: "system", "exec" or "redirect"         *)
  fd,         (* its file: "none", "open" or "failed"                     *)
  child,      (* the process it has forked, or NULL                       *)
  retVal,     (* what its call returned                                   *)
  process,    (* of each pid: "unused", "forked", "running", "ended" or   *)
              (* "reaped"                                                 *)
  stdout,     (* its file, if it has one                                  *)
  status,     (* how it ended                                             *)
  overlapped, waitFailed    (* this has happened                          *)

vars == <<pc, function, fd, child, retVal, process, stdout, status, overlapped, waitFailed>>
parentVars == <<pc, function, fd, child, retVal, overlapped, waitFailed>>

Returns(c, value) ==
  /\ pc' = [pc EXCEPT ![c] = "returned"]
  /\ retVal' = [retVal EXCEPT ![c] = value]

Ends(p, how) ==
  /\ process' = [process EXCEPT ![p] = "ended"]
  /\ status' = [status EXCEPT ![p] = how]
  /\ stdout' = [stdout EXCEPT ![p] = "none"]

Init ==
  /\ pc = [c \in Caller |-> "out"]
  /\ function = [c \in Caller |-> "exec"]
  /\ fd = [c \in Caller |-> "none"]
  /\ child = [c \in Caller |-> NULL]
  /\ retVal = [c \in Caller |-> FALSE]
  /\ process = [p \in Pid |-> "unused"]
  /\ stdout = [p \in Pid |-> "none"]
  /\ status = [p \in Pid |-> "none"]
  /\ overlapped = FALSE
  /\ waitFailed = FALSE

(* The call; open(), whose failure is left to dup2() to find.              *)
Calls(c) ==
  /\ pc[c] \in {"out", "returned"}
  /\ \E f \in {"system", "exec", "redirect"}, file \in {"none", "open", "failed"} :
       /\ (f = "redirect") = (file # "none")
       /\ file = "failed" => "open" \in Failures
       /\ function' = [function EXCEPT ![c] = f]
       /\ fd' = [fd EXCEPT ![c] = file]
  /\ child' = [child EXCEPT ![c] = NULL]
  /\ retVal' = [retVal EXCEPT ![c] = FALSE]
  /\ pc' = [pc EXCEPT ![c] = "fork"]
  /\ overlapped' = (overlapped \/ \E d \in Caller : pc[d] \in {"fork", "wait"})
  /\ UNCHANGED <<process, stdout, status, waitFailed>>

(* The parent closes its descriptor of the file, if it has one.            *)
Forks(c) ==
  /\ pc[c] = "fork"
  /\ \E p \in Pid :
       /\ process[p] = "unused"
       /\ process' = [process EXCEPT ![p] = "forked"]
       /\ stdout' = [stdout EXCEPT ![p] = fd[c]]
       /\ child' = [child EXCEPT ![c] = p]
  /\ fd' = [fd EXCEPT ![c] = "none"]
  /\ pc' = [pc EXCEPT ![c] = "wait"]
  /\ UNCHANGED <<function, retVal, status, overlapped, waitFailed>>

(* The file stays open, although "This file will be closed at completion   *)
(* of the function call" (systemcalls.c:99).                               *)
CannotFork(c) ==
  /\ pc[c] = "fork"
  /\ "fork" \in Failures
  /\ Returns(c, FALSE)
  /\ UNCHANGED <<function, fd, child, process, stdout, status, overlapped, waitFailed>>

(* The child: dup2(), execv().                                             *)
Executes(p) ==
  /\ process[p] = "forked"
  /\ stdout[p] # "failed"
  /\ process' = [process EXCEPT ![p] = "running"]
  /\ UNCHANGED <<parentVars, stdout, status>>

CannotExecute(p) ==
  /\ process[p] = "forked"
  /\ \/ stdout[p] = "failed"
     \/ stdout[p] = "open" /\ "dup2" \in Failures
     \/ "execv" \in Failures
  /\ Ends(p, "failure")
  /\ UNCHANGED parentVars

CommandEnds(p) ==
  /\ process[p] = "running"
  /\ \E how \in {"success", "failure", "signal"} : Ends(p, how)
  /\ UNCHANGED parentVars

(* wait() returns for any child that has ended, waitpid() for its own.     *)
Reaps(c, p) ==
  /\ process[p] = "ended"
  /\ function[c] = "system" => p = child[c]
  /\ process' = [process EXCEPT ![p] = "reaped"]

(* Mutant: a command that a signal ended is taken for a success. *)
MutWaits(c) ==
  /\ pc[c] = "wait"
  /\ \E p \in Pid : Reaps(c, p) /\ Returns(c, status[p] # "failure")
  /\ UNCHANGED <<function, fd, child, stdout, status, overlapped, waitFailed>>

(* Mutant: the child is only looked at, WNOHANG. *)
MutWaitsNot(c) ==
  /\ pc[c] = "wait"
  /\ \E p \in Pid :
       process[p] \notin {"unused", "reaped"} /\ Returns(c, status[p] = "success")
  /\ UNCHANGED <<function, fd, child, process, stdout, status, overlapped, waitFailed>>

Waits(c) ==
  /\ pc[c] = "wait"
  /\ \E p \in Pid : Reaps(c, p) /\ Returns(c, status[p] = "success")
  /\ UNCHANGED <<function, fd, child, stdout, status, overlapped, waitFailed>>

(* A signal handler may interrupt wait(): the child is left behind.  The   *)
(* child system() waits for may have gone to another thread's wait().      *)
WaitFails(c) ==
  /\ pc[c] = "wait"
  /\ IF function[c] = "system" THEN process[child[c]] = "reaped"
     ELSE "wait" \in Failures \/ \A p \in Pid : process[p] \in {"unused", "reaped"}
  /\ Returns(c, FALSE)
  /\ waitFailed' = TRUE
  /\ UNCHANGED <<function, fd, child, process, stdout, status, overlapped>>

Next ==
  \/ \E c \in Caller : Calls(c) \/ Forks(c) \/ CannotFork(c) \/ Waits(c) \/ WaitFails(c)
  \/ \E p \in Pid : Executes(p) \/ CannotExecute(p) \/ CommandEnds(p)

Spec == Init /\ [][Next]_vars
-----------------------------------------------------------------------------
TypeOK ==
  /\ pc \in [Caller -> {"out", "fork", "wait", "returned"}]
  /\ function \in [Caller -> {"system", "exec", "redirect"}]
  /\ fd \in [Caller -> {"none", "open", "failed"}]
  /\ child \in [Caller -> Pid \cup {NULL}]
  /\ retVal \in [Caller -> BOOLEAN]
  /\ process \in [Pid -> {"unused", "forked", "running", "ended", "reaped"}]
  /\ stdout \in [Pid -> {"none", "open", "failed"}]
  /\ status \in [Pid -> {"none", "success", "failure", "signal"}]
  /\ overlapped \in BOOLEAN /\ waitFailed \in BOOLEAN

(* A call whose child was forked returns the truth about its own command,  *)
(* although wait() reaps any child: as long as no two calls overlap and no *)
(* earlier wait has failed (systemcalls.c:19-21, 75-90, 151-166).          *)
ResultIsOwn ==
  \A c \in Caller :
    pc[c] = "returned" /\ child[c] # NULL /\ ~overlapped /\ ~waitFailed =>
      /\ process[child[c]] = "reaped"
      /\ retVal[c] = (status[child[c]] = "success")

(* Even overlapping calls leave no child behind, whichever child each of   *)
(* them reaps, unless a wait fails (systemcalls.c:75, 151).                *)
NoChildLeft ==
  (\A c \in Caller : pc[c] \in {"out", "returned"}) /\ ~waitFailed =>
    \A p \in Pid : process[p] \in {"unused", "reaped"}
=============================================================================
