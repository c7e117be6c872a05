------------------------ MODULE ThreadObtainingMutex ------------------------
(***************************************************************************)
(* start_thread_obtaining_mutex and threadfunc of                          *)
(* src/examples/threading/threading.c: threads that wait, obtain a mutex   *)
(* of the caller's, wait, and release it.  How long they wait is left out. *)
(***************************************************************************)
EXTENDS Naturals

CONSTANTS Thread, NULL

VARIABLES
  kind,                      (* of the mutex: only the thread that locked  *)
                             (* it can unlock an "errorcheck" one, every   *)
                             (* thread a "normal" one                      *)
  holder,                    (* the thread that holds it, or NULL          *)
  at,                        (* of each thread: "none", "lock", "unlock",  *)
                             (* "ended", "not started"                     *)
  locked,                    (* pthread_mutex_lock has succeeded           *)
  thread_complete_success,
  lockFailed,                (* pthread_mutex_lock has failed, of any      *)
  crashed

vars == <<kind, holder, at, locked, thread_complete_success, lockFailed, crashed>>

At(t, place) == at[t] = place /\ ~crashed
Goes(t, place) == at' = [at EXCEPT ![t] = place]

Init ==
  /\ kind \in {"normal", "errorcheck"}
  /\ holder = NULL
  /\ at = [t \in Thread |-> "none"]
  /\ locked = [t \in Thread |-> FALSE]
  /\ thread_complete_success = [t \in Thread |-> FALSE]
  /\ lockFailed = FALSE
  /\ crashed = FALSE

(* start_thread_obtaining_mutex: the thread is created or not ...          *)
Starts(t) ==
  /\ At(t, "none")
  /\ \/ /\ Goes(t, "lock")
        /\ thread_complete_success' = [thread_complete_success EXCEPT ![t] = TRUE]
     \/ Goes(t, "not started") /\ UNCHANGED thread_complete_success
  /\ UNCHANGED <<kind, holder, locked, lockFailed, crashed>>

(* ... and what malloc returns is not looked at.                           *)
Crashes(t) ==
  /\ At(t, "none")
  /\ crashed' = TRUE
  /\ UNCHANGED <<kind, holder, at, locked, thread_complete_success, lockFailed>>

(* Mutant: pthread_mutex_trylock, whose EBUSY is not told from success. *)
MutLocks(t) ==
  /\ At(t, "lock")
  /\ holder' = IF holder = NULL THEN t ELSE holder
  /\ locked' = [locked EXCEPT ![t] = TRUE]
  /\ Goes(t, "unlock")
  /\ UNCHANGED <<kind, thread_complete_success, lockFailed, crashed>>

Locks(t) ==
  /\ At(t, "lock")
  /\ holder = NULL
  /\ holder' = t
  /\ locked' = [locked EXCEPT ![t] = TRUE]
  /\ Goes(t, "unlock")
  /\ UNCHANGED <<kind, thread_complete_success, lockFailed, crashed>>

(* The failure is noted, and the thread goes on.                           *)
CannotLock(t) ==
  /\ At(t, "lock")
  /\ thread_complete_success' = [thread_complete_success EXCEPT ![t] = FALSE]
  /\ lockFailed' = TRUE
  /\ Goes(t, "unlock")
  /\ UNCHANGED <<kind, holder, locked, crashed>>

Unlocks(t) ==
  /\ At(t, "unlock")
  /\ holder' = IF kind = "normal" \/ holder = t THEN NULL ELSE holder
  /\ thread_complete_success' =
       [thread_complete_success EXCEPT ![t] = @ /\ (kind = "normal" \/ holder = t)]
  /\ locked' = [locked EXCEPT ![t] = FALSE]
  /\ Goes(t, "ended")
  /\ UNCHANGED <<kind, lockFailed, crashed>>

Over ==
  /\ crashed \/ \A t \in Thread : at[t] \in {"ended", "not started"}
  /\ UNCHANGED vars

Next ==
  \/ \E t \in Thread : Starts(t) \/ Crashes(t) \/ Locks(t) \/ CannotLock(t) \/ Unlocks(t)
  \/ Over

Spec == Init /\ [][Next]_vars
-----------------------------------------------------------------------------
TypeOK ==
  /\ kind \in {"normal", "errorcheck"}
  /\ holder \in Thread \cup {NULL}
  /\ at \in [Thread -> {"none", "lock", "unlock", "ended", "not started"}]
  /\ locked \in [Thread -> BOOLEAN]
  /\ thread_complete_success \in [Thread -> BOOLEAN]
  /\ lockFailed \in BOOLEAN /\ crashed \in BOOLEAN

(* A thread that has locked the mutex holds it until it unlocks it.  With  *)
(* a normal mutex this is so only until a pthread_mutex_lock fails: the    *)
(* thread that failed unlocks all the same (threading.c:25-37).            *)
HeldUntilUnlocked ==
  kind = "errorcheck" \/ ~lockFailed => \A t \in Thread : locked[t] => holder = t
=============================================================================
