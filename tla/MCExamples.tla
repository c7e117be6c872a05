----------------------------- MODULE MCExamples -----------------------------
(***************************************************************************)
(* Model checking of the two course examples.  They share nothing: each is *)
(* run while the other has not begun.                                      *)
(***************************************************************************)
EXTENDS SystemCalls, TLC

CONSTANT Thread
ASSUME NoThreadAssumption == NULL \notin Thread

VARIABLES kind, holder, at, locked, thread_complete_success, lockFailed, crashed
threadingVars == <<kind, holder, at, locked, thread_complete_success, lockFailed, crashed>>

Threading == INSTANCE ThreadObtainingMutex

ExamplesInit == Init /\ Threading!Init
ExamplesNext ==
  \/ Next /\ (\A t \in Thread : at[t] = "none") /\ UNCHANGED threadingVars
  \/ Threading!Next /\ (\A c \in Caller : pc[c] = "out") /\ UNCHANGED vars
ExamplesSpec == ExamplesInit /\ [][ExamplesNext]_<<vars, threadingVars>>

Symmetry == Permutations(Caller) \cup Permutations(Pid) \cup Permutations(Thread)

(* Of ThreadObtainingMutex: the mutex is held by the thread that has       *)
(* locked it, unless a lock of a normal mutex has failed                   *)
(* (threading.c:25-37).                                                    *)
HeldUntilUnlocked == Threading!HeldUntilUnlocked
=============================================================================
