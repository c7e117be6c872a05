--------------------------- MODULE ExamplesProofs ---------------------------
(***************************************************************************)
(* Proofs about the two course examples, for any number of threads and of  *)
(* children.  SystemCalls: the inductive invariant says whose child is     *)
(* still to be reaped.  Two counts carry the overlapping calls: as long as *)
(* no wait has failed there are as many children to reap as callers that   *)
(* wait.                                                                   *)
(***************************************************************************)
EXTENDS MCExamples, FiniteSetTheorems, TLAPS

Unreaped == {p \in Pid : process[p] \notin {"unused", "reaped"}}
Waiting == {c \in Caller : pc[c] = "wait"}
Inside == {c \in Caller : pc[c] \in {"fork", "wait"}}

ChildrenForked ==
  \A c \in Caller :
    /\ pc[c] = "fork" => child[c] = NULL
    /\ pc[c] = "wait" => child[c] \in Pid
    /\ child[c] # NULL => process[child[c]] # "unused"

OneInside == ~overlapped => \A c, d \in Inside : c = d

WaitedFor ==
  ~overlapped /\ ~waitFailed =>
    \A p \in Unreaped : \E c \in Waiting : child[c] = p

AsManyWait == ~waitFailed => Cardinality(Unreaped) = Cardinality(Waiting)

CallsInv ==
  /\ TypeOK
  /\ ChildrenForked
  /\ OneInside
  /\ WaitedFor
  /\ AsManyWait
  /\ ResultIsOwn

(* What a thread that goes to "unlock" knows, if no lock has failed.       *)
MutexInv ==
  /\ Threading!TypeOK
  /\ HeldUntilUnlocked
  /\ ~lockFailed => \A t \in Thread : at[t] = "unlock" => locked[t]
-----------------------------------------------------------------------------
LEMMA SetsAreFinite == IsFiniteSet(Unreaped) /\ IsFiniteSet(Waiting)
<1>1. Unreaped \subseteq Pid /\ Waiting \subseteq Caller
  BY DEF Unreaped, Waiting
<1> QED
  BY <1>1, FS_Subset, FiniteAssumption

LEMMA CallsInitially == Init => CallsInv
<1> SUFFICES ASSUME Init PROVE CallsInv
  OBVIOUS
<1>1. Unreaped = {} /\ Waiting = {}
  BY DEF Init, Unreaped, Waiting
<1>2. AsManyWait
  BY <1>1 DEF AsManyWait
<1>3. TypeOK /\ ChildrenForked /\ OneInside /\ ResultIsOwn
  BY NoPidAssumption DEF Init, TypeOK, ChildrenForked, OneInside, Inside, ResultIsOwn
<1>4. WaitedFor
  BY <1>1 DEF WaitedFor
<1> QED
  BY <1>2, <1>3, <1>4 DEF CallsInv

(* The steps of a caller and of a child one by one: what each does to the  *)
(* two sets that are counted.                                              *)
LEMMA CallsKeeps ==
  ASSUME CallsInv, NEW c \in Caller, Calls(c)
  PROVE  CallsInv'
<1>1. Unreaped' = Unreaped /\ Waiting' = Waiting
  BY DEF CallsInv, TypeOK, Calls, Unreaped, Waiting
<1>2. TypeOK'
  BY DEF CallsInv, TypeOK, Calls
<1>3. ChildrenForked'
  BY DEF CallsInv, TypeOK, Calls, ChildrenForked
<1>4. OneInside'
  <2>1. pc' = [pc EXCEPT ![c] = "fork"] /\ (~overlapped' => Inside = {})
    BY DEF Calls, Inside
  <2>2. Inside' \subseteq Inside \cup {c}
    BY <2>1 DEF CallsInv, TypeOK, Inside
  <2> QED
    BY <2>1, <2>2 DEF OneInside
<1>5. WaitedFor'
  BY <1>1 DEF CallsInv, TypeOK, Calls, WaitedFor, Waiting
<1>6. AsManyWait'
  BY <1>1 DEF CallsInv, Calls, AsManyWait
<1>7. ResultIsOwn'
  <2>1. pc'[c] = "fork"
    BY DEF CallsInv, TypeOK, Calls
  <2>2. \A d \in Caller : d # c => pc'[d] = pc[d] /\ child'[d] = child[d]
                                 /\ retVal'[d] = retVal[d]
    BY DEF CallsInv, TypeOK, Calls
  <2>3. UNCHANGED <<process, status, waitFailed>> /\ (overlapped => overlapped')
    BY DEF Calls
  <2> QED
    BY <2>1, <2>2, <2>3 DEF CallsInv, ResultIsOwn
<1> QED
  BY <1>2, <1>3, <1>4, <1>5, <1>6, <1>7 DEF CallsInv

LEMMA ForksKeeps ==
  ASSUME CallsInv, NEW c \in Caller, Forks(c)
  PROVE  CallsInv'
<1>1. PICK p \in Pid :
        /\ process[p] = "unused"
        /\ process' = [process EXCEPT ![p] = "forked"]
        /\ stdout' = [stdout EXCEPT ![p] = fd[c]]
        /\ child' = [child EXCEPT ![c] = p]
  BY DEF Forks
<1>2. /\ Unreaped' = Unreaped \cup {p} /\ p \notin Unreaped
      /\ Waiting' = Waiting \cup {c} /\ c \notin Waiting
  BY <1>1 DEF CallsInv, TypeOK, Forks, Unreaped, Waiting
<1>3. TypeOK'
  BY <1>1 DEF CallsInv, TypeOK, Forks
<1>4. ChildrenForked'
  BY <1>1, NoPidAssumption DEF CallsInv, TypeOK, Forks, ChildrenForked
<1>5. OneInside'
  <2>1. Inside' = Inside
    BY DEF CallsInv, TypeOK, Forks, Inside
  <2> QED
    BY <2>1 DEF CallsInv, Forks, OneInside
<1>6. WaitedFor'
  <2>1. \A d \in Waiting : child'[d] = child[d]
    BY <1>1, <1>2 DEF CallsInv, TypeOK, Waiting
  <2>2. child'[c] = p
    BY <1>1 DEF CallsInv, TypeOK
  <2> QED
    BY <1>2, <2>1, <2>2 DEF CallsInv, Forks, WaitedFor
<1>7. AsManyWait'
  <2>1. Cardinality(Unreaped \cup {p}) = Cardinality(Unreaped) + 1
    BY <1>2, SetsAreFinite, FS_AddElement
  <2>2. Cardinality(Waiting \cup {c}) = Cardinality(Waiting) + 1
    BY <1>2, SetsAreFinite, FS_AddElement
  <2> QED
    BY <1>2, <2>1, <2>2 DEF CallsInv, Forks, AsManyWait
<1>8. ResultIsOwn'
  BY <1>1 DEF CallsInv, TypeOK, Forks, ResultIsOwn, ChildrenForked
<1> QED
  BY <1>3, <1>4, <1>5, <1>6, <1>7, <1>8 DEF CallsInv

LEMMA CannotForkKeeps ==
  ASSUME CallsInv, NEW c \in Caller, CannotFork(c)
  PROVE  CallsInv'
<1>1. Unreaped' = Unreaped /\ Waiting' = Waiting /\ Inside' \subseteq Inside
  BY DEF CallsInv, TypeOK, CannotFork, Returns, Unreaped, Waiting, Inside
<1>2. TypeOK' /\ ChildrenForked'
  BY DEF CallsInv, TypeOK, CannotFork, Returns, ChildrenForked
<1>3. OneInside' /\ WaitedFor' /\ AsManyWait'
  BY <1>1 DEF CallsInv, CannotFork, OneInside, WaitedFor, AsManyWait
<1>4. ResultIsOwn'
  <2>1. child[c] = NULL
    BY DEF CallsInv, ChildrenForked, CannotFork
  <2>2. \A d \in Caller : d # c => pc'[d] = pc[d] /\ retVal'[d] = retVal[d]
    BY DEF CallsInv, TypeOK, CannotFork, Returns
  <2>3. UNCHANGED <<child, process, status, overlapped, waitFailed>>
    BY DEF CannotFork
  <2> QED
    BY <2>1, <2>2, <2>3 DEF CallsInv, ResultIsOwn
<1> QED
  BY <1>2, <1>3, <1>4 DEF CallsInv

LEMMA WaitsKeeps ==
  ASSUME CallsInv, NEW c \in Caller, Waits(c)
  PROVE  CallsInv'
<1>1. PICK p \in Pid : Reaps(c, p) /\ Returns(c, status[p] = "success")
  BY DEF Waits
<1>2. /\ Unreaped' = Unreaped \ {p} /\ p \in Unreaped
      /\ Waiting' = Waiting \ {c} /\ c \in Waiting
  BY <1>1 DEF CallsInv, TypeOK, Waits, Reaps, Returns, Unreaped, Waiting
<1>3. TypeOK'
  BY <1>1 DEF CallsInv, TypeOK, Waits, Reaps, Returns
<1>4. ChildrenForked'
  BY <1>1 DEF CallsInv, TypeOK, Waits, Reaps, Returns, ChildrenForked
<1>5. OneInside'
  <2>1. Inside' \subseteq Inside
    BY <1>1 DEF CallsInv, TypeOK, Waits, Returns, Inside
  <2> QED
    BY <2>1 DEF CallsInv, Waits, OneInside
<1>6. ~overlapped /\ ~waitFailed => child[c] = p /\ \A d \in Waiting : d = c
  BY <1>2 DEF CallsInv, OneInside, WaitedFor, Inside, Waiting
<1>7. WaitedFor'
  BY <1>2, <1>6 DEF CallsInv, Waits, WaitedFor
<1>8. AsManyWait'
  <2>1. Cardinality(Unreaped \ {p}) = Cardinality(Unreaped) - 1
    BY <1>2, SetsAreFinite, FS_RemoveElement
  <2>2. Cardinality(Waiting \ {c}) = Cardinality(Waiting) - 1
    BY <1>2, SetsAreFinite, FS_RemoveElement
  <2> QED
    BY <1>2, <2>1, <2>2 DEF CallsInv, Waits, AsManyWait
<1>9. ResultIsOwn'
  <2> SUFFICES ASSUME NEW d \in Caller, pc'[d] = "returned", child'[d] # NULL,
                      ~overlapped', ~waitFailed'
               PROVE  /\ process'[child'[d]] = "reaped"
                      /\ retVal'[d] = (status'[child'[d]] = "success")
    BY DEF ResultIsOwn
  <2>1. CASE d = c
    BY <2>1, <1>1, <1>6 DEF CallsInv, TypeOK, Waits, Reaps, Returns
  <2>2. CASE d # c
    BY <2>2, <1>1 DEF CallsInv, TypeOK, Waits, Reaps, Returns, ResultIsOwn
  <2> QED
    BY <2>1, <2>2
<1> QED
  BY <1>3, <1>4, <1>5, <1>7, <1>8, <1>9 DEF CallsInv

LEMMA WaitFailsKeeps ==
  ASSUME CallsInv, NEW c \in Caller, WaitFails(c)
  PROVE  CallsInv'
<1>1. TypeOK' /\ ChildrenForked'
  BY DEF CallsInv, TypeOK, WaitFails, Returns, ChildrenForked
<1>2. OneInside'
  <2>1. Inside' \subseteq Inside /\ UNCHANGED overlapped
    BY DEF CallsInv, TypeOK, WaitFails, Returns, Inside
  <2> QED
    BY <2>1 DEF CallsInv, OneInside
<1>3. WaitedFor' /\ AsManyWait' /\ ResultIsOwn'
  BY DEF WaitFails, WaitedFor, AsManyWait, ResultIsOwn
<1> QED
  BY <1>1, <1>2, <1>3 DEF CallsInv

(* A child that goes on is not reaped and not forgotten.                   *)
LEMMA ChildKeeps ==
  ASSUME CallsInv, NEW p \in Pid,
         Executes(p) \/ CannotExecute(p) \/ CommandEnds(p)
  PROVE  CallsInv'
<1>1. /\ process[p] \in {"forked", "running"}
      /\ \E s \in {"running", "ended"} : process' = [process EXCEPT ![p] = s]
      /\ UNCHANGED parentVars
  BY DEF Executes, CannotExecute, CommandEnds, Ends
<1>2. \A q \in Pid : process[q] = "reaped" => status'[q] = status[q]
  BY DEF CallsInv, TypeOK, Executes, CannotExecute, CommandEnds, Ends
<1>3. Unreaped' = Unreaped /\ Waiting' = Waiting /\ Inside' = Inside
  BY <1>1 DEF CallsInv, TypeOK, parentVars, Unreaped, Waiting, Inside
<1>4. TypeOK'
  BY DEF CallsInv, TypeOK, parentVars, Executes, CannotExecute, CommandEnds, Ends
<1>5. ChildrenForked'
  BY <1>1 DEF CallsInv, TypeOK, parentVars, ChildrenForked
<1>6. OneInside' /\ WaitedFor' /\ AsManyWait'
  BY <1>1, <1>3 DEF CallsInv, parentVars, OneInside, WaitedFor, AsManyWait
<1>7. ResultIsOwn'
  BY <1>1, <1>2 DEF CallsInv, TypeOK, parentVars, ResultIsOwn
<1> QED
  BY <1>4, <1>5, <1>6, <1>7 DEF CallsInv

LEMMA CallsInvariant == Spec => []CallsInv
<1>1. CallsInv /\ [Next]_vars => CallsInv'
  <2> SUFFICES ASSUME CallsInv, [Next]_vars PROVE CallsInv'
    OBVIOUS
  <2>1. CASE \E c \in Caller : Calls(c) \/ Forks(c) \/ CannotFork(c) \/ Waits(c) \/ WaitFails(c)
    BY <2>1, CallsKeeps, ForksKeeps, CannotForkKeeps, WaitsKeeps, WaitFailsKeeps
  <2>2. CASE \E p \in Pid : Executes(p) \/ CannotExecute(p) \/ CommandEnds(p)
    BY <2>2, ChildKeeps
  <2>3. CASE UNCHANGED vars
    BY <2>3 DEF vars, CallsInv, TypeOK, ChildrenForked, OneInside, Inside, WaitedFor,
       AsManyWait, Unreaped, Waiting, ResultIsOwn
  <2> QED
    BY <2>1, <2>2, <2>3 DEF Next
<1> QED
  BY CallsInitially, <1>1, PTL DEF Spec

(* Without overlapping calls the caller that waits is the only one, and    *)
(* its child the only one to reap: a call returns the truth about its own  *)
(* command, for any number of threads and children.                        *)
THEOREM ResultIsOwnAlways == Spec => []ResultIsOwn
<1>1. CallsInv => ResultIsOwn
  BY DEF CallsInv
<1> QED
  BY CallsInvariant, <1>1, PTL

(* As many children to reap as callers that wait: when nobody is inside,   *)
(* none is left, whoever reaped whose.                                     *)
THEOREM NoChildLeftAlways == Spec => []NoChildLeft
<1>1. ASSUME CallsInv PROVE NoChildLeft
  <2> SUFFICES ASSUME \A c \in Caller : pc[c] \in {"out", "returned"}, ~waitFailed,
                      NEW p \in Pid, process[p] \notin {"unused", "reaped"}
               PROVE  FALSE
    BY DEF NoChildLeft
  <2>1. Waiting = {} /\ Unreaped # {}
    BY DEF Waiting, Unreaped
  <2> QED
    BY <1>1, <2>1, SetsAreFinite, FS_EmptySet DEF CallsInv, AsManyWait
<1> QED
  BY CallsInvariant, <1>1, PTL
-----------------------------------------------------------------------------
(* Whoever unlocks a mutex of which no lock has failed is its holder, so   *)
(* that it takes the mutex from nobody, for any number of threads.         *)
THEOREM MutexHeldAlways == Threading!Spec => []HeldUntilUnlocked
<1>1. Threading!Init => MutexInv
  BY DEF Threading!Init, MutexInv, Threading!TypeOK, HeldUntilUnlocked, Threading!HeldUntilUnlocked
<1>2. MutexInv /\ [Threading!Next]_(Threading!vars) => MutexInv'
  <2> SUFFICES ASSUME MutexInv, [Threading!Next]_(Threading!vars) PROVE MutexInv'
    OBVIOUS
  <2> USE NoThreadAssumption DEF MutexInv, Threading!TypeOK, HeldUntilUnlocked,
      Threading!HeldUntilUnlocked, Threading!At, Threading!Goes
  <2>1. ASSUME NEW t \in Thread, Threading!Starts(t) PROVE MutexInv'
    BY <2>1 DEF Threading!Starts
  <2>2. ASSUME NEW t \in Thread, Threading!Crashes(t) PROVE MutexInv'
    BY <2>2 DEF Threading!Crashes
  <2>3. ASSUME NEW t \in Thread, Threading!Locks(t) PROVE MutexInv'
    BY <2>3 DEF Threading!Locks
  <2>4. ASSUME NEW t \in Thread, Threading!CannotLock(t) PROVE MutexInv'
    BY <2>4 DEF Threading!CannotLock
  <2>5. ASSUME NEW t \in Thread, Threading!Unlocks(t) PROVE MutexInv'
    BY <2>5 DEF Threading!Unlocks
  <2>6. CASE Threading!Over \/ UNCHANGED Threading!vars
    BY <2>6 DEF Threading!Over, Threading!vars
  <2> QED
    BY <2>1, <2>2, <2>3, <2>4, <2>5, <2>6 DEF Threading!Next
<1>3. MutexInv => HeldUntilUnlocked
  BY DEF MutexInv
<1> QED
  BY <1>1, <1>2, <1>3, PTL DEF Threading!Spec
=============================================================================
