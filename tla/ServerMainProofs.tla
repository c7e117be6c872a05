--------------------------- MODULE ServerMainProofs ---------------------------
(***************************************************************************)
(* What main() of aesdsocket tells its caller and leaves to run_server(),  *)
(* whichever calls fail, whenever a signal comes, and whatever descriptors *)
(* there are: Inv, Listening and DaemonDetached.                           *)
(*                                                                         *)
(* They are proved together, from where the two processes can be at the    *)
(* same time (Turns) and from what each has done when it is there.         *)
(***************************************************************************)
EXTENDS ServerMain, TLAPS

Before == {"parameters", "socket", "bind", "listen", "fork"}

(* The child begins where the parent is about to leave, and only of a      *)
(* daemon; only the parent is ever at a place before the fork.             *)
Turns ==
  /\ pc["child"] \notin Before \cup {"leave"}
  /\ pc["parent"] \notin {"detach", "redirect"}
  /\ pc["child"] # "none" => args = "-d" /\ pc["parent"] \in {"leave", "gone"}
  /\ pc["parent"] = "leave" => pc["child"] # "none"
  /\ pc["parent"] = "fork" => args = "-d"

(* What a process that leaves by way of free_resources has done.           *)
LeavesServed ==
  \A p \in Process : pc[p] \in {"free", "exit"} /\ ret_val[p] = "success" => served[p]

(* The listening socket, and its number, from where there is one; the      *)
(* handler cannot run before it is installed.                              *)
HasListener ==
  /\ \A p \in Process :
       pc[p] \in Before \cup {"none", "leave", "detach", "redirect", "sigint"} =>
         handlers[p] = {}
  /\ pc["parent"] \in {"parameters", "socket"} =>
       file["parent"] = [f \in Fd |-> IF f \in inherited THEN "std" ELSE "free"]
  /\ \A p \in Process :
       /\ pc[p] \in {"bind", "listen", "fork", "detach", "redirect"} =>
            /\ server_sock_fd[p] # -1
            /\ file[p][server_sock_fd[p]] = "listen"
       /\ inherited = Std => server_sock_fd[p] \notin Std
       /\ pc[p] \in {"fork", "detach", "redirect"} => socket = "listening"
       /\ pc[p] \in {"sigint", "sigterm", "run"} /\ process_running[p] =>
            socket = "listening"

(* The descriptors of the standard streams.                                *)
Streams ==
  /\ \A f \in Fd : file["parent"][f] # "null"
  /\ pc["child"] \in {"redirect", "sigint", "sigterm", "run"} => session["child"]
  /\ pc["child"] = "detach" \/ pc["child"] = "redirect" =>
       \A f \in Fd : file["child"][f] # "null"
  /\ /\ pc["child"] \in {"sigint", "sigterm", "run"}
     /\ process_running["child"] \/ inherited = Std
     => \A f \in Fd : file["child"][f] = "null" <=> f \in Std

IInv ==
  /\ Inv /\ Turns /\ LeavesServed
  /\ HasListener /\ Listening
  /\ Streams /\ DaemonDetached

USE FdAssumption DEF Std, Process, Signal, Goes, Fails, Ends, AllFree

LEMMA InitIInv == Init => IInv
<1> SUFFICES ASSUME Init PROVE IInv
  OBVIOUS
<1>1. Inv
  BY DEF Init, Inv, TypeOK, ExitTellsTruth, Places
<1>2. Turns /\ LeavesServed
  BY DEF Init, Turns, LeavesServed, Before
<1>3. HasListener /\ Listening
  BY DEF Init, HasListener, Listening
<1>4. Streams /\ DaemonDetached
  BY DEF Init, Streams, DaemonDetached
<1> QED
  BY <1>1, <1>2, <1>3, <1>4 DEF IInv

(* A step of either process.                                               *)
LEMMA StepKeepsIInv ==
  ASSUME IInv, NEW p \in Process,
         \/ ReadsParameters(p) \/ CreatesSocket(p) \/ HasNoSocket(p) \/ BindsSocket(p)
         \/ ListensOnSocket(p) \/ Forks(p) \/ ParentLeaves(p) \/ Detaches(p)
         \/ Redirects(p) \/ CannotRedirect(p) \/ InstallsFirst(p) \/ InstallsSecond(p)
         \/ Killed(p) \/ Handles(p) \/ Serves(p) \/ FreesResources(p) \/ Exits(p)
  PROVE  IInv'
<1> USE DEF IInv, Inv, TypeOK, Places, Turns, Before
<1>1. CASE ReadsParameters(p)
  <2>1. TypeOK'
    BY <1>1 DEF ReadsParameters
  <2>2. Turns'
    BY <1>1 DEF ReadsParameters
  <2>3. ExitTellsTruth' /\ LeavesServed'
    BY <1>1 DEF ExitTellsTruth, LeavesServed, ReadsParameters
  <2>4. HasListener'
    BY <1>1 DEF HasListener, ReadsParameters
  <2>5. Listening'
    BY <1>1 DEF HasListener, Listening, ReadsParameters
  <2>6. Streams' /\ DaemonDetached'
    BY <1>1 DEF Streams, DaemonDetached, ReadsParameters
  <2> QED
    BY <2>1, <2>2, <2>3, <2>4, <2>5, <2>6
<1>2. CASE CreatesSocket(p)
  <2>1. TypeOK'
    BY <1>2 DEF CreatesSocket, LowestFree
  <2>2. Turns'
    BY <1>2 DEF CreatesSocket, LowestFree
  <2>3. ExitTellsTruth' /\ LeavesServed'
    BY <1>2 DEF ExitTellsTruth, LeavesServed, CreatesSocket, LowestFree
  <2>4. HasListener'
    BY <1>2 DEF HasListener, CreatesSocket, LowestFree
  <2>5. Listening'
    BY <1>2 DEF HasListener, Listening, CreatesSocket, LowestFree
  <2>6. Streams' /\ DaemonDetached'
    BY <1>2 DEF Streams, DaemonDetached, CreatesSocket, LowestFree
  <2> QED
    BY <2>1, <2>2, <2>3, <2>4, <2>5, <2>6
<1>3. CASE HasNoSocket(p)
  <2>1. TypeOK'
    BY <1>3 DEF HasNoSocket
  <2>2. Turns'
    BY <1>3 DEF HasNoSocket
  <2>3. ExitTellsTruth' /\ LeavesServed'
    BY <1>3 DEF ExitTellsTruth, LeavesServed, HasNoSocket
  <2>4. HasListener'
    BY <1>3 DEF HasListener, HasNoSocket
  <2>5. Listening'
    BY <1>3 DEF HasListener, Listening, HasNoSocket
  <2>6. Streams' /\ DaemonDetached'
    BY <1>3 DEF Streams, DaemonDetached, HasNoSocket
  <2> QED
    BY <2>1, <2>2, <2>3, <2>4, <2>5, <2>6
<1>4. CASE BindsSocket(p)
  <2>1. TypeOK'
    BY <1>4 DEF BindsSocket
  <2>2. Turns'
    BY <1>4 DEF BindsSocket
  <2>3. ExitTellsTruth' /\ LeavesServed'
    BY <1>4 DEF ExitTellsTruth, LeavesServed, BindsSocket
  <2>4. HasListener'
    BY <1>4 DEF HasListener, BindsSocket
  <2>5. Listening'
    BY <1>4 DEF HasListener, Listening, BindsSocket
  <2>6. Streams' /\ DaemonDetached'
    BY <1>4 DEF Streams, DaemonDetached, BindsSocket
  <2> QED
    BY <2>1, <2>2, <2>3, <2>4, <2>5, <2>6
<1>5. CASE ListensOnSocket(p)
  <2>1. TypeOK'
    BY <1>5 DEF ListensOnSocket
  <2>2. Turns'
    BY <1>5 DEF ListensOnSocket
  <2>3. ExitTellsTruth' /\ LeavesServed'
    BY <1>5 DEF ExitTellsTruth, LeavesServed, ListensOnSocket
  <2>4. HasListener'
    BY <1>5 DEF HasListener, ListensOnSocket
  <2>5. Listening'
    BY <1>5 DEF HasListener, Listening, ListensOnSocket
  <2>6. Streams' /\ DaemonDetached'
    BY <1>5 DEF Streams, DaemonDetached, ListensOnSocket
  <2> QED
    BY <2>1, <2>2, <2>3, <2>4, <2>5, <2>6
<1>6. CASE Forks(p)
  <2>1. TypeOK'
    BY <1>6 DEF Forks
  <2>2. Turns'
    <3>1. p = "parent"
      BY <1>6 DEF Forks
    <3>2. CASE pc' = [pc EXCEPT !["parent"] = "leave", !["child"] = "detach"]
      <4>1. args = "-d"
        BY <1>6, <3>1 DEF Forks
      <4> QED
        BY <1>6, <3>1, <3>2, <4>1 DEF Forks
    <3>3. CASE pc' = [pc EXCEPT !["parent"] = "free"]
      BY <1>6, <3>1, <3>3 DEF Forks
    <3> QED
      BY <1>6, <3>1, <3>2, <3>3 DEF Forks
  <2>3. ExitTellsTruth' /\ LeavesServed'
    BY <1>6 DEF ExitTellsTruth, LeavesServed, Forks
  <2>4. HasListener'
    BY <1>6 DEF HasListener, Forks
  <2>5. Listening'
    BY <1>6 DEF HasListener, Listening, Forks
  <2>6. Streams' /\ DaemonDetached'
    BY <1>6 DEF Streams, DaemonDetached, Forks
  <2> QED
    BY <2>1, <2>2, <2>3, <2>4, <2>5, <2>6
<1>7. CASE ParentLeaves(p)
  <2>1. TypeOK'
    BY <1>7 DEF ParentLeaves
  <2>2. Turns'
    BY <1>7 DEF ParentLeaves
  <2>3. ExitTellsTruth' /\ LeavesServed'
    BY <1>7 DEF ExitTellsTruth, LeavesServed, ParentLeaves
  <2>4. HasListener'
    BY <1>7 DEF HasListener, ParentLeaves
  <2>5. Listening'
    BY <1>7 DEF HasListener, Listening, ParentLeaves
  <2>6. Streams' /\ DaemonDetached'
    BY <1>7 DEF Streams, DaemonDetached, ParentLeaves
  <2> QED
    BY <2>1, <2>2, <2>3, <2>4, <2>5, <2>6
<1>8. CASE Detaches(p)
  <2>1. TypeOK'
    <3>1. session' \in [Process -> BOOLEAN]
      <4>1. session' = session \/ session' = [session EXCEPT ![p] = TRUE]
        BY <1>8 DEF Detaches
      <4>2. [session EXCEPT ![p] = TRUE] \in [Process -> BOOLEAN]
        BY Zenon
      <4> QED
        BY <4>1, <4>2
    <3>2. /\ pc' \in [Process -> Places]
          /\ ret_val' \in [Process -> {"success", "failure"}]
      BY <1>8 DEF Detaches
    <3> QED
      BY <1>8, <3>1, <3>2 DEF Detaches
  <2>2. Turns'
    BY <1>8 DEF Detaches
  <2>3. ExitTellsTruth' /\ LeavesServed'
    BY <1>8 DEF ExitTellsTruth, LeavesServed, Detaches
  <2>4. HasListener'
    BY <1>8 DEF HasListener, Detaches
  <2>5. Listening'
    BY <1>8 DEF HasListener, Listening, Detaches
  <2>6. Streams' /\ DaemonDetached'
    BY <1>8 DEF Streams, DaemonDetached, Detaches
  <2> QED
    BY <2>1, <2>2, <2>3, <2>4, <2>5, <2>6
<1>9. CASE Redirects(p)
  <2>1. TypeOK'
    BY <1>9 DEF Redirects
  <2>2. Turns'
    BY <1>9 DEF Redirects
  <2>3. ExitTellsTruth' /\ LeavesServed'
    BY <1>9 DEF ExitTellsTruth, LeavesServed, Redirects
  <2>4. HasListener'
    BY <1>9 DEF HasListener, Redirects
  <2>5. Listening'
    BY <1>9 DEF HasListener, Listening, Redirects
  <2>6. Streams' /\ DaemonDetached'
    BY <1>9 DEF Streams, DaemonDetached, Redirects
  <2> QED
    BY <2>1, <2>2, <2>3, <2>4, <2>5, <2>6
<1>10. CASE CannotRedirect(p)
  <2>1. TypeOK'
    BY <1>10 DEF CannotRedirect
  <2>2. Turns'
    BY <1>10 DEF CannotRedirect
  <2>3. ExitTellsTruth' /\ LeavesServed'
    BY <1>10 DEF ExitTellsTruth, LeavesServed, CannotRedirect
  <2>4. HasListener'
    BY <1>10 DEF HasListener, CannotRedirect
  <2>5. Listening'
    BY <1>10 DEF HasListener, Listening, CannotRedirect
  <2>6. Streams' /\ DaemonDetached'
    BY <1>10 DEF Streams, DaemonDetached, CannotRedirect
  <2> QED
    BY <2>1, <2>2, <2>3, <2>4, <2>5, <2>6
<1>11. CASE InstallsFirst(p)
  <2>1. TypeOK'
    BY <1>11 DEF InstallsFirst, Installs
  <2>2. Turns'
    BY <1>11 DEF InstallsFirst, Installs
  <2>3. ExitTellsTruth' /\ LeavesServed'
    BY <1>11 DEF ExitTellsTruth, LeavesServed, InstallsFirst, Installs
  <2>4. HasListener'
    BY <1>11 DEF HasListener, InstallsFirst, Installs
  <2>5. Listening'
    BY <1>11 DEF HasListener, Listening, InstallsFirst, Installs
  <2>6. Streams' /\ DaemonDetached'
    BY <1>11 DEF HasListener, Streams, DaemonDetached, InstallsFirst, Installs
  <2> QED
    BY <2>1, <2>2, <2>3, <2>4, <2>5, <2>6
<1>12. CASE InstallsSecond(p)
  <2>1. TypeOK'
    BY <1>12 DEF InstallsSecond, Installs
  <2>2. Turns'
    BY <1>12 DEF InstallsSecond, Installs
  <2>3. ExitTellsTruth' /\ LeavesServed'
    BY <1>12 DEF ExitTellsTruth, LeavesServed, InstallsSecond, Installs
  <2>4. HasListener'
    BY <1>12 DEF HasListener, InstallsSecond, Installs
  <2>5. Listening'
    BY <1>12 DEF HasListener, Listening, InstallsSecond, Installs
  <2>6. Streams' /\ DaemonDetached'
    BY <1>12 DEF HasListener, Streams, DaemonDetached, InstallsSecond, Installs
  <2> QED
    BY <2>1, <2>2, <2>3, <2>4, <2>5, <2>6
<1>13. CASE Killed(p)
  <2>1. TypeOK'
    BY <1>13 DEF Killed
  <2>2. Turns'
    BY <1>13 DEF Killed
  <2>3. ExitTellsTruth' /\ LeavesServed'
    BY <1>13 DEF ExitTellsTruth, LeavesServed, Killed
  <2>4. HasListener'
    BY <1>13 DEF HasListener, Killed
  <2>5. Listening'
    BY <1>13 DEF HasListener, Listening, Killed
  <2>6. Streams' /\ DaemonDetached'
    BY <1>13 DEF Streams, DaemonDetached, Killed
  <2> QED
    BY <2>1, <2>2, <2>3, <2>4, <2>5, <2>6
<1>14. CASE Serves(p)
  <2>1. TypeOK'
    <3>1. process_running' \in [Process -> BOOLEAN]
      <4>1. process_running' = [process_running EXCEPT ![p] = FALSE]
        BY <1>14 DEF Serves
      <4>2. [process_running EXCEPT ![p] = FALSE] \in [Process -> BOOLEAN]
        BY Zenon
      <4> QED
        BY <4>1, <4>2
    <3> QED
      BY <1>14, <3>1 DEF Serves
  <2>2. Turns'
    BY <1>14 DEF Serves
  <2>3. ExitTellsTruth' /\ LeavesServed'
    BY <1>14 DEF ExitTellsTruth, LeavesServed, Serves
  <2>4. HasListener'
    BY <1>14 DEF HasListener, Serves
  <2>5. Listening'
    BY <1>14 DEF HasListener, Listening, Serves
  <2>6. Streams' /\ DaemonDetached'
    BY <1>14 DEF HasListener, Streams, DaemonDetached, Serves
  <2> QED
    BY <2>1, <2>2, <2>3, <2>4, <2>5, <2>6
<1>15. CASE Handles(p)
  <2>1. TypeOK'
    <3>1. process_running' \in [Process -> BOOLEAN]
      <4>1. process_running' = [process_running EXCEPT ![p] = FALSE]
        BY <1>15 DEF Handles
      <4>2. [process_running EXCEPT ![p] = FALSE] \in [Process -> BOOLEAN]
        BY Zenon
      <4> QED
        BY <4>1, <4>2
    <3> QED
      BY <1>15, <3>1 DEF Handles, Closes
  <2>2. Turns'
    BY <1>15 DEF Handles, Closes
  <2>3. ExitTellsTruth' /\ LeavesServed'
    BY <1>15 DEF ExitTellsTruth, LeavesServed, Handles, Closes
  <2>4. HasListener'
    BY <1>15 DEF HasListener, Handles, Closes
  <2>5. Listening'
    BY <1>15 DEF HasListener, Listening, Handles, Closes
  <2>6. Streams' /\ DaemonDetached'
    BY <1>15 DEF HasListener, Streams, DaemonDetached, Handles, Closes
  <2> QED
    BY <2>1, <2>2, <2>3, <2>4, <2>5, <2>6
<1>16. CASE FreesResources(p)
  <2>1. TypeOK'
    BY <1>16 DEF FreesResources, Closes
  <2>2. Turns'
    BY <1>16 DEF FreesResources, Closes
  <2>3. ExitTellsTruth' /\ LeavesServed'
    BY <1>16 DEF ExitTellsTruth, LeavesServed, FreesResources, Closes
  <2>4. HasListener'
    BY <1>16 DEF HasListener, FreesResources, Closes
  <2>5. Listening'
    BY <1>16 DEF HasListener, Listening, FreesResources, Closes
  <2>6. Streams' /\ DaemonDetached'
    BY <1>16 DEF Streams, DaemonDetached, FreesResources, Closes
  <2> QED
    BY <2>1, <2>2, <2>3, <2>4, <2>5, <2>6
<1>17. CASE Exits(p)
  <2>1. TypeOK'
    BY <1>17 DEF Exits
  <2>2. Turns'
    BY <1>17 DEF Exits
  <2>3. ExitTellsTruth' /\ LeavesServed'
    BY <1>17 DEF ExitTellsTruth, LeavesServed, Exits
  <2>4. HasListener'
    BY <1>17 DEF HasListener, Exits
  <2>5. Listening'
    BY <1>17 DEF HasListener, Listening, Exits
  <2>6. Streams' /\ DaemonDetached'
    BY <1>17 DEF Streams, DaemonDetached, Exits
  <2> QED
    BY <2>1, <2>2, <2>3, <2>4, <2>5, <2>6
<1> QED
  BY <1>1, <1>2, <1>3, <1>4, <1>5, <1>6, <1>7, <1>8, <1>9, <1>10, <1>11, <1>12, <1>13,
     <1>14, <1>15, <1>16, <1>17

LEMMA StutterKeepsIInv == IInv /\ UNCHANGED vars => IInv'
BY DEF vars, IInv, Inv, TypeOK, ExitTellsTruth, Turns, LeavesServed, HasListener,
  Listening, Streams, DaemonDetached

LEMMA NextKeepsIInv == IInv /\ [Next]_vars => IInv'
BY StepKeepsIInv, StutterKeepsIInv DEF Next, Over

LEMMA IInvAlways == Spec => []IInv
BY InitIInv, NextKeepsIInv, PTL DEF Spec

(* Whoever started aesdsocket is told success only by a server that has    *)
(* run or by the parent of a daemon (aesdsocket.c:313-349).                *)
THEOREM InvHolds == Spec => []Inv
BY IInvAlways, PTL DEF IInv

(* The port is listened on from listen() to the first signal or the end of *)
(* run_server(), in the daemon too, as long as the standard descriptors    *)
(* were open at the start (aesdsocket.c:89-97, 188-190, 210-212).          *)
THEOREM ListeningHolds == Spec => []Listening
BY IInvAlways, PTL DEF IInv

(* A daemon that serves is detached, whatever was open at the start, and   *)
(* if all was, after a signal too (aesdsocket.c:89-97, 171-193).           *)
THEOREM DaemonDetachedHolds == Spec => []DaemonDetached
BY IInvAlways, PTL DEF IInv
=============================================================================
