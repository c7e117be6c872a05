-------------------------- MODULE ServerThreadsProofs --------------------------
(***************************************************************************)
(* The server's threads keep Inv, whatever the numbers of clients, signals *)
(* and descriptors and whichever calls fail: no client thread outlives its *)
(* node, and the joiner never sleeps through the end of a client thread or *)
(* through main's order to stop.  Descriptors belong to whom they are      *)
(* recorded for (DInv), and given enough of them a stop is a success       *)
(* (Listens).                                                              *)
(*                                                                         *)
(* Inv is inductive.  There is one lemma for each kind of thread, with one *)
(* case per action; a case has one step for each conjunct of Inv that the  *)
(* action can disturb and one for the conjuncts it leaves alone.           *)
(***************************************************************************)
EXTENDS ServerThreads, FiniteSetTheorems, TLAPS

USE DEF MainPc, JoinerPc, ClientPc, HandlerPc, FdOrNone, Thread, Completed
USE DEF netVars, logVars, nodeVars, mainVars, threadVars, signalVars

LEMMA InitInv == Init => Inv
<1> SUFFICES ASSUME Init PROVE Inv
  OBVIOUS
<1>1. TypeOK
  BY FdAssumption, MaxLinesAssumption DEF Init, TypeOK
<1>2. NodesOutliveThreads /\ NoLostWakeup /\ Bookkeeping
  BY DEF Init, NodesOutliveThreads, NoLostWakeup, Bookkeeping
<1> QED
  BY <1>1, <1>2 DEF Inv
-----------------------------------------------------------------------------
(* The steps of the main thread.                                           *)
LEMMA MainKeepsInv ==
  ASSUME Inv, MainStep \/ MainAccepts \/ MainAcceptFails
  PROVE  Inv'
<1> USE DEF Inv, TypeOK
<1>1. CASE MainSetup
  <2>1. TypeOK'
    <3>1. /\ mpc' \in MainPc /\ jpc' \in JoinerPc
          /\ process_running' \in BOOLEAN /\ ret_val' \in {"success", "failure"}
      BY <1>1 DEF MainSetup, MainAt
    <3> QED
      BY <1>1, <3>1 DEF MainSetup
  <2>2. NoLostWakeup'
    BY <1>1 DEF NoLostWakeup, Bookkeeping, MainSetup, MainAt
  <2>3. Bookkeeping'
    BY <1>1 DEF NodesOutliveThreads, Bookkeeping, MainSetup, MainAt
  <2>4. NodesOutliveThreads'
    BY <1>1 DEF NodesOutliveThreads, MainSetup, MainAt
  <2> QED
    BY <2>1, <2>2, <2>3, <2>4 DEF Inv
<1>2. CASE MainLoop
  <2>1. TypeOK'
    BY <1>2 DEF MainLoop, MainAt
  <2>2. NoLostWakeup'
    BY <1>2 DEF NoLostWakeup, Bookkeeping, MainLoop, MainAt
  <2>3. Bookkeeping'
    BY <1>2 DEF NodesOutliveThreads, Bookkeeping, MainLoop, MainAt
  <2>4. NodesOutliveThreads'
    BY <1>2 DEF NodesOutliveThreads, MainLoop, MainAt
  <2> QED
    BY <2>1, <2>2, <2>3, <2>4 DEF Inv
<1>3. CASE MainAccepts
  <2>1. TypeOK'
    BY <1>3 DEF MainAccepts, MainAt, LowestFree
  <2>2. NoLostWakeup'
    BY <1>3 DEF NoLostWakeup, Bookkeeping, MainAccepts, MainAt, LowestFree
  <2>3. Bookkeeping'
    BY <1>3 DEF NodesOutliveThreads, Bookkeeping, MainAccepts, MainAt,
      LowestFree
  <2>4. NodesOutliveThreads'
    BY <1>3 DEF NodesOutliveThreads, MainAccepts, MainAt, LowestFree
  <2> QED
    BY <2>1, <2>2, <2>3, <2>4 DEF Inv
<1>4. CASE MainAcceptFails
  <2>1. TypeOK'
    BY <1>4 DEF MainAcceptFails, MainAt
  <2>2. NoLostWakeup'
    BY <1>4 DEF NoLostWakeup, Bookkeeping, MainAcceptFails, MainAt
  <2>3. Bookkeeping'
    BY <1>4 DEF NodesOutliveThreads, Bookkeeping, MainAcceptFails, MainAt
  <2>4. NodesOutliveThreads'
    BY <1>4 DEF NodesOutliveThreads, MainAcceptFails, MainAt
  <2> QED
    BY <2>1, <2>2, <2>3, <2>4 DEF Inv
<1>5. CASE MainCreates
  <2>1. TypeOK'
    BY <1>5 DEF Bookkeeping, MainCreates, MainAt, MainForgetsConnection
  <2>2. NodesOutliveThreads'
    BY <1>5 DEF NodesOutliveThreads, Bookkeeping, MainCreates, MainAt,
      MainForgetsConnection
  <2>3. NoLostWakeup'
    BY <1>5 DEF NoLostWakeup, Bookkeeping, MainCreates, MainAt,
      MainForgetsConnection
  <2>4. Bookkeeping'
    BY <1>5 DEF NodesOutliveThreads, Bookkeeping, MainCreates, MainAt,
      MainForgetsConnection
  <2> QED
    BY <2>1, <2>2, <2>3, <2>4 DEF Inv
<1>6. CASE MainCannotCreate
  <2>1. TypeOK'
    BY <1>6 DEF MainCannotCreate, MainAt
  <2>2. NoLostWakeup'
    BY <1>6 DEF NoLostWakeup, Bookkeeping, MainCannotCreate, MainAt
  <2>3. Bookkeeping'
    BY <1>6 DEF NodesOutliveThreads, Bookkeeping, MainCannotCreate, MainAt
  <2>4. NodesOutliveThreads'
    BY <1>6 DEF NodesOutliveThreads, MainCannotCreate, MainAt
  <2> QED
    BY <2>1, <2>2, <2>3, <2>4 DEF Inv
<1>7. CASE MainAbandons
  <2>1. TypeOK'
    BY <1>7 DEF MainAbandons, MainAt, MainForgetsConnection, close_socket,
      ShutConn, Closed
  <2>2. NoLostWakeup'
    BY <1>7 DEF NoLostWakeup, Bookkeeping, MainAbandons, MainAt,
      MainForgetsConnection, close_socket, ShutConn, Closed
  <2>3. Bookkeeping'
    BY <1>7 DEF NodesOutliveThreads, Bookkeeping, MainAbandons, MainAt,
      MainForgetsConnection, close_socket, ShutConn, Closed
  <2>4. NodesOutliveThreads'
    BY <1>7 DEF NodesOutliveThreads, MainAbandons, MainAt,
      MainForgetsConnection, close_socket, ShutConn, Closed
  <2> QED
    BY <2>1, <2>2, <2>3, <2>4 DEF Inv
<1>8. CASE MainStops
  <2>1. TypeOK'
    <3>1. process_running' \in BOOLEAN /\ mpc' \in MainPc
      BY <1>8 DEF MainStops
    <3>2. UNCHANGED <<netVars, logVars, nodeVars, mainVars, signalVars, threadVars,
                      cpc, jpc>>
      BY <1>8 DEF MainStops
    <3> QED
      BY <3>1, <3>2
  <2>2. NoLostWakeup'
    BY <1>8 DEF NoLostWakeup, Bookkeeping, MainStops, MainAt
  <2>3. Bookkeeping'
    BY <1>8 DEF NodesOutliveThreads, Bookkeeping, MainStops, MainAt
  <2>4. NodesOutliveThreads'
    BY <1>8 DEF NodesOutliveThreads, MainStops, MainAt
  <2> QED
    BY <2>1, <2>2, <2>3, <2>4 DEF Inv
<1>9. CASE MainWakes
  <2>1. TypeOK'
    BY <1>9 DEF MainWakes, MainAt, WakeJoiner
  <2>2. NoLostWakeup'
    BY <1>9 DEF NoLostWakeup, Bookkeeping, MainWakes, MainAt, WakeJoiner
  <2>3. Bookkeeping'
    BY <1>9 DEF NodesOutliveThreads, Bookkeeping, MainWakes, MainAt, WakeJoiner
  <2>4. NodesOutliveThreads'
    BY <1>9 DEF NodesOutliveThreads, MainWakes, MainAt, WakeJoiner
  <2> QED
    BY <2>1, <2>2, <2>3, <2>4 DEF Inv
<1>10. CASE MainJoins
  <2>1. TypeOK'
    BY <1>10 DEF MainJoins, MainAt
  <2>2. NoLostWakeup'
    BY <1>10 DEF NoLostWakeup, Bookkeeping, MainJoins, MainAt
  <2>3. Bookkeeping'
    BY <1>10 DEF NodesOutliveThreads, Bookkeeping, MainJoins, MainAt
  <2>4. NodesOutliveThreads'
    BY <1>10 DEF NodesOutliveThreads, MainJoins, MainAt
  <2> QED
    BY <2>1, <2>2, <2>3, <2>4 DEF Inv
<1>11. CASE MainFrees
  <2>1. TypeOK'
    BY <1>11 DEF MainFrees, MainAt, ShutConn
  <2>2. NoLostWakeup'
    BY <1>11 DEF NoLostWakeup, Bookkeeping, MainFrees, MainAt, ShutConn
  <2>3. Bookkeeping'
    BY <1>11 DEF NodesOutliveThreads, Bookkeeping, MainFrees, MainAt, ShutConn
  <2>4. NodesOutliveThreads'
    BY <1>11 DEF NodesOutliveThreads, MainFrees, MainAt, ShutConn
  <2> QED
    BY <2>1, <2>2, <2>3, <2>4 DEF Inv
<1>12. CASE MainExits
  <2>1. TypeOK'
    BY <1>12 DEF MainExits, MainAt
  <2>2. NoLostWakeup'
    BY <1>12 DEF NoLostWakeup, Bookkeeping, MainExits, MainAt
  <2>3. Bookkeeping'
    BY <1>12 DEF NodesOutliveThreads, Bookkeeping, MainExits, MainAt
  <2>4. NodesOutliveThreads'
    BY <1>12 DEF NodesOutliveThreads, MainExits, MainAt
  <2> QED
    BY <2>1, <2>2, <2>3, <2>4 DEF Inv
<1> QED
  BY <1>1, <1>2, <1>3, <1>4, <1>5, <1>6, <1>7, <1>8, <1>9, <1>10, <1>11, <1>12 DEF MainStep

-----------------------------------------------------------------------------
(* The steps of a client thread, and its peer's.                           *)
LEMMA ClientKeepsInv ==
  ASSUME Inv, NEW c \in Client,
         ClientStep(c) \/ ClientReceives(c) \/ ClientProcesses(c) \/ PeerCloses(c)
  PROVE  Inv'
<1> USE DEF Inv, TypeOK
<1>1. CASE PeerCloses(c)
  <2>1. TypeOK'
    BY <1>1 DEF PeerCloses, ClientAt, ClientGoes
  <2>2. Bookkeeping'
    BY <1>1 DEF NodesOutliveThreads, Bookkeeping, PeerCloses, ClientAt,
      ClientGoes
  <2>3. NodesOutliveThreads' /\ NoLostWakeup'
    BY <1>1 DEF NodesOutliveThreads, NoLostWakeup, PeerCloses, ClientAt,
      ClientGoes
  <2> QED
    BY <2>1, <2>2, <2>3 DEF Inv
<1>2. CASE ClientStarts(c)
  <2>1. TypeOK'
    BY <1>2 DEF ClientStarts, ClientAt, ClientGoes
  <2>2. NodesOutliveThreads'
    BY <1>2 DEF NodesOutliveThreads, ClientStarts, ClientAt, ClientGoes
  <2>3. Bookkeeping'
    BY <1>2 DEF NodesOutliveThreads, Bookkeeping, ClientStarts, ClientAt,
      ClientGoes
  <2>4. NoLostWakeup'
    BY <1>2 DEF NoLostWakeup, ClientStarts, ClientAt, ClientGoes
  <2> QED
    BY <2>1, <2>2, <2>3, <2>4 DEF Inv
<1>3. CASE ClientReceives(c)
  <2>1. TypeOK'
    BY <1>3, MaxLinesAssumption DEF ClientReceives, ClientAt, ClientGoes
  <2>2. NodesOutliveThreads'
    BY <1>3 DEF NodesOutliveThreads, ClientReceives, ClientAt, ClientGoes
  <2>3. Bookkeeping'
    BY <1>3 DEF NodesOutliveThreads, Bookkeeping, ClientReceives, ClientAt,
      ClientGoes
  <2>4. NoLostWakeup'
    BY <1>3 DEF NoLostWakeup, ClientReceives, ClientAt, ClientGoes
  <2> QED
    BY <2>1, <2>2, <2>3, <2>4 DEF Inv
<1>4. CASE ClientReceivesEnd(c)
  <2>1. TypeOK'
    BY <1>4 DEF ClientReceivesEnd, ClientAt, ClientGoes
  <2>2. NodesOutliveThreads'
    BY <1>4 DEF NodesOutliveThreads, ClientReceivesEnd, ClientAt, ClientGoes
  <2>3. Bookkeeping'
    BY <1>4 DEF NodesOutliveThreads, Bookkeeping, ClientReceivesEnd, ClientAt,
      ClientGoes
  <2>4. NoLostWakeup'
    BY <1>4 DEF NoLostWakeup, ClientReceivesEnd, ClientAt, ClientGoes
  <2> QED
    BY <2>1, <2>2, <2>3, <2>4 DEF Inv
<1>5. CASE ClientLocks(c)
  <2>1. TypeOK'
    BY <1>5 DEF ClientLocks, ClientAt, ClientGoes, LowestFree
  <2>2. NodesOutliveThreads'
    BY <1>5 DEF NodesOutliveThreads, ClientLocks, ClientAt, ClientGoes,
      LowestFree
  <2>3. Bookkeeping'
    BY <1>5 DEF NodesOutliveThreads, Bookkeeping, ClientLocks, ClientAt,
      ClientGoes, LowestFree
  <2>4. NoLostWakeup'
    BY <1>5 DEF NoLostWakeup, ClientLocks, ClientAt, ClientGoes, LowestFree
  <2> QED
    BY <2>1, <2>2, <2>3, <2>4 DEF Inv
<1>6. CASE ClientProcesses(c)
  <2>1. TypeOK'
    BY <1>6, MaxLinesAssumption DEF ClientProcesses, ClientAt, ClientGoes,
      Closed
  <2>2. NodesOutliveThreads'
    BY <1>6 DEF NodesOutliveThreads, ClientProcesses, ClientAt, ClientGoes,
      Closed
  <2>3. Bookkeeping'
    BY <1>6 DEF NodesOutliveThreads, Bookkeeping, ClientProcesses, ClientAt,
      ClientGoes, Closed
  <2>4. NoLostWakeup'
    BY <1>6 DEF NoLostWakeup, ClientProcesses, ClientAt, ClientGoes, Closed
  <2> QED
    BY <2>1, <2>2, <2>3, <2>4 DEF Inv
<1>7. CASE ClientCrashes(c)
  <2>1. TypeOK'
    BY <1>7 DEF ClientCrashes, ClientAt, ClientGoes
  <2>2. NoLostWakeup'
    BY <1>7 DEF NoLostWakeup, Bookkeeping, ClientCrashes, ClientAt, ClientGoes
  <2>3. Bookkeeping'
    BY <1>7 DEF NodesOutliveThreads, Bookkeeping, ClientCrashes, ClientAt,
      ClientGoes
  <2>4. NodesOutliveThreads'
    BY <1>7 DEF NodesOutliveThreads, ClientCrashes, ClientAt, ClientGoes
  <2> QED
    BY <2>1, <2>2, <2>3, <2>4 DEF Inv
<1>8. CASE ClientChecks(c)
  <2>1. TypeOK'
    BY <1>8 DEF ClientChecks, ClientAt, ClientGoes
  <2>2. NodesOutliveThreads'
    BY <1>8 DEF NodesOutliveThreads, ClientChecks, ClientAt, ClientGoes
  <2>3. Bookkeeping'
    BY <1>8 DEF NodesOutliveThreads, Bookkeeping, ClientChecks, ClientAt,
      ClientGoes
  <2>4. NoLostWakeup'
    BY <1>8 DEF NoLostWakeup, ClientChecks, ClientAt, ClientGoes
  <2> QED
    BY <2>1, <2>2, <2>3, <2>4 DEF Inv
<1>9. CASE ClientEnds(c)
  <2>1. TypeOK'
    BY <1>9 DEF ClientEnds, ClientAt, ClientGoes, close_socket, ShutConn,
      Closed, WakeJoiner
  <2>2. NodesOutliveThreads'
    BY <1>9 DEF NodesOutliveThreads, ClientEnds, ClientAt, ClientGoes,
      close_socket, ShutConn, Closed, WakeJoiner
  <2>3. NoLostWakeup'
    BY <1>9 DEF NoLostWakeup, Bookkeeping, ClientEnds, ClientAt, ClientGoes,
      close_socket, ShutConn, Closed, WakeJoiner
  <2>4. Bookkeeping'
    BY <1>9 DEF NodesOutliveThreads, Bookkeeping, ClientEnds, ClientAt,
      ClientGoes, close_socket, ShutConn, Closed, WakeJoiner
  <2> QED
    BY <2>1, <2>2, <2>3, <2>4 DEF Inv
<1>10. CASE ClientExits(c)
  <2>1. TypeOK'
    BY <1>10 DEF ClientExits, ClientAt, ClientGoes
  <2>2. NodesOutliveThreads'
    BY <1>10 DEF NodesOutliveThreads, ClientExits, ClientAt, ClientGoes
  <2>3. Bookkeeping'
    BY <1>10 DEF NodesOutliveThreads, Bookkeeping, ClientExits, ClientAt,
      ClientGoes
  <2>4. NoLostWakeup'
    BY <1>10 DEF NoLostWakeup, ClientExits, ClientAt, ClientGoes
  <2> QED
    BY <2>1, <2>2, <2>3, <2>4 DEF Inv
<1> QED
  BY <1>1, <1>2, <1>3, <1>4, <1>5, <1>6, <1>7, <1>8, <1>9, <1>10 DEF ClientStep

-----------------------------------------------------------------------------
(* The steps of the joiner.                                                *)
LEMMA JoinerKeepsInv ==
  ASSUME Inv, JoinerStep \/ JoinerWakesUnasked
  PROVE  Inv'
<1> USE DEF Inv, TypeOK
<1>1. CASE JoinerChecks
  <2>1. TypeOK'
    BY <1>1 DEF JoinerChecks, JoinerAt
  <2>2. NoLostWakeup'
    BY <1>1 DEF NoLostWakeup, Bookkeeping, JoinerChecks, JoinerAt
  <2>3. Bookkeeping'
    BY <1>1 DEF NodesOutliveThreads, Bookkeeping, JoinerChecks, JoinerAt
  <2>4. NodesOutliveThreads'
    BY <1>1 DEF NodesOutliveThreads, JoinerChecks, JoinerAt
  <2> QED
    BY <2>1, <2>2, <2>3, <2>4 DEF Inv
<1>2. CASE JoinerWakesUnasked
  <2>1. TypeOK'
    BY <1>2 DEF JoinerWakesUnasked, JoinerAt, WakeJoiner
  <2>2. NoLostWakeup'
    BY <1>2 DEF NoLostWakeup, Bookkeeping, JoinerWakesUnasked, JoinerAt,
      WakeJoiner
  <2>3. Bookkeeping'
    BY <1>2 DEF NodesOutliveThreads, Bookkeeping, JoinerWakesUnasked, JoinerAt,
      WakeJoiner
  <2>4. NodesOutliveThreads'
    BY <1>2 DEF NodesOutliveThreads, JoinerWakesUnasked, JoinerAt, WakeJoiner
  <2> QED
    BY <2>1, <2>2, <2>3, <2>4 DEF Inv
<1>3. CASE JoinerJoins
  <2>1. TypeOK'
    BY <1>3 DEF JoinerJoins, JoinerAt
  <2>2. NodesOutliveThreads'
    BY <1>3 DEF NodesOutliveThreads, Bookkeeping, JoinerJoins, JoinerAt
  <2>3. NoLostWakeup'
    BY <1>3 DEF NoLostWakeup, Bookkeeping, JoinerJoins, JoinerAt
  <2>4. Bookkeeping'
    BY <1>3 DEF NodesOutliveThreads, Bookkeeping, JoinerJoins, JoinerAt
  <2> QED
    BY <2>1, <2>2, <2>3, <2>4 DEF Inv
<1>4. CASE JoinerSweeps
  <2>1. TypeOK'
    BY <1>4 DEF JoinerSweeps, JoinerAt, close_socket, ShutConn, Closed
  <2>2. NoLostWakeup'
    BY <1>4 DEF NoLostWakeup, Bookkeeping, JoinerSweeps, JoinerAt,
      close_socket, ShutConn, Closed
  <2>3. Bookkeeping'
    BY <1>4 DEF NodesOutliveThreads, Bookkeeping, JoinerSweeps, JoinerAt,
      close_socket, ShutConn, Closed
  <2>4. NodesOutliveThreads'
    BY <1>4 DEF NodesOutliveThreads, JoinerSweeps, JoinerAt, close_socket,
      ShutConn, Closed
  <2> QED
    BY <2>1, <2>2, <2>3, <2>4 DEF Inv
<1>5. CASE JoinerHasSwept
  <2>1. TypeOK'
    BY <1>5 DEF JoinerHasSwept, JoinerAt
  <2>2. NoLostWakeup'
    BY <1>5 DEF NoLostWakeup, Bookkeeping, JoinerHasSwept, JoinerAt
  <2>3. Bookkeeping'
    BY <1>5 DEF NodesOutliveThreads, Bookkeeping, JoinerHasSwept, JoinerAt
  <2>4. NodesOutliveThreads'
    BY <1>5 DEF NodesOutliveThreads, JoinerHasSwept, JoinerAt
  <2> QED
    BY <2>1, <2>2, <2>3, <2>4 DEF Inv
<1>6. CASE JoinerChecksLast
  <2>1. TypeOK'
    BY <1>6 DEF JoinerChecksLast, JoinerAt
  <2>2. NoLostWakeup'
    BY <1>6 DEF NoLostWakeup, Bookkeeping, JoinerChecksLast, JoinerAt
  <2>3. Bookkeeping'
    BY <1>6 DEF NodesOutliveThreads, Bookkeeping, JoinerChecksLast, JoinerAt
  <2>4. NodesOutliveThreads'
    BY <1>6 DEF NodesOutliveThreads, JoinerChecksLast, JoinerAt
  <2> QED
    BY <2>1, <2>2, <2>3, <2>4 DEF Inv
<1> QED
  BY <1>1, <1>2, <1>3, <1>4, <1>5, <1>6 DEF JoinerStep

-----------------------------------------------------------------------------
(* The steps of a signal handler.                                          *)
LEMMA HandlerKeepsInv ==
  ASSUME Inv, NEW s \in Signal, HandlerEnters(s) \/ HandlerStep(s)
  PROVE  Inv'
<1> USE DEF Inv, TypeOK
<1>1. CASE HandlerEnters(s)
  <2>1. TypeOK'
    <3>1. process_running' \in BOOLEAN /\ spc' \in [Signal -> HandlerPc]
      BY <1>1 DEF HandlerEnters
    <3>2. /\ host' \in [Signal -> Thread \cup Signal \cup {NULL}]
          /\ cpc' \in [Client -> ClientPc]
      BY <1>1 DEF HandlerEnters
    <3>3. \A c \in Client : cpc'[c] \in {"lock", "io"} => cpc[c] \in {"lock", "io"}
      BY <1>1 DEF HandlerEnters
    <3>4. UNCHANGED <<netVars, logVars, nodeVars, mainVars, threadVars, jpc, mpc>>
      BY <1>1 DEF HandlerEnters
    <3> QED
      BY <3>1, <3>2, <3>3, <3>4
  <2>2. NodesOutliveThreads'
    BY <1>1 DEF NodesOutliveThreads, HandlerEnters, InHandler
  <2>3. Bookkeeping'
    BY <1>1 DEF NodesOutliveThreads, Bookkeeping, HandlerEnters, InHandler
  <2>4. NoLostWakeup'
    BY <1>1 DEF NoLostWakeup, HandlerEnters, InHandler
  <2> QED
    BY <2>1, <2>2, <2>3, <2>4 DEF Inv
<1>2. CASE HandlerTests(s)
  <2>1. TypeOK'
    BY <1>2 DEF HandlerTests, InHandler, HandlerReturns, ShutConn
  <2>2. Bookkeeping'
    BY <1>2 DEF NodesOutliveThreads, Bookkeeping, HandlerTests, InHandler,
      HandlerReturns, ShutConn
  <2>3. NodesOutliveThreads' /\ NoLostWakeup'
    BY <1>2 DEF NodesOutliveThreads, NoLostWakeup, HandlerTests, InHandler,
      HandlerReturns, ShutConn
  <2> QED
    BY <2>1, <2>2, <2>3 DEF Inv
<1>3. CASE HandlerCloses(s)
  <2>1. TypeOK'
    BY <1>3 DEF HandlerCloses, InHandler, Closed
  <2>2. NodesOutliveThreads' /\ NoLostWakeup' /\ Bookkeeping'
    BY <1>3 DEF NodesOutliveThreads, NoLostWakeup, Bookkeeping, HandlerCloses,
      InHandler, Closed
  <2> QED
    BY <2>1, <2>2 DEF Inv
<1>4. CASE HandlerForgets(s)
  <2>1. TypeOK'
    BY <1>4 DEF HandlerForgets, InHandler, HandlerReturns
  <2>2. NodesOutliveThreads' /\ NoLostWakeup' /\ Bookkeeping'
    BY <1>4 DEF NodesOutliveThreads, NoLostWakeup, Bookkeeping, HandlerForgets,
      InHandler, HandlerReturns
  <2> QED
    BY <2>1, <2>2 DEF Inv
<1> QED
  BY <1>1, <1>2, <1>3, <1>4 DEF HandlerStep

-----------------------------------------------------------------------------
LEMMA StutterInv == Inv /\ UNCHANGED vars => Inv'
<1> SUFFICES ASSUME Inv, UNCHANGED vars PROVE Inv'
  OBVIOUS
<1>1. TypeOK'
  BY DEF Inv, TypeOK, vars
<1>2. NodesOutliveThreads' /\ NoLostWakeup' /\ Bookkeeping'
  BY DEF Inv, NodesOutliveThreads, NoLostWakeup, Bookkeeping, vars
<1> QED
  BY <1>1, <1>2 DEF Inv

LEMMA StepInv == Inv /\ [Next]_vars => Inv'
<1> SUFFICES ASSUME Inv, [Next]_vars PROVE Inv'
  OBVIOUS
<1>1. CASE Next
  BY <1>1, MainKeepsInv, ClientKeepsInv, JoinerKeepsInv, HandlerKeepsInv, StutterInv
     DEF Next, Over
<1>2. CASE UNCHANGED vars
  BY <1>2, StutterInv
<1> QED
  BY <1>1, <1>2

(* Inv holds in every reachable state, for every number of connections and *)
(* signals: a client thread that has not ended has its node, allocated and *)
(* in the list (so neither the thread nor the joiner touches freed memory, *)
(* aesdsocket_client.c:389-396), and a joiner that waits has nobody to     *)
(* join and has not missed the wake-up of the shutdown                     *)
(* (aesdsocket_threads.c:123-132, 192-197).                                *)
THEOREM ServerInvariant == Spec => []Inv
<1> QED
  BY InitInv, StepInv, PTL DEF Spec
-----------------------------------------------------------------------------
(* Whose every descriptor of the server is.                                *)
(*                                                                         *)
(* One half of the argument says that what is open is on record: a number  *)
(* in use is recorded by its thread, by main, by log_file or by            *)
(* server_sock_fd, so that nothing is left open.  The other half, that     *)
(* what is on record is still the owner's, holds until a second signal     *)
(* comes, which may find server_sock_fd closed and not yet forgotten.      *)

(* Who holds log_file_mutex, and who has the log open.                     *)
MutexHeld ==
  /\ \A c \in Client : cpc[c] = "io" <=> log_file_mutex = c
  /\ log_file # NULL => log_file_mutex # NULL

(* Where a thread is tells what it records.                                *)
Records ==
  /\ mpc \in {"create", "abandon"} => accepted_sock_fd \in Fd
  /\ accepted # NULL => mpc \in {"create", "abandon", "crashed"}
  /\ mpc \in {"exiting", "exited"} => server_sock_fd = -1
  /\ \A c \in Client : cpc[c] \in {"exiting", "exited"} => client_sock_fd[c] = -1

(* What is open is on record.                                              *)
OpenIsRecorded ==
  /\ \A f \in Fd :
       /\ file[f] = "listen" => server_sock_fd = f
       /\ file[f] = "log" => log_file = f
       /\ \A c \in Client :
            file[f] = c => \/ c \in thread_list /\ client_sock_fd[c] = f
                           \/ accepted = c /\ accepted_sock_fd = f
  /\ \A s \in Signal : spc[s] = "forget" => \A f \in Fd : file[f] # "listen"

(* What is on record is still its owner's, unless two signals have come.   *)
Closing == \E s \in Signal : spc[s] \in {"close", "forget"}
Forgetting == \E s \in Signal : spc[s] = "forget"

RecordedIsOwn ==
  AtMostOneSignal =>
    /\ \A c \in thread_list : client_sock_fd[c] # -1 => file[client_sock_fd[c]] = c
    /\ mpc \in {"create", "abandon"} => file[accepted_sock_fd] = accepted
    /\ log_file # NULL => file[log_file] = "log"
    /\ server_sock_fd # -1 /\ ~Forgetting => file[server_sock_fd] = "listen"
    /\ server_sock_fd # -1 => file[server_sock_fd] \notin Client
    /\ Closing => ~listening

(* As long as the server runs no handler has begun, the joiner has not     *)
(* closed a socket, and a client thread's copy of its number is current.   *)
Undisturbed ==
  process_running =>
    /\ \A s \in Signal : spc[s] = "pending"
    /\ jpc \in {"none", "start", "check", "wait", "woken", "join"}
    /\ \A c \in Client :
         /\ cpc[c] \in {"start", "recv", "lock", "io", "check"} => client_sock_fd[c] # -1
         /\ cpc[c] \in {"recv", "lock", "io", "check"} => sock_fd[c] = client_sock_fd[c]

DInv ==
  Inv /\ MutexHeld /\ Records /\ OpenIsRecorded /\ RecordedIsOwn /\ Undisturbed

USE FdAssumption, KindsAssumption
USE DEF Closing, Forgetting, AtMostOneSignal

LEMMA InitDInv == Init => DInv
<1> SUFFICES ASSUME Init PROVE DInv
  OBVIOUS
<1>1. Inv
  BY InitInv
<1>2. MutexHeld /\ Records /\ Undisturbed
  BY DEF Init, MutexHeld, Records, Undisturbed
<1>3. OpenIsRecorded /\ RecordedIsOwn
  BY DEF Init, OpenIsRecorded, RecordedIsOwn
<1> QED
  BY <1>1, <1>2, <1>3 DEF DInv

Owned == MutexHeld /\ Records /\ OpenIsRecorded /\ RecordedIsOwn /\ Undisturbed
-----------------------------------------------------------------------------
(* The steps of the main thread.                                           *)
LEMMA MainOwned ==
  ASSUME DInv,
         \/ MainSetup \/ MainLoop \/ MainAccepts \/ MainAcceptFails \/ MainCreates
         \/ MainCannotCreate \/ MainAbandons \/ MainStops \/ MainWakes \/ MainJoins
         \/ MainFrees \/ MainExits
  PROVE  Owned'
<1> USE DEF DInv, Inv, TypeOK, NodesOutliveThreads, Bookkeeping
<1>1. CASE MainSetup
  <2>1. MutexHeld' /\ Records'
    BY <1>1 DEF MutexHeld, Records, MainSetup, MainAt
  <2>2. OpenIsRecorded'
    BY <1>1 DEF OpenIsRecorded, Records, MutexHeld, MainSetup, MainAt
  <2>3. RecordedIsOwn'
    BY <1>1 DEF RecordedIsOwn, Records, MutexHeld, MainSetup, MainAt
  <2>4. Undisturbed'
    BY <1>1 DEF Undisturbed, Records, MainSetup, MainAt
  <2> QED
    BY <2>1, <2>2, <2>3, <2>4 DEF Owned
<1>2. CASE MainLoop
  <2>1. MutexHeld' /\ Records'
    BY <1>2 DEF MutexHeld, Records, MainLoop, MainAt
  <2>2. OpenIsRecorded'
    BY <1>2 DEF OpenIsRecorded, Records, MutexHeld, MainLoop, MainAt
  <2>3. RecordedIsOwn'
    BY <1>2 DEF RecordedIsOwn, Records, MutexHeld, MainLoop, MainAt
  <2>4. Undisturbed'
    BY <1>2 DEF Undisturbed, Records, MainLoop, MainAt
  <2> QED
    BY <2>1, <2>2, <2>3, <2>4 DEF Owned
<1>3. CASE MainAccepts
  <2>1. MutexHeld' /\ Records'
    BY <1>3 DEF MutexHeld, Records, MainAccepts, MainAt, LowestFree
  <2>2. OpenIsRecorded'
    BY <1>3 DEF OpenIsRecorded, Records, MutexHeld, MainAccepts, MainAt, LowestFree
  <2>3. RecordedIsOwn'
    BY <1>3 DEF RecordedIsOwn, Records, MutexHeld, MainAccepts, MainAt, LowestFree
  <2>4. Undisturbed'
    BY <1>3 DEF Undisturbed, Records, MainAccepts, MainAt, LowestFree
  <2> QED
    BY <2>1, <2>2, <2>3, <2>4 DEF Owned
<1>4. CASE MainAcceptFails
  <2>1. MutexHeld' /\ Records'
    BY <1>4 DEF MutexHeld, Records, MainAcceptFails, MainAt
  <2>2. OpenIsRecorded'
    BY <1>4 DEF OpenIsRecorded, Records, MutexHeld, MainAcceptFails, MainAt
  <2>3. RecordedIsOwn'
    BY <1>4 DEF RecordedIsOwn, Records, MutexHeld, MainAcceptFails, MainAt
  <2>4. Undisturbed'
    BY <1>4 DEF Undisturbed, Records, MainAcceptFails, MainAt
  <2> QED
    BY <2>1, <2>2, <2>3, <2>4 DEF Owned
<1>5. CASE MainCreates
  <2>1. MutexHeld' /\ Records'
    BY <1>5 DEF MutexHeld, Records, MainCreates, MainAt, MainForgetsConnection
  <2>2. OpenIsRecorded'
    BY <1>5 DEF OpenIsRecorded, Records, MutexHeld, MainCreates, MainAt, MainForgetsConnection
  <2>3. RecordedIsOwn'
    BY <1>5 DEF RecordedIsOwn, Records, MutexHeld, MainCreates, MainAt, MainForgetsConnection
  <2>4. Undisturbed'
    BY <1>5 DEF Undisturbed, Records, MainCreates, MainAt, MainForgetsConnection
  <2> QED
    BY <2>1, <2>2, <2>3, <2>4 DEF Owned
<1>6. CASE MainCannotCreate
  <2>1. MutexHeld' /\ Records'
    BY <1>6 DEF MutexHeld, Records, MainCannotCreate, MainAt
  <2>2. OpenIsRecorded'
    BY <1>6 DEF OpenIsRecorded, Records, MutexHeld, MainCannotCreate, MainAt
  <2>3. RecordedIsOwn'
    BY <1>6 DEF RecordedIsOwn, Records, MutexHeld, MainCannotCreate, MainAt
  <2>4. Undisturbed'
    BY <1>6 DEF Undisturbed, Records, MainCannotCreate, MainAt
  <2> QED
    BY <2>1, <2>2, <2>3, <2>4 DEF Owned
<1>7. CASE MainAbandons
  <2>1. MutexHeld' /\ Records'
    BY <1>7 DEF MutexHeld, Records, MainAbandons, MainAt, MainForgetsConnection, close_socket, ShutConn, Closed
  <2>2. OpenIsRecorded'
    BY <1>7 DEF OpenIsRecorded, Records, MutexHeld, MainAbandons, MainAt, MainForgetsConnection, close_socket, ShutConn, Closed
  <2>3. RecordedIsOwn'
    BY <1>7 DEF RecordedIsOwn, Records, MutexHeld, MainAbandons, MainAt, MainForgetsConnection, close_socket, ShutConn, Closed
  <2>4. Undisturbed'
    BY <1>7 DEF Undisturbed, Records, MainAbandons, MainAt, MainForgetsConnection, close_socket, ShutConn, Closed
  <2> QED
    BY <2>1, <2>2, <2>3, <2>4 DEF Owned
<1>8. CASE MainStops
  <2>1. MutexHeld' /\ Records'
    BY <1>8 DEF MutexHeld, Records, MainStops, MainAt
  <2>2. OpenIsRecorded'
    BY <1>8 DEF OpenIsRecorded, Records, MutexHeld, MainStops, MainAt
  <2>3. RecordedIsOwn'
    BY <1>8 DEF RecordedIsOwn, Records, MutexHeld, MainStops, MainAt
  <2>4. Undisturbed'
    BY <1>8 DEF Undisturbed, Records, MainStops, MainAt
  <2> QED
    BY <2>1, <2>2, <2>3, <2>4 DEF Owned
<1>9. CASE MainWakes
  <2>1. MutexHeld' /\ Records'
    BY <1>9 DEF MutexHeld, Records, MainWakes, MainAt, WakeJoiner
  <2>2. OpenIsRecorded'
    BY <1>9 DEF OpenIsRecorded, Records, MutexHeld, MainWakes, MainAt, WakeJoiner
  <2>3. RecordedIsOwn'
    BY <1>9 DEF RecordedIsOwn, Records, MutexHeld, MainWakes, MainAt, WakeJoiner
  <2>4. Undisturbed'
    BY <1>9 DEF Undisturbed, Records, MainWakes, MainAt, WakeJoiner
  <2> QED
    BY <2>1, <2>2, <2>3, <2>4 DEF Owned
<1>10. CASE MainJoins
  <2>1. MutexHeld' /\ Records'
    BY <1>10 DEF MutexHeld, Records, MainJoins, MainAt
  <2>2. OpenIsRecorded'
    BY <1>10 DEF OpenIsRecorded, Records, MutexHeld, MainJoins, MainAt
  <2>3. RecordedIsOwn'
    BY <1>10 DEF RecordedIsOwn, Records, MutexHeld, MainJoins, MainAt
  <2>4. Undisturbed'
    BY <1>10 DEF Undisturbed, Records, MainJoins, MainAt
  <2> QED
    BY <2>1, <2>2, <2>3, <2>4 DEF Owned
<1>11. CASE MainFrees
  <2>1. MutexHeld' /\ Records'
    BY <1>11 DEF MutexHeld, Records, MainFrees, MainAt, ShutConn, IsListener
  <2>2. OpenIsRecorded'
    BY <1>11 DEF OpenIsRecorded, Records, MutexHeld, MainFrees, MainAt, ShutConn, IsListener
  <2>3. RecordedIsOwn'
    BY <1>11 DEF RecordedIsOwn, Records, MutexHeld, MainFrees, MainAt, ShutConn, IsListener
  <2>4. Undisturbed'
    BY <1>11 DEF Undisturbed, Records, MainFrees, MainAt, ShutConn, IsListener
  <2> QED
    BY <2>1, <2>2, <2>3, <2>4 DEF Owned
<1>12. CASE MainExits
  <2>1. MutexHeld' /\ Records'
    BY <1>12 DEF MutexHeld, Records, MainExits, MainAt
  <2>2. OpenIsRecorded'
    BY <1>12 DEF OpenIsRecorded, Records, MutexHeld, MainExits, MainAt
  <2>3. RecordedIsOwn'
    BY <1>12 DEF RecordedIsOwn, Records, MutexHeld, MainExits, MainAt
  <2>4. Undisturbed'
    BY <1>12 DEF Undisturbed, Records, MainExits, MainAt
  <2> QED
    BY <2>1, <2>2, <2>3, <2>4 DEF Owned
<1> QED
  BY <1>1, <1>2, <1>3, <1>4, <1>5, <1>6, <1>7, <1>8, <1>9, <1>10, <1>11, <1>12
-----------------------------------------------------------------------------
(* The steps of a client thread and of its peer.                           *)
LEMMA ClientOwned ==
  ASSUME DInv, NEW c \in Client,
         \/ ClientStarts(c) \/ ClientReceives(c) \/ ClientReceivesEnd(c)
         \/ ClientLocks(c) \/ ClientProcesses(c) \/ ClientCrashes(c)
         \/ ClientChecks(c) \/ ClientEnds(c) \/ ClientExits(c) \/ PeerCloses(c)
  PROVE  Owned'
<1> USE DEF DInv, Inv, TypeOK, NodesOutliveThreads, Bookkeeping
<1>1. CASE ClientStarts(c)
  <2>1. MutexHeld' /\ Records'
    BY <1>1 DEF MutexHeld, Records, ClientStarts, ClientAt, ClientGoes
  <2>2. OpenIsRecorded'
    BY <1>1 DEF OpenIsRecorded, Records, MutexHeld, ClientStarts, ClientAt, ClientGoes
  <2>3. RecordedIsOwn'
    BY <1>1 DEF RecordedIsOwn, Records, MutexHeld, ClientStarts, ClientAt, ClientGoes
  <2>4. Undisturbed'
    BY <1>1 DEF Undisturbed, Records, ClientStarts, ClientAt, ClientGoes
  <2> QED
    BY <2>1, <2>2, <2>3, <2>4 DEF Owned
<1>2. CASE ClientReceives(c)
  <2>1. MutexHeld' /\ Records'
    BY <1>2 DEF MutexHeld, Records, ClientReceives, ClientAt, ClientGoes
  <2>2. OpenIsRecorded'
    BY <1>2 DEF OpenIsRecorded, Records, MutexHeld, ClientReceives, ClientAt, ClientGoes
  <2>3. RecordedIsOwn'
    BY <1>2 DEF RecordedIsOwn, Records, MutexHeld, ClientReceives, ClientAt, ClientGoes
  <2>4. Undisturbed'
    BY <1>2 DEF Undisturbed, Records, ClientReceives, ClientAt, ClientGoes
  <2> QED
    BY <2>1, <2>2, <2>3, <2>4 DEF Owned
<1>3. CASE ClientReceivesEnd(c)
  <2>1. MutexHeld' /\ Records'
    BY <1>3 DEF MutexHeld, Records, ClientReceivesEnd, ClientAt, ClientGoes
  <2>2. OpenIsRecorded'
    BY <1>3 DEF OpenIsRecorded, Records, MutexHeld, ClientReceivesEnd, ClientAt, ClientGoes
  <2>3. RecordedIsOwn'
    BY <1>3 DEF RecordedIsOwn, Records, MutexHeld, ClientReceivesEnd, ClientAt, ClientGoes
  <2>4. Undisturbed'
    BY <1>3 DEF Undisturbed, Records, ClientReceivesEnd, ClientAt, ClientGoes
  <2> QED
    BY <2>1, <2>2, <2>3, <2>4 DEF Owned
<1>4. CASE ClientLocks(c)
  <2>1. MutexHeld' /\ Records'
    BY <1>4 DEF MutexHeld, Records, ClientLocks, ClientAt, ClientGoes, LowestFree
  <2>2. OpenIsRecorded'
    BY <1>4 DEF OpenIsRecorded, Records, MutexHeld, ClientLocks, ClientAt, ClientGoes, LowestFree
  <2>3. RecordedIsOwn'
    <3>1. CASE log_file' = NULL /\ UNCHANGED file
      BY <1>4, <3>1 DEF RecordedIsOwn, ClientLocks
    <3>2. ASSUME NEW f \in Fd, file[f] = "free", log_file' = f,
                 file' = [file EXCEPT ![f] = "log"]
          PROVE  RecordedIsOwn'
      <4>1. file'[f] = "log" /\ \A g \in Fd : g # f => file'[g] = file[g]
        BY <3>2
      <4>2. /\ \A c1 \in Client : file[f] # c1
            /\ "log" \notin Client
        BY <3>2
      <4>3. ~Forgetting /\ server_sock_fd # -1 /\ AtMostOneSignal => server_sock_fd # f
        BY <3>2 DEF RecordedIsOwn
      <4>4. UNCHANGED <<spc, thread_list, client_sock_fd, mpc, accepted, accepted_sock_fd,
                        server_sock_fd, listening>>
        BY <1>4 DEF ClientLocks
      <4> QED
        BY <3>2, <4>1, <4>2, <4>3, <4>4 DEF RecordedIsOwn, Records
    <3> QED
      BY <1>4, <3>1, <3>2 DEF ClientLocks, LowestFree
  <2>4. Undisturbed'
    BY <1>4 DEF Undisturbed, Records, ClientLocks, ClientAt, ClientGoes, LowestFree
  <2> QED
    BY <2>1, <2>2, <2>3, <2>4 DEF Owned
<1>5. CASE ClientProcesses(c)
  <2>1. MutexHeld' /\ Records'
    BY <1>5 DEF MutexHeld, Records, ClientProcesses, ClientAt, ClientGoes, Closed
  <2>2. OpenIsRecorded'
    BY <1>5 DEF OpenIsRecorded, Records, MutexHeld, ClientProcesses, ClientAt, ClientGoes, Closed
  <2>3. RecordedIsOwn'
    BY <1>5 DEF RecordedIsOwn, Records, MutexHeld, ClientProcesses, ClientAt, ClientGoes, Closed
  <2>4. Undisturbed'
    BY <1>5 DEF Undisturbed, Records, ClientProcesses, ClientAt, ClientGoes, Closed
  <2> QED
    BY <2>1, <2>2, <2>3, <2>4 DEF Owned
<1>6. CASE ClientCrashes(c)
  <2>1. MutexHeld' /\ Records'
    BY <1>6 DEF MutexHeld, Records, ClientCrashes, ClientAt
  <2>2. OpenIsRecorded'
    BY <1>6 DEF OpenIsRecorded, Records, MutexHeld, ClientCrashes, ClientAt
  <2>3. RecordedIsOwn'
    BY <1>6 DEF RecordedIsOwn, Records, MutexHeld, ClientCrashes, ClientAt
  <2>4. Undisturbed'
    BY <1>6 DEF Undisturbed, Records, ClientCrashes, ClientAt
  <2> QED
    BY <2>1, <2>2, <2>3, <2>4 DEF Owned
<1>7. CASE ClientChecks(c)
  <2>1. MutexHeld' /\ Records'
    BY <1>7 DEF MutexHeld, Records, ClientChecks, ClientAt, ClientGoes
  <2>2. OpenIsRecorded'
    BY <1>7 DEF OpenIsRecorded, Records, MutexHeld, ClientChecks, ClientAt, ClientGoes
  <2>3. RecordedIsOwn'
    BY <1>7 DEF RecordedIsOwn, Records, MutexHeld, ClientChecks, ClientAt, ClientGoes
  <2>4. Undisturbed'
    BY <1>7 DEF Undisturbed, Records, ClientChecks, ClientAt, ClientGoes
  <2> QED
    BY <2>1, <2>2, <2>3, <2>4 DEF Owned
<1>8. CASE ClientEnds(c)
  <2>1. MutexHeld' /\ Records'
    BY <1>8 DEF MutexHeld, Records, ClientEnds, ClientAt, ClientGoes, close_socket, ShutConn, Closed, WakeJoiner
  <2>2. OpenIsRecorded'
    BY <1>8 DEF OpenIsRecorded, Records, MutexHeld, ClientEnds, ClientAt, ClientGoes, close_socket, ShutConn, Closed, WakeJoiner
  <2>3. RecordedIsOwn'
    BY <1>8 DEF RecordedIsOwn, Records, MutexHeld, ClientEnds, ClientAt, ClientGoes, close_socket, ShutConn, Closed, WakeJoiner
  <2>4. Undisturbed'
    BY <1>8 DEF Undisturbed, Records, ClientEnds, ClientAt, ClientGoes, close_socket, ShutConn, Closed, WakeJoiner
  <2> QED
    BY <2>1, <2>2, <2>3, <2>4 DEF Owned
<1>9. CASE ClientExits(c)
  <2>1. MutexHeld' /\ Records'
    BY <1>9 DEF MutexHeld, Records, ClientExits, ClientAt, ClientGoes
  <2>2. OpenIsRecorded'
    BY <1>9 DEF OpenIsRecorded, Records, MutexHeld, ClientExits, ClientAt, ClientGoes
  <2>3. RecordedIsOwn'
    BY <1>9 DEF RecordedIsOwn, Records, MutexHeld, ClientExits, ClientAt, ClientGoes
  <2>4. Undisturbed'
    BY <1>9 DEF Undisturbed, Records, ClientExits, ClientAt, ClientGoes
  <2> QED
    BY <2>1, <2>2, <2>3, <2>4 DEF Owned
<1>10. CASE PeerCloses(c)
  <2>1. MutexHeld' /\ Records'
    BY <1>10 DEF MutexHeld, Records, PeerCloses
  <2>2. OpenIsRecorded'
    BY <1>10 DEF OpenIsRecorded, Records, MutexHeld, PeerCloses
  <2>3. RecordedIsOwn'
    BY <1>10 DEF RecordedIsOwn, Records, MutexHeld, PeerCloses
  <2>4. Undisturbed'
    BY <1>10 DEF Undisturbed, Records, PeerCloses
  <2> QED
    BY <2>1, <2>2, <2>3, <2>4 DEF Owned
<1> QED
  BY <1>1, <1>2, <1>3, <1>4, <1>5, <1>6, <1>7, <1>8, <1>9, <1>10
-----------------------------------------------------------------------------
(* The steps of the joiner.                                                *)
LEMMA JoinerOwned ==
  ASSUME DInv,
         \/ JoinerChecks \/ JoinerWakesUnasked \/ JoinerJoins \/ JoinerSweeps
         \/ JoinerHasSwept \/ JoinerChecksLast
  PROVE  Owned'
<1> USE DEF DInv, Inv, TypeOK, NodesOutliveThreads, Bookkeeping
<1>1. CASE JoinerChecks
  <2>1. MutexHeld' /\ Records'
    BY <1>1 DEF MutexHeld, Records, JoinerChecks, JoinerAt
  <2>2. OpenIsRecorded'
    BY <1>1 DEF OpenIsRecorded, Records, MutexHeld, JoinerChecks, JoinerAt
  <2>3. RecordedIsOwn'
    BY <1>1 DEF RecordedIsOwn, Records, MutexHeld, JoinerChecks, JoinerAt
  <2>4. Undisturbed'
    BY <1>1 DEF Undisturbed, Records, JoinerChecks, JoinerAt
  <2> QED
    BY <2>1, <2>2, <2>3, <2>4 DEF Owned
<1>2. CASE JoinerWakesUnasked
  <2>1. MutexHeld' /\ Records'
    BY <1>2 DEF MutexHeld, Records, JoinerWakesUnasked, JoinerAt, WakeJoiner
  <2>2. OpenIsRecorded'
    BY <1>2 DEF OpenIsRecorded, Records, MutexHeld, JoinerWakesUnasked, JoinerAt, WakeJoiner
  <2>3. RecordedIsOwn'
    BY <1>2 DEF RecordedIsOwn, Records, MutexHeld, JoinerWakesUnasked, JoinerAt, WakeJoiner
  <2>4. Undisturbed'
    BY <1>2 DEF Undisturbed, Records, JoinerWakesUnasked, JoinerAt, WakeJoiner
  <2> QED
    BY <2>1, <2>2, <2>3, <2>4 DEF Owned
<1>3. CASE JoinerJoins
  <2>1. MutexHeld' /\ Records'
    BY <1>3 DEF MutexHeld, Records, JoinerJoins, JoinerAt
  <2>2. OpenIsRecorded'
    BY <1>3 DEF OpenIsRecorded, Records, MutexHeld, JoinerJoins, JoinerAt
  <2>3. RecordedIsOwn'
    BY <1>3 DEF RecordedIsOwn, Records, MutexHeld, JoinerJoins, JoinerAt
  <2>4. Undisturbed'
    BY <1>3 DEF Undisturbed, Records, JoinerJoins, JoinerAt
  <2> QED
    BY <2>1, <2>2, <2>3, <2>4 DEF Owned
<1>4. CASE JoinerSweeps
  <2>1. MutexHeld' /\ Records'
    BY <1>4 DEF MutexHeld, Records, JoinerSweeps, JoinerAt, close_socket, ShutConn, Closed
  <2>2. OpenIsRecorded'
    BY <1>4 DEF OpenIsRecorded, Records, MutexHeld, JoinerSweeps, JoinerAt, close_socket, ShutConn, Closed
  <2>3. RecordedIsOwn'
    BY <1>4 DEF RecordedIsOwn, Records, MutexHeld, JoinerSweeps, JoinerAt, close_socket, ShutConn, Closed
  <2>4. Undisturbed'
    BY <1>4 DEF Undisturbed, Records, JoinerSweeps, JoinerAt, close_socket, ShutConn, Closed
  <2> QED
    BY <2>1, <2>2, <2>3, <2>4 DEF Owned
<1>5. CASE JoinerHasSwept
  <2>1. MutexHeld' /\ Records'
    BY <1>5 DEF MutexHeld, Records, JoinerHasSwept, JoinerAt
  <2>2. OpenIsRecorded'
    BY <1>5 DEF OpenIsRecorded, Records, MutexHeld, JoinerHasSwept, JoinerAt
  <2>3. RecordedIsOwn'
    BY <1>5 DEF RecordedIsOwn, Records, MutexHeld, JoinerHasSwept, JoinerAt
  <2>4. Undisturbed'
    BY <1>5 DEF Undisturbed, Records, JoinerHasSwept, JoinerAt
  <2> QED
    BY <2>1, <2>2, <2>3, <2>4 DEF Owned
<1>6. CASE JoinerChecksLast
  <2>1. MutexHeld' /\ Records'
    BY <1>6 DEF MutexHeld, Records, JoinerChecksLast, JoinerAt
  <2>2. OpenIsRecorded'
    BY <1>6 DEF OpenIsRecorded, Records, MutexHeld, JoinerChecksLast, JoinerAt
  <2>3. RecordedIsOwn'
    BY <1>6 DEF RecordedIsOwn, Records, MutexHeld, JoinerChecksLast, JoinerAt
  <2>4. Undisturbed'
    BY <1>6 DEF Undisturbed, Records, JoinerChecksLast, JoinerAt
  <2> QED
    BY <2>1, <2>2, <2>3, <2>4 DEF Owned
<1> QED
  BY <1>1, <1>2, <1>3, <1>4, <1>5, <1>6
-----------------------------------------------------------------------------
(* The steps of a signal handler.                                          *)
LEMMA HandlerOwned ==
  ASSUME DInv, NEW s \in Signal,
         \/ HandlerEnters(s) \/ HandlerTests(s) \/ HandlerCloses(s)
         \/ HandlerForgets(s)
  PROVE  Owned'
<1> USE DEF DInv, Inv, TypeOK, NodesOutliveThreads, Bookkeeping
<1>1. CASE HandlerEnters(s)
  <2>1. MutexHeld' /\ Records'
    BY <1>1 DEF MutexHeld, Records, HandlerEnters
  <2>2. OpenIsRecorded'
    BY <1>1 DEF OpenIsRecorded, Records, MutexHeld, HandlerEnters
  <2>3. RecordedIsOwn'
    BY <1>1 DEF RecordedIsOwn, Records, MutexHeld, HandlerEnters
  <2>4. Undisturbed'
    BY <1>1 DEF Undisturbed, Records, HandlerEnters
  <2> QED
    BY <2>1, <2>2, <2>3, <2>4 DEF Owned
<1>2. CASE HandlerTests(s)
  <2>1. MutexHeld' /\ Records'
    BY <1>2 DEF MutexHeld, Records, HandlerTests, HandlerReturns, ShutConn, IsListener
  <2>2. OpenIsRecorded'
    BY <1>2 DEF OpenIsRecorded, Records, MutexHeld, HandlerTests, HandlerReturns, ShutConn, IsListener
  <2>3. RecordedIsOwn'
    <3>1. \A t \in Signal : t # s => spc'[t] = spc[t]
      BY <1>2 DEF HandlerTests, HandlerReturns
    <3>2. spc[s] = "entered" /\ spc'[s] \in {"close", "done"}
      BY <1>2 DEF HandlerTests, HandlerReturns
    <3>3. AtMostOneSignal' => AtMostOneSignal
      BY <3>1, <3>2
    <3>4. Forgetting' <=> Forgetting
      BY <3>1, <3>2
    <3>5. AtMostOneSignal' /\ Closing' => ~listening'
      <4>1. CASE server_sock_fd = -1
        <5>1. spc'[s] = "done"
          BY <1>2, <4>1 DEF HandlerTests, HandlerReturns
        <5>2. ASSUME AtMostOneSignal' PROVE ~Closing'
          <6>1. \A t \in Signal : t # s => spc'[t] = "pending"
            BY <5>1, <5>2
          <6> QED
            BY <5>1, <6>1
        <5> QED
          BY <5>2
      <4>2. CASE server_sock_fd # -1
        <5>1. ASSUME AtMostOneSignal' PROVE IsListener(server_sock_fd)
          <6>1. ~Forgetting
            BY <3>2, <3>3, <5>1
          <6> QED
            BY <3>3, <4>2, <5>1, <6>1 DEF RecordedIsOwn, IsListener
        <5> QED
          BY <1>2, <5>1 DEF HandlerTests
      <4> QED
        BY <4>1, <4>2
    <3>6. UNCHANGED <<thread_list, client_sock_fd, file, mpc, accepted, accepted_sock_fd,
                      log_file, server_sock_fd>>
      BY <1>2 DEF HandlerTests
    <3> HIDE DEF Closing, Forgetting, AtMostOneSignal
    <3> QED
      BY <3>3, <3>4, <3>5, <3>6 DEF RecordedIsOwn
  <2>4. Undisturbed'
    BY <1>2 DEF Undisturbed, Records, HandlerTests, HandlerReturns, ShutConn, IsListener
  <2> QED
    BY <2>1, <2>2, <2>3, <2>4 DEF Owned
<1>3. CASE HandlerCloses(s)
  <2>1. MutexHeld' /\ Records'
    BY <1>3 DEF MutexHeld, Records, HandlerCloses, Closed
  <2>2. OpenIsRecorded'
    BY <1>3 DEF OpenIsRecorded, Records, MutexHeld, HandlerCloses, Closed
  <2>3. RecordedIsOwn'
    BY <1>3 DEF RecordedIsOwn, Records, MutexHeld, HandlerCloses, Closed
  <2>4. Undisturbed'
    BY <1>3 DEF Undisturbed, Records, HandlerCloses, Closed
  <2> QED
    BY <2>1, <2>2, <2>3, <2>4 DEF Owned
<1>4. CASE HandlerForgets(s)
  <2>1. MutexHeld' /\ Records'
    BY <1>4 DEF MutexHeld, Records, HandlerForgets, HandlerReturns
  <2>2. OpenIsRecorded'
    BY <1>4 DEF OpenIsRecorded, Records, MutexHeld, HandlerForgets, HandlerReturns
  <2>3. RecordedIsOwn'
    BY <1>4 DEF RecordedIsOwn, Records, MutexHeld, HandlerForgets, HandlerReturns
  <2>4. Undisturbed'
    BY <1>4 DEF Undisturbed, Records, HandlerForgets, HandlerReturns
  <2> QED
    BY <2>1, <2>2, <2>3, <2>4 DEF Owned
<1> QED
  BY <1>1, <1>2, <1>3, <1>4
-----------------------------------------------------------------------------
LEMMA NextOwned == DInv /\ [Next]_vars => DInv'
<1> SUFFICES ASSUME DInv, [Next]_vars PROVE DInv'
  OBVIOUS
<1>1. Inv'
  BY StepInv DEF DInv
<1>2. CASE UNCHANGED vars
  <2>1. MutexHeld' /\ Records' /\ Undisturbed'
    BY <1>2 DEF vars, DInv, MutexHeld, Records, Undisturbed
  <2>2. OpenIsRecorded' /\ RecordedIsOwn'
    BY <1>2 DEF vars, DInv, OpenIsRecorded, RecordedIsOwn
  <2> QED
    BY <2>1, <2>2, <1>1 DEF DInv
<1>3. CASE MainStep \/ MainAccepts \/ MainAcceptFails
  BY <1>1, <1>3, MainOwned DEF MainStep, Owned, DInv
<1>4. CASE \E c \in Client :
             ClientStep(c) \/ ClientReceives(c) \/ ClientProcesses(c) \/ PeerCloses(c)
  BY <1>1, <1>4, ClientOwned DEF ClientStep, Owned, DInv
<1>5. CASE JoinerStep \/ JoinerWakesUnasked
  BY <1>1, <1>5, JoinerOwned DEF JoinerStep, Owned, DInv
<1>6. CASE \E s \in Signal : HandlerEnters(s) \/ HandlerStep(s)
  BY <1>1, <1>6, HandlerOwned DEF HandlerStep, Owned, DInv
<1> QED
  BY <1>2, <1>3, <1>4, <1>5, <1>6 DEF Next, Over

LEMMA DInvAlways == Spec => []DInv
BY InitDInv, NextOwned, PTL DEF Spec

(* No thread shuts down somebody else's socket, until a second signal      *)
(* comes (aesdsocket_threads.c:90-101, aesdsocket_client.c:389-396).       *)
THEOREM DescriptorsOwnedAlways == Spec => []DescriptorsOwned
<1>1. DInv => DescriptorsOwned
  BY DEF DInv, RecordedIsOwn, DescriptorsOwned
<1> QED
  BY <1>1, DInvAlways, PTL

(* A client thread receives and sends on its own connection while the      *)
(* server runs (aesdsocket_client.c:311-399).                              *)
THEOREM SocketPrivateAlways == Spec => []SocketPrivate
<1>1. DInv => SocketPrivate
  <2> SUFFICES ASSUME DInv, process_running, NEW c \in Client,
                      cpc[c] \in {"recv", "lock", "io", "check"}
               PROVE  IsConn(sock_fd[c]) /\ file[sock_fd[c]] = c
    BY DEF SocketPrivate
  <2>1. sock_fd[c] = client_sock_fd[c] /\ client_sock_fd[c] # -1
    BY DEF DInv, Undisturbed
  <2>2. AtMostOneSignal
    BY DEF DInv, Undisturbed
  <2>3. c \in thread_list
    BY DEF DInv, Inv, NodesOutliveThreads
  <2>4. file[client_sock_fd[c]] = c
    BY <2>1, <2>2, <2>3 DEF DInv, RecordedIsOwn
  <2>5. sock_fd[c] \in Fd
    BY <2>1 DEF DInv, Inv, TypeOK
  <2> QED
    BY <2>1, <2>4, <2>5 DEF IsConn
<1> QED
  BY <1>1, DInvAlways, PTL

(* The thread that processes a packet has the log to itself                *)
(* (aesdsocket_client.c:242, 273-283).                                     *)
THEOREM LogStreamIntactAlways == Spec => []LogStreamIntact
<1>1. DInv => LogStreamIntact
  BY DEF DInv, MutexHeld, RecordedIsOwn, LogStreamIntact
<1> QED
  BY <1>1, DInvAlways, PTL

(* No descriptor is leaked, whatever fails and however many signals come   *)
(* (aesdsocket.c:276-307).                                                 *)
THEOREM NothingLeftOpenAlways == Spec => []NothingLeftOpen
<1>1. DInv => NothingLeftOpen
  <2> SUFFICES ASSUME DInv, mpc = "exited", NEW f \in Fd,
                      \A c \in Client : cpc[c] \in {"none", "exited"}
               PROVE  file[f] = "free"
    BY DEF NothingLeftOpen
  <2>1. file[f] # "listen"
    BY DEF DInv, OpenIsRecorded, Records
  <2>2. file[f] # "log"
    <3>1. log_file = NULL
      BY DEF DInv, Inv, TypeOK, MutexHeld
    <3> QED
      BY <3>1 DEF DInv, OpenIsRecorded
  <2>3. ASSUME NEW c \in Client PROVE file[f] # c
    <3>1. ~(accepted = c)
      BY DEF DInv, Records
    <3>2. ~(c \in thread_list /\ client_sock_fd[c] = f)
      BY DEF DInv, Inv, NodesOutliveThreads, Bookkeeping, Records
    <3> QED
      BY <3>1, <3>2 DEF DInv, OpenIsRecorded
  <2> QED
    BY <2>1, <2>2, <2>3 DEF DInv, Inv, TypeOK
<1> QED
  BY <1>1, DInvAlways, PTL
-----------------------------------------------------------------------------
(* A stop is reported as success, given numbers enough: one for every      *)
(* client, for the listener and for the log, and one more.  accept() fails *)
(* without one even before a client has come.                              *)
EnoughDescriptors ==
  /\ IsFiniteSet(Client) /\ IsFiniteSet(Fd)
  /\ Cardinality(Fd) > Cardinality(Client) + 2

LEMMA OneToOne ==
  ASSUME NEW S, NEW T, IsFiniteSet(S), IsFiniteSet(T), Cardinality(T) < Cardinality(S),
         NEW f \in [S -> T], \A x, y \in S : f[x] = f[y] => x = y
  PROVE  FALSE
BY FS_PigeonHole

(* A number is in use for one thing only, so one of them is free.          *)
LEMMA OneIsFree ==
  ASSUME EnoughDescriptors, DInv, accepted = NULL
  PROVE  ~NoneFree
<1> DEFINE Uses == (Client \cup {"listen"}) \cup {"log"}
<1>1. IsFiniteSet(Uses) /\ Cardinality(Uses) <= Cardinality(Client) + 2
  <2>1. IsFiniteSet(Client) /\ Cardinality(Client) \in Nat
    BY FS_CardinalityType DEF EnoughDescriptors
  <2> DEFINE Most == Client \cup {"listen"}
  <2>2. /\ IsFiniteSet(Most)
        /\ Cardinality(Most) = Cardinality(Client) \/ Cardinality(Most) = Cardinality(Client) + 1
    BY <2>1, FS_AddElement
  <2> HIDE DEF Most
  <2>3. /\ IsFiniteSet(Most \cup {"log"})
        /\ \/ Cardinality(Most \cup {"log"}) = Cardinality(Most)
           \/ Cardinality(Most \cup {"log"}) = Cardinality(Most) + 1
    BY <2>2, FS_AddElement
  <2>4. Cardinality(Most \cup {"log"}) <= Cardinality(Client) + 2
    BY <2>1, <2>2, <2>3
  <2> QED
    BY <2>3, <2>4 DEF Most
<1>2. ASSUME NoneFree PROVE FALSE
  <2>1. file \in [Fd -> Uses]
    BY <1>2 DEF NoneFree, DInv, Inv, TypeOK
  <2>2. ASSUME NEW f \in Fd, NEW g \in Fd, file[f] = file[g] PROVE f = g
    <3>1. file[f] \in Uses
      BY <2>1
    <3>2. CASE file[f] \in Client
      <4>1. client_sock_fd[file[f]] = f /\ client_sock_fd[file[g]] = g
        BY <2>2, <3>2 DEF DInv, OpenIsRecorded
      <4> QED
        BY <2>2, <4>1
    <3>3. CASE file[f] \in {"listen", "log"}
      BY <2>2, <3>3 DEF DInv, OpenIsRecorded
    <3> QED
      BY <3>1, <3>2, <3>3
  <2>3. IsFiniteSet(Fd) /\ Cardinality(Uses) < Cardinality(Fd)
    <3>1. /\ Cardinality(Fd) \in Nat /\ Cardinality(Client) \in Nat
          /\ Cardinality(Uses) \in Nat
      BY <1>1, FS_CardinalityType DEF EnoughDescriptors
    <3> HIDE DEF Uses
    <3> QED
      BY <1>1, <3>1 DEF EnoughDescriptors
  <2> HIDE DEF Uses
  <2>4. IsFiniteSet(Uses)
    BY <1>1
  <2>5. Cardinality(Uses) < Cardinality(Fd) /\ IsFiniteSet(Fd)
    BY <2>3
  <2>6. \A f, g \in Fd : file[f] = file[g] => f = g
    BY <2>2
  <2> QED
    BY ONLY <2>1, <2>4, <2>5, <2>6, OneToOne
<1> QED
  BY <1>2

(* As long as the server has not been told to stop it listens, so that     *)
(* accept() has no reason of its own to fail.                              *)
Listens ==
  /\ process_running => listening
  /\ Failures = {} => ret_val = "success"

LEMMA StepListens ==
  ASSUME EnoughDescriptors, DInv, Listens, [Next]_vars
  PROVE  Listens'
<1> USE DEF Listens
<1>1. CASE MainAcceptFails
  <2>1. accepted = NULL
    BY <1>1 DEF MainAcceptFails, MainAt, DInv, Records, Inv, TypeOK
  <2>2. ~NoneFree
    BY <2>1, OneIsFree
  <2> QED
    BY <1>1, <2>2 DEF MainAcceptFails
<1>2. CASE MainSetup \/ MainCannotCreate \/ MainStops
  BY <1>2 DEF MainSetup, MainCannotCreate, MainStops
<1>3. CASE MainFrees
  <2>1. ~process_running
    BY <1>3 DEF MainFrees, MainAt, DInv, Inv, Bookkeeping
  <2> QED
    BY <1>3, <2>1 DEF MainFrees
<1>4. ASSUME NEW s \in Signal, HandlerEnters(s) \/ HandlerStep(s)
      PROVE  Listens'
  <2>1. CASE HandlerEnters(s)
    BY <2>1 DEF HandlerEnters
  <2>2. CASE HandlerStep(s)
    <3>1. spc[s] # "pending"
      BY <2>2 DEF HandlerStep, HandlerTests, HandlerCloses, HandlerForgets
    <3>2. ~process_running
      BY <3>1 DEF DInv, Undisturbed
    <3> QED
      BY <2>2, <3>2 DEF HandlerStep, HandlerTests, HandlerCloses, HandlerForgets
  <2> QED
    BY <1>4, <2>1, <2>2
<1>5. CASE UNCHANGED <<process_running, listening, ret_val>>
  BY <1>5
<1>6. CASE \/ MainLoop \/ MainAccepts \/ MainCreates \/ MainAbandons \/ MainWakes
           \/ MainJoins \/ MainExits
  <2>1. UNCHANGED <<process_running, listening, ret_val>>
    BY <1>6 DEF MainLoop, MainAccepts, MainCreates, MainAbandons, MainWakes, MainJoins,
      MainExits, MainForgetsConnection
  <2> QED
    BY <1>5, <2>1
<1>7. ASSUME NEW c \in Client,
             ClientStep(c) \/ ClientReceives(c) \/ ClientProcesses(c) \/ PeerCloses(c)
      PROVE  Listens'
  <2>1. UNCHANGED <<process_running, listening, ret_val>>
    BY <1>7 DEF ClientStep, ClientStarts, ClientReceives, ClientReceivesEnd, ClientLocks,
      ClientProcesses, ClientCrashes, ClientChecks, ClientEnds, ClientExits, PeerCloses
  <2> QED
    BY <1>5, <2>1
<1>8. CASE JoinerStep \/ JoinerWakesUnasked
  <2>1. UNCHANGED <<process_running, listening, ret_val>>
    BY <1>8 DEF JoinerStep, JoinerChecks, JoinerJoins, JoinerSweeps, JoinerHasSwept,
      JoinerChecksLast, JoinerWakesUnasked
  <2> QED
    BY <1>5, <2>1
<1>9. CASE UNCHANGED vars
  BY <1>5, <1>9 DEF vars
<1> QED
  BY <1>1, <1>2, <1>3, <1>4, <1>6, <1>7, <1>8, <1>9 DEF Next, MainStep, Over

(* When no call fails for want of resources the server reports success,    *)
(* for any number of clients that fit its descriptors, and however and     *)
(* whenever it is signalled (aesdsocket.c:130-164).                        *)
THEOREM CleanStopAlways ==
  ASSUME EnoughDescriptors
  PROVE  Spec => []CleanStop
<1>1. Init => Listens
  BY DEF Init, Listens
<1>2. DInv /\ Listens /\ [Next]_vars => Listens'
  BY StepListens
<1>3. Listens => CleanStop
  BY DEF Listens, CleanStop
<1> QED
  BY <1>1, <1>2, <1>3, DInvAlways, PTL DEF Spec
=============================================================================
