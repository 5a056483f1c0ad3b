------------------------- MODULE RedisWorkerProofs -------------------------
(***************************************************************************)
(* The worker loop, for any threads, limits, messages and outages: how     *)
(* far fail_time gets, and that an idle list ends no thread.               *)
(***************************************************************************)
EXTENDS RedisWorker, TLAPS

(* A list holds what was pushed, at most.                                  *)
Pushed == list <= pushed

(* A connection that is lost, or that was refused, was so by an outage.    *)
OutageSeen ==
    /\ server = "down" => outages > 0
    /\ \A w \in Workers :
          /\ place[w] \in {"loop", "ping"} /\ ~alive[w] => outages > 0
          /\ place[w] = "connect" => outages > 0 /\ ~alive[w]

(* Each failed poll past MaxFails needs an outage of its own: a worker     *)
(* whose connection is lost is one behind, one that is about to be         *)
(* answered by "PONG" may be one ahead.                                    *)
FailsPaid ==
    \A w \in Workers :
        /\ fail_time[w] <= MaxFails + outages + 1
        /\ ~(place[w] = "ping" /\ alive[w]) => fail_time[w] <= MaxFails + outages
        /\ place[w] = "loop" /\ ~alive[w] => fail_time[w] < MaxFails + outages

WorkerInv == TypeOK /\ Pushed /\ OutageSeen /\ FailsPaid /\ IdleWorkersStay

LEMMA WorkerInit == Init => WorkerInv
  BY WorkerAssumption
     DEF Init, WorkerInv, TypeOK, Pushed, OutageSeen, FailsPaid, IdleWorkersStay, Gone

LEMMA ConnectStep ==
  ASSUME WorkerInv, NEW w \in Workers, Connect(w)
  PROVE  WorkerInv'
  <1>1. TypeOK'
    BY DEF WorkerInv, TypeOK, Connect, Goto
  <1>2. (Pushed /\ OutageSeen /\ FailsPaid /\ IdleWorkersStay)'
    BY WorkerAssumption
       DEF WorkerInv, TypeOK, Connect, Goto, Pushed, OutageSeen, FailsPaid,
           IdleWorkersStay, Gone
  <1> QED BY <1>1, <1>2 DEF WorkerInv

LEMMA DequeueStep ==
  ASSUME WorkerInv, NEW w \in Workers, Dequeue(w)
  PROVE  WorkerInv'
  <1>1. TypeOK'
    BY WorkerAssumption DEF WorkerInv, TypeOK, Dequeue, CanPoll, SleepLess
  <1>2. (Pushed /\ OutageSeen /\ FailsPaid /\ IdleWorkersStay)'
    BY WorkerAssumption
       DEF WorkerInv, TypeOK, Dequeue, CanPoll, Pushed, OutageSeen, FailsPaid,
           IdleWorkersStay, Gone
  <1> QED BY <1>1, <1>2 DEF WorkerInv

LEMMA PollStep ==
  ASSUME WorkerInv, NEW w \in Workers, Poll(w)
  PROVE  WorkerInv'
  <1>1. TypeOK'
    BY WorkerAssumption
       DEF WorkerInv, TypeOK, FailsPaid, Poll, CanPoll, SleepLonger, Goto
  <1>2. (Pushed /\ OutageSeen /\ FailsPaid /\ IdleWorkersStay)'
    BY WorkerAssumption
       DEF WorkerInv, TypeOK, Poll, CanPoll, Goto, Pushed, OutageSeen, FailsPaid,
           IdleWorkersStay, Gone
  <1> QED BY <1>1, <1>2 DEF WorkerInv

LEMMA PingStep ==
  ASSUME WorkerInv, NEW w \in Workers, Ping(w)
  PROVE  WorkerInv'
  <1>1. TypeOK'
    BY WorkerAssumption DEF WorkerInv, TypeOK, Ping, SleepLonger, Goto
  <1>2. (Pushed /\ OutageSeen /\ FailsPaid /\ IdleWorkersStay)'
    BY WorkerAssumption
       DEF WorkerInv, TypeOK, Ping, Goto, Pushed, OutageSeen, FailsPaid,
           IdleWorkersStay, Gone
  <1> QED BY <1>1, <1>2 DEF WorkerInv

LEMMA ReconnectStep ==
  ASSUME WorkerInv, NEW w \in Workers, Reconnect(w)
  PROVE  WorkerInv'
  <1>1. TypeOK'
    <2>1. CASE server = "up"
      <3>1. sleep_time' \in [Workers -> 0..MaxSleep]
        BY <2>1, WorkerAssumption DEF WorkerInv, TypeOK, Reconnect, SleepLonger
      <3>2. alive' \in [Workers -> BOOLEAN]
        BY <2>1, Zenon DEF WorkerInv, TypeOK, Reconnect
      <3> QED BY <2>1, <3>1, <3>2 DEF WorkerInv, TypeOK, Reconnect, Goto
    <2>2. CASE server = "down"
      BY <2>2 DEF WorkerInv, TypeOK, Reconnect, Goto
    <2> QED BY <2>1, <2>2 DEF WorkerInv, TypeOK
  <1>2. (Pushed /\ OutageSeen /\ FailsPaid /\ IdleWorkersStay)'
    BY WorkerAssumption
       DEF WorkerInv, TypeOK, Reconnect, Goto, Pushed, OutageSeen, FailsPaid,
           IdleWorkersStay, Gone
  <1> QED BY <1>1, <1>2 DEF WorkerInv

LEMMA ExitNormallyStep ==
  ASSUME WorkerInv, NEW w \in Workers, ExitNormally(w)
  PROVE  WorkerInv'
  BY WorkerAssumption
     DEF WorkerInv, TypeOK, ExitNormally, Goto, Pushed, OutageSeen, FailsPaid,
         IdleWorkersStay, Gone

(* What the threads do not do: a push, an outage and its end, a SIGTERM.   *)
LEMMA OutsideStep ==
  ASSUME WorkerInv, Enqueue \/ ServerDown \/ ServerUp \/ SignalStop
  PROVE  WorkerInv'
  <1>1. CASE Enqueue
    BY <1>1, WorkerAssumption
       DEF WorkerInv, TypeOK, Enqueue, workerVars, Pushed, OutageSeen, FailsPaid,
           IdleWorkersStay, Gone
  <1>2. CASE ServerDown
    <2>1. TypeOK'
      BY <1>2, WorkerAssumption DEF WorkerInv, TypeOK, ServerDown
    <2>2. (Pushed /\ OutageSeen /\ FailsPaid /\ IdleWorkersStay)'
      BY <1>2, WorkerAssumption
         DEF WorkerInv, TypeOK, ServerDown, Pushed, OutageSeen, FailsPaid,
             IdleWorkersStay, Gone
    <2> QED BY <2>1, <2>2 DEF WorkerInv
  <1>3. CASE ServerUp
    BY <1>3, WorkerAssumption
       DEF WorkerInv, TypeOK, ServerUp, workerVars, Pushed, OutageSeen, FailsPaid,
           IdleWorkersStay, Gone
  <1>4. CASE SignalStop
    BY <1>4, WorkerAssumption
       DEF WorkerInv, TypeOK, SignalStop, workerVars, Pushed, OutageSeen, FailsPaid,
           IdleWorkersStay, Gone
  <1> QED BY <1>1, <1>2, <1>3, <1>4

LEMMA WorkerStep == WorkerInv /\ [Next]_vars => WorkerInv'
  <1> SUFFICES ASSUME WorkerInv, [Next]_vars
               PROVE  WorkerInv'
    OBVIOUS
  <1>1. ASSUME NEW w \in Workers, Worker(w)
        PROVE  WorkerInv'
    BY <1>1, ConnectStep, DequeueStep, PollStep, PingStep, ReconnectStep, ExitNormallyStep
       DEF Worker
  <1>2. CASE UNCHANGED vars
    BY <1>2
       DEF vars, workerVars, WorkerInv, TypeOK, Pushed, OutageSeen, FailsPaid,
           IdleWorkersStay, Gone
  <1> QED BY <1>1, <1>2, OutsideStep DEF Next

LEMMA WorkerInvariant == Spec => []WorkerInv
  BY WorkerInit, WorkerStep, PTL DEF Spec

(* The type invariant: the sleep of a thread stays between nothing and     *)
(* MAX_SLEEP_TIME, and the count that only a "PONG" clears                 *)
(* (OrderHandler.cpp) cannot pass the threshold by more than the outages   *)
(* and one.                                                                *)
THEOREM WorkerTypeCorrect == Spec => []TypeOK
  BY WorkerInvariant, PTL DEF WorkerInv

(* However many polls find nothing, a thread leaves its loop after an      *)
(* outage of redis or a SIGTERM only (OrderHandler.cpp, the return after a *)
(* refused connect).                                                       *)
THEOREM IdleWorkersCorrect == Spec => []IdleWorkersStay
  BY WorkerInvariant, PTL DEF WorkerInv
=============================================================================
