------------------------ MODULE OrderPipelineProofs -------------------------
(***************************************************************************)
(* OrderPipeline, for any number of orders and threads and any faults:     *)
(* every variable keeps its type, an order is never in two places, and it  *)
(* is charged at most once.                                                *)
(***************************************************************************)
EXTENDS OrderPipeline, FiniteSetTheorems, TLAPS

(* An LPUSH leaves a list of messages.                                     *)
LEMMA AppendMessage ==
    ASSUME NEW s \in Seq(Message), NEW m \in Message
    PROVE  Append(s, m) \in Seq(Message)
  OBVIOUS

(* An RPOP returns a message and leaves a list of messages.                *)
LEMMA TailMessage ==
    ASSUME NEW s \in Seq(Message), s # <<>>
    PROVE  /\ Head(s) \in Message
           /\ Tail(s) \in Seq(Message)
  OBVIOUS

(* A message that ages, is queried, is written again or changes status is  *)
(* still a message.                                                        *)
LEMMA AgedMessage ==
    ASSUME NEW m \in Message
    PROVE  /\ Aged(m) \in Message
           /\ [m EXCEPT !.idle = Older(m.idle, QueryPause)] \in Message
           /\ [m EXCEPT !.idle = 0] \in Message
           /\ Serialized(m) \in Message
           /\ \A status \in OrderStatus : [m EXCEPT !.status = status] \in Message
  <1>1. /\ Older(m.created, TIMEOUT_TIME) \in 0..TIMEOUT_TIME
        /\ Older(m.idle, QueryPause) \in 0..QueryPause
    BY PipelineAssumption DEF Message, Older, QueryPause
  <1>2. Aged(m) \in Message
    BY <1>1 DEF Message, Aged
  <1>3. [m EXCEPT !.idle = Older(m.idle, QueryPause)] \in Message
    BY <1>1 DEF Message
  <1>4. [m EXCEPT !.idle = 0] \in Message
    BY DEF Message, QueryPause
  <1>5. Serialized(m) \in Message
    BY PipelineAssumption DEF Message, Serialized
  <1>6. \A status \in OrderStatus : [m EXCEPT !.status = status] \in Message
    BY DEF Message
  <1>7. QED
    BY <1>2, <1>3, <1>4, <1>5, <1>6

(* So is a list of messages that age.                                      *)
LEMMA AgedList ==
    ASSUME NEW s \in Seq(Message)
    PROVE  [i \in DOMAIN s |-> Aged(s[i])] \in Seq(Message)
  <1>1. \A i \in DOMAIN s : s[i] \in Message
    OBVIOUS
  <1>2. \A i \in DOMAIN s : Aged(s[i]) \in Message
    BY <1>1, AgedMessage
  <1>3. DOMAIN s = 1..Len(s) /\ Len(s) \in Nat
    OBVIOUS
  <1>4. QED
    BY <1>2, <1>3

(* A fault keeps its counter and its history in their types.               *)
LEMMA FaultType ==
    ASSUME TypeOK, NEW hit \in SUBSET Orders, NoFault \/ Fault(hit)
    PROVE  faults' \in 0..MaxFaults /\ faulted' \subseteq Orders
  BY PipelineAssumption DEF TypeOK, NoFault, Fault, faultVars

(* UpdateOrderStatus keeps the table in its type.                          *)
LEMMA UpdateType ==
    ASSUME TypeOK, NEW o \in Orders, NEW status, NEW notify \in Int,
           UpdateOrderStatus(o, status, notify)
    PROVE  row' \in [Orders -> [status : -1..2, notify : Int]]
  BY DEF TypeOK, UpdateOrderStatus, DbStatus

(* Push keeps the lists in their types.                                    *)
LEMMA PushType ==
    ASSUME TypeOK, NEW q \in Queues, NEW m \in Message, Push(q, m)
    PROVE  queue' \in [Queues -> Seq(Message)]
  BY AppendMessage DEF TypeOK, Push

(* So does Enqueue, with a lost request or a lost reply.                   *)
LEMMA EnqueueType ==
    ASSUME TypeOK, NEW q \in Queues, NEW m \in Message, Enqueue(q, m)
    PROVE  /\ queue' \in [Queues -> Seq(Message)]
           /\ faults' \in 0..MaxFaults /\ faulted' \subseteq Orders
  <1>1. m.order \in Orders /\ Serialized(m) \in Message
    BY AgedMessage DEF Message
  <1>2. CASE Push(q, Serialized(m)) /\ NoFault
    BY <1>1, <1>2, PushType DEF TypeOK, NoFault, faultVars
  <1>3. CASE UNCHANGED queue /\ Fault({m.order})
    BY <1>1, <1>3, FaultType DEF TypeOK
  <1>4. QED
    BY <1>2, <1>3 DEF Enqueue

(***************************************************************************)
(* The type invariant.  It is not inductive alone: a thread must hold a    *)
(* message wherever the code uses one.                                     *)
(***************************************************************************)

Busy == \A t \in Threads : pc[t] \notin {"loop", "exited"} => held[t] # NoMsg

TypeInv == TypeOK /\ Busy

(* The orders of held messages, and the messages, of a thread at work.     *)
LEMMA HeldType ==
    ASSUME TypeInv, NEW t \in Threads, pc[t] \notin {"loop", "exited"}
    PROVE  held[t] \in Message /\ held[t].order \in Orders
  BY DEF TypeInv, TypeOK, Busy, Message

(* The orders in the threads' hands are orders.                            *)
LEMMA HeldOrdersType == TypeOK => HeldOrders \subseteq Orders
  BY DEF TypeOK, HeldOrders, Message

(* The initial state has the types.                                        *)
LEMMA InitType == Init => TypeInv
  <1> SUFFICES ASSUME Init PROVE TypeInv
    OBVIOUS
  <1>1. row \in [Orders -> [status : -1..2, notify : Int]]
    BY DEF Init, NoRow, NOTIFY_UNDONE
  <1>2. queue \in [Queues -> Seq(Message)]
    BY DEF Init
  <1>3. tries \in [NotifyThreads -> 0..NotifyRetries]
    BY PipelineAssumption DEF Init
  <1>4. QED
    BY <1>1, <1>2, <1>3, PipelineAssumption
       DEF Init, TypeInv, TypeOK, Busy, IntakeStates, ThreadStates, NotifyStatus, NOTIFY_UNDONE,
           NOTIFY_SUCCESS, NOTIFY_FAIL

LEMMA GotoType ==
    ASSUME TypeInv, NEW t \in Threads, NEW state \in ThreadStates, Goto(t, state)
    PROVE  pc' \in [Threads -> ThreadStates]
  BY DEF TypeInv, TypeOK, Goto

(* A thread that lets its message go keeps the invariant.                  *)
LEMMA ReleaseType ==
    ASSUME TypeInv, NEW t \in Threads, Release(t)
    PROVE  /\ pc' \in [Threads -> ThreadStates]
           /\ held' \in [Threads -> Message \cup {NoMsg}]
           /\ Busy'
  BY DEF TypeInv, TypeOK, Release, Busy, ThreadStates

(* A thread that takes a message keeps the invariant.                      *)
LEMMA TakeType ==
    ASSUME TypeInv, NEW t \in Threads, NEW q \in Queues, NEW m \in Message,
           NEW state \in ThreadStates, queue[q] # <<>>, Take(t, q, m, state)
    PROVE  /\ queue' \in [Queues -> Seq(Message)]
           /\ pc' \in [Threads -> ThreadStates]
           /\ held' \in [Threads -> Message \cup {NoMsg}]
           /\ Busy'
  <1>1. queue' \in [Queues -> Seq(Message)]
    BY TailMessage DEF TypeInv, TypeOK, Take
  <1>2. m # NoMsg
    BY PipelineAssumption
  <1>3. QED
    BY <1>1, <1>2 DEF TypeInv, TypeOK, Take, Goto, Busy

(* The charge thread's update and notification keep the invariant.         *)
LEMMA SettleType ==
    ASSUME TypeInv, NEW t \in Threads, pc[t] \notin {"loop", "exited"},
           NEW status \in OrderStatus, NEW notifies \in SUBSET Int,
           NEW state \in ThreadStates, Settle(t, status, notifies, state)
    PROVE  TypeInv'
  <1>1. held[t] \in Message /\ held[t].order \in Orders
    BY HeldType
  <1>2. row' \in [Orders -> [status : -1..2, notify : Int]]
    BY <1>1, UpdateType DEF Settle, UpdateFails, TypeInv, TypeOK
  <1>3. faults' \in 0..MaxFaults /\ faulted' \subseteq Orders
    BY <1>1, FaultType DEF Settle, UpdateFails, TypeInv
  <1>4. [held[t] EXCEPT !.status = status] \in Message
    BY <1>1, AgedMessage
  <1>5. /\ held' \in [Threads -> Message \cup {NoMsg}]
        /\ pc' \in [Threads -> ThreadStates]
        /\ Busy'
    BY <1>4, PipelineAssumption DEF Settle, Goto, TypeInv, TypeOK, Busy
  <1>6. QED
    BY <1>2, <1>3, <1>5 DEF Settle, TypeInv, TypeOK, processVars, postVars, buyerVars

(* A message that is sent on keeps the invariant.                          *)
LEMMA SendType ==
    ASSUME TypeInv, NEW t \in Threads, pc[t] \notin {"loop", "exited"},
           NEW q \in Queues, Send(t, q)
    PROVE  TypeInv'
  <1>1. held[t] \in Message
    BY HeldType
  <1>2. /\ queue' \in [Queues -> Seq(Message)]
        /\ faults' \in 0..MaxFaults /\ faulted' \subseteq Orders
    BY <1>1, EnqueueType DEF Send, TypeInv
  <1>3. QED
    BY <1>2, ReleaseType DEF Send, TypeInv, TypeOK, processVars, postVars, buyerVars

(* A process that dies keeps the invariant.                                *)
LEMMA DiesType == ASSUME TypeInv, ProcessDies PROVE TypeInv'
  <1>1. faults' \in 0..MaxFaults /\ faulted' \subseteq Orders
    BY FaultType, HeldOrdersType DEF ProcessDies, TypeInv
  <1>2. QED
    BY <1>1, PipelineAssumption DEF ProcessDies, TypeInv, TypeOK, Busy, ThreadStates, NotifyStatus, buyerVars

(***************************************************************************)
(* One lemma per group of actions.                                         *)
(***************************************************************************)

(* Every step of the thrift server keeps the invariant.                    *)
LEMMA IntakeType ==
    ASSUME TypeInv, NEW o \in Orders, Intake(o) \/ ServerCrash
    PROVE  TypeInv'
  <1>1. CASE InsertOrder(o)
    <2>1. faults' \in 0..MaxFaults /\ faulted' \subseteq Orders
      BY <1>1, FaultType DEF InsertOrder, TypeInv
    <2>2. QED
      BY <1>1, <2>1 DEF InsertOrder, TypeInv, TypeOK, Busy, IntakeStates, processVars, threadVars, postVars, buyerVars, faultVars
  <1>2. CASE PushOrder(o)
    <2>1. faults' \in 0..MaxFaults /\ faulted' \subseteq Orders
      BY <1>2, FaultType DEF PushOrder, TypeInv
    <2>2. NewMessage(o) \in Message
      BY PipelineAssumption DEF NewMessage, Message, OrderStatus, QueryPause
    <2>3. queue' \in [Queues -> Seq(Message)]
      BY <1>2, <2>2, PushType DEF PushOrder, Queues, TypeInv, TypeOK
    <2>4. QED
      BY <1>2, <2>1, <2>3 DEF PushOrder, TypeInv, TypeOK, Busy, IntakeStates, processVars, threadVars, postVars, buyerVars, faultVars
  <1>3. CASE FinishOrder(o)
    <2>1. faults' \in 0..MaxFaults /\ faulted' \subseteq Orders
      BY <1>3, FaultType DEF FinishOrder, TypeInv
    <2>2. row' \in [Orders -> [status : -1..2, notify : Int]]
      <3>1. [status |-> 1, notify |-> NOTIFY_UNDONE] \in [status : -1..2, notify : Int]
        BY DEF NOTIFY_UNDONE
      <3>2. \/ row' = row
            \/ row' = [row EXCEPT ![o] = [status |-> 1, notify |-> NOTIFY_UNDONE]]
        BY <1>3 DEF FinishOrder
      <3>3. QED
        BY <3>1, <3>2 DEF TypeInv, TypeOK
    <2>3. QED
      BY <1>3, <2>1, <2>2 DEF FinishOrder, TypeInv, TypeOK, Busy, IntakeStates, processVars, threadVars, postVars, buyerVars, faultVars
  <1>4. CASE ServerCrash
    <2>1. faults' \in 0..MaxFaults /\ faulted' \subseteq Orders
      BY <1>4, FaultType DEF ServerCrash, InProgress, TypeInv
    <2>2. QED
      BY <1>4, <2>1 DEF ServerCrash, TypeInv, TypeOK, Busy, IntakeStates, processVars, threadVars, postVars, buyerVars, faultVars
  <1>5. QED
    BY <1>1, <1>2, <1>3, <1>4 DEF Intake

(* Every step of a charge thread keeps the invariant.                      *)
LEMMA ChargeType ==
    ASSUME TypeInv, NEW t \in ChargeThreads, ChargeStep(t)
    PROVE  TypeInv'
  <1>1. t \in Threads /\ Queues = {"underway", "query", "notify"}
    BY DEF Threads, Queues
  <1>2. CASE ChargeDequeue(t)
    <2>1. [Head(queue["underway"]) EXCEPT !.idle = 0] \in Message
      BY <1>1, <1>2, TailMessage, AgedMessage DEF ChargeDequeue, CanTake, TypeInv, TypeOK
    <2>2. /\ queue' \in [Queues -> Seq(Message)]
          /\ pc' \in [Threads -> ThreadStates]
          /\ held' \in [Threads -> Message \cup {NoMsg}]
          /\ Busy'
      BY <1>1, <1>2, <2>1, TakeType DEF ChargeDequeue, CanTake, ThreadStates
    <2>3. QED
      BY <1>2, <2>2 DEF ChargeDequeue, TypeInv, TypeOK, processVars, postVars, buyerVars, faultVars
  <1>3. CASE ChargeRequest(t)
    <2>1. charges' \in [Orders -> Nat]
      <3>1. held[t].order \in Orders
        BY <1>1, <1>3, HeldType DEF ChargeRequest
      <3>2. charges \in [Orders -> Nat]
        BY DEF TypeInv, TypeOK
      <3>3. QED
        BY <1>3, <3>1, <3>2 DEF ChargeRequest
    <2>2. pc' \in [Threads -> ThreadStates] /\ Busy'
      BY <1>1, <1>3 DEF ChargeRequest, Goto, TypeInv, TypeOK, Busy, ThreadStates
    <2>3. QED
      BY <1>3, <2>1, <2>2 DEF ChargeRequest, TypeInv, TypeOK, processVars, postVars, buyerVars, faultVars
  <1>4. CASE ChargeFailed(t)
    BY <1>1, <1>4, SettleType DEF ChargeFailed, OrderStatus, ThreadStates, NOTIFY_UNDONE
  <1>5. CASE ChargeTellFailed(t) \/ ChargeSucceeded(t)
    BY <1>1, <1>5, SendType DEF ChargeTellFailed, ChargeSucceeded
  <1>6. QED
    BY <1>2, <1>3, <1>4, <1>5 DEF ChargeStep

(* Every step of a query thread keeps the invariant.                       *)
LEMMA QueryType ==
    ASSUME TypeInv, NEW t \in QueryThreads, QueryStep(t)
    PROVE  TypeInv'
  <1>1. t \in Threads /\ Queues = {"underway", "query", "notify"}
    BY DEF Threads, Queues
  <1>2. CASE QueryDequeue(t)
    <2>1. /\ Head(queue["query"]) \in Message
          /\ [Head(queue["query"]) EXCEPT !.idle = 0] \in Message
      BY <1>1, <1>2, TailMessage, AgedMessage DEF QueryDequeue, CanTake, TypeInv, TypeOK
    <2>2. \E m \in Message, state \in ThreadStates : Take(t, "query", m, state)
      BY <1>2, <2>1 DEF QueryDequeue, ThreadStates
    <2>3. /\ queue' \in [Queues -> Seq(Message)]
          /\ pc' \in [Threads -> ThreadStates]
          /\ held' \in [Threads -> Message \cup {NoMsg}]
          /\ Busy'
      BY <1>1, <1>2, <2>2, TakeType DEF QueryDequeue, CanTake
    <2>4. QED
      BY <1>2, <2>3 DEF QueryDequeue, TypeInv, TypeOK, processVars, postVars, buyerVars, faultVars
  <1>3. CASE QueryPushBack(t) \/ QueryTellSuccess(t)
    BY <1>1, <1>3, SendType DEF QueryPushBack, QueryTellSuccess
  <1>4. CASE QueryRequest(t)
    <2>1. pc' \in [Threads -> ThreadStates] /\ Busy'
      BY <1>1, <1>4 DEF QueryRequest, Goto, TypeInv, TypeOK, Busy, ThreadStates
    <2>2. QED
      BY <1>4, <2>1 DEF QueryRequest, TypeInv, TypeOK, processVars, postVars, buyerVars, faultVars
  <1>5. CASE QueryFinished(t)
    BY <1>1, <1>5, SettleType, PipelineAssumption DEF QueryFinished, OrderStatus, ThreadStates
  <1>6. CASE QueryDropped(t)
    <2>1. faults' \in 0..MaxFaults /\ faulted' \subseteq Orders
      BY <1>1, <1>6, HeldType, FaultType DEF QueryDropped, TypeInv
    <2>2. QED
      BY <1>1, <1>6, <2>1, ReleaseType DEF QueryDropped, TypeInv, TypeOK, processVars, postVars, buyerVars
  <1>7. QED
    BY <1>2, <1>3, <1>4, <1>5, <1>6 DEF QueryStep

(* Every step of a notify thread keeps the types.                          *)
LEMMA NotifyType ==
    ASSUME TypeInv, NEW t \in NotifyThreads, NotifyStep(t)
    PROVE  TypeInv'
  <1>1. t \in Threads /\ "notify" \in Queues
    BY DEF Threads, Queues
  <1>2. CASE NotifyDequeue(t)
    <2>1. Head(queue["notify"]) \in Message
      BY <1>1, <1>2, TailMessage DEF NotifyDequeue, CanTake, TypeInv, TypeOK
    <2>2. /\ queue' \in [Queues -> Seq(Message)]
          /\ pc' \in [Threads -> ThreadStates]
          /\ held' \in [Threads -> Message \cup {NoMsg}]
          /\ Busy'
      BY <1>1, <1>2, <2>1, TakeType DEF NotifyDequeue, CanTake, ThreadStates
    <2>3. QED
      BY <1>2, <2>2 DEF NotifyDequeue, TypeInv, TypeOK, processVars, postVars, buyerVars, faultVars
  <1>3. CASE NotifyDropped(t)
    <2>1. /\ Head(queue["notify"]).order \in Orders
          /\ Tail(queue["notify"]) \in Seq(Message)
      BY <1>1, <1>3, TailMessage DEF NotifyDropped, CanTake, TypeInv, TypeOK, Message
    <2>2. faults' \in 0..MaxFaults /\ faulted' \subseteq Orders
      BY <1>3, <2>1, FaultType DEF NotifyDropped, TypeInv
    <2>3. queue' \in [Queues -> Seq(Message)]
      BY <1>3, <2>1 DEF NotifyDropped, TypeInv, TypeOK
    <2>4. QED
      BY <1>3, <2>2, <2>3 DEF NotifyDropped, TypeInv, TypeOK, Busy, processVars, threadVars, postVars, buyerVars
  <1>4. CASE NotifyCheck(t)
    <2>1. held[t].order \in Orders
      BY <1>1, <1>4, HeldType DEF NotifyCheck
    <2>2. faults' \in 0..MaxFaults /\ faulted' \subseteq Orders
      BY <1>4, <2>1, FaultType DEF NotifyCheck, GetNotifyStatus, TypeInv
    <2>3. CASE NotifyEnd(t) /\ UNCHANGED postVars
      BY <1>1, <1>4, <2>1, <2>2, <2>3, ReleaseType
         DEF NotifyCheck, NotifyEnd, TypeInv, TypeOK, processVars, postVars, buyerVars
    <2>4. CASE /\ tries' = [tries EXCEPT ![t] = NotifyRetries]
               /\ answer' = [answer EXCEPT ![t] = NOTIFY_UNDONE]
               /\ Goto(t, "post")
               /\ UNCHANGED <<held, done>>
      <3>1. tries' \in [NotifyThreads -> 0..NotifyRetries]
        BY <2>4, PipelineAssumption DEF TypeInv, TypeOK
      <3>2. answer' \in [NotifyThreads -> NotifyStatus]
        BY <2>4 DEF TypeInv, TypeOK, NotifyStatus
      <3>3. pc' \in [Threads -> ThreadStates] /\ Busy'
        BY <1>1, <1>4, <2>4 DEF NotifyCheck, Goto, TypeInv, TypeOK, Busy, ThreadStates
      <3>4. QED
        BY <1>4, <2>2, <2>4, <3>1, <3>2, <3>3
           DEF NotifyCheck, TypeInv, TypeOK, processVars, buyerVars
    <2>5. QED
      BY <1>4, <2>3, <2>4 DEF NotifyCheck
  <1>5. CASE NotifyPost(t)
    <2>1. held[t].order \in Orders /\ held[t].status \in OrderStatus
      BY <1>1, <1>5, HeldType DEF NotifyPost, Message
    <2>2. tries' \in [NotifyThreads -> 0..NotifyRetries]
      <3>1. tries \in [NotifyThreads -> 0..NotifyRetries] /\ tries[t] > 0
        BY <1>5 DEF NotifyPost, MorePosts, TypeInv, TypeOK
      <3>2. tries[t] - 1 \in 0..NotifyRetries
        BY <3>1, PipelineAssumption
      <3>3. QED
        BY <1>5, <3>1, <3>2 DEF NotifyPost
    <2>3. posts' \in [Orders -> Nat]
      <3>1. posts \in [Orders -> Nat]
        BY DEF TypeInv, TypeOK
      <3>2. QED
        BY <1>5, <2>1, <3>1 DEF NotifyPost
    <2>4. told' \in [Orders -> SUBSET OrderStatus]
      <3>1. \/ told' = told
            \/ told' = [told EXCEPT ![held[t].order] = @ \cup {held[t].status}]
        BY <1>5 DEF NotifyPost
      <3>2. told \in [Orders -> SUBSET OrderStatus]
        BY DEF TypeInv, TypeOK
      <3>3. told[held[t].order] \cup {held[t].status} \in SUBSET OrderStatus
        BY <2>1, <3>2
      <3>4. QED
        BY <2>1, <3>1, <3>2, <3>3
    <2>5. /\ answer' \in [NotifyThreads -> NotifyStatus]
          /\ verdict' \in [Orders -> NotifyStatus]
      <3>1. CASE UNCHANGED <<told, answer, verdict>>
        BY <3>1 DEF TypeInv, TypeOK
      <3>2. ASSUME NEW a \in NotifyStatus,
                   answer' = [answer EXCEPT ![t] = a],
                   verdict' = IF a = NOTIFY_UNDONE THEN verdict
                              ELSE [verdict EXCEPT ![held[t].order] = a]
            PROVE  /\ answer' \in [NotifyThreads -> NotifyStatus]
                   /\ verdict' \in [Orders -> NotifyStatus]
        BY <2>1, <3>2 DEF TypeInv, TypeOK
      <3>3. QED
        BY <1>5, <3>1, <3>2 DEF NotifyPost
    <2>6. QED
      BY <1>5, <2>2, <2>3, <2>4, <2>5
         DEF NotifyPost, TypeInv, TypeOK, Busy, processVars, threadVars, faultVars
  <1>6. CASE NotifyRecord(t)
    <2>1. held[t].order \in Orders
      BY <1>1, <1>6, HeldType DEF NotifyRecord
    <2>2. faults' \in 0..MaxFaults /\ faulted' \subseteq Orders
      BY <1>6, <2>1, FaultType DEF NotifyRecord, UpdateFails, TypeInv
    <2>3. Outcome(t) \in Int
      BY DEF Outcome, TypeInv, TypeOK, NotifyStatus, NOTIFY_UNDONE, NOTIFY_SUCCESS, NOTIFY_FAIL
    <2>4. row' \in [Orders -> [status : -1..2, notify : Int]]
      <3>1. CASE UpdateOrderStatus(held[t].order, held[t].status, Outcome(t))
        BY <2>1, <2>3, <3>1, UpdateType DEF TypeInv
      <3>2. CASE UNCHANGED row
        BY <3>2 DEF TypeInv, TypeOK
      <3>3. QED
        BY <1>6, <3>1, <3>2 DEF NotifyRecord, UpdateFails
    <2>5. /\ tries' \in [NotifyThreads -> 0..NotifyRetries]
          /\ answer' \in [NotifyThreads -> NotifyStatus]
      BY <1>6, PipelineAssumption DEF NotifyRecord, TypeInv, TypeOK, NotifyStatus
    <2>6. done' \subseteq Orders
      BY <1>6, <2>1 DEF NotifyRecord, NotifyEnd, TypeInv, TypeOK
    <2>7. /\ pc' \in [Threads -> ThreadStates]
          /\ held' \in [Threads -> Message \cup {NoMsg}]
          /\ Busy'
      BY <1>1, <1>6, ReleaseType DEF NotifyRecord, NotifyEnd
    <2>8. QED
      BY <1>6, <2>2, <2>4, <2>5, <2>6, <2>7
         DEF NotifyRecord, TypeInv, TypeOK, processVars, buyerVars
  <1>7. QED
    BY <1>2, <1>3, <1>4, <1>5, <1>6 DEF NotifyStep

(* Lost replies, exits, signals, crashes, restarts and time keep the types.*)
LEMMA ProcessType ==
    ASSUME TypeInv,
           \/ \E t \in Threads : ThreadExit(t) \/ NullConnection(t)
           \/ \E q \in Queues : DequeueLost(q)
           \/ SignalStop \/ RunReturns \/ HandlerCrash \/ Run \/ Tick
    PROVE  TypeInv'
  <1>1. ASSUME NEW t \in Threads, ThreadExit(t) PROVE TypeInv'
    <2>1. faults' \in 0..MaxFaults /\ faulted' \subseteq Orders
      BY <1>1, FaultType DEF ThreadExit, TypeInv
    <2>2. pc' \in [Threads -> ThreadStates] /\ Busy'
      BY <1>1 DEF ThreadExit, Goto, TypeInv, TypeOK, Busy, ThreadStates
    <2>3. QED
      BY <1>1, <2>1, <2>2 DEF ThreadExit, TypeInv, TypeOK, processVars, postVars, buyerVars
  <1>2. CASE (\E t \in Threads : NullConnection(t)) \/ HandlerCrash
    BY <1>2, DiesType DEF NullConnection, HandlerCrash
  <1>3. ASSUME NEW q \in Queues, DequeueLost(q) PROVE TypeInv'
    <2>1. Head(queue[q]).order \in Orders /\ Tail(queue[q]) \in Seq(Message)
      BY <1>3, TailMessage DEF DequeueLost, TypeInv, TypeOK, Message
    <2>2. faults' \in 0..MaxFaults /\ faulted' \subseteq Orders
      BY <1>3, <2>1, FaultType DEF DequeueLost, TypeInv
    <2>3. queue' \in [Queues -> Seq(Message)]
      BY <1>3, <2>1 DEF DequeueLost, TypeInv, TypeOK
    <2>4. QED
      BY <1>3, <2>2, <2>3 DEF DequeueLost, TypeInv, TypeOK, Busy, processVars, threadVars, postVars, buyerVars
  <1>4. CASE SignalStop
    BY <1>4, PipelineAssumption DEF SignalStop, TypeInv, TypeOK, Busy, threadVars, postVars, buyerVars, faultVars
  <1>5. CASE RunReturns
    BY <1>5 DEF RunReturns, TypeInv, TypeOK, Busy, threadVars, postVars, buyerVars, faultVars
  <1>6. CASE Run
    BY <1>6 DEF Run, TypeInv, TypeOK, Busy, ThreadStates, postVars, buyerVars, faultVars
  <1>7. CASE Tick
    <2>1. queue' \in [Queues -> Seq(Message)]
      <3>1. queue \in [Queues -> Seq(Message)] /\ queue["query"] \in Seq(Message)
        BY DEF TypeInv, TypeOK, Queues
      <3>2. [i \in DOMAIN queue["query"] |-> Aged(queue["query"][i])] \in Seq(Message)
        BY <3>1, AgedList
      <3>3. QED
        BY <1>7, <3>1, <3>2 DEF Tick
    <2>2. \A t \in Threads : held[t] # NoMsg =>
              /\ [held[t] EXCEPT !.idle = Older(held[t].idle, QueryPause)] \in Message
              /\ [held[t] EXCEPT !.idle = Older(held[t].idle, QueryPause)] # NoMsg
      <3>1. \A t \in Threads : held[t] # NoMsg => held[t] \in Message
        BY DEF TypeInv, TypeOK
      <3>2. \A m \in Message : [m EXCEPT !.idle = Older(m.idle, QueryPause)] \in Message
        BY AgedMessage
      <3>3. \A t \in Threads : held[t] # NoMsg =>
                [held[t] EXCEPT !.idle = Older(held[t].idle, QueryPause)] \in Message
        BY <3>1, <3>2
      <3>4. QED
        BY <3>3, PipelineAssumption
    <2>3. held' \in [Threads -> Message \cup {NoMsg}] /\ Busy'
      BY <1>7, <2>2 DEF Tick, TypeInv, TypeOK, Busy
    <2>4. QED
      BY <1>7, <2>1, <2>3 DEF Tick, TypeInv, TypeOK, processVars, postVars, buyerVars, faultVars
  <1>8. QED
    BY <1>1, <1>2, <1>3, <1>4, <1>5, <1>6, <1>7

(* A step that changes nothing keeps the invariant.                        *)
LEMMA StutterType == TypeInv /\ UNCHANGED vars => TypeInv'
  BY DEF TypeInv, TypeOK, Busy, vars

(* TypeInv is inductive.                                                   *)
LEMMA TypeInvStep == TypeInv /\ [Next]_vars => TypeInv'
  <1> SUFFICES ASSUME TypeInv, [Next]_vars PROVE TypeInv'
    OBVIOUS
  <1>1. ASSUME NEW o \in Orders, Intake(o) PROVE TypeInv'
    BY <1>1, IntakeType
  <1>2. CASE ServerCrash
    <2>1. PICK o \in Orders : TRUE
      BY <1>2 DEF ServerCrash, InProgress
    <2>2. QED
      BY <1>2, <2>1, IntakeType
  <1>3. QED
    BY <1>1, <1>2, ChargeType, QueryType, NotifyType, ProcessType, StutterType DEF Next

(* Every variable of the pipeline keeps its shape, whatever the number of  *)
(* orders, threads, faults and stops.                                      *)
THEOREM TypeCorrect == Spec => []TypeOK
  <1>1. TypeInv => TypeOK
    BY DEF TypeInv
  <1>2. QED
    BY <1>1, InitType, TypeInvStep, PTL DEF Spec


(***************************************************************************)
(* Custody of an order in OrderPipeline, for any number of orders and      *)
(* threads and any faults: an order is never in two places, and it is      *)
(* charged at most once.                                                   *)
(***************************************************************************)

(* The order of a message in a list.                                       *)
At(q, i) == queue[q][i].order

(* The order has not been pushed yet.                                      *)
Fresh(o) == intake[o] \in {"new", "inserted"}

(* A thread between two messages holds none.                               *)
Idle == \A t \in Threads : pc[t] \in {"loop", "exited"} => held[t] = NoMsg

(* A process that does not run has no thread.                              *)
Stopped == handler = "Down" => \A t \in Threads : pc[t] = "exited"

(* An order that has not been pushed is nowhere, no list has it twice, no  *)
(* two lists, no two threads, and no list and a thread have it both.       *)
Alone ==
    /\ \A q \in Queues : \A i \in DOMAIN queue[q] : ~Fresh(At(q, i))
    /\ \A t \in Threads : held[t] # NoMsg => ~Fresh(held[t].order)
    /\ \A q, r \in Queues : \A i \in DOMAIN queue[q], j \in DOMAIN queue[r] :
          At(q, i) = At(r, j) => q = r /\ i = j
    /\ \A t, u \in Threads :
          held[t] # NoMsg /\ held[u] # NoMsg /\ held[t].order = held[u].order => t = u
    /\ \A t \in Threads, q \in Queues : \A i \in DOMAIN queue[q] :
          held[t] # NoMsg => held[t].order # At(q, i)

CustodyInv == TypeInv /\ Idle /\ Stopped /\ Alone

(***************************************************************************)
(* How a step moves messages.                                              *)
(***************************************************************************)

NothingFresher == \A o \in Orders : Fresh(o)' => Fresh(o)

(* Every message stays where it is, whatever it says.                      *)
Stay ==
    /\ NothingFresher
    /\ \A q \in Queues :
          /\ DOMAIN queue'[q] = DOMAIN queue[q]
          /\ \A i \in DOMAIN queue[q] : queue'[q][i].order = queue[q][i].order
    /\ \A t \in Threads :
          held'[t] # NoMsg => held[t] # NoMsg /\ held'[t].order = held[t].order

(* A message m is added to the list q, its order was nowhere.              *)
Enter(o, m) ==
    /\ NothingFresher
    /\ Fresh(o) /\ ~Fresh(o)'
    /\ m.order = o
    /\ queue' = [queue EXCEPT !["underway"] = Append(@, m)]
    /\ held' = held

(* The head of the list q is removed.                                      *)
Leave(q) ==
    /\ NothingFresher
    /\ queue[q] # <<>>
    /\ queue' = [queue EXCEPT ![q] = Tail(@)]
    /\ held' = held

(* The head of the list q goes to the thread t.                            *)
Fetch(t, q, m) ==
    /\ NothingFresher
    /\ held[t] = NoMsg
    /\ queue[q] # <<>>
    /\ m.order = Head(queue[q]).order
    /\ queue' = [queue EXCEPT ![q] = Tail(@)]
    /\ held' = [held EXCEPT ![t] = m]

(* What the thread t holds goes to the list q.                             *)
Hand(t, q, m) ==
    /\ NothingFresher
    /\ held[t] # NoMsg /\ m.order = held[t].order
    /\ queue' = [queue EXCEPT ![q] = Append(@, m)]
    /\ held' = [held EXCEPT ![t] = NoMsg]

Move ==
    \/ Stay
    \/ \E o \in Orders, m \in Message : Enter(o, m)
    \/ \E q \in Queues : Leave(q)
    \/ \E t \in Threads, q \in Queues, m \in Message : Fetch(t, q, m) \/ Hand(t, q, m)

(* Where the elements of an appended and of a shortened list come from.    *)
LEMMA AppendAt ==
    ASSUME NEW s \in Seq(Message), NEW m \in Message, NEW i \in DOMAIN Append(s, m)
    PROVE  \/ i \in DOMAIN s /\ Append(s, m)[i] = s[i]
           \/ i = Len(s) + 1 /\ i \notin DOMAIN s /\ Append(s, m)[i] = m
  OBVIOUS

(* The element of a shortened list is one place further in the list.       *)
LEMMA TailAt ==
    ASSUME NEW s \in Seq(Message), s # <<>>, NEW i \in DOMAIN Tail(s)
    PROVE  /\ i \in Nat
           /\ i + 1 \in DOMAIN s /\ Tail(s)[i] = s[i + 1]
           /\ 1 \in DOMAIN s /\ i + 1 # 1 /\ Head(s) = s[1]
  OBVIOUS

(* The parts of the state that the moves speak about have their types.     *)
LEMMA PlaceTypes ==
    ASSUME TypeInv
    PROVE  /\ queue \in [Queues -> Seq(Message)]
           /\ held \in [Threads -> Message \cup {NoMsg}]
           /\ \A q \in Queues : \A i \in DOMAIN queue[q] : queue[q][i] \in Message
           /\ \A q \in Queues : \A i \in DOMAIN queue[q] : At(q, i) \in Orders
           /\ \A t \in Threads : held[t] # NoMsg => held[t].order \in Orders
  <1>1. /\ queue \in [Queues -> Seq(Message)]
        /\ held \in [Threads -> Message \cup {NoMsg}]
    BY DEF TypeInv, TypeOK
  <1>2. \A q \in Queues : \A i \in DOMAIN queue[q] : queue[q][i] \in Message
    BY <1>1
  <1>3. QED
    BY <1>1, <1>2 DEF At, Message

(* A step that moves nothing keeps orders alone.                           *)
LEMMA StayAlone == ASSUME TypeInv, Alone, Stay PROVE Alone'
  BY PlaceTypes DEF Alone, Stay, NothingFresher, At

(* So does a first push.                                                   *)
LEMMA EnterAlone ==
    ASSUME TypeInv, Alone, NEW o \in Orders, NEW m \in Message, Enter(o, m)
    PROVE  Alone'
  <1>1. "underway" \in Queues /\ queue["underway"] \in Seq(Message)
    BY PlaceTypes DEF Queues
  <1>2. \A q \in Queues : \A i \in DOMAIN queue'[q] :
            \/ i \in DOMAIN queue[q] /\ queue'[q][i].order = At(q, i)
            \/ /\ q = "underway" /\ i = Len(queue[q]) + 1
               /\ queue'[q][i].order = o
    BY <1>1, PlaceTypes, AppendAt DEF Enter, At
  <1>3. \A p \in Orders : Fresh(p)' => Fresh(p) /\ p # o
    BY DEF Enter, NothingFresher
  <1>4. /\ \A q \in Queues : \A i \in DOMAIN queue[q] : At(q, i) # o /\ At(q, i) \in Orders
        /\ \A t \in Threads : held[t] # NoMsg => held[t].order # o /\ held[t].order \in Orders
    BY PlaceTypes DEF Alone, Enter
  <1>5. QED
    BY <1>2, <1>3, <1>4 DEF Alone, Enter, At

(* So does a message that is lost on its way from a list.                  *)
LEMMA LeaveAlone ==
    ASSUME TypeInv, Alone, NEW q \in Queues, Leave(q)
    PROVE  Alone'
  <1>1. \A r \in Queues : \A i \in DOMAIN queue'[r] :
            \/ r # q /\ i \in DOMAIN queue[r] /\ queue'[r][i].order = At(r, i)
            \/ /\ r = q /\ i \in Nat /\ i + 1 \in DOMAIN queue[r]
               /\ queue'[r][i].order = At(r, i + 1)
    BY PlaceTypes, TailAt DEF Leave, At
  <1>2. \A r \in Queues : \A i \in DOMAIN queue[r] : At(r, i) \in Orders
    BY PlaceTypes
  <1>4. QED
    BY <1>1, <1>2, PlaceTypes DEF Alone, Leave, NothingFresher, At

(* So does a message that a thread takes from a list.                      *)
LEMMA FetchAlone ==
    ASSUME TypeInv, Alone, NEW t \in Threads, NEW q \in Queues, NEW m \in Message,
           Fetch(t, q, m)
    PROVE  Alone'
  <1>1. /\ 1 \in DOMAIN queue[q] /\ m.order = At(q, 1) /\ m.order \in Orders
    <2>1. queue[q] \in Seq(Message) /\ queue[q] # <<>>
      BY PlaceTypes DEF Fetch
    <2>2. 1 \in DOMAIN queue[q] /\ Head(queue[q]) = queue[q][1]
      BY <2>1
    <2>3. QED
      BY <2>2 DEF Fetch, At, Message
  <1>2. \A r \in Queues : \A i \in DOMAIN queue'[r] :
            \/ r # q /\ i \in DOMAIN queue[r] /\ queue'[r][i].order = At(r, i)
            \/ /\ r = q /\ i \in Nat /\ i + 1 \in DOMAIN queue[r] /\ i + 1 # 1
               /\ queue'[r][i].order = At(r, i + 1)
    BY PlaceTypes, TailAt DEF Fetch, At
  <1>3. \A r \in Queues : \A i \in DOMAIN queue[r] : At(r, i) \in Orders
    BY PlaceTypes
  <1>4. \A u \in Threads : held'[u] = IF u = t THEN m ELSE held[u]
    BY PlaceTypes DEF Fetch
  <1>5. \A r \in Queues : \A i \in DOMAIN queue'[r] : At(r, i)' # m.order
    BY <1>1, <1>2, <1>3 DEF Alone, At
  <1>6. \A u \in Threads : u # t /\ held[u] # NoMsg => held[u].order # m.order
    BY <1>1 DEF Alone
  <1>7. ~Fresh(m.order)'
    BY <1>1 DEF Alone, Fetch, NothingFresher
  <1>8. /\ \A r \in Queues : \A i \in DOMAIN queue'[r] : ~Fresh(At(r, i))'
        /\ \A r, s \in Queues : \A i \in DOMAIN queue'[r], j \in DOMAIN queue'[s] :
              At(r, i)' = At(s, j)' => r = s /\ i = j
    BY <1>2, <1>3 DEF Alone, Fetch, NothingFresher, At
  <1>9. /\ \A u \in Threads : held'[u] # NoMsg => ~Fresh(held[u].order)'
        /\ \A u, v \in Threads :
              held'[u] # NoMsg /\ held'[v] # NoMsg /\ held'[u].order = held'[v].order => u = v
    BY <1>4, <1>6, <1>7, PlaceTypes DEF Alone, Fetch, NothingFresher
  <1>10. \A u \in Threads, r \in Queues : \A i \in DOMAIN queue'[r] :
            held'[u] # NoMsg => held'[u].order # At(r, i)'
    BY <1>2, <1>4, <1>5 DEF Alone, At
  <1>11. QED
    BY <1>8, <1>9, <1>10 DEF Alone, At

(* So does a message that a thread sends on.                               *)
LEMMA HandAlone ==
    ASSUME TypeInv, Alone, NEW t \in Threads, NEW q \in Queues, NEW m \in Message,
           Hand(t, q, m)
    PROVE  Alone'
  <1>1. /\ m.order \in Orders /\ m.order = held[t].order /\ held[t] # NoMsg
    BY DEF Hand, Message
  <1>2. \A r \in Queues : \A i \in DOMAIN queue'[r] :
            \/ i \in DOMAIN queue[r] /\ queue'[r][i].order = At(r, i)
            \/ r = q /\ i = Len(queue[q]) + 1 /\ queue'[r][i].order = m.order
    BY PlaceTypes, AppendAt DEF Hand, At
  <1>3. \A u \in Threads : held'[u] = IF u = t THEN NoMsg ELSE held[u]
    BY PlaceTypes DEF Hand
  <1>4. /\ \A r \in Queues : \A i \in DOMAIN queue[r] :
              At(r, i) # m.order /\ At(r, i) \in Orders
        /\ \A u \in Threads : u # t /\ held[u] # NoMsg =>
              held[u].order # m.order /\ held[u].order \in Orders
    BY <1>1, PlaceTypes DEF Alone
  <1>5. /\ \A r \in Queues : \A i \in DOMAIN queue'[r] : ~Fresh(At(r, i))'
        /\ \A r, s \in Queues : \A i \in DOMAIN queue'[r], j \in DOMAIN queue'[s] :
              At(r, i)' = At(s, j)' => r = s /\ i = j
    BY <1>1, <1>2, <1>4 DEF Alone, Hand, NothingFresher, At
  <1>6. /\ \A u \in Threads : held'[u] # NoMsg => ~Fresh(held[u].order)'
        /\ \A u, v \in Threads :
              held'[u] # NoMsg /\ held'[v] # NoMsg /\ held'[u].order = held'[v].order => u = v
    BY <1>3, <1>4 DEF Alone, Hand, NothingFresher
  <1>7. \A u \in Threads, r \in Queues : \A i \in DOMAIN queue'[r] :
            held'[u] # NoMsg => held'[u].order # At(r, i)'
    BY <1>2, <1>3, <1>4 DEF Alone, At
  <1>8. QED
    BY <1>5, <1>6, <1>7 DEF Alone, At

(* Every move keeps orders alone.                                          *)
LEMMA MoveAlone == TypeInv /\ Alone /\ Move => Alone'
  BY StayAlone, EnterAlone, LeaveAlone, FetchAlone, HandAlone DEF Move

(***************************************************************************)
(* Every action is one of the moves.                                       *)
(***************************************************************************)

(* A step that leaves lists and threads alone, or lets messages go.        *)
LEMMA StillStays ==
    ASSUME TypeInv, queue' = queue, NothingFresher,
           \A t \in Threads : held'[t] # NoMsg => held[t] # NoMsg /\ held'[t].order = held[t].order
    PROVE  Move
  BY DEF Move, Stay

(* A worker's dequeue is a Fetch.                                          *)
LEMMA TakeMoves ==
    ASSUME TypeInv, Idle, NEW t \in Threads, NEW q \in Queues, NEW m \in Message,
           NEW state \in ThreadStates \ {"loop", "exited"}, CanTake(t, q),
           m.order = Head(queue[q]).order, Take(t, q, m, state), intake' = intake
    PROVE  Move /\ Idle'
  <1>1. Fetch(t, q, m)
    BY DEF Fetch, Take, CanTake, Idle, NothingFresher, Fresh
  <1>2. Idle'
    BY DEF Take, Goto, Idle, TypeInv, TypeOK
  <1>3. QED
    BY <1>1, <1>2 DEF Move

(* The end of an iteration that keeps the lists.                           *)
LEMMA ReleaseMoves ==
    ASSUME TypeInv, Idle, NEW t \in Threads, Release(t), queue' = queue, intake' = intake
    PROVE  Move /\ Idle'
  <1>1. \A u \in Threads : held'[u] = IF u = t THEN NoMsg ELSE held[u]
    BY PlaceTypes DEF Release
  <1>2. Idle'
    BY <1>1 DEF Release, Idle, TypeInv, TypeOK
  <1>3. NothingFresher
    BY DEF NothingFresher, Fresh
  <1>4. Move
    BY <1>1, <1>3, StillStays
  <1>5. QED
    BY <1>2, <1>4

(* A worker's enqueue is a Hand, or the message is lost.                   *)
LEMMA SendMoves ==
    ASSUME TypeInv, Idle, NEW t \in Threads, NEW q \in Queues,
           pc[t] \notin {"loop", "exited"}, Send(t, q)
    PROVE  Move /\ Idle'
  <1>1. /\ held[t] \in Message /\ held[t] # NoMsg
        /\ Serialized(held[t]) \in Message
        /\ Serialized(held[t]).order = held[t].order
    BY HeldType, AgedMessage, PipelineAssumption DEF Serialized, Message
  <1>2. Release(t) /\ intake' = intake /\ NothingFresher
    BY DEF Send, NothingFresher, Fresh
  <1>3. CASE queue' = queue
    BY <1>2, <1>3, ReleaseMoves
  <1>4. CASE Push(q, Serialized(held[t]))
    <2>1. Hand(t, q, Serialized(held[t]))
      BY <1>1, <1>2, <1>4 DEF Hand, Push, Release
    <2>2. Idle'
      BY <1>2 DEF Release, Idle, TypeInv, TypeOK
    <2>3. QED
      BY <1>1, <2>1, <2>2 DEF Move
  <1>5. QED
    BY <1>3, <1>4 DEF Send, Enqueue

(* A worker's update leaves every message where it is.                     *)
LEMMA SettleMoves ==
    ASSUME TypeInv, Idle, NEW t \in Threads, NEW status \in OrderStatus, NEW notifies,
           NEW state \in ThreadStates \ {"loop", "exited"},
           pc[t] \notin {"loop", "exited"}, Settle(t, status, notifies, state)
    PROVE  Move /\ Idle'
  <1>1. held[t] \in Message /\ held[t] # NoMsg
    BY HeldType, PipelineAssumption
  <1>2. \A u \in Threads :
            held'[u] = IF u = t THEN [held[t] EXCEPT !.status = status] ELSE held[u]
    BY PlaceTypes DEF Settle
  <1>3. [held[t] EXCEPT !.status = status].order = held[t].order
    BY <1>1 DEF Message
  <1>4. queue' = queue /\ NothingFresher
    BY DEF Settle, NothingFresher, Fresh
  <1>5. Move
    BY <1>1, <1>2, <1>3, <1>4, StillStays
  <1>6. Idle'
    BY <1>2 DEF Settle, Goto, Idle, TypeInv, TypeOK
  <1>7. QED
    BY <1>5, <1>6

(* A thread that goes on with the message it has.                          *)
LEMMA GotoMoves ==
    ASSUME TypeInv, Idle, NEW t \in Threads, NEW state \in ThreadStates,
           held[t] = NoMsg \/ state \notin {"loop", "exited"},
           Goto(t, state), queue' = queue, held' = held, intake' = intake
    PROVE  Move /\ Idle'
  <1>1. NothingFresher
    BY DEF NothingFresher, Fresh
  <1>2. Move
    BY <1>1, StillStays
  <1>3. Idle'
    BY DEF Goto, Idle, TypeInv, TypeOK
  <1>4. QED
    BY <1>2, <1>3

(* A message that is lost with the reply that brings it, or dropped.       *)
LEMMA LeaveMoves ==
    ASSUME Idle, NEW q \in Queues, queue[q] # <<>>,
           queue' = [queue EXCEPT ![q] = Tail(@)], UNCHANGED <<intake, threadVars>>
    PROVE  Move /\ Idle'
  <1>1. Leave(q)
    BY DEF Leave, NothingFresher, Fresh, threadVars
  <1>2. Idle'
    BY DEF Idle, threadVars
  <1>3. QED
    BY <1>1, <1>2 DEF Move

(* topup_handle dies with all its threads hold.                            *)
LEMMA DiesMoves == ASSUME TypeInv, Idle, ProcessDies PROVE Move /\ Idle'
  <1>1. \A t \in Threads : held'[t] = NoMsg
    BY DEF ProcessDies
  <1>2. queue' = queue /\ NothingFresher
    BY DEF ProcessDies, NothingFresher, Fresh
  <1>3. QED
    BY <1>1, <1>2, StillStays DEF Idle

(* The thrift server pushes an order once, when it has not been pushed.    *)
LEMMA IntakeMoves ==
    ASSUME TypeInv, Idle, NEW o \in Orders, Intake(o) \/ ServerCrash
    PROVE  Move /\ Idle'
  <1>1. held' = held /\ pc' = pc
    BY DEF Intake, InsertOrder, PushOrder, FinishOrder, ServerCrash, threadVars
  <1>2. Idle'
    BY <1>1 DEF Idle
  <1>3. NothingFresher
    <2>1. intake \in [Orders -> IntakeStates]
      BY DEF TypeInv, TypeOK
    <2>2. CASE InsertOrder(o)
      BY <2>1, <2>2 DEF InsertOrder, NothingFresher, Fresh
    <2>3. CASE PushOrder(o)
      BY <2>1, <2>3 DEF PushOrder, NothingFresher, Fresh
    <2>4. CASE FinishOrder(o)
      BY <2>1, <2>4 DEF FinishOrder, NothingFresher, Fresh
    <2>5. CASE ServerCrash
      BY <2>1, <2>5 DEF ServerCrash, NothingFresher, Fresh
    <2>6. QED
      BY <2>2, <2>3, <2>4, <2>5 DEF Intake
  <1>4. CASE queue' = queue
    BY <1>1, <1>2, <1>3, <1>4, StillStays
  <1>5. CASE PushOrder(o) /\ Push("underway", NewMessage(o))
    <2>1. NewMessage(o) \in Message /\ NewMessage(o).order = o
      BY PipelineAssumption DEF NewMessage, Message, OrderStatus, QueryPause
    <2>2. Fresh(o) /\ ~Fresh(o)'
      BY <1>5 DEF PushOrder, Fresh, TypeInv, TypeOK
    <2>3. Enter(o, NewMessage(o))
      BY <1>1, <1>3, <1>5, <2>1, <2>2 DEF Enter, Push
    <2>4. QED
      BY <1>2, <2>1, <2>3 DEF Move
  <1>6. QED
    BY <1>4, <1>5 DEF Intake, InsertOrder, PushOrder, FinishOrder, ServerCrash

(* A charge thread takes, keeps or sends on the one message it has.        *)
LEMMA ChargeMoves ==
    ASSUME TypeInv, Idle, NEW t \in ChargeThreads, ChargeStep(t)
    PROVE  Move /\ Idle'
  <1>1. t \in Threads /\ "underway" \in Queues /\ "query" \in Queues /\ "notify" \in Queues
    BY DEF Threads, Queues
  <1>2. CASE ChargeDequeue(t)
    <2>1. queue["underway"] \in Seq(Message) /\ queue["underway"] # <<>>
      BY <1>1, <1>2, PlaceTypes DEF ChargeDequeue, CanTake
    <2>2. DEFINE m == [Head(queue["underway"]) EXCEPT !.idle = 0]
    <2>3. m \in Message /\ m.order = Head(queue["underway"]).order
      BY <2>1, TailMessage, AgedMessage DEF Message
    <2>4. CanTake(t, "underway") /\ Take(t, "underway", m, "charge") /\ intake' = intake
      BY <1>2 DEF ChargeDequeue
    <2>5. "charge" \in ThreadStates \ {"loop", "exited"}
      BY DEF ThreadStates
    <2>6. QED
      BY <1>1, <2>3, <2>4, <2>5, TakeMoves
  <1>3. CASE ChargeRequest(t)
    <2>1. \E state \in ThreadStates \ {"loop", "exited"} : Goto(t, state)
      BY <1>3 DEF ChargeRequest, ThreadStates
    <2>2. QED
      BY <1>1, <1>3, <2>1, GotoMoves DEF ChargeRequest
  <1>4. CASE ChargeFailed(t)
    BY <1>1, <1>4, SettleMoves DEF ChargeFailed, OrderStatus, ThreadStates
  <1>5. CASE ChargeTellFailed(t) \/ ChargeSucceeded(t)
    BY <1>1, <1>5, SendMoves DEF ChargeTellFailed, ChargeSucceeded
  <1>6. QED
    BY <1>2, <1>3, <1>4, <1>5 DEF ChargeStep

(* So does a query thread, or it drops the message.                        *)
LEMMA QueryMoves ==
    ASSUME TypeInv, Idle, NEW t \in QueryThreads, QueryStep(t)
    PROVE  Move /\ Idle'
  <1>1. t \in Threads /\ "query" \in Queues /\ "notify" \in Queues
    BY DEF Threads, Queues
  <1>2. CASE QueryDequeue(t)
    <2>1. queue["query"] \in Seq(Message) /\ queue["query"] # <<>>
      BY <1>1, <1>2, PlaceTypes DEF QueryDequeue, CanTake
    <2>2. Head(queue["query"]) \in Message
      BY <2>1, TailMessage
    <2>3. /\ [Head(queue["query"]) EXCEPT !.idle = 0] \in Message
          /\ [Head(queue["query"]) EXCEPT !.idle = 0].order = Head(queue["query"]).order
      BY <2>2, AgedMessage DEF Message
    <2>4. \E m \in Message, state \in ThreadStates \ {"loop", "exited"} :
              m.order = Head(queue["query"]).order /\ Take(t, "query", m, state)
      BY <1>2, <2>2, <2>3 DEF QueryDequeue, ThreadStates
    <2>5. CanTake(t, "query") /\ intake' = intake
      BY <1>2 DEF QueryDequeue
    <2>6. QED
      BY <1>1, <2>4, <2>5, TakeMoves
  <1>3. CASE QueryPushBack(t) \/ QueryTellSuccess(t)
    BY <1>1, <1>3, SendMoves DEF QueryPushBack, QueryTellSuccess
  <1>4. CASE QueryRequest(t)
    <2>1. \E state \in ThreadStates \ {"loop", "exited"} : Goto(t, state)
      BY <1>4 DEF QueryRequest, ThreadStates
    <2>2. QED
      BY <1>1, <1>4, <2>1, GotoMoves DEF QueryRequest
  <1>5. CASE QueryFinished(t)
    BY <1>1, <1>5, SettleMoves DEF QueryFinished, OrderStatus, ThreadStates
  <1>6. CASE QueryDropped(t)
    BY <1>1, <1>6, ReleaseMoves DEF QueryDropped
  <1>7. QED
    BY <1>2, <1>3, <1>4, <1>5, <1>6 DEF QueryStep

(* So does a notify thread, which lets every message go in the end.        *)
LEMMA NotifyMoves ==
    ASSUME TypeInv, Idle, NEW t \in NotifyThreads, NotifyStep(t)
    PROVE  Move /\ Idle'
  <1>1. t \in Threads /\ "notify" \in Queues
    BY DEF Threads, Queues
  <1>2. CASE NotifyDequeue(t)
    <2>1. Head(queue["notify"]) \in Message
      BY <1>1, <1>2, PlaceTypes, TailMessage DEF NotifyDequeue, CanTake
    <2>2. CanTake(t, "notify") /\ Take(t, "notify", Head(queue["notify"]), "check") /\ intake' = intake
      BY <1>2 DEF NotifyDequeue
    <2>3. "check" \in ThreadStates \ {"loop", "exited"}
      BY DEF ThreadStates
    <2>4. QED
      BY <1>1, <2>1, <2>2, <2>3, TakeMoves
  <1>3. CASE NotifyDropped(t)
    BY <1>1, <1>3, LeaveMoves DEF NotifyDropped, CanTake
  <1>4. CASE NotifyCheck(t)
    <2>1. queue' = queue /\ intake' = intake
      BY <1>4 DEF NotifyCheck
    <2>2. CASE Release(t)
      BY <1>1, <2>1, <2>2, ReleaseMoves
    <2>3. CASE Goto(t, "post") /\ held' = held
      BY <1>1, <2>1, <2>3, GotoMoves DEF ThreadStates
    <2>4. QED
      BY <1>4, <2>2, <2>3 DEF NotifyCheck, NotifyEnd
  <1>5. CASE NotifyPost(t)
    BY <1>5, StillStays DEF NotifyPost, threadVars, NothingFresher, Fresh, Idle
  <1>6. CASE NotifyRecord(t)
    BY <1>1, <1>6, ReleaseMoves DEF NotifyRecord, NotifyEnd
  <1>7. QED
    BY <1>2, <1>3, <1>4, <1>5, <1>6 DEF NotifyStep

(* Time moves no message.                                                  *)
LEMMA TickMoves == ASSUME TypeInv, Idle, Tick PROVE Move /\ Idle'
  <1>1. queue["query"] \in Seq(Message) /\ "query" \in Queues
    BY PlaceTypes DEF Queues
  <1>2. \A m \in Message :
            /\ Aged(m).order = m.order
            /\ [m EXCEPT !.idle = Older(m.idle, QueryPause)].order = m.order
    BY DEF Aged, Message
  <1>3. \A q \in Queues :
            /\ DOMAIN queue'[q] = DOMAIN queue[q]
            /\ \A i \in DOMAIN queue[q] : queue'[q][i].order = queue[q][i].order
    <2>1. queue' = [queue EXCEPT !["query"] = [i \in DOMAIN queue["query"] |-> Aged(queue["query"][i])]]
      BY DEF Tick
    <2>2. \A i \in DOMAIN queue["query"] : Aged(queue["query"][i]).order = queue["query"][i].order
      BY <1>1, <1>2, PlaceTypes
    <2>3. QED
      BY <2>1, <2>2, PlaceTypes
  <1>4. \A t \in Threads :
            held'[t] # NoMsg => held[t] # NoMsg /\ held'[t].order = held[t].order
    <2>1. \A t \in Threads : held[t] # NoMsg =>
              [held[t] EXCEPT !.idle = Older(held[t].idle, QueryPause)].order = held[t].order
      BY <1>2, PlaceTypes
    <2>2. QED
      BY <2>1 DEF Tick
  <1>5. NothingFresher
    BY DEF Tick, NothingFresher, Fresh
  <1>6. Idle'
    BY <1>4 DEF Tick, Idle
  <1>7. QED
    BY <1>3, <1>4, <1>5, <1>6 DEF Move, Stay

(* Lost replies, exits, signals, crashes and restarts add no message.      *)
LEMMA ProcessMoves ==
    ASSUME TypeInv, Idle, Stopped,
           \/ \E t \in Threads : ThreadExit(t) \/ NullConnection(t)
           \/ \E q \in Queues : DequeueLost(q)
           \/ SignalStop \/ RunReturns \/ HandlerCrash \/ Run
    PROVE  Move /\ Idle'
  <1>1. ASSUME NEW t \in Threads, ThreadExit(t) PROVE Move /\ Idle'
    BY <1>1, GotoMoves DEF ThreadExit, Idle, ThreadStates
  <1>2. CASE (\E t \in Threads : NullConnection(t)) \/ HandlerCrash
    BY <1>2, DiesMoves DEF NullConnection, HandlerCrash
  <1>3. ASSUME NEW q \in Queues, DequeueLost(q) PROVE Move /\ Idle'
    BY <1>3, LeaveMoves DEF DequeueLost
  <1>4. CASE SignalStop \/ RunReturns
    BY <1>4, StillStays DEF SignalStop, RunReturns, threadVars, NothingFresher, Fresh, Idle
  <1>5. CASE Run
    BY <1>5, StillStays DEF Run, NothingFresher, Fresh, Idle, Stopped
  <1>6. QED
    BY <1>1, <1>2, <1>3, <1>4, <1>5

(* No thread takes a step while the process does not run.                  *)
LEMMA StoppedStep == TypeInv /\ Stopped /\ [Next]_vars => Stopped'
  <1> SUFFICES ASSUME TypeInv, Stopped, [Next]_vars PROVE Stopped'
    OBVIOUS
  <1> USE DEF Stopped, Threads
  <1>1. ASSUME NEW o \in Orders, Intake(o) \/ ServerCrash PROVE Stopped'
    BY <1>1 DEF Intake, InsertOrder, PushOrder, FinishOrder, ServerCrash, processVars, threadVars
  <1>2. ASSUME NEW t \in ChargeThreads, ChargeStep(t) PROVE Stopped'
    BY <1>2 DEF ChargeStep, ChargeDequeue, CanTake, ChargeRequest, ChargeFailed, ChargeTellFailed,
                ChargeSucceeded, Settle, Send, processVars
  <1>3. ASSUME NEW t \in QueryThreads, QueryStep(t) PROVE Stopped'
    BY <1>3 DEF QueryStep, QueryDequeue, CanTake, QueryPushBack, QueryRequest, QueryFinished,
                QueryDropped, QueryTellSuccess, Settle, Send, processVars
  <1>4. ASSUME NEW t \in NotifyThreads, NotifyStep(t) PROVE Stopped'
    BY <1>4 DEF NotifyStep, NotifyDequeue, NotifyDropped, CanTake, NotifyCheck, NotifyPost,
                NotifyRecord, processVars
  <1>5. ASSUME NEW t \in Threads, ThreadExit(t) \/ NullConnection(t) PROVE Stopped'
    BY <1>5 DEF ThreadExit, NullConnection, ProcessDies, processVars
  <1>6. CASE (\E q \in Queues : DequeueLost(q)) \/ SignalStop \/ RunReturns \/ HandlerCrash \/ Run \/ Tick
    BY <1>6 DEF DequeueLost, SignalStop, RunReturns, HandlerCrash, ProcessDies, Run, Tick,
                processVars, threadVars
  <1>7. CASE UNCHANGED vars
    BY <1>7 DEF vars
  <1>8. CASE ServerCrash
    BY <1>8 DEF ServerCrash, processVars, threadVars
  <1>9. QED
    BY <1>1, <1>2, <1>3, <1>4, <1>5, <1>6, <1>7, <1>8 DEF Next

(* At first there is no message anywhere.                                  *)
LEMMA InitCustody == Init => CustodyInv
  <1> SUFFICES ASSUME Init PROVE CustodyInv
    OBVIOUS
  <1>1. \A q \in Queues : DOMAIN queue[q] = {}
    BY DEF Init
  <1>2. \A t \in Threads : held[t] = NoMsg
    BY DEF Init
  <1>3. QED
    BY <1>1, <1>2, InitType DEF Init, CustodyInv, Idle, Stopped, Alone

(* Every step is a move, and keeps the custody invariant.                  *)
LEMMA StepMoves == TypeInv /\ Idle /\ Stopped /\ [Next]_vars => Move /\ Idle'
  <1> SUFFICES ASSUME TypeInv, Idle, Stopped, [Next]_vars PROVE Move /\ Idle'
    OBVIOUS
  <1>1. CASE ServerCrash
    <2>1. PICK o \in Orders : TRUE
      BY <1>1 DEF ServerCrash, InProgress
    <2>2. QED
      BY <1>1, <2>1, IntakeMoves
  <1>2. CASE UNCHANGED vars
    BY <1>2, StillStays DEF vars, NothingFresher, Fresh, Idle
  <1>3. QED
    BY <1>1, <1>2, IntakeMoves, ChargeMoves, QueryMoves, NotifyMoves, TickMoves, ProcessMoves DEF Next

(* CustodyInv is inductive.                                                *)
LEMMA CustodyStep == CustodyInv /\ [Next]_vars => CustodyInv'
  BY TypeInvStep, StoppedStep, StepMoves, MoveAlone DEF CustodyInv

(* What is alone is in one place at most.                                  *)
LEMMA AloneIsSingle == CustodyInv => SingleCustody
  <1> SUFFICES ASSUME CustodyInv, NEW o \in Orders PROVE Cardinality(Custody(o)) <= 1
    BY DEF SingleCustody
  <1>1. \A p \in Custody(o) :
            \/ \E q \in Queues, i \in Nat : p = <<q, i>> /\ i \in DOMAIN queue[q] /\ At(q, i) = o
            \/ \E t \in Threads : p = <<t, 0>> /\ held[t] # NoMsg /\ held[t].order = o
    <2>1. TypeInv
      BY DEF CustodyInv
    <2>2. \A q \in Queues : queue[q] \in Seq(Message)
      BY <2>1, PlaceTypes
    <2>3. ASSUME NEW q \in Queues, NEW i \in 1..2 * Cardinality(Orders), i <= Len(queue[q])
          PROVE  i \in Nat /\ i \in DOMAIN queue[q]
      BY <2>2, <2>3
    <2>4. QED
      BY <2>3 DEF Custody, Holds, At
  <1>2. \A p, r \in Custody(o) : p = r
    BY <1>1 DEF CustodyInv, Alone
  <1>3. Custody(o) = {} \/ \E p : Custody(o) = {p}
    BY <1>2
  <1>4. Cardinality(Custody(o)) \in {0, 1}
    BY <1>3, FS_EmptySet, FS_Singleton
  <1>5. QED
    BY <1>4

(* No order is ever in two lists, twice in one, or in the hands of two     *)
(* threads: no crash, lost reply, requeue or restart duplicates a message. *)
THEOREM CustodyCorrect == Spec => []SingleCustody
  BY InitCustody, CustodyStep, AloneIsSingle, PTL DEF Spec

(***************************************************************************)
(* An order is charged at most once.                                       *)
(***************************************************************************)

(* An order that was charged has left "underway" and the charge threads'   *)
(* hands for good.                                                         *)
ChargeOnce ==
    \A o \in Orders :
        /\ charges[o] <= 1
        /\ charges[o] # 0 =>
              /\ ~Fresh(o)
              /\ \A i \in DOMAIN queue["underway"] : At("underway", i) # o
              /\ \A t \in Threads : Holds(t, o) => pc[t] # "charge"

ChargeInv == CustodyInv /\ ChargeOnce

(* No order is about to be charged that was not before.                    *)
NoNewCharge ==
    /\ charges' = charges
    /\ NothingFresher
    /\ \A i \in DOMAIN queue'["underway"] :
          \/ Fresh(queue'["underway"][i].order)
          \/ \E j \in DOMAIN queue["underway"] : queue'["underway"][i].order = At("underway", j)
    /\ \A t \in Threads : held'[t] # NoMsg /\ pc'[t] = "charge" =>
          \/ pc[t] = "charge" /\ held[t] # NoMsg /\ held'[t].order = held[t].order
          \/ \E j \in DOMAIN queue["underway"] : held'[t].order = At("underway", j)

(* A step that brings no order nearer to a charge keeps the invariant.     *)
LEMMA NoNewChargeStep == ChargeOnce /\ NoNewCharge => ChargeOnce'
  BY DEF ChargeOnce, NoNewCharge, NothingFresher, At, Holds

(* A move that neither appends to "underway" nor sends a thread to charge. *)
LEMMA MoveCharges ==
    ASSUME TypeInv, Move, charges' = charges,
           \A t \in Threads : pc'[t] = "charge" => pc[t] = "charge" /\ held'[t] = held[t],
           \/ queue'["underway"] = queue["underway"]
           \/ queue["underway"] # <<>> /\ queue'["underway"] = Tail(queue["underway"])
    PROVE  NoNewCharge
  <1>1. NothingFresher
    BY DEF Move, Stay, Enter, Leave, Fetch, Hand
  <1>2. queue["underway"] \in Seq(Message)
    BY PlaceTypes DEF Queues
  <1>3. \A i \in DOMAIN queue'["underway"] :
            \E j \in DOMAIN queue["underway"] : queue'["underway"][i].order = At("underway", j)
    <2>1. CASE queue'["underway"] = queue["underway"]
      BY <2>1 DEF At
    <2>2. CASE queue["underway"] # <<>> /\ queue'["underway"] = Tail(queue["underway"])
      BY <1>2, <2>2, TailAt DEF At
    <2>3. QED
      BY <2>1, <2>2
  <1>4. QED
    BY <1>1, <1>3 DEF NoNewCharge

(* At first nothing was charged.                                           *)
LEMMA InitCharge == Init => ChargeInv
  BY InitCustody DEF Init, ChargeInv, ChargeOnce, Queues

(* The push of the intake.                                                 *)
LEMMA IntakeCharges ==
    ASSUME CustodyInv, NEW o \in Orders, Intake(o)
    PROVE  NoNewCharge
  <1>1. charges' = charges /\ held' = held /\ pc' = pc
    BY DEF Intake, InsertOrder, PushOrder, FinishOrder, threadVars
  <1>2. Move /\ TypeInv
    BY IntakeMoves DEF CustodyInv
  <1>3. CASE queue' = queue
    BY <1>1, <1>2, <1>3, MoveCharges
  <1>4. CASE PushOrder(o) /\ Push("underway", NewMessage(o))
    <2>1. NewMessage(o) \in Message /\ NewMessage(o).order = o
      BY PipelineAssumption DEF NewMessage, Message, OrderStatus, QueryPause
    <2>2. Fresh(o)
      BY <1>4 DEF PushOrder, Fresh
    <2>3. queue["underway"] \in Seq(Message) /\ queue'["underway"] = Append(queue["underway"], NewMessage(o))
      BY <1>2, <1>4, PlaceTypes DEF Push, Queues
    <2>4. \A i \in DOMAIN queue'["underway"] :
              \/ Fresh(queue'["underway"][i].order)
              \/ \E j \in DOMAIN queue["underway"] : queue'["underway"][i].order = At("underway", j)
      BY <2>1, <2>2, <2>3, AppendAt DEF At
    <2>5. NothingFresher
      BY <1>2 DEF Move, Stay, Enter, Leave, Fetch, Hand
    <2>6. QED
      BY <1>1, <2>4, <2>5 DEF NoNewCharge
  <1>5. QED
    BY <1>3, <1>4 DEF Intake, InsertOrder, PushOrder, FinishOrder

(* A charge thread takes what it charges from "underway" and submits it    *)
(* once before it goes on.                                                 *)
LEMMA ChargeCharges ==
    ASSUME ChargeInv, NEW t \in ChargeThreads, ChargeStep(t)
    PROVE  ChargeOnce'
  <1>1. t \in Threads /\ TypeInv /\ Idle /\ Alone /\ ChargeOnce /\ Move
    BY ChargeMoves DEF ChargeInv, CustodyInv, Threads
  <1>2. CASE ChargeDequeue(t)
    <2>1. queue["underway"] \in Seq(Message) /\ queue["underway"] # <<>>
      BY <1>1, <1>2, PlaceTypes DEF ChargeDequeue, CanTake, Queues
    <2>2. /\ 1 \in DOMAIN queue["underway"]
          /\ [Head(queue["underway"]) EXCEPT !.idle = 0].order = At("underway", 1)
      BY <2>1, TailMessage DEF At, Message
    <2>3. queue'["underway"] = Tail(queue["underway"])
      BY <1>1, <1>2, PlaceTypes DEF ChargeDequeue, Take, Queues
    <2>4. /\ held' = [held EXCEPT ![t] = [Head(queue["underway"]) EXCEPT !.idle = 0]]
          /\ pc' = [pc EXCEPT ![t] = "charge"]
      BY <1>2 DEF ChargeDequeue, Take, Goto
    <2>5. \A u \in Threads : held'[u] # NoMsg /\ pc'[u] = "charge" =>
              \/ pc[u] = "charge" /\ held[u] # NoMsg /\ held'[u].order = held[u].order
              \/ held'[u].order = At("underway", 1)
      BY <1>1, <2>2, <2>4 DEF TypeInv, TypeOK
    <2>6. \A i \in DOMAIN queue'["underway"] :
            \E j \in DOMAIN queue["underway"] : queue'["underway"][i].order = At("underway", j)
      BY <2>1, <2>3, TailAt DEF At
    <2>7. NothingFresher /\ charges' = charges
      BY <1>2 DEF ChargeDequeue, NothingFresher, Fresh
    <2>8. QED
      BY <1>1, <2>2, <2>5, <2>6, <2>7, NoNewChargeStep DEF NoNewCharge
  <1>3. CASE ChargeRequest(t)
    <2>1. DEFINE o == held[t].order
    <2>2. o \in Orders /\ held[t] # NoMsg /\ pc[t] = "charge"
      BY <1>1, <1>3, HeldType, PipelineAssumption DEF ChargeRequest
    <2>3. charges[o] = 0
      BY <1>1, <2>2 DEF ChargeOnce, Holds
    <2>4. charges' = [charges EXCEPT ![o] = @ + 1] /\ charges \in [Orders -> Nat]
      BY <1>1, <1>3 DEF ChargeRequest, TypeInv, TypeOK
    <2>5. /\ ~Fresh(o)
          /\ \A i \in DOMAIN queue["underway"] : At("underway", i) # o
          /\ \A u \in Threads : Holds(u, o) => u = t
      BY <1>1, <2>2 DEF Alone, Holds, Queues
    <2>6. /\ UNCHANGED <<intake, queue, held>>
          /\ pc'[t] # "charge"
          /\ \A u \in Threads \ {t} : pc'[u] = pc[u]
      BY <1>1, <1>3 DEF ChargeRequest, Goto, TypeInv, TypeOK
    <2>7. /\ charges'[o] = 1
          /\ \A p \in Orders \ {o} : charges'[p] = charges[p]
      BY <2>2, <2>3, <2>4
    <2>8. QED
      BY <1>1, <2>2, <2>5, <2>6, <2>7 DEF ChargeOnce, Holds, Fresh, At
  <1>4. CASE ChargeFailed(t)
    <2>1. /\ charges' = charges /\ queue' = queue
          /\ \A u \in Threads : pc'[u] = "charge" => pc[u] = "charge" /\ held'[u] = held[u]
      BY <1>1, <1>4 DEF ChargeFailed, Settle, Goto, TypeInv, TypeOK
    <2>2. QED
      BY <1>1, <2>1, MoveCharges, NoNewChargeStep
  <1>5. CASE ChargeTellFailed(t) \/ ChargeSucceeded(t)
    <2>1. charges' = charges /\ queue'["underway"] = queue["underway"]
      BY <1>1, <1>5, PlaceTypes DEF ChargeTellFailed, ChargeSucceeded, Send, Enqueue, Push, Queues
    <2>2. \A u \in Threads : pc'[u] = "charge" => pc[u] = "charge" /\ held'[u] = held[u]
      BY <1>1, <1>5 DEF ChargeTellFailed, ChargeSucceeded, Send, Release, TypeInv, TypeOK
    <2>3. QED
      BY <1>1, <2>1, <2>2, MoveCharges, NoNewChargeStep
  <1>6. QED
    BY <1>2, <1>3, <1>4, <1>5 DEF ChargeStep

(* The query and notify threads put nothing in "underway".                 *)
LEMMA OtherThreadsCharge ==
    ASSUME CustodyInv, NEW t \in QueryThreads \cup NotifyThreads,
           (t \in QueryThreads /\ QueryStep(t)) \/ (t \in NotifyThreads /\ NotifyStep(t))
    PROVE  NoNewCharge
  <1>1. t \in Threads /\ TypeInv /\ Move
    BY QueryMoves, NotifyMoves DEF CustodyInv, Threads
  <1>2. charges' = charges
    BY DEF QueryStep, QueryDequeue, QueryPushBack, QueryRequest, QueryFinished, QueryDropped,
           QueryTellSuccess, Settle, Send, NotifyStep, NotifyDequeue, NotifyDropped, NotifyCheck,
           NotifyPost, NotifyRecord
  <1>3. queue'["underway"] = queue["underway"]
    <2>1. queue \in [Queues -> Seq(Message)] /\ "underway" \in Queues
      BY <1>1, PlaceTypes DEF Queues
    <2>2. CASE QueryStep(t)
      BY <2>1, <2>2 DEF QueryStep, QueryDequeue, Take, QueryPushBack, QueryRequest, QueryFinished,
           QueryDropped, QueryTellSuccess, Settle, Send, Enqueue, Push
    <2>3. CASE NotifyStep(t)
      BY <2>1, <2>3 DEF NotifyStep, NotifyDequeue, Take, NotifyDropped, NotifyCheck, NotifyPost,
           NotifyRecord
    <2>4. QED
      BY <2>2, <2>3
  <1>4. \A u \in Threads : pc'[u] = "charge" => pc[u] = "charge" /\ held'[u] = held[u]
    <2>1. pc \in [Threads -> ThreadStates] /\ held \in [Threads -> Message \cup {NoMsg}]
      BY <1>1 DEF TypeInv, TypeOK
    <2>2. CASE QueryStep(t)
      BY <2>1, <2>2 DEF QueryStep, QueryDequeue, Take, Goto, QueryPushBack, QueryRequest,
           QueryFinished, QueryDropped, QueryTellSuccess, Settle, Send, Release
    <2>3. CASE NotifyStep(t)
      BY <2>1, <2>3 DEF NotifyStep, NotifyDequeue, Take, Goto, NotifyDropped, NotifyCheck,
           NotifyPost, NotifyRecord, NotifyEnd, Release, threadVars
    <2>4. QED
      BY <2>2, <2>3
  <1>5. QED
    BY <1>1, <1>2, <1>3, <1>4, MoveCharges

(* Nor do lost replies, crashes, restarts and time.                        *)
LEMMA ProcessCharges ==
    ASSUME CustodyInv,
           \/ ServerCrash
           \/ \E t \in Threads : ThreadExit(t) \/ NullConnection(t)
           \/ \E q \in Queues : DequeueLost(q)
           \/ SignalStop \/ RunReturns \/ HandlerCrash \/ Run \/ Tick
           \/ UNCHANGED vars
    PROVE  NoNewCharge
  <1>1. TypeInv /\ Move
    BY StepMoves DEF CustodyInv, Next
  <1>2. charges' = charges
    BY DEF ServerCrash, ThreadExit, NullConnection, ProcessDies, DequeueLost, SignalStop, RunReturns,
           HandlerCrash, Run, Tick, vars
  <1>3. \/ queue'["underway"] = queue["underway"]
        \/ queue["underway"] # <<>> /\ queue'["underway"] = Tail(queue["underway"])
    <2>1. queue \in [Queues -> Seq(Message)] /\ "underway" \in Queues
      BY <1>1, PlaceTypes DEF Queues
    <2>2. CASE \E q \in Queues : DequeueLost(q)
      BY <2>1, <2>2 DEF DequeueLost
    <2>3. CASE Tick
      BY <2>1, <2>3 DEF Tick
    <2>4. QED
      BY <2>2, <2>3 DEF ServerCrash, ThreadExit, NullConnection, ProcessDies, SignalStop, RunReturns,
                        HandlerCrash, Run, vars
  <1>4. \A t \in Threads : held'[t] # NoMsg /\ pc'[t] = "charge" =>
            pc[t] = "charge" /\ held[t] # NoMsg /\ held'[t].order = held[t].order
    <2>1. pc \in [Threads -> ThreadStates] /\ held \in [Threads -> Message \cup {NoMsg}]
      BY <1>1 DEF TypeInv, TypeOK
    <2>2. CASE Tick
      <3>1. \A m \in Message : [m EXCEPT !.idle = Older(m.idle, QueryPause)].order = m.order
        BY DEF Message
      <3>2. QED
        BY <2>1, <2>2, <3>1 DEF Tick
    <2>3. CASE \E t \in Threads : ThreadExit(t)
      BY <2>1, <2>3 DEF ThreadExit, Goto
    <2>4. QED
      BY <2>1, <2>2, <2>3 DEF ServerCrash, NullConnection, ProcessDies, DequeueLost, SignalStop,
                              RunReturns, HandlerCrash, Run, vars, threadVars
  <1>5. queue["underway"] \in Seq(Message)
    BY <1>1, PlaceTypes DEF Queues
  <1>6. \A i \in DOMAIN queue'["underway"] :
            \E j \in DOMAIN queue["underway"] : queue'["underway"][i].order = At("underway", j)
    <2>1. CASE queue'["underway"] = queue["underway"]
      BY <2>1 DEF At
    <2>2. CASE queue["underway"] # <<>> /\ queue'["underway"] = Tail(queue["underway"])
      BY <1>5, <2>2, TailAt DEF At
    <2>3. QED
      BY <1>3, <2>1, <2>2
  <1>7. NothingFresher
    BY <1>1 DEF Move, Stay, Enter, Leave, Fetch, Hand
  <1>8. QED
    BY <1>2, <1>4, <1>6, <1>7 DEF NoNewCharge

(* ChargeInv is inductive.                                                 *)
LEMMA ChargeInvStep == ChargeInv /\ [Next]_vars => ChargeInv'
  <1> SUFFICES ASSUME ChargeInv, [Next]_vars PROVE ChargeInv'
    OBVIOUS
  <1>1. CustodyInv /\ ChargeOnce /\ CustodyInv'
    BY CustodyStep DEF ChargeInv
  <1>2. ASSUME NoNewCharge PROVE ChargeOnce'
    BY <1>1, <1>2, NoNewChargeStep
  <1>3. ASSUME NEW o \in Orders, Intake(o) PROVE ChargeOnce'
    BY <1>1, <1>2, <1>3, IntakeCharges
  <1>4. ASSUME NEW t \in ChargeThreads, ChargeStep(t) PROVE ChargeOnce'
    BY <1>4, ChargeCharges
  <1>5. ASSUME NEW t \in QueryThreads, QueryStep(t) PROVE ChargeOnce'
    BY <1>1, <1>2, <1>5, OtherThreadsCharge
  <1>6. ASSUME NEW t \in NotifyThreads, NotifyStep(t) PROVE ChargeOnce'
    BY <1>1, <1>2, <1>6, OtherThreadsCharge
  <1>7. ChargeOnce'
    BY <1>1, <1>2, <1>3, <1>4, <1>5, <1>6, ProcessCharges DEF Next
  <1>8. QED
    BY <1>1, <1>7 DEF ChargeInv

(* The charge threads submit an order to the suppliers at most once,       *)
(* whatever crashes, restarts and replies are lost.                        *)
THEOREM ChargeCorrect == Spec => []AtMostOneCharge
  <1>1. ChargeInv => AtMostOneCharge
    BY DEF ChargeInv, ChargeOnce, AtMostOneCharge
  <1>2. QED
    BY <1>1, InitCharge, ChargeInvStep, PTL DEF Spec
=============================================================================
