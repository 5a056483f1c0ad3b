--------------------------- MODULE OrderPipeline ---------------------------
(***************************************************************************)
(* The life of a recharge order after its request has been accepted: the   *)
(* thrift server inserts the row and pushes the order to the redis list    *)
(* "underway"; the charge, query and notify threads of topup_handle carry  *)
(* it through the lists "query" and "notify"; the Oracle row records its   *)
(* status and whether its buyer was told.  (ChargeBusiness.cpp,            *)
(* OrderHandler.cpp, TopupHandleMain.cpp, TopupImpl.cpp.)                  *)
(***************************************************************************)
EXTENDS Integers, Sequences, FiniteSets

CONSTANTS
    Orders,         \* system order numbers (coopOrderNo, SYSTEM_NO)
    Tmall,          \* the orders whose userid is "tmall"; the others are a customer's
    WithUrl,        \* the orders that carry a notifyUrl
    ChargeThreads, QueryThreads, NotifyThreads,
    TIMEOUT_TIME,   \* age at which an unfinished order is settled
    NotifyRetries,  \* "retry" of TmallNotify
    NotifyGarbage,  \* what an uninitialised TopupInfo.notify may hold
    MaxFaults,      \* bound: failing calls, lost replies and crashes in a behaviour
    MaxStops,       \* bound: SIGTERMs in a behaviour
    NoMsg           \* a thread between two messages

VARIABLES
    intake,         \* per order: how far CreateTmallOrder is
    queue,          \* the three redis lists, in the order RPOP returns them
    row,            \* the committed row of TOPUP_ORDER_TBL
    handler,        \* handler_status, or "Down" when topup_handle does not run
    stops,
    pc, held,       \* per thread: where it is and the message it works on
    tries, answer,  \* TmallNotify's retry and notify_status, per notify thread
    charges,        \* history: ChargeRequest calls made for the order
    told, posts,    \* history: what the buyer received, posts sent
    verdict,        \* history: the buyer's last T (1) or F (2) that was read
    done,           \* history: orders the notify threads are finished with
    faults, faulted \* history: faults so far, the orders they hit

threadVars == <<pc, held>>
postVars == <<tries, answer>>
buyerVars == <<told, posts, verdict>>
processVars == <<handler, stops>>
faultVars == <<faults, faulted>>
vars == <<intake, queue, row, handler, stops, pc, held, tries, answer,
          charges, told, posts, verdict, done, faults, faulted>>

Threads == ChargeThreads \cup QueryThreads \cup NotifyThreads
Queues == {"underway", "query", "notify"}
IntakeStates == {"new", "inserted", "pushed", "pushedInError", "inError",
                 "accepted", "refused", "dead"}
ThreadStates == {"loop", "exited",
                 "charge", "rejected", "tellFailed", "charged",
                 "tooSoon", "query", "queryLate", "succeeded", "timedOut",
                 "tellSuccess", "unfinished",
                 "check", "post"}
OrderStatus == {"CREATE", "SUCCESS", "FAILED"}

NOTIFY_UNDONE == 0
NOTIFY_SUCCESS == 1
NOTIFY_FAIL == 2
NotifyStatus == {NOTIFY_UNDONE, NOTIFY_SUCCESS, NOTIFY_FAIL}

(* The shortest time between two queries of one order, "< 1".              *)
QueryPause == 1

(* A message: the order, the status it carries, the age of its creteTime   *)
(* and of its last_op_time (ages, capped where the code stops looking).    *)
Message == [order : Orders, status : OrderStatus,
            created : 0..TIMEOUT_TIME, idle : 0..QueryPause]

ASSUME PipelineAssumption ==
    /\ Tmall \subseteq Orders
    /\ WithUrl \subseteq Orders
    /\ ChargeThreads \cap QueryThreads = {}
    /\ ChargeThreads \cap NotifyThreads = {}
    /\ QueryThreads \cap NotifyThreads = {}
    /\ TIMEOUT_TIME \in Nat \ {0}
    /\ NotifyRetries \in Nat \ {0}
    /\ NotifyGarbage \subseteq Int
    /\ MaxFaults \in Nat
    /\ MaxStops \in Nat
    /\ NoMsg \notin Message

(***************************************************************************)
(* Pieces of the actions                                                   *)
(***************************************************************************)

NoFault == UNCHANGED faultVars

(* One more fault, and the orders whose handling it disturbs.              *)
Fault(hit) ==
    /\ faults < MaxFaults
    /\ faults' = faults + 1
    /\ faulted' = faulted \cup hit

NoRow == [status |-> -1, notify |-> NOTIFY_UNDONE]

(* Mutant: the enum's own value is stored instead of the column's.         *)
DbStatusIsEnum(status) ==
    CASE status = "SUCCESS" -> 2
      [] status = "FAILED"  -> 3
      [] OTHER              -> 0

(* UpdateOrderStatus's encoding of a status.                               *)
DbStatus(status) ==
    CASE status = "SUCCESS" -> 1
      [] status = "FAILED"  -> 2
      [] OTHER              -> 0

(* UPDATE ... WHERE SYSTEM_NO = o: no row, nothing happens and no error.   *)
UpdateOrderStatus(o, status, notify) ==
    row' = IF row[o] = NoRow
           THEN row
           ELSE [row EXCEPT ![o] = [status |-> DbStatus(status), notify |-> notify]]

(* The statement or its commit fails: the row stays, the caller goes on.   *)
UpdateFails(o) == UNCHANGED row /\ Fault({o})

(* serialize_topupinfo writes the time of the call as the creation time.   *)
Serialized(m) == [m EXCEPT !.created = 0]

(* Mutant: RPUSH, the end RPOP takes from.                                 *)
PushLifo(q, m) == queue' = [queue EXCEPT ![q] = <<m>> \o @]

(* LPUSH at the end RPOP does not take from.                               *)
Push(q, m) == queue' = [queue EXCEPT ![q] = Append(@, m)]

(* Mutant: an enqueue without a reply is tried again.                      *)
EnqueueRetried(q, m) ==
    \/ Push(q, Serialized(m)) /\ NoFault
    \/ queue' = [queue EXCEPT ![q] = @ \o <<Serialized(m), Serialized(m)>>] /\ Fault({m.order})

(* A worker's enqueue; its result is not looked at.                        *)
Enqueue(q, m) ==
    \/ Push(q, Serialized(m)) /\ NoFault
    \/ UNCHANGED queue /\ Fault({m.order})

Goto(t, state) == pc' = [pc EXCEPT ![t] = state]

(* The end of an iteration: the message is deleted, back to the loop.      *)
Release(t) ==
    /\ pc' = [pc EXCEPT ![t] = "loop"]
    /\ held' = [held EXCEPT ![t] = NoMsg]

(* Mutant: the stop is only looked at when the list is empty.              *)
CanTakeStopped(t, q) ==
    /\ pc[t] = "loop"
    /\ handler \in {"Normal", "Stop"}
    /\ queue[q] # <<>>

(* The loop's head: not stopped, and RPOP returns a message.               *)
CanTake(t, q) ==
    /\ pc[t] = "loop"
    /\ handler = "Normal"
    /\ queue[q] # <<>>

Take(t, q, m, state) ==
    /\ queue' = [queue EXCEPT ![q] = Tail(@)]
    /\ held' = [held EXCEPT ![t] = m]
    /\ Goto(t, state)

HeldOrders == {held[t].order : t \in {u \in Threads : held[u] # NoMsg}}

(* A worker's update: the row, then the message's own status; a failed     *)
(* update is logged at most and the thread goes on.                        *)
Settle(t, status, notifies, state) ==
    /\ \/ /\ \E n \in notifies : UpdateOrderStatus(held[t].order, status, n)
          /\ NoFault
       \/ UpdateFails(held[t].order)
    /\ held' = [held EXCEPT ![t].status = status]
    /\ Goto(t, state)
    /\ UNCHANGED <<intake, queue, processVars, postVars, charges, buyerVars, done>>

(* The iteration's last act: the message goes on to list q.                *)
Send(t, q) ==
    /\ Enqueue(q, held[t])
    /\ Release(t)
    /\ UNCHANGED <<intake, row, processVars, postVars, charges, buyerVars, done>>

(* topup_handle dies: what its threads hold is nowhere else.               *)
ProcessDies ==
    /\ Fault(HeldOrders)
    /\ handler' = "Down"
    /\ pc' = [t \in Threads |-> "exited"]
    /\ held' = [t \in Threads |-> NoMsg]
    /\ tries' = [t \in NotifyThreads |-> 0]
    /\ answer' = [t \in NotifyThreads |-> NOTIFY_UNDONE]
    /\ UNCHANGED <<intake, queue, row, stops, charges, buyerVars, done>>

(***************************************************************************)
(* Intake: CreateTmallOrder in a thread of the thrift server.  The row is  *)
(* visible to others only when Finish commits it, after the push.          *)
(***************************************************************************)

(* The INSERT is executed and redis is connected, or one of them fails and *)
(* the request is refused.                                                 *)
InsertOrder(o) ==
    /\ intake[o] = "new"
    /\ \/ intake' = [intake EXCEPT ![o] = "inserted"] /\ NoFault
       \/ intake' = [intake EXCEPT ![o] = "refused"] /\ Fault({o})
    /\ UNCHANGED <<queue, row, processVars, threadVars, postVars, charges, buyerVars, done>>

NewMessage(o) == [order |-> o, status |-> "CREATE", created |-> 0, idle |-> QueryPause]

(* Mutant: an LPUSH without a reply is tried again.                        *)
PushOrderRetried(o) ==
    /\ intake[o] = "inserted"
    /\ intake' = [intake EXCEPT ![o] = "pushed"]
    /\ \/ Push("underway", NewMessage(o)) /\ NoFault
       \/ /\ queue' = [queue EXCEPT !["underway"] = @ \o <<NewMessage(o), NewMessage(o)>>]
          /\ Fault({o})
    /\ UNCHANGED <<row, processVars, threadVars, postVars, charges, buyerVars, done>>

(* setex of the order, then LPUSH to "underway".  A failure of either is   *)
(* remembered in errors, and the push is made even when setex failed; an   *)
(* LPUSH whose reply is lost has pushed; one that redis refuses with an    *)
(* error reply has not, and enqueue takes it for a success.                *)
PushOrder(o) ==
    /\ intake[o] = "inserted"
    /\ \/ /\ intake' = [intake EXCEPT ![o] = "pushed"]
          /\ Push("underway", NewMessage(o))
          /\ NoFault
       \/ /\ intake' = [intake EXCEPT ![o] = "pushedInError"]
          /\ Push("underway", NewMessage(o))
          /\ Fault({o})
       \/ /\ \E state \in {"inError", "pushed"} : intake' = [intake EXCEPT ![o] = state]
          /\ UNCHANGED queue
          /\ Fault({o})
    /\ UNCHANGED <<row, processVars, threadVars, postVars, charges, buyerVars, done>>

(* Finish and the reply: commit when there were no errors (the row starts  *)
(* with STATUS 1, NOTIFY 0), else rollback and ORDER_FAILED.  A commit     *)
(* that throws does not change the return value: still UNDERWAY.           *)
FinishOrder(o) ==
    /\ \/ /\ intake[o] = "pushed"
          /\ intake' = [intake EXCEPT ![o] = "accepted"]
          /\ \/ /\ row' = [row EXCEPT ![o] = [status |-> 1, notify |-> NOTIFY_UNDONE]]
                /\ NoFault
             \/ UNCHANGED row /\ Fault({o})
       \/ /\ intake[o] \in {"pushedInError", "inError"}
          /\ intake' = [intake EXCEPT ![o] = "refused"]
          /\ UNCHANGED row
          /\ NoFault
    /\ UNCHANGED <<queue, processVars, threadVars, postVars, charges, buyerVars, done>>

InProgress == {o \in Orders : intake[o] \in {"inserted", "pushed", "pushedInError", "inError"}}

(* The thrift server dies: the open transactions are rolled back.          *)
ServerCrash ==
    /\ InProgress # {}
    /\ Fault(InProgress)
    /\ intake' = [o \in Orders |-> IF o \in InProgress THEN "dead" ELSE intake[o]]
    /\ UNCHANGED <<queue, row, processVars, threadVars, postVars, charges, buyerVars, done>>

(***************************************************************************)
(* The charge thread                                                       *)
(***************************************************************************)

ChargeDequeue(t) ==
    /\ CanTake(t, "underway")
    /\ Take(t, "underway", [Head(queue["underway"]) EXCEPT !.idle = 0], "charge")
    /\ UNCHANGED <<intake, row, processVars, postVars, charges, buyerVars, done, faultVars>>

(* ChargeRequest submits the order to the suppliers and returns 0 or not.  *)
ChargeRequest(t) ==
    /\ pc[t] = "charge"
    /\ charges' = [charges EXCEPT ![held[t].order] = @ + 1]
    /\ \/ Goto(t, "charged")
       \/ Goto(t, "rejected")
    /\ UNCHANGED <<intake, queue, row, processVars, held, postVars, buyerVars, done, faultVars>>

(* Mutant: "topup_info->notify = 0" is forgotten.                          *)
ChargeFailedUnset(t) ==
    pc[t] = "rejected" /\ Settle(t, "FAILED", NotifyGarbage, "tellFailed")

(* ret != 0: status FAILED and notify 0 are written to the row ...         *)
ChargeFailed(t) ==
    pc[t] = "rejected" /\ Settle(t, "FAILED", {NOTIFY_UNDONE}, "tellFailed")

(* Mutant: a refused order goes back for another attempt.                  *)
ChargeTellFailedAgain(t) == pc[t] = "tellFailed" /\ Send(t, "underway")

(* Mutant: a refused order goes to the list of the branch below.           *)
ChargeTellFailedWrongList(t) == pc[t] = "tellFailed" /\ Send(t, "query")

(* ... and the order is pushed to "notify".                                *)
ChargeTellFailed(t) == pc[t] = "tellFailed" /\ Send(t, "notify")

(* ret = 0: nothing is written, the order is pushed to "query".            *)
ChargeSucceeded(t) == pc[t] = "charged" /\ Send(t, "query")

(* CreateConnection returned NULL and the thread uses it all the same.     *)
NullConnection(t) ==
    /\ pc[t] \in {"rejected", "charged", "succeeded"}
    /\ ProcessDies

(***************************************************************************)
(* The query thread                                                        *)
(***************************************************************************)

(* time_now is read once, at the dequeue: the pause and the timeout are    *)
(* both decided with it, and last_op_time is set to it.                    *)
QueryDequeue(t) ==
    /\ CanTake(t, "query")
    /\ LET m == Head(queue["query"])
       IN  IF m.idle < QueryPause
           THEN Take(t, "query", m, "tooSoon")
           ELSE Take(t, "query", [m EXCEPT !.idle = 0],
                     IF m.created >= TIMEOUT_TIME THEN "queryLate" ELSE "query")
    /\ UNCHANGED <<intake, row, processVars, postVars, charges, buyerVars, done, faultVars>>

(* Mutant: the early "continue" skips the push back.                       *)
QueryPushBackSkipped(t) ==
    \/ pc[t] = "unfinished" /\ Send(t, "query")
    \/ /\ pc[t] = "tooSoon"
       /\ Release(t)
       /\ UNCHANGED <<intake, queue, row, processVars, postVars, charges, buyerVars, done, faultVars>>

(* Mutant: back to the list it came from first.                            *)
QueryPushBackToCharge(t) == pc[t] \in {"tooSoon", "unfinished"} /\ Send(t, "underway")

(* Queried less than a second ago, or not finished: back to "query".       *)
QueryPushBack(t) == pc[t] \in {"tooSoon", "unfinished"} /\ Send(t, "query")

(* QueryRequest returns 0, or anything else (underway, failed, unknown     *)
(* order, no answer), which are all treated alike.                         *)
QueryRequest(t) ==
    /\ pc[t] \in {"query", "queryLate"}
    /\ \/ Goto(t, "succeeded")
       \/ Goto(t, IF pc[t] = "queryLate" THEN "timedOut" ELSE "unfinished")
    /\ UNCHANGED <<intake, queue, row, processVars, held, postVars, charges, buyerVars,
                   done, faultVars>>

(* Status SUCCESS and the notify field, which nobody has set, are written. *)
QueryFinished(t) ==
    pc[t] \in {"succeeded", "timedOut"} /\ Settle(t, "SUCCESS", NotifyGarbage, "tellSuccess")

(* No connection for a timed out order: "continue", the order is dropped.  *)
QueryDropped(t) ==
    /\ pc[t] = "timedOut"
    /\ Fault({held[t].order})
    /\ Release(t)
    /\ UNCHANGED <<intake, queue, row, processVars, postVars, charges, buyerVars, done>>

QueryTellSuccess(t) == pc[t] = "tellSuccess" /\ Send(t, "notify")

(***************************************************************************)
(* The notify thread                                                       *)
(***************************************************************************)

(* The message is taken before the connection is: without one, "continue". *)
NotifyDequeue(t) ==
    /\ CanTake(t, "notify")
    /\ Take(t, "notify", Head(queue["notify"]), "check")
    /\ UNCHANGED <<intake, row, processVars, postVars, charges, buyerVars, done, faultVars>>

NotifyDropped(t) ==
    /\ CanTake(t, "notify")
    /\ queue' = [queue EXCEPT !["notify"] = Tail(@)]
    /\ Fault({Head(queue["notify"]).order})
    /\ UNCHANGED <<intake, row, processVars, threadVars, postVars, charges, buyerVars, done>>

NotifyEnd(t) ==
    /\ done' = done \cup {held[t].order}
    /\ Release(t)

(* GetNotifyStatus: the row's NOTIFY, 0 without a row or on an exception.  *)
GetNotifyStatus(o, n) ==
    \/ n = row[o].notify /\ NoFault
    \/ n = NOTIFY_UNDONE /\ row[o].notify # NOTIFY_UNDONE /\ Fault({o})

(* TopupCustomer.Notify does nothing; TopupImpl.Notify goes on only when   *)
(* NOTIFY is 0, and TmallNotify only with a notifyUrl.                     *)
NotifyCheck(t) ==
    /\ pc[t] = "check"
    /\ LET o == held[t].order
       IN  \/ /\ o \in Tmall
              /\ \E n \in {row[o].notify, NOTIFY_UNDONE} :
                    /\ GetNotifyStatus(o, n)
                    /\ IF n = NOTIFY_UNDONE /\ o \in WithUrl
                       THEN /\ tries' = [tries EXCEPT ![t] = NotifyRetries]
                            /\ answer' = [answer EXCEPT ![t] = NOTIFY_UNDONE]
                            /\ Goto(t, "post")
                            /\ UNCHANGED <<held, done>>
                       ELSE NotifyEnd(t) /\ UNCHANGED postVars
           \/ o \notin Tmall /\ NotifyEnd(t) /\ NoFault /\ UNCHANGED postVars
    /\ UNCHANGED <<intake, queue, row, processVars, charges, buyerVars>>

(* Mutant: "retry >= 0".                                                   *)
MorePostsOffByOne(t) == tries[t] >= 0 /\ answer[t] = NOTIFY_UNDONE

(* Mutant: the loop looks at retry only.                                   *)
MorePostsRetryOnly(t) == tries[t] > 0

(* The condition of TmallNotify's loop.                                    *)
MorePosts(t) == tries[t] > 0 /\ answer[t] = NOTIFY_UNDONE

(* One round of TmallNotify's loop.  The post reaches the buyer or not;    *)
(* the answer read is T, F, or none (no HTTP 200, or nothing to parse).    *)
NotifyPost(t) ==
    /\ pc[t] = "post"
    /\ MorePosts(t)
    /\ tries' = [tries EXCEPT ![t] = @ - 1]
    /\ LET o == held[t].order
       IN  /\ posts' = [posts EXCEPT ![o] = @ + 1]
           /\ \/ /\ told' = [told EXCEPT ![o] = @ \cup {held[t].status}]
                 /\ \E a \in NotifyStatus :
                       /\ answer' = [answer EXCEPT ![t] = a]
                       /\ verdict' = IF a = NOTIFY_UNDONE THEN verdict
                                     ELSE [verdict EXCEPT ![o] = a]
              \/ UNCHANGED <<told, answer, verdict>>
    /\ UNCHANGED <<intake, queue, row, processVars, threadVars, charges, done, faultVars>>

(* Mutant: the end of the loop counts as an answer.                        *)
OutcomeAlwaysSuccess(t) == NOTIFY_SUCCESS

(* After the loop: notify is the answer, NOTIFY_FAIL without one.          *)
Outcome(t) == IF answer[t] = NOTIFY_UNDONE THEN NOTIFY_FAIL ELSE answer[t]

NotifyRecord(t) ==
    /\ pc[t] = "post"
    /\ ~MorePosts(t)
    /\ \/ UpdateOrderStatus(held[t].order, held[t].status, Outcome(t)) /\ NoFault
       \/ UpdateFails(held[t].order)
    /\ NotifyEnd(t)
    /\ tries' = [tries EXCEPT ![t] = 0]
    /\ answer' = [answer EXCEPT ![t] = NOTIFY_UNDONE]
    /\ UNCHANGED <<intake, queue, processVars, charges, buyerVars>>

(***************************************************************************)
(* The process: threads, signals, redis, time                              *)
(***************************************************************************)

(* RPOP removed the message and its reply was lost: dequeue returns false. *)
DequeueLost(q) ==
    /\ handler = "Normal"
    /\ queue[q] # <<>>
    /\ queue' = [queue EXCEPT ![q] = Tail(@)]
    /\ Fault({Head(queue[q]).order})
    /\ UNCHANGED <<intake, row, processVars, threadVars, postVars, charges, buyerVars, done>>

(* A thread leaves its loop: at a stop, or when redis cannot be reached.   *)
ThreadExit(t) ==
    /\ pc[t] = "loop"
    /\ \/ handler = "Stop" /\ NoFault
       \/ handler = "Normal" /\ Fault({})
    /\ Goto(t, "exited")
    /\ UNCHANGED <<intake, queue, row, processVars, held, postVars, charges, buyerVars, done>>

(* signalHandler.                                                          *)
SignalStop ==
    /\ handler = "Normal"
    /\ stops < MaxStops
    /\ handler' = "Stop"
    /\ stops' = stops + 1
    /\ UNCHANGED <<intake, queue, row, threadVars, postVars, charges, buyerVars, done, faultVars>>

(* Run returns when every thread has been joined.                          *)
RunReturns ==
    /\ handler # "Down"
    /\ \A t \in Threads : pc[t] = "exited"
    /\ handler' = "Down"
    /\ UNCHANGED <<intake, queue, row, stops, threadVars, postVars, charges, buyerVars,
                   done, faultVars>>

HandlerCrash == handler # "Down" /\ ProcessDies

(* topup_handle is started again: Run creates all the threads.             *)
Run ==
    /\ handler = "Down"
    /\ handler' = "Normal"
    /\ pc' = [t \in Threads |-> "loop"]
    /\ UNCHANGED <<intake, queue, row, stops, held, postVars, charges, buyerVars, done,
                   faultVars>>

Older(age, cap) == IF age < cap THEN age + 1 ELSE age

Aged(m) == [m EXCEPT !.created = Older(m.created, TIMEOUT_TIME),
                     !.idle = Older(m.idle, QueryPause)]

(* Time passes.  Only the ages that are read again are kept: those of the  *)
(* list "query", and the idle time of what a thread holds.                 *)
Tick ==
    /\ queue' = [queue EXCEPT !["query"] =
                    [i \in DOMAIN queue["query"] |-> Aged(queue["query"][i])]]
    /\ held' = [t \in Threads |->
                    IF held[t] = NoMsg THEN NoMsg
                    ELSE [held[t] EXCEPT !.idle = Older(held[t].idle, QueryPause)]]
    /\ UNCHANGED <<intake, row, processVars, pc, postVars, charges, buyerVars, done, faultVars>>

(***************************************************************************)
(* Specification                                                           *)
(***************************************************************************)

Init ==
    /\ intake = [o \in Orders |-> "new"]
    /\ queue = [q \in Queues |-> <<>>]
    /\ row = [o \in Orders |-> NoRow]
    /\ handler = "Normal"
    /\ stops = 0
    /\ pc = [t \in Threads |-> "loop"]
    /\ held = [t \in Threads |-> NoMsg]
    /\ tries = [t \in NotifyThreads |-> 0]
    /\ answer = [t \in NotifyThreads |-> NOTIFY_UNDONE]
    /\ charges = [o \in Orders |-> 0]
    /\ told = [o \in Orders |-> {}]
    /\ posts = [o \in Orders |-> 0]
    /\ verdict = [o \in Orders |-> NOTIFY_UNDONE]
    /\ done = {}
    /\ faults = 0
    /\ faulted = {}

Intake(o) == InsertOrder(o) \/ PushOrder(o) \/ FinishOrder(o)

ChargeStep(t) ==
    \/ ChargeDequeue(t) \/ ChargeRequest(t) \/ ChargeFailed(t)
    \/ ChargeTellFailed(t) \/ ChargeSucceeded(t)

QueryStep(t) ==
    \/ QueryDequeue(t) \/ QueryPushBack(t) \/ QueryRequest(t)
    \/ QueryFinished(t) \/ QueryDropped(t) \/ QueryTellSuccess(t)

NotifyStep(t) ==
    \/ NotifyDequeue(t) \/ NotifyDropped(t) \/ NotifyCheck(t)
    \/ NotifyPost(t) \/ NotifyRecord(t)

Next ==
    \/ \E o \in Orders : Intake(o)
    \/ ServerCrash
    \/ \E t \in ChargeThreads : ChargeStep(t)
    \/ \E t \in QueryThreads : QueryStep(t)
    \/ \E t \in NotifyThreads : NotifyStep(t)
    \/ \E t \in Threads : ThreadExit(t) \/ NullConnection(t)
    \/ \E q \in Queues : DequeueLost(q)
    \/ SignalStop \/ RunReturns \/ HandlerCrash \/ Run
    \/ Tick

Spec == Init /\ [][Next]_vars

(* Every thread that runs is scheduled again, and time goes on.  Nothing   *)
(* is assumed of the intake, of signals, of restarts or of faults.         *)
Fairness ==
    /\ \A t \in ChargeThreads : WF_vars(ChargeStep(t) \/ ThreadExit(t))
    /\ \A t \in QueryThreads : WF_vars(QueryStep(t) \/ ThreadExit(t))
    /\ \A t \in NotifyThreads : WF_vars(NotifyStep(t) \/ ThreadExit(t))
    /\ WF_vars(RunReturns)
    /\ WF_vars(Tick)

FairSpec == Spec /\ Fairness

(***************************************************************************)
(* Properties                                                              *)
(***************************************************************************)

InQueue(q, o) == \E i \in DOMAIN queue[q] : queue[q][i].order = o
Holds(t, o) == held[t] # NoMsg /\ held[t].order = o

(* Where the order's messages are: positions of lists, and threads.        *)
Custody(o) ==
    {p \in Queues \X (1..2 * Cardinality(Orders)) :
        p[2] <= Len(queue[p[1]]) /\ queue[p[1]][p[2]].order = o}
    \cup {<<t, 0>> : t \in {u \in Threads : Holds(u, o)}}

(* The order is somewhere.                                                 *)
InCustody(o) == (\E q \in Queues : InQueue(q, o)) \/ (\E t \in Threads : Holds(t, o))

(* Type invariant: every variable keeps its shape.                         *)
TypeOK ==
    /\ intake \in [Orders -> IntakeStates]
    /\ queue \in [Queues -> Seq(Message)]
    /\ row \in [Orders -> [status : -1..2, notify : Int]]
    /\ handler \in {"Normal", "Stop", "Down"}
    /\ stops \in 0..MaxStops
    /\ pc \in [Threads -> ThreadStates]
    /\ held \in [Threads -> Message \cup {NoMsg}]
    /\ tries \in [NotifyThreads -> 0..NotifyRetries]
    /\ answer \in [NotifyThreads -> NotifyStatus]
    /\ charges \in [Orders -> Nat]
    /\ told \in [Orders -> SUBSET OrderStatus]
    /\ posts \in [Orders -> Nat]
    /\ verdict \in [Orders -> NotifyStatus]
    /\ done \subseteq Orders
    /\ faults \in 0..MaxFaults
    /\ faulted \subseteq Orders

(* No two copies of an order: its message is in one list, once, or in the  *)
(* hands of one thread; no crash, lost reply or requeue duplicates it.     *)
SingleCustody == \A o \in Orders : Cardinality(Custody(o)) <= 1

(* An order whose push was not in error is in a list, in a thread or done, *)
(* unless a fault hit it: no path of the code drops one by itself, and a   *)
(* SIGTERM loses none.                                                     *)
NoSilentLoss ==
    \A o \in Orders :
        intake[o] \in {"pushed", "accepted"} =>
            InCustody(o) \/ o \in done \/ o \in faulted

(* The charge threads submit an order at most once, whatever crashes and   *)
(* restarts: RPOP has removed it and a failure is never queued again.      *)
AtMostOneCharge == \A o \in Orders : charges[o] <= 1

(* The buyer of an order is never told both SUCCESS and FAILED.            *)
ConsistentNews == \A o \in Orders : ~({"SUCCESS", "FAILED"} \subseteq told[o])

(* At most NotifyRetries posts for an order in its whole life.             *)
PostsBounded == \A o \in Orders : posts[o] <= NotifyRetries

(* The NOTIFY column of a FAILED row is what the buyer's answers were: T   *)
(* or F as read, or NOTIFY_FAIL when every post stayed without an answer.  *)
FailedRowTellsAnswer ==
    \A o \in Orders :
        row[o].status = 2 =>
            \/ row[o].notify = NOTIFY_UNDONE
            \/ row[o].notify = verdict[o]
            \/ /\ row[o].notify = NOTIFY_FAIL
               /\ verdict[o] = NOTIFY_UNDONE
               /\ posts[o] = NotifyRetries

(* Once an answer of the buyer has been read, it is never posted to again. *)
NoPostAfterVerdict ==
    [][\A o \in Orders : verdict[o] # NOTIFY_UNDONE => posts'[o] = posts[o]]_vars

(* A row that says FAILED says so for ever: the query thread, a late       *)
(* commit or a notification never overwrites it.                           *)
FailedIsFinal == [][\A o \in Orders : row[o].status = 2 => row'[o].status = 2]_vars

Waiting(o) ==
    \E i \in DOMAIN queue["query"] : /\ queue["query"][i].order = o
                                     /\ queue["query"][i].idle = QueryPause

(* No order starves in "query": one that may be queried again is taken     *)
(* again, however many others are pushed back around it, unless a SIGTERM  *)
(* ends the process first.                                                 *)
QueriedAgain == \A o \in Orders : Waiting(o) ~> (~Waiting(o) \/ handler # "Normal")

(* A failed tmall order with a notifyUrl is told to its buyer: an answer   *)
(* is read or all the posts are spent, unless a SIGTERM ends the process   *)
(* first.                                                                  *)
FailedOrderIsTold ==
    \A o \in Tmall \cap WithUrl :
        (\E t \in ChargeThreads : pc[t] = "tellFailed" /\ Holds(t, o))
            ~> \/ verdict[o] # NOTIFY_UNDONE \/ posts[o] = NotifyRetries
               \/ handler # "Normal"

(* After a SIGTERM every thread finishes its message and the process ends. *)
StopDrains == (handler = "Stop") ~> (handler = "Down")

(***************************************************************************)
(* The pipeline implements OrderLifecycle.                                 *)
(***************************************************************************)

(* An order's place on its way, from the list or the thread that has it.   *)
InList(q, m) ==
    CASE q = "underway" -> "underway"
      [] q = "query"    -> "submitted"
      [] OTHER          -> m.status

InThread(state, m) ==
    CASE state = "charge" -> "underway"
      [] state \in {"tellFailed", "tellSuccess", "check", "post"} -> m.status
      [] OTHER -> "submitted"

StagesIn(q, o) == {InList(q, queue[q][i]) : i \in {j \in DOMAIN queue[q] : queue[q][j].order = o}}

StagesHeld(o) == {InThread(pc[t], held[t]) : t \in {u \in Threads : Holds(u, o)}}

StagesOf(o) == StagesHeld(o) \cup UNION {StagesIn(q, o) : q \in Queues}

StageOf(o) ==
    IF intake[o] \in {"new", "inserted"} THEN "new"
    ELSE IF StagesOf(o) = {} THEN "over"
    ELSE CHOOSE s \in StagesOf(o) : TRUE

Lifecycle ==
    INSTANCE OrderLifecycle
        WITH stage <- [o \in Orders |-> StageOf(o)], MaxPosts <- NotifyRetries

(* Whatever fails, crashes or restarts, each order goes one way: it is     *)
(* charged once, has one result, and its posts end at the first answer.    *)
ImplementsLifecycle == Lifecycle!Spec

(***************************************************************************)
(* What the comments of the code say                                       *)
(***************************************************************************)

InQueryStage(o) ==
    InQueue("query", o) \/ \E t \in QueryThreads : Holds(t, o)

(* OrderHandler.cpp:179, "an order about to time out is settled as a       *)
(* success": no order stays in the query stage for ever.                   *)
TimeoutSettles == \A o \in Orders : InQueryStage(o) ~> ~InQueryStage(o)

(* OrderHandler.cpp:77, "set the order's status to failed, and notify": a  *)
(* committed order on its way to the notify thread as FAILED is FAILED in  *)
(* its row, unless a fault hit it.                                         *)
FailureIsRecorded ==
    \A i \in DOMAIN queue["notify"] :
        LET m == queue["notify"][i]
        IN  m.status = "FAILED" /\ intake[m.order] = "accepted" /\ m.order \notin faulted
                => row[m.order].status = 2

(* TopupImpl.cpp:217, "fail to create order": a request answered           *)
(* ORDER_FAILED is never charged.                                          *)
RefusedIsNotCharged == \A o \in Orders : intake[o] = "refused" => charges[o] = 0
=============================================================================
