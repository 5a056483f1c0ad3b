-------------------------- MODULE OrderNewsProofs ---------------------------
(***************************************************************************)
(* What becomes known of OrderPipeline's orders, for any number of orders, *)
(* threads and retries and any faults: a FAILED row stays one, and a buyer *)
(* is told one story, a bounded number of times, never after his answer.   *)
(***************************************************************************)
EXTENDS OrderPipelineProofs

(***************************************************************************)
(* The row of a failed order in OrderPipeline, for any number of orders    *)
(* and threads and any faults: once it says FAILED it says so for ever.    *)
(***************************************************************************)

(* What a list, or a thread, may have of an order whose row is FAILED: a   *)
(* message that says so, on its way to the buyer.                          *)
FailedIn(q, m) == row[m.order].status = 2 => q = "notify" /\ m.status = "FAILED"

FailedBy(state, m) ==
    row[m.order].status = 2 => state \in {"tellFailed", "check", "post"} /\ m.status = "FAILED"

FailedApart ==
    /\ \A o \in Orders : row[o] # NoRow => intake[o] = "accepted"
    /\ \A q \in Queues : \A i \in DOMAIN queue[q] : FailedIn(q, queue[q][i])
    /\ \A t \in Threads : held[t] # NoMsg => FailedBy(pc[t], held[t])

FailedInv == CustodyInv /\ FailedApart

(* An accepted order stays accepted.                                       *)
LEMMA AcceptedStays ==
    ASSUME TypeInv, [Next]_vars, NEW o \in Orders, intake[o] = "accepted"
    PROVE  intake'[o] = "accepted"
  <1>1. intake \in [Orders -> IntakeStates]
    BY DEF TypeInv, TypeOK
  <1>2. ASSUME NEW p \in Orders, Intake(p) PROVE intake'[o] = "accepted"
    BY <1>1, <1>2 DEF Intake, InsertOrder, PushOrder, FinishOrder
  <1>3. CASE ServerCrash
    BY <1>1, <1>3 DEF ServerCrash, InProgress
  <1>4. CASE intake' = intake
    BY <1>4
  <1>5. ASSUME NEW t \in ChargeThreads, ChargeStep(t) PROVE intake' = intake
    BY <1>5 DEF ChargeStep, ChargeDequeue, ChargeRequest, ChargeFailed, ChargeTellFailed,
                ChargeSucceeded, Settle, Send
  <1>6. ASSUME NEW t \in QueryThreads, QueryStep(t) PROVE intake' = intake
    BY <1>6 DEF QueryStep, QueryDequeue, QueryPushBack, QueryRequest, QueryFinished, QueryDropped,
                QueryTellSuccess, Settle, Send
  <1>7. ASSUME NEW t \in NotifyThreads, NotifyStep(t) PROVE intake' = intake
    BY <1>7 DEF NotifyStep, NotifyDequeue, NotifyDropped, NotifyCheck, NotifyPost, NotifyRecord
  <1>8. ASSUME \/ \E t \in Threads : ThreadExit(t) \/ NullConnection(t)
               \/ \E q \in Queues : DequeueLost(q)
               \/ SignalStop \/ RunReturns \/ HandlerCrash \/ Run \/ Tick
               \/ UNCHANGED vars
        PROVE  intake' = intake
    BY <1>8 DEF ThreadExit, NullConnection, ProcessDies, DequeueLost, SignalStop, RunReturns,
                HandlerCrash, Run, Tick, vars
  <1>9. QED
    BY <1>2, <1>3, <1>4, <1>5, <1>6, <1>7, <1>8 DEF Next

(* Lists that lose a head or gain a message that may be there.             *)
LEMMA ListsApart ==
    ASSUME TypeInv, FailedApart, row' = row,
           \/ queue' = queue
           \/ \E q \in Queues : queue[q] # <<>> /\ queue' = [queue EXCEPT ![q] = Tail(@)]
           \/ \E q \in Queues, m \in Message :
                 FailedIn(q, m) /\ queue' = [queue EXCEPT ![q] = Append(@, m)]
    PROVE  \A q \in Queues : \A i \in DOMAIN queue'[q] : FailedIn(q, queue[q][i])'
  <1>1. \A q \in Queues : queue[q] \in Seq(Message)
    BY PlaceTypes
  <1>2. \A q \in Queues : \A i \in DOMAIN queue[q] : FailedIn(q, queue[q][i])
    BY DEF FailedApart
  <1>3. CASE queue' = queue
    BY <1>2, <1>3 DEF FailedIn
  <1>4. ASSUME NEW q \in Queues, queue[q] # <<>>, queue' = [queue EXCEPT ![q] = Tail(@)],
               NEW r \in Queues, NEW i \in DOMAIN queue'[r]
        PROVE  FailedIn(r, queue[r][i])'
    <2>1. \E j \in DOMAIN queue[r] : queue'[r][i] = queue[r][j]
      BY <1>1, <1>4, PlaceTypes, TailAt
    <2>2. QED
      BY <1>2, <2>1 DEF FailedIn
  <1>5. ASSUME NEW q \in Queues, NEW m \in Message, FailedIn(q, m),
               queue' = [queue EXCEPT ![q] = Append(@, m)],
               NEW r \in Queues, NEW i \in DOMAIN queue'[r]
        PROVE  FailedIn(r, queue[r][i])'
    <2>1. \/ \E j \in DOMAIN queue[r] : queue'[r][i] = queue[r][j]
          \/ r = q /\ queue'[r][i] = m
      BY <1>1, <1>5, PlaceTypes, AppendAt
    <2>2. QED
      BY <1>2, <1>5, <2>1 DEF FailedIn
  <1>6. QED
    BY <1>3, <1>4, <1>5

(* A worker that takes a message from a list.                              *)
LEMMA TakeApart ==
    ASSUME TypeInv, FailedApart, NEW t \in Threads, NEW q \in Queues, NEW m \in Message,
           NEW state \in ThreadStates, queue[q] # <<>>, Take(t, q, m, state),
           m.order = Head(queue[q]).order, m.status = Head(queue[q]).status,
           q = "notify" => state = "check", row' = row, intake' = intake
    PROVE  FailedApart'
  <1>1. FailedIn(q, Head(queue[q]))
    BY PlaceTypes DEF FailedApart
  <1>2. FailedBy(state, m)
    BY <1>1 DEF FailedIn, FailedBy
  <1>3. \A u \in Threads : /\ held'[u] = IF u = t THEN m ELSE held[u]
                           /\ pc'[u] = IF u = t THEN state ELSE pc[u]
    BY DEF Take, Goto, TypeInv, TypeOK
  <1>4. \A u \in Threads : held'[u] # NoMsg => FailedBy(pc[u], held[u])'
    BY <1>2, <1>3 DEF FailedApart, FailedBy
  <1>5. \A r \in Queues : \A i \in DOMAIN queue'[r] : FailedIn(r, queue[r][i])'
    BY ListsApart DEF Take
  <1>6. QED
    BY <1>4, <1>5 DEF FailedApart

(* A worker that lets its message go.                                      *)
LEMMA ReleaseApart ==
    ASSUME TypeInv, FailedApart, NEW t \in Threads, Release(t), row' = row
    PROVE  \A u \in Threads : held'[u] # NoMsg => FailedBy(pc[u], held[u])'
  <1>1. \A u \in Threads : /\ held'[u] = IF u = t THEN NoMsg ELSE held[u]
                           /\ pc'[u] = IF u = t THEN "loop" ELSE pc[u]
    BY DEF Release, TypeInv, TypeOK
  <1>2. QED
    BY <1>1 DEF FailedApart, FailedBy

(* A worker that goes on with its message.                                 *)
LEMMA GotoApart ==
    ASSUME TypeInv, FailedApart, NEW t \in Threads, NEW state \in ThreadStates, Goto(t, state),
           state = "post" => pc[t] = "check", held' = held, row' = row,
           held[t] = NoMsg \/ pc[t] \notin {"tellFailed", "check", "post"} \/ state = "post"
    PROVE  \A u \in Threads : held'[u] # NoMsg => FailedBy(pc[u], held[u])'
  BY DEF Goto, FailedApart, FailedBy, TypeInv, TypeOK

(* A worker's enqueue, of a message that may be in that list.              *)
LEMMA SendApart ==
    ASSUME TypeInv, FailedApart, NEW t \in Threads, NEW q \in Queues,
           pc[t] \notin {"loop", "exited"}, pc[t] = "tellFailed" => q = "notify",
           pc[t] \notin {"check", "post"}, Send(t, q)
    PROVE  FailedApart'
  <1>1. /\ held[t] \in Message /\ held[t] # NoMsg
        /\ Serialized(held[t]) \in Message
        /\ Serialized(held[t]).order = held[t].order
        /\ Serialized(held[t]).status = held[t].status
    BY HeldType, AgedMessage, PipelineAssumption DEF Serialized, Message
  <1>2. FailedIn(q, Serialized(held[t]))
    BY <1>1 DEF FailedApart, FailedBy, FailedIn
  <1>3. /\ row' = row /\ intake' = intake /\ Release(t)
        /\ \/ queue' = queue
           \/ queue' = [queue EXCEPT ![q] = Append(@, Serialized(held[t]))]
    BY DEF Send, Enqueue, Push
  <1>4. \A r \in Queues : \A i \in DOMAIN queue'[r] : FailedIn(r, queue[r][i])'
    BY <1>1, <1>2, <1>3, ListsApart
  <1>5. \A u \in Threads : held'[u] # NoMsg => FailedBy(pc[u], held[u])'
    BY <1>3, ReleaseApart
  <1>6. QED
    BY <1>3, <1>4, <1>5 DEF FailedApart

(* A worker that writes the row of the order it holds: nothing else has    *)
(* that order.                                                             *)
LEMMA UpdateApart ==
    ASSUME CustodyInv, FailedApart, NEW t \in Threads, held[t] # NoMsg,
           \A p \in Orders \ {held[t].order} : row'[p] = row[p],
           queue' = queue, \A u \in Threads \ {t} : held'[u] = held[u] /\ pc'[u] = pc[u]
    PROVE  /\ \A q \in Queues : \A i \in DOMAIN queue'[q] : FailedIn(q, queue[q][i])'
           /\ \A u \in Threads \ {t} : held'[u] # NoMsg => FailedBy(pc[u], held[u])'
  <1>1. /\ \A q \in Queues : \A i \in DOMAIN queue[q] : At(q, i) \in Orders \ {held[t].order}
        /\ \A u \in Threads \ {t} : held[u] # NoMsg => held[u].order \in Orders \ {held[t].order}
    BY PlaceTypes DEF CustodyInv, Alone
  <1>2. QED
    BY <1>1 DEF FailedApart, FailedIn, FailedBy, At

(* The row after UpdateOrderStatus.                                        *)
LEMMA UpdateRow ==
    ASSUME TypeInv, NEW o \in Orders, NEW status \in OrderStatus, NEW notify,
           UpdateOrderStatus(o, status, notify) \/ row' = row
    PROVE  /\ \A p \in Orders \ {o} : row'[p] = row[p]
           /\ row'[o] # NoRow => row[o] # NoRow
           /\ row'[o].status = 2 => row[o].status = 2 \/ status = "FAILED"
           /\ status = "FAILED" /\ row[o].status = 2 => row'[o].status = 2
  <1>1. row \in [Orders -> [status : -1..2, notify : Int]]
    BY DEF TypeInv, TypeOK
  <1>2. DbStatus(status) = 2 <=> status = "FAILED"
    BY DEF DbStatus, OrderStatus
  <1>3. CASE row' = row
    BY <1>3
  <1>4. CASE row' = [row EXCEPT ![o] = [status |-> DbStatus(status), notify |-> notify]] /\ row[o] # NoRow
    BY <1>1, <1>2, <1>4
  <1>5. QED
    BY <1>3, <1>4 DEF UpdateOrderStatus

(* A worker's update.                                                      *)
LEMMA SettleApart ==
    ASSUME FailedInv, NEW t \in Threads, NEW status \in OrderStatus, NEW notifies,
           NEW state \in ThreadStates, status = "FAILED" => state = "tellFailed",
           pc[t] \notin {"loop", "exited", "tellFailed", "check", "post"},
           Settle(t, status, notifies, state)
    PROVE  FailedApart'
  <1>1. TypeInv /\ CustodyInv /\ FailedApart
    BY DEF FailedInv, CustodyInv
  <1>2. DEFINE o == held[t].order
  <1>3. held[t] \in Message /\ held[t] # NoMsg /\ o \in Orders
    BY <1>1, HeldType, PipelineAssumption
  <1>4. row[o].status # 2
    BY <1>1, <1>3 DEF FailedApart, FailedBy
  <1>5. \E notify : UpdateOrderStatus(o, status, notify) \/ row' = row
    BY DEF Settle, UpdateFails
  <1>6. /\ \A p \in Orders \ {o} : row'[p] = row[p]
        /\ row'[o] # NoRow => row[o] # NoRow
        /\ row'[o].status = 2 => status = "FAILED"
    BY <1>1, <1>3, <1>4, <1>5, UpdateRow
  <1>7. \A u \in Threads :
            /\ held'[u] = IF u = t THEN [held[t] EXCEPT !.status = status] ELSE held[u]
            /\ pc'[u] = IF u = t THEN state ELSE pc[u]
    BY <1>1 DEF Settle, Goto, TypeInv, TypeOK
  <1>8. /\ [held[t] EXCEPT !.status = status].order = o
        /\ [held[t] EXCEPT !.status = status].status = status
    BY <1>3 DEF Message
  <1>9. queue' = queue /\ intake' = intake
    BY DEF Settle
  <1>10. FailedBy(pc[t], held[t])'
    BY <1>6, <1>7, <1>8 DEF FailedBy
  <1>11. /\ \A q \in Queues : \A i \in DOMAIN queue'[q] : FailedIn(q, queue[q][i])'
         /\ \A u \in Threads \ {t} : held'[u] # NoMsg => FailedBy(pc[u], held[u])'
    BY <1>1, <1>3, <1>6, <1>7, <1>9, UpdateApart
  <1>12. \A p \in Orders : row'[p] # NoRow => intake'[p] = "accepted"
    BY <1>1, <1>6, <1>9 DEF FailedApart
  <1>13. QED
    BY <1>10, <1>11, <1>12 DEF FailedApart

(* At first there is no row.                                               *)
LEMMA InitFailed == Init => FailedInv
  BY InitCustody DEF Init, FailedInv, FailedApart, NoRow

(* The intake commits a row once, and never as FAILED.                     *)
LEMMA IntakeApart ==
    ASSUME FailedInv, NEW o \in Orders, Intake(o) \/ ServerCrash
    PROVE  FailedApart'
  <1>1. TypeInv /\ FailedApart /\ held' = held /\ pc' = pc
    BY DEF FailedInv, CustodyInv, Intake, InsertOrder, PushOrder, FinishOrder, ServerCrash, threadVars
  <1>2. \A p \in Orders : intake[p] = "accepted" => intake'[p] = "accepted"
    BY <1>1, AcceptedStays DEF Next
  <1>3. CASE row' = row /\ queue' = queue
    BY <1>1, <1>2, <1>3 DEF FailedApart, FailedIn, FailedBy
  <1>4. CASE PushOrder(o) /\ Push("underway", NewMessage(o))
    <2>1. NewMessage(o) \in Message /\ NewMessage(o).order = o
      BY PipelineAssumption DEF NewMessage, Message, OrderStatus, QueryPause
    <2>2. row' = row /\ row[o] = NoRow
      BY <1>1, <1>4 DEF PushOrder, FailedApart
    <2>3. FailedIn("underway", NewMessage(o))
      BY <2>1, <2>2 DEF FailedIn, NoRow
    <2>4. \A q \in Queues : \A i \in DOMAIN queue'[q] : FailedIn(q, queue[q][i])'
      BY <1>1, <1>4, <2>1, <2>2, <2>3, ListsApart DEF Push, Queues
    <2>5. QED
      BY <1>1, <1>2, <2>2, <2>4 DEF FailedApart, FailedBy
  <1>5. CASE FinishOrder(o) /\ row' = [row EXCEPT ![o] = [status |-> 1, notify |-> NOTIFY_UNDONE]]
    <2>1. row'[o].status # 2 /\ \A p \in Orders \ {o} : row'[p] = row[p]
      BY <1>1, <1>5 DEF TypeInv, TypeOK
    <2>2. intake'[o] = "accepted" /\ queue' = queue
      BY <1>1, <1>3, <1>5 DEF FinishOrder, FailedApart, TypeInv, TypeOK, NoRow
    <2>3. /\ \A q \in Queues : \A i \in DOMAIN queue[q] : queue[q][i].order \in Orders
          /\ \A t \in Threads : held[t] # NoMsg => held[t].order \in Orders
      BY <1>1, PlaceTypes DEF At
    <2>4. QED
      BY <1>1, <1>2, <2>1, <2>2, <2>3 DEF FailedApart, FailedIn, FailedBy
  <1>6. QED
    BY <1>3, <1>4, <1>5 DEF Intake, InsertOrder, PushOrder, FinishOrder, ServerCrash

(* The charge thread fails an order before it was ever queried.            *)
LEMMA ChargeApart ==
    ASSUME FailedInv, NEW t \in ChargeThreads, ChargeStep(t)
    PROVE  FailedApart'
  <1>1. t \in Threads /\ TypeInv /\ FailedApart /\ "underway" \in Queues /\ "query" \in Queues /\ "notify" \in Queues
    BY DEF FailedInv, CustodyInv, Threads, Queues
  <1>2. CASE ChargeDequeue(t)
    <2>1. Head(queue["underway"]) \in Message /\ queue["underway"] # <<>>
      BY <1>1, <1>2, PlaceTypes, TailMessage DEF ChargeDequeue, CanTake
    <2>2. DEFINE m == [Head(queue["underway"]) EXCEPT !.idle = 0]
    <2>3. /\ m \in Message /\ m.order = Head(queue["underway"]).order
          /\ m.status = Head(queue["underway"]).status
      BY <2>1, AgedMessage DEF Message
    <2>4. Take(t, "underway", m, "charge") /\ row' = row /\ intake' = intake
      BY <1>2 DEF ChargeDequeue
    <2>5. "charge" \in ThreadStates
      BY DEF ThreadStates
    <2>6. QED
      BY <1>1, <2>1, <2>3, <2>4, <2>5, TakeApart
  <1>3. CASE ChargeRequest(t)
    <2>1. UNCHANGED <<intake, queue, row, held>>
      BY <1>3 DEF ChargeRequest
    <2>2. \A u \in Threads : held'[u] # NoMsg => FailedBy(pc[u], held[u])'
      BY <1>1, <1>3, GotoApart DEF ChargeRequest, ThreadStates
    <2>3. \A q \in Queues : \A i \in DOMAIN queue'[q] : FailedIn(q, queue[q][i])'
      BY <1>1, <2>1, ListsApart
    <2>4. QED
      BY <1>1, <2>1, <2>2, <2>3 DEF FailedApart
  <1>4. CASE ChargeFailed(t)
    BY <1>1, <1>4, SettleApart DEF ChargeFailed, OrderStatus, ThreadStates
  <1>5. CASE ChargeTellFailed(t) \/ ChargeSucceeded(t)
    BY <1>1, <1>5, SendApart DEF ChargeTellFailed, ChargeSucceeded
  <1>6. QED
    BY <1>2, <1>3, <1>4, <1>5 DEF ChargeStep

(* The query thread never meets an order whose row is FAILED.              *)
LEMMA QueryApart ==
    ASSUME FailedInv, NEW t \in QueryThreads, QueryStep(t)
    PROVE  FailedApart'
  <1>1. t \in Threads /\ TypeInv /\ FailedApart /\ "query" \in Queues /\ "notify" \in Queues
    BY DEF FailedInv, CustodyInv, Threads, Queues
  <1>2. CASE QueryDequeue(t)
    <2>1. Head(queue["query"]) \in Message /\ queue["query"] # <<>>
      BY <1>1, <1>2, PlaceTypes, TailMessage DEF QueryDequeue, CanTake
    <2>2. DEFINE m == [Head(queue["query"]) EXCEPT !.idle = 0]
    <2>3. /\ m \in Message /\ m.order = Head(queue["query"]).order
          /\ m.status = Head(queue["query"]).status
      BY <2>1, AgedMessage DEF Message
    <2>4. \E n \in Message, state \in ThreadStates :
              /\ n.order = Head(queue["query"]).order /\ n.status = Head(queue["query"]).status
              /\ Take(t, "query", n, state)
      BY <1>2, <2>1, <2>3 DEF QueryDequeue, ThreadStates
    <2>5. row' = row /\ intake' = intake
      BY <1>2 DEF QueryDequeue
    <2>6. QED
      BY <1>1, <2>1, <2>4, <2>5, TakeApart
  <1>3. CASE QueryPushBack(t) \/ QueryTellSuccess(t)
    BY <1>1, <1>3, SendApart DEF QueryPushBack, QueryTellSuccess
  <1>4. CASE QueryRequest(t)
    <2>1. UNCHANGED <<intake, queue, row, held>>
      BY <1>4 DEF QueryRequest
    <2>2. \E state \in ThreadStates \ {"post"} : Goto(t, state)
      BY <1>4 DEF QueryRequest, ThreadStates
    <2>3. \A u \in Threads : held'[u] # NoMsg => FailedBy(pc[u], held[u])'
      BY <1>1, <1>4, <2>1, <2>2, GotoApart DEF QueryRequest
    <2>4. \A q \in Queues : \A i \in DOMAIN queue'[q] : FailedIn(q, queue[q][i])'
      BY <1>1, <2>1, ListsApart
    <2>5. QED
      BY <1>1, <2>1, <2>3, <2>4 DEF FailedApart
  <1>5. CASE QueryFinished(t)
    BY <1>1, <1>5, SettleApart DEF QueryFinished, OrderStatus, ThreadStates
  <1>6. CASE QueryDropped(t)
    <2>1. UNCHANGED <<intake, queue, row>> /\ Release(t)
      BY <1>6 DEF QueryDropped
    <2>2. QED
      BY <1>1, <2>1, ListsApart, ReleaseApart DEF FailedApart
  <1>7. QED
    BY <1>2, <1>3, <1>4, <1>5, <1>6 DEF QueryStep

(* The notify thread writes what its message says: FAILED, if the row did. *)
LEMMA NotifyApart ==
    ASSUME FailedInv, NEW t \in NotifyThreads, NotifyStep(t)
    PROVE  FailedApart'
  <1>1. t \in Threads /\ TypeInv /\ CustodyInv /\ FailedApart /\ "notify" \in Queues
    BY DEF FailedInv, CustodyInv, Threads, Queues
  <1>2. CASE NotifyDequeue(t)
    <2>1. Head(queue["notify"]) \in Message /\ queue["notify"] # <<>>
      BY <1>1, <1>2, PlaceTypes, TailMessage DEF NotifyDequeue, CanTake
    <2>2. Take(t, "notify", Head(queue["notify"]), "check") /\ row' = row /\ intake' = intake
      BY <1>2 DEF NotifyDequeue
    <2>3. "check" \in ThreadStates
      BY DEF ThreadStates
    <2>4. QED
      BY <1>1, <2>1, <2>2, <2>3, TakeApart
  <1>3. CASE NotifyDropped(t)
    <2>1. /\ queue["notify"] # <<>> /\ queue' = [queue EXCEPT !["notify"] = Tail(@)]
          /\ UNCHANGED <<intake, row, pc, held>>
      BY <1>3 DEF NotifyDropped, CanTake, threadVars
    <2>2. \A q \in Queues : \A i \in DOMAIN queue'[q] : FailedIn(q, queue[q][i])'
      BY <1>1, <2>1, ListsApart
    <2>3. QED
      BY <1>1, <2>1, <2>2 DEF FailedApart, FailedBy
  <1>4. CASE NotifyCheck(t)
    <2>1. UNCHANGED <<intake, queue, row>>
      BY <1>4 DEF NotifyCheck
    <2>2. \A q \in Queues : \A i \in DOMAIN queue'[q] : FailedIn(q, queue[q][i])'
      BY <1>1, <2>1, ListsApart
    <2>3. CASE Release(t)
      BY <1>1, <2>1, <2>2, <2>3, ReleaseApart DEF FailedApart
    <2>4. CASE Goto(t, "post") /\ held' = held
      BY <1>1, <1>4, <2>1, <2>2, <2>4, GotoApart DEF FailedApart, NotifyCheck, ThreadStates
    <2>5. QED
      BY <1>4, <2>3, <2>4 DEF NotifyCheck, NotifyEnd
  <1>5. CASE NotifyPost(t)
    BY <1>1, <1>5 DEF NotifyPost, threadVars, FailedApart, FailedIn, FailedBy
  <1>6. CASE NotifyRecord(t)
    <2>1. DEFINE o == held[t].order
    <2>2. held[t] \in Message /\ held[t] # NoMsg /\ o \in Orders /\ held[t].status \in OrderStatus
      BY <1>1, <1>6, HeldType, PipelineAssumption DEF NotifyRecord, Message
    <2>3. UpdateOrderStatus(o, held[t].status, Outcome(t)) \/ row' = row
      BY <1>6 DEF NotifyRecord, UpdateFails
    <2>4. /\ \A p \in Orders \ {o} : row'[p] = row[p]
          /\ row'[o] # NoRow => row[o] # NoRow
      BY <1>1, <2>2, <2>3, UpdateRow
    <2>5. /\ UNCHANGED <<intake, queue>>
          /\ \A u \in Threads : /\ held'[u] = IF u = t THEN NoMsg ELSE held[u]
                                /\ u # t => pc'[u] = pc[u]
      BY <1>1, <1>6 DEF NotifyRecord, NotifyEnd, Release, TypeInv, TypeOK
    <2>6. /\ \A q \in Queues : \A i \in DOMAIN queue'[q] : FailedIn(q, queue[q][i])'
          /\ \A u \in Threads \ {t} : held'[u] # NoMsg => FailedBy(pc[u], held[u])'
      BY <1>1, <2>2, <2>4, <2>5, UpdateApart
    <2>7. QED
      BY <1>1, <2>4, <2>5, <2>6 DEF FailedApart
  <1>7. QED
    BY <1>2, <1>3, <1>4, <1>5, <1>6 DEF NotifyStep

(* Lost replies, crashes, restarts and time write no row.                  *)
LEMMA ProcessApart ==
    ASSUME FailedInv,
           \/ \E t \in Threads : ThreadExit(t) \/ NullConnection(t)
           \/ \E q \in Queues : DequeueLost(q)
           \/ SignalStop \/ RunReturns \/ HandlerCrash \/ Run \/ Tick
           \/ UNCHANGED vars
    PROVE  FailedApart'
  <1>1. TypeInv /\ Idle /\ Stopped /\ FailedApart
    BY DEF FailedInv, CustodyInv
  <1>2. row' = row /\ intake' = intake
    BY DEF ThreadExit, NullConnection, ProcessDies, DequeueLost, SignalStop, RunReturns,
           HandlerCrash, Run, Tick, vars
  <1>3. \A q \in Queues : \A i \in DOMAIN queue'[q] : FailedIn(q, queue[q][i])'
    <2>1. CASE Tick
      <3>1. queue' = [queue EXCEPT !["query"] = [i \in DOMAIN queue["query"] |-> Aged(queue["query"][i])]]
        BY <2>1 DEF Tick
      <3>2. \A m \in Message : Aged(m).order = m.order /\ Aged(m).status = m.status
        BY DEF Aged, Message
      <3>3. \A q \in Queues : \A i \in DOMAIN queue'[q] :
                /\ i \in DOMAIN queue[q]
                /\ queue'[q][i].order = queue[q][i].order
                /\ queue'[q][i].status = queue[q][i].status
        BY <1>1, <3>1, <3>2, PlaceTypes
      <3>4. QED
        BY <1>1, <1>2, <3>3 DEF FailedApart, FailedIn
    <2>2. CASE \E q \in Queues : DequeueLost(q)
      BY <1>1, <1>2, <2>2, ListsApart DEF DequeueLost
    <2>3. CASE queue' = queue
      BY <1>1, <1>2, <2>3, ListsApart
    <2>4. QED
      BY <2>1, <2>2, <2>3 DEF ThreadExit, NullConnection, ProcessDies, SignalStop, RunReturns,
                              HandlerCrash, Run, vars
  <1>4. \A u \in Threads : held'[u] # NoMsg => FailedBy(pc[u], held[u])'
    <2>1. CASE Tick
      <3>1. \A m \in Message :
                /\ [m EXCEPT !.idle = Older(m.idle, QueryPause)].order = m.order
                /\ [m EXCEPT !.idle = Older(m.idle, QueryPause)].status = m.status
        BY DEF Message
      <3>2. \A u \in Threads : held'[u] # NoMsg =>
                /\ held[u] # NoMsg /\ pc'[u] = pc[u]
                /\ held'[u].order = held[u].order /\ held'[u].status = held[u].status
        BY <2>1, <3>1, PlaceTypes, <1>1 DEF Tick
      <3>3. QED
        BY <1>1, <1>2, <3>2 DEF FailedApart, FailedBy
    <2>2. CASE Run
      BY <1>1, <2>2 DEF Run, Idle, Stopped
    <2>3. ASSUME NEW t \in Threads, ThreadExit(t)
          PROVE  \A u \in Threads : held'[u] # NoMsg => FailedBy(pc[u], held[u])'
      BY <1>1, <1>2, <2>3 DEF ThreadExit, Goto, Idle, FailedApart, FailedBy, TypeInv, TypeOK
    <2>4. CASE pc' = pc /\ held' = held
      BY <1>1, <1>2, <2>4 DEF FailedApart, FailedBy
    <2>5. CASE (\E t \in Threads : NullConnection(t)) \/ HandlerCrash
      BY <2>5 DEF NullConnection, HandlerCrash, ProcessDies
    <2>6. QED
      BY <2>1, <2>2, <2>3, <2>4, <2>5 DEF DequeueLost, SignalStop, RunReturns, vars, threadVars
  <1>5. QED
    BY <1>1, <1>2, <1>3, <1>4 DEF FailedApart

(* FailedInv is inductive.                                                 *)
LEMMA FailedInvStep == FailedInv /\ [Next]_vars => FailedInv'
  <1> SUFFICES ASSUME FailedInv, [Next]_vars PROVE FailedInv'
    OBVIOUS
  <1>1. CASE ServerCrash
    <2>1. PICK o \in Orders : TRUE
      BY <1>1 DEF ServerCrash, InProgress
    <2>2. FailedApart'
      BY <1>1, <2>1, IntakeApart
    <2>3. QED
      BY <2>2, CustodyStep DEF FailedInv
  <1>2. FailedApart'
    BY <1>1, IntakeApart, ChargeApart, QueryApart, NotifyApart, ProcessApart DEF Next, FailedInv
  <1>3. QED
    BY <1>2, CustodyStep DEF FailedInv

(* A thread that writes a FAILED row writes FAILED again.                  *)
LEMMA WriterKeepsFailed ==
    ASSUME FailedInv, NEW t \in Threads, NEW status \in OrderStatus, NEW notify,
           pc[t] \in {"rejected", "succeeded", "timedOut", "post"},
           pc[t] = "post" => status = held[t].status,
           UpdateOrderStatus(held[t].order, status, notify) \/ row' = row,
           NEW o \in Orders, row[o].status = 2
    PROVE  row'[o].status = 2
  <1>1. TypeInv /\ FailedApart
    BY DEF FailedInv, CustodyInv
  <1>2. held[t] \in Message /\ held[t] # NoMsg /\ held[t].order \in Orders
    BY <1>1, HeldType, PipelineAssumption
  <1>3. o = held[t].order => status = "FAILED"
    BY <1>1, <1>2 DEF FailedApart, FailedBy
  <1>4. QED
    BY <1>1, <1>2, <1>3, UpdateRow

(* No step changes the status of a row that says FAILED.                   *)
LEMMA FailedRowStep ==
    ASSUME FailedInv, [Next]_vars, NEW o \in Orders, row[o].status = 2
    PROVE  row'[o].status = 2
  <1>1. TypeInv /\ FailedApart
    BY DEF FailedInv, CustodyInv
  <1>2. ASSUME NEW p \in Orders, Intake(p) PROVE row'[o].status = 2
    <2>1. intake[o] = "accepted"
      BY <1>1 DEF FailedApart, NoRow
    <2>2. row' = row \/ (p # o /\ row' = [row EXCEPT ![p] = [status |-> 1, notify |-> NOTIFY_UNDONE]])
      BY <1>2, <2>1 DEF Intake, InsertOrder, PushOrder, FinishOrder
    <2>3. QED
      BY <1>1, <2>2 DEF TypeInv, TypeOK
  <1>3. ASSUME NEW t \in ChargeThreads, ChargeStep(t) PROVE row'[o].status = 2
    <2>1. CASE ChargeFailed(t)
      <3>1. pc[t] = "rejected" /\ t \in Threads /\ "FAILED" \in OrderStatus
        BY <2>1 DEF ChargeFailed, Threads, OrderStatus
      <3>2. \E notify : UpdateOrderStatus(held[t].order, "FAILED", notify) \/ row' = row
        BY <2>1 DEF ChargeFailed, Settle, UpdateFails
      <3>3. QED
        BY <3>1, <3>2, WriterKeepsFailed
    <2>2. CASE row' = row
      BY <2>2
    <2>3. QED
      BY <1>3, <2>1, <2>2 DEF ChargeStep, ChargeDequeue, ChargeRequest, ChargeTellFailed,
                              ChargeSucceeded, Send
  <1>4. ASSUME NEW t \in QueryThreads, QueryStep(t) PROVE row'[o].status = 2
    <2>1. CASE QueryFinished(t)
      <3>1. pc[t] \in {"succeeded", "timedOut"} /\ t \in Threads /\ "SUCCESS" \in OrderStatus
        BY <2>1 DEF QueryFinished, Threads, OrderStatus
      <3>2. \E notify : UpdateOrderStatus(held[t].order, "SUCCESS", notify) \/ row' = row
        BY <2>1 DEF QueryFinished, Settle, UpdateFails
      <3>3. QED
        BY <3>1, <3>2, WriterKeepsFailed
    <2>2. CASE row' = row
      BY <2>2
    <2>3. QED
      BY <1>4, <2>1, <2>2 DEF QueryStep, QueryDequeue, QueryPushBack, QueryRequest, QueryDropped,
                              QueryTellSuccess, Send
  <1>5. ASSUME NEW t \in NotifyThreads, NotifyStep(t) PROVE row'[o].status = 2
    <2>1. CASE NotifyRecord(t)
      <3>1. pc[t] = "post" /\ t \in Threads
        BY <2>1 DEF NotifyRecord, Threads
      <3>2. held[t].status \in OrderStatus
        BY <1>1, <3>1, HeldType DEF Message
      <3>3. \E notify : UpdateOrderStatus(held[t].order, held[t].status, notify) \/ row' = row
        BY <2>1 DEF NotifyRecord, UpdateFails
      <3>4. QED
        BY <3>1, <3>2, <3>3, WriterKeepsFailed
    <2>2. CASE row' = row
      BY <2>2
    <2>3. QED
      BY <1>5, <2>1, <2>2 DEF NotifyStep, NotifyDequeue, NotifyDropped, NotifyCheck, NotifyPost
  <1>6. ASSUME \/ ServerCrash
               \/ \E t \in Threads : ThreadExit(t) \/ NullConnection(t)
               \/ \E q \in Queues : DequeueLost(q)
               \/ SignalStop \/ RunReturns \/ HandlerCrash \/ Run \/ Tick
               \/ UNCHANGED vars
        PROVE  row' = row
    BY <1>6 DEF ServerCrash, ThreadExit, NullConnection, ProcessDies, DequeueLost, SignalStop,
                RunReturns, HandlerCrash, Run, Tick, vars
  <1>7. QED
    BY <1>2, <1>3, <1>4, <1>5, <1>6 DEF Next

(* A row that says FAILED says so for ever: no query, late commit or       *)
(* notification of any thread overwrites it.                               *)
THEOREM FailedCorrect == Spec => FailedIsFinal
  <1>1. FailedInv /\ [Next]_vars => [\A o \in Orders : row[o].status = 2 => row'[o].status = 2]_vars
    BY FailedRowStep
  <1>2. QED
    BY <1>1, InitFailed, FailedInvStep, PTL DEF Spec, FailedIsFinal

(***************************************************************************)
(* What the buyers of OrderPipeline's orders are told, for any number of   *)
(* orders, threads and retries and any faults: one story, a bounded number *)
(* of posts, none after an answer, and a FAILED row that records it.       *)
(***************************************************************************)

Settled == {"SUCCESS", "FAILED"}

(* Nothing was posted of the order.                                        *)
Unposted(o) == posts[o] = 0 /\ verdict[o] = NOTIFY_UNDONE /\ told[o] = {}

(* A FAILED row has no answer yet.                                         *)
Unanswered(o) == row[o].status = 2 => row[o].notify = NOTIFY_UNDONE

(* What is known of a message m in the list q ...                          *)
NewsIn(q, m) ==
    /\ Unposted(m.order)
    /\ Unanswered(m.order)
    /\ q = "notify" => m.status \in Settled

(* ... and of one that the thread t has while it is at state.  The posts   *)
(* of TmallNotify and the retries that are left make up NotifyRetries.     *)
NewsBy(t, state, m) ==
    /\ Unanswered(m.order)
    /\ state \in {"tellFailed", "tellSuccess", "check", "post"} => m.status \in Settled
    /\ state # "post" => Unposted(m.order)
    /\ state = "post" =>
          /\ t \in NotifyThreads
          /\ posts[m.order] + tries[t] = NotifyRetries
          /\ verdict[m.order] = answer[t]
          /\ told[m.order] \subseteq {m.status}

FreshUntold == \A o \in Orders : Fresh(o) => Unposted(o)
ListsUntold == \A q \in Queues : \A i \in DOMAIN queue[q] : NewsIn(q, queue[q][i])
ThreadsTell == \A t \in Threads : held[t] # NoMsg => NewsBy(t, pc[t], held[t])

News ==
    /\ FreshUntold /\ ListsUntold /\ ThreadsTell
    /\ PostsBounded /\ ConsistentNews /\ FailedRowTellsAnswer

NewsInv == CustodyInv /\ News

(* Steps that write no row and tell no buyer.                              *)
Quiet == row' = row /\ posts' = posts /\ verdict' = verdict /\ told' = told

LEMMA QuietNews ==
    ASSUME CustodyInv, News, [Next]_vars, Quiet, ListsUntold', ThreadsTell'
    PROVE  News'
  <1>1. NothingFresher
    BY StepMoves DEF CustodyInv, Move, Stay, Enter, Leave, Fetch, Hand
  <1>2. FreshUntold'
    BY <1>1 DEF News, FreshUntold, NothingFresher, Unposted, Quiet
  <1>3. PostsBounded' /\ ConsistentNews' /\ FailedRowTellsAnswer'
    BY DEF News, PostsBounded, ConsistentNews, FailedRowTellsAnswer, Quiet
  <1>4. QED
    BY <1>2, <1>3 DEF News

(* Lists that lose a head or gain a message that may be there.             *)
LEMMA ListsNews ==
    ASSUME TypeInv, News, Quiet,
           \/ queue' = queue
           \/ \E q \in Queues : queue[q] # <<>> /\ queue' = [queue EXCEPT ![q] = Tail(@)]
           \/ \E q \in Queues, m \in Message :
                 NewsIn(q, m) /\ queue' = [queue EXCEPT ![q] = Append(@, m)]
    PROVE  ListsUntold'
  <1>1. \A q \in Queues : queue[q] \in Seq(Message)
    BY PlaceTypes
  <1>2. \A q \in Queues : \A i \in DOMAIN queue[q] : NewsIn(q, queue[q][i])
    BY DEF News, ListsUntold
  <1>3. CASE queue' = queue
    BY <1>2, <1>3 DEF ListsUntold, NewsIn, Unposted, Unanswered, Quiet
  <1>4. ASSUME NEW q \in Queues, queue[q] # <<>>, queue' = [queue EXCEPT ![q] = Tail(@)],
               NEW r \in Queues, NEW i \in DOMAIN queue'[r]
        PROVE  NewsIn(r, queue[r][i])'
    <2>1. \E j \in DOMAIN queue[r] : queue'[r][i] = queue[r][j]
      BY <1>1, <1>4, PlaceTypes, TailAt
    <2>2. QED
      BY <1>2, <2>1 DEF NewsIn, Unposted, Unanswered, Quiet
  <1>5. ASSUME NEW q \in Queues, NEW m \in Message, NewsIn(q, m),
               queue' = [queue EXCEPT ![q] = Append(@, m)],
               NEW r \in Queues, NEW i \in DOMAIN queue'[r]
        PROVE  NewsIn(r, queue[r][i])'
    <2>1. \/ \E j \in DOMAIN queue[r] : queue'[r][i] = queue[r][j]
          \/ r = q /\ queue'[r][i] = m
      BY <1>1, <1>5, PlaceTypes, AppendAt
    <2>2. CASE \E j \in DOMAIN queue[r] : queue'[r][i] = queue[r][j]
      BY <1>2, <2>2 DEF NewsIn, Unposted, Unanswered, Quiet
    <2>3. CASE r = q /\ queue'[r][i] = m
      BY <1>5, <2>3 DEF NewsIn, Unposted, Unanswered, Quiet
    <2>4. QED
      BY <2>1, <2>2, <2>3
  <1>6. QED
    BY <1>3, <1>4, <1>5 DEF ListsUntold

(* A worker that takes a message from a list.                              *)
LEMMA TakeNews ==
    ASSUME TypeInv, News, NEW t \in Threads, NEW q \in Queues, NEW m \in Message,
           NEW state \in ThreadStates \ {"tellFailed", "tellSuccess", "post"},
           queue[q] # <<>>, Take(t, q, m, state),
           m.order = Head(queue[q]).order, m.status = Head(queue[q]).status,
           state = "check" => q = "notify", Quiet, tries' = tries, answer' = answer
    PROVE  ListsUntold' /\ ThreadsTell'
  <1>1. NewsIn(q, Head(queue[q]))
    BY PlaceTypes DEF News, ListsUntold
  <1>2. NewsBy(t, state, m)
    BY <1>1 DEF NewsIn, NewsBy
  <1>3. \A u \in Threads : /\ held'[u] = IF u = t THEN m ELSE held[u]
                           /\ pc'[u] = IF u = t THEN state ELSE pc[u]
    BY DEF Take, Goto, TypeInv, TypeOK
  <1>4. ASSUME NEW u \in Threads, held'[u] # NoMsg
        PROVE  NewsBy(u, pc[u], held[u])'
    <2>1. CASE u = t
      BY <1>2, <1>3, <2>1 DEF NewsBy, Unposted, Unanswered, Quiet
    <2>2. CASE u # t
      <3>1. held'[u] = held[u] /\ pc'[u] = pc[u] /\ NewsBy(u, pc[u], held[u])
        BY <1>3, <1>4, <2>2 DEF News, ThreadsTell
      <3>2. QED
        BY <3>1 DEF NewsBy, Unposted, Unanswered, Quiet
    <2>3. QED
      BY <2>1, <2>2
  <1>5. ListsUntold'
    BY ListsNews DEF Take
  <1>6. QED
    BY <1>4, <1>5 DEF ThreadsTell

(* A worker that lets its message go.                                      *)
LEMMA ReleaseNews ==
    ASSUME TypeInv, News, NEW t \in Threads, Release(t), Quiet,
           \A u \in NotifyThreads \ {t} : tries'[u] = tries[u] /\ answer'[u] = answer[u]
    PROVE  ThreadsTell'
  <1>1. \A u \in Threads : /\ held'[u] = IF u = t THEN NoMsg ELSE held[u]
                           /\ pc'[u] = IF u = t THEN "loop" ELSE pc[u]
    BY DEF Release, TypeInv, TypeOK
  <1>2. QED
    BY <1>1 DEF News, ThreadsTell, NewsBy, Unposted, Unanswered, Quiet

(* A worker's enqueue.                                                     *)
LEMMA SendNews ==
    ASSUME TypeInv, News, NEW t \in Threads, NEW q \in Queues,
           pc[t] \notin {"loop", "exited", "post"},
           q = "notify" => pc[t] \in {"tellFailed", "tellSuccess"}, Send(t, q)
    PROVE  Quiet /\ ListsUntold' /\ ThreadsTell'
  <1>1. /\ held[t] \in Message /\ held[t] # NoMsg
        /\ Serialized(held[t]) \in Message
        /\ Serialized(held[t]).order = held[t].order
        /\ Serialized(held[t]).status = held[t].status
    BY HeldType, AgedMessage, PipelineAssumption DEF Serialized, Message
  <1>2. NewsIn(q, Serialized(held[t]))
    BY <1>1 DEF News, ThreadsTell, NewsBy, NewsIn
  <1>3. /\ Quiet /\ Release(t) /\ tries' = tries /\ answer' = answer
        /\ \/ queue' = queue
           \/ queue' = [queue EXCEPT ![q] = Append(@, Serialized(held[t]))]
    BY DEF Send, Enqueue, Push, Quiet, buyerVars, postVars
  <1>4. ListsUntold'
    BY <1>1, <1>2, <1>3, ListsNews
  <1>5. ThreadsTell'
    BY <1>3, ReleaseNews
  <1>6. QED
    BY <1>3, <1>4, <1>5

(* The row after UpdateOrderStatus.                                        *)
LEMMA UpdateNotify ==
    ASSUME TypeInv, NEW o \in Orders, NEW status \in OrderStatus, NEW notify,
           UpdateOrderStatus(o, status, notify)
    PROVE  /\ \A p \in Orders \ {o} : row'[p] = row[p]
           /\ row'[o].status = 2 => status = "FAILED" /\ row'[o].notify = notify
  <1>1. row \in [Orders -> [status : -1..2, notify : Int]]
    BY DEF TypeInv, TypeOK
  <1>2. DbStatus(status) = 2 <=> status = "FAILED"
    BY DEF DbStatus, OrderStatus
  <1>3. QED
    BY <1>1, <1>2 DEF UpdateOrderStatus, NoRow

(* A worker that writes the row of the order it holds: nothing else has    *)
(* that order.                                                             *)
LEMMA UpdateNews ==
    ASSUME CustodyInv, News, NEW t \in Threads, held[t] # NoMsg,
           \A p \in Orders \ {held[t].order} : row'[p] = row[p],
           queue' = queue, posts' = posts, verdict' = verdict, told' = told,
           \A u \in Threads \ {t} : held'[u] = held[u] /\ pc'[u] = pc[u],
           \A u \in NotifyThreads \ {t} : tries'[u] = tries[u] /\ answer'[u] = answer[u]
    PROVE  /\ ListsUntold'
           /\ \A u \in Threads \ {t} : held'[u] # NoMsg => NewsBy(u, pc[u], held[u])'
  <1>1. /\ \A q \in Queues : \A i \in DOMAIN queue[q] : At(q, i) \in Orders \ {held[t].order}
        /\ \A u \in Threads \ {t} : held[u] # NoMsg => held[u].order \in Orders \ {held[t].order}
    BY PlaceTypes DEF CustodyInv, Alone
  <1>2. ListsUntold'
    BY <1>1 DEF News, ListsUntold, NewsIn, Unposted, Unanswered, At
  <1>3. ASSUME NEW u \in Threads \ {t}, held'[u] # NoMsg
        PROVE  NewsBy(u, pc[u], held[u])'
    <2>1. /\ held'[u] = held[u] /\ pc'[u] = pc[u] /\ NewsBy(u, pc[u], held[u])
          /\ held[u].order \in Orders \ {held[t].order}
      BY <1>1, <1>3 DEF News, ThreadsTell
    <2>2. QED
      BY <2>1 DEF NewsBy, Unposted, Unanswered
  <1>4. QED
    BY <1>2, <1>3

(* A worker's update: FAILED with no answer yet, or SUCCESS.               *)
LEMMA SettleNews ==
    ASSUME NewsInv, [Next]_vars, NEW t \in Threads, NEW status \in Settled, NEW notifies,
           NEW state \in {"tellFailed", "tellSuccess"},
           status = "FAILED" => notifies = {NOTIFY_UNDONE},
           pc[t] \notin {"loop", "exited", "tellFailed", "tellSuccess", "check", "post"},
           Settle(t, status, notifies, state)
    PROVE  News'
  <1>1. TypeInv /\ CustodyInv /\ News
    BY DEF NewsInv, CustodyInv
  <1>2. PICK o \in Orders : o = held[t].order
    BY <1>1, HeldType
  <1>3. /\ held[t] \in Message /\ held[t] # NoMsg /\ status \in OrderStatus
        /\ NewsBy(t, pc[t], held[t])
    BY <1>1, HeldType, PipelineAssumption DEF Settled, OrderStatus, News, ThreadsTell
  <1>4. /\ \A p \in Orders \ {o} : row'[p] = row[p]
        /\ Unanswered(o)'
    <2>1. CASE row' = row
      BY <1>2, <1>3, <2>1 DEF NewsBy, Unanswered
    <2>2. ASSUME NEW n \in notifies, UpdateOrderStatus(o, status, n)
          PROVE  (\A p \in Orders \ {o} : row'[p] = row[p]) /\ Unanswered(o)'
      BY <1>1, <1>2, <1>3, <2>2, UpdateNotify DEF Unanswered
    <2>3. QED
      BY <1>2, <2>1, <2>2 DEF Settle, UpdateFails
  <1>5. \A u \in Threads :
            /\ held'[u] = IF u = t THEN [held[t] EXCEPT !.status = status] ELSE held[u]
            /\ pc'[u] = IF u = t THEN state ELSE pc[u]
    BY <1>1 DEF Settle, Goto, TypeInv, TypeOK
  <1>6. /\ [held[t] EXCEPT !.status = status].order = o
        /\ [held[t] EXCEPT !.status = status].status = status
    BY <1>2, <1>3 DEF Message
  <1>7. /\ queue' = queue /\ posts' = posts /\ verdict' = verdict /\ told' = told
        /\ tries' = tries /\ answer' = answer
    BY DEF Settle, buyerVars, postVars
  <1>8. NewsBy(t, pc[t], held[t])'
    BY <1>2, <1>3, <1>4, <1>5, <1>6, <1>7 DEF NewsBy, Unposted, Unanswered
  <1>9. ListsUntold' /\ ThreadsTell'
    BY <1>1, <1>2, <1>3, <1>4, <1>5, <1>7, <1>8, UpdateNews DEF ThreadsTell
  <1>10. FreshUntold'
    <2>1. NothingFresher
      BY StepMoves DEF NewsInv, CustodyInv, Move, Stay, Enter, Leave, Fetch, Hand
    <2>2. QED
      BY <1>1, <1>7, <2>1 DEF News, FreshUntold, NothingFresher, Unposted
  <1>11. PostsBounded' /\ ConsistentNews' /\ FailedRowTellsAnswer'
    BY <1>1, <1>4, <1>7 DEF News, PostsBounded, ConsistentNews, FailedRowTellsAnswer, Unanswered
  <1>12. QED
    BY <1>9, <1>10, <1>11 DEF News
(***************************************************************************)
(* One lemma per group of actions.                                         *)
(***************************************************************************)

(* At first nobody was told anything.                                      *)
LEMMA InitNews == Init => NewsInv
  <1> SUFFICES ASSUME Init PROVE NewsInv
    OBVIOUS
  <1>1. \A q \in Queues : DOMAIN queue[q] = {}
    BY DEF Init
  <1>2. FreshUntold /\ ListsUntold /\ ThreadsTell
    BY <1>1 DEF Init, FreshUntold, ListsUntold, ThreadsTell, Unposted
  <1>3. PostsBounded /\ ConsistentNews /\ FailedRowTellsAnswer
    BY PipelineAssumption DEF Init, PostsBounded, ConsistentNews, FailedRowTellsAnswer, NoRow
  <1>4. QED
    BY <1>2, <1>3, InitCustody DEF NewsInv, News

(* The intake pushes orders nobody was told of, and commits no failure.    *)
LEMMA IntakeNews ==
    ASSUME NewsInv, [Next]_vars, NEW o \in Orders, Intake(o) \/ ServerCrash
    PROVE  News'
  <1>1. TypeInv /\ CustodyInv /\ News
    BY DEF NewsInv, CustodyInv
  <1>2. /\ held' = held /\ pc' = pc /\ tries' = tries /\ answer' = answer
        /\ posts' = posts /\ verdict' = verdict /\ told' = told
    BY DEF Intake, InsertOrder, PushOrder, FinishOrder, ServerCrash, threadVars, postVars, buyerVars
  <1>3. ASSUME row' = row, ListsUntold' PROVE News'
    <2>1. ThreadsTell'
      BY <1>1, <1>2, <1>3 DEF News, ThreadsTell, NewsBy, Unposted, Unanswered
    <2>2. QED
      BY <1>1, <1>2, <1>3, <2>1, QuietNews DEF Quiet
  <1>4. CASE row' = row /\ queue' = queue
    BY <1>1, <1>2, <1>3, <1>4, ListsNews DEF Quiet
  <1>5. CASE PushOrder(o) /\ Push("underway", NewMessage(o))
    <2>1. NewMessage(o) \in Message /\ NewMessage(o).order = o
      BY PipelineAssumption DEF NewMessage, Message, OrderStatus, QueryPause
    <2>2. row' = row /\ Unposted(o)
      BY <1>1, <1>5 DEF PushOrder, News, FreshUntold, Fresh
    <2>3. Unanswered(o)
      BY <1>1, <2>2, PipelineAssumption DEF News, FailedRowTellsAnswer, Unposted, Unanswered
    <2>4. NewsIn("underway", NewMessage(o))
      BY <2>1, <2>2, <2>3 DEF NewsIn, Unanswered
    <2>5. ListsUntold'
      BY <1>1, <1>2, <1>5, <2>1, <2>2, <2>4, ListsNews DEF Push, Queues, Quiet
    <2>6. QED
      BY <1>3, <2>2, <2>5
  <1>6. CASE FinishOrder(o) /\ row' = [row EXCEPT ![o] = [status |-> 1, notify |-> NOTIFY_UNDONE]]
    <2>1. row'[o].status # 2 /\ \A p \in Orders \ {o} : row'[p] = row[p]
      BY <1>1, <1>6 DEF TypeInv, TypeOK
    <2>2. \A p \in Orders : row'[p].status = 2 => row'[p] = row[p]
      BY <2>1
    <2>3. queue' = queue
      BY <1>6 DEF FinishOrder
    <2>4. /\ \A q \in Queues : \A i \in DOMAIN queue[q] : queue[q][i].order \in Orders
          /\ \A t \in Threads : held[t] # NoMsg => held[t].order \in Orders
      BY <1>1, PlaceTypes DEF At
    <2>5. ListsUntold'
      BY <1>1, <1>2, <2>2, <2>3, <2>4 DEF News, ListsUntold, NewsIn, Unposted, Unanswered
    <2>6. ASSUME NEW t \in Threads, held'[t] # NoMsg PROVE NewsBy(t, pc[t], held[t])'
      <3>1. NewsBy(t, pc[t], held[t]) /\ held[t].order \in Orders
        BY <1>1, <1>2, <2>4, <2>6 DEF News, ThreadsTell
      <3>2. QED
        BY <1>2, <2>2, <3>1 DEF NewsBy, Unposted, Unanswered
    <2>7. FreshUntold'
      <3>1. NothingFresher
        BY StepMoves DEF NewsInv, CustodyInv, Move, Stay, Enter, Leave, Fetch, Hand
      <3>2. QED
        BY <1>1, <1>2, <3>1 DEF News, FreshUntold, NothingFresher, Unposted
    <2>8. PostsBounded' /\ ConsistentNews' /\ FailedRowTellsAnswer'
      BY <1>1, <1>2, <2>2 DEF News, PostsBounded, ConsistentNews, FailedRowTellsAnswer
    <2>9. QED
      BY <2>5, <2>6, <2>7, <2>8 DEF News, ThreadsTell
  <1>7. QED
    BY <1>4, <1>5, <1>6 DEF Intake, InsertOrder, PushOrder, FinishOrder, ServerCrash

(* A charge thread tells nobody anything itself.                           *)
LEMMA ChargeNews ==
    ASSUME NewsInv, [Next]_vars, NEW t \in ChargeThreads, ChargeStep(t)
    PROVE  News'
  <1>1. /\ TypeInv /\ CustodyInv /\ News /\ t \in Threads
        /\ "underway" \in Queues /\ "query" \in Queues /\ "notify" \in Queues
    BY DEF NewsInv, CustodyInv, Threads, Queues
  <1>2. CASE ChargeDequeue(t)
    <2>1. Head(queue["underway"]) \in Message /\ queue["underway"] # <<>>
      BY <1>1, <1>2, PlaceTypes, TailMessage DEF ChargeDequeue, CanTake
    <2>2. DEFINE m == [Head(queue["underway"]) EXCEPT !.idle = 0]
    <2>3. /\ m \in Message /\ m.order = Head(queue["underway"]).order
          /\ m.status = Head(queue["underway"]).status
      BY <2>1, AgedMessage DEF Message
    <2>4. Take(t, "underway", m, "charge") /\ Quiet /\ tries' = tries /\ answer' = answer
      BY <1>2 DEF ChargeDequeue, Quiet, buyerVars, postVars
    <2>5. "charge" \in ThreadStates \ {"tellFailed", "tellSuccess", "post"}
      BY DEF ThreadStates
    <2>6. QED
      BY <1>1, <2>1, <2>3, <2>4, <2>5, TakeNews, QuietNews
  <1>3. CASE ChargeRequest(t)
    <2>1. /\ queue' = queue /\ held' = held /\ Quiet /\ tries' = tries /\ answer' = answer
          /\ \A u \in Threads : pc'[u] = pc[u] \/ (u = t /\ pc'[u] \in {"charged", "rejected"})
      BY <1>1, <1>3 DEF ChargeRequest, Goto, Quiet, buyerVars, postVars, TypeInv, TypeOK
    <2>2. pc[t] = "charge"
      BY <1>3 DEF ChargeRequest
    <2>3. ThreadsTell'
      BY <1>1, <2>1, <2>2 DEF News, ThreadsTell, NewsBy, Unposted, Unanswered, Quiet
    <2>4. QED
      BY <1>1, <2>1, <2>3, ListsNews, QuietNews
  <1>4. CASE ChargeFailed(t)
    BY <1>1, <1>4, SettleNews DEF ChargeFailed, Settled
  <1>5. CASE ChargeTellFailed(t) \/ ChargeSucceeded(t)
    BY <1>1, <1>5, SendNews, QuietNews DEF ChargeTellFailed, ChargeSucceeded
  <1>6. QED
    BY <1>2, <1>3, <1>4, <1>5 DEF ChargeStep

(* Nor does a query thread.                                                *)
LEMMA QueryNews ==
    ASSUME NewsInv, [Next]_vars, NEW t \in QueryThreads, QueryStep(t)
    PROVE  News'
  <1>1. /\ TypeInv /\ CustodyInv /\ News /\ t \in Threads
        /\ "query" \in Queues /\ "notify" \in Queues
    BY DEF NewsInv, CustodyInv, Threads, Queues
  <1>2. CASE QueryDequeue(t)
    <2>1. Head(queue["query"]) \in Message /\ queue["query"] # <<>>
      BY <1>1, <1>2, PlaceTypes, TailMessage DEF QueryDequeue, CanTake
    <2>2. DEFINE m == [Head(queue["query"]) EXCEPT !.idle = 0]
    <2>3. /\ m \in Message /\ m.order = Head(queue["query"]).order
          /\ m.status = Head(queue["query"]).status
      BY <2>1, AgedMessage DEF Message
    <2>4. \E n \in Message, state \in ThreadStates \ {"tellFailed", "tellSuccess", "post", "check"} :
              /\ n.order = Head(queue["query"]).order /\ n.status = Head(queue["query"]).status
              /\ Take(t, "query", n, state)
      BY <1>2, <2>1, <2>3 DEF QueryDequeue, ThreadStates
    <2>5. Quiet /\ tries' = tries /\ answer' = answer
      BY <1>2 DEF QueryDequeue, Quiet, buyerVars, postVars
    <2>6. QED
      BY <1>1, <2>1, <2>4, <2>5, TakeNews, QuietNews
  <1>3. CASE QueryPushBack(t) \/ QueryTellSuccess(t)
    BY <1>1, <1>3, SendNews, QuietNews DEF QueryPushBack, QueryTellSuccess
  <1>4. CASE QueryRequest(t)
    <2>1. /\ queue' = queue /\ held' = held /\ Quiet /\ tries' = tries /\ answer' = answer
          /\ \A u \in Threads : \/ pc'[u] = pc[u]
                                \/ u = t /\ pc'[u] \in {"succeeded", "timedOut", "unfinished"}
      BY <1>1, <1>4 DEF QueryRequest, Goto, Quiet, buyerVars, postVars, TypeInv, TypeOK
    <2>2. pc[t] \in {"query", "queryLate"}
      BY <1>4 DEF QueryRequest
    <2>3. ThreadsTell'
      BY <1>1, <2>1, <2>2 DEF News, ThreadsTell, NewsBy, Unposted, Unanswered, Quiet
    <2>4. QED
      BY <1>1, <2>1, <2>3, ListsNews, QuietNews
  <1>5. CASE QueryFinished(t)
    BY <1>1, <1>5, SettleNews DEF QueryFinished, Settled
  <1>6. CASE QueryDropped(t)
    <2>1. queue' = queue /\ Quiet /\ Release(t) /\ tries' = tries /\ answer' = answer
      BY <1>6 DEF QueryDropped, Quiet, buyerVars, postVars
    <2>2. QED
      BY <1>1, <2>1, ListsNews, ReleaseNews, QuietNews
  <1>7. QED
    BY <1>2, <1>3, <1>4, <1>5, <1>6 DEF QueryStep
(* A round of TmallNotify's loop: one more post, one retry less; the       *)
(* answer read is the verdict and ends the loop.                           *)
LEMMA PostNews ==
    ASSUME NewsInv, [Next]_vars, NEW t \in NotifyThreads, NotifyPost(t)
    PROVE  News'
  <1>1. TypeInv /\ Alone /\ News /\ t \in Threads
    BY DEF NewsInv, CustodyInv, Threads
  <1>2. PICK o \in Orders : o = held[t].order
    BY <1>1, HeldType DEF NotifyPost
  <1>3. /\ held[t] # NoMsg /\ pc[t] = "post"
        /\ NewsBy(t, "post", held[t]) /\ held[t].status \in Settled
    BY <1>1, HeldType, PipelineAssumption DEF NotifyPost, News, ThreadsTell, NewsBy
  <1>4. /\ held' = held /\ pc' = pc /\ queue' = queue /\ row' = row /\ intake' = intake
        /\ tries' = [tries EXCEPT ![t] = @ - 1]
        /\ posts' = [posts EXCEPT ![o] = @ + 1]
        /\ tries[t] > 0 /\ answer[t] = NOTIFY_UNDONE
    BY <1>2 DEF NotifyPost, MorePosts, threadVars
  <1>5. /\ posts[o] + tries[t] = NotifyRetries /\ verdict[o] = answer[t]
        /\ told[o] \subseteq {held[t].status} /\ Unanswered(o)
    BY <1>2, <1>3 DEF NewsBy
  <1>6. /\ tries \in [NotifyThreads -> 0..NotifyRetries]
        /\ answer \in [NotifyThreads -> NotifyStatus]
        /\ posts \in [Orders -> Nat]
        /\ told \in [Orders -> SUBSET OrderStatus]
        /\ verdict \in [Orders -> NotifyStatus]
    BY <1>1 DEF TypeInv, TypeOK
  <1>7. /\ \A p \in Orders \ {o} : posts'[p] = posts[p] /\ verdict'[p] = verdict[p] /\ told'[p] = told[p]
        /\ \A u \in NotifyThreads \ {t} : tries'[u] = tries[u] /\ answer'[u] = answer[u]
    BY <1>2, <1>4, <1>6 DEF NotifyPost
  <1>8. posts'[o] = posts[o] + 1 /\ tries'[t] = tries[t] - 1 /\ posts'[o] + tries'[t] = NotifyRetries
    BY <1>4, <1>5, <1>6, PipelineAssumption
  <1>9. verdict'[o] = answer'[t] /\ told'[o] \subseteq {held[t].status}
    BY <1>2, <1>4, <1>5, <1>6 DEF NotifyPost
  <1>10. /\ ~Fresh(o)
         /\ \A q \in Queues : \A i \in DOMAIN queue[q] : queue[q][i].order \in Orders \ {o}
         /\ \A u \in Threads \ {t} : held[u] # NoMsg => held[u].order \in Orders \ {o}
    BY <1>1, <1>2, <1>3, PlaceTypes DEF Alone, At
  <1>11. FreshUntold'
    BY <1>1, <1>4, <1>7, <1>10 DEF News, FreshUntold, Unposted, Fresh
  <1>12. ListsUntold'
    <2>1. ASSUME NEW q \in Queues, NEW i \in DOMAIN queue'[q] PROVE NewsIn(q, queue[q][i])'
      <3>1. NewsIn(q, queue[q][i]) /\ queue[q][i].order \in Orders \ {o}
        BY <1>1, <1>4, <1>10, <2>1 DEF News, ListsUntold
      <3>2. QED
        BY <1>4, <1>7, <3>1 DEF NewsIn, Unposted, Unanswered
    <2>2. QED
      BY <2>1 DEF ListsUntold
  <1>13. ASSUME NEW u \in Threads, held'[u] # NoMsg PROVE NewsBy(u, pc[u], held[u])'
    <2>1. CASE u = t
      BY <1>2, <1>3, <1>4, <1>5, <1>8, <1>9, <2>1 DEF NewsBy, Unanswered
    <2>2. CASE u # t
      <3>1. NewsBy(u, pc[u], held[u]) /\ held[u].order \in Orders \ {o}
        BY <1>1, <1>4, <1>10, <1>13, <2>2 DEF News, ThreadsTell
      <3>2. QED
        BY <1>4, <1>7, <2>2, <3>1 DEF NewsBy, Unposted, Unanswered
    <2>3. QED
      BY <2>1, <2>2
  <1>14. PostsBounded'
    <2>1. posts'[o] <= NotifyRetries
      BY <1>4, <1>5, <1>6, <1>8, PipelineAssumption
    <2>2. QED
      BY <1>1, <1>7, <2>1 DEF News, PostsBounded
  <1>15. ConsistentNews'
    <2>1. ~({"SUCCESS", "FAILED"} \subseteq told'[o])
      BY <1>9
    <2>2. \A p \in Orders \ {o} : ~({"SUCCESS", "FAILED"} \subseteq told'[p])
      BY <1>1, <1>7 DEF News, ConsistentNews
    <2>3. QED
      BY <2>1, <2>2 DEF ConsistentNews
  <1>16. FailedRowTellsAnswer'
    BY <1>1, <1>4, <1>5, <1>7 DEF News, FailedRowTellsAnswer, Unanswered
  <1>17. QED
    BY <1>11, <1>12, <1>13, <1>14, <1>15, <1>16 DEF News, ThreadsTell

(* The end of TmallNotify: the row gets the answer, or NOTIFY_FAIL when    *)
(* the retries are used up.                                                *)
LEMMA RecordNews ==
    ASSUME NewsInv, [Next]_vars, NEW t \in NotifyThreads, NotifyRecord(t)
    PROVE  News'
  <1>1. TypeInv /\ CustodyInv /\ News /\ t \in Threads
    BY DEF NewsInv, CustodyInv, Threads
  <1>2. PICK o \in Orders : o = held[t].order
    BY <1>1, HeldType DEF NotifyRecord
  <1>3. /\ held[t] \in Message /\ held[t] # NoMsg /\ NewsBy(t, "post", held[t])
        /\ held[t].status \in OrderStatus
    BY <1>1, HeldType, PipelineAssumption DEF NotifyRecord, News, ThreadsTell, NewsBy, Message
  <1>4. /\ queue' = queue /\ intake' = intake
        /\ posts' = posts /\ verdict' = verdict /\ told' = told
        /\ tries[t] <= 0 \/ answer[t] # NOTIFY_UNDONE
    BY <1>1 DEF NotifyRecord, MorePosts, buyerVars, TypeInv, TypeOK
  <1>5. /\ \A u \in Threads \ {t} : held'[u] = held[u] /\ pc'[u] = pc[u]
        /\ \A u \in NotifyThreads \ {t} : tries'[u] = tries[u] /\ answer'[u] = answer[u]
        /\ held'[t] = NoMsg
    BY <1>1 DEF NotifyRecord, NotifyEnd, Release, TypeInv, TypeOK
  <1>6. posts[o] + tries[t] = NotifyRetries /\ verdict[o] = answer[t] /\ Unanswered(o)
    BY <1>2, <1>3 DEF NewsBy
  <1>7. /\ \A p \in Orders \ {o} : row'[p] = row[p]
        /\ row'[o].status = 2 => row'[o].notify \in {NOTIFY_UNDONE, Outcome(t)}
    <2>1. CASE row' = row
      BY <1>6, <2>1 DEF Unanswered
    <2>2. CASE UpdateOrderStatus(o, held[t].status, Outcome(t))
      BY <1>1, <1>3, <2>2, UpdateNotify
    <2>3. QED
      BY <1>2, <2>1, <2>2 DEF NotifyRecord, UpdateFails
  <1>8. Outcome(t) = verdict[o] \/ (Outcome(t) = NOTIFY_FAIL /\ verdict[o] = NOTIFY_UNDONE /\ posts[o] = NotifyRetries)
    <2>1. tries[t] \in Nat /\ posts[o] \in Nat
      BY <1>1 DEF TypeInv, TypeOK
    <2>2. answer[t] = NOTIFY_UNDONE => posts[o] = NotifyRetries
      BY <1>4, <1>6, <2>1, PipelineAssumption
    <2>3. QED
      BY <1>6, <2>2 DEF Outcome
  <1>9. ListsUntold' /\ ThreadsTell'
    BY <1>1, <1>2, <1>3, <1>4, <1>5, <1>7, UpdateNews DEF ThreadsTell
  <1>10. FreshUntold'
    BY <1>1, <1>4 DEF News, FreshUntold, Unposted, Fresh
  <1>11. PostsBounded' /\ ConsistentNews'
    BY <1>1, <1>4 DEF News, PostsBounded, ConsistentNews
  <1>12. FailedRowTellsAnswer'
    BY <1>1, <1>4, <1>7, <1>8 DEF News, FailedRowTellsAnswer
  <1>13. QED
    BY <1>9, <1>10, <1>11, <1>12 DEF News

(* A notify thread posts only what was never posted before.                *)
LEMMA NotifyNews ==
    ASSUME NewsInv, [Next]_vars, NEW t \in NotifyThreads, NotifyStep(t)
    PROVE  News'
  <1>1. TypeInv /\ CustodyInv /\ News /\ t \in Threads /\ "notify" \in Queues
    BY DEF NewsInv, CustodyInv, Threads, Queues
  <1>2. CASE NotifyDequeue(t)
    <2>1. Head(queue["notify"]) \in Message /\ queue["notify"] # <<>>
      BY <1>1, <1>2, PlaceTypes, TailMessage DEF NotifyDequeue, CanTake
    <2>2. /\ Take(t, "notify", Head(queue["notify"]), "check")
          /\ Quiet /\ tries' = tries /\ answer' = answer
      BY <1>2 DEF NotifyDequeue, Quiet, buyerVars, postVars
    <2>3. "check" \in ThreadStates \ {"tellFailed", "tellSuccess", "post"}
      BY DEF ThreadStates
    <2>4. QED
      BY <1>1, <2>1, <2>2, <2>3, TakeNews, QuietNews
  <1>3. CASE NotifyDropped(t)
    <2>1. /\ queue["notify"] # <<>> /\ queue' = [queue EXCEPT !["notify"] = Tail(@)]
          /\ Quiet /\ pc' = pc /\ held' = held /\ tries' = tries /\ answer' = answer
      BY <1>3 DEF NotifyDropped, CanTake, threadVars, Quiet, buyerVars, postVars
    <2>2. ThreadsTell'
      BY <1>1, <2>1 DEF News, ThreadsTell, NewsBy, Unposted, Unanswered, Quiet
    <2>3. QED
      BY <1>1, <2>1, <2>2, ListsNews, QuietNews
  <1>4. CASE NotifyCheck(t)
    <2>1. queue' = queue /\ Quiet
      BY <1>4 DEF NotifyCheck, Quiet, buyerVars
    <2>2. CASE Release(t) /\ UNCHANGED postVars
      BY <1>1, <2>1, <2>2, ListsNews, ReleaseNews, QuietNews DEF postVars
    <2>3. CASE /\ Goto(t, "post") /\ held' = held
               /\ tries' = [tries EXCEPT ![t] = NotifyRetries]
               /\ answer' = [answer EXCEPT ![t] = NOTIFY_UNDONE]
      <3>1. /\ pc'[t] = "post" /\ tries'[t] = NotifyRetries /\ answer'[t] = NOTIFY_UNDONE
            /\ \A u \in Threads \ {t} : pc'[u] = pc[u]
            /\ \A u \in NotifyThreads \ {t} : tries'[u] = tries[u] /\ answer'[u] = answer[u]
        BY <1>1, <2>3 DEF Goto, TypeInv, TypeOK
      <3>2. pc[t] = "check" /\ held[t] # NoMsg /\ NewsBy(t, "check", held[t])
        BY <1>1, <1>4, HeldType, PipelineAssumption DEF NotifyCheck, News, ThreadsTell
      <3>3. NewsBy(t, pc[t], held[t])'
        BY <2>1, <2>3, <3>1, <3>2, PipelineAssumption DEF NewsBy, Unposted, Unanswered, Quiet
      <3>4. ASSUME NEW u \in Threads \ {t}, held'[u] # NoMsg PROVE NewsBy(u, pc[u], held[u])'
        <4>1. NewsBy(u, pc[u], held[u])
          BY <1>1, <2>3, <3>4 DEF News, ThreadsTell
        <4>2. QED
          BY <2>1, <2>3, <3>1, <4>1 DEF NewsBy, Unposted, Unanswered, Quiet
      <3>5. ThreadsTell'
        BY <3>3, <3>4 DEF ThreadsTell
      <3>6. QED
        BY <1>1, <2>1, <3>5, ListsNews, QuietNews
    <2>4. QED
      BY <1>4, <2>2, <2>3 DEF NotifyCheck, NotifyEnd
  <1>5. CASE NotifyPost(t) \/ NotifyRecord(t)
    BY <1>5, PostNews, RecordNews
  <1>6. QED
    BY <1>2, <1>3, <1>4, <1>5 DEF NotifyStep

(* Nor do lost replies, crashes, restarts and time tell anybody anything.  *)
LEMMA ProcessNews ==
    ASSUME NewsInv, [Next]_vars,
           \/ \E t \in Threads : ThreadExit(t) \/ NullConnection(t)
           \/ \E q \in Queues : DequeueLost(q)
           \/ SignalStop \/ RunReturns \/ HandlerCrash \/ Run \/ Tick
           \/ UNCHANGED vars
    PROVE  News'
  <1>1. TypeInv /\ Idle /\ Stopped /\ CustodyInv /\ News
    BY DEF NewsInv, CustodyInv
  <1>2. Quiet
    BY DEF ThreadExit, NullConnection, ProcessDies, DequeueLost, SignalStop, RunReturns,
           HandlerCrash, Run, Tick, vars, buyerVars, Quiet
  <1>3. ListsUntold'
    <2>1. CASE Tick
      <3>1. queue' = [queue EXCEPT !["query"] = [i \in DOMAIN queue["query"] |-> Aged(queue["query"][i])]]
        BY <2>1 DEF Tick
      <3>2. \A m \in Message : Aged(m).order = m.order /\ Aged(m).status = m.status
        BY DEF Aged, Message
      <3>3. \A q \in Queues : \A i \in DOMAIN queue'[q] :
                /\ i \in DOMAIN queue[q]
                /\ queue'[q][i].order = queue[q][i].order
                /\ queue'[q][i].status = queue[q][i].status
        BY <1>1, <3>1, <3>2, PlaceTypes
      <3>4. QED
        BY <1>1, <1>2, <3>3 DEF News, ListsUntold, NewsIn, Unposted, Unanswered, Quiet
    <2>2. CASE \E q \in Queues : DequeueLost(q)
      BY <1>1, <1>2, <2>2, ListsNews DEF DequeueLost
    <2>3. CASE queue' = queue
      BY <1>1, <1>2, <2>3, ListsNews
    <2>4. QED
      BY <2>1, <2>2, <2>3 DEF ThreadExit, NullConnection, ProcessDies, SignalStop, RunReturns,
                              HandlerCrash, Run, vars
  <1>4. CASE (\E t \in Threads : NullConnection(t)) \/ HandlerCrash
    <2>1. ThreadsTell'
      BY <1>4 DEF NullConnection, HandlerCrash, ProcessDies, ThreadsTell
    <2>2. QED
      BY <1>1, <1>2, <1>3, <2>1, QuietNews
  <1>5. CASE Run
    <2>1. ThreadsTell'
      BY <1>1, <1>5 DEF Run, Idle, Stopped, ThreadsTell
    <2>2. QED
      BY <1>1, <1>2, <1>3, <2>1, QuietNews
  <1>6. ASSUME tries' = tries, answer' = answer,
               \A u \in Threads : held'[u] # NoMsg =>
                  /\ held[u] # NoMsg /\ pc'[u] = pc[u]
                  /\ held'[u].order = held[u].order /\ held'[u].status = held[u].status
        PROVE  News'
    <2>1. ThreadsTell'
      BY <1>1, <1>2, <1>6 DEF News, ThreadsTell, NewsBy, Unposted, Unanswered, Quiet
    <2>2. QED
      BY <1>1, <1>2, <1>3, <2>1, QuietNews
  <1>7. CASE Tick
    <2>1. \A m \in Message :
              /\ [m EXCEPT !.idle = Older(m.idle, QueryPause)].order = m.order
              /\ [m EXCEPT !.idle = Older(m.idle, QueryPause)].status = m.status
      BY DEF Message
    <2>2. QED
      BY <1>1, <1>6, <1>7, <2>1, PlaceTypes DEF Tick, postVars
  <1>8. ASSUME NEW t \in Threads, ThreadExit(t) PROVE News'
    BY <1>1, <1>6, <1>8 DEF ThreadExit, Goto, Idle, TypeInv, TypeOK, postVars
  <1>9. CASE (\E q \in Queues : DequeueLost(q)) \/ SignalStop \/ RunReturns \/ UNCHANGED vars
    BY <1>6, <1>9 DEF DequeueLost, SignalStop, RunReturns, vars, threadVars, postVars
  <1>10. QED
    BY <1>4, <1>5, <1>7, <1>8, <1>9

(* NewsInv is inductive.                                                   *)
LEMMA NewsInvStep == NewsInv /\ [Next]_vars => NewsInv'
  <1> SUFFICES ASSUME NewsInv, [Next]_vars PROVE NewsInv'
    OBVIOUS
  <1>1. CASE ServerCrash
    <2>1. PICK o \in Orders : TRUE
      BY <1>1 DEF ServerCrash, InProgress
    <2>2. QED
      BY <1>1, <2>1, IntakeNews, CustodyStep DEF NewsInv
  <1>2. CASE ~ServerCrash
    BY <1>2, IntakeNews, ChargeNews, QueryNews, NotifyNews, ProcessNews, CustodyStep DEF Next, NewsInv
  <1>3. QED
    BY <1>1, <1>2

(* No order is posted more than NotifyRetries times in its whole life: it  *)
(* reaches one notify thread once, whatever crashes and restarts.          *)
THEOREM PostsCorrect == Spec => []PostsBounded
  BY InitNews, NewsInvStep, PTL DEF NewsInv, News, Spec

(* No buyer is told both SUCCESS and FAILED of an order.                   *)
THEOREM NewsCorrect == Spec => []ConsistentNews
  BY InitNews, NewsInvStep, PTL DEF NewsInv, News, Spec

(* The NOTIFY of a FAILED row is the buyer's answer, or NOTIFY_FAIL after  *)
(* NotifyRetries posts without one, or nothing yet.                        *)
THEOREM AnswerCorrect == Spec => []FailedRowTellsAnswer
  BY InitNews, NewsInvStep, PTL DEF NewsInv, News, Spec

(* Only TmallNotify's loop posts, and it ends at the first answer.         *)
LEMMA PostStep ==
    ASSUME NewsInv, [Next]_vars, NEW o \in Orders, verdict[o] # NOTIFY_UNDONE
    PROVE  posts'[o] = posts[o]
  <1>1. ASSUME NEW t \in NotifyThreads, NotifyPost(t) PROVE posts'[o] = posts[o]
    <2>1. TypeInv /\ News /\ t \in Threads
      BY DEF NewsInv, CustodyInv, Threads
    <2>2. held[t] # NoMsg /\ NewsBy(t, "post", held[t])
      BY <1>1, <2>1, HeldType, PipelineAssumption DEF NotifyPost, News, ThreadsTell
    <2>3. held[t].order # o
      BY <1>1, <2>2 DEF NewsBy, NotifyPost, MorePosts
    <2>4. QED
      BY <1>1, <2>1, <2>3 DEF NotifyPost, TypeInv, TypeOK
  <1>2. CASE posts' = posts
    BY <1>2
  <1>3. QED
    BY <1>1, <1>2
       DEF Next, Intake, InsertOrder, PushOrder, FinishOrder, ServerCrash, ChargeStep, ChargeDequeue,
           ChargeRequest, ChargeFailed, ChargeTellFailed, ChargeSucceeded, QueryStep, QueryDequeue,
           QueryPushBack, QueryRequest, QueryFinished, QueryDropped, QueryTellSuccess, Settle, Send,
           NotifyStep, NotifyDequeue, NotifyDropped, NotifyCheck, NotifyRecord, ThreadExit,
           NullConnection, ProcessDies, DequeueLost, SignalStop, RunReturns, HandlerCrash, Run, Tick,
           vars, buyerVars

(* Once an answer of the buyer has been read, he is never posted to again. *)
THEOREM VerdictCorrect == Spec => NoPostAfterVerdict
  <1>1. NewsInv /\ [Next]_vars =>
            [\A o \in Orders : verdict[o] # NOTIFY_UNDONE => posts'[o] = posts[o]]_vars
    BY PostStep
  <1>2. QED
    BY <1>1, InitNews, NewsInvStep, PTL DEF Spec, NoPostAfterVerdict
=============================================================================
