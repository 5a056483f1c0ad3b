------------------------ MODULE OrderLifecycleProofs ------------------------
(***************************************************************************)
(* OrderPipeline implements OrderLifecycle, for any number of orders and   *)
(* threads and any faults, and loses no order without one.                 *)
(***************************************************************************)
EXTENDS OrderNewsProofs

(***************************************************************************)
(* The stage of an order is where its one message is.                      *)
(***************************************************************************)

StageFacts(o) ==
    /\ Fresh(o) => StageOf(o) = "new"
    /\ \A q \in Queues : \A i \in DOMAIN queue[q] :
          At(q, i) = o => StageOf(o) = InList(q, queue[q][i])
    /\ \A t \in Threads : Holds(t, o) => StageOf(o) = InThread(pc[t], held[t])
    /\ ~Fresh(o) /\ ~InCustody(o) => StageOf(o) = "over"

LEMMA StageIs == CustodyInv => \A o \in Orders : StageFacts(o)
  <1> SUFFICES ASSUME CustodyInv, NEW o \in Orders PROVE StageFacts(o)
    OBVIOUS
  <1>1. Alone
    BY DEF CustodyInv
  <1>2. \A s : s \in StagesOf(o) <=>
            \/ \E q \in Queues : \E i \in DOMAIN queue[q] : At(q, i) = o /\ s = InList(q, queue[q][i])
            \/ \E t \in Threads : Holds(t, o) /\ s = InThread(pc[t], held[t])
    <2>1. \A q \in Queues : \A s :
              s \in StagesIn(q, o) <=> \E i \in DOMAIN queue[q] : At(q, i) = o /\ s = InList(q, queue[q][i])
      BY DEF StagesIn, At
    <2>2. \A s : s \in StagesHeld(o) <=> \E t \in Threads : Holds(t, o) /\ s = InThread(pc[t], held[t])
      BY DEF StagesHeld
    <2>3. QED
      BY <2>1, <2>2 DEF StagesOf
  <1>3. Fresh(o) => StageOf(o) = "new"
    BY DEF Fresh, StageOf
  <1>4. ASSUME NEW q \in Queues, NEW i \in DOMAIN queue[q], At(q, i) = o
        PROVE  StageOf(o) = InList(q, queue[q][i])
    <2>1. StagesOf(o) = {InList(q, queue[q][i])}
      BY <1>1, <1>2, <1>4 DEF Alone, Holds
    <2>2. ~Fresh(o)
      BY <1>1, <1>4 DEF Alone
    <2>3. QED
      BY <2>1, <2>2 DEF StageOf, Fresh
  <1>5. ASSUME NEW t \in Threads, Holds(t, o) PROVE StageOf(o) = InThread(pc[t], held[t])
    <2>1. StagesOf(o) = {InThread(pc[t], held[t])}
      BY <1>1, <1>2, <1>5 DEF Alone, Holds
    <2>2. ~Fresh(o)
      BY <1>1, <1>5 DEF Alone, Holds
    <2>3. QED
      BY <2>1, <2>2 DEF StageOf, Fresh
  <1>6. ASSUME ~Fresh(o), ~InCustody(o) PROVE StageOf(o) = "over"
    <2>1. StagesOf(o) = {}
      BY <1>2, <1>6 DEF InCustody, InQueue, At
    <2>2. QED
      BY <1>6, <2>1 DEF StageOf, Fresh
  <1>7. QED
    BY <1>3, <1>4, <1>5, <1>6 DEF StageFacts

(* The lists keep what they have of the order p ...                        *)
ListsKeep(p) ==
    \A q \in Queues :
        /\ \A i \in DOMAIN queue[q] : At(q, i) = p =>
              \E j \in DOMAIN queue'[q] : /\ queue'[q][j].order = p
                                          /\ InList(q, queue'[q][j]) = InList(q, queue[q][i])
        /\ \A j \in DOMAIN queue'[q] : queue'[q][j].order = p => InQueue(q, p)

(* ... and so do the threads.                                              *)
ThreadsKeep(p) ==
    \A t \in Threads :
        /\ Holds(t, p) <=> held'[t] # NoMsg /\ held'[t].order = p
        /\ Holds(t, p) => InThread(pc'[t], held'[t]) = InThread(pc[t], held[t])

Keeps(p) == StageOf(p)' = StageOf(p)

(* An order that nothing moves keeps its stage.                            *)
LEMMA KeepsStage ==
    ASSUME CustodyInv, CustodyInv', NEW p \in Orders, Fresh(p)' <=> Fresh(p),
           ListsKeep(p), ThreadsKeep(p)
    PROVE  Keeps(p)
  <1>1. StageFacts(p) /\ StageFacts(p)'
    <2>1. StageFacts(p)
      BY StageIs
    <2>2. (CustodyInv => \A o \in Orders : StageFacts(o))'
      BY StageIs, PTL
    <2>3. QED
      BY <2>1, <2>2
  <1>2. CASE Fresh(p)
    BY <1>1, <1>2 DEF StageFacts, Keeps
  <1>3. ASSUME NEW q \in Queues, NEW i \in DOMAIN queue[q], At(q, i) = p PROVE Keeps(p)
    <2>1. PICK j \in DOMAIN queue'[q] : /\ queue'[q][j].order = p
                                        /\ InList(q, queue'[q][j]) = InList(q, queue[q][i])
      BY <1>3 DEF ListsKeep
    <2>2. QED
      BY <1>1, <1>3, <2>1 DEF StageFacts, Keeps, At
  <1>4. ASSUME NEW t \in Threads, Holds(t, p) PROVE Keeps(p)
    BY <1>1, <1>4 DEF StageFacts, Keeps, ThreadsKeep, Holds
  <1>5. CASE ~Fresh(p) /\ ~InCustody(p)
    <2>1. ~Fresh(p)' /\ ~InCustody(p)'
      BY <1>5 DEF ListsKeep, ThreadsKeep, InCustody, InQueue, Holds
    <2>2. QED
      BY <1>1, <1>5, <2>1 DEF StageFacts, Keeps
  <1>6. QED
    BY <1>2, <1>3, <1>4, <1>5 DEF InCustody, InQueue, At

(* Lists that lose another order's message, or gain one.                   *)
LEMMA OthersInLists ==
    ASSUME TypeInv, NEW p \in Orders,
           \/ queue' = queue
           \/ \E q \in Queues : /\ queue[q] # <<>> /\ Head(queue[q]).order # p
                                /\ queue' = [queue EXCEPT ![q] = Tail(@)]
           \/ \E q \in Queues, m \in Message : /\ m.order # p
                                               /\ queue' = [queue EXCEPT ![q] = Append(@, m)]
    PROVE  ListsKeep(p)
  <1>1. queue \in [Queues -> Seq(Message)]
    BY PlaceTypes
  <1>2. CASE queue' = queue
    BY <1>2 DEF ListsKeep, InQueue, At
  <1>3. ASSUME NEW q \in Queues, queue[q] # <<>>, Head(queue[q]).order # p,
               queue' = [queue EXCEPT ![q] = Tail(@)]
        PROVE  ListsKeep(p)
    <2>1. \A r \in Queues : r # q => queue'[r] = queue[r]
      BY <1>1, <1>3
    <2>2. queue'[q] = Tail(queue[q]) /\ queue[q] \in Seq(Message)
      BY <1>1, <1>3
    <2>3. ASSUME NEW i \in DOMAIN queue[q], queue[q][i].order = p
          PROVE  \E j \in DOMAIN queue'[q] : queue'[q][j] = queue[q][i]
      <3>1. i # 1 /\ i \in Nat /\ i - 1 \in DOMAIN Tail(queue[q])
        BY <1>3, <2>2, <2>3
      <3>2. Tail(queue[q])[i - 1] = queue[q][i]
        BY <2>2, <3>1, TailAt, <1>3
      <3>3. QED
        BY <2>2, <3>1, <3>2
    <2>4. \A j \in DOMAIN queue'[q] : \E i \in DOMAIN queue[q] : queue'[q][j] = queue[q][i]
      BY <1>3, <2>2, TailAt
    <2>5. QED
      BY <2>1, <2>3, <2>4 DEF ListsKeep, InQueue, At
  <1>4. ASSUME NEW q \in Queues, NEW m \in Message, m.order # p,
               queue' = [queue EXCEPT ![q] = Append(@, m)]
        PROVE  ListsKeep(p)
    <2>1. \A r \in Queues : r # q => queue'[r] = queue[r]
      BY <1>1, <1>4
    <2>2. queue'[q] = Append(queue[q], m) /\ queue[q] \in Seq(Message)
      BY <1>1, <1>4
    <2>3. \A i \in DOMAIN queue[q] : i \in DOMAIN queue'[q] /\ queue'[q][i] = queue[q][i]
      BY <2>2
    <2>4. \A j \in DOMAIN queue'[q] :
              queue'[q][j].order = p => \E i \in DOMAIN queue[q] : queue'[q][j] = queue[q][i]
      BY <1>4, <2>2, AppendAt
    <2>5. QED
      BY <2>1, <2>3, <2>4 DEF ListsKeep, InQueue, At
  <1>5. QED
    BY <1>2, <1>3, <1>4

(* Threads of which one at most does something, with another order.        *)
LEMMA OthersInThreads ==
    ASSUME NEW p \in Orders, NEW t \in Threads,
           held[t] # NoMsg => held[t].order # p,
           held'[t] # NoMsg => held'[t].order # p,
           \A u \in Threads \ {t} : held'[u] = held[u] /\ pc'[u] = pc[u]
    PROVE  ThreadsKeep(p)
  BY DEF ThreadsKeep, Holds

(***************************************************************************)
(* How a step moves the order of the message it works on, and leaves the   *)
(* others where they are.                                                  *)
(***************************************************************************)

OthersKeep(o) == \A p \in Orders \ {o} : Keeps(p)

LEMMA StageAfter == CustodyInv' => \A o \in Orders : StageFacts(o)'
  <1>1. (CustodyInv => \A o \in Orders : StageFacts(o))'
    BY StageIs, PTL
  <1>2. QED
    BY <1>1

(* A thread goes on with its message.                                      *)
LEMMA WorkStage ==
    ASSUME CustodyInv, CustodyInv', NEW t \in Threads, NEW o \in Orders,
           held[t] # NoMsg, held[t].order = o, held'[t] # NoMsg, held'[t].order = o,
           \A u \in Threads \ {t} : held'[u] = held[u] /\ pc'[u] = pc[u],
           intake' = intake, queue' = queue
    PROVE  /\ StageOf(o) = InThread(pc[t], held[t])
           /\ StageOf(o)' = InThread(pc'[t], held'[t])
           /\ OthersKeep(o)
  <1>1. StageFacts(o) /\ StageFacts(o)'
    BY StageIs, StageAfter
  <1>2. ASSUME NEW p \in Orders \ {o} PROVE Keeps(p)
    <2>1. ListsKeep(p) /\ ThreadsKeep(p)
      BY OthersInLists, OthersInThreads DEF CustodyInv
    <2>2. QED
      BY <2>1, KeepsStage DEF Fresh
  <1>3. QED
    BY <1>1, <1>2 DEF StageFacts, Holds, OthersKeep

(* A thread lets go of its message.                                        *)
LEMMA ReleaseStage ==
    ASSUME CustodyInv, CustodyInv', NEW t \in Threads, NEW o \in Orders,
           held[t] # NoMsg, held[t].order = o, held'[t] = NoMsg,
           \A u \in Threads \ {t} : held'[u] = held[u] /\ pc'[u] = pc[u],
           intake' = intake, queue' = queue
    PROVE  StageOf(o)' = "over" /\ OthersKeep(o)
  <1>1. Alone /\ ~Fresh(o)
    BY DEF CustodyInv, Alone
  <1>2. ~Fresh(o)' /\ ~InCustody(o)'
    BY <1>1 DEF Alone, InCustody, InQueue, Holds, Fresh, At
  <1>3. ASSUME NEW p \in Orders \ {o} PROVE Keeps(p)
    <2>1. ListsKeep(p) /\ ThreadsKeep(p)
      BY OthersInLists, OthersInThreads DEF CustodyInv
    <2>2. QED
      BY <2>1, KeepsStage DEF Fresh
  <1>4. QED
    BY <1>2, <1>3, StageAfter DEF StageFacts, OthersKeep

(* A thread sends its message on.                                          *)
LEMMA HandStage ==
    ASSUME CustodyInv, CustodyInv', NEW t \in Threads, NEW o \in Orders,
           NEW q \in Queues, NEW m \in Message, m.order = o,
           held[t] # NoMsg, held[t].order = o, held'[t] = NoMsg,
           \A u \in Threads \ {t} : held'[u] = held[u] /\ pc'[u] = pc[u],
           intake' = intake, queue' = [queue EXCEPT ![q] = Append(@, m)]
    PROVE  /\ StageOf(o) = InThread(pc[t], held[t])
           /\ StageOf(o)' = InList(q, m)
           /\ OthersKeep(o)
  <1>1. StageFacts(o) /\ StageFacts(o)'
    BY StageIs, StageAfter
  <1>2. StageOf(o)' = InList(q, m)
    <2>1. queue'[q] = Append(queue[q], m) /\ queue[q] \in Seq(Message)
      BY PlaceTypes DEF CustodyInv
    <2>2. Len(queue[q]) + 1 \in DOMAIN queue'[q] /\ queue'[q][Len(queue[q]) + 1] = m
      BY <2>1
    <2>3. QED
      BY <1>1, <2>2 DEF StageFacts, At
  <1>3. ASSUME NEW p \in Orders \ {o} PROVE Keeps(p)
    <2>1. ListsKeep(p) /\ ThreadsKeep(p)
      BY OthersInLists, OthersInThreads DEF CustodyInv
    <2>2. QED
      BY <2>1, KeepsStage DEF Fresh
  <1>4. QED
    BY <1>1, <1>2, <1>3 DEF StageFacts, Holds, OthersKeep

(* The head of a list goes to a thread.                                    *)
LEMMA FetchStage ==
    ASSUME CustodyInv, CustodyInv', NEW t \in Threads, NEW o \in Orders, NEW q \in Queues,
           queue[q] # <<>>, Head(queue[q]).order = o,
           held[t] = NoMsg, held'[t] # NoMsg, held'[t].order = o,
           \A u \in Threads \ {t} : held'[u] = held[u] /\ pc'[u] = pc[u],
           intake' = intake, queue' = [queue EXCEPT ![q] = Tail(@)]
    PROVE  /\ StageOf(o) = InList(q, Head(queue[q]))
           /\ StageOf(o)' = InThread(pc'[t], held'[t])
           /\ OthersKeep(o)
  <1>1. StageFacts(o) /\ StageFacts(o)'
    BY StageIs, StageAfter
  <1>2. 1 \in DOMAIN queue[q] /\ Head(queue[q]) = queue[q][1]
    BY PlaceTypes DEF CustodyInv
  <1>3. ASSUME NEW p \in Orders \ {o} PROVE Keeps(p)
    <2>1. ListsKeep(p) /\ ThreadsKeep(p)
      BY OthersInLists, OthersInThreads DEF CustodyInv
    <2>2. QED
      BY <2>1, KeepsStage DEF Fresh
  <1>4. QED
    BY <1>1, <1>2, <1>3 DEF StageFacts, Holds, OthersKeep, At

(* The head of a list is lost.                                             *)
LEMMA DropStage ==
    ASSUME CustodyInv, CustodyInv', NEW o \in Orders, NEW q \in Queues,
           queue[q] # <<>>, Head(queue[q]).order = o,
           pc' = pc, held' = held, intake' = intake, queue' = [queue EXCEPT ![q] = Tail(@)]
    PROVE  StageOf(o)' = "over" /\ OthersKeep(o)
  <1>1. 1 \in DOMAIN queue[q] /\ At(q, 1) = o
    BY PlaceTypes DEF CustodyInv, At
  <1>2. Alone /\ ~Fresh(o)
    BY <1>1 DEF CustodyInv, Alone
  <1>3. \A r \in Queues : \A j \in DOMAIN queue'[r] : queue'[r][j].order # o
    <2>1. \A r \in Queues \ {q} : \A j \in DOMAIN queue'[r] : queue'[r][j].order # o
      BY <1>1, <1>2, PlaceTypes DEF Alone, CustodyInv, At
    <2>2. ASSUME NEW j \in DOMAIN queue'[q] PROVE queue'[q][j].order # o
      <3>1. queue'[q] = Tail(queue[q]) /\ queue[q] \in Seq(Message)
        BY PlaceTypes DEF CustodyInv
      <3>2. /\ j \in Nat /\ j + 1 \in DOMAIN queue[q] /\ j + 1 # 1
            /\ queue'[q][j] = queue[q][j + 1]
        BY <3>1, TailAt
      <3>3. QED
        BY <1>1, <1>2, <3>2 DEF Alone, At
    <2>3. QED
      BY <2>1, <2>2
  <1>4. \A u \in Threads : ~(held'[u] # NoMsg /\ held'[u].order = o)
    BY <1>1, <1>2 DEF Alone, At
  <1>5. ~Fresh(o)' /\ ~InCustody(o)'
    BY <1>2, <1>3, <1>4 DEF InCustody, InQueue, Holds, Fresh
  <1>6. ASSUME NEW p \in Orders \ {o} PROVE Keeps(p)
    <2>1. ListsKeep(p) /\ ThreadsKeep(p)
      <3>1. ListsKeep(p)
        BY OthersInLists DEF CustodyInv
      <3>2. QED
        BY <3>1 DEF ThreadsKeep, Holds
    <2>2. QED
      BY <2>1, KeepsStage DEF Fresh
  <1>7. QED
    BY <1>5, <1>6, StageAfter DEF StageFacts, OthersKeep

(* Nothing moves; threads without a message may change their place.        *)
LEMMA IdleStage ==
    ASSUME CustodyInv, CustodyInv', \A p \in Orders : Fresh(p)' <=> Fresh(p),
           queue' = queue, held' = held,
           \A t \in Threads : held[t] # NoMsg => pc'[t] = pc[t]
    PROVE  \A p \in Orders : Keeps(p)
  <1>1. ASSUME NEW p \in Orders PROVE ListsKeep(p) /\ ThreadsKeep(p)
    BY OthersInLists DEF CustodyInv, ThreadsKeep, Holds
  <1>2. QED
    BY <1>1, KeepsStage

(***************************************************************************)
(* What a step is for OrderLifecycle.  An order that ends without a result *)
(* is done or was hit by a fault, which NoSilentLoss asks for.             *)
(***************************************************************************)

Untold == charges' = charges /\ told' = told /\ posts' = posts /\ verdict' = verdict
Gone(p) == StageOf(p)' = "over" /\ p \in done' \cup faulted'

Silent == Untold /\ \A p \in Orders : Keeps(p) \/ Gone(p)

Accepts(o) ==
    Untold /\ OthersKeep(o) /\ StageOf(o) = "new" /\ StageOf(o)' = "underway"

Submits(o) ==
    /\ OthersKeep(o) /\ StageOf(o) = "underway" /\ StageOf(o)' = "submitted"
    /\ charges' = [charges EXCEPT ![o] = @ + 1]
    /\ told' = told /\ posts' = posts /\ verdict' = verdict

Settles(o) ==
    Untold /\ OthersKeep(o) /\ StageOf(o) = "submitted" /\ StageOf(o)' \in Settled

Tells(o) ==
    /\ OthersKeep(o) /\ Keeps(o) /\ StageOf(o) \in Settled
    /\ verdict[o] = 0 /\ posts[o] < NotifyRetries
    /\ posts' = [posts EXCEPT ![o] = @ + 1]
    /\ \/ /\ told' = [told EXCEPT ![o] = @ \cup {StageOf(o)}]
          /\ \E a \in 0..2 : verdict' = [verdict EXCEPT ![o] = a]
       \/ told' = told /\ verdict' = verdict
    /\ charges' = charges

StageStep ==
    \/ Silent
    \/ \E o \in Orders : Accepts(o) \/ Submits(o) \/ Settles(o) \/ Tells(o)

(* A worker that sends its message on moves nothing on the order's way,    *)
(* when the list says of the message what the thread's place said.         *)
LEMMA SendSilent ==
    ASSUME CustodyInv, CustodyInv', NEW t \in Threads, NEW q \in Queues, Send(t, q),
           held[t] \in Message,
           InList(q, Serialized(held[t])) = InThread(pc[t], held[t])
    PROVE  Silent
  <1>1. held[t] # NoMsg /\ held[t].order \in Orders /\ Serialized(held[t]) \in Message
    BY PipelineAssumption, AgedMessage DEF Message
  <1>2. Serialized(held[t]).order = held[t].order
    BY DEF Serialized, Message
  <1>3. /\ held'[t] = NoMsg
        /\ \A u \in Threads \ {t} : held'[u] = held[u] /\ pc'[u] = pc[u]
        /\ intake' = intake /\ Untold
    BY DEF Send, Release, CustodyInv, TypeInv, TypeOK, Untold, buyerVars
  <1>4. CASE queue' = [queue EXCEPT ![q] = Append(@, Serialized(held[t]))]
    BY <1>1, <1>2, <1>3, <1>4, HandStage DEF Silent, Keeps, OthersKeep
  <1>5. CASE queue' = queue /\ Fault({held[t].order})
    <2>1. held[t].order \in faulted'
      BY <1>5 DEF Fault
    <2>2. QED
      BY <1>1, <1>3, <1>5, <2>1, ReleaseStage DEF Silent, Gone, OthersKeep
  <1>6. QED
    BY <1>4, <1>5 DEF Send, Enqueue, Push

(* A worker that settles its order has a result for it.                    *)
LEMMA SettleSettles ==
    ASSUME CustodyInv, CustodyInv', NEW t \in Threads, NEW status \in Settled, NEW notifies,
           NEW state, Settle(t, status, notifies, state), held[t] \in Message,
           InThread(pc[t], held[t]) = "submitted", state \in {"tellFailed", "tellSuccess"}
    PROVE  Settles(held[t].order)
  <1>1. held[t] # NoMsg /\ held[t].order \in Orders
    BY PipelineAssumption DEF Message
  <1>2. /\ held'[t] = [held[t] EXCEPT !.status = status]
        /\ pc'[t] = state
        /\ \A u \in Threads \ {t} : held'[u] = held[u] /\ pc'[u] = pc[u]
        /\ intake' = intake /\ queue' = queue /\ Untold
    BY DEF Settle, Goto, CustodyInv, TypeInv, TypeOK, Untold, buyerVars
  <1>3. /\ held'[t] \in Message /\ held'[t] # NoMsg
        /\ held'[t].order = held[t].order /\ held'[t].status = status
    BY <1>2, PipelineAssumption DEF Message, Settled, OrderStatus
  <1>4. InThread(pc'[t], held'[t]) = status
    BY <1>2, <1>3 DEF InThread
  <1>5. QED
    BY <1>1, <1>2, <1>3, <1>4, WorkStage DEF Settles

(* A worker that takes a message moves nothing on the order's way.         *)
LEMMA TakeSilent ==
    ASSUME CustodyInv, CustodyInv', NEW t \in Threads, NEW q \in Queues, NEW m \in Message,
           NEW state, CanTake(t, q), Take(t, q, m, state), m.order = Head(queue[q]).order,
           InThread(state, m) = InList(q, Head(queue[q])), intake' = intake, Untold
    PROVE  Silent
  <1>1. queue[q] # <<>> /\ held[t] = NoMsg
    BY DEF CanTake, CustodyInv, Idle
  <1>2. /\ held'[t] = m /\ pc'[t] = state /\ m # NoMsg /\ m.order \in Orders
        /\ \A u \in Threads \ {t} : held'[u] = held[u] /\ pc'[u] = pc[u]
        /\ queue' = [queue EXCEPT ![q] = Tail(@)]
    BY PipelineAssumption DEF Take, Goto, CustodyInv, TypeInv, TypeOK, Message
  <1>3. QED
    BY <1>1, <1>2, FetchStage DEF Silent, Keeps, OthersKeep

(* A thread that goes on without touching its message.                     *)
LEMMA GotoStage ==
    ASSUME CustodyInv, CustodyInv', NEW t \in Threads, NEW state, Goto(t, state),
           held[t] \in Message, held' = held, intake' = intake, queue' = queue
    PROVE  /\ held[t].order \in Orders
           /\ StageOf(held[t].order) = InThread(pc[t], held[t])
           /\ StageOf(held[t].order)' = InThread(state, held[t])
           /\ OthersKeep(held[t].order)
  <1>1. PICK o \in Orders : o = held[t].order
    BY DEF Message
  <1>2. /\ pc'[t] = state /\ held[t] # NoMsg
        /\ \A u \in Threads \ {t} : held'[u] = held[u] /\ pc'[u] = pc[u]
    BY PipelineAssumption DEF Goto, CustodyInv, TypeInv, TypeOK
  <1>3. /\ StageOf(o) = InThread(pc[t], held[t])
        /\ StageOf(o)' = InThread(pc'[t], held'[t])
        /\ OthersKeep(o)
    BY <1>1, <1>2, WorkStage
  <1>4. StageOf(held[t].order)' = StageOf(o)'
    BY <1>1
  <1>5. QED
    BY <1>1, <1>2, <1>3, <1>4

(***************************************************************************)
(* Every step is one of OrderLifecycle.                                    *)
(***************************************************************************)

(* The intake accepts an order, or the order ends with a fault.            *)
LEMMA IntakeStage ==
    ASSUME CustodyInv, CustodyInv', NEW o \in Orders, Intake(o) \/ ServerCrash
    PROVE  StageStep
  <1>1. TypeInv /\ Alone
    BY DEF CustodyInv
  <1>2. Untold /\ pc' = pc /\ held' = held
    BY DEF Intake, InsertOrder, PushOrder, FinishOrder, ServerCrash, threadVars, buyerVars, Untold
  <1>3. \A p \in Orders : ThreadsKeep(p)
    BY <1>2 DEF ThreadsKeep, Holds
  <1>4. ASSUME NEW p \in Orders, queue' = queue, Fresh(p)' <=> Fresh(p) PROVE Keeps(p)
    BY <1>1, <1>3, <1>4, OthersInLists, KeepsStage
  <1>5. ASSUME NEW p \in Orders, queue' = queue, Fresh(p), ~Fresh(p)' PROVE StageOf(p)' = "over"
    <2>1. ~InCustody(p)'
      BY <1>1, <1>2, <1>5 DEF Alone, InCustody, InQueue, Holds, At
    <2>2. QED
      BY <1>5, <2>1, StageAfter DEF StageFacts
  <1>6. CASE queue' = queue /\ intake' = [p \in Orders |-> IF p \in InProgress THEN "dead" ELSE intake[p]]
             /\ ServerCrash
    <2>1. ASSUME NEW p \in Orders PROVE Keeps(p) \/ Gone(p)
      <3>1. CASE Fresh(p)' <=> Fresh(p)
        BY <1>4, <1>6, <3>1
      <3>2. CASE ~(Fresh(p)' <=> Fresh(p))
        <4>1. Fresh(p) /\ ~Fresh(p)' /\ p \in InProgress
          BY <1>6, <3>2 DEF Fresh
        <4>2. p \in faulted'
          BY <1>6, <4>1 DEF ServerCrash, Fault
        <4>3. QED
          BY <1>5, <1>6, <4>1, <4>2 DEF Gone
      <3>3. QED
        BY <3>1, <3>2
    <2>2. QED
      BY <1>2, <2>1 DEF StageStep, Silent
  <1>7. CASE /\ queue' = queue
             /\ \E state \in IntakeStates : intake' = [intake EXCEPT ![o] = state]
             /\ ~Fresh(o)' => ~Fresh(o) \/ o \in faulted'
             /\ Fresh(o)' => Fresh(o)
    <2>1. \A p \in Orders \ {o} : Fresh(p)' <=> Fresh(p)
      BY <1>7 DEF Fresh
    <2>2. \A p \in Orders \ {o} : Keeps(p)
      BY <1>4, <1>7, <2>1
    <2>3. Keeps(o) \/ Gone(o)
      BY <1>4, <1>5, <1>7 DEF Gone
    <2>4. QED
      BY <1>2, <2>2, <2>3 DEF StageStep, Silent
  <1>8. CASE /\ Fresh(o) /\ ~Fresh(o)'
             /\ queue' = [queue EXCEPT !["underway"] = Append(@, NewMessage(o))]
             /\ \E state \in IntakeStates : intake' = [intake EXCEPT ![o] = state]
    <2>1. /\ NewMessage(o) \in Message /\ NewMessage(o).order = o /\ "underway" \in Queues
          /\ queue["underway"] \in Seq(Message)
      BY <1>1, PlaceTypes, PipelineAssumption DEF NewMessage, Message, OrderStatus, QueryPause, Queues
    <2>2. StageOf(o) = "new"
      BY <1>8, StageIs DEF StageFacts
    <2>3. StageOf(o)' = "underway"
      <3>1. queue'["underway"] = Append(queue["underway"], NewMessage(o))
        BY <1>1, <1>8, <2>1, PlaceTypes
      <3>2. /\ Len(queue["underway"]) + 1 \in DOMAIN queue'["underway"]
            /\ queue'["underway"][Len(queue["underway"]) + 1] = NewMessage(o)
        BY <2>1, <3>1
      <3>3. StageOf(o)' = InList("underway", NewMessage(o))
        BY <2>1, <3>2, StageAfter DEF StageFacts, At
      <3>4. QED
        BY <3>3 DEF InList
    <2>4. ASSUME NEW p \in Orders \ {o} PROVE Keeps(p)
      <3>1. Fresh(p)' <=> Fresh(p)
        BY <1>8 DEF Fresh
      <3>2. ListsKeep(p)
        BY <1>1, <1>8, <2>1, OthersInLists
      <3>3. QED
        BY <1>3, <3>1, <3>2, KeepsStage
    <2>5. Accepts(o)
      BY <1>2, <2>2, <2>3, <2>4 DEF Accepts, OthersKeep
    <2>6. QED
      BY <2>5 DEF StageStep
  <1>9. CASE ServerCrash
    BY <1>6, <1>9 DEF ServerCrash
  <1>10. CASE InsertOrder(o)
    <2>1. queue' = queue /\ Fresh(o)
      BY <1>10 DEF InsertOrder, Fresh
    <2>2. \/ intake' = [intake EXCEPT ![o] = "inserted"] /\ Fresh(o)'
          \/ intake' = [intake EXCEPT ![o] = "refused"] /\ ~Fresh(o)' /\ o \in faulted'
      BY <1>1, <1>10 DEF InsertOrder, Fresh, Fault, TypeInv, TypeOK
    <2>3. QED
      BY <1>7, <2>1, <2>2 DEF IntakeStates
  <1>11. CASE PushOrder(o)
    <2>1. Fresh(o) /\ ~Fresh(o)' /\ \E state \in IntakeStates : intake' = [intake EXCEPT ![o] = state]
      BY <1>1, <1>11 DEF PushOrder, Fresh, IntakeStates, TypeInv, TypeOK
    <2>2. \/ queue' = [queue EXCEPT !["underway"] = Append(@, NewMessage(o))]
          \/ queue' = queue /\ o \in faulted'
      BY <1>11 DEF PushOrder, Push, Fault
    <2>3. QED
      BY <1>7, <1>8, <2>1, <2>2
  <1>12. CASE FinishOrder(o)
    <2>1. /\ ~Fresh(o) /\ ~Fresh(o)' /\ queue' = queue
          /\ \E state \in IntakeStates : intake' = [intake EXCEPT ![o] = state]
      BY <1>1, <1>12 DEF FinishOrder, Fresh, IntakeStates, TypeInv, TypeOK
    <2>2. QED
      BY <1>7, <2>1
  <1>13. QED
    BY <1>9, <1>10, <1>11, <1>12 DEF Intake

(* A charge thread submits its order or settles it.                        *)
LEMMA ChargeStage ==
    ASSUME CustodyInv, CustodyInv', NEW t \in ChargeThreads, ChargeStep(t)
    PROVE  StageStep
  <1>1. /\ TypeInv /\ t \in Threads
        /\ "underway" \in Queues /\ "query" \in Queues /\ "notify" \in Queues
    BY DEF CustodyInv, Threads, Queues
  <1>2. CASE ChargeDequeue(t)
    <2>1. Head(queue["underway"]) \in Message
      BY <1>1, <1>2, PlaceTypes, TailMessage DEF ChargeDequeue, CanTake
    <2>2. PICK m \in Message : /\ m.order = Head(queue["underway"]).order
                               /\ Take(t, "underway", m, "charge")
      BY <1>2, <2>1, AgedMessage, PipelineAssumption DEF ChargeDequeue, Message, QueryPause
    <2>3. intake' = intake /\ Untold /\ CanTake(t, "underway")
      BY <1>2 DEF ChargeDequeue, Untold, buyerVars
    <2>4. InThread("charge", m) = InList("underway", Head(queue["underway"]))
      BY DEF InThread, InList
    <2>5. QED
      BY <1>1, <2>2, <2>3, <2>4, TakeSilent DEF StageStep
  <1>3. ASSUME pc[t] \in {"charge", "rejected", "charged", "tellFailed"}
        PROVE  held[t] \in Message /\ held[t].order \in Orders
    BY <1>1, <1>3, HeldType
  <1>4. CASE ChargeRequest(t)
    <2>1. PICK o \in Orders : o = held[t].order
      BY <1>3, <1>4 DEF ChargeRequest
    <2>2. PICK state \in {"charged", "rejected"} : Goto(t, state)
      BY <1>4 DEF ChargeRequest
    <2>3. /\ pc[t] = "charge" /\ intake' = intake /\ queue' = queue /\ held' = held
          /\ charges' = [charges EXCEPT ![o] = @ + 1]
          /\ told' = told /\ posts' = posts /\ verdict' = verdict
      BY <1>4, <2>1 DEF ChargeRequest, buyerVars
    <2>4. /\ StageOf(held[t].order) = InThread(pc[t], held[t])
          /\ StageOf(held[t].order)' = InThread(state, held[t])
          /\ OthersKeep(held[t].order)
      BY <1>1, <1>3, <2>2, <2>3, GotoStage
    <2>5. StageOf(o) = "underway" /\ StageOf(o)' = "submitted" /\ OthersKeep(o)
      BY <2>1, <2>3, <2>4 DEF InThread
    <2>6. Submits(o)
      BY <2>3, <2>5 DEF Submits
    <2>7. QED
      BY <2>6 DEF StageStep
  <1>5. CASE ChargeFailed(t)
    <2>1. pc[t] = "rejected" /\ InThread(pc[t], held[t]) = "submitted"
      BY <1>5 DEF ChargeFailed, InThread
    <2>2. Settles(held[t].order)
      BY <1>1, <1>3, <1>5, <2>1, SettleSettles DEF ChargeFailed, Settled
    <2>3. QED
      BY <1>3, <2>1, <2>2 DEF StageStep
  <1>6. CASE ChargeTellFailed(t)
    <2>1. pc[t] = "tellFailed" /\ Send(t, "notify") /\ held[t] \in Message
      BY <1>3, <1>6 DEF ChargeTellFailed
    <2>2. InList("notify", Serialized(held[t])) = InThread(pc[t], held[t])
      BY <2>1 DEF InList, InThread, Serialized, Message
    <2>3. QED
      BY <1>1, <2>1, <2>2, SendSilent DEF StageStep
  <1>7. CASE ChargeSucceeded(t)
    <2>1. pc[t] = "charged" /\ Send(t, "query") /\ held[t] \in Message
      BY <1>3, <1>7 DEF ChargeSucceeded
    <2>2. InList("query", Serialized(held[t])) = InThread(pc[t], held[t])
      BY <2>1 DEF InList, InThread
    <2>3. QED
      BY <1>1, <2>1, <2>2, SendSilent DEF StageStep
  <1>8. QED
    BY <1>2, <1>4, <1>5, <1>6, <1>7 DEF ChargeStep

(* A query thread settles its order, or leaves it where it is.             *)
LEMMA QueryStage ==
    ASSUME CustodyInv, CustodyInv', NEW t \in QueryThreads, QueryStep(t)
    PROVE  StageStep
  <1>1. /\ TypeInv /\ t \in Threads /\ "query" \in Queues /\ "notify" \in Queues
    BY DEF CustodyInv, Threads, Queues
  <1>2. CASE QueryDequeue(t)
    <2>1. Head(queue["query"]) \in Message
      BY <1>1, <1>2, PlaceTypes, TailMessage DEF QueryDequeue, CanTake
    <2>2. PICK m \in Message, state \in {"tooSoon", "query", "queryLate"} :
              /\ m.order = Head(queue["query"]).order
              /\ Take(t, "query", m, state)
      BY <1>2, <2>1, AgedMessage, PipelineAssumption DEF QueryDequeue, Message, QueryPause
    <2>3. intake' = intake /\ Untold /\ CanTake(t, "query")
      BY <1>2 DEF QueryDequeue, Untold, buyerVars
    <2>4. InThread(state, m) = InList("query", Head(queue["query"]))
      BY DEF InThread, InList
    <2>5. QED
      BY <1>1, <2>2, <2>3, <2>4, TakeSilent DEF StageStep
  <1>3. ASSUME pc[t] \notin {"loop", "exited"}
        PROVE  held[t] \in Message /\ held[t].order \in Orders
    BY <1>1, <1>3, HeldType
  <1>4. CASE QueryPushBack(t)
    <2>1. pc[t] \in {"tooSoon", "unfinished"} /\ Send(t, "query") /\ held[t] \in Message
      BY <1>3, <1>4 DEF QueryPushBack
    <2>2. InList("query", Serialized(held[t])) = InThread(pc[t], held[t])
      BY <2>1 DEF InList, InThread
    <2>3. QED
      BY <1>1, <2>1, <2>2, SendSilent DEF StageStep
  <1>5. CASE QueryRequest(t)
    <2>1. PICK o \in Orders : o = held[t].order
      BY <1>3, <1>5 DEF QueryRequest
    <2>2. PICK state \in {"succeeded", "timedOut", "unfinished"} : Goto(t, state)
      BY <1>5 DEF QueryRequest
    <2>3. /\ pc[t] \in {"query", "queryLate"}
          /\ intake' = intake /\ queue' = queue /\ held' = held /\ Untold
      BY <1>5 DEF QueryRequest, buyerVars, Untold
    <2>4. /\ StageOf(held[t].order) = InThread(pc[t], held[t])
          /\ StageOf(held[t].order)' = InThread(state, held[t])
          /\ OthersKeep(held[t].order)
      BY <1>1, <1>3, <2>2, <2>3, GotoStage
    <2>5. StageOf(o) = "submitted" /\ StageOf(o)' = "submitted" /\ OthersKeep(o)
      BY <2>1, <2>3, <2>4 DEF InThread
    <2>6. QED
      BY <2>3, <2>5 DEF StageStep, Silent, Keeps, OthersKeep
  <1>6. CASE QueryFinished(t)
    <2>1. pc[t] \in {"succeeded", "timedOut"} /\ InThread(pc[t], held[t]) = "submitted"
      BY <1>6 DEF QueryFinished, InThread
    <2>2. Settles(held[t].order)
      BY <1>1, <1>3, <1>6, <2>1, SettleSettles DEF QueryFinished, Settled
    <2>3. QED
      BY <1>3, <2>1, <2>2 DEF StageStep
  <1>7. CASE QueryDropped(t)
    <2>1. PICK o \in Orders : o = held[t].order
      BY <1>3, <1>7 DEF QueryDropped
    <2>2. /\ held[t] # NoMsg /\ held'[t] = NoMsg /\ o \in faulted'
          /\ \A u \in Threads \ {t} : held'[u] = held[u] /\ pc'[u] = pc[u]
          /\ intake' = intake /\ queue' = queue /\ Untold
      BY <1>1, <1>3, <1>7, <2>1, PipelineAssumption
         DEF QueryDropped, Release, Fault, TypeInv, TypeOK, Untold, buyerVars
    <2>3. StageOf(o)' = "over" /\ OthersKeep(o)
      BY <1>1, <2>1, <2>2, ReleaseStage
    <2>4. QED
      BY <2>2, <2>3 DEF StageStep, Silent, Gone, OthersKeep
  <1>8. CASE QueryTellSuccess(t)
    <2>1. pc[t] = "tellSuccess" /\ Send(t, "notify") /\ held[t] \in Message
      BY <1>3, <1>8 DEF QueryTellSuccess
    <2>2. InList("notify", Serialized(held[t])) = InThread(pc[t], held[t])
      BY <2>1 DEF InList, InThread, Serialized, Message
    <2>3. QED
      BY <1>1, <2>1, <2>2, SendSilent DEF StageStep
  <1>9. QED
    BY <1>2, <1>4, <1>5, <1>6, <1>7, <1>8 DEF QueryStep

(* A notify thread posts a result, or is done with it.                     *)
LEMMA NotifyStage ==
    ASSUME NewsInv, CustodyInv', NEW t \in NotifyThreads, NotifyStep(t)
    PROVE  StageStep
  <1>1. /\ CustodyInv /\ TypeInv /\ News /\ t \in Threads /\ "notify" \in Queues
    BY DEF NewsInv, CustodyInv, Threads, Queues
  <1>2. CASE NotifyDequeue(t)
    <2>1. Head(queue["notify"]) \in Message
      BY <1>1, <1>2, PlaceTypes, TailMessage DEF NotifyDequeue, CanTake
    <2>2. /\ Take(t, "notify", Head(queue["notify"]), "check")
          /\ intake' = intake /\ Untold /\ CanTake(t, "notify")
      BY <1>2 DEF NotifyDequeue, Untold, buyerVars
    <2>3. InThread("check", Head(queue["notify"])) = InList("notify", Head(queue["notify"]))
      BY DEF InThread, InList
    <2>4. QED
      BY <1>1, <2>1, <2>2, <2>3, TakeSilent DEF StageStep
  <1>3. CASE NotifyDropped(t)
    <2>1. queue["notify"] # <<>> /\ Head(queue["notify"]) \in Message
      BY <1>1, <1>3, PlaceTypes, TailMessage DEF NotifyDropped, CanTake
    <2>2. PICK o \in Orders : o = Head(queue["notify"]).order
      BY <2>1 DEF Message
    <2>3. /\ pc' = pc /\ held' = held /\ intake' = intake /\ o \in faulted' /\ Untold
          /\ queue' = [queue EXCEPT !["notify"] = Tail(@)]
      BY <1>3, <2>2 DEF NotifyDropped, Fault, threadVars, Untold, buyerVars
    <2>4. StageOf(o)' = "over" /\ OthersKeep(o)
      BY <1>1, <2>1, <2>2, <2>3, DropStage
    <2>5. QED
      BY <2>3, <2>4 DEF StageStep, Silent, Gone, OthersKeep
  <1>4. ASSUME pc[t] \in {"check", "post"}
        PROVE  held[t] \in Message /\ held[t].order \in Orders /\ held[t] # NoMsg
    BY <1>1, <1>4, HeldType, PipelineAssumption
  <1>5. ASSUME NEW o \in Orders, o = held[t].order, held[t] # NoMsg, NotifyEnd(t),
               intake' = intake, queue' = queue, Untold
        PROVE  StageStep
    <2>1. /\ held'[t] = NoMsg /\ o \in done'
          /\ \A u \in Threads \ {t} : held'[u] = held[u] /\ pc'[u] = pc[u]
      BY <1>1, <1>5 DEF NotifyEnd, Release, TypeInv, TypeOK
    <2>2. StageOf(o)' = "over" /\ OthersKeep(o)
      BY <1>1, <1>5, <2>1, ReleaseStage
    <2>3. QED
      BY <1>5, <2>1, <2>2 DEF StageStep, Silent, Gone, OthersKeep
  <1>6. CASE NotifyCheck(t)
    <2>1. PICK o \in Orders : o = held[t].order
      BY <1>4, <1>6 DEF NotifyCheck
    <2>2. pc[t] = "check" /\ intake' = intake /\ queue' = queue /\ Untold
      BY <1>6 DEF NotifyCheck, buyerVars, Untold
    <2>3. CASE NotifyEnd(t)
      BY <1>4, <1>5, <2>1, <2>2, <2>3
    <2>4. CASE Goto(t, "post") /\ held' = held
      <3>1. /\ StageOf(held[t].order) = InThread(pc[t], held[t])
            /\ StageOf(held[t].order)' = InThread("post", held[t])
            /\ OthersKeep(held[t].order)
        BY <1>1, <1>4, <2>2, <2>4, GotoStage
      <3>2. Keeps(o) /\ OthersKeep(o)
        BY <2>1, <2>2, <2>4, <3>1 DEF InThread, Keeps
      <3>3. QED
        BY <2>2, <3>2 DEF StageStep, Silent, OthersKeep
    <2>5. QED
      BY <1>6, <2>3, <2>4 DEF NotifyCheck
  <1>7. CASE NotifyPost(t)
    <2>1. PICK o \in Orders : o = held[t].order
      BY <1>4, <1>7 DEF NotifyPost
    <2>2. /\ pc[t] = "post" /\ MorePosts(t)
          /\ intake' = intake /\ queue' = queue /\ charges' = charges
          /\ pc' = pc /\ held' = held
          /\ posts' = [posts EXCEPT ![o] = @ + 1]
      BY <1>7, <2>1 DEF NotifyPost, threadVars
    <2>3. StageOf(o) = held[t].status /\ Keeps(o) /\ OthersKeep(o)
      BY <1>1, <1>4, <2>1, <2>2, WorkStage DEF InThread, Keeps
    <2>4. NewsBy(t, "post", held[t])
      BY <1>1, <1>4, <2>2 DEF News, ThreadsTell
    <2>5. held[t].status \in Settled /\ verdict[o] = 0 /\ posts[o] < NotifyRetries
      <3>1. posts[o] + tries[t] = NotifyRetries /\ tries[t] > 0 /\ answer[t] = 0
        BY <2>1, <2>2, <2>4 DEF NewsBy, MorePosts, NOTIFY_UNDONE
      <3>2. posts[o] \in Nat /\ tries[t] \in Nat
        BY <1>1 DEF TypeInv, TypeOK
      <3>3. QED
        BY <2>1, <2>4, <3>1, <3>2 DEF NewsBy
    <2>6. \/ /\ told' = [told EXCEPT ![o] = @ \cup {held[t].status}]
             /\ \E a \in 0..2 : verdict' = [verdict EXCEPT ![o] = a]
          \/ told' = told /\ verdict' = verdict
      <3>1. verdict \in [Orders -> NotifyStatus]
        BY <1>1 DEF TypeInv, TypeOK
      <3>2. verdict = [verdict EXCEPT ![o] = 0]
        BY <2>5, <3>1
      <3>3. NotifyStatus \subseteq 0..2
        BY DEF NotifyStatus, NOTIFY_UNDONE, NOTIFY_SUCCESS, NOTIFY_FAIL
      <3>4. QED
        BY <1>7, <2>1, <3>2, <3>3 DEF NotifyPost, NOTIFY_UNDONE
    <2>7. Tells(o)
      BY <2>2, <2>3, <2>5, <2>6 DEF Tells
    <2>8. QED
      BY <2>7 DEF StageStep
  <1>8. CASE NotifyRecord(t)
    <2>1. PICK o \in Orders : o = held[t].order
      BY <1>4, <1>8 DEF NotifyRecord
    <2>2. intake' = intake /\ queue' = queue /\ Untold /\ NotifyEnd(t)
      BY <1>8 DEF NotifyRecord, buyerVars, Untold
    <2>3. QED
      BY <1>4, <1>5, <1>8, <2>1, <2>2 DEF NotifyRecord
  <1>9. QED
    BY <1>2, <1>3, <1>6, <1>7, <1>8 DEF NotifyStep

(* When topup_handle dies, the orders its threads hold end with a fault.   *)
LEMMA DiesStage ==
    ASSUME CustodyInv, CustodyInv', ProcessDies
    PROVE  StageStep
  <1>1. /\ Alone /\ TypeInv /\ queue' = queue /\ intake' = intake /\ Untold
        /\ \A t \in Threads : held'[t] = NoMsg
    BY DEF CustodyInv, ProcessDies, Untold, buyerVars
  <1>2. ASSUME NEW p \in Orders PROVE Keeps(p) \/ Gone(p)
    <2>1. CASE \E t \in Threads : Holds(t, p)
      <3>1. p \in faulted'
        BY <2>1 DEF ProcessDies, Fault, HeldOrders, Holds
      <3>2. ~Fresh(p)' /\ ~InCustody(p)'
        BY <1>1, <2>1 DEF Alone, InCustody, InQueue, Holds, Fresh, At
      <3>3. QED
        BY <3>1, <3>2, StageAfter DEF StageFacts, Gone
    <2>2. CASE \A t \in Threads : ~Holds(t, p)
      <3>1. ThreadsKeep(p)
        BY <1>1, <2>2 DEF ThreadsKeep
      <3>2. ListsKeep(p)
        BY <1>1, OthersInLists
      <3>3. QED
        BY <1>1, <3>1, <3>2, KeepsStage DEF Fresh
    <2>3. QED
      BY <2>1, <2>2
  <1>3. QED
    BY <1>1, <1>2 DEF StageStep, Silent

(* Time moves no order.                                                    *)
LEMMA TickStage == ASSUME CustodyInv, CustodyInv', Tick PROVE StageStep
  <1>1. /\ TypeInv /\ intake' = intake /\ pc' = pc /\ Untold /\ "query" \in Queues
        /\ queue' = [queue EXCEPT !["query"] =
                        [i \in DOMAIN queue["query"] |-> Aged(queue["query"][i])]]
    BY DEF CustodyInv, Tick, Untold, buyerVars, Queues
  <1>2. \A m \in Message :
            /\ Aged(m).order = m.order /\ Aged(m).status = m.status
            /\ [m EXCEPT !.idle = Older(m.idle, QueryPause)].order = m.order
            /\ [m EXCEPT !.idle = Older(m.idle, QueryPause)].status = m.status
    BY DEF Aged, Message
  <1>3. \A q \in Queues :
            /\ DOMAIN queue'[q] = DOMAIN queue[q]
            /\ \A i \in DOMAIN queue[q] :
                  /\ queue'[q][i].order = queue[q][i].order
                  /\ queue'[q][i].status = queue[q][i].status
    <2>1. \A i \in DOMAIN queue["query"] : queue["query"][i] \in Message
      BY <1>1, PlaceTypes
    <2>2. QED
      BY <1>1, <1>2, <2>1, PlaceTypes
  <1>4. \A t \in Threads :
            IF held[t] = NoMsg THEN held'[t] = NoMsg
            ELSE /\ held'[t] # NoMsg /\ held'[t].order = held[t].order
                 /\ held'[t].status = held[t].status
    <2>1. ASSUME NEW t \in Threads, held[t] # NoMsg
          PROVE  /\ held'[t] # NoMsg /\ held'[t].order = held[t].order
                 /\ held'[t].status = held[t].status
      <3>1. held[t] \in Message /\ held'[t] = [held[t] EXCEPT !.idle = Older(held[t].idle, QueryPause)]
        BY <1>1, <2>1, PlaceTypes DEF Tick
      <3>2. held'[t] \in Message
        BY <3>1, PipelineAssumption DEF Message, Older, QueryPause
      <3>3. QED
        BY <1>2, <3>1, <3>2, PipelineAssumption
    <2>2. QED
      BY <2>1 DEF Tick
  <1>5. ASSUME NEW p \in Orders PROVE Keeps(p)
    <2>1. ListsKeep(p)
      BY <1>3 DEF ListsKeep, InQueue, At, InList
    <2>2. ThreadsKeep(p)
      BY <1>1, <1>4 DEF ThreadsKeep, Holds, InThread
    <2>3. QED
      BY <1>1, <2>1, <2>2, KeepsStage DEF Fresh
  <1>6. QED
    BY <1>1, <1>5 DEF StageStep, Silent

(* Lost replies, exits, signals, crashes, restarts and time end orders,    *)
(* with a fault, or move none.                                             *)
LEMMA ProcessStage ==
    ASSUME CustodyInv, CustodyInv',
           \/ \E t \in Threads : ThreadExit(t) \/ NullConnection(t)
           \/ \E q \in Queues : DequeueLost(q)
           \/ SignalStop \/ RunReturns \/ HandlerCrash \/ Run \/ Tick
           \/ UNCHANGED vars
    PROVE  StageStep
  <1>1. TypeInv /\ Idle /\ Stopped
    BY DEF CustodyInv
  <1>2. CASE (\E t \in Threads : NullConnection(t)) \/ HandlerCrash
    BY <1>2, DiesStage DEF NullConnection, HandlerCrash
  <1>3. ASSUME NEW q \in Queues, DequeueLost(q) PROVE StageStep
    <2>1. queue[q] # <<>> /\ Head(queue[q]) \in Message
      BY <1>1, <1>3, PlaceTypes, TailMessage DEF DequeueLost
    <2>2. PICK o \in Orders : o = Head(queue[q]).order
      BY <2>1 DEF Message
    <2>3. /\ pc' = pc /\ held' = held /\ intake' = intake /\ o \in faulted' /\ Untold
          /\ queue' = [queue EXCEPT ![q] = Tail(@)]
      BY <1>3, <2>2 DEF DequeueLost, Fault, threadVars, Untold, buyerVars
    <2>4. StageOf(o)' = "over" /\ OthersKeep(o)
      BY <2>1, <2>2, <2>3, DropStage
    <2>5. QED
      BY <2>3, <2>4 DEF StageStep, Silent, Gone, OthersKeep
  <1>4. CASE (\E t \in Threads : ThreadExit(t)) \/ SignalStop \/ RunReturns \/ Run \/ UNCHANGED vars
    <2>1. /\ intake' = intake /\ queue' = queue /\ held' = held /\ Untold
      BY <1>4 DEF ThreadExit, SignalStop, RunReturns, Run, vars, threadVars, buyerVars, Untold
    <2>2. \A t \in Threads : held[t] # NoMsg => pc'[t] = pc[t]
      BY <1>1, <1>4 DEF ThreadExit, Goto, SignalStop, RunReturns, Run, vars, threadVars,
                        Idle, Stopped, TypeInv, TypeOK
    <2>3. \A p \in Orders : Fresh(p)' <=> Fresh(p)
      BY <2>1 DEF Fresh
    <2>4. \A p \in Orders : Keeps(p)
      BY <2>1, <2>2, <2>3, IdleStage
    <2>5. QED
      BY <2>1, <2>4 DEF StageStep, Silent
  <1>5. QED
    BY <1>2, <1>3, <1>4, TickStage

(* Every step of the pipeline is one of the life cycle, or none.           *)
LEMMA NextStage == ASSUME NewsInv, NewsInv', [Next]_vars PROVE StageStep
  <1>1. CustodyInv /\ CustodyInv'
    BY DEF NewsInv
  <1>2. CASE ServerCrash
    <2>1. PICK o \in Orders : TRUE
      BY <1>2 DEF ServerCrash, InProgress
    <2>2. QED
      BY <1>1, <1>2, <2>1, IntakeStage
  <1>3. CASE ~ServerCrash
    BY <1>1, <1>3, IntakeStage, ChargeStage, QueryStage, NotifyStage, ProcessStage DEF Next
  <1>4. QED
    BY <1>2, <1>3

LEMMA StageStepLifecycle == StageStep => [Lifecycle!Next]_(Lifecycle!vars)
  <1> SUFFICES ASSUME StageStep PROVE [Lifecycle!Next]_(Lifecycle!vars)
    OBVIOUS
  <1> DEFINE stages == [p \in Orders |-> StageOf(p)]
  <1>1. CASE Silent
    <2> DEFINE ended == {p \in Orders : ~Keeps(p)}
    <2>1. stages' = [p \in Orders |-> IF p \in ended THEN "over" ELSE stages[p]]
      BY <1>1 DEF Silent, Gone, Keeps
    <2>2. UNCHANGED <<charges, told, posts, verdict>>
      BY <1>1 DEF Silent, Untold
    <2>3. Lifecycle!Leave(ended)
      BY <2>1, <2>2 DEF Lifecycle!Leave
    <2>4. ended \in SUBSET Orders
      OBVIOUS
    <2>5. QED
      BY <2>3, <2>4 DEF Lifecycle!Next
  <1>2. ASSUME NEW o \in Orders, OthersKeep(o)
        PROVE  stages' = [stages EXCEPT ![o] = StageOf(o)']
    BY <1>2 DEF OthersKeep, Keeps
  <1>3. ASSUME NEW o \in Orders, Accepts(o) PROVE Lifecycle!Accept(o)
    <2>1. stages' = [stages EXCEPT ![o] = "underway"] /\ stages[o] = "new"
      BY <1>2, <1>3 DEF Accepts
    <2>2. QED
      BY <1>3, <2>1 DEF Accepts, Untold, Lifecycle!Accept
  <1>4. ASSUME NEW o \in Orders, Submits(o) PROVE Lifecycle!Submit(o)
    <2>1. stages' = [stages EXCEPT ![o] = "submitted"] /\ stages[o] = "underway"
      BY <1>2, <1>4 DEF Submits
    <2>2. QED
      BY <1>4, <2>1 DEF Submits, Lifecycle!Submit
  <1>5. ASSUME NEW o \in Orders, Settles(o) PROVE Lifecycle!Settle(o)
    <2>1. /\ \E result \in Settled : stages' = [stages EXCEPT ![o] = result]
          /\ stages[o] = "submitted"
      BY <1>2, <1>5 DEF Settles
    <2>2. QED
      BY <1>5, <2>1 DEF Settles, Untold, Lifecycle!Settle, Lifecycle!Results, Settled
  <1>6. ASSUME NEW o \in Orders, Tells(o) PROVE Lifecycle!Post(o)
    <2>1. stages' = stages /\ stages[o] = StageOf(o)
      BY <1>2, <1>6 DEF Tells, Keeps
    <2>2. QED
      BY <1>6, <2>1 DEF Tells, Lifecycle!Post, Lifecycle!Results, Settled
  <1>7. QED
    BY <1>1, <1>3, <1>4, <1>5, <1>6 DEF StageStep, Lifecycle!Next

LEMMA InitLifecycle == Init => Lifecycle!Init
  BY DEF Init, Lifecycle!Init, StageOf, NOTIFY_UNDONE

(* The pipeline implements OrderLifecycle: whatever fails, crashes or      *)
(* restarts, an order is submitted once, has one result, and its posts end *)
(* at the first answer.                                                    *)
THEOREM LifecycleCorrect == Spec => ImplementsLifecycle
  <1>1. NewsInv /\ NewsInv' /\ [Next]_vars => [Lifecycle!Next]_(Lifecycle!vars)
    BY NextStage, StageStepLifecycle
  <1>2. QED
    BY <1>1, InitLifecycle, InitNews, NewsInvStep, PTL
       DEF Spec, ImplementsLifecycle, Lifecycle!Spec

(***************************************************************************)
(* An order that has ended is done, or a fault hit it.                     *)
(***************************************************************************)

Accounted == \A o \in Orders : StageOf(o) = "over" => o \in done \cup faulted

LossInv == NewsInv /\ Accounted

LEMMA Accumulate == [Next]_vars => done \subseteq done' /\ faulted \subseteq faulted'
  BY DEF Next, vars, Intake, InsertOrder, PushOrder, FinishOrder, ServerCrash, ChargeStep,
         ChargeDequeue, ChargeRequest, ChargeFailed, ChargeTellFailed, ChargeSucceeded,
         QueryStep, QueryDequeue, QueryPushBack, QueryRequest, QueryFinished, QueryDropped,
         QueryTellSuccess, NotifyStep, NotifyDequeue, NotifyDropped, NotifyCheck, NotifyPost,
         NotifyRecord, NotifyEnd, GetNotifyStatus, ThreadExit, NullConnection, DequeueLost,
         SignalStop, RunReturns, HandlerCrash, Run, Tick, ProcessDies, Settle, Send, Enqueue,
         UpdateFails, Fault, NoFault, faultVars

LEMMA LossInvStep == LossInv /\ [Next]_vars => LossInv'
  <1> SUFFICES ASSUME LossInv, [Next]_vars PROVE LossInv'
    OBVIOUS
  <1>1. NewsInv /\ NewsInv' /\ Accounted
    BY NewsInvStep DEF LossInv
  <1>2. StageStep /\ done \subseteq done' /\ faulted \subseteq faulted'
    BY <1>1, NextStage, Accumulate
  <1>3. ASSUME NEW o \in Orders PROVE StageOf(o)' # "over" \/ o \in done' \cup faulted'
    <2>1. Keeps(o) \/ Gone(o) \/ StageOf(o)' \in {"underway", "submitted"} \cup Settled
      BY <1>2 DEF StageStep, Silent, Accepts, Submits, Settles, Tells, OthersKeep
    <2>2. QED
      BY <1>1, <1>2, <2>1 DEF Accounted, Keeps, Gone, Settled
  <1>4. QED
    BY <1>1, <1>3 DEF LossInv, Accounted

(* No path of the code drops an order by itself: one whose push was not in *)
(* error is in a list, in a thread or done, unless a fault hit it.         *)
THEOREM LossCorrect == Spec => []NoSilentLoss
  <1>1. Init => LossInv
    BY InitNews DEF LossInv, Accounted, Init, StageOf
  <1>2. LossInv => NoSilentLoss
    BY StageIs DEF LossInv, NewsInv, Accounted, NoSilentLoss, StageFacts, Fresh
  <1>3. QED
    BY <1>1, <1>2, LossInvStep, PTL DEF Spec
=============================================================================
