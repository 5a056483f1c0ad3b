# A TLA+ model of topup_service

topup_service takes recharge orders for mobile phones (from tmall, from an
internal buyer and from downstream customers), submits them to suppliers,
follows them up and tells the buyers how they ended. It is C++: a thrift
server, a worker process `topup_handle`, an Oracle database and a redis server
between the two. This directory models the life of an order through all of
that. Paths below are relative to the repository's `src/`.

## 1. The system

### Components, their state and operations

| Component | Source | State | Operations | Model |
|---|---|---|---|---|
| FCGI front | `TopupFcgi.cpp` | one request, one connection per process | check a form, call the server, print the answer | `TopupFcgi` |
| Weixin front | `WeixinFcgi.cpp` | none (a login code in redis) | verify a user, hand out a code | as a caller, in `ServerCalls` |
| Thrift server | `TopupServer.cpp`, `TopupService.cpp` | sequence id, 20 threads | `SendRequest`, `Admin` | `OrderIntake`, `ServerCalls` |
| tsc cache | `TopupImpl.cpp`, `TopupCustomer.cpp`, `TopupZkcl.cpp`, `GlobalConfig.cpp` | map of phone areas under a rwlock | load, find, look up, insert | `ServerCalls` |
| so loader | `TopupUtils.cpp` | handle, file time under a rwlock | load once; reload has no caller | no |
| Interfaces | `TopupImpl.cpp`, `TopupCustomer.cpp`, `TopupZkcl.cpp` | one `TopupInfo` per call | charge, query, balance, notify | `OrderIntake`, `ServerCalls`, `OrderPipeline` |
| ChargeBusiness | `ChargeBusiness.cpp`, `BaseBusiness.cpp` | open transaction, list of errors | create, query, update an order; pick a channel; check a balance; verify a user | `OrderIntake`, `OrderPipeline`, `ServerCalls` |
| topup_handle | `OrderHandler.cpp`, `TopupHandleMain.cpp` | `handler_status`, 5 threads per stage | `charge`, `query`, `notify`, SIGTERM | `OrderPipeline`, `RedisWorker` |
| Channels | `ChannelImpl.cpp`, `ChannelSLS.cpp`, `ChannelLLWW.cpp` | attempts, `req_result` | `ChargeRequest`, `QueryRequest` | `ChannelRequests` |
| Redis client | `RedisClient.cpp` | one connection | LPUSH, RPOP, SETEX, GET, PING | in `OrderPipeline`, `OrderIntake`, `RedisWorker` |
| Order numbers, messages | `TopupUtils.cpp` | none | encode, decode; serialize | `OrderNo`; `OrderPipeline` |
| Connection pool | `ConnectionManager.cpp` | OCCI pool, at most 5 | create, recover | as "NULL or a connection" |
| HTTP client | `HttpClient.cpp` | none | post; url codec; parsers | the post, in `ChannelRequests`; the lookup of an area, in `ServerCalls` |
| Configuration | `GlobalConfig.cpp` | ini values, tsc map | read at the start | the tsc map, in `ServerCalls` |

### How they interact

1. A buyer's form reaches one of the FCGI processes, which opens a connection,
   calls `TopupService::SendRequest` and waits two seconds for the reply; the
   call's thread takes a sequence number and a database connection and checks the
   order (signature, duplicate, product and the phone's area, channel);
   `CreateTmallOrder` inserts a row, caches the order under the buyer's number for an hour, LPUSHes a message
   to the list `underway`, and only then commits the row and answers.
2. A charge thread RPOPs the message and submits it to a supplier
   (`ChargeRequest`). A failure is written to the row and pushed to `notify`;
   a success is pushed to `query`.
3. A query thread RPOPs from `query`, pushes back an order asked about less
   than a pause ago, else asks the supplier. A success is written to the row and
   pushed to `notify`; an order that is not finished goes back to `query`.
4. A notify thread RPOPs from `notify`, reads the row's NOTIFY, posts the result
   to a tmall buyer's notifyUrl until it reads an answer or has spent its
   retries, and writes the verdict to the row. For a customer it does nothing.

Calls of one server share the sequence counter, the map of phone areas and the
users' rows. The processes share no memory: only the three lists, the cached messages and
the rows. An RPOP removes a message before it is handled and nothing
acknowledges it.

### What is hard, and what makes each part correct

* **Pipeline**: an order is never in two places, is charged at most once, is
  not dropped by a path of the code, its row says what its buyer answered, and
  a failed row stays failed. Hard because push and commit are in the wrong order,
  calls fail or lose their reply anywhere, either process may die, and SIGTERM
  comes at any moment.
* **Intake**: an accepted order has row, message and cache entry; a refused one
  has no row; a repeated number is refused. Hard because the duplicate check and
  the cache entry are far apart and 20 threads run at once.
* **Fronts**: what a buyer reads is what became of his order. Hard because a front
  waits for two seconds and is ended by the exception, while the call goes on.
* **Calls of one server**: distinct sequence numbers, products checked against the
  phone's true area, no verified user verified again, whole log lines. Hard because
  the map is read after its lock is released and filled by whoever misses, the
  user's row is read and written in two statements, and the log position leaves its
  buffer.
* **Channels**: bounded posts, no success that was none, no failure that was
  none. Hard because replies are lost and retried with an uninitialised result.
* **Worker loop**: a thread survives an idle list and an outage. Hard because a
  dead connection looks like an empty list.
* **Order numbers**: distinct as long as they are used as keys; hard at the
  overflow.

`PROJECT.json` lists every hazard with its line and the properties that would
catch it.

## 2. Modules

### OrderPipeline (`MCOrderPipeline`; proofs in `OrderPipelineProofs`, `OrderNewsProofs`, `OrderLifecycleProofs`)

State: `intake` (how far `CreateTmallOrder` is, per order), `queue` (the three
lists), `row` (STATUS and NOTIFY of the committed row), `handler`
(`handler_status`, or "Down"), `pc`/`held` (where a thread is, its message),
`tries`/`answer` (`retry`, `notify_status` of `TmallNotify`), and histories:
`charges`, `told`, `posts`, `verdict`, `done`, `faults`, `faulted`.

Actions follow the code between two calls that another process can see. Intake:
`InsertOrder`, `PushOrder`, `FinishOrder`. Charge thread: `ChargeDequeue`,
`ChargeRequest`, `ChargeFailed` (update), `ChargeTellFailed` (push),
`ChargeSucceeded` (with the missing database connection). Query thread:
`QueryDequeue`, `QueryPushBack`, `QueryRequest`, `QueryFinished`, `QueryDropped`,
`QueryTellSuccess`. Notify thread: `NotifyDequeue`, `NotifyDropped`, `NotifyCheck`,
`NotifyPost`, `NotifyRecord`. Around them: `DequeueLost` (an RPOP whose reply is
lost), `NullConnection`, `ThreadExit`, `SignalStop`, `RunReturns`,
`HandlerCrash`, `Run`, `ServerCrash` and `Tick`.

Ages replace times: a message carries how long ago it was created and last
handled, capped where the code stops looking. `serialize_topupinfo` writes
`creteTime = time(NULL)`, so every push resets the first (`Serialized`).
`NotifyGarbage` is what the never-set field `notify` of a `TopupInfo` may hold.

### OrderLifecycle

What the pipeline promises of an order, without lists, threads and processes: it
goes from its acceptance over one charge to one result, its buyer is posted to a
bounded number of times and not after he has answered, and at any moment an order
may end, alone or with others; it never comes back. `OrderPipeline` implements it
(`ImplementsLifecycle`): the refinement mapping takes the stage of an order from the
list or the thread that has its one message (`StageOf`), the other variables are the
same. A crash is a `Leave` of everything the process held.

### OrderIntake (`MCOrderIntake`; proofs in `OrderIntakeProofs`)

One action per call to redis or Oracle of the thread that handles a
`SendRequest`: `SendRequest`, `QueryOrder`, `CheckProduct`, `CheckAndBalance`,
`SelectBestChannel`, `InsertOrder`, `CacheOrder`, `PushOrder`, `FinishOrder`,
`LookUp`, `CustomerQuery`; plus `Expire` and `ServerCrash`. `cached` is the redis entry under
the buyer's number, `inError` the `errors` of the call's `ChargeBusiness`.
The handlers are functions from a step to the next
(`TmallCharge`, `ZkclCharge`, `CustomerCharge`). `before` remembers which calls had been answered when one came in, so that a
property can tell a repeated call from a concurrent one.

The intake of `OrderPipeline` (`InsertOrder`, `PushOrder`, `FinishOrder`) is the end of
this module without the cache and the checks. It is written anew and not a
refinement: the pipeline's faults are counted over both processes, and
it tells apart the moments of the row and of the push only.

### TopupFcgi (`MCTopupFcgi`; proofs in `OrderIntakeProofs`)

`OrderIntake` behind its callers, the processes of the FCGI front: `front` (at
`FCGI_Accept`, with a connection, in the call, not there), `serving`, `open` (its
connections), and between front and server `sent`, `wire` and `heard`. `RejectForm`,
`Accept`, `NoChecksum`, `Call`, `ReadReply` are the loop of `main`; `Throws` is the
`TException` that nobody catches, for a connection that was never made, that went
with the server, or a reply that is late, and ends the process; `StartFront` is
the web server (external). `Serve` is a step of `OrderIntake`'s handler with, at its
end, the reply on the wire if somebody still listens; `ServerDies` takes the
connections with it.

### ServerCalls (`MCServerCalls`; proofs in `ServerCallsProofs`)

What the concurrent calls of the server share. Every call is a thread: `SetSeqId` in
three steps (`LockSeq`, `CountSeq`, `ReadSeq`), the database connection
(`CreateConnection`, `AdminConnection`), `check_tsc` (`FindArea` under the read lock,
`ReadArea` after it, `LookUpArea` over HTTP, `InsertArea` under the write lock) and
`VerifyWeixin` (`SelectUser`, `UpdateUser`), then `RecoverCharge`, `RecoverUser`. An area
is a byte with the operator in two bits and the province in six (`Pack`, `Unpack`).
`Log` is `TP_WRITE_LOG`, whose position moves by the length of the whole text. A null
connection of `Admin` ends the process (`ServerDies`).

### ChannelRequests (`MCChannelRequests`; proofs in `ChannelRequestsProofs`)

One order in `ChargeRequest` and its queries: the loop over channels
(`NextChannel`, `TryChannel`), the posts of `ChannelSLS::Charge` (`PostCharge`)
with a reply that is read, lost, empty or unreadable, and `QueryRequest`, repeated
until it takes the order for a success. `supplier` says what each supplier has done with the
order: SLS accepts an order number once and refuses it afterwards (its code 005), LLWW
is never charged, and whoever accepted an order recharges it or gives up
(`SupplierFinishes`). `QueriedAt` is the routing of a query, the three comparisons of
`QueryRequest` applied to the interface of the order (`OrderInterface`, which no line sets);
`ParsedQuery` and `QueryAnswer` are what becomes of a reply, for every number
`parse_llww_response` knows. LLWW says how the order stands with it or something that is no
such answer (`LLWWReplies`, external); as no order reaches it, it knows none, and the
property rests on a query being sent to somebody and on the reading of his "no such order". `Garbage` is the set of values an uninitialised
`req_result.status` may hold, which is also what a query without a reply reads.

### RedisWorker (proofs in `RedisWorkerProofs`)

The loop around all three stages, for one list: `Connect`, `Dequeue`, `Poll`,
`Ping`, `Reconnect`, `ExitNormally`, and an environment that pushes messages,
takes redis away and brings it back, and stops the process. `fail_time` is not
reset by a reconnect, as in the code.

### OrderNo (proofs in `OrderNoProofs`)

`encode_orderno` and `decode_orderno` with the widths as parameters (TLC has 32
bit integers): 36 bits of phone number and 28 of seconds become `PhoneSpan` and
`TimeSpan`. All arithmetic is unsigned, and numbers below `Base` borrow.

## 3. Runs

Passing runs:

| Run | Instance | Shows |
|---|---|---|
| Pipeline_Safety | 2 orders (one of each kind of buyer), 2 charge, 1 query, 2 notify threads, 1 fault | `SingleCustody`, `NoSilentLoss`, `AtMostOneCharge`, `ConsistentNews`, `PostsBounded`, `FailedRowTellsAnswer`, `NoPostAfterVerdict`, `FailedIsFinal`, `ImplementsLifecycle` |
| Pipeline_Liveness | 2 tmall orders, one without notifyUrl, one thread per stage, no fault, a SIGTERM at any moment | `QueriedAgain`, `FailedOrderIsTold`, `StopDrains` |
| Intake_Safety | 2 fronts before the server; two charges with one number (tmall, zkcl), a customer's charge, a query; 1 fault | `LaterDuplicateRefused`, `RefusedHasNoRow`, `AcceptedIsComplete`, `AnswerIsTrue`, `ConnectionsClosed` |
| Server_Calls | 3 calls (right and wrong products, a zkcl charge, verifications of one user by two senders), 1 area, 2 users | `SeqIdsDiffer`, `AcceptedMatches`, `RefusedMatching`, `EntryStaysInUse`, `LaterVerifyRefused`, `PrintedIsWhole`, `CallsEnd` |
| Channel_Safety | lists of two channels in every order of handled and unhandled, code's limits of 5, 2 queries | `PostsBounded`, `SuccessIsAccepted`, `FailureIsRefused`, `QueriedSuccessIsTrue`, `ChargeEnds` |
| Worker_Loop | 2 threads, 2 messages, 2 outages, a SIGTERM | `IdleWorkersStay`, `ListIsServed`, `Reconnects` |
| OrderNo_Numbers | 2 orders, 4 phones, 20 seconds over a word of 32 values and a clock of 16 | `DistinctNumbers`, `PhoneIsDecoded` |

Runs named `Finding_*` each check one sentence of a comment or a log message that
the code does not keep; TLC's counterexample shows how:

| Run | The comment | What happens |
|---|---|---|
| Finding_Timeout | an order about to time out is settled (`OrderHandler.cpp:179`) | every push back renews its creation time |
| Finding_Failure | the status is updated to failed (`OrderHandler.cpp:77`) | the row is committed after the update that should find it |
| Finding_Refused | "fail to create order" (`TopupImpl.cpp:217`) | a failed setex does not stop the push, the order is charged without a row |
| Finding_Duplicate | check for duplicates (`TopupImpl.cpp:170`) | check and entry are far apart, two concurrent calls pass |
| Finding_Failed | "ret = 1 failed" (`ChannelSLS.cpp:79`) | a lost reply, a retry, and the refusal of a known number |

Each has a passing counterpart that says how far the code does keep it:
`LaterDuplicateRefused` for calls that do not overlap, `RefusedHasNoRow` for what
a refusal leaves in the table, `FailureIsRefused` while no reply is lost,
`FailedIsFinal` once the failure is in the row.

### Bounds

* Two orders: one to be disturbed and one to disturb. Their interactions are
  over the lists and the threads, and two already overtake each other.
* `Intake_Safety`: two fronts, so that one may be gone or waiting while the other
  serves; they are interchangeable (`FrontSymmetry`, sound because no property names a
  front and none is about liveness). A late reply counts as the fault: without
  faults every reply is read.
* `Server_Calls`: three calls are the least that make a sequence number come round
  with another call between (`SeqSize` 3); a buffer of 5 and texts of 2, 3 and 6 fill
  it short of its end, to the last byte, one past it and far past it; one area,
  listed in the file or not, is what calls compete for, and two senders for one
  user.
* Two threads per stage where threads compete; one where the question is about
  time or termination.
* One fault at any place of a behaviour. A property that excludes faulted orders
  would say nothing with more faults than orders; the unconditional ones
  (`SingleCustody`, `AtMostOneCharge`, ...) are where the fault matters.
* `TIMEOUT_TIME` 2 ticks for the code's constant: an order can be queried, age
  and be queried again before it; the query pause is one tick.
* `NotifyRetries` 2 in the runs, 5 in the code: a first post, a retry and an end.
* `ChannelRequests` has the code's 5 attempts and its 6 posts per attempt. Two queries: one
  before and one after the supplier has finished, or a second one after an answer that settled nothing.
* `RedisWorker`: sleep times in steps of 10 with a maximum of 3 steps; the code's
  count of 5 failures.
* `OrderNo`: the seconds overflow the word several times and the 32 bit clock once.

Deadlock is not checked: every system here may rightly stop (all orders done,
threads gone, bounds reached).

### Fairness

Weak fairness of each worker thread (it is an endless loop whose sleeps are
bounded and whose calls have timeouts), of the return of `Run` once its threads
are gone, and of time. None of the intake (nobody must send a request), of
signals, of restarts, of redis or of faults. `ServerCalls` assumes it of every call
that has come in, `OrderIntake` and `TopupFcgi` are checked for safety only. `ChannelRequests` assumes that a
running charge goes on: curl has a timeout of 1000 s (`HttpClient.cpp`).

## 4. Proofs

`OrderPipelineProofs` proves `TypeCorrect`: `Spec => []TypeOK`, for any sets of
orders and threads, any timeout, any bound on faults and stops, from
`PipelineAssumption` alone (the kinds of threads are disjoint, `NoMsg` is no
message). `TypeOK` is not inductive: a push takes `held[t]`, which might be
`NoMsg`. The inductive invariant is `TypeInv == TypeOK /\ Busy`, where `Busy` says
that a thread that is neither at the head of its loop nor gone holds a message.
The shared pieces of the actions (`Take`, `Release`, `Push`, `Enqueue`, `Settle`,
`Send`, ...) have a lemma each, then one lemma per kind of thread splits on its
actions, and `TypeInvStep` collects them.

It proves `CustodyCorrect`: `Spec => []SingleCustody`. The
invariant `CustodyInv` adds to `TypeInv` that a thread at the head of its loop
holds nothing (`Idle`), that a process that is down has no thread (`Stopped`) and
`Alone`: the places of two messages of one order are the same place, and an order
that `CreateTmallOrder` has not pushed yet has none. Every action is shown to be one
of five moves (`Stay`, `Enter`, `Leave`, `Fetch`, `Hand`), and each move to keep
`Alone`. `Idle` and `Stopped` are what a restart needs: threads come back holding
nothing. No theorem relies on the number of faults.

It also proves `ChargeCorrect`: `Spec => []AtMostOneCharge`. `ChargeOnce` says
that an order that was charged is neither in `underway` nor with a thread about to
charge; it is kept because a thread takes what it charges from `underway`, only
`CreateTmallOrder` pushes there, and `Alone` says that there is no second copy.

`OrderNewsProofs` extends it and proves `FailedCorrect`: `Spec => FailedIsFinal`. `FailedApart` says
that what still carries an order with a FAILED row is a FAILED message in the list
`notify` or with a thread at `tellFailed`, `check` or `post`, and that only an accepted
order has a row. With `Alone`, the thread that writes FAILED is the only one that has
the order, so no query thread can be about to write SUCCESS; with the second part, the
late commit of the intake cannot find a FAILED row to overwrite.

It then proves `PostsCorrect`, `NewsCorrect`, `AnswerCorrect` and `VerdictCorrect`:
`PostsBounded`, `ConsistentNews`, `FailedRowTellsAnswer`, `NoPostAfterVerdict`. `NewsInv` says
that nothing was posted of an order until a notify thread posts it, and that the posts
made and the retries that thread has left then add up to `NotifyRetries`, its answer
is the verdict, and what was told is its message's status. With one message per
order (`CustodyInv`) no second thread can start to count anew.

`OrderLifecycleProofs` extends both and proves `LifecycleCorrect`: `Spec => ImplementsLifecycle`. `StageFacts`
says that the stage of an order is where its one message is, which `CustodyInv` makes
well defined; every action then keeps the stages of the orders it does not move and
makes the abstract step of the one it does. It also proves `LossCorrect`:
`Spec => []NoSilentLoss`, by `Accounted`: an order whose stage is over is done or was hit by
a fault.

`OrderIntakeProofs` proves `DuplicatesCorrect`, `RefusalCorrect` and `AcceptanceCorrect` of
`OrderIntake`. `IntakeInv` has four parts beside the types: which places the calls of an
interface can be at (`Route`), what has been done for a charge at each place
(`Traced`: a row comes with the answer, errors and missing pushes are faults, an
accepted number is in the cache until it expires), that a call sees only calls that
have been answered (`AnsweredBefore`), and that a later duplicate is stopped before the
product's check (`StoppedEarly`).

The module extends `TopupFcgi`, carries that over to the composition and proves `FrontsTypeCorrect`,
`BuyersAnswerCorrect` (`AnswerIsTrue`), `ConnectionsCorrect` (`ConnectionsClosed`) and
`FrontedIntakeCorrect` (the intake's three properties of `FrontsSpec`). `FrontsInv` says that
a front serves a request nobody has answered over no connection but that
request's, that no two fronts serve one, and that replies and answers are the
handler's own; an error of the front is for a call that never left or came back
empty.

`ChannelRequestsProofs` proves `ChannelTypeCorrect`, `SuccessCorrect`, `FailureCorrect`,
`QueryCorrect` and `ChannelPostsCorrect` (`PostsBounded`). `SuccessIsAccepted` and `FailureIsRefused` speak of a charge that has
returned; `SuccessKnown` and `FailureKnown` say the same of every moment of the loops, and
are inductive because a post is only made while the order counts as not charged. `PostsCounted` bounds the
posts by the attempts counted so far, each of which is counted before its first post:
`MaxRetry + 1` for every attempt that is over, `retry` for the one under way. `posts` is one
counter over all channels, so that the bound is arithmetic and no sum over a function.
`QueriedSuccessIsTrue` is about the past (the answer) and the present (the suppliers), and
needs two things: a reply of 2 is read only of an order the supplier asked has recharged,
and somebody is asked, since `QueryRequest` answers 0 where it asks nobody (`QueryInv`);
and no step takes a recharge back, neither a post of the order's charge (`Handled`), nor
another supplier's end of his work (`FinishInv`).

`ServerCallsProofs` proves every safety property of `ServerCalls` for any calls, areas, users
and texts. `BaseInv` says what a call at each place carries (`Routed`) and that it has no
answer yet (`Unanswered`). Four strengthenings rest on it:

* `SeqIdsCorrect`: `MutexHeld` puts the thread that counts or reads in possession of the
  mutex. `SeqCounted(n)` says that the counter has moved `n` times since the server was last
  started, `n` at most the calls that have counted (`Past`), and that every number given out
  is one of the `n`, the last only once it has been read. As `n` is at most the
  number of calls, which `ServerAssumption` keeps within `SeqSize`, no two calls read one
  number, although the counter wraps; with more calls at once than values it would not hold.
* `AcceptedCorrect`, `RefusedCorrect`, `EntryCorrect`: `TscTrue` says that an entry of the map,
  and what a thread is about to insert, is the area's true one or comes from an answer that
  was no JSON, and that an entry that was found is there. That a byte gives back what was
  packed (`Pack`, `Unpack`) is a lemma about operators and provinces in their ranges.
* `LaterVerifyCorrect`: `RowsHeld` says that a call has a row only between its UPDATE and its
  end, `LateStopped` that one that came in after its user was verified never gets
  to the UPDATE.
* `LogCorrect`: within the buffer the position is the length of the texts, and past its end
  it stays past its end (`Position`).

`RedisWorkerProofs` proves `WorkerTypeCorrect` and `IdleWorkersCorrect`. The range of
`fail_time` is the difficult part of `TypeOK`, because a reconnect does not clear it.
`FailsPaid` says that every failed poll past `MaxFails` is paid for by an outage of its own: a
worker with a lost connection is one poll behind the outages, one that is about to be
answered by "PONG" may be one ahead. `OutageSeen` says that a connection is lost or refused
only after an outage, which is also why an idle list ends no thread.

`OrderNoProofs` proves `NumbersTypeCorrect`, `NumbersCorrect` and `DecodingCorrect`, for any
widths. `Encoded` is the lemma that matters: what both overflows leave of a mobile order's
number is the phone number whole and the seconds modulo `TimeSpan`, because the clock is a
multiple of `TimeSpan`. Two equal numbers then have equal digits (`DivMod`), and two times of
one lap with equal remainders are one time (`SmallMultiple`).

The theorems rest on the named assumptions of their modules alone: `PipelineAssumption`,
`IntakeAssumption`, `FrontAssumption`, `ChannelAssumption`, `ServerAssumption`,
`WorkerAssumption`, `OrderNoAssumption`. Every safety property of the passing runs, action
properties and the refinement included, is proved. What stays with TLC is liveness, which is
beyond this prover (`QueriedAgain`, `FailedOrderIsTold`, `StopDrains`, `ChargeEnds`, `CallsEnd`,
`ListIsServed`, `Reconnects`), and the runs whose property is violated.

## 5. What is not modelled, and notes on the code

* The pipeline takes order numbers for unique; `OrderNo` says when they are. Two
  orders for one phone in one second share their rows' key.
* The commit does not compile as it is: `setInt` of a string
  (`ChargeBusiness.cpp:134`), a field `pid` that is commented out
  (`ChannelLLWW.cpp:116`), a second definition of `TopupImpl::CheckSign`
  (`TopupZkcl.cpp:308`). The model takes the evident meaning.
* `SQL_SELECT_CHANNEL` (`ChargeBusiness.h:20`) lacks an AND, so that Oracle would
  refuse it; `SelectBestChannel` may succeed or fail in the model, or nothing
  further could be said of the program.
* `QueryOrder` executes the text of the INSERT and always fails; `CheckAndBalance`
  leaves a parameter unbound, so no balance ever changes. Both are modelled so.
* Other sentences of the source that the model shows not to hold, without a run of
  their own: a customer's order is never notified (`TopupCustomer::Notify` is
  empty; `OrderHandler.cpp:276`); NOTIFY may say "notified" before any post,
  because the query thread writes a field that was never set
  (`OrderHandler.cpp:171`, `NotifyGarbage`); a charge may be submitted before its
  request is answered (`TopupCustomer.cpp:194`); a customer's charge beyond the
  balance is accepted, because the refusal does not return
  (`TopupCustomer.cpp:155`); no internal charge is ever guarded against a second one
  (`ChargeBusiness.cpp:167`); a query never finds an order (`TopupImpl.cpp:230`: the
  cache holds CREATE, which the switch does not know); an error reply to LPUSH
  counts as success (`RedisClient.cpp:127`); an empty reply leaves the result of a
  charge or a query uninitialised (`ChannelSLS.cpp:84`, `ChannelLLWW.cpp:171`): a query
  without a reply may report a success that was none, which `QueriedSuccessIsTrue` bounds
  and nothing prevents; two comparisons of `QueryRequest` lack their `== 0`
  (`ChannelImpl.cpp:73`, `:76`), so that every order is queried at LLWW, whoever charged it;
  channels that nobody handles use up the attempts of those that follow
  (`ChannelImpl.cpp:37`), and the recorded channel is the last of the list
  (`ChannelImpl.cpp:34`); the time in an order number comes back without its epoch
  (`TopupUtils.cpp:142`).
* Of the calls of one server: `parse_tsc` reads the operator's text through a pointer
  into a string that is already destroyed (`HttpClient.cpp:412`), taken to be intact or
  not to be recognised; a lookup answered with something that is no JSON counts as a
  success and fills the map with an area that refuses every charge until the next
  start (`HttpClient.cpp:411`); `VerifyWeixin` returns 0 for an exception, and
  overlapping verifications of one user replace each other's open id
  (`ChargeBusiness.cpp:434`); nobody commits its UPDATE, and whether
  `terminateConnection` does so is left open in the model; the customer's `check_tsc` is
  the tmall one; zkcl calls take what was found without comparing.
* The notification's snapshot is signed as it came, read as if it were encoded
  (`url_signature`, `TopupImpl.cpp:325`), and posted encoded: one with a plus or a per cent
  sign does not match its signature. No property is about the text of a post.
* Unreachable, and left out: `GetBalance` of a customer (the uri is compared with
  "balance" from the slash on, and the branch is empty), the LLWW charge, the SLS query and the stubs of the
  channels (`interfaceName` of an order is never set), `UpdateChannel`,
  `CustomerNotify`, the failure branch of `url_signature`.
* The so loader: `so_init` runs once, before the server serves; `so_change` and
  `so_check_reload` have no caller, and `Admin`'s reload is a TODO. No library is ever
  replaced under a live object.
* The Weixin front's own loop: it reads a message, opens a connection for a
  verification and closes none (`WeixinFcgi.cpp:298`). What it asks of the server is in
  `ServerCalls`; the login code it puts into redis for a minute is read by nothing in
  the repository.
* Not modelled because there is no state in it: pages, forwarding, logging's format,
  configuration files, XML and JSON text, the url codec. Generated thrift code and
  vendored libraries are outside; most of the tree's lines are headers of those
  libraries under `src/include`.

## 6. Plan

Done: the pipeline with its abstract life cycle, the intake with the fronts before
it, the calls of one server, the channels, the worker loop, the order numbers, and the
proofs of all their safety properties.

Next: `UrlCodec`, the encoder and the decoder of a query string with the signature over them,
whose properties are about bounded texts and stay with TLC.
