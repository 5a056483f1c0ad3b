---------------------------- MODULE OrderIntake ----------------------------
(***************************************************************************)
(* The thrift server's side of an order: concurrent calls of SendRequest,  *)
(* each handled by one thread from its checks to its reply, with the redis *)
(* cache of order numbers that the duplicate check reads and the open      *)
(* transaction that holds the new row.  (TopupService.cpp, TopupImpl.cpp,  *)
(* TopupCustomer.cpp, TopupZkcl.cpp, ChargeBusiness.cpp.)                  *)
(***************************************************************************)
EXTENDS Naturals, FiniteSets

CONSTANTS
    Requests,    \* the calls made
    Tmall, Zkcl, Customer, Query,
                 \* the charges by interface, and the order queries
    Numbers, No, \* the buyers' order numbers (tbOrderNo), the one a call carries
    MaxFaults    \* bound: failing calls, lost replies and crashes in a behaviour

Charges == Tmall \cup Zkcl \cup Customer

ASSUME IntakeAssumption ==
    /\ Requests = Charges \cup Query
    /\ Query \cap Charges = {}
    /\ Tmall \cap Zkcl = {} /\ Tmall \cap Customer = {} /\ Zkcl \cap Customer = {}
    /\ No \in [Requests -> Numbers]
    /\ MaxFaults \in Nat

VARIABLES
    pc,       \* how far the thread that handles the call is
    response, \* the reply as it stands in the string
    cached,   \* redis: the status cached under an order number
    inError,  \* the calls whose ChargeBusiness has errors
    rows,     \* the committed rows of TOPUP_ORDER_TBL
    queued,   \* history: orders pushed to "underway"
    before,   \* history: the calls that were answered when this one came in
    expired,  \* history: numbers whose cache entry has expired
    faults, faulted \* history: faults so far, the calls they hit

vars == <<pc, response, cached, inError, rows, queued, before, expired, faults, faulted>>

Places == {"new", "lookup", "check", "product", "balance", "channel",
           "insert", "cache", "push", "finish", "replied", "dead"}
Responses == {"none", "UNDERWAY", "ORDER_FAILED", "SUCCESS", "FAILED", "REQUEST_FAILED"}
CachedStatus == {"none", "CREATE"}

NoFault == UNCHANGED <<faults, faulted>>

Fault(hit) ==
    /\ faults < MaxFaults
    /\ faults' = faults + 1
    /\ faulted' = faulted \cup hit

Goto(r, place) == pc' = [pc EXCEPT ![r] = place]

(* The handler returns, and with it SendRequest: the answer is what the    *)
(* string holds.                                                           *)
Reply(r, answer) ==
    /\ Goto(r, "replied")
    /\ response' = [response EXCEPT ![r] = answer]

Refuse(r) == Reply(r, "ORDER_FAILED")

Replied == {r \in Requests : pc[r] = "replied"}

(***************************************************************************)
(* Before the order                                                        *)
(***************************************************************************)

(* The handlers, as the order of their steps: parameters and signature on  *)
(* entry, then the duplicate check, the product, the channel, the order.   *)
(* A customer's charge has no duplicate check, but one of the balance.     *)
TmallCharge == [new |-> "check", check |-> "product", product |-> "channel",
                channel |-> "insert"]
ZkclCharge == [new |-> "check", check |-> "product", product |-> "channel",
               channel |-> "insert"]
CustomerCharge == [new |-> "product", product |-> "balance", balance |-> "channel",
                   channel |-> "insert"]
TmallQuery == [new |-> "lookup"]

HandleRequest(r) ==
    CASE r \in Tmall    -> TmallCharge
      [] r \in Zkcl     -> ZkclCharge
      [] r \in Customer -> CustomerCharge
      [] r \in Query    -> TmallQuery

Continue(r) == Goto(r, HandleRequest(r)[pc[r]]) /\ UNCHANGED response

(* SendRequest takes a database connection and hands the call to the       *)
(* interface of its uri: an empty reply without a connection, ORDER_FAILED *)
(* when a parameter is missing or the signature is wrong.                  *)
SendRequest(r) ==
    /\ pc[r] = "new"
    /\ before' = [before EXCEPT ![r] = Replied]
    /\ \/ Continue(r) /\ NoFault
       \/ Refuse(r) /\ NoFault
       \/ Reply(r, "none") /\ Fault({r})
    /\ UNCHANGED <<cached, inError, rows, queued, expired>>

(* The query handlers' switch over the status found.                       *)
QueryAnswer(status) ==
    CASE status = "UNDERWAY" -> "UNDERWAY"
      [] status = "FAILED"   -> "FAILED"
      [] status = "SUCCESS"  -> "SUCCESS"
      [] OTHER               -> "REQUEST_FAILED"

(* The tmall query: the cached status; without one the table is asked with *)
(* the text of the INSERT, which Oracle refuses.                           *)
LookUp(r) ==
    /\ pc[r] = "lookup"
    /\ \/ Reply(r, QueryAnswer(cached[No[r]])) /\ NoFault
       \/ Reply(r, "REQUEST_FAILED") /\ Fault({r})
    /\ UNCHANGED <<cached, inError, rows, queued, before, expired>>

(* The customer query asks the table only, in vain.                        *)
CustomerQuery(r) ==
    /\ pc[r] = "lookup"
    /\ Reply(r, "REQUEST_FAILED")
    /\ UNCHANGED <<cached, inError, rows, queued, before, expired, faults, faulted>>

(* QueryOrder as the duplicate check: a cached number refuses the call; a  *)
(* GET without an answer counts as "not cached", and the table, asked with *)
(* the text of the INSERT, never knows an order.                           *)
QueryOrder(r) ==
    /\ pc[r] = "check"
    /\ \/ cached[No[r]] # "none" /\ Refuse(r) /\ NoFault
       \/ cached[No[r]] = "none" /\ Continue(r) /\ NoFault
       \/ cached[No[r]] # "none" /\ Continue(r) /\ Fault({r})
    /\ UNCHANGED <<cached, inError, rows, queued, before, expired>>

(* The product exists, its amount is allowed and the phone belongs to its  *)
(* operator and province, or not.                                          *)
CheckProduct(r) ==
    /\ pc[r] = "product"
    /\ Continue(r) \/ Refuse(r)
    /\ UNCHANGED <<cached, inError, rows, queued, before, expired, faults, faulted>>

(* CheckAndBalance: 1 when the balance is too low or the customer unknown, *)
(* else -1, since the UPDATE leaves its second parameter unbound; the      *)
(* transaction is ended and no balance has changed.  In both cases an      *)
(* error reply is made, and CustomerCharge goes on.                        *)
CheckAndBalance(r) ==
    /\ pc[r] = "balance"
    /\ response' = [response EXCEPT ![r] = "ORDER_FAILED"]
    /\ Goto(r, HandleRequest(r)[pc[r]])
    /\ UNCHANGED <<cached, inError, rows, queued, before, expired, faults, faulted>>

(* A channel sells the product, or none does or the statement fails.       *)
SelectBestChannel(r) ==
    /\ pc[r] = "channel"
    /\ Continue(r) \/ Refuse(r)
    /\ UNCHANGED <<cached, inError, rows, queued, before, expired, faults, faulted>>

(***************************************************************************)
(* CreateTmallOrder                                                        *)
(***************************************************************************)

(* The INSERT, in a transaction that stays open; an exception skips all of *)
(* redis.                                                                  *)
InsertOrder(r) ==
    /\ pc[r] = "insert"
    /\ \/ Goto(r, "cache") /\ UNCHANGED inError /\ NoFault
       \/ Goto(r, "finish") /\ inError' = inError \cup {r} /\ Fault({r})
    /\ UNCHANGED <<response, cached, rows, queued, before, expired>>

(* Mutant: the cached message says that the order is underway.             *)
CacheOrderUnderway(r) ==
    /\ pc[r] = "cache"
    /\ cached' = [cached EXCEPT ![No[r]] = "UNDERWAY"]
    /\ Goto(r, "push")
    /\ NoFault
    /\ UNCHANGED <<response, inError, rows, queued, before, expired>>

(* connect and setex: a refused connection ends redis; a setex without OK  *)
(* is an error, whether or not it took effect, and the push is still made. *)
CacheOrder(r) ==
    /\ pc[r] = "cache"
    /\ \/ /\ cached' = [cached EXCEPT ![No[r]] = "CREATE"]
          /\ Goto(r, "push")
          /\ UNCHANGED inError
          /\ NoFault
       \/ /\ \/ Goto(r, "push") /\ UNCHANGED cached
             \/ Goto(r, "push") /\ cached' = [cached EXCEPT ![No[r]] = "CREATE"]
             \/ Goto(r, "finish") /\ UNCHANGED cached
          /\ inError' = inError \cup {r}
          /\ Fault({r})
    /\ UNCHANGED <<response, rows, queued, before, expired>>

(* Mutant: a push that succeeds clears what setex has reported.            *)
PushOrderClears(r) ==
    /\ pc[r] = "push"
    /\ queued' = queued \cup {r}
    /\ inError' = inError \ {r}
    /\ NoFault
    /\ Goto(r, "finish")
    /\ UNCHANGED <<response, cached, rows, before, expired>>

(* LPUSH: done; done or not with the reply lost, an error; or refused by   *)
(* an error reply, which enqueue takes for a success.  The record of the   *)
(* phone number that follows is for the userid "zkcl", which no call has.  *)
PushOrder(r) ==
    /\ pc[r] = "push"
    /\ \/ queued' = queued \cup {r} /\ UNCHANGED inError /\ NoFault
       \/ /\ queued' \in {queued, queued \cup {r}}
          /\ inError' = inError \cup {r}
          /\ Fault({r})
       \/ UNCHANGED <<queued, inError>> /\ Fault({r})
    /\ Goto(r, "finish")
    /\ UNCHANGED <<response, cached, rows, before, expired>>

(* Mutant: Finish commits although there are errors.                       *)
FinishOrderCommits(r) ==
    /\ pc[r] = "finish"
    /\ rows' = rows \cup {r}
    /\ IF r \in inError THEN Refuse(r) ELSE Reply(r, "UNDERWAY")
    /\ NoFault
    /\ UNCHANGED <<cached, inError, queued, before, expired>>

(* Mutant: Finish ends the transaction without a commit.                   *)
FinishOrderNoCommit(r) ==
    /\ pc[r] = "finish"
    /\ IF r \in inError THEN Refuse(r) ELSE Reply(r, "UNDERWAY")
    /\ NoFault
    /\ UNCHANGED <<cached, inError, rows, queued, before, expired>>

(* Finish and the reply: errors roll back and refuse; else the row is      *)
(* committed, and the answer is UNDERWAY even when the commit throws.      *)
FinishOrder(r) ==
    /\ pc[r] = "finish"
    /\ \/ r \in inError /\ Refuse(r) /\ UNCHANGED rows /\ NoFault
       \/ /\ r \notin inError
          /\ Reply(r, "UNDERWAY")
          /\ \/ rows' = rows \cup {r} /\ NoFault
             \/ UNCHANGED rows /\ Fault({r})
    /\ UNCHANGED <<cached, inError, queued, before, expired>>

(***************************************************************************)
(* Around the calls                                                        *)
(***************************************************************************)

(* The 3600 seconds of a cache entry are over.                             *)
Expire(n) ==
    /\ cached[n] # "none"
    /\ cached' = [cached EXCEPT ![n] = "none"]
    /\ expired' = expired \cup {n}
    /\ UNCHANGED <<pc, response, inError, rows, queued, before, faults, faulted>>

InProgress == {r \in Requests : pc[r] \notin {"new", "replied", "dead"}}

(* The server dies: open transactions are rolled back, nobody is answered. *)
ServerCrash ==
    /\ InProgress # {}
    /\ pc' = [r \in Requests |-> IF r \in InProgress THEN "dead" ELSE pc[r]]
    /\ Fault(InProgress)
    /\ UNCHANGED <<response, cached, inError, rows, queued, before, expired>>

Init ==
    /\ pc = [r \in Requests |-> "new"]
    /\ response = [r \in Requests |-> "none"]
    /\ cached = [n \in Numbers |-> "none"]
    /\ inError = {}
    /\ rows = {}
    /\ queued = {}
    /\ before = [r \in Requests |-> {}]
    /\ expired = {}
    /\ faults = 0
    /\ faulted = {}

CreateTmallOrder(r) == InsertOrder(r) \/ CacheOrder(r) \/ PushOrder(r) \/ FinishOrder(r)

Handle(r) ==
    \/ SendRequest(r) \/ LookUp(r) \/ CustomerQuery(r) \/ QueryOrder(r) \/ CheckProduct(r)
    \/ CheckAndBalance(r) \/ SelectBestChannel(r) \/ CreateTmallOrder(r)

Next ==
    \/ \E r \in Requests : Handle(r)
    \/ \E n \in Numbers : Expire(n)
    \/ ServerCrash

Spec == Init /\ [][Next]_vars

(***************************************************************************)
(* Properties                                                              *)
(***************************************************************************)

Accepted == {r \in Charges : pc[r] = "replied" /\ response[r] = "UNDERWAY"}
Refused == {r \in Charges : pc[r] = "replied" /\ response[r] = "ORDER_FAILED"}

(* Type invariant.                                                         *)
TypeOK ==
    /\ pc \in [Requests -> Places]
    /\ response \in [Requests -> Responses]
    /\ cached \in [Numbers -> CachedStatus]
    /\ inError \subseteq Charges
    /\ rows \subseteq Charges
    /\ queued \subseteq Charges
    /\ before \in [Requests -> SUBSET Requests]
    /\ expired \subseteq Numbers
    /\ faults \in 0..MaxFaults
    /\ faulted \subseteq Requests

(* A charge that came in after an order with its number was answered       *)
(* UNDERWAY is never queued, except through the customer interface, before *)
(* the cache entry expires or when a fault hits its own duplicate check.   *)
LaterDuplicateRefused ==
    \A r \in Tmall \cup Zkcl : \A first \in before[r] \cap Accepted :
        No[first] = No[r] /\ No[r] \notin expired /\ r \notin faulted => r \notin queued

(* A request answered ORDER_FAILED leaves no row, whatever failed.         *)
RefusedHasNoRow == rows \cap Refused = {}

(* A request answered UNDERWAY has its row, its place in the list and its  *)
(* cache entry (until that expires), unless a fault hit it.                *)
AcceptedIsComplete ==
    \A r \in Accepted \ faulted :
        /\ r \in rows
        /\ r \in queued
        /\ cached[No[r]] # "none" \/ No[r] \in expired

(***************************************************************************)
(* What the comments of the code say                                       *)
(***************************************************************************)

(* TopupImpl.cpp:170, "check for duplicates": of two tmall charges with    *)
(* one order number at most one is queued while the cache entry lives.     *)
DuplicateIsRefused ==
    \A r, s \in Tmall : r # s /\ No[r] = No[s] /\ No[r] \notin expired
        => ~({r, s} \subseteq queued)
=============================================================================
