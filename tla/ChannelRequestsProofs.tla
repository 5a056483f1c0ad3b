----------------------- MODULE ChannelRequestsProofs -----------------------
(***************************************************************************)
(* What ChargeRequest and QueryRequest report of an order, for any         *)
(* channels, limits and uninitialised values.                              *)
(***************************************************************************)
EXTENDS ChannelRequests, TLAPS

(* What the loops know of the supplier while they run.                     *)
SuccessKnown == ret = 0 => Known \/ blank
FailureKnown == ret # 0 => ~Known \/ lost

ChannelInv == TypeOK /\ SuccessKnown /\ FailureKnown /\ QueriedSuccessIsTrue

LEMMA InitChannels == Init => ChannelInv
  <1> SUFFICES ASSUME Init PROVE ChannelInv
    OBVIOUS
  <1>1. channels \in Seq(Interfaces) /\ Len(channels) \in Nat
    BY ChannelAssumption DEF Init
  <1>2. asked \in [answer : -1..3, read : {"reply", "garbage", "nothing"}, times : 0..MaxQueries]
    BY ChannelAssumption DEF Init
  <1>3. posts \in Nat
    BY DEF Init
  <1>4. at \in 1..(Len(channels) + 1)
    BY <1>1 DEF Init
  <1>5. blank \in BOOLEAN /\ lost \in BOOLEAN
    BY Zenon DEF Init
  <1>6. TypeOK
    BY <1>2, <1>3, <1>4, <1>5, ChannelAssumption DEF Init, TypeOK
  <1>7. QED
    BY <1>6 DEF Init, ChannelInv, SuccessKnown, FailureKnown, QueriedSuccessIsTrue, Known

(* What a supplier has recharged he knows, and nobody takes it back.       *)
Recharged == \E i \in Interfaces : supplier[i] = "recharged"

LEMMA Handled ==
    ASSUME TypeOK, SupplierHandles
    PROVE  /\ supplier' \in [Interfaces -> {"unknown", "accepted", "recharged", "failed"}]
           /\ Known => Known'
           /\ supplier' # supplier => Known'
           /\ Recharged => Recharged'
  <1>1. "SLS" \in Interfaces /\ DOMAIN supplier = Interfaces
    BY DEF TypeOK, Interfaces
  <1>2. QED
    BY <1>1 DEF SupplierHandles, TypeOK, Known, Recharged

LEMMA ParsedStatus == \A verdict : Parsed(verdict) \in 0..2
  BY DEF Parsed

(* The steps of the loop over the channels tell nothing of the supplier.   *)
LEMMA RouteInv ==
    ASSUME ChannelInv,
           NextChannel \/ TryChannel \/ ChargeReturns \/ ChargeRequestReturns
    PROVE  ChannelInv'
  <1>1. /\ channels \in ChannelLists /\ at \in 1..(Len(channels) + 1) /\ Len(channels) \in Nat
        /\ charge_times \in 0..MaxTimes /\ ret \in {0, 1} /\ retry \in 0..(MaxRetry + 1)
        /\ MaxTimes \in Nat /\ MaxRetry \in Nat /\ TypeOK
    BY ChannelAssumption DEF ChannelInv, TypeOK
  <1>2. CASE NextChannel
    BY <1>1, <1>2 DEF NextChannel, ChannelInv, TypeOK, SuccessKnown, FailureKnown,
                      QueriedSuccessIsTrue, Known
  <1>3. CASE TryChannel
    BY <1>1, <1>3 DEF TryChannel, MoreAttempts, ChannelInv, TypeOK, SuccessKnown, FailureKnown,
                      QueriedSuccessIsTrue, Known
  <1>4. CASE ChargeReturns \/ ChargeRequestReturns
    BY <1>1, <1>4 DEF ChargeReturns, ChargeRequestReturns, ChannelInv, TypeOK, SuccessKnown,
                      FailureKnown, QueriedSuccessIsTrue, Known
  <1>5. QED
    BY <1>2, <1>3, <1>4

(* A post is only made while the order counts as not charged: the          *)
(* supplier's refusal of a number he knows means that a reply was lost.    *)
LEMMA PostInv == ASSUME ChannelInv, PostCharge PROVE ChannelInv'
  <1>1. /\ retry \in 0..MaxRetry /\ ret # 0 /\ retry' = retry + 1 /\ MaxRetry \in Nat
        /\ channels' = channels /\ at' = at /\ charge_times' = charge_times /\ place' = place
        /\ asked' = asked /\ posts' = posts + 1
        /\ PostFails \/ PostSucceeds
    BY ChannelAssumption DEF PostCharge, MoreRetries, ChannelInv, TypeOK
  <1>2. ~Known \/ lost
    BY <1>1 DEF ChannelInv, FailureKnown
  <1>3. posts' \in Nat
    BY <1>1 DEF ChannelInv, TypeOK
  <1>4. /\ status \in Garbage \cup 0..2 /\ blank \in BOOLEAN /\ lost \in BOOLEAN
        /\ supplier \in [Interfaces -> {"unknown", "accepted", "recharged", "failed"}]
    BY DEF ChannelInv, TypeOK
  <1>8. /\ supplier' \in [Interfaces -> {"unknown", "accepted", "recharged", "failed"}]
        /\ Known => Known'
        /\ supplier' # supplier => Known'
        /\ Recharged => Recharged'
    <2>1. CASE SupplierHandles
      BY <2>1, Handled DEF ChannelInv
    <2>2. CASE UNCHANGED supplier
      BY <1>4, <2>2 DEF Known, Recharged
    <2>3. QED
      BY <1>1, <2>1, <2>2 DEF PostFails, PostSucceeds
  <1>9. QueriedSuccessIsTrue'
    BY <1>1, <1>8 DEF ChannelInv, QueriedSuccessIsTrue, Recharged
  <1>5. CASE PostFails
    <2>1. ret' = 1 /\ lost' = TRUE /\ blank' = blank
      BY <1>5 DEF PostFails
    <2>2. status' \in Garbage \cup 0..2
      BY <1>4, <1>5, ParsedStatus DEF PostFails
    <2>3. TypeOK'
      BY <1>1, <1>3, <1>4, <1>8, <2>1, <2>2 DEF ChannelInv, TypeOK
    <2>4. QED
      BY <1>9, <2>1, <2>3 DEF ChannelInv, SuccessKnown, FailureKnown
  <1>6. CASE PostSucceeds
    <2>1. supplier' = supplier => (Known' <=> Known)
      BY DEF Known
    <2>2. \/ status' = 0 /\ supplier' # supplier /\ blank' = blank /\ lost' = lost
          \/ status' = 1 /\ supplier' = supplier /\ blank' = blank /\ lost' = lost
          \/ status' = 2 /\ lost' = TRUE /\ blank' = blank
          \/ status' = status /\ lost' = TRUE /\ blank' = TRUE
      BY <1>6 DEF PostSucceeds, Parsed
    <2>3. ret' = IF status' = 0 THEN 0 ELSE 1
      BY <1>6 DEF PostSucceeds
    <2>4. TypeOK'
      <3>1. status' \in Garbage \cup 0..2
        BY <1>4, <2>2
      <3>2. blank' \in BOOLEAN /\ lost' \in BOOLEAN
        BY <1>4, <2>2, Zenon
      <3>3. ret' \in {0, 1}
        BY <2>3
      <3>4. retry' \in 0..(MaxRetry + 1)
        BY <1>1
      <3>5. QED
        BY <1>1, <1>3, <1>8, <3>1, <3>2, <3>3, <3>4 DEF ChannelInv, TypeOK
    <2>5. SuccessKnown'
      BY <1>8, <2>2, <2>3 DEF SuccessKnown
    <2>6. FailureKnown'
      BY <1>2, <2>1, <2>2, <2>3 DEF FailureKnown
    <2>7. QED
      BY <1>9, <2>4, <2>5, <2>6 DEF ChannelInv
  <1>7. QED
    BY <1>1, <1>5, <1>6

(* A reply of LLWW that means success says that LLWW has recharged it.     *)
LEMMA QueryInv == ASSUME ChannelInv, QueryRequest PROVE ChannelInv'
  <1>1. PICK outcome \in QueryOutcomes :
           asked' = [answer |-> outcome.answer, read |-> outcome.read, times |-> asked.times + 1]
    BY DEF QueryRequest
  <1>2. /\ channels' = channels /\ at' = at /\ charge_times' = charge_times /\ ret' = ret
        /\ retry' = retry /\ place' = place /\ status' = status /\ supplier' = supplier
        /\ posts' = posts /\ blank' = blank /\ lost' = lost
        /\ asked.times < MaxQueries /\ MaxQueries \in Nat
    BY ChannelAssumption DEF QueryRequest, requestVars
  <1>3. QueriedAt(OrderInterface) = "LLWW"
    BY DEF QueriedAt, OrderInterface, Interfaces
  <1>4. \/ /\ outcome.read = "reply"
           /\ \E reply \in LLWWReplies : outcome.answer = QueryAnswer(ParsedQuery(reply))
        \/ outcome.read = "garbage" /\ \E s \in Garbage : outcome.answer = QueryAnswer(s)
    BY <1>3 DEF QueryOutcomes
  <1>5. outcome.answer \in -1..3 /\ outcome.read \in {"reply", "garbage"}
    BY <1>4 DEF QueryAnswer
  <1>6. outcome.answer = 0 /\ outcome.read = "reply" => supplier["LLWW"] = "recharged"
    <2> SUFFICES ASSUME outcome.read = "reply", NEW reply \in LLWWReplies,
                        QueryAnswer(ParsedQuery(reply)) = 0
                 PROVE  supplier["LLWW"] = "recharged"
      BY <1>4
    <2>1. ParsedQuery(reply) = 2
      BY DEF QueryAnswer
    <2>2. reply = "recharged"
      BY <2>1 DEF ParsedQuery
    <2>3. QED
      BY <2>2 DEF LLWWReplies
  <1>7. QueriedSuccessIsTrue'
    <2>1. asked'.answer = outcome.answer /\ asked'.read = outcome.read
      BY <1>1
    <2>2. QED
      BY <1>2, <1>5, <1>6, <2>1 DEF QueriedSuccessIsTrue, Interfaces
  <1>8. asked' \in [answer : -1..3, read : {"reply", "garbage", "nothing"}, times : 0..MaxQueries]
    BY <1>1, <1>2, <1>5 DEF ChannelInv, TypeOK
  <1>9. TypeOK'
    BY <1>2, <1>8 DEF ChannelInv, TypeOK
  <1>10. QED
    BY <1>2, <1>7, <1>9 DEF ChannelInv, SuccessKnown, FailureKnown, Known

(* A supplier who finishes has accepted the order before.                  *)
LEMMA FinishInv == ASSUME ChannelInv, SupplierFinishes PROVE ChannelInv'
  <1>1. PICK i \in Interfaces, end \in {"recharged", "failed"} :
           supplier[i] = "accepted" /\ supplier' = [supplier EXCEPT ![i] = end]
    BY DEF SupplierFinishes
  <1>2. supplier \in [Interfaces -> {"unknown", "accepted", "recharged", "failed"}]
    BY DEF ChannelInv, TypeOK
  <1>3. /\ supplier' \in [Interfaces -> {"unknown", "accepted", "recharged", "failed"}]
        /\ Known /\ Known' /\ (Recharged => Recharged')
    BY <1>1, <1>2 DEF Known, Recharged
  <1>4. UNCHANGED <<requestVars, asked, posts, blank, lost>>
    BY DEF SupplierFinishes
  <1>5. TypeOK'
    BY <1>3, <1>4 DEF requestVars, ChannelInv, TypeOK
  <1>6. QED
    BY <1>3, <1>4, <1>5 DEF requestVars, ChannelInv, SuccessKnown, FailureKnown,
                            QueriedSuccessIsTrue, Recharged

LEMMA ChannelInvStep == ChannelInv /\ [Next]_vars => ChannelInv'
  <1> SUFFICES ASSUME ChannelInv, [Next]_vars PROVE ChannelInv'
    OBVIOUS
  <1>1. CASE UNCHANGED vars
    BY <1>1 DEF vars, requestVars, ChannelInv, TypeOK, SuccessKnown, FailureKnown,
                QueriedSuccessIsTrue, Known
  <1>2. QED
    BY <1>1, RouteInv, PostInv, QueryInv, FinishInv DEF Next, Charge

(* Every variable of a request keeps its type: the attempts and the posts  *)
(* stay within their limits.                                               *)
THEOREM ChannelTypeCorrect == Spec => []TypeOK
  <1>1. ChannelInv => TypeOK
    BY DEF ChannelInv
  <1>2. QED
    BY <1>1, InitChannels, ChannelInvStep, PTL DEF Spec

(* A charge that ChargeRequest calls made was accepted by the supplier,    *)
(* unless an empty reply was taken for one.                                *)
THEOREM SuccessCorrect == Spec => []SuccessIsAccepted
  <1>1. ChannelInv => SuccessIsAccepted
    BY DEF ChannelInv, SuccessKnown, SuccessIsAccepted
  <1>2. QED
    BY <1>1, InitChannels, ChannelInvStep, PTL DEF Spec

(* A charge that ChargeRequest calls failed was not accepted, unless a     *)
(* reply was lost.                                                         *)
THEOREM FailureCorrect == Spec => []FailureIsRefused
  <1>1. ChannelInv => FailureIsRefused
    BY DEF ChannelInv, FailureKnown, FailureIsRefused
  <1>2. QED
    BY <1>1, InitChannels, ChannelInvStep, PTL DEF Spec

(* Whatever the uninitialised values, and whoever was asked, a query that  *)
(* read a reply takes only a recharged order for recharged, now and later: *)
(* a supplier takes nothing back.                                          *)
THEOREM QueryCorrect == Spec => []QueriedSuccessIsTrue
  <1>1. ChannelInv => QueriedSuccessIsTrue
    BY DEF ChannelInv
  <1>2. QED
    BY <1>1, InitChannels, ChannelInvStep, PTL DEF Spec

(***************************************************************************)
(* The number of posts                                                     *)
(***************************************************************************)

(* An attempt that is over has made MaxRetry + 1 posts at most, the one    *)
(* that runs, if one does, as many as it has counted.                      *)
PostsCounted ==
    IF place = "sls"
    THEN charge_times > 0 /\ posts <= (charge_times - 1) * (MaxRetry + 1) + retry
    ELSE posts <= charge_times * (MaxRetry + 1)

(* The posts of k attempts of n posts each.                                *)
LEMMA Attempts ==
    ASSUME NEW n \in Nat, NEW k \in Nat, NEW m \in Nat, k <= m
    PROVE  /\ k * n \in Nat /\ m * n \in Nat
           /\ (k + 1) * n = k * n + n
           /\ k * n <= m * n
  <1>1. PICK d \in Nat : m = k + d
    BY m - k \in Nat, m = k + (m - k)
  <1>2. m * n = k * n + d * n /\ d * n \in Nat /\ k * n \in Nat
    BY <1>1
  <1>3. (k + 1) * n = k * n + n
    OBVIOUS
  <1>4. QED
    BY <1>2, <1>3

LEMMA PostsCountedStep == ChannelInv /\ PostsCounted /\ [Next]_vars => PostsCounted'
  <1> SUFFICES ASSUME ChannelInv, PostsCounted, [Next]_vars PROVE PostsCounted'
    OBVIOUS
  <1> DEFINE N == MaxRetry + 1
  <1>1. /\ charge_times \in Nat /\ charge_times <= MaxTimes /\ posts \in Nat /\ retry \in 0..N
        /\ N \in Nat /\ MaxTimes \in Nat
    BY ChannelAssumption DEF ChannelInv, TypeOK
  <1>2. /\ charge_times * N \in Nat
        /\ (charge_times + 1) * N = charge_times * N + N
    BY <1>1, Attempts
  <1>3. CASE TryChannel
    <2>1. posts <= charge_times * N /\ charge_times' = charge_times + 1 /\ posts' = posts
      BY <1>3 DEF TryChannel, PostsCounted
    <2>2. CASE place' = "sls"
      <3>1. retry' = 0
        BY <1>3, <2>2 DEF TryChannel
      <3>2. charge_times' - 1 = charge_times
        BY <1>1, <2>1
      <3>3. QED
        BY <1>1, <1>2, <2>1, <2>2, <3>1, <3>2 DEF PostsCounted
    <2>3. CASE place' # "sls"
      BY <1>1, <1>2, <2>1, <2>3 DEF PostsCounted
    <2>4. QED
      BY <2>2, <2>3
  <1>4. CASE PostCharge
    BY <1>1, <1>2, <1>4 DEF PostCharge, PostsCounted
  <1>5. CASE ChargeReturns
    <2>1. /\ place = "sls" /\ place' = "route" /\ posts' = posts /\ charge_times' = charge_times
          /\ charge_times - 1 \in Nat /\ posts <= (charge_times - 1) * N + retry
      BY <1>1, <1>5 DEF ChargeReturns, PostsCounted
    <2>2. charge_times * N = (charge_times - 1) * N + N
      BY <1>1, <2>1, Attempts, charge_times = (charge_times - 1) + 1
    <2>3. (charge_times - 1) * N \in Nat
      BY <1>1, <2>1, Attempts
    <2>4. QED
      BY <1>1, <1>2, <2>1, <2>2, <2>3 DEF PostsCounted
  <1>6. CASE NextChannel \/ ChargeRequestReturns \/ QueryRequest \/ SupplierFinishes \/ UNCHANGED vars
    BY <1>6 DEF NextChannel, ChargeRequestReturns, QueryRequest, SupplierFinishes, vars, requestVars,
                PostsCounted
  <1>7. QED
    BY <1>3, <1>4, <1>5, <1>6 DEF Next, Charge

(* An order is posted at most MaxTimes times MaxRetry + 1 times, however   *)
(* many channels it has.                                                   *)
THEOREM ChannelPostsCorrect == Spec => []PostsBounded
  <1>1. Init => PostsCounted
    BY ChannelAssumption DEF Init, PostsCounted
  <1>2. ChannelInv /\ PostsCounted => PostsBounded
    <2> SUFFICES ASSUME ChannelInv, PostsCounted PROVE PostsBounded
      OBVIOUS
    <2> DEFINE N == MaxRetry + 1
    <2>1. /\ charge_times \in Nat /\ charge_times <= MaxTimes /\ posts \in Nat /\ retry \in 0..N
          /\ N \in Nat /\ MaxTimes \in Nat
      BY ChannelAssumption DEF ChannelInv, TypeOK
    <2>2. charge_times * N \in Nat /\ MaxTimes * N \in Nat /\ charge_times * N <= MaxTimes * N
      BY <2>1, Attempts
    <2>3. CASE place = "sls"
      <3>1. charge_times - 1 \in Nat /\ posts <= (charge_times - 1) * N + retry
        BY <2>1, <2>3 DEF PostsCounted
      <3>2. charge_times * N = (charge_times - 1) * N + N /\ (charge_times - 1) * N \in Nat
        BY <2>1, <3>1, Attempts, charge_times = (charge_times - 1) + 1
      <3>3. QED
        BY <2>1, <2>2, <3>1, <3>2 DEF PostsBounded
    <2>4. CASE place # "sls"
      BY <2>1, <2>2, <2>4 DEF PostsCounted, PostsBounded
    <2>5. QED
      BY <2>3, <2>4
  <1>3. QED
    BY <1>1, <1>2, InitChannels, ChannelInvStep, PostsCountedStep, PTL DEF Spec
=============================================================================
