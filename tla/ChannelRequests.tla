-------------------------- MODULE ChannelRequests --------------------------
(***************************************************************************)
(* One order between topup_handle and the suppliers: ChargeRequest walks   *)
(* the order's channels and posts to the SLS supplier, QueryRequest asks   *)
(* how the order stands.  The suppliers and the network are the            *)
(* environment: a post is lost, or handled and its reply lost, empty,      *)
(* unreadable or read.  (ChannelImpl.cpp, ChannelSLS.cpp, ChannelLLWW.cpp, *)
(* HttpClient.cpp.)                                                        *)
(***************************************************************************)
EXTENDS Integers, Sequences

CONSTANTS
    ChannelLists, \* what topup_info->channels may be: lists of interfaces
    Garbage,   \* what an uninitialised req_result.status may hold
    MaxTimes,  \* charge_times stays below it: 5
    MaxRetry,  \* retry of ChannelSLS::Charge goes up to it: 5
    MaxQueries \* bound: queries made of the order

Interfaces == {"SLS", "LLWW"}

ASSUME ChannelAssumption ==
    /\ ChannelLists \subseteq Seq(Interfaces) \ {<<>>}
    /\ Garbage \subseteq Int
    /\ MaxTimes \in Nat \ {0} /\ MaxRetry \in Nat /\ MaxQueries \in Nat

VARIABLES
    channels,     \* the interfaces of topup_info->channels
    at,           \* index of the loop over the channels
    charge_times, \* attempts made, shared by all the channels
    ret,          \* ChargeRequest's ret, ChannelSLS::Charge's while it runs
    retry,        \* posts made by the running ChannelSLS::Charge
    place,        \* "route", "sls" or "returned"
    status,       \* req_ret.status of the running ChannelSLS::Charge
    asked,        \* the last query: its answer, what it read; how many were made
    supplier,     \* environment: what each supplier has done with the order
    posts,        \* history: posts made of the order, through all its channels
    blank, lost   \* history: a reply was empty; a reply did not come through

requestVars == <<channels, at, charge_times, ret, retry, place, status>>
vars == <<requestVars, asked, supplier, posts, blank, lost>>

(* The loop's condition, and the order of its tests.                       *)
MoreAttempts == charge_times < MaxTimes /\ ret # 0

(* Mutant: every channel has its own attempts.                             *)
NextChannelFresh ==
    /\ place = "route"
    /\ at <= Len(channels)
    /\ ~MoreAttempts
    /\ at' = at + 1
    /\ charge_times' = 0
    /\ UNCHANGED <<channels, ret, retry, place, status, asked, supplier, posts, blank, lost>>

(* The next channel, also after a success.                                 *)
NextChannel ==
    /\ place = "route"
    /\ at <= Len(channels)
    /\ ~MoreAttempts
    /\ at' = at + 1
    /\ UNCHANGED <<channels, charge_times, ret, retry, place, status, asked, supplier,
                   posts, blank, lost>>

(* Mutant: the attempts of interfaces nobody handles are not counted.      *)
TryChannelUncounted ==
    /\ place = "route"
    /\ at <= Len(channels)
    /\ MoreAttempts
    /\ IF channels[at] = "SLS"
       THEN /\ place' = "sls" /\ ret' = 1 /\ retry' = 0 /\ status' \in Garbage
            /\ charge_times' = charge_times + 1
       ELSE UNCHANGED <<place, ret, retry, status, charge_times>>
    /\ UNCHANGED <<channels, at, asked, supplier, posts, blank, lost>>

(* One attempt.  SLS is recognised by the channel's interface; LLWW by     *)
(* the order's, which is never set (OrderInterface): such a channel, like  *)
(* an unknown one, uses up its attempts without a call.  req_ret is not    *)
(* initialised.                                                            *)
TryChannel ==
    /\ place = "route"
    /\ at <= Len(channels)
    /\ MoreAttempts
    /\ charge_times' = charge_times + 1
    /\ IF channels[at] = "SLS"
       THEN place' = "sls" /\ ret' = 1 /\ retry' = 0 /\ status' \in Garbage
       ELSE UNCHANGED <<place, ret, retry, status>>
    /\ UNCHANGED <<channels, at, asked, supplier, posts, blank, lost>>

(* What SLS does with a post that reaches it: a new order is accepted or   *)
(* refused, a number it knows is refused ("005").                          *)
SupplierHandles ==
    \/ supplier["SLS"] = "unknown" /\ supplier' = [supplier EXCEPT !["SLS"] = "accepted"]
    \/ UNCHANGED supplier

(* Mutant: what cannot be parsed is not a failure.                         *)
ParsedLoosely(verdict) == IF verdict = "refused" THEN 1 ELSE 0

(* parse_sls_charge_response.                                              *)
Parsed(verdict) ==
    CASE verdict = "accepted" -> 0
      [] verdict = "refused"  -> 1
      [] OTHER                -> 2

(* Mutant: the loop only looks at retry.                                   *)
MoreRetriesAlways == retry <= MaxRetry

(* Mutant: "retry <= 6".                                                   *)
MoreRetriesOffByOne == retry <= MaxRetry + 1 /\ ret # 0

MoreRetries == retry <= MaxRetry /\ ret # 0

(* httpclent_perform fails: the post may have been handled, and the reply  *)
(* may have been parsed as it came in.                                     *)
PostFails ==
    /\ UNCHANGED supplier \/ SupplierHandles
    /\ \E verdict \in {"accepted", "refused", "unreadable", "none"} :
          /\ verdict = "accepted" => supplier' # supplier
          /\ verdict = "refused" => UNCHANGED supplier
          /\ status' = IF verdict = "none" THEN status ELSE Parsed(verdict)
    /\ ret' = 1
    /\ lost' = TRUE
    /\ UNCHANGED blank

(* It succeeds: the reply is read, or it is unreadable, or it is empty and *)
(* leaves the status as it is.                                             *)
PostSucceeds ==
    /\ SupplierHandles
    /\ \/ /\ status' = Parsed(IF supplier' # supplier THEN "accepted" ELSE "refused")
          /\ UNCHANGED <<blank, lost>>
       \/ status' = Parsed("unreadable") /\ lost' = TRUE /\ UNCHANGED blank
       \/ UNCHANGED status /\ lost' = TRUE /\ blank' = TRUE
    /\ ret' = IF status' = 0 THEN 0 ELSE 1

(* One post of ChannelSLS::Charge.                                         *)
PostCharge ==
    /\ place = "sls"
    /\ MoreRetries
    /\ retry' = retry + 1
    /\ posts' = posts + 1
    /\ PostFails \/ PostSucceeds
    /\ UNCHANGED <<channels, at, charge_times, place, asked>>

(* ChannelSLS::Charge returns to the loop.                                 *)
ChargeReturns ==
    /\ place = "sls"
    /\ ~MoreRetries
    /\ place' = "route"
    /\ UNCHANGED <<channels, at, charge_times, ret, retry, status, asked,
                   supplier, posts, blank, lost>>

(* ChargeRequest returns.                                                  *)
ChargeRequestReturns ==
    /\ place = "route"
    /\ at > Len(channels)
    /\ place' = "returned"
    /\ UNCHANGED <<channels, at, charge_times, ret, retry, status, asked,
                   supplier, posts, blank, lost>>

(***************************************************************************)
(* Queries, after a charge that returned 0                                 *)
(***************************************************************************)

(* ChannelLLWW::Query's switch over req_ret.status.                        *)
QueryAnswer(s) ==
    CASE s = 2 -> 0
      [] s = 1 -> 1
      [] s = 3 -> 2
      [] s = 5 -> 3
      [] OTHER -> -1

(* parse_llww_response: the number in a reply about an order.  -1 stands   *)
(* for every other number and for what cannot be read.                     *)
ParsedQuery(reply) ==
    CASE reply = "accepted"  -> 1
      [] reply = "recharged" -> 2
      [] reply = "failed"    -> 3
      [] reply = "unknown"   -> 5
      [] OTHER               -> -1

(* LLWW says how the order stands with it, or something else.              *)
LLWWReplies == {supplier["LLWW"], "other"}

(* interfaceName of the order, which no line of the code sets.             *)
OrderInterface == "none"

(* Mutant: the second comparison is mended, the third, with YEEPAY's name, *)
(* is left as it is.                                                       *)
QueriedAtMended(interface) == IF interface \in Interfaces THEN interface ELSE "nobody"

(* QueryRequest's three comparisons, of which the second and the third     *)
(* hold for every name but the one they are made with.                     *)
QueriedAt(interface) ==
    CASE interface = "SLS"           -> "SLS"
      [] interface \notin Interfaces -> "LLWW"
      [] OTHER                       -> "nobody"

(* What a query may come to.  Without a reply the uninitialised status is  *)
(* taken for one; where nobody is asked, ret keeps its first value.  A     *)
(* query at SLS is left out: no order has its interface.                   *)
QueryOutcomes ==
    IF QueriedAt(OrderInterface) = "LLWW"
    THEN [answer : {QueryAnswer(ParsedQuery(reply)) : reply \in LLWWReplies}, read : {"reply"}]
         \cup [answer : {QueryAnswer(s) : s \in Garbage}, read : {"garbage"}]
    ELSE [answer : {0}, read : {"nothing"}]

(* QueryRequest, of an order whose charge returned 0.  A 0 is the order's  *)
(* success, after which it is not queried again.                           *)
QueryRequest ==
    /\ place = "returned" /\ ret = 0
    /\ asked.answer # 0 /\ asked.times < MaxQueries
    /\ \E outcome \in QueryOutcomes :
          asked' = [answer |-> outcome.answer, read |-> outcome.read, times |-> asked.times + 1]
    /\ UNCHANGED <<requestVars, supplier, posts, blank, lost>>

(* A supplier finishes a recharge, or gives up.                            *)
SupplierFinishes ==
    /\ \E i \in Interfaces :
          /\ supplier[i] = "accepted"
          /\ \E end \in {"recharged", "failed"} : supplier' = [supplier EXCEPT ![i] = end]
    /\ UNCHANGED <<requestVars, asked, posts, blank, lost>>

Init ==
    /\ channels \in ChannelLists
    /\ at = 1
    /\ charge_times = 0
    /\ ret = 1
    /\ retry = 0
    /\ place = "route"
    /\ status = 2
    /\ asked = [answer |-> -1, read |-> "nothing", times |-> 0]
    /\ supplier = [i \in Interfaces |-> "unknown"]
    /\ posts = 0
    /\ blank = FALSE
    /\ lost = FALSE

Charge == NextChannel \/ TryChannel \/ PostCharge \/ ChargeReturns \/ ChargeRequestReturns

Next == Charge \/ QueryRequest \/ SupplierFinishes

Spec == Init /\ [][Next]_vars

(* The charge thread keeps running; every post ends, since curl has a      *)
(* timeout.                                                                *)
FairSpec == Spec /\ WF_vars(Charge)

(***************************************************************************)
(* Properties                                                              *)
(***************************************************************************)

Returned == place = "returned"

(* A supplier has accepted the order, or has finished it since.            *)
Known == \E i \in Interfaces : supplier[i] # "unknown"

(* Type invariant.                                                         *)
TypeOK ==
    /\ channels \in ChannelLists
    /\ at \in 1..(Len(channels) + 1)
    /\ charge_times \in 0..MaxTimes
    /\ ret \in {0, 1}
    /\ retry \in 0..(MaxRetry + 1)
    /\ place \in {"route", "sls", "returned"}
    /\ status \in Garbage \cup 0..2
    /\ asked \in [answer : -1..3, read : {"reply", "garbage", "nothing"}, times : 0..MaxQueries]
    /\ supplier \in [Interfaces -> {"unknown", "accepted", "recharged", "failed"}]
    /\ posts \in Nat
    /\ blank \in BOOLEAN
    /\ lost \in BOOLEAN

(* However many channels an order has, it is posted at most MaxTimes times *)
(* (MaxRetry + 1) times: the attempts are shared.                          *)
PostsBounded == posts <= MaxTimes * (MaxRetry + 1)

(* ChargeRequest returns 0 only for an order the supplier has accepted,    *)
(* unless an empty reply let an old or uninitialised status be read.       *)
SuccessIsAccepted == Returned /\ ret = 0 => Known \/ blank

(* ChargeRequest returns a failure for an order the supplier has accepted  *)
(* only when a reply of his was lost: no retry turns a success into one.   *)
FailureIsRefused == Returned /\ ret # 0 => ~Known \/ lost

(* A query takes the order for recharged, which ends its way and tells its *)
(* buyer SUCCESS, only when a supplier has recharged it, whoever was asked *)
(* and however he replied; or it had no reply and read an uninitialised    *)
(* status, which is the one way to a success that was none.                *)
QueriedSuccessIsTrue ==
    asked.answer = 0 =>
        (\E i \in Interfaces : supplier[i] = "recharged") \/ asked.read = "garbage"

(* ChargeRequest comes back: refusals, unhandled interfaces and lost       *)
(* replies use up the attempts.                                            *)
ChargeEnds == <>Returned

(***************************************************************************)
(* What the comments of the code say                                       *)
(***************************************************************************)

(* ChannelSLS.cpp:79, "ret = 1 failed": a charge that is reported as a     *)
(* failure has not been made.                                              *)
FailedIsFailed == Returned /\ ret = 1 => ~Known
=============================================================================
