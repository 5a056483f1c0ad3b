--------------------------- MODULE OrderLifecycle ---------------------------
(***************************************************************************)
(* What the pipeline promises of an order, without lists, threads or       *)
(* processes: the order goes one way only, from its acceptance over one    *)
(* charge to one result, of which its buyer is told a bounded number of    *)
(* times and never again after he has answered.  It may be lost at any     *)
(* moment, alone or with others; it never comes back.                      *)
(***************************************************************************)
EXTENDS Naturals

CONSTANTS
    Orders,
    MaxPosts    \* posts made of one result, a natural number

VARIABLES
    stage,      \* where the order is on its way
    charges,    \* how often it was submitted to the suppliers
    told,       \* what its buyer has received
    posts,      \* posts sent to him
    verdict     \* his answer: 0 none, 1 T, 2 F

vars == <<stage, charges, told, posts, verdict>>

Results == {"SUCCESS", "FAILED"}
Stages == {"new", "underway", "submitted", "over"} \cup Results

(* The order's message is pushed for the first time.                       *)
Accept(o) ==
    /\ stage[o] = "new"
    /\ stage' = [stage EXCEPT ![o] = "underway"]
    /\ UNCHANGED <<charges, told, posts, verdict>>

(* The suppliers are asked to charge it.                                   *)
Submit(o) ==
    /\ stage[o] = "underway"
    /\ stage' = [stage EXCEPT ![o] = "submitted"]
    /\ charges' = [charges EXCEPT ![o] = @ + 1]
    /\ UNCHANGED <<told, posts, verdict>>

(* It has a result.                                                        *)
Settle(o) ==
    /\ stage[o] = "submitted"
    /\ \E result \in Results : stage' = [stage EXCEPT ![o] = result]
    /\ UNCHANGED <<charges, told, posts, verdict>>

(* The result is posted: received or not, answered or not.                 *)
Post(o) ==
    /\ stage[o] \in Results
    /\ verdict[o] = 0 /\ posts[o] < MaxPosts
    /\ posts' = [posts EXCEPT ![o] = @ + 1]
    /\ \/ /\ told' = [told EXCEPT ![o] = @ \cup {stage[o]}]
          /\ \E a \in 0..2 : verdict' = [verdict EXCEPT ![o] = a]
       \/ UNCHANGED <<told, verdict>>
    /\ UNCHANGED <<stage, charges>>

(* Orders that are finished, refused or lost.                              *)
Leave(S) ==
    /\ UNCHANGED <<charges, told, posts, verdict>>
    /\ stage' = [o \in Orders |-> IF o \in S THEN "over" ELSE stage[o]]

Init ==
    /\ stage = [o \in Orders |-> "new"]
    /\ charges = [o \in Orders |-> 0]
    /\ told = [o \in Orders |-> {}]
    /\ posts = [o \in Orders |-> 0]
    /\ verdict = [o \in Orders |-> 0]

Next ==
    \/ \E o \in Orders : Accept(o) \/ Submit(o) \/ Settle(o) \/ Post(o)
    \/ \E S \in SUBSET Orders : Leave(S)

Spec == Init /\ [][Next]_vars
=============================================================================
