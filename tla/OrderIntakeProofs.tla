------------------------- MODULE OrderIntakeProofs --------------------------
(***************************************************************************)
(* The thrift server's side of an order and the fronts before it, for any  *)
(* fronts, calls, numbers and faults.                                      *)
(***************************************************************************)
EXTENDS TopupFcgi, TLAPS

(***************************************************************************)
(* The thrift server's side of an order, for any calls, numbers and        *)
(* faults: types, refusals, acceptances and later duplicates.              *)
(***************************************************************************)

(* Where the calls of an interface can be: HandleRequest leads nowhere     *)
(* from the other places.                                                  *)
Route ==
    /\ \A r \in Query : pc[r] \in {"new", "lookup", "replied", "dead"}
    /\ \A r \in Customer : pc[r] \notin {"check", "lookup"}
    /\ \A r \in Tmall \cup Zkcl : pc[r] \notin {"balance", "lookup"}

(* The number of r is in the cache, or was until its entry expired.        *)
Known(r) == cached[No[r]] # "none" \/ No[r] \in expired

IsAccepted(r) == pc[r] = "replied" /\ response[r] = "UNDERWAY"

(* What has been done for a charge when it is at its place: the row comes  *)
(* with the answer, and nothing but a fault makes an error or leaves the   *)
(* order out of the list.                                                  *)
Traced(r) ==
    /\ r \in rows => IsAccepted(r)
    /\ r \in inError => r \in faulted
    /\ (pc[r] \in {"push", "finish"} /\ r \notin inError) \/ IsAccepted(r) => Known(r)
    /\ r \notin faulted /\ (pc[r] = "finish" \/ IsAccepted(r)) => r \in queued
    /\ r \notin faulted /\ IsAccepted(r) => r \in rows
    /\ r \in queued =>
          \/ pc[r] \in {"finish", "dead"}
          \/ pc[r] = "replied" /\ (r \in faulted \/ response[r] = "UNDERWAY")

(* A call before which another one with its number was accepted.           *)
Duplicate(r) == \E first \in before[r] \cap Accepted : No[first] = No[r]

(* When a call comes in it sees only calls that have been answered, and    *)
(* the check for duplicates ends it unless a fault hits it.                *)
AnsweredBefore ==
    \A r \in Requests : before[r] \subseteq Replied /\ (pc[r] = "new" => before[r] = {})
StoppedEarly(r) ==
    Duplicate(r) /\ No[r] \notin expired /\ r \notin faulted =>
        r \notin queued /\ pc[r] \in {"new", "check", "replied", "dead"}

IntakeInv ==
    /\ TypeOK /\ Route /\ AnsweredBefore
    /\ \A r \in Charges : Traced(r)
    /\ \A r \in Tmall \cup Zkcl : StoppedEarly(r)

LEMMA InitIntake == Init => IntakeInv
  BY IntakeAssumption
     DEF Init, IntakeInv, TypeOK, Route, AnsweredBefore, Traced, StoppedEarly, Places, Responses,
         CachedStatus, IsAccepted, Duplicate, Accepted, Replied, Charges

(***************************************************************************)
(* What a step changes: it moves one call on.                              *)
(***************************************************************************)

(* The types, and the routes, after the step of one call.                  *)
LEMMA HandleType ==
    ASSUME TypeOK, Route, NEW r \in Requests, Handle(r)
    PROVE  TypeOK' /\ Route'
  <1>1. /\ pc \in [Requests -> Places] /\ response \in [Requests -> Responses]
        /\ cached \in [Numbers -> CachedStatus] /\ No[r] \in Numbers
        /\ before \in [Requests -> SUBSET Requests]
    BY IntakeAssumption DEF TypeOK
  <1>2. faults' \in 0..MaxFaults /\ faulted' \subseteq Requests
    BY IntakeAssumption
       DEF TypeOK, Handle, SendRequest, LookUp, CustomerQuery, QueryOrder, CheckProduct,
           CheckAndBalance, SelectBestChannel, CreateTmallOrder, InsertOrder, CacheOrder,
           PushOrder, FinishOrder, NoFault, Fault
  <1>3. ASSUME Continue(r), pc[r] \in {"new", "check", "product", "channel"}
        PROVE  /\ pc' \in [Requests -> Places] /\ response' \in [Requests -> Responses] /\ Route'
    BY <1>1, <1>3, IntakeAssumption
       DEF Continue, Goto, HandleRequest, TmallCharge, ZkclCharge, CustomerCharge, TmallQuery,
           Route, Places, Charges
  <1>4. ASSUME NEW answer \in Responses, Reply(r, answer)
        PROVE  /\ pc' \in [Requests -> Places] /\ response' \in [Requests -> Responses] /\ Route'
    BY <1>1, <1>4, IntakeAssumption DEF Reply, Goto, Route, Places
  <1>5. "none" \in Responses /\ "UNDERWAY" \in Responses /\ "ORDER_FAILED" \in Responses
        /\ "REQUEST_FAILED" \in Responses /\ \A status : QueryAnswer(status) \in Responses
    BY DEF Responses, QueryAnswer
  <1>6. ASSUME NEW place \in {"cache", "push", "finish"}, Goto(r, place), response' = response,
               pc[r] \in {"insert", "cache", "push"}
        PROVE  /\ pc' \in [Requests -> Places] /\ response' \in [Requests -> Responses] /\ Route'
               /\ r \in Charges
    BY <1>1, <1>6, IntakeAssumption DEF Goto, Route, Places, Charges
  <1>7. CASE SendRequest(r)
    <2>1. before' \in [Requests -> SUBSET Requests]
      BY <1>1, <1>7 DEF SendRequest, Replied
    <2>2. QED
      BY <1>2, <1>3, <1>4, <1>5, <1>7, <2>1 DEF SendRequest, Refuse, TypeOK
  <1>8. CASE LookUp(r) \/ CustomerQuery(r) \/ QueryOrder(r) \/ CheckProduct(r) \/ SelectBestChannel(r)
    BY <1>2, <1>3, <1>4, <1>5, <1>8
       DEF LookUp, CustomerQuery, QueryOrder, CheckProduct, SelectBestChannel, Refuse, TypeOK
  <1>9. CASE CheckAndBalance(r)
    <2>1. r \in Customer /\ pc[r] = "balance"
      BY <1>9, IntakeAssumption DEF CheckAndBalance, Route, Charges
    <2>2. /\ pc' = [pc EXCEPT ![r] = "channel"]
          /\ response' = [response EXCEPT ![r] = "ORDER_FAILED"]
      <3>1. r \notin Tmall /\ r \notin Zkcl /\ r \notin Query
        BY <2>1, IntakeAssumption DEF Charges
      <3>2. HandleRequest(r) = CustomerCharge
        BY <2>1, <3>1 DEF HandleRequest
      <3>3. HandleRequest(r)[pc[r]] = "channel"
        BY <2>1, <3>2 DEF CustomerCharge
      <3>4. QED
        BY <1>9, <3>3 DEF CheckAndBalance, Goto
    <2>3. /\ pc' \in [Requests -> Places] /\ response' \in [Requests -> Responses] /\ Route'
      BY <1>1, <1>5, <2>1, <2>2, IntakeAssumption DEF Route, Places
    <2>4. QED
      BY <1>2, <1>9, <2>3 DEF CheckAndBalance, TypeOK
  <1>10. CASE InsertOrder(r) \/ PushOrder(r)
    BY <1>2, <1>6, <1>10 DEF InsertOrder, PushOrder, TypeOK
  <1>11. CASE CacheOrder(r)
    <2>1. cached' \in [Numbers -> CachedStatus]
      BY <1>1, <1>11 DEF CacheOrder, CachedStatus
    <2>2. QED
      BY <1>2, <1>6, <1>11, <2>1 DEF CacheOrder, TypeOK
  <1>12. CASE FinishOrder(r)
    <2>1. r \in Charges
      BY <1>12, IntakeAssumption DEF FinishOrder, Route, Charges
    <2>2. QED
      BY <1>2, <1>4, <1>5, <1>12, <2>1 DEF FinishOrder, Refuse, TypeOK
  <1>13. QED
    BY <1>7, <1>8, <1>9, <1>10, <1>11, <1>12 DEF Handle, CreateTmallOrder

(* The handler of one call leaves the other calls alone; what it adds to   *)
(* the cache stays there; a call that has ended does nothing more.         *)
Alone(r) ==
    /\ pc[r] \notin {"replied", "dead"}
    /\ \A s \in Requests \ {r} :
          /\ pc'[s] = pc[s] /\ response'[s] = response[s] /\ before'[s] = before[s]
          /\ s \in rows' <=> s \in rows
          /\ s \in queued' <=> s \in queued
          /\ s \in inError' <=> s \in inError
    /\ \A n \in Numbers : cached[n] # "none" => cached'[n] # "none"
    /\ expired' = expired /\ faulted \subseteq faulted'

LEMMA HandleAlone ==
    ASSUME TypeOK, NEW r \in Requests, Handle(r) PROVE Alone(r)
  <1>1. TypeOK
    OBVIOUS
  <1>2. CASE SendRequest(r)
    BY <1>2 DEF Alone, TypeOK, SendRequest, Continue, Refuse, Reply, Goto, NoFault, Fault
  <1>3. CASE LookUp(r) \/ CustomerQuery(r) \/ QueryOrder(r)
    BY <1>3 DEF Alone, TypeOK, LookUp, CustomerQuery, QueryOrder, Continue, Refuse, Reply, Goto,
                NoFault, Fault
  <1>4. CASE CheckProduct(r) \/ CheckAndBalance(r) \/ SelectBestChannel(r)
    BY <1>4 DEF Alone, TypeOK, CheckProduct, CheckAndBalance, SelectBestChannel, Continue, Refuse,
                Reply, Goto
  <1>5. CASE InsertOrder(r) \/ PushOrder(r)
    BY <1>5 DEF Alone, TypeOK, InsertOrder, PushOrder, Goto, NoFault, Fault
  <1>6. CASE CacheOrder(r)
    BY <1>6 DEF Alone, TypeOK, CacheOrder, Goto, NoFault, Fault
  <1>7. CASE FinishOrder(r)
    BY <1>7 DEF Alone, TypeOK, FinishOrder, Refuse, Reply, Goto, NoFault, Fault
  <1>8. QED
    BY <1>2, <1>3, <1>4, <1>5, <1>6, <1>7 DEF Handle, CreateTmallOrder

(* A call that nothing touches keeps its trace.                            *)
LEMMA OthersTraced ==
    ASSUME TypeOK, NEW r \in Requests, Alone(r), NEW s \in Charges \ {r}, Traced(s)
    PROVE  Traced(s)'
  BY IntakeAssumption DEF Alone, Traced, IsAccepted, Known

(* The charge that a thread handles keeps to its trace.                    *)
LEMMA HandleTraced ==
    ASSUME TypeOK, Route, NEW r \in Charges, Handle(r), Traced(r)
    PROVE  Traced(r)'
  <1>1. /\ pc \in [Requests -> Places] /\ response \in [Requests -> Responses]
        /\ cached \in [Numbers -> CachedStatus] /\ r \in Requests /\ No[r] \in Numbers
        /\ r \notin Query /\ pc[r] # "lookup"
    BY IntakeAssumption DEF TypeOK, Route, Charges
  <1>2. faulted \subseteq faulted'
    BY <1>1, HandleAlone DEF Alone
  <1>3. ASSUME Continue(r), pc[r] \in {"new", "check", "product", "channel"}
        PROVE  pc'[r] \in {"check", "product", "balance", "channel", "insert"}
    BY <1>1, <1>3, IntakeAssumption
       DEF Continue, Goto, HandleRequest, TmallCharge, ZkclCharge, CustomerCharge, Charges, Route
  <1>4. ASSUME rows' = rows, queued' = queued, inError' = inError,
               pc[r] \in {"new", "check", "product", "balance", "channel"},
               \/ pc'[r] \in {"check", "product", "balance", "channel", "insert"}
               \/ pc'[r] = "replied" /\ response'[r] \in {"none", "ORDER_FAILED"}
        PROVE  Traced(r)'
    BY <1>2, <1>4 DEF Traced, IsAccepted
  <1>5. CASE SendRequest(r) \/ QueryOrder(r) \/ CheckProduct(r) \/ SelectBestChannel(r)
    BY <1>1, <1>3, <1>4, <1>5
       DEF SendRequest, QueryOrder, CheckProduct, SelectBestChannel, Refuse, Reply, Goto
  <1>6. CASE CheckAndBalance(r)
    <2>1. r \in Customer /\ pc[r] = "balance"
      BY <1>6 DEF CheckAndBalance, Route, Charges
    <2>2. r \notin Tmall /\ r \notin Zkcl /\ r \notin Query
      BY <2>1, IntakeAssumption DEF Charges
    <2>3. HandleRequest(r) = CustomerCharge
      BY <2>1, <2>2 DEF HandleRequest
    <2>4. pc'[r] = "channel"
      BY <1>1, <1>6, <2>1, <2>3 DEF CheckAndBalance, Goto, CustomerCharge
    <2>5. QED
      BY <1>4, <1>6, <2>1, <2>4 DEF CheckAndBalance
  <1>7. CASE InsertOrder(r)
    BY <1>1, <1>7 DEF InsertOrder, Goto, NoFault, Fault, Traced, IsAccepted
  <1>8. CASE CacheOrder(r)
    <2>1. \/ cached'[No[r]] = "CREATE" /\ pc'[r] = "push" /\ inError' = inError /\ faulted' = faulted
          \/ pc'[r] \in {"push", "finish"} /\ inError' = inError \cup {r} /\ r \in faulted'
      BY <1>1, <1>8 DEF CacheOrder, Goto, NoFault, Fault
    <2>2. pc[r] = "cache" /\ rows' = rows /\ queued' = queued
      BY <1>8 DEF CacheOrder
    <2>3. QED
      BY <1>2, <2>1, <2>2 DEF Traced, IsAccepted, Known
  <1>9. CASE PushOrder(r)
    <2>1. \/ r \in queued' /\ inError' = inError /\ faulted' = faulted
          \/ r \in faulted' /\ inError' \in {inError, inError \cup {r}}
      BY <1>9 DEF PushOrder, NoFault, Fault
    <2>2. pc[r] = "push" /\ pc'[r] = "finish" /\ rows' = rows /\ cached' = cached /\ expired' = expired
      BY <1>1, <1>9 DEF PushOrder, Goto
    <2>3. QED
      BY <1>2, <2>1, <2>2 DEF Traced, IsAccepted, Known
  <1>10. CASE FinishOrder(r)
    <2>1. /\ pc[r] = "finish" /\ pc'[r] = "replied"
          /\ cached' = cached /\ expired' = expired /\ queued' = queued /\ inError' = inError
      BY <1>1, <1>10 DEF FinishOrder, Refuse, Reply, Goto
    <2>2. \/ r \in inError /\ response'[r] = "ORDER_FAILED" /\ rows' = rows
          \/ /\ r \notin inError /\ response'[r] = "UNDERWAY"
             /\ r \in rows' \/ (rows' = rows /\ r \in faulted')
      BY <1>1, <1>10 DEF FinishOrder, Refuse, Reply, NoFault, Fault
    <2>3. QED
      BY <1>2, <2>1, <2>2 DEF Traced, IsAccepted, Known
  <1>11. QED
    BY <1>1, <1>5, <1>6, <1>7, <1>8, <1>9, <1>10
       DEF Handle, CreateTmallOrder, LookUp, CustomerQuery

(* An answer that was given stays; an acceptance means a known number.     *)
LEMMA AcceptedKnown ==
    ASSUME IntakeInv, NEW first \in Accepted PROVE Known(first) /\ first \in Charges
  BY DEF IntakeInv, Traced, IsAccepted, Accepted

(* Of the calls seen when r came in, those accepted later on were accepted *)
(* already: they had been answered.                                        *)
LEMMA DuplicateBefore ==
    ASSUME IntakeInv, NEW r \in Requests, NEW s \in Requests, Alone(r),
           before'[s] = before[s], Duplicate(s)'
    PROVE  Duplicate(s)
  <1>1. PICK first \in before[s] : first \in Accepted' /\ No[first] = No[s]
    BY DEF Duplicate
  <1>2. first \in Replied
    BY <1>1 DEF IntakeInv, AnsweredBefore
  <1>3. first \in Accepted
    BY <1>1, <1>2 DEF Alone, Accepted, Replied
  <1>4. QED
    BY <1>1, <1>3 DEF Duplicate

(* A later duplicate is stopped, in its own steps and in those of others.  *)
LEMMA HandleStopped ==
    ASSUME IntakeInv, NEW r \in Requests, Handle(r), NEW s \in Tmall \cup Zkcl
    PROVE  StoppedEarly(s)'
  <1>1. /\ TypeOK /\ Route /\ AnsweredBefore /\ Alone(r) /\ StoppedEarly(s)
        /\ s \in Requests /\ s \notin Query /\ No[s] \in Numbers
    BY HandleAlone, IntakeAssumption DEF IntakeInv, Charges
  <1>2. expired' = expired /\ faulted \subseteq faulted'
    BY <1>1 DEF Alone
  <1>3. CASE s # r
    <2>1. /\ pc'[s] = pc[s] /\ before'[s] = before[s] /\ (s \in queued' <=> s \in queued)
      BY <1>1, <1>3 DEF Alone
    <2>2. Duplicate(s)' => Duplicate(s)
      BY <1>1, <2>1, DuplicateBefore
    <2>3. QED
      BY <1>1, <1>2, <2>1, <2>2 DEF StoppedEarly
  <1>4. CASE s = r /\ SendRequest(r)
    <2>1. pc[r] = "new" /\ queued' = queued
      BY <1>4 DEF SendRequest
    <2>2. r \notin queued
      BY <1>1, <1>4, <2>1 DEF IntakeInv, Traced, Charges
    <2>3. pc'[r] \in {"check", "replied"}
      BY <1>1, <1>4, <2>1, IntakeAssumption
         DEF SendRequest, Continue, Refuse, Reply, Goto, HandleRequest, TmallCharge, ZkclCharge, TypeOK
    <2>4. QED
      BY <1>4, <2>1, <2>2, <2>3 DEF StoppedEarly
  <1>5. CASE s = r /\ ~SendRequest(r)
    <2>1. before'[s] = before[s]
      BY <1>5 DEF Handle, LookUp, CustomerQuery, QueryOrder, CheckProduct, CheckAndBalance,
                  SelectBestChannel, CreateTmallOrder, InsertOrder, CacheOrder, PushOrder, FinishOrder
    <2>2. Duplicate(s)' => Duplicate(s)
      BY <1>1, <2>1, DuplicateBefore
    <2>3. SUFFICES ASSUME Duplicate(s), No[s] \notin expired, s \notin faulted'
                   PROVE  s \notin queued' /\ pc'[s] \in {"new", "check", "replied", "dead"}
      BY <1>2, <2>2 DEF StoppedEarly
    <2>4. s \notin queued /\ pc[s] \in {"new", "check", "replied", "dead"}
      BY <1>1, <1>2, <2>3 DEF StoppedEarly
    <2>5. QueryOrder(s)
      BY <1>5, <2>4 DEF Handle, LookUp, CustomerQuery, QueryOrder, CheckProduct, CheckAndBalance,
                  SelectBestChannel, CreateTmallOrder, InsertOrder, CacheOrder, PushOrder, FinishOrder
    <2>6. cached[No[s]] # "none"
      <3>1. PICK first \in before[s] \cap Accepted : No[first] = No[s]
        BY <2>3 DEF Duplicate
      <3>2. QED
        BY <2>3, <3>1, AcceptedKnown DEF Known
    <2>7. Refuse(s) /\ queued' = queued
      BY <2>3, <2>5, <2>6 DEF QueryOrder, Fault
    <2>8. QED
      BY <1>1, <2>4, <2>7 DEF Refuse, Reply, Goto, TypeOK
  <1>6. QED
    BY <1>3, <1>4, <1>5

LEMMA HandleInv ==
    ASSUME IntakeInv, NEW r \in Requests, Handle(r) PROVE IntakeInv'
  <1>1. TypeOK /\ Route /\ AnsweredBefore /\ Alone(r) /\ TypeOK' /\ Route'
    BY HandleAlone, HandleType DEF IntakeInv
  <1>2. AnsweredBefore'
    <2>1. Replied \subseteq Replied'
      BY <1>1 DEF Alone, Replied
    <2>2. pc'[r] # "new"
      BY <1>1, IntakeAssumption
         DEF Handle, SendRequest, LookUp, CustomerQuery, QueryOrder, CheckProduct, CheckAndBalance,
             SelectBestChannel, CreateTmallOrder, InsertOrder, CacheOrder, PushOrder, FinishOrder,
             Continue, Refuse, Reply, Goto, HandleRequest, TmallCharge, ZkclCharge, CustomerCharge,
             TmallQuery, Route, TypeOK, Charges
    <2>3. before'[r] \subseteq Replied'
      BY <1>1, <2>1 DEF Handle, SendRequest, LookUp, CustomerQuery, QueryOrder, CheckProduct,
             CheckAndBalance, SelectBestChannel, CreateTmallOrder, InsertOrder, CacheOrder,
             PushOrder, FinishOrder, AnsweredBefore, TypeOK
    <2>4. QED
      BY <1>1, <2>1, <2>2, <2>3 DEF AnsweredBefore, Alone
  <1>3. \A s \in Charges : Traced(s)'
    BY <1>1, OthersTraced, HandleTraced DEF IntakeInv
  <1>4. QED
    BY <1>1, <1>2, <1>3, HandleStopped DEF IntakeInv

(* Time, deaths and faults that hit no call keep the invariant.            *)
LEMMA ExpireInv ==
    ASSUME IntakeInv, NEW n \in Numbers, Expire(n) PROVE IntakeInv'
  <1>1. TypeOK' /\ Route' /\ AnsweredBefore'
    BY DEF IntakeInv, TypeOK, Expire, CachedStatus, Route, AnsweredBefore, Replied
  <1>2. ASSUME NEW s \in Charges PROVE Traced(s)'
    <2>1. Traced(s) /\ (Known(s) => Known(s)')
      BY DEF IntakeInv, TypeOK, Expire, Known
    <2>2. QED
      BY <2>1 DEF Expire, Traced, IsAccepted
  <1>3. ASSUME NEW s \in Tmall \cup Zkcl PROVE StoppedEarly(s)'
    BY DEF IntakeInv, Expire, StoppedEarly, Duplicate, Accepted
  <1>4. QED
    BY <1>1, <1>2, <1>3 DEF IntakeInv

LEMMA CrashInv == ASSUME IntakeInv, ServerCrash PROVE IntakeInv'
  <1>1. /\ TypeOK /\ Route /\ AnsweredBefore
        /\ \A s \in Requests : pc'[s] = pc[s] \/ (pc'[s] = "dead" /\ pc[s] # "replied" /\ pc[s] # "new")
        /\ \A s \in Requests : pc'[s] = "replied" <=> pc[s] = "replied"
        /\ faulted \subseteq faulted'
    BY DEF IntakeInv, ServerCrash, InProgress, Fault
  <1>2. faults' \in 0..MaxFaults /\ faulted' \subseteq Requests
    BY <1>1, IntakeAssumption DEF ServerCrash, Fault, TypeOK, InProgress
  <1>3. TypeOK'
    BY <1>1, <1>2 DEF ServerCrash, TypeOK, Places
  <1>4. Route' /\ AnsweredBefore'
    BY <1>1, IntakeAssumption DEF ServerCrash, Route, AnsweredBefore, Replied, Charges, InProgress
  <1>5. ASSUME NEW s \in Charges PROVE Traced(s)'
    <2>1. Traced(s) /\ s \in Requests
      BY IntakeAssumption DEF IntakeInv
    <2>2. QED
      BY <1>1, <2>1 DEF ServerCrash, Traced, IsAccepted, Known
  <1>6. ASSUME NEW s \in Tmall \cup Zkcl PROVE StoppedEarly(s)'
    <2>1. StoppedEarly(s) /\ s \in Requests
      BY IntakeAssumption DEF IntakeInv, Charges
    <2>2. Accepted' = Accepted
      BY <1>1, IntakeAssumption DEF ServerCrash, Accepted
    <2>3. QED
      BY <1>1, <2>1, <2>2 DEF ServerCrash, StoppedEarly, Duplicate
  <1>7. QED
    BY <1>3, <1>4, <1>5, <1>6 DEF IntakeInv

LEMMA FaultsInv ==
    ASSUME IntakeInv, faults' \in 0..MaxFaults, faulted' = faulted,
           pc' = pc, response' = response, cached' = cached, inError' = inError, rows' = rows,
           queued' = queued, before' = before, expired' = expired
    PROVE  IntakeInv'
  BY DEF IntakeInv, TypeOK, Route, AnsweredBefore, Replied, Traced, IsAccepted, Known, StoppedEarly,
         Duplicate, Accepted

LEMMA IntakeInvStep == IntakeInv /\ [Next]_vars => IntakeInv'
  <1> SUFFICES ASSUME IntakeInv, [Next]_vars PROVE IntakeInv'
    OBVIOUS
  <1>1. CASE UNCHANGED vars
    BY <1>1, FaultsInv DEF vars, IntakeInv, TypeOK
  <1>2. QED
    BY <1>1, HandleInv, ExpireInv, CrashInv DEF Next

LEMMA IntakeInvImplies ==
    IntakeInv => LaterDuplicateRefused /\ RefusedHasNoRow /\ AcceptedIsComplete
  <1> SUFFICES ASSUME IntakeInv
               PROVE  LaterDuplicateRefused /\ RefusedHasNoRow /\ AcceptedIsComplete
    OBVIOUS
  <1>1. LaterDuplicateRefused
    BY DEF IntakeInv, StoppedEarly, Duplicate, LaterDuplicateRefused
  <1>2. RefusedHasNoRow
    BY DEF IntakeInv, TypeOK, Traced, IsAccepted, RefusedHasNoRow, Refused
  <1>3. AcceptedIsComplete
    BY DEF IntakeInv, Traced, IsAccepted, Known, AcceptedIsComplete, Accepted
  <1>4. QED
    BY <1>1, <1>2, <1>3

(* A charge that came in after an order with its number was accepted is    *)
(* never queued, for any number of concurrent calls.                       *)
THEOREM DuplicatesCorrect == Spec => []LaterDuplicateRefused
  BY InitIntake, IntakeInvStep, IntakeInvImplies, PTL DEF Spec

(* A refused call leaves no row.                                           *)
THEOREM RefusalCorrect == Spec => []RefusedHasNoRow
  BY InitIntake, IntakeInvStep, IntakeInvImplies, PTL DEF Spec

(* An accepted call has its row, its place in the list and its number in   *)
(* the cache.                                                              *)
THEOREM AcceptanceCorrect == Spec => []AcceptedIsComplete
  BY InitIntake, IntakeInvStep, IntakeInvImplies, PTL DEF Spec

(***************************************************************************)
(* What a buyer reads from a front is what became of his order, and no     *)
(* front keeps a connection: for any fronts, calls, numbers and faults.    *)
(* The thrift server's invariant IntakeInv goes on holding behind them.    *)
(***************************************************************************)

(* A front serves a request that nobody has answered, over no connection   *)
(* but that request's, and none when it serves nobody.                     *)
FrontOK(f) ==
    /\ front[f] \in {"accept", "down"} => serving[f] = Nobody /\ open[f] = {}
    /\ front[f] \in {"opened", "waiting"} =>
          serving[f] \in Requests /\ open[f] \subseteq {serving[f]} /\ heard[serving[f]] = "none"
    /\ front[f] = "opened" => serving[f] \notin sent

(* Replies and answers are those of the server's handler; an error of the  *)
(* front is for a call that never left or came back empty.                 *)
RequestOK(r) ==
    /\ r \notin sent => pc[r] = "new"
    /\ \A reply \in wire[r] : pc[r] = "replied" /\ reply = response[r]
    /\ heard[r] \notin {"none", "error"} => pc[r] = "replied" /\ heard[r] = response[r]
    /\ heard[r] = "error" => r \notin sent \/ (pc[r] = "replied" /\ response[r] = "none")

OneFrontEach == \A f, g \in Fronts : serving[f] = serving[g] /\ f # g => serving[f] = Nobody

FrontsInv ==
    /\ IntakeInv /\ FrontsTypeOK /\ OneFrontEach
    /\ \A f \in Fronts : FrontOK(f)
    /\ \A r \in Requests : RequestOK(r)

LEMMA InitFronts == FrontsInit => FrontsInv
  BY InitIntake, FrontAssumption
     DEF FrontsInit, Init, FrontsInv, IntakeInv, FrontsTypeOK, FrontOK, RequestOK, OneFrontEach,
         Answers, Responses

(* The steps of a front change nothing of the server but the count of      *)
(* faults.                                                                 *)
LEMMA CallsKept ==
    ASSUME IntakeInv, UNCHANGED callVars, NoFault \/ Fault({})
    PROVE  IntakeInv' /\ pc' = pc /\ response' = response
  <1>1. /\ pc' = pc /\ response' = response /\ cached' = cached /\ inError' = inError
        /\ rows' = rows /\ queued' = queued /\ before' = before /\ expired' = expired
    BY DEF callVars
  <1>2. faults \in 0..MaxFaults /\ MaxFaults \in Nat
    BY IntakeAssumption DEF IntakeInv, TypeOK
  <1>3. faults' \in 0..MaxFaults /\ faulted' = faulted
    BY <1>2 DEF NoFault, Fault
  <1>4. QED
    BY <1>1, <1>3, FaultsInv

LEMMA VarsKept ==
    ASSUME IntakeInv, UNCHANGED vars PROVE IntakeInv' /\ pc' = pc /\ response' = response
  BY CallsKept DEF vars, callVars, NoFault

(* The front closes what it had open, and replies may go from the wire.    *)
Closed(f) ==
    /\ open' \in [Fronts -> SUBSET Requests] /\ open'[f] = {}
    /\ \A g \in Fronts \ {f} : open'[g] = open[g]
    /\ wire' \in [Requests -> SUBSET Responses]
    /\ \A s \in Requests : wire'[s] \subseteq wire[s]

(* The front f answers the request r it serves, or that nobody serves, as  *)
(* the server did or, where there is nothing to contradict it, an error.   *)
LEMMA AnswerInv ==
    ASSUME FrontsInv, IntakeInv', pc' = pc, response' = response, sent' = sent,
           NEW f \in Fronts, NEW r \in Requests, NEW answer \in Answers \ {"none"},
           Answer(f, r, answer),
           Closed(f), \A g \in Fronts : serving[g] = r => g = f,
           answer # "error" => pc[r] = "replied" /\ answer = response[r],
           answer = "error" => r \notin sent \/ (pc[r] = "replied" /\ response[r] = "none")
    PROVE  FrontsInv'
  <1>1. /\ FrontsTypeOK /\ OneFrontEach /\ TypeOK'
        /\ \A g \in Fronts : FrontOK(g)
        /\ \A s \in Requests : RequestOK(s)
    BY DEF FrontsInv, IntakeInv
  <1>2. /\ front' = [front EXCEPT ![f] = "accept"] /\ serving' = [serving EXCEPT ![f] = Nobody]
        /\ heard' = [heard EXCEPT ![r] = answer]
    BY DEF Answer
  <1>3. /\ open' \in [Fronts -> SUBSET Requests] /\ open'[f] = {}
        /\ \A g \in Fronts \ {f} : open'[g] = open[g]
        /\ wire' \in [Requests -> SUBSET Responses]
        /\ \A s \in Requests : wire'[s] \subseteq wire[s]
    BY DEF Closed
  <1>4. FrontsTypeOK'
    <2>1. /\ front' \in [Fronts -> {"accept", "opened", "waiting", "down"}]
          /\ serving' \in [Fronts -> Requests \cup {Nobody}] /\ heard' \in [Requests -> Answers]
          /\ sent' \subseteq Requests
      BY <1>1, <1>2 DEF FrontsTypeOK
    <2>2. QED
      BY <1>1, <1>3, <2>1 DEF FrontsTypeOK
  <1>5. OneFrontEach'
    BY <1>1, <1>2 DEF OneFrontEach, FrontsTypeOK
  <1>6. ASSUME NEW g \in Fronts PROVE FrontOK(g)'
    <2>1. CASE g = f
      BY <1>1, <1>2, <1>3, <2>1 DEF FrontOK, FrontsTypeOK
    <2>2. CASE g # f
      <3>1. FrontOK(g) /\ front'[g] = front[g] /\ serving'[g] = serving[g] /\ open'[g] = open[g]
            /\ serving[g] # r
        BY <1>1, <1>2, <1>3, <2>2 DEF FrontsTypeOK
      <3>2. QED
        BY <1>1, <1>2, <3>1 DEF FrontOK, FrontsTypeOK
    <2>3. QED
      BY <2>1, <2>2
  <1>7. ASSUME NEW s \in Requests PROVE RequestOK(s)'
    <2>1. /\ RequestOK(s) /\ wire'[s] \subseteq wire[s]
          /\ (s = r /\ heard'[s] = answer) \/ (s # r /\ heard'[s] = heard[s])
      BY <1>1, <1>2, <1>3 DEF FrontsTypeOK
    <2>2. QED
      BY <2>1 DEF RequestOK
  <1>8. QED
    BY <1>4, <1>5, <1>6, <1>7 DEF FrontsInv

LEMMA RejectInv ==
    ASSUME FrontsInv, NEW f \in Fronts, NEW r \in Requests, RejectForm(f, r)
    PROVE  FrontsInv'
  <1>1. IntakeInv' /\ pc' = pc /\ response' = response
    BY VarsKept DEF FrontsInv, RejectForm
  <1>2. /\ front[f] = "accept" /\ r \notin sent /\ FrontOK(f)
        /\ \A g \in Fronts : serving[g] # r
    BY DEF FrontsInv, RejectForm, CanAccept
  <1>3. Closed(f)
    BY <1>2 DEF FrontOK, FrontsInv, FrontsTypeOK, Closed, RejectForm
  <1>4. QED
    BY <1>1, <1>2, <1>3, AnswerInv DEF RejectForm, Answers

LEMMA NoChecksumInv ==
    ASSUME FrontsInv, NEW f \in Fronts, NoChecksum(f) PROVE FrontsInv'
  <1>1. IntakeInv' /\ pc' = pc /\ response' = response
    BY CallsKept DEF FrontsInv, NoChecksum
  <1>2. FrontOK(f) /\ front[f] = "opened" /\ OneFrontEach
    BY DEF FrontsInv, NoChecksum
  <1>3. /\ serving[f] \in Requests /\ serving[f] \notin sent /\ open[f] \subseteq {serving[f]}
        /\ \A g \in Fronts : serving[g] = serving[f] => g = f
    BY <1>2, FrontAssumption DEF FrontOK, OneFrontEach
  <1>4. Closed(f)
    BY <1>3 DEF FrontsInv, FrontsTypeOK, Closed, NoChecksum, CloseProtocol
  <1>5. QED
    BY <1>1, <1>3, <1>4, AnswerInv DEF NoChecksum, Answers

LEMMA ReadReplyInv ==
    ASSUME FrontsInv, NEW f \in Fronts, ReadReply(f) PROVE FrontsInv'
  <1>1. IntakeInv' /\ pc' = pc /\ response' = response
    BY VarsKept DEF FrontsInv, ReadReply
  <1>2. FrontOK(f) /\ front[f] = "waiting" /\ OneFrontEach /\ FrontsTypeOK
    BY DEF FrontsInv, ReadReply
  <1>3. /\ serving[f] \in Requests /\ open[f] \subseteq {serving[f]}
        /\ \A g \in Fronts : serving[g] = serving[f] => g = f
    BY <1>2, FrontAssumption DEF FrontOK, OneFrontEach
  <1>4. PICK r \in Requests : r = serving[f]
    BY <1>3
  <1>5. PICK reply \in wire[r] : Answer(f, r, IF reply = "none" THEN "error" ELSE reply)
    BY <1>4 DEF ReadReply
  <1>6. pc[r] = "replied" /\ reply = response[r] /\ reply \in Responses
    BY <1>2, <1>5 DEF FrontsInv, RequestOK, FrontsTypeOK
  <1>7. PICK answer \in Answers \ {"none"} : answer = IF reply = "none" THEN "error" ELSE reply
    BY <1>6 DEF Answers
  <1>8. Closed(f) /\ sent' = sent /\ \A g \in Fronts : serving[g] = r => g = f
    BY <1>2, <1>3, <1>4 DEF ReadReply, CloseProtocol, Closed, FrontsTypeOK
  <1>9. /\ Answer(f, r, answer)
        /\ answer # "error" => pc[r] = "replied" /\ answer = response[r]
        /\ answer = "error" => r \notin sent \/ (pc[r] = "replied" /\ response[r] = "none")
    BY <1>5, <1>6, <1>7 DEF Responses
  <1>10. QED
    BY <1>1, <1>8, <1>9, AnswerInv

LEMMA AcceptInv ==
    ASSUME FrontsInv, NEW f \in Fronts, NEW r \in Requests, Accept(f, r) PROVE FrontsInv'
  <1>1. IntakeInv' /\ pc' = pc /\ response' = response /\ TypeOK'
    BY CallsKept DEF FrontsInv, Accept, IntakeInv
  <1>2. /\ front[f] = "accept" /\ r \notin sent /\ heard[r] = "none"
        /\ \A g \in Fronts : serving[g] # r
        /\ front' = [front EXCEPT ![f] = "opened"] /\ serving' = [serving EXCEPT ![f] = r]
        /\ sent' = sent /\ wire' = wire /\ heard' = heard
    BY DEF Accept, CanAccept
  <1>3. /\ FrontsTypeOK /\ OneFrontEach
        /\ \A g \in Fronts : FrontOK(g)
        /\ \A s \in Requests : RequestOK(s)
    BY DEF FrontsInv
  <1>4. /\ open' \in [Fronts -> SUBSET Requests] /\ open'[f] \subseteq {r}
        /\ \A g \in Fronts \ {f} : open'[g] = open[g]
    BY <1>2, <1>3 DEF Accept, OpenProtocol, FrontsTypeOK, FrontOK
  <1>5. FrontsTypeOK' /\ OneFrontEach'
    BY <1>1, <1>2, <1>3, <1>4 DEF FrontsTypeOK, OneFrontEach
  <1>6. \A g \in Fronts : FrontOK(g)'
    BY <1>2, <1>3, <1>4 DEF FrontsTypeOK, FrontOK
  <1>7. \A s \in Requests : RequestOK(s)'
    BY <1>1, <1>2, <1>3 DEF RequestOK
  <1>8. QED
    BY <1>1, <1>5, <1>6, <1>7 DEF FrontsInv

LEMMA CallInv ==
    ASSUME FrontsInv, NEW f \in Fronts, Call(f) PROVE FrontsInv'
  <1>1. IntakeInv' /\ pc' = pc /\ response' = response /\ TypeOK'
    BY VarsKept DEF FrontsInv, Call, IntakeInv
  <1>2. /\ front[f] = "opened" /\ front' = [front EXCEPT ![f] = "waiting"]
        /\ sent' = sent \cup {serving[f]}
        /\ serving' = serving /\ open' = open /\ wire' = wire /\ heard' = heard
    BY DEF Call
  <1>3. /\ FrontsTypeOK /\ OneFrontEach
        /\ \A g \in Fronts : FrontOK(g)
        /\ \A s \in Requests : RequestOK(s)
    BY DEF FrontsInv
  <1>4. /\ serving[f] \in Requests /\ heard[serving[f]] = "none"
        /\ \A g \in Fronts : serving[g] = serving[f] => g = f
    BY <1>2, <1>3, FrontAssumption DEF FrontOK, OneFrontEach
  <1>5. FrontsTypeOK' /\ OneFrontEach'
    BY <1>1, <1>2, <1>3, <1>4 DEF FrontsTypeOK, OneFrontEach
  <1>6. \A g \in Fronts : FrontOK(g)'
    BY <1>2, <1>3, <1>4 DEF FrontsTypeOK, FrontOK
  <1>7. \A s \in Requests : RequestOK(s)'
    BY <1>1, <1>2, <1>3, <1>4 DEF RequestOK
  <1>8. QED
    BY <1>1, <1>5, <1>6, <1>7 DEF FrontsInv

LEMMA ThrowsInv ==
    ASSUME FrontsInv, NEW f \in Fronts, Throws(f) PROVE FrontsInv'
  <1>1. IntakeInv' /\ pc' = pc /\ response' = response /\ TypeOK'
    BY CallsKept DEF FrontsInv, Throws, IntakeInv
  <1>2. /\ front[f] \in {"opened", "waiting"} /\ front' = [front EXCEPT ![f] = "down"]
        /\ serving' = [serving EXCEPT ![f] = Nobody] /\ open' = [open EXCEPT ![f] = {}]
        /\ wire' = [wire EXCEPT ![serving[f]] = {}] /\ sent' = sent /\ heard' = heard
    BY DEF Throws, FrontDies
  <1>3. /\ FrontsTypeOK /\ OneFrontEach
        /\ \A g \in Fronts : FrontOK(g)
        /\ \A s \in Requests : RequestOK(s)
    BY DEF FrontsInv
  <1>4. FrontsTypeOK' /\ OneFrontEach'
    BY <1>1, <1>2, <1>3 DEF FrontsTypeOK, OneFrontEach
  <1>5. \A g \in Fronts : FrontOK(g)'
    BY <1>2, <1>3 DEF FrontsTypeOK, FrontOK
  <1>6. ASSUME NEW s \in Requests PROVE RequestOK(s)'
    <2>1. wire'[s] \subseteq wire[s]
      BY <1>2, <1>3 DEF FrontsTypeOK
    <2>2. QED
      BY <1>1, <1>2, <1>3, <2>1 DEF RequestOK
  <1>7. QED
    BY <1>1, <1>4, <1>5, <1>6 DEF FrontsInv

LEMMA StartFrontInv ==
    ASSUME FrontsInv, NEW f \in Fronts, StartFront(f) PROVE FrontsInv'
  <1>1. IntakeInv' /\ pc' = pc /\ response' = response /\ TypeOK'
    BY VarsKept DEF FrontsInv, StartFront, IntakeInv
  <1>2. QED
    BY <1>1 DEF FrontsInv, StartFront, FrontsTypeOK, OneFrontEach, FrontOK, RequestOK

(* A handler's step: an answer, once given, stays, and its reply is the    *)
(* first on the wire.                                                      *)
LEMMA ServeInv ==
    ASSUME FrontsInv, NEW r \in Requests, Serve(r) PROVE FrontsInv'
  <1>1. IntakeInv' /\ TypeOK' /\ Alone(r)
    BY HandleInv, HandleAlone DEF FrontsInv, IntakeInv, Serve
  <1>2. /\ front' = front /\ serving' = serving /\ open' = open /\ sent' = sent /\ heard' = heard
        /\ r \in sent
        /\ wire' = wire \/ (pc'[r] = "replied" /\ wire' = [wire EXCEPT ![r] = {response'[r]}])
    BY DEF Serve
  <1>3. /\ FrontsTypeOK /\ OneFrontEach
        /\ \A g \in Fronts : FrontOK(g)
        /\ \A s \in Requests : RequestOK(s)
    BY DEF FrontsInv
  <1>4. FrontsTypeOK'
    BY <1>1, <1>2, <1>3 DEF FrontsTypeOK, TypeOK
  <1>5. OneFrontEach' /\ \A g \in Fronts : FrontOK(g)'
    BY <1>2, <1>3 DEF OneFrontEach, FrontOK
  <1>6. ASSUME NEW s \in Requests PROVE RequestOK(s)'
    <2>1. CASE s = r
      <3>1. RequestOK(r) /\ pc[r] # "replied"
        BY <1>1, <1>3 DEF Alone
      <3>2. wire[r] = {} /\ heard[r] = "none"
        BY <1>2, <3>1 DEF RequestOK
      <3>3. wire'[r] = {} \/ (pc'[r] = "replied" /\ wire'[r] = {response'[r]})
        BY <1>2, <1>3, <3>2 DEF FrontsTypeOK
      <3>4. QED
        BY <1>2, <2>1, <3>2, <3>3 DEF RequestOK
    <2>2. CASE s # r
      <3>1. pc'[s] = pc[s] /\ response'[s] = response[s] /\ wire'[s] = wire[s]
        BY <1>1, <1>2, <1>3, <2>2 DEF Alone, FrontsTypeOK
      <3>2. QED
        BY <1>2, <1>3, <3>1 DEF RequestOK
    <2>3. QED
      BY <2>1, <2>2
  <1>7. QED
    BY <1>1, <1>4, <1>5, <1>6 DEF FrontsInv

LEMMA ServerDiesInv ==
    ASSUME FrontsInv, ServerDies PROVE FrontsInv'
  <1>1. IntakeInv' /\ TypeOK'
    BY CrashInv DEF FrontsInv, IntakeInv, ServerDies
  <1>2. /\ front' = front /\ serving' = serving /\ wire' = wire /\ heard' = heard
        /\ open' = [f \in Fronts |-> {}] /\ sent' = {r \in sent : pc[r] # "new"}
        /\ response' = response
    BY DEF ServerDies, ServerCrash
  <1>3. /\ FrontsTypeOK /\ OneFrontEach
        /\ \A g \in Fronts : FrontOK(g)
        /\ \A s \in Requests : RequestOK(s)
    BY DEF FrontsInv
  <1>4. \A s \in Requests :
           /\ pc[s] = "new" => pc'[s] = "new"
           /\ pc[s] = "replied" => pc'[s] = "replied"
    BY DEF ServerDies, ServerCrash, InProgress
  <1>5. FrontsTypeOK' /\ OneFrontEach'
    BY <1>1, <1>2, <1>3 DEF FrontsTypeOK, OneFrontEach
  <1>6. \A g \in Fronts : FrontOK(g)'
    BY <1>2, <1>3 DEF FrontOK
  <1>7. \A s \in Requests : RequestOK(s)'
    BY <1>2, <1>3, <1>4 DEF RequestOK
  <1>8. QED
    BY <1>1, <1>5, <1>6, <1>7 DEF FrontsInv

LEMMA CacheExpiresInv ==
    ASSUME FrontsInv, CacheExpires PROVE FrontsInv'
  <1>1. IntakeInv' /\ TypeOK'
    BY ExpireInv DEF FrontsInv, IntakeInv, CacheExpires
  <1>2. /\ front' = front /\ serving' = serving /\ wire' = wire /\ heard' = heard
        /\ open' = open /\ sent' = sent /\ pc' = pc /\ response' = response
    BY DEF CacheExpires, Expire, frontVars
  <1>3. QED
    BY <1>1, <1>2 DEF FrontsInv, FrontsTypeOK, OneFrontEach, FrontOK, RequestOK

LEMMA FrontsInvStep == FrontsInv /\ [FrontsNext]_<<vars, frontVars>> => FrontsInv'
  <1> SUFFICES ASSUME FrontsInv, [FrontsNext]_<<vars, frontVars>> PROVE FrontsInv'
    OBVIOUS
  <1>1. CASE UNCHANGED <<vars, frontVars>>
    <2>1. IntakeInv' /\ TypeOK'
      BY <1>1, VarsKept DEF FrontsInv, IntakeInv
    <2>2. QED
      BY <1>1, <2>1 DEF vars, frontVars, FrontsInv, FrontsTypeOK, OneFrontEach, FrontOK, RequestOK
  <1>2. QED
    BY <1>1, RejectInv, AcceptInv, NoChecksumInv, CallInv, ReadReplyInv, ThrowsInv, StartFrontInv,
       ServeInv, ServerDiesInv, CacheExpiresInv DEF FrontsNext

LEMMA FrontsInvImplies ==
    FrontsInv => /\ FrontsTypeOK /\ AnswerIsTrue /\ ConnectionsClosed
                 /\ LaterDuplicateRefused /\ RefusedHasNoRow /\ AcceptedIsComplete
  <1> SUFFICES ASSUME FrontsInv
               PROVE  /\ FrontsTypeOK /\ AnswerIsTrue /\ ConnectionsClosed
                      /\ LaterDuplicateRefused /\ RefusedHasNoRow /\ AcceptedIsComplete
    OBVIOUS
  <1>1. LaterDuplicateRefused /\ RefusedHasNoRow /\ AcceptedIsComplete
    BY IntakeInvImplies DEF FrontsInv
  <1>2. ConnectionsClosed
    BY DEF FrontsInv, FrontOK, ConnectionsClosed
  <1>3. AnswerIsTrue
    <2> SUFFICES ASSUME NEW r \in Charges \ faulted
                 PROVE  /\ heard[r] = "UNDERWAY" => r \in rows /\ r \in queued
                        /\ heard[r] \in {"ORDER_FAILED", "error"} => r \notin rows /\ r \notin queued
      BY DEF AnswerIsTrue
    <2>1. RequestOK(r) /\ Traced(r)
      BY IntakeAssumption DEF FrontsInv, IntakeInv
    <2>2. QED
      BY <2>1 DEF RequestOK, Traced, IsAccepted
  <1>4. QED
    BY <1>1, <1>2, <1>3 DEF FrontsInv

(* Every variable of the fronts and the server keeps its type.             *)
THEOREM FrontsTypeCorrect == FrontsSpec => []FrontsTypeOK
  BY InitFronts, FrontsInvStep, FrontsInvImplies, PTL DEF FrontsSpec

(* A buyer's answer is true, whatever processes end and replies are late.  *)
THEOREM BuyersAnswerCorrect == FrontsSpec => []AnswerIsTrue
  BY InitFronts, FrontsInvStep, FrontsInvImplies, PTL DEF FrontsSpec

(* A front that waits for a request has no connection open.                *)
THEOREM ConnectionsCorrect == FrontsSpec => []ConnectionsClosed
  BY InitFronts, FrontsInvStep, FrontsInvImplies, PTL DEF FrontsSpec

(* Behind the fronts the server keeps what it promises: later duplicates   *)
(* are refused, refusals leave no row, acceptances are complete.           *)
THEOREM FrontedIntakeCorrect ==
    FrontsSpec => [](LaterDuplicateRefused /\ RefusedHasNoRow /\ AcceptedIsComplete)
  BY InitFronts, FrontsInvStep, FrontsInvImplies, PTL DEF FrontsSpec
=============================================================================
