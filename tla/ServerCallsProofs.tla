------------------------- MODULE ServerCallsProofs -------------------------
(***************************************************************************)
(* What the concurrent calls of the server keep of the counter, the map of *)
(* areas, the users and the log, for any calls, requests, areas and users. *)
(***************************************************************************)
EXTENDS ServerCalls, FiniteSetTheorems, TLAPS

Charging == {"arrived", "counting", "reading", "check", "found", "missing", "insert"}
Verifying == {"select", "update"}

(* A call that has begun carries a request its place is made for.          *)
Routed ==
    \A c \in Calls :
        /\ pc[c] \in Charging => request[c] \in Charges \cup ZkclCharges
        /\ pc[c] \in Verifying => request[c] \in Verifications
        /\ pc[c] \in {"connect", "recover"} => request[c] \in Requests
        /\ pc[c] = "dead" => request[c] = NoRequest

(* There is no answer before the check's or the statement's, and no text   *)
(* in the log before there is a connection.                                *)
Unanswered ==
    \A c \in Calls :
        /\ pc[c] \in Charging \cup Verifying \cup {"new", "connect"} => answer[c] = NoAnswer
        /\ pc[c] = "new" => logged[c] = 0

(* Calls that have counted, perhaps before the server was last started.    *)
Past == {c \in Calls : pc[c] \notin {"new", "arrived", "counting"}}

(* seq_id has moved n times since the server was last started, at most     *)
(* once for each call, and every number given out is one it has shown      *)
(* since; the last is still to be read while somebody has the mutex for    *)
(* it.                                                                     *)
SeqCounted(n) ==
    /\ n <= Cardinality(Past)
    /\ seq_id = n % SeqSize
    /\ \A d \in Calls : pc[d] = "reading" => n > 0
    /\ \A c \in Numbered :
          \E k \in 1..n :
             /\ seqid[c] = k % SeqSize
             /\ k = n => \A d \in Calls : pc[d] # "reading"

MutexHeld == \A c \in Calls : pc[c] \in {"counting", "reading"} => seq_lock = c

SeqIdsOK == MutexHeld /\ (\E n \in Nat : SeqCounted(n)) /\ SeqIdsDiffer

(* An entry is the area's, or was filled from an answer that was no JSON;  *)
(* so is what a call is about to insert; an entry that was found is there. *)
TscTrue ==
    /\ \A a \in Areas :
          \/ tsc_map[a] \in {Absent, Pack(TrueArea(a))}
          \/ tsc_map[a] = Pack(Unset) /\ a \in unreadable
    /\ \A c \in Calls :
          LET a == request[c].area
          IN  /\ pc[c] = "insert" =>
                    \/ found[c] = TrueArea(a)
                    \/ found[c] = Unset /\ a \in unreadable
              /\ pc[c] = "found" => tsc_map[a] # Absent

TscOK == TscTrue /\ AcceptedMatches /\ RefusedMatching

(* A call has a row only between its UPDATE and its end.  One that came in *)
(* after its user was verified finds him so, and never gets to the UPDATE. *)
RowsHeld ==
    \A u \in Users, c \in Calls :
        row_lock[u] = c => pc[c] = "recover" /\ request[c].kind = "verify" /\ request[c].user = u

LateStopped ==
    \A c \in late :
        /\ pc[c] \in {"connect", "select"} =>
              /\ request[c].kind = "verify"
              /\ request[c].user \in Registered
              /\ open_id[request[c].user] # NoSender
        /\ pc[c] \in {"connect", "select", "recover", "done", "dead"}

UsersOK == RowsHeld /\ LateStopped /\ LaterVerifyRefused

(* Within the buffer the position is the length of the texts.              *)
Position(at, length) == at = length \/ (at >= MAX_LOG_LEN /\ length >= MAX_LOG_LEN)

LogOK ==
    \A c \in Calls :
        /\ c \in printed => pc[c] = "done"
        /\ pc[c] \notin {"done", "dead"} => Position(log_len[c], logged[c])

LogInv == LogOK /\ PrintedIsWhole

BaseInv == TypeOK /\ Routed /\ Unanswered

(***************************************************************************)
(* Requests and areas                                                      *)
(***************************************************************************)

LEMMA RequestFields ==
    ASSUME NEW r \in Requests
    PROVE  /\ r.kind \in {"charge", "zkcl", "verify"}
           /\ r.kind = "verify" =>
                 r \in Verifications /\ r.user \in Users /\ r.sender # NoSender
           /\ r.kind # "verify" =>
                 r \in Charges \cup ZkclCharges /\ r.area \in Areas /\ r.length \in Nat
           /\ r.kind = "charge" => r.product \in Product
           /\ r # NoRequest
  BY ServerAssumption DEF Requests, NoRequest

LEMMA VerificationFields ==
    ASSUME NEW r \in Verifications
    PROVE  r \in Requests /\ r.kind = "verify" /\ r.user \in Users /\ r.sender # NoSender
  BY ServerAssumption DEF Requests

LEMMA ChargeFields ==
    ASSUME NEW r \in Charges \cup ZkclCharges
    PROVE  r \in Requests /\ r.kind \in {"charge", "zkcl"} /\ r.area \in Areas /\ r.length \in Nat
  BY ServerAssumption DEF Requests

(* What a charge asks for and what an area is.                             *)
LEMMA AreaFields ==
    ASSUME NEW a \in Areas
    PROVE  /\ TrueArea(a) \in Product
           /\ TrueArea(a).op \in 1..3 /\ TrueArea(a).province \in 1..61
  BY ServerAssumption DEF TrueArea, Product, CMCC, TELECOM

(* A product survives the byte it is stored in; what an unreadable answer  *)
(* leaves there is no product.                                             *)
LEMMA PackProduct ==
    ASSUME NEW area \in Product
    PROVE  Pack(area) \in 0..255 /\ Unpack(Pack(area)) = area
  <1>1. PICK op \in 1..3, province \in 1..61 : area = [op |-> op, province |-> province]
    BY DEF Product, CMCC, TELECOM
  <1>2. Pack(area) = province * 4 + op
    BY <1>1 DEF Pack
  <1>3. (province * 4 + op) % 4 = op /\ (province * 4 + op) \div 4 = province
    OBVIOUS
  <1>4. Pack(area) \in 0..255
    BY <1>2
  <1>5. QED
    BY <1>1, <1>2, <1>3, <1>4 DEF Unpack

(* The remainder of a number below zero.                                   *)
LEMMA MinusFour == \A x \in Int : x + 4 = 0 => x % 256 = 252
  <1> SUFFICES ASSUME NEW x \in Int, x + 4 = 0 PROVE x % 256 = 252
    OBVIOUS
  <1>1. PICK q \in Int : x = q * 256 + 252
    BY -1 \in Int
  <1>2. QED
    BY <1>1

LEMMA PackUnset ==
    /\ Pack(Unset) = 251
    /\ Unpack(Pack(Unset)) = [op |-> 3, province |-> 62]
    /\ Unset \notin Product /\ Unpack(Pack(Unset)) \notin Product
  <1>1. Unset.op = -1 /\ Unset.province = -1
    BY DEF Unset
  <1>2. (Unset.province * 4) % 256 = 252
    <2>1. PICK x \in Int : x = Unset.province * 4
      BY <1>1
    <2>2. x + 4 = 0
      BY <1>1, <2>1
    <2>3. x % 256 = 252
      BY <2>2, MinusFour
    <2>4. QED
      BY <2>1, <2>3
  <1>3. Pack(Unset) = 251
    <2>1. Pack(Unset) = (252 + Unset.op) % 256
      BY <1>2 DEF Pack
    <2>2. 252 + Unset.op = 251
      BY <1>1
    <2>3. QED
      BY <2>1, <2>2
  <1>4. Unpack(Pack(Unset)) = [op |-> 3, province |-> 62]
    BY <1>3 DEF Unpack
  <1>5. Unset \notin Product /\ [op |-> 3, province |-> 62] \notin Product
    BY <1>1 DEF Product
  <1>6. QED
    BY <1>3, <1>4, <1>5

LEMMA LoadedTrue ==
    ASSUME NEW m \in LoadedMaps
    PROVE  /\ m \in [Areas -> {Absent} \cup 0..255]
           /\ \A a \in Areas : m[a] \in {Absent, Pack(TrueArea(a))}
  BY AreaFields, PackProduct DEF LoadedMaps

LEMMA CheckResultType ==
    ASSUME NEW c \in Calls, NEW area PROVE CheckResult(c, area) \in {0, 1}
  BY DEF CheckResult

(***************************************************************************)
(* Types                                                                   *)
(***************************************************************************)

LEMMA InitBase == Init => BaseInv
  <1> SUFFICES ASSUME Init PROVE BaseInv
    OBVIOUS
  <1>1. tsc_map \in [Areas -> {Absent} \cup 0..255]
    BY LoadedTrue DEF Init
  <1>2. QED
    BY <1>1, ServerAssumption
       DEF Init, BaseInv, TypeOK, Places, Routed, Unanswered, Charging, Verifying

LEMMA DiesBase == ASSUME BaseInv, ServerDies PROVE BaseInv'
  <1>1. tsc_map' \in [Areas -> {Absent} \cup 0..255]
    BY LoadedTrue DEF ServerDies
  <1>2. TypeOK'
    BY <1>1, ServerAssumption DEF BaseInv, TypeOK, Places, ServerDies, Serving
  <1>3. Routed' /\ Unanswered'
    BY DEF BaseInv, TypeOK, Places, Routed, Unanswered, Charging, Verifying, ServerDies, Serving
  <1>4. QED
    BY <1>2, <1>3 DEF BaseInv

LEMMA ArriveBase == ASSUME BaseInv, NEW c \in Calls, Arrive(c) PROVE BaseInv'
  <1>1. PICK r \in Requests :
           /\ request' = [request EXCEPT ![c] = r]
           /\ pc' = [pc EXCEPT ![c] = IF r.kind = "verify" THEN "connect" ELSE "arrived"]
           /\ late' \in {late, late \cup {c}}
    BY ServerAssumption DEF Arrive, Goto
  <1>2. UNCHANGED <<seqVars, tscVars, open_id, row_lock, answer, logVars, failed>>
    BY DEF Arrive
  <1>3. TypeOK'
    BY <1>1, <1>2 DEF BaseInv, TypeOK, Places, seqVars, tscVars, logVars
  <1>4. Routed' /\ Unanswered'
    BY <1>1, <1>2, RequestFields
       DEF BaseInv, TypeOK, Places, Routed, Unanswered, Charging, Verifying, Arrive, logVars
  <1>5. QED
    BY <1>3, <1>4 DEF BaseInv

LEMMA LockSeqBase == ASSUME BaseInv, NEW c \in Calls, LockSeq(c) PROVE BaseInv'
  BY ServerAssumption DEF LockSeq, Goto, seqVars, tscVars, userVars, logVars,
     BaseInv, TypeOK, Places, Routed, Unanswered, Charging, Verifying

LEMMA CountSeqBase == ASSUME BaseInv, NEW c \in Calls, CountSeq(c) PROVE BaseInv'
  BY ServerAssumption DEF CountSeq, Goto, seqVars, tscVars, userVars, logVars,
     BaseInv, TypeOK, Places, Routed, Unanswered, Charging, Verifying

LEMMA ReadSeqBase == ASSUME BaseInv, NEW c \in Calls, ReadSeq(c) PROVE BaseInv'
  <1>1. TypeOK'
    BY ServerAssumption DEF ReadSeq, Goto, tscVars, userVars, logVars, BaseInv, TypeOK, Places
  <1>2. Routed' /\ Unanswered'
    BY ChargeFields DEF ReadSeq, Goto, logVars, BaseInv, TypeOK, Places, Routed, Unanswered,
                        Charging, Verifying
  <1>3. QED
    BY <1>1, <1>2 DEF BaseInv

LEMMA CreateConnectionBase == ASSUME BaseInv, NEW c \in Calls, CreateConnection(c) PROVE BaseInv'
  BY ServerAssumption, RequestFields DEF CreateConnection, Goto, seqVars, tscVars, userVars, logVars,
     BaseInv, TypeOK, Places, Routed, Unanswered, Charging, Verifying, Log, End, Fails

LEMMA FindAreaBase == ASSUME BaseInv, NEW c \in Calls, FindArea(c) PROVE BaseInv'
  BY ServerAssumption, ChargeFields DEF FindArea, Goto, seqVars, tscVars, userVars, logVars,
     BaseInv, TypeOK, Places, Routed, Unanswered, Charging, Verifying

LEMMA ReadAreaBase == ASSUME BaseInv, NEW c \in Calls, ReadArea(c) PROVE BaseInv'
  BY ServerAssumption, CheckResultType, ChargeFields DEF ReadArea, Goto, seqVars, tscVars, userVars, logVars,
     BaseInv, TypeOK, Places, Routed, Unanswered, Charging, Verifying, Checked, Log

LEMMA LookUpAreaBase == ASSUME BaseInv, NEW c \in Calls, LookUpArea(c) PROVE BaseInv'
  BY ServerAssumption, ChargeFields, AreaFields DEF LookUpArea, Goto, seqVars, tscVars, userVars, logVars,
     BaseInv, TypeOK, Places, Routed, Unanswered, Charging, Verifying, Checked, Log, Fails

LEMMA InsertAreaBase == ASSUME BaseInv, NEW c \in Calls, InsertArea(c) PROVE BaseInv'
  BY ServerAssumption, CheckResultType, ChargeFields, PackProduct, PackUnset DEF InsertArea, Goto, seqVars, tscVars, userVars, logVars,
     BaseInv, TypeOK, Places, Routed, Unanswered, Charging, Verifying, Checked, Log, Absent

LEMMA SelectUserBase == ASSUME BaseInv, NEW c \in Calls, SelectUser(c) PROVE BaseInv'
  BY ServerAssumption, VerificationFields DEF SelectUser, Goto, seqVars, tscVars, userVars, logVars,
     BaseInv, TypeOK, Places, Routed, Unanswered, Charging, Verifying, Fails, Succeeds

LEMMA RecoverUserBase == ASSUME BaseInv, NEW c \in Calls, RecoverUser(c) PROVE BaseInv'
  BY ServerAssumption, RequestFields DEF RecoverUser, Goto, seqVars, tscVars, userVars, logVars,
     BaseInv, TypeOK, Places, Routed, Unanswered, Charging, Verifying

LEMMA RecoverChargeBase == ASSUME BaseInv, NEW c \in Calls, RecoverCharge(c) PROVE BaseInv'
  BY ServerAssumption, RequestFields DEF RecoverCharge, Goto, seqVars, tscVars, userVars, logVars,
     BaseInv, TypeOK, Places, Routed, Unanswered, Charging, Verifying, End

LEMMA AdminConnectionBase == ASSUME BaseInv, NEW c \in Calls, AdminConnection(c) PROVE BaseInv'
  <1>1. CASE ~ServerDies
    BY <1>1, ServerAssumption, RequestFields
       DEF AdminConnection, Goto, seqVars, tscVars, userVars, logVars,
           BaseInv, TypeOK, Places, Routed, Unanswered, Charging, Verifying
  <1>2. QED
    BY <1>1, DiesBase

LEMMA UpdateUserBase == ASSUME BaseInv, NEW c \in Calls, UpdateUser(c) PROVE BaseInv'
  <1>1. CASE ~ServerDies
    BY <1>1, ServerAssumption, VerificationFields
       DEF UpdateUser, Goto, Fails, Succeeds, seqVars, tscVars, userVars, logVars,
           BaseInv, TypeOK, Places, Routed, Unanswered, Charging, Verifying
  <1>2. QED
    BY <1>1, DiesBase

LEMMA StutterBase == BaseInv /\ UNCHANGED vars => BaseInv'
  BY DEF vars, seqVars, tscVars, userVars, logVars, BaseInv, TypeOK, Routed, Unanswered

(* Every step is one of a call, one of those that let the process die, or  *)
(* changes nothing.                                                        *)
CallStep(c) ==
    \/ Arrive(c) \/ LockSeq(c) \/ CountSeq(c) \/ ReadSeq(c) \/ CreateConnection(c)
    \/ FindArea(c) \/ ReadArea(c) \/ LookUpArea(c) \/ InsertArea(c) \/ RecoverCharge(c)
    \/ AdminConnection(c) \/ SelectUser(c) \/ UpdateUser(c) \/ RecoverUser(c)

LEMMA NextCalls == [Next]_vars => UNCHANGED vars \/ \E c \in Calls : CallStep(c)
  BY DEF Next, SendRequest, Admin, SetSeqId, check_tsc, CallStep

LEMMA BaseInvStep == BaseInv /\ [Next]_vars => BaseInv'
  BY NextCalls, StutterBase, ArriveBase, LockSeqBase, CountSeqBase, ReadSeqBase,
     CreateConnectionBase, FindAreaBase, ReadAreaBase, LookUpAreaBase, InsertAreaBase,
     RecoverChargeBase, AdminConnectionBase, SelectUserBase, UpdateUserBase, RecoverUserBase
     DEF CallStep

(* Every variable of the calls keeps its type: an area fits its byte, and  *)
(* a number its counter.                                                   *)
THEOREM ServerTypeCorrect == Spec => []TypeOK
  <1>1. BaseInv => TypeOK
    BY DEF BaseInv
  <1>2. QED
    BY <1>1, InitBase, BaseInvStep, PTL DEF Spec

(***************************************************************************)
(* Sequence numbers                                                        *)
(***************************************************************************)

(* Two of the first SeqSize numbers are different modulo SeqSize.          *)
LEMMA RoundDiffers ==
    ASSUME NEW m \in Nat \ {0}, NEW j \in 1..m, NEW k \in 1..m, j % m = k % m
    PROVE  j = k
  <1>1. \A i \in 1..m : i % m = IF i = m THEN 0 ELSE i
    OBVIOUS
  <1>2. QED
    BY <1>1

(* A step that gives no number leaves those that were given.               *)
SeqStill ==
    /\ seq_lock' = seq_lock /\ seq_id' = seq_id
    /\ Past \subseteq Past'
    /\ \A c \in Calls : pc'[c] \in {"counting", "reading"} => pc'[c] = pc[c]
    /\ \A c \in Numbered' : c \in Numbered /\ seqid'[c] = seqid[c]

LEMMA PastGrows ==
    ASSUME Past \subseteq Past'
    PROVE  /\ Cardinality(Past) \in Nat /\ Cardinality(Past') \in Nat
           /\ Cardinality(Past) <= Cardinality(Past')
           /\ Cardinality(Past') <= SeqSize
  <1>1. IsFiniteSet(Calls) /\ Past' \subseteq Calls
    BY ServerAssumption DEF Past
  <1>2. IsFiniteSet(Past') /\ Cardinality(Past') <= Cardinality(Calls)
    BY <1>1, FS_Subset
  <1>3. IsFiniteSet(Past) /\ Cardinality(Past) <= Cardinality(Past')
    BY <1>2, FS_Subset
  <1>4. QED
    BY <1>1, <1>2, <1>3, FS_CardinalityType, ServerAssumption

LEMMA SeqStillKeeps == ASSUME BaseInv, SeqIdsOK, SeqStill PROVE SeqIdsOK'
  <1>1. PICK n \in Nat : SeqCounted(n)
    BY DEF SeqIdsOK
  <1>2. n <= Cardinality(Past')
    BY <1>1, PastGrows DEF SeqCounted, SeqStill
  <1>3. SeqCounted(n)'
    <2>1. \A c \in Numbered' :
             \E k \in 1..n :
                /\ seqid'[c] = k % SeqSize
                /\ k = n => \A d \in Calls : pc'[d] # "reading"
      BY <1>1 DEF SeqCounted, SeqStill
    <2>2. QED
      BY <1>1, <1>2, <2>1 DEF SeqCounted, SeqStill
  <1>4. MutexHeld'
    BY DEF SeqIdsOK, MutexHeld, SeqStill
  <1>5. SeqIdsDiffer'
    BY DEF SeqIdsOK, SeqIdsDiffer, SeqStill
  <1>6. QED
    BY <1>1, <1>3, <1>4, <1>5 DEF SeqIdsOK

LEMMA OthersSeqStill ==
    ASSUME BaseInv, NEW c \in Calls, ~ServerDies,
           \/ Arrive(c) \/ CreateConnection(c) \/ AdminConnection(c)
           \/ FindArea(c) \/ ReadArea(c) \/ LookUpArea(c) \/ InsertArea(c) \/ RecoverCharge(c)
           \/ SelectUser(c) \/ UpdateUser(c) \/ RecoverUser(c)
    PROVE  SeqStill
  <1> DEFINE Places4 == {"new", "connect", "check", "found", "missing", "insert", "select",
                         "update", "recover"}
  <1>1. /\ pc \in [Calls -> Places] /\ request \in [Calls -> Requests \cup {NoRequest}]
        /\ seqid \in [Calls -> 0..SeqSize - 1]
    BY DEF BaseInv, TypeOK
  <1>2. CASE Arrive(c)
    <2>1. PICK r \in Requests :
             /\ request' = [request EXCEPT ![c] = r]
             /\ pc' = [pc EXCEPT ![c] = IF r.kind = "verify" THEN "connect" ELSE "arrived"]
      BY <1>2, ServerAssumption DEF Arrive, Goto
    <2>2. pc[c] = "new" /\ seq_lock' = seq_lock /\ seq_id' = seq_id /\ seqid' = seqid
      BY <1>2 DEF Arrive, seqVars
    <2>3. QED
      BY <1>1, <2>1, <2>2 DEF SeqStill, Past, Numbered, Serving
  <1>3. CASE ~Arrive(c)
    <2>1. /\ seq_lock' = seq_lock /\ seq_id' = seq_id /\ request' = request
          /\ \A d \in Calls \ {c} : pc'[d] = pc[d] /\ seqid'[d] = seqid[d]
          /\ pc[c] \in Places4
      BY <1>1, <1>3 DEF CreateConnection, AdminConnection, FindArea, ReadArea, LookUpArea,
         InsertArea, RecoverCharge, SelectUser, UpdateUser, RecoverUser, Goto, End, Checked, seqVars
    <2>2. /\ pc'[c] \in Places4 \cup {"done"}
          /\ pc'[c] # "done" => seqid'[c] = seqid[c]
          /\ pc[c] # "new" /\ pc'[c] # "new"
      BY <1>1, <1>3 DEF CreateConnection, AdminConnection, FindArea, ReadArea, LookUpArea,
         InsertArea, RecoverCharge, SelectUser, UpdateUser, RecoverUser, Goto, End, Checked, seqVars
    <2>3. QED
      BY <1>1, <2>1, <2>2 DEF SeqStill, Past, Numbered, Serving
  <1>4. QED
    BY <1>2, <1>3

LEMMA DiesSeqIds == ASSUME BaseInv, ServerDies PROVE SeqIdsOK'
  <1>1. \A c \in Calls : pc'[c] \in {"new", "done", "dead"}
    BY DEF ServerDies, Serving, BaseInv, TypeOK
  <1>2. Numbered' = {}
    BY <1>1 DEF Numbered, Serving
  <1>3. 0 <= Cardinality(Past')
    BY PastGrows, <1>1 DEF Past, ServerDies, Serving, BaseInv, TypeOK
  <1>4. seq_id' = 0 /\ 0 % SeqSize = 0
    BY ServerAssumption DEF ServerDies
  <1>5. SeqCounted(0)'
    BY <1>1, <1>2, <1>3, <1>4 DEF SeqCounted
  <1>6. QED
    BY <1>1, <1>2, <1>5 DEF SeqIdsOK, MutexHeld, SeqIdsDiffer

LEMMA LockSeqIds == ASSUME BaseInv, SeqIdsOK, NEW c \in Calls, LockSeq(c) PROVE SeqIdsOK'
  <1>1. pc \in [Calls -> Places]
    BY DEF BaseInv, TypeOK
  <1>2. /\ pc[c] = "arrived" /\ pc' = [pc EXCEPT ![c] = "counting"]
        /\ seq_lock = NoCall /\ seq_lock' = c
        /\ seq_id' = seq_id /\ seqid' = seqid /\ request' = request
    BY DEF LockSeq, Goto
  <1>3. \A d \in Calls : pc[d] \notin {"counting", "reading"}
    BY <1>2, ServerAssumption DEF SeqIdsOK, MutexHeld
  <1>4. Past' = Past /\ Numbered' = Numbered
    BY <1>1, <1>2 DEF Past, Numbered, Serving
  <1>5. ASSUME NEW n \in Nat, SeqCounted(n) PROVE SeqCounted(n)'
    BY <1>1, <1>2, <1>3, <1>4, <1>5 DEF SeqCounted
  <1>6. MutexHeld' /\ SeqIdsDiffer'
    BY <1>1, <1>2, <1>3, <1>4 DEF MutexHeld, SeqIdsDiffer, SeqIdsOK
  <1>7. QED
    BY <1>5, <1>6 DEF SeqIdsOK

LEMMA Remainder ==
    ASSUME NEW q \in Int, NEW m \in Nat, m > 0, NEW i \in 0..(m - 1), NEW x, x = q * m + i
    PROVE  x % m = i
  OBVIOUS

LEMMA Successor ==
    ASSUME NEW m \in Nat \ {0}, NEW n \in Nat PROVE ((n % m) + 1) % m = (n + 1) % m
  <1>1. PICK q \in Int, i \in 0..(m - 1) : n = q * m + i /\ i = n % m
    <2>1. PICK q \in Int, i \in 0..(m - 1) : q = n \div m /\ i = n % m
      OBVIOUS
    <2>2. n = q * m + i
      BY <2>1
    <2>3. QED
      BY <2>1, <2>2
  <1>2. CASE i + 1 < m
    <2>1. i + 1 \in 0..(m - 1) /\ n + 1 = q * m + (i + 1)
      BY <1>1, <1>2
    <2>2. (n + 1) % m = i + 1 /\ (i + 1) % m = i + 1
      BY <2>1, Remainder
    <2>3. QED
      BY <1>1, <2>2
  <1>3. CASE i + 1 = m
    <2>1. PICK p \in Int : p = q + 1
      OBVIOUS
    <2>2. p * m = q * m + m
      BY <2>1
    <2>3. n + 1 = p * m
      BY <1>1, <1>3, <2>2
    <2>4. (n + 1) % m = 0 /\ (i + 1) % m = 0
      <3>1. (p * m) % m = 0 /\ m % m = 0
        OBVIOUS
      <3>2. QED
        BY <1>3, <2>3, <3>1
    <2>5. QED
      BY <1>1, <2>4
  <1>4. QED
    BY <1>1, <1>2, <1>3

LEMMA CountSeqIds == ASSUME BaseInv, SeqIdsOK, NEW c \in Calls, CountSeq(c) PROVE SeqIdsOK'
  <1>1. pc \in [Calls -> Places]
    BY DEF BaseInv, TypeOK
  <1>2. /\ pc[c] = "counting" /\ pc' = [pc EXCEPT ![c] = "reading"]
        /\ seq_id' = (seq_id + 1) % SeqSize
        /\ seq_lock' = seq_lock /\ seqid' = seqid /\ request' = request
    BY DEF CountSeq, Goto
  <1>3. seq_lock = c /\ \A d \in Calls \ {c} : pc[d] \notin {"counting", "reading"}
    BY <1>2 DEF SeqIdsOK, MutexHeld
  <1>4. Past' = Past \cup {c} /\ c \notin Past /\ Numbered' = Numbered
    BY <1>1, <1>2 DEF Past, Numbered, Serving
  <1>5. IsFiniteSet(Past)
    BY ServerAssumption, FS_Subset DEF Past
  <1>6. Cardinality(Past) \in Nat /\ Cardinality(Past') = Cardinality(Past) + 1
    BY <1>4, <1>5, FS_AddElement, FS_CardinalityType
  <1>7. PICK n \in Nat : SeqCounted(n)
    BY DEF SeqIdsOK
  <1>8. SeqCounted(n + 1)'
    <2>1. n + 1 <= Cardinality(Past')
      BY <1>6, <1>7 DEF SeqCounted
    <2>2. seq_id' = (n + 1) % SeqSize
      BY <1>2, <1>7, Successor, ServerAssumption DEF SeqCounted
    <2>3. \A d \in Numbered : \E k \in 1..(n + 1) : seqid[d] = k % SeqSize /\ k # n + 1
      BY <1>7 DEF SeqCounted
    <2>4. QED
      BY <1>2, <1>4, <2>1, <2>2, <2>3 DEF SeqCounted
  <1>9. MutexHeld' /\ SeqIdsDiffer'
    BY <1>1, <1>2, <1>3, <1>4 DEF MutexHeld, SeqIdsDiffer, SeqIdsOK
  <1>10. QED
    BY <1>8, <1>9, n + 1 \in Nat DEF SeqIdsOK

LEMMA ReadSeqIds == ASSUME BaseInv, SeqIdsOK, NEW c \in Calls, ReadSeq(c) PROVE SeqIdsOK'
  <1>1. pc \in [Calls -> Places] /\ seqid \in [Calls -> 0..SeqSize - 1]
    BY DEF BaseInv, TypeOK
  <1>2. /\ pc[c] = "reading" /\ pc' = [pc EXCEPT ![c] = "connect"]
        /\ seqid' = [seqid EXCEPT ![c] = seq_id]
        /\ seq_lock' = NoCall /\ seq_id' = seq_id /\ request' = request
    BY DEF ReadSeq, Goto
  <1>3. \A d \in Calls : pc'[d] \notin {"counting", "reading"}
    BY <1>1, <1>2 DEF SeqIdsOK, MutexHeld
  <1>4. Past' = Past /\ c \notin Numbered /\ Numbered' \subseteq Numbered \cup {c}
    BY <1>1, <1>2 DEF Past, Numbered, Serving
  <1>5. PICK n \in Nat : SeqCounted(n)
    BY DEF SeqIdsOK
  <1>6. n \in 1..SeqSize
    BY <1>2, <1>4, <1>5, PastGrows, ServerAssumption DEF SeqCounted
  <1>7. \A d \in Numbered : \E k \in 1..n : seqid[d] = k % SeqSize /\ k # n
    BY <1>2, <1>5 DEF SeqCounted
  <1>8. seqid'[c] = n % SeqSize /\ \A d \in Numbered : seqid'[d] = seqid[d]
    BY <1>1, <1>2, <1>4, <1>5 DEF SeqCounted, Numbered, Serving
  <1>9. SeqCounted(n)'
    <2>1. \A d \in Numbered' : \E k \in 1..n : seqid'[d] = k % SeqSize
      BY <1>4, <1>6, <1>7, <1>8
    <2>2. n <= Cardinality(Past') /\ seq_id' = n % SeqSize
      BY <1>2, <1>4, <1>5 DEF SeqCounted
    <2>3. \A d \in Calls : pc'[d] # "reading"
      BY <1>3
    <2>4. QED
      BY <2>1, <2>2, <2>3 DEF SeqCounted
  <1>10. \A d \in Numbered : seqid[d] # n % SeqSize
    <2>1. ASSUME NEW k \in 1..n, k # n PROVE k % SeqSize # n % SeqSize
      <3>1. SeqSize \in Nat \ {0} /\ k \in 1..SeqSize
        BY <1>6, ServerAssumption
      <3>2. QED
        BY <1>6, <2>1, <3>1, RoundDiffers
    <2>2. QED
      BY <1>7, <2>1
  <1>11. SeqIdsDiffer'
    BY <1>4, <1>8, <1>10 DEF SeqIdsDiffer, SeqIdsOK
  <1>12. MutexHeld'
    BY <1>3 DEF MutexHeld
  <1>13. QED
    BY <1>9, <1>11, <1>12 DEF SeqIdsOK

LEMMA SeqIdsStep == BaseInv /\ SeqIdsOK /\ [Next]_vars => SeqIdsOK'
  <1>1. BaseInv /\ SeqIdsOK /\ UNCHANGED vars => SeqStill
    BY DEF vars, seqVars, SeqStill, Past, Numbered, Serving
  <1>2. QED
    BY <1>1, NextCalls, SeqStillKeeps, OthersSeqStill, DiesSeqIds, LockSeqIds, CountSeqIds,
       ReadSeqIds DEF CallStep

(* Calls served at the same time have different sequence numbers: for any  *)
(* calls, and for any counter that has as many values as there are calls.  *)
THEOREM SeqIdsCorrect == Spec => []SeqIdsDiffer
  <1>1. Init => SeqIdsOK
    <2> SUFFICES ASSUME Init PROVE SeqIdsOK
      OBVIOUS
    <2>1. Numbered = {} /\ Past = {} /\ Cardinality(Past) = 0
      BY FS_EmptySet DEF Init, Numbered, Serving, Past
    <2>2. 0 % SeqSize = 0
      BY ServerAssumption
    <2>3. SeqCounted(0)
      BY <2>1, <2>2 DEF Init, SeqCounted
    <2>4. QED
      BY <2>1, <2>3 DEF Init, SeqIdsOK, MutexHeld, SeqIdsDiffer
  <1>2. SeqIdsOK => SeqIdsDiffer
    BY DEF SeqIdsOK
  <1>3. QED
    BY <1>1, <1>2, InitBase, BaseInvStep, SeqIdsStep, PTL DEF Spec

(***************************************************************************)
(* Phone areas                                                             *)
(***************************************************************************)

(* A step that neither reads, fills nor looks up the map.                  *)
TscStill ==
    /\ tsc_map' = tsc_map /\ unreadable' = unreadable /\ failed \subseteq failed'
    /\ \A c \in Calls :
          /\ \/ request'[c] = request[c] /\ answer'[c] = answer[c]
             \/ request'[c].kind # "charge"
             \/ answer'[c] = NoAnswer
          /\ pc'[c] \in {"insert", "found"} =>
                pc'[c] = pc[c] /\ request'[c] = request[c] /\ found'[c] = found[c]

LEMMA TscStillKeeps == ASSUME TscOK, TscStill PROVE TscOK'
  <1>1. TscTrue'
    BY DEF TscOK, TscTrue, TscStill
  <1>2. AcceptedMatches'
    BY DEF TscOK, AcceptedMatches, TscStill, NoAnswer
  <1>3. RefusedMatching'
    BY DEF TscOK, RefusedMatching, TscStill, NoAnswer
  <1>4. QED
    BY <1>1, <1>2, <1>3 DEF TscOK

LEMMA OthersTscStill ==
    ASSUME BaseInv, NEW c \in Calls, ~ServerDies,
           \/ Arrive(c) \/ LockSeq(c) \/ CountSeq(c) \/ ReadSeq(c) \/ CreateConnection(c)
           \/ AdminConnection(c) \/ SelectUser(c) \/ UpdateUser(c) \/ RecoverUser(c)
           \/ RecoverCharge(c)
    PROVE  TscStill
  <1>1. /\ pc \in [Calls -> Places] /\ request \in [Calls -> Requests \cup {NoRequest}]
        /\ answer \in [Calls -> {NoAnswer, 0, 1, 2}]
    BY DEF BaseInv, TypeOK
  <1>2. CASE Arrive(c)
    <2>1. answer'[c] = NoAnswer
      BY <1>2 DEF Arrive, BaseInv, Unanswered
    <2>2. QED
      BY <1>1, <1>2, <2>1 DEF Arrive, Goto, tscVars, TscStill
  <1>3. CASE LockSeq(c) \/ CountSeq(c) \/ ReadSeq(c)
    BY <1>1, <1>3 DEF LockSeq, CountSeq, ReadSeq, Goto, tscVars, TscStill
  <1>4. CASE CreateConnection(c) \/ AdminConnection(c) \/ RecoverCharge(c) \/ RecoverUser(c)
    BY <1>1, <1>4 DEF CreateConnection, AdminConnection, RecoverCharge, RecoverUser, Goto, Log, End,
                      Fails, tscVars, TscStill
  <1>5. CASE SelectUser(c) \/ UpdateUser(c)
    <2>1. request[c] \in Verifications
      BY <1>5 DEF SelectUser, UpdateUser, BaseInv, Routed, Verifying
    <2>2. request[c].kind # "charge"
      BY <2>1, VerificationFields
    <2>3. QED
      BY <1>1, <1>5, <2>2 DEF SelectUser, UpdateUser, Goto, Fails, Succeeds, tscVars, TscStill
  <1>6. QED
    BY <1>2, <1>3, <1>4, <1>5

LEMMA DiesTsc == ASSUME BaseInv, TscOK, ServerDies PROVE TscOK'
  <1>1. \A a \in Areas : tsc_map'[a] \in {Absent, Pack(TrueArea(a))}
    BY LoadedTrue DEF ServerDies
  <1>2. \A c \in Calls : pc'[c] \in {"new", "done", "dead"}
    BY DEF ServerDies, Serving, BaseInv, TypeOK
  <1>3. \A c \in Calls :
           \/ request'[c] = request[c] /\ answer'[c] = answer[c]
           \/ answer'[c] = NoAnswer
    BY DEF ServerDies
  <1>4. TscTrue'
    BY <1>1, <1>2 DEF TscTrue
  <1>5. AcceptedMatches'
    BY <1>3 DEF TscOK, AcceptedMatches, NoAnswer
  <1>6. RefusedMatching'
    BY <1>3 DEF TscOK, RefusedMatching, NoAnswer, ServerDies
  <1>7. QED
    BY <1>4, <1>5, <1>6 DEF TscOK

LEMMA FindAreaTsc == ASSUME BaseInv, TscOK, NEW c \in Calls, FindArea(c) PROVE TscOK'
  <1>1. pc \in [Calls -> Places]
    BY DEF BaseInv, TypeOK
  <1>2. TscTrue'
    BY <1>1 DEF FindArea, Goto, TscOK, TscTrue, tscVars
  <1>3. AcceptedMatches' /\ RefusedMatching'
    BY DEF FindArea, TscOK, AcceptedMatches, RefusedMatching, tscVars
  <1>4. QED
    BY <1>2, <1>3 DEF TscOK

(* The answer of a check that compared with the true area, or with what an *)
(* unreadable answer left.                                                 *)
LEMMA CheckedTrue ==
    ASSUME BaseInv, TscOK, NEW c \in Calls, request[c] \in Charges \cup ZkclCharges, NEW area,
           \/ area = TrueArea(request[c].area)
           \/ area \notin Product /\ request[c].area \in unreadable
    PROVE  request[c].kind = "charge" =>
              /\ CheckResult(c, area) = 0 => request[c].product = TrueArea(request[c].area)
              /\ CheckResult(c, area) = 1 /\ request[c].product = TrueArea(request[c].area) =>
                    request[c].area \in unreadable
  BY ChargeFields, RequestFields DEF CheckResult

(* A call's answer that is right leaves the other calls' answers right.    *)
LEMMA AnswerTsc ==
    ASSUME BaseInv, TscOK, NEW c \in Calls, NEW ret \in 0..2,
           request' = request, answer' = [answer EXCEPT ![c] = ret],
           failed \subseteq failed', unreadable \subseteq unreadable',
           request[c].kind = "charge" =>
              /\ ret = 0 => request[c].product = TrueArea(request[c].area)
              /\ ret = 1 /\ request[c].product = TrueArea(request[c].area) =>
                    c \in failed' \/ request[c].area \in unreadable'
    PROVE  AcceptedMatches' /\ RefusedMatching'
  <1>1. /\ answer'[c] = ret
        /\ \A d \in Calls \ {c} : answer'[d] = answer[d]
    BY DEF BaseInv, TypeOK
  <1>2. AcceptedMatches'
    BY <1>1 DEF TscOK, AcceptedMatches
  <1>3. RefusedMatching'
    BY <1>1 DEF TscOK, RefusedMatching
  <1>4. QED
    BY <1>2, <1>3

LEMMA ReadAreaTsc == ASSUME BaseInv, TscOK, NEW c \in Calls, ReadArea(c) PROVE TscOK'
  <1> DEFINE a == request[c].area
             area == Unpack(tsc_map[a])
  <1>1. /\ pc[c] = "found" /\ pc' = [pc EXCEPT ![c] = "recover"] /\ request' = request
        /\ answer' = [answer EXCEPT ![c] = CheckResult(c, area)]
        /\ tsc_map' = tsc_map /\ found' = found /\ unreadable' = unreadable /\ failed' = failed
    BY DEF ReadArea, Checked, Goto, tscVars
  <1>2. request[c] \in Charges \cup ZkclCharges /\ a \in Areas
    BY <1>1, ChargeFields DEF BaseInv, Routed, Charging
  <1>3. area = TrueArea(a) \/ (area \notin Product /\ a \in unreadable)
    <2>1. tsc_map[a] = Pack(TrueArea(a)) \/ (tsc_map[a] = Pack(Unset) /\ a \in unreadable)
      BY <1>1, <1>2 DEF TscOK, TscTrue
    <2>2. QED
      BY <1>2, <2>1, AreaFields, PackProduct, PackUnset
  <1>4. AcceptedMatches' /\ RefusedMatching'
    <2>1. CheckResult(c, area) \in 0..2
      BY CheckResultType
    <2>2. request[c].kind = "charge" =>
             /\ CheckResult(c, area) = 0 => request[c].product = TrueArea(a)
             /\ CheckResult(c, area) = 1 /\ request[c].product = TrueArea(a) => a \in unreadable
      BY <1>2, <1>3, CheckedTrue
    <2>3. QED
      BY <1>1, <2>1, <2>2, AnswerTsc
  <1>5. TscTrue'
    BY <1>1 DEF TscOK, TscTrue, BaseInv, TypeOK
  <1>6. QED
    BY <1>4, <1>5 DEF TscOK

LEMMA LookUpAreaTsc == ASSUME BaseInv, TscOK, NEW c \in Calls, LookUpArea(c) PROVE TscOK'
  <1> DEFINE a == request[c].area
             ret == IF request[c].kind = "charge" THEN 1 ELSE 2
  <1>1. /\ pc \in [Calls -> Places] /\ found \in [Calls -> Product \cup {Unset}]
        /\ pc[c] = "missing" /\ request' = request /\ tsc_map' = tsc_map
    BY DEF LookUpArea, BaseInv, TypeOK
  <1>2. CASE /\ answer' = [answer EXCEPT ![c] = ret]
             /\ pc' = [pc EXCEPT ![c] = "recover"]
             /\ failed' = failed \cup {c} /\ found' = found /\ unreadable' = unreadable
    <2>1. AcceptedMatches' /\ RefusedMatching'
      <3>1. PICK n \in 1..2 : n = ret
        OBVIOUS
      <3>2. c \in failed' /\ failed \subseteq failed' /\ unreadable \subseteq unreadable'
        BY <1>2
      <3>3. n \in 0..2 /\ n # 0 /\ answer' = [answer EXCEPT ![c] = n]
        BY <1>2, <3>1
      <3>4. QED
        BY <1>1, <3>2, <3>3, AnswerTsc
    <2>2. TscTrue'
      BY <1>1, <1>2 DEF TscOK, TscTrue
    <2>3. QED
      BY <2>1, <2>2 DEF TscOK
  <1>3. ASSUME NEW area, area = TrueArea(a) \/ (area = Unset /\ a \in unreadable'),
               found' = [found EXCEPT ![c] = area], unreadable \subseteq unreadable',
               pc' = [pc EXCEPT ![c] = "insert"], answer' = answer, failed' = failed
        PROVE  TscOK'
    <2>1. AcceptedMatches' /\ RefusedMatching'
      BY <1>1, <1>3 DEF TscOK, AcceptedMatches, RefusedMatching
    <2>2. TscTrue'
      BY <1>1, <1>3 DEF TscOK, TscTrue
    <2>3. QED
      BY <2>1, <2>2 DEF TscOK
  <1>4. QED
    BY <1>1, <1>2, <1>3 DEF LookUpArea, Checked, Goto, Fails

LEMMA InsertAreaTsc == ASSUME BaseInv, TscOK, NEW c \in Calls, InsertArea(c) PROVE TscOK'
  <1> DEFINE a == request[c].area
  <1>1. /\ pc[c] = "insert" /\ pc' = [pc EXCEPT ![c] = "recover"] /\ request' = request
        /\ answer' = [answer EXCEPT ![c] = CheckResult(c, found[c])]
        /\ found' = [found EXCEPT ![c] = Unset]
        /\ tsc_map' = [tsc_map EXCEPT ![a] = IF @ = Absent THEN Pack(found[c]) ELSE @]
        /\ unreadable' = unreadable /\ failed' = failed
    BY DEF InsertArea, Checked, Goto
  <1>2. /\ pc \in [Calls -> Places] /\ found \in [Calls -> Product \cup {Unset}]
        /\ tsc_map \in [Areas -> {Absent} \cup 0..255]
    BY DEF BaseInv, TypeOK
  <1>3. request[c] \in Charges \cup ZkclCharges /\ a \in Areas
    BY <1>1, ChargeFields DEF BaseInv, Routed, Charging
  <1>4. found[c] = TrueArea(a) \/ (found[c] = Unset /\ a \in unreadable)
    BY <1>1 DEF TscOK, TscTrue
  <1>5. AcceptedMatches' /\ RefusedMatching'
    <2>1. CheckResult(c, found[c]) \in 0..2
      BY CheckResultType
    <2>2. request[c].kind = "charge" =>
             /\ CheckResult(c, found[c]) = 0 => request[c].product = TrueArea(a)
             /\ CheckResult(c, found[c]) = 1 /\ request[c].product = TrueArea(a) => a \in unreadable
      BY <1>3, <1>4, PackUnset, CheckedTrue
    <2>3. QED
      BY <1>1, <2>1, <2>2, AnswerTsc
  <1>6. TscTrue'
    <2>1. \A b \in Areas : tsc_map'[b] = tsc_map[b] \/ (b = a /\ tsc_map'[b] = Pack(found[c]))
      BY <1>1, <1>2
    <2>2. \A b \in Areas :
             \/ tsc_map'[b] \in {Absent, Pack(TrueArea(b))}
             \/ tsc_map'[b] = Pack(Unset) /\ b \in unreadable
      BY <1>4, <2>1 DEF TscOK, TscTrue
    <2>3. \A b \in Areas : tsc_map[b] # Absent => tsc_map'[b] # Absent
      BY <1>1, <1>2
    <2>4. \A d \in Calls \ {c} : pc'[d] = pc[d] /\ found'[d] = found[d]
      BY <1>1, <1>2
    <2>5. \A d \in Calls : pc[d] = "found" => request[d].area \in Areas
      BY ChargeFields DEF BaseInv, Routed, Charging
    <2>6. pc'[c] = "recover"
      BY <1>1, <1>2
    <2>7. QED
      BY <1>1, <2>2, <2>3, <2>4, <2>5, <2>6 DEF TscOK, TscTrue
  <1>7. QED
    BY <1>5, <1>6 DEF TscOK

LEMMA TscStep == BaseInv /\ TscOK /\ [Next]_vars => TscOK'
  <1>1. UNCHANGED vars => TscStill
    BY DEF vars, tscVars, TscStill
  <1>2. QED
    BY <1>1, NextCalls, TscStillKeeps, OthersTscStill, DiesTsc, FindAreaTsc, ReadAreaTsc,
       LookUpAreaTsc, InsertAreaTsc DEF CallStep

LEMMA InitTsc == Init => TscOK
  BY LoadedTrue DEF Init, TscOK, TscTrue, AcceptedMatches, RefusedMatching, NoAnswer

(* A charge whose check succeeded asked for the operator and the province  *)
(* of its phone number, whoever filled the map, for any calls and areas.   *)
THEOREM AcceptedCorrect == Spec => []AcceptedMatches
  <1>1. TscOK => AcceptedMatches
    BY DEF TscOK
  <1>2. QED
    BY <1>1, InitBase, InitTsc, BaseInvStep, TscStep, PTL DEF Spec

(* A charge of the right product is refused only when its own lookup       *)
(* failed or its area was once looked up with an unreadable answer.        *)
THEOREM RefusedCorrect == Spec => []RefusedMatching
  <1>1. TscOK => RefusedMatching
    BY DEF TscOK
  <1>2. QED
    BY <1>1, InitBase, InitTsc, BaseInvStep, TscStep, PTL DEF Spec

EntryStep ==
    \A c \in Calls :
        pc[c] = "found" /\ pc'[c] = "found" =>
            tsc_map'[request[c].area] = tsc_map[request[c].area]

LEMMA EntryKept == BaseInv /\ TscOK /\ [Next]_vars => EntryStep
  <1> SUFFICES ASSUME BaseInv, TscOK, [Next]_vars PROVE EntryStep
    OBVIOUS
  <1>1. tsc_map \in [Areas -> {Absent} \cup 0..255]
    BY DEF BaseInv, TypeOK
  <1>2. \A c \in Calls :
           pc[c] = "found" => request[c].area \in Areas /\ tsc_map[request[c].area] # Absent
    BY ChargeFields DEF BaseInv, Routed, Charging, TscOK, TscTrue
  <1>3. CASE ServerDies
    BY <1>3 DEF ServerDies, Serving, EntryStep
  <1>4. ASSUME NEW c \in Calls, InsertArea(c) PROVE EntryStep
    BY <1>1, <1>2, <1>4 DEF InsertArea, EntryStep
  <1>5. CASE tsc_map' = tsc_map
    BY <1>5 DEF EntryStep
  <1>6. ASSUME NEW c \in Calls, CallStep(c), ~InsertArea(c), ~ServerDies PROVE tsc_map' = tsc_map
    BY <1>6 DEF CallStep, Arrive, LockSeq, CountSeq, ReadSeq, CreateConnection, FindArea, ReadArea,
                LookUpArea, RecoverCharge, AdminConnection, SelectUser, UpdateUser, RecoverUser, tscVars
  <1>7. UNCHANGED vars => tsc_map' = tsc_map
    BY DEF vars, tscVars
  <1>8. QED
    BY <1>3, <1>4, <1>5, <1>6, <1>7, NextCalls

(* No step changes an entry that a thread reads without the lock: inserts  *)
(* of others leave what is there, and the entry is there.                  *)
THEOREM EntryCorrect == Spec => EntryStaysInUse
  <1>1. Spec => [](BaseInv /\ TscOK)
    BY InitBase, InitTsc, BaseInvStep, TscStep, PTL DEF Spec
  <1>2. BaseInv /\ TscOK /\ [Next]_vars => [EntryStep]_vars
    BY EntryKept
  <1>3. Spec => [][EntryStep]_vars
    BY <1>1, <1>2, PTL DEF Spec
  <1>4. QED
    BY <1>3 DEF EntryStaysInUse, EntryStep

(***************************************************************************)
(* Verified users                                                          *)
(***************************************************************************)

LEMMA DiesUsers == ASSUME BaseInv, UsersOK, ServerDies PROVE UsersOK'
  <1>1. /\ late' = late /\ open_id' = open_id /\ failed' = failed /\ late \subseteq Calls
        /\ \A u \in Users : row_lock'[u] = NoCall
        /\ \A c \in Calls :
              \/ pc'[c] = "dead" /\ answer'[c] = NoAnswer
              \/ pc'[c] = pc[c] /\ pc[c] \in {"new", "done", "dead"} /\ answer'[c] = answer[c]
    BY DEF ServerDies, Serving, BaseInv, TypeOK
  <1>2. RowsHeld'
    BY <1>1, ServerAssumption DEF RowsHeld
  <1>3. LateStopped'
    BY <1>1 DEF UsersOK, LateStopped
  <1>4. LaterVerifyRefused'
    BY <1>1, ServerAssumption DEF UsersOK, LaterVerifyRefused
  <1>5. QED
    BY <1>2, <1>3, <1>4 DEF UsersOK

LEMMA ArriveUsers == ASSUME BaseInv, UsersOK, NEW c \in Calls, Arrive(c) PROVE UsersOK'
  <1>1. /\ pc \in [Calls -> Places] /\ request \in [Calls -> Requests \cup {NoRequest}]
        /\ late \subseteq Calls
    BY DEF BaseInv, TypeOK
  <1>2. PICK r \in Requests :
           /\ request' = [request EXCEPT ![c] = r]
           /\ pc' = [pc EXCEPT ![c] = IF r.kind = "verify" THEN "connect" ELSE "arrived"]
           /\ late' = IF r.kind = "verify" /\ r.user \in Registered /\ open_id[r.user] # NoSender
                      THEN late \cup {c} ELSE late
    BY ServerAssumption DEF Arrive, Goto
  <1>3. /\ pc[c] = "new" /\ answer[c] = NoAnswer /\ open_id' = open_id /\ row_lock' = row_lock
        /\ answer' = answer /\ failed' = failed
    BY DEF Arrive, BaseInv, Unanswered
  <1>4. c \notin late /\ \A u \in Users : row_lock[u] # c
    BY <1>3 DEF UsersOK, RowsHeld, LateStopped
  <1>5. \A d \in Calls \ {c} : pc'[d] = pc[d] /\ request'[d] = request[d]
    BY <1>1, <1>2
  <1>6. RowsHeld'
    BY <1>3, <1>4, <1>5 DEF UsersOK, RowsHeld
  <1>7. LateStopped'
    BY <1>1, <1>2, <1>3, <1>4, <1>5 DEF UsersOK, LateStopped
  <1>8. LaterVerifyRefused'
    BY <1>2, <1>3, <1>4 DEF UsersOK, LaterVerifyRefused
  <1>9. QED
    BY <1>6, <1>7, <1>8 DEF UsersOK

(* The steps of a charge are none of a late verification.                  *)
LEMMA ChargeUsers ==
    ASSUME BaseInv, UsersOK, NEW c \in Calls,
           \/ LockSeq(c) \/ CountSeq(c) \/ ReadSeq(c) \/ CreateConnection(c)
           \/ FindArea(c) \/ ReadArea(c) \/ LookUpArea(c) \/ InsertArea(c) \/ RecoverCharge(c)
    PROVE  UsersOK'
  <1>1. /\ pc \in [Calls -> Places] /\ answer \in [Calls -> {NoAnswer, 0, 1, 2}]
        /\ late \subseteq Calls
    BY DEF BaseInv, TypeOK
  <1>2. /\ open_id' = open_id /\ row_lock' = row_lock /\ late' = late /\ request' = request
        /\ failed \subseteq failed'
        /\ \A d \in Calls \ {c} : pc'[d] = pc[d] /\ answer'[d] = answer[d]
    BY <1>1 DEF LockSeq, CountSeq, ReadSeq, CreateConnection, FindArea, ReadArea, LookUpArea, InsertArea,
         RecoverCharge, Goto, Checked, End, Fails, userVars
  <1>3. \/ c \notin late /\ \A u \in Users : row_lock[u] # c
        \/ pc[c] = "recover" /\ pc'[c] = "done" /\ answer' = answer /\ request[c].kind # "verify"
    <2>1. CASE RecoverCharge(c)
      BY <1>1, <2>1 DEF RecoverCharge, End, Goto
    <2>2. CASE ~RecoverCharge(c)
      <3>1. pc[c] \in Charging \/ (pc[c] = "connect" /\ request[c].kind # "verify")
        BY <2>2 DEF LockSeq, CountSeq, ReadSeq, CreateConnection, FindArea, ReadArea, LookUpArea,
                    InsertArea, Charging
      <3>2. QED
        BY <3>1 DEF Charging, UsersOK, LateStopped, RowsHeld
    <2>3. QED
      BY <2>1, <2>2
  <1>4. RowsHeld'
    BY <1>2, <1>3 DEF UsersOK, RowsHeld
  <1>5. LateStopped'
    BY <1>1, <1>2, <1>3 DEF UsersOK, LateStopped
  <1>6. LaterVerifyRefused'
    BY <1>1, <1>2, <1>3 DEF UsersOK, LaterVerifyRefused
  <1>7. QED
    BY <1>4, <1>5, <1>6 DEF UsersOK

(* What the steps of a verification have in common.                        *)
LEMMA VerifyFrame ==
    ASSUME BaseInv, NEW c \in Calls, ~ServerDies,
           AdminConnection(c) \/ SelectUser(c) \/ UpdateUser(c) \/ RecoverUser(c)
    PROVE  /\ late' = late /\ request' = request /\ late \subseteq Calls /\ failed \subseteq failed'
           /\ \A d \in Calls \ {c} : pc'[d] = pc[d] /\ answer'[d] = answer[d]
           /\ request[c].kind = "verify" /\ request[c].user \in Users
           /\ request[c].sender # NoSender
  <1>1. /\ pc \in [Calls -> Places] /\ answer \in [Calls -> {NoAnswer, 0, 1, 2}]
        /\ late \subseteq Calls
    BY DEF BaseInv, TypeOK
  <1>2. /\ late' = late /\ request' = request /\ failed \subseteq failed'
        /\ \A d \in Calls \ {c} : pc'[d] = pc[d] /\ answer'[d] = answer[d]
    BY <1>1 DEF AdminConnection, SelectUser, UpdateUser, RecoverUser, Goto, Fails, Succeeds, userVars
  <1>3. \/ pc[c] \in Verifying
        \/ pc[c] \in {"connect", "recover"} /\ request[c].kind = "verify"
    BY DEF AdminConnection, SelectUser, UpdateUser, RecoverUser, Verifying
  <1>4. request[c] \in Requests /\ request[c].kind = "verify"
    BY <1>3, VerificationFields DEF BaseInv, Routed
  <1>5. QED
    BY <1>1, <1>2, <1>4, RequestFields

LEMMA AdminConnectionUsers ==
    ASSUME BaseInv, UsersOK, NEW c \in Calls, AdminConnection(c), ~ServerDies PROVE UsersOK'
  <1>1. pc[c] = "connect" /\ pc'[c] = "select" /\ answer' = answer
        /\ open_id' = open_id /\ row_lock' = row_lock
    BY DEF AdminConnection, Goto, userVars, BaseInv, TypeOK
  <1>2. RowsHeld' /\ LateStopped' /\ LaterVerifyRefused'
    BY <1>1, VerifyFrame DEF UsersOK, RowsHeld, LateStopped, LaterVerifyRefused
  <1>3. QED
    BY <1>2 DEF UsersOK

(* A late verification reads that its user is verified.                    *)
LEMMA SelectUserUsers ==
    ASSUME BaseInv, UsersOK, NEW c \in Calls, SelectUser(c) PROVE UsersOK'
  <1>1. pc \in [Calls -> Places] /\ answer \in [Calls -> {NoAnswer, 0, 1, 2}]
    BY DEF BaseInv, TypeOK
  <1>2. pc[c] = "select" /\ open_id' = open_id /\ row_lock' = row_lock
    BY DEF SelectUser, userVars
  <1>3. /\ \A u \in Users : row_lock[u] # c
        /\ c \in late => request[c].user \in Registered /\ open_id[request[c].user] # NoSender
    BY <1>2 DEF UsersOK, RowsHeld, LateStopped
  <1>4. c \in late => pc'[c] = "recover" /\ (answer'[c] = 2 \/ c \in failed')
    BY <1>1, <1>3 DEF SelectUser, Goto, Fails
  <1>5. ~ServerDies
    BY <1>1, <1>2 DEF SelectUser, Goto, ServerDies, Serving
  <1>6. RowsHeld'
    BY <1>2, <1>3, <1>5, VerifyFrame DEF UsersOK, RowsHeld
  <1>7. LateStopped'
    BY <1>2, <1>4, <1>5, VerifyFrame DEF UsersOK, LateStopped
  <1>8. LaterVerifyRefused'
    BY <1>2, <1>4, <1>5, VerifyFrame DEF UsersOK, LaterVerifyRefused
  <1>9. QED
    BY <1>6, <1>7, <1>8 DEF UsersOK

(* So it never gets to the UPDATE.                                         *)
LEMMA UpdateUserUsers ==
    ASSUME BaseInv, UsersOK, NEW c \in Calls, UpdateUser(c), ~ServerDies PROVE UsersOK'
  <1>1. /\ pc \in [Calls -> Places] /\ row_lock \in [Users -> Calls \cup {NoCall}]
    BY DEF BaseInv, TypeOK
  <1>2. /\ pc[c] = "update" /\ open_id' = open_id
        /\ \/ row_lock' = row_lock
           \/ row_lock' = [row_lock EXCEPT ![request[c].user] = c] /\ pc'[c] = "recover"
    BY <1>1 DEF UpdateUser, Goto, userVars
  <1>3. c \notin late /\ \A u \in Users : row_lock[u] # c
    BY <1>2 DEF UsersOK, RowsHeld, LateStopped
  <1>4. \A u \in Users :
           \/ row_lock'[u] = row_lock[u]
           \/ row_lock'[u] = c /\ u = request[c].user /\ pc'[c] = "recover"
    BY <1>1, <1>2
  <1>5. RowsHeld'
    BY <1>3, <1>4, VerifyFrame DEF UsersOK, RowsHeld
  <1>6. LateStopped'
    BY <1>2, <1>3, VerifyFrame DEF UsersOK, LateStopped
  <1>7. LaterVerifyRefused'
    BY <1>3, <1>4, VerifyFrame DEF UsersOK, LaterVerifyRefused
  <1>8. QED
    BY <1>5, <1>6, <1>7 DEF UsersOK

(* A call gives back the one row it may have; whom it verified stays so.   *)
LEMMA RecoverUserUsers ==
    ASSUME BaseInv, UsersOK, NEW c \in Calls, RecoverUser(c) PROVE UsersOK'
  <1>1. /\ pc \in [Calls -> Places] /\ row_lock \in [Users -> Calls \cup {NoCall}]
        /\ open_id \in [Users -> {NoSender} \cup {r.sender : r \in Verifications}]
    BY DEF BaseInv, TypeOK
  <1>2. pc[c] = "recover" /\ pc'[c] = "done" /\ answer' = answer
    BY <1>1 DEF RecoverUser, Goto
  <1>3. ~ServerDies
    BY <1>1, <1>2 DEF ServerDies, Serving
  <1>4. /\ \A u \in Users : row_lock'[u] = NoCall \/ (row_lock'[u] = row_lock[u] /\ row_lock[u] # c)
        /\ \A u \in Users : open_id[u] # NoSender => open_id'[u] # NoSender
    BY <1>1, <1>3, VerifyFrame DEF RecoverUser, UsersOK, RowsHeld
  <1>5. RowsHeld'
    BY <1>3, <1>4, VerifyFrame, ServerAssumption DEF UsersOK, RowsHeld
  <1>6. LateStopped'
    BY <1>2, <1>3, <1>4, VerifyFrame, ServerAssumption DEF UsersOK, LateStopped
  <1>7. LaterVerifyRefused'
    BY <1>2, <1>3, <1>4, VerifyFrame, ServerAssumption DEF UsersOK, LaterVerifyRefused
  <1>8. QED
    BY <1>5, <1>6, <1>7 DEF UsersOK

LEMMA UsersStep == BaseInv /\ UsersOK /\ [Next]_vars => UsersOK'
  <1>1. UsersOK /\ UNCHANGED vars => UsersOK'
    BY DEF vars, userVars, UsersOK, RowsHeld, LateStopped, LaterVerifyRefused
  <1>2. QED
    BY <1>1, NextCalls, DiesUsers, ArriveUsers, ChargeUsers, AdminConnectionUsers, SelectUserUsers,
       UpdateUserUsers, RecoverUserUsers DEF CallStep

(* A verification that comes in after its user was verified is told so, or *)
(* fails, and never writes, for any calls, users and senders.              *)
THEOREM LaterVerifyCorrect == Spec => []LaterVerifyRefused
  <1>1. Init => UsersOK
    BY ServerAssumption DEF Init, UsersOK, RowsHeld, LateStopped, LaterVerifyRefused
  <1>2. UsersOK => LaterVerifyRefused
    BY DEF UsersOK
  <1>3. QED
    BY <1>1, <1>2, InitBase, BaseInvStep, UsersStep, PTL DEF Spec

(***************************************************************************)
(* The log                                                                 *)
(***************************************************************************)

LEMMA PositionMoves ==
    ASSUME NEW at \in Nat, NEW length \in Nat, NEW more \in Nat, Position(at, length)
    PROVE  Position(IF at < MAX_LOG_LEN THEN at + more ELSE at, length + more)
  BY ServerAssumption DEF Position

(* A step of c that logs nothing or one text, and does not end a charge.   *)
LogStill(c) ==
    /\ printed' = printed
    /\ \A d \in Calls \ {c} :
          /\ pc'[d] = pc[d] /\ request'[d] = request[d] /\ answer'[d] = answer[d]
          /\ log_len'[d] = log_len[d] /\ logged'[d] = logged[d]
    /\ pc[c] \notin {"done", "dead"}
    /\ pc'[c] \notin {"done", "dead"} => Position(log_len'[c], logged'[c])
    /\ pc'[c] = "done" => request'[c].kind = "verify" \/ answer'[c] = NoAnswer

LEMMA LogStillKeeps ==
    ASSUME LogInv, NEW c \in Calls, LogStill(c) PROVE LogInv'
  <1>1. LogOK'
    BY DEF LogInv, LogOK, LogStill
  <1>2. PrintedIsWhole'
    BY DEF LogInv, PrintedIsWhole, LogStill
  <1>3. QED
    BY <1>1, <1>2 DEF LogInv

LEMMA LogTypes ==
    ASSUME BaseInv
    PROVE  /\ pc \in [Calls -> Places] /\ request \in [Calls -> Requests \cup {NoRequest}]
           /\ answer \in [Calls -> {NoAnswer, 0, 1, 2}]
           /\ log_len \in [Calls -> Nat] /\ logged \in [Calls -> Nat]
           /\ CheckLogLen \in Nat
  BY ServerAssumption DEF BaseInv, TypeOK

LEMMA LogMoves ==
    ASSUME BaseInv, LogInv, NEW c \in Calls, NEW more \in Nat, Log(c, more),
           pc[c] \notin {"done", "dead"}
    PROVE  /\ Position(log_len'[c], logged'[c])
           /\ \A d \in Calls \ {c} : log_len'[d] = log_len[d] /\ logged'[d] = logged[d]
  <1>1. /\ log_len[c] \in Nat /\ logged[c] \in Nat
        /\ log_len'[c] = IF log_len[c] < MAX_LOG_LEN THEN log_len[c] + more ELSE log_len[c]
        /\ logged'[c] = logged[c] + more
        /\ \A d \in Calls \ {c} : log_len'[d] = log_len[d] /\ logged'[d] = logged[d]
    BY LogTypes DEF Log
  <1>2. Position(log_len[c], logged[c])
    BY DEF LogInv, LogOK
  <1>3. QED
    BY <1>1, <1>2, PositionMoves

(* The steps that log nothing.                                             *)
LEMMA SilentLog ==
    ASSUME BaseInv, LogInv, NEW c \in Calls, ~ServerDies,
           \/ Arrive(c) \/ LockSeq(c) \/ CountSeq(c) \/ ReadSeq(c) \/ FindArea(c)
           \/ AdminConnection(c) \/ SelectUser(c) \/ UpdateUser(c) \/ RecoverUser(c)
    PROVE  LogStill(c)
  <1>1. log_len' = log_len /\ logged' = logged /\ printed' = printed
    BY DEF Arrive, LockSeq, CountSeq, ReadSeq, FindArea, AdminConnection, SelectUser, UpdateUser,
           RecoverUser, logVars
  <1>2. /\ pc[c] \notin {"done", "dead"}
        /\ \A d \in Calls \ {c} :
              pc'[d] = pc[d] /\ request'[d] = request[d] /\ answer'[d] = answer[d]
    BY LogTypes DEF Arrive, LockSeq, CountSeq, ReadSeq, FindArea, AdminConnection, SelectUser,
                    UpdateUser, RecoverUser, Goto
  <1>3. Position(log_len[c], logged[c])
    BY <1>2 DEF LogInv, LogOK
  <1>4. pc'[c] = "done" => request'[c].kind = "verify"
    <2>1. pc'[c] = "done" => UpdateUser(c) \/ RecoverUser(c)
      BY LogTypes DEF Arrive, LockSeq, CountSeq, ReadSeq, FindArea, AdminConnection, SelectUser, Goto
    <2>2. UpdateUser(c) \/ RecoverUser(c) => request'[c].kind = "verify"
      BY VerifyFrame
    <2>3. QED
      BY <2>1, <2>2
  <1>5. QED
    BY <1>1, <1>2, <1>3, <1>4 DEF LogStill

LEMMA ConnectionLog ==
    ASSUME BaseInv, LogInv, NEW c \in Calls, CreateConnection(c) PROVE LogStill(c)
  <1>1. /\ pc[c] = "connect" /\ answer[c] = NoAnswer /\ request[c].length \in Nat
    BY RequestFields DEF CreateConnection, BaseInv, Routed, Unanswered
  <1>2. /\ printed' = printed /\ request' = request /\ answer' = answer
        /\ \A d \in Calls \ {c} : pc'[d] = pc[d]
    BY LogTypes DEF CreateConnection, Goto, End
  <1>3. CASE Log(c, request[c].length) /\ Goto(c, "check")
    <2>1. pc'[c] = "check"
      BY <1>3, LogTypes DEF Goto
    <2>2. QED
      BY <1>1, <1>2, <1>3, <2>1, LogMoves DEF LogStill
  <1>4. CASE End(c) /\ logged' = logged
    <2>1. pc'[c] = "done" /\ \A d \in Calls \ {c} : log_len'[d] = log_len[d]
      BY <1>4, LogTypes DEF End, Goto
    <2>2. QED
      BY <1>1, <1>2, <1>4, <2>1 DEF LogStill
  <1>5. QED
    BY <1>3, <1>4 DEF CreateConnection

(* The product's check logs its return value.                              *)
LEMMA CheckLog ==
    ASSUME BaseInv, LogInv, NEW c \in Calls, ReadArea(c) \/ LookUpArea(c) \/ InsertArea(c)
    PROVE  LogStill(c)
  <1>1. /\ pc[c] \in {"found", "missing", "insert"}
        /\ printed' = printed /\ request' = request
        /\ \/ Log(c, CheckLogLen) /\ pc' = [pc EXCEPT ![c] = "recover"]
           \/ log_len' = log_len /\ logged' = logged /\ pc' = [pc EXCEPT ![c] = "insert"]
        /\ \A d \in Calls \ {c} : answer'[d] = answer[d]
    BY LogTypes DEF ReadArea, LookUpArea, InsertArea, Checked, Goto
  <1>2. /\ pc'[c] \in {"recover", "insert"}
        /\ \A d \in Calls \ {c} : pc'[d] = pc[d]
    BY <1>1, LogTypes
  <1>3. Position(log_len[c], logged[c])
    BY <1>1 DEF LogInv, LogOK
  <1>4. CASE Log(c, CheckLogLen)
    BY <1>1, <1>2, <1>4, LogTypes, LogMoves DEF LogStill
  <1>5. CASE log_len' = log_len /\ logged' = logged
    BY <1>1, <1>2, <1>3, <1>5 DEF LogStill
  <1>6. QED
    BY <1>1, <1>4, <1>5

LEMMA RecoverLog ==
    ASSUME BaseInv, LogInv, NEW c \in Calls, RecoverCharge(c) PROVE LogInv'
  <1>1. /\ pc[c] = "recover" /\ pc'[c] = "done" /\ request' = request /\ answer' = answer
        /\ logged' = logged /\ log_len[c] \in Nat /\ logged[c] \in Nat
        /\ printed' = IF 0 < log_len[c] /\ log_len[c] < MAX_LOG_LEN
                      THEN printed \cup {c} ELSE printed
        /\ \A d \in Calls \ {c} : pc'[d] = pc[d] /\ log_len'[d] = log_len[d]
    BY LogTypes DEF RecoverCharge, End, Goto
  <1>2. c \notin printed /\ Position(log_len[c], logged[c])
    BY <1>1 DEF LogInv, LogOK
  <1>3. c \in printed' <=> 0 < logged[c] /\ logged[c] < MAX_LOG_LEN
    BY <1>1, <1>2, ServerAssumption DEF Position
  <1>4. LogOK'
    BY <1>1 DEF LogInv, LogOK
  <1>5. PrintedIsWhole'
    BY <1>1, <1>3 DEF LogInv, PrintedIsWhole
  <1>6. QED
    BY <1>4, <1>5 DEF LogInv

LEMMA DiesLog == ASSUME BaseInv, LogInv, ServerDies PROVE LogInv'
  <1>1. /\ printed' = printed
        /\ \A c \in Calls :
              \/ pc'[c] = "dead" /\ pc[c] \notin {"new", "done", "dead"}
              \/ /\ pc'[c] = pc[c] /\ pc[c] \in {"new", "done", "dead"}
                 /\ request'[c] = request[c] /\ answer'[c] = answer[c] /\ logged'[c] = logged[c]
        /\ \A c \in Calls : log_len'[c] = 0
    BY LogTypes DEF ServerDies, Serving
  <1>2. \A c \in Calls : pc[c] = "new" => logged[c] = 0
    BY DEF BaseInv, Unanswered
  <1>3. LogOK'
    BY <1>1, <1>2 DEF LogInv, LogOK, Position
  <1>4. PrintedIsWhole'
    BY <1>1 DEF LogInv, PrintedIsWhole
  <1>5. QED
    BY <1>3, <1>4 DEF LogInv

LEMMA LogStep == BaseInv /\ LogInv /\ [Next]_vars => LogInv'
  <1>1. LogInv /\ UNCHANGED vars => LogInv'
    BY DEF vars, logVars, LogInv, LogOK, PrintedIsWhole
  <1>2. QED
    BY <1>1, NextCalls, LogStillKeeps, SilentLog, ConnectionLog, CheckLog, RecoverLog, DiesLog
       DEF CallStep

(* A call that returns normally has its whole log line in the file or, if  *)
(* it does not fit the buffer, none of it, for any texts and any buffer.   *)
THEOREM LogCorrect == Spec => []PrintedIsWhole
  <1>1. Init => LogInv
    BY DEF Init, LogInv, LogOK, Position, PrintedIsWhole
  <1>2. LogInv => PrintedIsWhole
    BY DEF LogInv
  <1>3. QED
    BY <1>1, <1>2, InitBase, BaseInvStep, LogStep, PTL DEF Spec
=============================================================================
