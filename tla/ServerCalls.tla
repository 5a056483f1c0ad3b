---------------------------- MODULE ServerCalls ----------------------------
(***************************************************************************)
(* What the calls of the thrift server share: the sequence counter, the    *)
(* map of phone areas (tsc) that charges check their product with and fill *)
(* as they go, and the users that weixin senders verify.  Each call runs   *)
(* in a thread of its own and fills one log buffer.  (TopupService.cpp,    *)
(* TopupServer.cpp, check_tsc in TopupImpl.cpp and TopupCustomer.cpp,      *)
(* TopupZkcl.cpp, HttpClient.cpp, GlobalConfig.cpp, ChargeBusiness.cpp.)   *)
(***************************************************************************)
EXTENDS Integers, FiniteSets

CONSTANTS
    Calls,          \* the calls made, a thread each
    NoCall,
    Charges,        \* what tmall and customer calls ask for: area, product, length
    ZkclCharges,    \* what zkcl calls ask for: area, length
    Verifications,  \* what calls of Admin with cmd 10 ask for: user, sender
    Asks,           \* per call the requests it may carry
    Areas,          \* first seven digits of phone numbers
    AreaOp, AreaProvince,
                    \* an area's true operator and province code
    Users,          \* names that weixin senders give
    Registered,     \* those with a row in USER_TBL
    NoSender,       \* an empty OPEN_ID
    SeqSize,        \* values of the sequence counter, 2^32 in the code
    MAX_LOG_LEN,
    CheckLogLen     \* length of the text logged after the product's check

VARIABLES
    pc, request,    \* per call: where its thread is, what it asks for
    seq_lock, seq_id,
                    \* the counter and its mutex
    seqid,          \* the number a call got
    tsc_map,        \* per area the byte stored for it, or Absent
    found,          \* per call: t_op and t_province of its lookup
    open_id,        \* per user the committed OPEN_ID
    row_lock,       \* per user the call with an uncommitted UPDATE of its row
    answer,         \* what check_tsc or VerifyWeixin returned to the call
    log_len,        \* position in the call's log buffer
    printed,        \* the calls whose log reached the file
    logged,         \* history: length of all the texts of a call
    failed,         \* history: the calls one of whose own steps failed
    unreadable,     \* history: areas looked up with an answer that is no JSON
    late            \* history: calls that came in after their user was verified

seqVars == <<seq_lock, seq_id, seqid>>
tscVars == <<tsc_map, found, unreadable>>
userVars == <<open_id, row_lock, late>>
logVars == <<log_len, printed, logged>>
vars == <<pc, request, seqVars, tscVars, userVars, answer, logVars, failed>>

Places == {"new", "arrived", "counting", "reading", "connect", "check", "found",
           "missing", "insert", "select", "update", "recover", "done", "dead"}

CMCC == 1
CUCC == 2
TELECOM == 3

Product == [op : CMCC..TELECOM, province : 1..61]

NoRequest == [kind |-> "none"]

Requests == Charges \cup ZkclCharges \cup Verifications

(* Province codes are those of province.dat, 1 to 31: they have room in    *)
(* six bits, and none is 62.                                               *)
ASSUME ServerAssumption ==
    /\ NoCall \notin Calls
    /\ Charges \subseteq [kind : {"charge"}, area : Areas, product : Product, length : Nat]
    /\ ZkclCharges \subseteq [kind : {"zkcl"}, area : Areas, length : Nat]
    /\ \A r \in Verifications : r.kind = "verify" /\ r.user \in Users /\ r.sender # NoSender
    /\ Asks \in [Calls -> SUBSET Requests]
    /\ AreaOp \in [Areas -> CMCC..TELECOM]
    /\ AreaProvince \in [Areas -> 1..61]
    /\ Registered \subseteq Users
    /\ SeqSize \in Nat \ {0} /\ IsFiniteSet(Calls) /\ Cardinality(Calls) <= SeqSize
    /\ MAX_LOG_LEN \in Nat \ {0}
    /\ CheckLogLen \in Nat

(***************************************************************************)
(* Pieces of the actions                                                   *)
(***************************************************************************)

Goto(c, place) == pc' = [pc EXCEPT ![c] = place]
Fails(c) == failed' = failed \cup {c}
Succeeds == UNCHANGED failed

Absent == -1
NoAnswer == -1
Unset == [op |-> -1, province |-> -1]

TrueArea(a) == [op |-> AreaOp[a], province |-> AreaProvince[a]]

(* Mutant: computed in an int.                                             *)
PackWide(area) == area.province * 4 + area.op

(* Mutant: four bits for the province.                                     *)
PackNarrow(area) == (((area.province * 4) % 64) + area.op) % 256

(* info = t_province; info <<= 2; info += t_op: a uint8_t.                 *)
Pack(area) == (((area.province * 4) % 256) + area.op) % 256

(* t_op = info & 0x3; t_province = info >> 2.                              *)
Unpack(info) == [op |-> info % 4, province |-> info \div 4]

(* Mutant: log_len moves by what was written, not by what was asked for.   *)
LogClamped(c, length) ==
    /\ log_len' = [log_len EXCEPT ![c] =
                      IF @ + length < MAX_LOG_LEN THEN @ + length ELSE MAX_LOG_LEN - 1]
    /\ logged' = [logged EXCEPT ![c] = @ + length]

(* TP_WRITE_LOG: snprintf returns the length of the whole text, also when  *)
(* the rest of the buffer is too short for it.                             *)
Log(c, length) ==
    /\ log_len' = [log_len EXCEPT ![c] = IF @ < MAX_LOG_LEN THEN @ + length ELSE @]
    /\ logged' = [logged EXCEPT ![c] = @ + length]

(* SendRequest returns and deletes its TopupInfo.                          *)
End(c) ==
    /\ Goto(c, "done")
    /\ seqid' = [seqid EXCEPT ![c] = 0]
    /\ log_len' = [log_len EXCEPT ![c] = 0]

(* The end of the product's check: its return value is logged.             *)
Checked(c, ret) ==
    /\ answer' = [answer EXCEPT ![c] = ret]
    /\ Log(c, CheckLogLen)
    /\ Goto(c, "recover")

(* Mutant: only the operator is compared.                                  *)
CheckResultOperator(c, area) ==
    IF request[c].kind = "charge" /\ request[c].product.op # area.op THEN 1 ELSE 0

(* check_tsc compares, CheckProduct of a zkcl call takes what was found.   *)
CheckResult(c, area) ==
    IF request[c].kind = "charge" /\ request[c].product # area THEN 1 ELSE 0

(* The file's areas; operators other than CMCC and CUCC are passed over.   *)
Listed == {a \in Areas : AreaOp[a] \in CMCC..CUCC}

LoadedMaps == {[a \in Areas |-> IF a \in S THEN Pack(TrueArea(a)) ELSE Absent] : S \in SUBSET Listed}

Serving == {c \in Calls : pc[c] \notin {"new", "done", "dead"}}

(* The process dies with all its calls, open transactions are rolled back, *)
(* and is started again.                                                   *)
ServerDies ==
    /\ pc' = [c \in Calls |-> IF c \in Serving THEN "dead" ELSE pc[c]]
    /\ request' = [c \in Calls |-> IF c \in Serving THEN NoRequest ELSE request[c]]
    /\ answer' = [c \in Calls |-> IF c \in Serving THEN NoAnswer ELSE answer[c]]
    /\ logged' = [c \in Calls |-> IF c \in Serving THEN 0 ELSE logged[c]]
    /\ seq_lock' = NoCall
    /\ seq_id' = 0
    /\ seqid' = [c \in Calls |-> 0]
    /\ found' = [c \in Calls |-> Unset]
    /\ log_len' = [c \in Calls |-> 0]
    /\ tsc_map' \in LoadedMaps
    /\ row_lock' = [u \in Users |-> NoCall]
    /\ UNCHANGED <<unreadable, open_id, late, printed, failed>>

(***************************************************************************)
(* SendRequest: the sequence number                                        *)
(***************************************************************************)

(* A call comes in; Admin takes no number.                                 *)
Arrive(c) ==
    /\ pc[c] = "new"
    /\ \E r \in Asks[c] :
          /\ request' = [request EXCEPT ![c] = r]
          /\ Goto(c, IF r.kind = "verify" THEN "connect" ELSE "arrived")
          /\ late' = IF r.kind = "verify" /\ r.user \in Registered /\ open_id[r.user] # NoSender
                     THEN late \cup {c} ELSE late
    /\ UNCHANGED <<seqVars, tscVars, open_id, row_lock, answer, logVars, failed>>

(* Mutant: the mutex is not waited for.                                    *)
LockSeqUnguarded(c) ==
    /\ pc[c] = "arrived"
    /\ seq_lock' = c
    /\ Goto(c, "counting")
    /\ UNCHANGED <<request, seq_id, seqid, tscVars, userVars, answer, logVars, failed>>

LockSeq(c) ==
    /\ pc[c] = "arrived"
    /\ seq_lock = NoCall
    /\ seq_lock' = c
    /\ Goto(c, "counting")
    /\ UNCHANGED <<request, seq_id, seqid, tscVars, userVars, answer, logVars, failed>>

CountSeq(c) ==
    /\ pc[c] = "counting"
    /\ seq_id' = (seq_id + 1) % SeqSize
    /\ Goto(c, "reading")
    /\ UNCHANGED <<request, seq_lock, seqid, tscVars, userVars, answer, logVars, failed>>

(* Mutant: the mutex is not given back.                                    *)
ReadSeqLocked(c) ==
    /\ pc[c] = "reading"
    /\ seqid' = [seqid EXCEPT ![c] = seq_id]
    /\ Goto(c, "connect")
    /\ UNCHANGED <<request, seq_lock, seq_id, tscVars, userVars, answer, logVars, failed>>

ReadSeq(c) ==
    /\ pc[c] = "reading"
    /\ seqid' = [seqid EXCEPT ![c] = seq_id]
    /\ seq_lock' = NoCall
    /\ Goto(c, "connect")
    /\ UNCHANGED <<request, seq_id, tscVars, userVars, answer, logVars, failed>>

(***************************************************************************)
(* The connection.  Without one SendRequest returns an empty reply; Admin  *)
(* uses the null pointer.                                                  *)
(***************************************************************************)

(* With a connection HandleRequest begins: it logs the request.            *)
CreateConnection(c) ==
    /\ pc[c] = "connect" /\ request[c].kind # "verify"
    /\ \/ Log(c, request[c].length) /\ Goto(c, "check") /\ UNCHANGED <<seqid, printed, failed>>
       \/ End(c) /\ Fails(c) /\ UNCHANGED <<printed, logged>>
    /\ UNCHANGED <<request, seq_lock, seq_id, tscVars, userVars, answer>>

AdminConnection(c) ==
    /\ pc[c] = "connect" /\ request[c].kind = "verify"
    /\ \/ /\ Goto(c, "select")
          /\ UNCHANGED <<request, seqVars, tscVars, userVars, answer, logVars, failed>>
       \/ ServerDies

(***************************************************************************)
(* check_tsc                                                               *)
(***************************************************************************)

(* find, under the read lock, which is released before the iterator is     *)
(* used.                                                                   *)
FindArea(c) ==
    /\ pc[c] = "check"
    /\ Goto(c, IF tsc_map[request[c].area] = Absent THEN "missing" ELSE "found")
    /\ UNCHANGED <<request, seqVars, tscVars, userVars, answer, logVars, failed>>

(* iter->second, without the lock.                                         *)
ReadArea(c) ==
    /\ pc[c] = "found"
    /\ Checked(c, CheckResult(c, Unpack(tsc_map[request[c].area])))
    /\ UNCHANGED <<request, seqVars, tscVars, userVars, printed, failed>>

(* parse_tsc, without a lock: no answer, or one with an operator or a      *)
(* province it does not know (1 from check_tsc, 2 from the zkcl call); the *)
(* area; or an answer that is no JSON, which sets nothing and returns 0.   *)
LookUpArea(c) ==
    /\ pc[c] = "missing"
    /\ \/ /\ Checked(c, IF request[c].kind = "charge" THEN 1 ELSE 2)
          /\ Fails(c)
          /\ UNCHANGED <<found, unreadable>>
       \/ /\ found' = [found EXCEPT ![c] = TrueArea(request[c].area)]
          /\ Goto(c, "insert")
          /\ UNCHANGED <<unreadable, answer, log_len, logged, failed>>
       \/ /\ found' = [found EXCEPT ![c] = Unset]
          /\ unreadable' = unreadable \cup {request[c].area}
          /\ Goto(c, "insert")
          /\ UNCHANGED <<answer, log_len, logged, failed>>
    /\ UNCHANGED <<request, seqVars, tsc_map, userVars, printed>>

(* Mutant: tsc_map[phone] = info.                                          *)
InsertAreaOver(c) ==
    /\ pc[c] = "insert"
    /\ tsc_map' = [tsc_map EXCEPT ![request[c].area] = Pack(found[c])]
    /\ found' = [found EXCEPT ![c] = Unset]
    /\ Checked(c, CheckResult(c, found[c]))
    /\ UNCHANGED <<request, seqVars, unreadable, userVars, printed, failed>>

(* insert, under the write lock: an entry that is there stays.  The call   *)
(* goes on with what it found itself.                                      *)
InsertArea(c) ==
    /\ pc[c] = "insert"
    /\ tsc_map' = [tsc_map EXCEPT ![request[c].area] =
                      IF @ = Absent THEN Pack(found[c]) ELSE @]
    /\ found' = [found EXCEPT ![c] = Unset]
    /\ Checked(c, CheckResult(c, found[c]))
    /\ UNCHANGED <<request, seqVars, unreadable, userVars, printed, failed>>

(***************************************************************************)
(* VerifyWeixin                                                            *)
(***************************************************************************)

(* Mutant: the user's open id is not looked at.                            *)
SelectUserUnread(c) ==
    /\ pc[c] = "select"
    /\ IF request[c].user \in Registered
       THEN Goto(c, "update") /\ UNCHANGED answer
       ELSE Goto(c, "recover") /\ answer' = [answer EXCEPT ![c] = 1]
    /\ UNCHANGED <<request, seqVars, tscVars, userVars, logVars, failed>>

(* The SELECT: 1 without such a user, 2 when he is verified.  An exception *)
(* leaves the return value 0.                                              *)
SelectUser(c) ==
    /\ pc[c] = "select"
    /\ LET u == request[c].user
       IN  \/ /\ u \in Registered /\ open_id[u] = NoSender
              /\ Goto(c, "update") /\ Succeeds /\ UNCHANGED answer
           \/ /\ u \in Registered /\ open_id[u] # NoSender
              /\ Goto(c, "recover") /\ Succeeds /\ answer' = [answer EXCEPT ![c] = 2]
           \/ /\ u \notin Registered
              /\ Goto(c, "recover") /\ Succeeds /\ answer' = [answer EXCEPT ![c] = 1]
           \/ Goto(c, "recover") /\ Fails(c) /\ answer' = [answer EXCEPT ![c] = 0]
    /\ UNCHANGED <<request, seqVars, tscVars, userVars, logVars>>

(* The UPDATE waits for another call's of the same row.  When it throws 0  *)
(* is returned; when its createStatement throws, the first statement is    *)
(* terminated a second time: the exception leaves Admin, or the process    *)
(* dies.                                                                   *)
UpdateUser(c) ==
    /\ pc[c] = "update"
    /\ LET u == request[c].user
       IN  \/ /\ row_lock[u] = NoCall
              /\ row_lock' = [row_lock EXCEPT ![u] = c]
              /\ answer' = [answer EXCEPT ![c] = 0]
              /\ Goto(c, "recover") /\ Succeeds
              /\ UNCHANGED <<request, seqVars, tscVars, open_id, late, logVars>>
           \/ /\ answer' = [answer EXCEPT ![c] = 0]
              /\ Goto(c, "recover") /\ Fails(c)
              /\ UNCHANGED <<request, seqVars, tscVars, userVars, logVars>>
           \/ /\ Goto(c, "done") /\ Fails(c)
              /\ UNCHANGED <<request, seqVars, tscVars, userVars, answer, logVars>>
           \/ ServerDies

(***************************************************************************)
(* The end of a call                                                       *)
(***************************************************************************)

(* Nobody commits or rolls back the UPDATE: terminateConnection does one   *)
(* of the two.                                                             *)
RecoverUser(c) ==
    /\ pc[c] = "recover" /\ request[c].kind = "verify"
    /\ LET u == request[c].user
       IN  IF row_lock[u] = c
           THEN /\ row_lock' = [row_lock EXCEPT ![u] = NoCall]
                /\ \E id \in {request[c].sender, open_id[u]} : open_id' = [open_id EXCEPT ![u] = id]
           ELSE UNCHANGED <<row_lock, open_id>>
    /\ Goto(c, "done")
    /\ UNCHANGED <<request, seqVars, tscVars, late, answer, logVars, failed>>

(* Recover, and the log is written unless the position has left the buffer.*)
RecoverCharge(c) ==
    /\ pc[c] = "recover" /\ request[c].kind # "verify"
    /\ printed' = IF 0 < log_len[c] /\ log_len[c] < MAX_LOG_LEN THEN printed \cup {c} ELSE printed
    /\ End(c)
    /\ UNCHANGED <<request, seq_lock, seq_id, tscVars, userVars, answer, logged, failed>>

(***************************************************************************)
(* Specification                                                           *)
(***************************************************************************)

Init ==
    /\ pc = [c \in Calls |-> "new"]
    /\ request = [c \in Calls |-> NoRequest]
    /\ seq_lock = NoCall
    /\ seq_id = 0
    /\ seqid = [c \in Calls |-> 0]
    /\ tsc_map \in LoadedMaps
    /\ found = [c \in Calls |-> Unset]
    /\ open_id = [u \in Users |-> NoSender]
    /\ row_lock = [u \in Users |-> NoCall]
    /\ answer = [c \in Calls |-> NoAnswer]
    /\ log_len = [c \in Calls |-> 0]
    /\ printed = {}
    /\ logged = [c \in Calls |-> 0]
    /\ failed = {}
    /\ unreadable = {}
    /\ late = {}

SetSeqId(c) == LockSeq(c) \/ CountSeq(c) \/ ReadSeq(c)
check_tsc(c) == FindArea(c) \/ ReadArea(c) \/ LookUpArea(c) \/ InsertArea(c)
SendRequest(c) == SetSeqId(c) \/ CreateConnection(c) \/ check_tsc(c) \/ RecoverCharge(c)
Admin(c) == AdminConnection(c) \/ SelectUser(c) \/ UpdateUser(c) \/ RecoverUser(c)

Next == \E c \in Calls : Arrive(c) \/ SendRequest(c) \/ Admin(c)

Spec == Init /\ [][Next]_vars

(* Every thread is scheduled again; lookups and statements return.         *)
FairSpec == Spec /\ \A c \in Calls : WF_vars(SendRequest(c) \/ Admin(c))

(***************************************************************************)
(* Properties                                                              *)
(***************************************************************************)

(* Type invariant: every variable keeps its shape.                         *)
TypeOK ==
    /\ pc \in [Calls -> Places]
    /\ request \in [Calls -> Requests \cup {NoRequest}]
    /\ seq_lock \in Calls \cup {NoCall}
    /\ seq_id \in 0..SeqSize - 1
    /\ seqid \in [Calls -> 0..SeqSize - 1]
    /\ tsc_map \in [Areas -> {Absent} \cup 0..255]
    /\ found \in [Calls -> Product \cup {Unset}]
    /\ open_id \in [Users -> {NoSender} \cup {r.sender : r \in Verifications}]
    /\ row_lock \in [Users -> Calls \cup {NoCall}]
    /\ answer \in [Calls -> {NoAnswer, 0, 1, 2}]
    /\ log_len \in [Calls -> Nat]
    /\ logged \in [Calls -> Nat]
    /\ printed \subseteq Calls
    /\ failed \subseteq Calls
    /\ unreadable \subseteq Areas
    /\ late \subseteq Calls

Numbered == {c \in Serving : request[c].kind # "verify"
                             /\ pc[c] \notin {"arrived", "counting", "reading"}}

(* Calls served at the same time have different sequence numbers, also     *)
(* when the counter wraps, as long as it has a value for each call: the    *)
(* log lines of two calls can be told apart.                               *)
SeqIdsDiffer == \A c, d \in Numbered : c # d => seqid[c] # seqid[d]

(* A charge whose product's check succeeded is of the operator and the     *)
(* province its phone number really belongs to, whoever filled the map.    *)
AcceptedMatches ==
    \A c \in Calls :
        request[c].kind = "charge" /\ answer[c] = 0 =>
            request[c].product = TrueArea(request[c].area)

(* A charge of the right product is refused for its area only when its own *)
(* lookup failed or some lookup of the area had an unreadable answer.      *)
RefusedMatching ==
    \A c \in Calls :
        /\ request[c].kind = "charge" /\ answer[c] = 1
        /\ request[c].product = TrueArea(request[c].area)
        => c \in failed \/ request[c].area \in unreadable

(* While a thread has an iterator that it uses without the lock, the entry *)
(* under it stays what it was when the thread found it.                    *)
EntryStaysInUse ==
    [][\A c \in Calls :
          pc[c] = "found" /\ pc'[c] = "found" =>
              tsc_map'[request[c].area] = tsc_map[request[c].area]]_vars

(* A verification that comes in when its user has an open id is told so    *)
(* (2), or fails itself, and never writes: only calls that overlap can     *)
(* replace each other's open id.                                           *)
LaterVerifyRefused ==
    \A c \in late : /\ answer[c] \in {NoAnswer, 2} \/ c \in failed
                    /\ \A u \in Users : row_lock[u] # c

(* A call that returns normally has its log line in the file whole, or,    *)
(* when its texts do not fit in the buffer, not at all.                    *)
PrintedIsWhole ==
    \A c \in Calls :
        pc[c] = "done" /\ answer[c] # NoAnswer /\ request[c].kind # "verify" =>
            (c \in printed <=> 0 < logged[c] /\ logged[c] < MAX_LOG_LEN)

(* Every call ends: nobody keeps the mutex or a row for good.              *)
CallsEnd == \A c \in Calls : pc[c] # "new" ~> pc[c] \in {"done", "dead"}
=============================================================================
