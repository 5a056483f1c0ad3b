---------------------------- MODULE RedisWorker ----------------------------
(***************************************************************************)
(* The loop that the charge, query and notify threads share: poll a redis  *)
(* list, count the polls that bring nothing, ping and reconnect after more *)
(* than five of them, sleep longer when idle and shorter when busy, leave  *)
(* when redis stays away or at a SIGTERM.  The lists outlive an outage of  *)
(* the redis server, the connections do not.  (OrderHandler.cpp,           *)
(* RedisClient.cpp.)                                                       *)
(***************************************************************************)
EXTENDS Naturals

CONSTANTS
    Workers,
    MaxFails,     \* failed polls before a ping: 5
    InitialSleep, \* INITIAL_SLEEP_TIME, in steps of 10
    MaxSleep,     \* MAX_SLEEP_TIME, in steps of 10
    MaxMessages,  \* bound: messages pushed in a behaviour
    MaxOutages    \* bound: outages of the redis server in a behaviour

ASSUME WorkerAssumption ==
    /\ MaxFails \in Nat /\ InitialSleep \in Nat /\ MaxSleep \in Nat
    /\ InitialSleep <= MaxSleep
    /\ MaxMessages \in Nat /\ MaxOutages \in Nat

VARIABLES
    server, outages, \* the redis server, how often it went away
    list, pushed,    \* length of the list, messages ever pushed
    handler_status,
    place,           \* per worker: "start", "loop", "ping", "connect" or "exited"
    alive,           \* per worker: its connection still works
    fail_time, sleep_time

workerVars == <<place, alive, fail_time, sleep_time>>
vars == <<server, outages, list, pushed, handler_status, workerVars>>

Goto(w, p) == place' = [place EXCEPT ![w] = p]

(* Mutant: "sleep_time <= MAX_SLEEP_TIME".                                 *)
SleepLongerOffByOne(w) ==
    sleep_time' = [sleep_time EXCEPT ![w] = IF @ <= MaxSleep THEN @ + 1 ELSE @]

SleepLonger(w) == sleep_time' = [sleep_time EXCEPT ![w] = IF @ < MaxSleep THEN @ + 1 ELSE @]
SleepLess(w) == sleep_time' = [sleep_time EXCEPT ![w] = IF @ > 0 THEN @ - 1 ELSE @]

(* The thread's first connect.                                             *)
Connect(w) ==
    /\ place[w] = "start"
    /\ IF server = "up"
       THEN Goto(w, "loop") /\ alive' = [alive EXCEPT ![w] = TRUE]
       ELSE Goto(w, "exited") /\ UNCHANGED alive
    /\ UNCHANGED <<server, outages, list, pushed, handler_status, fail_time, sleep_time>>

CanPoll(w) == place[w] = "loop" /\ handler_status = "Normal"

(* RPOP returns a message, which is handled; fail_time is left as it is.   *)
Dequeue(w) ==
    /\ CanPoll(w)
    /\ alive[w] /\ list > 0
    /\ list' = list - 1
    /\ SleepLess(w)
    /\ UNCHANGED <<server, outages, pushed, handler_status, place, alive, fail_time>>

(* RPOP returns nothing, from an empty list or a dead connection alike.    *)
Poll(w) ==
    /\ CanPoll(w)
    /\ ~(alive[w] /\ list > 0)
    /\ fail_time' = [fail_time EXCEPT ![w] = @ + 1]
    /\ IF fail_time'[w] > MaxFails
       THEN Goto(w, "ping") /\ UNCHANGED sleep_time
       ELSE UNCHANGED place /\ SleepLonger(w)
    /\ UNCHANGED <<server, outages, list, pushed, handler_status, alive>>

(* Mutant: the count is cleared whatever the ping says.                    *)
PingForgets(w) ==
    /\ place[w] = "ping"
    /\ fail_time' = [fail_time EXCEPT ![w] = 0]
    /\ Goto(w, "loop")
    /\ SleepLonger(w)
    /\ UNCHANGED <<server, outages, list, pushed, handler_status, alive>>

(* Mutant: the result of the ping is taken the wrong way round.            *)
PingInverted(w) ==
    /\ place[w] = "ping"
    /\ IF alive[w]
       THEN Goto(w, "exited") /\ UNCHANGED <<fail_time, sleep_time>>
       ELSE /\ fail_time' = [fail_time EXCEPT ![w] = 0]
            /\ Goto(w, "loop")
            /\ SleepLonger(w)
    /\ UNCHANGED <<server, outages, list, pushed, handler_status, alive>>

(* Answered by "PONG" the count starts again; else a new connection.       *)
Ping(w) ==
    /\ place[w] = "ping"
    /\ IF alive[w]
       THEN /\ fail_time' = [fail_time EXCEPT ![w] = 0]
            /\ Goto(w, "loop")
            /\ SleepLonger(w)
       ELSE Goto(w, "connect") /\ UNCHANGED <<fail_time, sleep_time>>
    /\ UNCHANGED <<server, outages, list, pushed, handler_status, alive>>

(* connect: the count stays where it is; the thread returns when refused.  *)
Reconnect(w) ==
    /\ place[w] = "connect"
    /\ IF server = "up"
       THEN /\ alive' = [alive EXCEPT ![w] = TRUE]
            /\ Goto(w, "loop")
            /\ SleepLonger(w)
       ELSE Goto(w, "exited") /\ UNCHANGED <<alive, sleep_time>>
    /\ UNCHANGED <<server, outages, list, pushed, handler_status, fail_time>>

(* The stop is seen at the head of the loop.                               *)
ExitNormally(w) ==
    /\ place[w] = "loop" /\ handler_status = "Stop"
    /\ Goto(w, "exited")
    /\ UNCHANGED <<server, outages, list, pushed, handler_status, alive, fail_time, sleep_time>>

Worker(w) ==
    \/ Connect(w) \/ Dequeue(w) \/ Poll(w) \/ Ping(w) \/ Reconnect(w) \/ ExitNormally(w)

(* Somebody pushes a message.                                              *)
Enqueue ==
    /\ server = "up" /\ pushed < MaxMessages
    /\ list' = list + 1 /\ pushed' = pushed + 1
    /\ UNCHANGED <<server, outages, handler_status, workerVars>>

ServerDown ==
    /\ server = "up" /\ outages < MaxOutages
    /\ server' = "down" /\ outages' = outages + 1
    /\ alive' = [w \in Workers |-> FALSE]
    /\ UNCHANGED <<list, pushed, handler_status, place, fail_time, sleep_time>>

ServerUp ==
    /\ server = "down"
    /\ server' = "up"
    /\ UNCHANGED <<outages, list, pushed, handler_status, workerVars>>

SignalStop ==
    /\ handler_status = "Normal"
    /\ handler_status' = "Stop"
    /\ UNCHANGED <<server, outages, list, pushed, workerVars>>

Init ==
    /\ server = "up" /\ outages = 0
    /\ list = 0 /\ pushed = 0
    /\ handler_status = "Normal"
    /\ place = [w \in Workers |-> "start"]
    /\ alive = [w \in Workers |-> FALSE]
    /\ fail_time = [w \in Workers |-> 0]
    /\ sleep_time = [w \in Workers |-> InitialSleep]

Next ==
    \/ \E w \in Workers : Worker(w)
    \/ Enqueue \/ ServerDown \/ ServerUp \/ SignalStop

Spec == Init /\ [][Next]_vars

(* The threads are scheduled; nothing is assumed of redis or of signals.   *)
FairSpec == Spec /\ \A w \in Workers : WF_vars(Worker(w))

(***************************************************************************)
(* Properties                                                              *)
(***************************************************************************)

Gone(w) == place[w] = "exited"

(* Type invariant.  The sleep stays within its limits, and fail_time, that *)
(* a reconnect does not reset, grows past MaxFails by outages only.        *)
TypeOK ==
    /\ server \in {"up", "down"} /\ outages \in 0..MaxOutages
    /\ list \in 0..MaxMessages /\ pushed \in 0..MaxMessages
    /\ handler_status \in {"Normal", "Stop"}
    /\ place \in [Workers -> {"start", "loop", "ping", "connect", "exited"}]
    /\ alive \in [Workers -> BOOLEAN]
    /\ fail_time \in [Workers -> 0..(MaxFails + MaxOutages + 1)]
    /\ sleep_time \in [Workers -> 0..MaxSleep]

(* However long a list stays empty, no thread gives up: one leaves only    *)
(* after an outage of redis or a SIGTERM.                                  *)
IdleWorkersStay ==
    \A w \in Workers : Gone(w) => outages > 0 \/ handler_status = "Stop"

(* When redis is back for good, the threads that are left find it again    *)
(* and the list is emptied, unless a SIGTERM ends the process.             *)
ListIsServed ==
    <>[](server = "up") =>
        <>(\/ [](list = 0)
           \/ handler_status = "Stop"
           \/ \A w \in Workers : Gone(w))

(* A thread that polls a lost connection notices: while redis is up it is  *)
(* connected again in the end, unless a SIGTERM ends it first              *)
(* (OrderHandler.cpp:234).                                                 *)
Reconnects ==
    \A w \in Workers :
        place[w] = "loop" ~> (server = "down" \/ alive[w] \/ handler_status = "Stop")
=============================================================================
