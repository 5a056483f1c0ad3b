----------------------------- MODULE TopupFcgi -----------------------------
(***************************************************************************)
(* The FCGI fronts before the thrift server of OrderIntake: each process   *)
(* takes one request of a buyer at a time, opens a connection, calls       *)
(* SendRequest on it and waits two seconds for the reply.  The server      *)
(* knows nothing of a front that waits no longer.  (TopupFcgi.cpp.)        *)
(***************************************************************************)
EXTENDS OrderIntake

CONSTANTS
    Fronts,    \* the processes the web server has started
    Nobody     \* no request, no connection

ASSUME FrontAssumption == Nobody \notin Requests

VARIABLES
    front,     \* what a process does: FCGI_Accept, the call, or not there
    serving,   \* the request it serves
    open,      \* the connections it has open, each named after its request
    sent,      \* the calls that have reached the server
    wire,      \* replies on a connection that the front has not read
    heard      \* what the buyer of a request was answered

frontVars == <<front, serving, open, sent, wire, heard>>
callVars == <<pc, response, cached, inError, rows, queued, before, expired>>

(* The page a front makes itself, EchoXML.                                 *)
Answers == Responses \cup {"error"}

(* The answer of the buyer's request is printed, and FCGI_Accept called.   *)
Answer(f, r, answer) ==
    /\ heard' = [heard EXCEPT ![r] = answer]
    /\ front' = [front EXCEPT ![f] = "accept"]
    /\ serving' = [serving EXCEPT ![f] = Nobody]

CanAccept(f, r) ==
    /\ front[f] = "accept"
    /\ heard[r] = "none" /\ r \notin sent
    /\ \A g \in Fronts : serving[g] # r

(* No parameters, too many, or fewer than the header says.                 *)
RejectForm(f, r) ==
    /\ CanAccept(f, r)
    /\ Answer(f, r, "error")
    /\ UNCHANGED <<open, sent, wire, vars>>

OpenProtocol(f, r) == open' = [open EXCEPT ![f] = @ \cup {r}]
CloseProtocol(f, r) == open' = [open EXCEPT ![f] = @ \ {r}]

(* The connection is made, or not: the result is not looked at.            *)
Accept(f, r) ==
    /\ CanAccept(f, r)
    /\ \/ OpenProtocol(f, r) /\ NoFault
       \/ UNCHANGED open /\ Fault({})
    /\ front' = [front EXCEPT ![f] = "opened"]
    /\ serving' = [serving EXCEPT ![f] = r]
    /\ UNCHANGED <<sent, wire, heard, callVars>>

(* Mutant: "continue" without CloseProtocol, as in WeixinFcgi.cpp:305.     *)
NoChecksumUnclosed(f) ==
    /\ front[f] = "opened"
    /\ Answer(f, serving[f], "error")
    /\ Fault({})
    /\ UNCHANGED <<open, sent, wire, callVars>>

(* str2md5 gets no memory.                                                 *)
NoChecksum(f) ==
    /\ front[f] = "opened"
    /\ Answer(f, serving[f], "error")
    /\ CloseProtocol(f, serving[f])
    /\ Fault({})
    /\ UNCHANGED <<sent, wire, callVars>>

(* SendRequest is written to an open connection.                           *)
Call(f) ==
    /\ front[f] = "opened"
    /\ serving[f] \in open[f]
    /\ front' = [front EXCEPT ![f] = "waiting"]
    /\ sent' = sent \cup {serving[f]}
    /\ UNCHANGED <<serving, open, wire, heard, vars>>

(* The reply is read; an empty one is an error of the front.               *)
ReadReply(f) ==
    /\ front[f] = "waiting"
    /\ \E answer \in wire[serving[f]] :
          Answer(f, serving[f], IF answer = "none" THEN "error" ELSE answer)
    /\ wire' = [wire EXCEPT ![serving[f]] = {}]
    /\ CloseProtocol(f, serving[f])
    /\ UNCHANGED <<sent, vars>>

(* The process ends, and the system closes its connections.                *)
FrontDies(f) ==
    /\ front' = [front EXCEPT ![f] = "down"]
    /\ serving' = [serving EXCEPT ![f] = Nobody]
    /\ open' = [open EXCEPT ![f] = {}]
    /\ wire' = [wire EXCEPT ![serving[f]] = {}]
    /\ UNCHANGED <<sent, heard>>

(* Mutant: the exception is caught and answered with an error.             *)
ThrowsCaught(f) ==
    /\ front[f] = "waiting"
    /\ Fault({})
    /\ Answer(f, serving[f], "error")
    /\ CloseProtocol(f, serving[f])
    /\ UNCHANGED <<sent, wire, callVars>>

(* SendRequest throws, and nobody catches: the connection was never made,  *)
(* or is lost with the server, or the reply takes longer than two seconds. *)
Throws(f) ==
    /\ \/ front[f] \in {"opened", "waiting"} /\ serving[f] \notin open[f] /\ NoFault
       \/ front[f] = "waiting" /\ Fault({})
    /\ FrontDies(f)
    /\ UNCHANGED callVars

(* The web server starts another process.                                  *)
StartFront(f) ==
    /\ front[f] = "down"
    /\ front' = [front EXCEPT ![f] = "accept"]
    /\ UNCHANGED <<serving, open, sent, wire, heard, vars>>

(* The server's thread: a step of the handler, and with its last the reply *)
(* is written to the connection of the call, if that is still open.        *)
Serve(r) ==
    /\ r \in sent
    /\ Handle(r)
    /\ wire' = IF pc'[r] = "replied" /\ \E f \in Fronts : r \in open[f]
               THEN [wire EXCEPT ![r] = {response'[r]}]
               ELSE wire
    /\ UNCHANGED <<front, serving, open, sent, heard>>

(* With the server go its ends of the connections, and the calls it had    *)
(* not read.  A reply that has arrived can still be read.                  *)
ServerDies ==
    /\ ServerCrash
    /\ open' = [f \in Fronts |-> {}]
    /\ sent' = {r \in sent : pc[r] # "new"}
    /\ UNCHANGED <<front, serving, wire, heard>>

CacheExpires == (\E n \in Numbers : Expire(n)) /\ UNCHANGED frontVars

FrontsInit ==
    /\ Init
    /\ front = [f \in Fronts |-> "accept"]
    /\ serving = [f \in Fronts |-> Nobody]
    /\ open = [f \in Fronts |-> {}]
    /\ sent = {}
    /\ wire = [r \in Requests |-> {}]
    /\ heard = [r \in Requests |-> "none"]

FrontsNext ==
    \/ \E f \in Fronts, r \in Requests : RejectForm(f, r) \/ Accept(f, r)
    \/ \E f \in Fronts : NoChecksum(f) \/ Call(f) \/ ReadReply(f) \/ Throws(f) \/ StartFront(f)
    \/ \E r \in Requests : Serve(r)
    \/ ServerDies \/ CacheExpires

FrontsSpec == FrontsInit /\ [][FrontsNext]_<<vars, frontVars>>

(***************************************************************************)
(* Properties                                                              *)
(***************************************************************************)

(* Type invariant.                                                         *)
FrontsTypeOK ==
    /\ TypeOK
    /\ front \in [Fronts -> {"accept", "opened", "waiting", "down"}]
    /\ serving \in [Fronts -> Requests \cup {Nobody}]
    /\ open \in [Fronts -> SUBSET Requests]
    /\ sent \subseteq Requests
    /\ wire \in [Requests -> SUBSET Responses]
    /\ heard \in [Requests -> Answers]

(* The buyer may rely on an answer, whatever processes end and replies are *)
(* late: one who reads UNDERWAY has a row and a place in the list, one who *)
(* reads a failure, the server's or the front's, has neither, unless a     *)
(* fault hit the call itself.  Only silence leaves it open.                *)
AnswerIsTrue ==
    \A r \in Charges \ faulted :
        /\ heard[r] = "UNDERWAY" => r \in rows /\ r \in queued
        /\ heard[r] \in {"ORDER_FAILED", "error"} => r \notin rows /\ r \notin queued

(* A front that waits for requests has closed all its connections.         *)
ConnectionsClosed == \A f \in Fronts : front[f] = "accept" => open[f] = {}
=============================================================================
