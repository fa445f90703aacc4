------------------------------ MODULE BoltClient ------------------------------
(***************************************************************************)
(* Real calls on the wire: ExecuteDirectIfPossible and nextRequestID       *)
(* (internal/core/invoke/direct.go), InvokeDirect                          *)
(* (internal/sofarpcwire/client.go) and Invoke (internal/boltclient/       *)
(* client.go).  Every call dials a connection of its own, writes one frame *)
(* and reads one; calls share the request id counter and whatever answers  *)
(* them.                                                                   *)
(*                                                                         *)
(* The other side is free: it may answer late, in pieces, with a frame     *)
(* that is not an answer, or (a proxy) with the answer to another request. *)
(* An answer carries the id of the request it answers.                     *)
(***************************************************************************)
EXTENDS Naturals, FiniteSets

CONSTANTS
  Calls,
  IdSpace,         \* 2^32, the number of values of a request id
  LengthSpace,     \* 2^32, the number of values of a content length
  DefaultTimeout,  \* what a timeout of zero stands for
  DefaultMax,      \* boltclient.DefaultMaxResponseBytes
  Timeouts,        \* bound of the model: timeouts of plans
  ContextTimeouts, \* bound of the model: deadlines that contexts come with
  ConnectTimeout,  \* connectTimeoutMs of the plans
  Limits,          \* bound of the model: SOFARPC_MAX_RESPONSE_BYTES, zero: unset
  Answers,         \* bound of the model: frames that peers send
  MaxTime,         \* bound of the model: the last instant
  None

ASSUME BoltAssumption ==
  /\ IdSpace \in Nat \ {0, 1}
  /\ LengthSpace \in Nat \ {0}
  /\ {DefaultTimeout, DefaultMax} \subseteq Nat \ {0}
  /\ Timeouts \cup Limits \cup {ConnectTimeout, MaxTime} \subseteq Nat
  /\ ContextTimeouts \subseteq Nat \cup {None}
  /\ None \notin Nat \cup Calls

(* Without a limiter all calls can be in flight, and so could their ids:   *)
(* more calls than ids would have to share them.                           *)
ASSUME FewCalls == IsFiniteSet(Calls) /\ Cardinality(Calls) < IdSpace

(* valid: protocol code, type, command, version and codec are as expected; *)
(* map: the header section decodes.                                        *)
Answer ==
  [valid : BOOLEAN, class : Nat, header : Nat, content : 0..LengthSpace - 1, map : BOOLEAN,
   payload : {"undecodable", "error", "value"}]

ASSUME AnswersAssumption == Answers \subseteq Answer

VARIABLES
  counter,   \* requestIDCounter
  limit,     \* maxResponseBytesFromEnv()
  clock,
  call,      \* call[c] : what the goroutine of the call knows
  wire,      \* wire[c] : the frame that arrives on the connection of c, or None
  sent       \* calls whose request was written

vars == <<counter, limit, clock, call, wire, sent>>

Ids == 0..IdSpace - 1

PCs == {"idle", "id", "build", "dial", "write", "header", "body", "done"}

(* Where the connection is open and its deadline set. *)
Exchange == {"write", "header", "body"}

Fresh ==
  [pc |-> "idle", timeout |-> 0, context |-> None, dialed |-> 0, id |-> 0,
   connected |-> None, deadline |-> None, body |-> 0, outcome |-> "none", report |-> {}]

(* What the text of an error can contain, as far as it is looked for:      *)
(* "context deadline exceeded" and "i/o timeout" are one word, and so are  *)
(* "hessian", "encode", "serialize" and "marshal".  "connection" is in     *)
(* "connection refused", "connection reset by peer" and "connection timed  *)
(* out" and by itself means nothing to the code.                           *)
ConnectWords == {"dial", "refused", "no such host", "unreachable", "cannot assign"}
Words == ConnectWords \cup {"timeout", "connection", "encode"}

(* Names quoted in a text may bring in any word. *)
Quoted == {{}} \cup {{w} : w \in Words}

(* What the network reports on an open connection: its end or a broken     *)
(* pipe, a reset or a last retransmission, and the refusals and lost       *)
(* routes that it heard of while it retransmitted.                         *)
Reports == {{}, {"connection"}, {"connection", "refused"}, {"unreachable"}}

Outcomes ==
  {"none", "timeout", "connect-failed", "serialize-failed", "protocol-failed",
   "deserialize-failed", "rejected", "ok"}

CallState ==
  [pc : PCs, timeout : Nat, context : Nat \cup {None}, dialed : Nat, id : Ids,
   connected : Nat \cup {None}, deadline : Nat \cup {None}, body : Nat, outcome : Outcomes,
   report : SUBSET Words]   \* history: what the network reported on the open connection

Limit(value) == IF value = 0 THEN DefaultMax ELSE value

Init ==
  /\ counter \in Ids
  /\ limit \in {Limit(v) : v \in Limits}
  /\ clock = 0
  /\ call = [c \in Calls |-> Fresh]
  /\ wire = [c \in Calls |-> None]
  /\ sent = {}

-----------------------------------------------------------------------------
(* classifyDirectInvokeError: by the words of the error's text, whatever   *)
(* the call was doing.                                                     *)
Classify_AnyConnection(text) ==
  IF "timeout" \in text THEN "timeout"
  ELSE IF text \cap (ConnectWords \cup {"connection"}) # {} THEN "connect-failed"
  ELSE IF "encode" \in text THEN "serialize-failed" ELSE "protocol-failed"

Classify_ConnectionTimedOut(text) ==
  IF {"timeout", "connection"} \cap text # {} THEN "timeout"
  ELSE IF text \cap ConnectWords # {} THEN "connect-failed"
  ELSE IF "encode" \in text THEN "serialize-failed" ELSE "protocol-failed"

Classify(text) ==
  IF "timeout" \in text THEN "timeout"
  ELSE IF text \cap ConnectWords # {} THEN "connect-failed"
  ELSE IF "encode" \in text THEN "serialize-failed" ELSE "protocol-failed"

End(c, outcome) == call' = [call EXCEPT ![c].pc = "done", ![c].outcome = outcome]

Fail(c, text) == End(c, Classify(text))

Begin(c) ==
  /\ call[c].pc = "idle"
  /\ \E t \in Timeouts, d \in ContextTimeouts :
       call' = [call EXCEPT ![c].pc = "id",
                            ![c].timeout = IF t = 0 THEN DefaultTimeout ELSE t,
                            ![c].context = IF d = None THEN None ELSE clock + d]
  /\ UNCHANGED <<counter, limit, clock, wire, sent>>

(* nextRequestID: one atomic addition, and another one when it gave zero. *)
TakeId_OneForZero(c) ==
  LET next == (counter + 1) % IdSpace IN
  /\ call[c].pc = "id"
  /\ counter' = next
  /\ call' = [call EXCEPT ![c].pc = "build", ![c].id = IF next = 0 THEN 1 ELSE next]
  /\ UNCHANGED <<limit, clock, wire, sent>>

TakeId(c) ==
  LET next == (counter + 1) % IdSpace IN
  /\ call[c].pc = "id"
  /\ counter' = next
  /\ call' = IF next = 0 THEN call ELSE [call EXCEPT ![c].pc = "build", ![c].id = next]
  /\ UNCHANGED <<limit, clock, wire, sent>>

(* BuildGenericRequest and EncodeRequest; an error can quote the keys of   *)
(* the request.                                                            *)
BuildFrame(c) ==
  /\ call[c].pc = "build"
  /\ \/ call[c].id # 0 /\ call' = [call EXCEPT ![c].pc = "dial", ![c].dialed = clock]
     \/ \E text \in Quoted : Fail(c, text)
  /\ UNCHANGED <<counter, limit, clock, wire, sent>>

ContextInTime(c) == \A d \in {call[c].context} \ {None} : clock < d

Connect_DeadlineFromContextOnly(c) ==
  /\ call[c].pc = "dial"
  /\ ContextInTime(c)
  /\ call' = [call EXCEPT ![c].pc = "write", ![c].connected = clock, ![c].deadline = call[c].context]
  /\ UNCHANGED <<counter, limit, clock, wire, sent>>

(* The deadline of the context replaces the timeout of the plan. *)
Connect(c) ==
  /\ call[c].pc = "dial"
  /\ ContextInTime(c)
  /\ call' = [call EXCEPT ![c].pc = "write", ![c].connected = clock,
                          ![c].deadline = IF call[c].context # None THEN call[c].context
                                          ELSE clock + call[c].timeout]
  /\ UNCHANGED <<counter, limit, clock, wire, sent>>

(* Refused, unknown or unreachable, cancelled by the client, or out of     *)
(* time: that of the context or of the name service, for no timeout of the *)
(* plan covers the dial.  The text says so, and quotes the address.        *)
DialFails(c) ==
  /\ call[c].pc = "dial"
  /\ \E text \in Quoted : Fail(c, {"dial"} \cup text)
  /\ UNCHANGED <<counter, limit, clock, wire, sent>>

InTime(c) == \A d \in {call[c].deadline} \ {None} : clock < d

Write(c) ==
  /\ call[c].pc = "write"
  /\ InTime(c)
  /\ call' = [call EXCEPT ![c].pc = "header"]
  /\ sent' = sent \cup {c}
  /\ UNCHANGED <<counter, limit, clock, wire>>

PeerAnswers(c) ==
  /\ c \in sent
  /\ call[c].pc # "done"
  /\ wire[c] = None
  /\ \E d \in sent, a \in Answers : wire' = [wire EXCEPT ![c] = [for |-> d, id |-> call[d].id, frame |-> a]]
  /\ UNCHANGED <<counter, limit, clock, call, sent>>

BodyLength_Wraps(a) == (a.class + a.header + a.content) % LengthSpace

(* The sum is taken in 64 bits. *)
BodyLength(a) == a.class + a.header + a.content

(* The body is allocated only below the limit. *)
ReadHeader(c) ==
  LET a == wire[c].frame IN
  /\ call[c].pc = "header"
  /\ InTime(c)
  /\ wire[c] # None
  /\ IF a.valid /\ BodyLength(a) <= limit
     THEN call' = [call EXCEPT ![c].pc = "body", ![c].body = a.class + a.header + a.content]
     ELSE Fail(c, {})
  /\ UNCHANGED <<counter, limit, clock, wire, sent>>

(* What the caller makes of an answer that is its own. *)
Result(a) ==
  IF a.content = 0 \/ a.payload = "undecodable" THEN "deserialize-failed"
  ELSE IF a.payload = "error" THEN "rejected" ELSE "ok"

ReadBody_AnyId(c) ==
  LET a == wire[c].frame IN
  /\ call[c].pc = "body"
  /\ InTime(c)
  /\ IF a.map THEN End(c, Result(a)) ELSE Fail(c, {})
  /\ UNCHANGED <<counter, limit, clock, wire, sent>>

ReadBody(c) ==
  LET a == wire[c].frame IN
  /\ call[c].pc = "body"
  /\ InTime(c)
  /\ IF a.map /\ wire[c].id = call[c].id THEN End(c, Result(a)) ELSE Fail(c, {})
  /\ UNCHANGED <<counter, limit, clock, wire, sent>>

(* The connection breaks, also in the middle of a frame. *)
ConnectionBreaks(c) ==
  /\ call[c].pc \in Exchange
  /\ \E text \in Reports :
       call' = [call EXCEPT ![c].pc = "done", ![c].outcome = Classify(text), ![c].report = text]
  /\ UNCHANGED <<counter, limit, clock, wire, sent>>

DeadlineFires(c) ==
  /\ call[c].pc \in Exchange
  /\ ~InTime(c)
  /\ Fail(c, {"timeout"})
  /\ UNCHANGED <<counter, limit, clock, wire, sent>>

(* Timers are prompt: time does not pass by a deadline that has come. *)
Tick ==
  /\ clock < MaxTime
  /\ \A c \in Calls :
       /\ call[c].pc \in Exchange => InTime(c)
       /\ call[c].pc = "dial" => ContextInTime(c)
  /\ clock' = clock + 1
  /\ UNCHANGED <<counter, limit, call, wire, sent>>

Next ==
  \/ \E c \in Calls :
       \/ Begin(c) \/ TakeId(c) \/ BuildFrame(c) \/ Connect(c) \/ DialFails(c)
       \/ Write(c) \/ PeerAnswers(c) \/ ReadHeader(c) \/ ReadBody(c)
       \/ ConnectionBreaks(c) \/ DeadlineFires(c)
  \/ Tick

Spec == Init /\ [][Next]_vars

-----------------------------------------------------------------------------
(* In particular no body is read that is longer than the limit. *)
TypeOK ==
  /\ counter \in Ids
  /\ limit \in Nat \ {0}
  /\ clock \in Nat
  /\ sent \subseteq Calls
  /\ wire \in [Calls -> [for : Calls, id : Ids, frame : Answers] \cup {None}]
  /\ call \in [Calls -> CallState]
  /\ \A c \in Calls : call[c].body <= limit

(* Even if answers get mixed up on the way, what a call reports as the     *)
(* service's answer, a value or an error, answers its own request: ids are *)
(* never zero and differ between the calls of one round of the counter,    *)
(* whatever value the process started it with.                             *)
OwnAnswer ==
  \A c \in Calls : call[c].outcome \in {"ok", "rejected"} =>
    /\ wire[c].for = c
    /\ wire[c].frame.valid
    /\ wire[c].frame.map

(* Once it is connected, a call ends by the deadline of its context, else  *)
(* after the timeout of its plan, however slowly the peer lets the answer  *)
(* trickle in.  While it dials only the context bounds it, and a context   *)
(* that is over already ends the dial at once.                             *)
ExchangeWithinTimeout ==
  \A c \in Calls :
    /\ call[c].pc \in Exchange =>
         clock <= IF call[c].context # None THEN call[c].context ELSE call[c].connected + call[c].timeout
    /\ call[c].pc = "dial" /\ call[c].context # None =>
         clock <= call[c].context \/ clock <= call[c].dialed

(* What an error says of a request that was sent, and that the service may *)
(* have executed, although all errors are told apart by their words alone: *)
(* it timed out only if the deadline of its connection has come, its       *)
(* connect failed only if the network reported so on the open connection,  *)
(* and it could be serialized.                                             *)
ErrorsOfSentRequests ==
  \A c \in sent :
    /\ call[c].outcome = "timeout" => call[c].deadline # None /\ call[c].deadline <= clock
    /\ call[c].outcome = "connect-failed" => call[c].report \cap {"refused", "unreachable"} # {}
    /\ call[c].outcome # "serialize-failed"

(* "connect timeout in milliseconds" (the flag of setup): no call dials    *)
(* for longer.                                                             *)
ConnectWithinTimeout ==
  \A c \in Calls : call[c].pc = "dial" => clock <= call[c].dialed + ConnectTimeout
=============================================================================
