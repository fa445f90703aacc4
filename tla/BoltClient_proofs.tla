-------------------------- MODULE BoltClient_proofs --------------------------
(* What holds of a call on the wire for every number of calls, every        *)
(* timeout, limit and set of frames that peers send.                        *)
EXTENDS BoltClient, FiniteSetTheorems, TLAPS

(* What the outcome of a request that was sent means.                       *)
Truthful(s, now) ==
  /\ s.outcome = "timeout" => s.deadline \in Nat /\ s.deadline <= now
  /\ s.outcome = "connect-failed" => s.report \cap {"refused", "unreachable"} # {}
  /\ s.outcome # "serialize-failed"

(* One call: it reads within the limit; it has no outcome before it is      *)
(* done; once its request is sent it is past its dial and its outcome is    *)
(* truthful; its deadline is fixed when it connects, and time passes        *)
(* neither that nor, during the dial, the deadline of the context.          *)
GoodCall(s, now, isSent) ==
  /\ s \in CallState
  /\ s.body <= limit
  /\ s.pc # "done" => s.outcome = "none"
  /\ isSent => s.pc \in {"header", "body", "done"} /\ Truthful(s, now)
  /\ s.pc \in Exchange =>
       /\ s.connected \in Nat
       /\ s.deadline \in Nat
       /\ s.deadline = IF s.context # None THEN s.context ELSE s.connected + s.timeout
       /\ now <= s.deadline
  /\ s.pc = "dial" /\ s.context # None => now <= s.context \/ now <= s.dialed

Shared ==
  /\ counter \in Ids
  /\ limit \in Nat \ {0}
  /\ clock \in Nat
  /\ sent \subseteq Calls
  /\ wire \in [Calls -> [for : Calls, id : Ids, frame : Answers] \cup {None}]

IInv ==
  /\ Shared
  /\ call \in [Calls -> CallState]
  /\ \A c \in Calls : GoodCall(call[c], clock, c \in sent)

LEMMA NoneIsNoNumber == None \notin Nat
  BY BoltAssumption

(* The next id is an id again. *)
LEMMA NextIsId == \A n \in Ids : (n + 1) % IdSpace \in Ids
  BY BoltAssumption, Z3 DEF Ids

LEMMA InitInv == Init => IInv
  <1>. SUFFICES ASSUME Init PROVE IInv
    OBVIOUS
  <1>1. limit \in Nat \ {0}
    BY BoltAssumption DEF Init, Limit
  <1>2. Fresh \in CallState
    BY BoltAssumption DEF Fresh, CallState, PCs, Ids, Outcomes, Words
  <1>3. Shared
    BY <1>1 DEF Init, Shared
  <1>4. ASSUME NEW c \in Calls PROVE GoodCall(call[c], clock, c \in sent)
    <2>1. call[c] = Fresh /\ c \notin sent
      BY DEF Init
    <2>2. Fresh.body <= limit /\ Fresh.pc = "idle" /\ Fresh.outcome = "none"
      BY <1>1 DEF Fresh
    <2>. QED
      BY <1>2, <2>1, <2>2 DEF GoodCall, Exchange
  <1>. QED
    BY <1>2, <1>3, <1>4 DEF Init, IInv

(* A step of one call only has to keep that call good. *)
LEMMA OneCallSteps ==
  ASSUME IInv, Shared', UNCHANGED <<limit, clock>>,
         NEW c \in Calls, NEW s, call' = [call EXCEPT ![c] = s],
         GoodCall(s, clock, c \in sent'),
         \A d \in Calls : d # c => (d \in sent' <=> d \in sent)
  PROVE  IInv'
  <1>1. s \in CallState
    BY DEF GoodCall
  <1>2. call' \in [Calls -> CallState]
    BY <1>1 DEF IInv
  <1>3. ASSUME NEW d \in Calls PROVE GoodCall(call[d], clock, d \in sent)'
    <2>1. CASE d = c
      <3>1. call'[d] = s
        BY <2>1 DEF IInv
      <3>. QED
        BY <2>1, <3>1 DEF GoodCall
    <2>2. CASE d # c
      <3>1. call'[d] = call[d]
        BY <2>2 DEF IInv
      <3>2. GoodCall(call[d], clock, d \in sent)
        BY DEF IInv
      <3>. QED
        BY <2>2, <3>1, <3>2 DEF GoodCall
    <2>. QED
      BY <2>1, <2>2
  <1>. QED
    BY <1>2, <1>3 DEF IInv

(* A call that ends, truthfully if its request was sent, stays good.        *)
LEMMA DoneKeepsInv ==
  ASSUME IInv, NEW c \in Calls, NEW s \in CallState, call' = [call EXCEPT ![c] = s],
         s.pc = "done", s.body = call[c].body, c \in sent => Truthful(s, clock),
         UNCHANGED <<counter, limit, clock, wire, sent>>
  PROVE  IInv'
  <1>1. GoodCall(call[c], clock, c \in sent)
    BY DEF IInv
  <1>2. GoodCall(s, clock, c \in sent')
    BY <1>1 DEF GoodCall, Exchange
  <1>3. Shared'
    BY DEF IInv, Shared
  <1>. QED
    BY <1>2, <1>3, OneCallSteps

LEMMA EndKeepsInv ==
  ASSUME IInv, NEW c \in Calls, NEW outcome \in Outcomes, End(c, outcome),
         c \in sent =>
           \/ outcome \notin {"timeout", "connect-failed", "serialize-failed"}
           \/ /\ outcome = "timeout"
              /\ call[c].deadline \in Nat
              /\ call[c].deadline <= clock,
         UNCHANGED <<counter, limit, clock, wire, sent>>
  PROVE  IInv'
  <1>. DEFINE s == [call[c] EXCEPT !.pc = "done", !.outcome = outcome]
  <1>1. call[c] \in CallState
    BY DEF IInv
  <1>2. call' = [call EXCEPT ![c] = s]
    BY DEF End
  <1>3. /\ s \in CallState
        /\ s.pc = "done" /\ s.outcome = outcome /\ s.body = call[c].body
        /\ s.deadline = call[c].deadline
    BY <1>1 DEF CallState, PCs
  <1>. HIDE DEF s
  <1>4. c \in sent => Truthful(s, clock)
    BY <1>3 DEF Truthful
  <1>. QED
    BY <1>2, <1>3, <1>4, DoneKeepsInv

(* An error of a request that was sent names none of the words, or it is    *)
(* the deadline's.                                                          *)
LEMMA FailKeepsInv ==
  ASSUME IInv, NEW c \in Calls, NEW text, Fail(c, text),
         c \in sent =>
           \/ text = {}
           \/ /\ text = {"timeout"}
              /\ call[c].deadline \in Nat
              /\ call[c].deadline <= clock,
         UNCHANGED <<counter, limit, clock, wire, sent>>
  PROVE  IInv'
  <1>. DEFINE outcome == Classify(text)
  <1>1. outcome \in Outcomes
    BY DEF Classify, Outcomes
  <1>2. text = {} => outcome = "protocol-failed"
    BY DEF Classify
  <1>3. text = {"timeout"} => outcome = "timeout"
    BY DEF Classify
  <1>4. End(c, outcome)
    BY DEF Fail
  <1>. HIDE DEF outcome
  <1>. QED
    BY <1>1, <1>2, <1>3, <1>4, EndKeepsInv

LEMMA FrameFailsInv ==
  ASSUME IInv, NEW c \in Calls, Fail(c, {}), UNCHANGED <<counter, limit, clock, wire, sent>>
  PROVE  IInv'
  <1>1. PICK text : text = {}
    OBVIOUS
  <1>2. Fail(c, text)
    BY <1>1
  <1>. QED
    BY <1>1, <1>2, FailKeepsInv

LEMMA BeginInv == ASSUME IInv, NEW c \in Calls, Begin(c) PROVE IInv'
  <1>1. PICK t \in Timeouts, d \in ContextTimeouts :
          call' = [call EXCEPT ![c].pc = "id",
                               ![c].timeout = IF t = 0 THEN DefaultTimeout ELSE t,
                               ![c].context = IF d = None THEN None ELSE clock + d]
    BY DEF Begin
  <1>. DEFINE timeout == IF t = 0 THEN DefaultTimeout ELSE t
              context == IF d = None THEN None ELSE clock + d
              s == [call[c] EXCEPT !.pc = "id", !.timeout = timeout, !.context = context]
  <1>2. call[c] \in CallState /\ GoodCall(call[c], clock, c \in sent) /\ call[c].pc = "idle"
    BY DEF IInv, Begin
  <1>3. clock \in Nat /\ timeout \in Nat /\ context \in Nat \cup {None}
    BY BoltAssumption DEF IInv, Shared
  <1>4. call' = [call EXCEPT ![c] = s]
    BY <1>1
  <1>. HIDE DEF timeout, context
  <1>5. /\ s \in CallState
        /\ s.pc = "id" /\ s.outcome = call[c].outcome /\ s.body = call[c].body
    BY <1>2, <1>3 DEF CallState, PCs
  <1>6. GoodCall(s, clock, c \in sent')
    BY <1>2, <1>5 DEF GoodCall, Exchange, Begin
  <1>7. Shared' /\ UNCHANGED <<limit, clock, sent>>
    BY DEF IInv, Shared, Begin
  <1>. HIDE DEF s
  <1>. QED
    BY <1>4, <1>6, <1>7, OneCallSteps

LEMMA TakeIdInv == ASSUME IInv, NEW c \in Calls, TakeId(c) PROVE IInv'
  <1>. DEFINE next == (counter + 1) % IdSpace
              s == IF next = 0 THEN call[c] ELSE [call[c] EXCEPT !.pc = "build", !.id = next]
  <1>1. next \in Ids
    BY NextIsId DEF IInv, Shared
  <1>2. call[c] \in CallState /\ GoodCall(call[c], clock, c \in sent) /\ call[c].pc = "id"
    BY DEF IInv, TakeId
  <1>3. Shared' /\ UNCHANGED <<limit, clock, sent>>
    BY <1>1 DEF IInv, Shared, TakeId
  <1>4. call' = [call EXCEPT ![c] = s]
    BY DEF TakeId, IInv
  <1>. HIDE DEF next
  <1>5. /\ s \in CallState
        /\ s.pc \in {"id", "build"} /\ s.outcome = call[c].outcome /\ s.body = call[c].body
    BY <1>1, <1>2 DEF CallState, PCs
  <1>6. GoodCall(s, clock, c \in sent')
    BY <1>2, <1>3, <1>5 DEF GoodCall, Exchange
  <1>. HIDE DEF s
  <1>. QED
    BY <1>3, <1>4, <1>6, OneCallSteps

LEMMA BuildFrameInv == ASSUME IInv, NEW c \in Calls, BuildFrame(c) PROVE IInv'
  <1>1. UNCHANGED <<counter, limit, clock, wire, sent>>
    BY DEF BuildFrame
  <1>2. c \notin sent
    BY DEF BuildFrame, IInv, GoodCall
  <1>3. CASE \E text \in Quoted : Fail(c, text)
    BY <1>1, <1>2, <1>3, FailKeepsInv
  <1>4. CASE call' = [call EXCEPT ![c].pc = "dial", ![c].dialed = clock]
    <2>. DEFINE s == [call[c] EXCEPT !.pc = "dial", !.dialed = clock]
    <2>1. /\ call[c] \in CallState /\ GoodCall(call[c], clock, c \in sent)
          /\ call[c].pc = "build" /\ clock \in Nat
      BY DEF IInv, Shared, BuildFrame
    <2>2. call' = [call EXCEPT ![c] = s]
      BY <1>4
    <2>3. /\ s \in CallState
          /\ s.pc = "dial" /\ s.dialed = clock
          /\ s.outcome = call[c].outcome /\ s.body = call[c].body
      BY <2>1 DEF CallState, PCs
    <2>4. GoodCall(s, clock, c \in sent')
      BY <1>1, <2>1, <2>3 DEF GoodCall, Exchange
    <2>5. Shared'
      BY <1>1 DEF IInv, Shared
    <2>. HIDE DEF s
    <2>. QED
      BY <1>1, <2>2, <2>4, <2>5, OneCallSteps
  <1>. QED
    BY <1>3, <1>4 DEF BuildFrame

(* The deadline that is set here is not past: that of the context was not   *)
(* when the dial ended.                                                     *)
LEMMA ConnectInv == ASSUME IInv, NEW c \in Calls, Connect(c) PROVE IInv'
  <1>. DEFINE d == IF call[c].context # None THEN call[c].context ELSE clock + call[c].timeout
              s == [call[c] EXCEPT !.pc = "write", !.connected = clock, !.deadline = d]
  <1>1. /\ call[c] \in CallState /\ GoodCall(call[c], clock, c \in sent)
        /\ call[c].pc = "dial" /\ clock \in Nat
    BY DEF IInv, Shared, Connect
  <1>2. d \in Nat /\ clock <= d
    <2>1. CASE call[c].context # None
      <3>1. call[c].context \in Nat
        BY <1>1, <2>1 DEF CallState
      <3>2. clock < call[c].context
        BY <2>1 DEF Connect, ContextInTime
      <3>. QED
        BY <1>1, <2>1, <3>1, <3>2
    <2>2. CASE call[c].context = None
      BY <1>1, <2>2 DEF CallState
    <2>. QED
      BY <2>1, <2>2
  <1>3. call' = [call EXCEPT ![c] = s] /\ UNCHANGED <<counter, limit, clock, wire, sent>>
    BY DEF Connect
  <1>4. /\ s \in CallState
        /\ s.pc = "write" /\ s.outcome = call[c].outcome /\ s.body = call[c].body
        /\ s.connected = clock /\ s.deadline = d /\ s.context = call[c].context
        /\ s.timeout = call[c].timeout
    <2>. HIDE DEF d
    <2>. QED
      BY <1>1, <1>2 DEF CallState, PCs
  <1>5. GoodCall(s, clock, c \in sent')
    BY <1>1, <1>2, <1>3, <1>4 DEF GoodCall
  <1>6. Shared'
    BY <1>3 DEF IInv, Shared
  <1>. HIDE DEF s
  <1>. QED
    BY <1>3, <1>5, <1>6, OneCallSteps

LEMMA WriteInv == ASSUME IInv, NEW c \in Calls, Write(c) PROVE IInv'
  <1>. DEFINE s == [call[c] EXCEPT !.pc = "header"]
  <1>1. /\ call[c] \in CallState /\ GoodCall(call[c], clock, c \in sent)
        /\ call[c].pc = "write"
    BY DEF IInv, Write
  <1>2. /\ call' = [call EXCEPT ![c] = s]
        /\ sent' = sent \cup {c} /\ UNCHANGED <<counter, limit, clock, wire>>
    BY DEF Write
  <1>3. /\ s \in CallState
        /\ s.pc = "header" /\ s.outcome = call[c].outcome /\ s.body = call[c].body
        /\ s.connected = call[c].connected /\ s.deadline = call[c].deadline
        /\ s.context = call[c].context /\ s.timeout = call[c].timeout
    BY <1>1 DEF CallState, PCs
  <1>4. GoodCall(s, clock, c \in sent')
    BY <1>1, <1>2, <1>3 DEF GoodCall, Exchange, Truthful
  <1>5. Shared'
    BY <1>2 DEF IInv, Shared
  <1>. HIDE DEF s
  <1>. QED
    BY <1>2, <1>4, <1>5, OneCallSteps

(* A frame arrives: its answer is one of Answers, its id that of a call.    *)
LEMMA PeerAnswersInv == ASSUME IInv, NEW c \in Calls, PeerAnswers(c) PROVE IInv'
  <1>1. PICK d \in sent, a \in Answers :
          wire' = [wire EXCEPT ![c] = [for |-> d, id |-> call[d].id, frame |-> a]]
    BY DEF PeerAnswers
  <1>2. d \in Calls /\ call[d].id \in Ids
    BY DEF IInv, Shared, CallState
  <1>3. Shared'
    BY <1>1, <1>2 DEF IInv, Shared, PeerAnswers
  <1>. QED
    BY <1>3 DEF IInv, PeerAnswers, GoodCall

LEMMA ReadHeaderInv == ASSUME IInv, NEW c \in Calls, ReadHeader(c) PROVE IInv'
  <1>. DEFINE a == wire[c].frame
              n == a.class + a.header + a.content
              s == [call[c] EXCEPT !.pc = "body", !.body = n]
  <1>1. UNCHANGED <<counter, limit, clock, wire, sent>>
    BY DEF ReadHeader
  <1>2. CASE Fail(c, {})
    BY <1>1, <1>2, FrameFailsInv
  <1>3. CASE a.valid /\ BodyLength(a) <= limit
    <2>1. /\ call[c] \in CallState /\ GoodCall(call[c], clock, c \in sent)
          /\ call[c].pc = "header"
      BY DEF IInv, ReadHeader
    <2>2. a \in Answer
      BY AnswersAssumption DEF IInv, Shared, ReadHeader
    <2>3. a.class \in Nat /\ a.header \in Nat /\ a.content \in Nat
      BY <2>2 DEF Answer
    <2>4. n \in Nat /\ n <= limit
      BY <1>3, <2>3 DEF BodyLength
    <2>5. call' = [call EXCEPT ![c] = s]
      BY <1>3 DEF ReadHeader
    <2>. HIDE DEF n
    <2>6. /\ s \in CallState
          /\ s.pc = "body" /\ s.outcome = call[c].outcome /\ s.body = n
          /\ s.connected = call[c].connected /\ s.deadline = call[c].deadline
          /\ s.context = call[c].context /\ s.timeout = call[c].timeout
      BY <2>1, <2>4 DEF CallState, PCs
    <2>7. GoodCall(s, clock, c \in sent')
      BY <1>1, <2>1, <2>4, <2>6 DEF GoodCall, Exchange, Truthful
    <2>8. Shared'
      BY <1>1 DEF IInv, Shared
    <2>. HIDE DEF s
    <2>. QED
      BY <1>1, <2>5, <2>7, <2>8, OneCallSteps
  <1>. QED
    BY <1>2, <1>3 DEF ReadHeader

LEMMA ReadBodyInv == ASSUME IInv, NEW c \in Calls, ReadBody(c) PROVE IInv'
  <1>1. UNCHANGED <<counter, limit, clock, wire, sent>> /\ call[c].pc = "body"
    BY DEF ReadBody
  <1>2. CASE Fail(c, {})
    BY <1>1, <1>2, FrameFailsInv
  <1>3. CASE End(c, Result(wire[c].frame))
    <2>1. Result(wire[c].frame) \in Outcomes \ {"timeout", "connect-failed", "serialize-failed"}
      BY DEF Result, Outcomes
    <2>2. PICK outcome : outcome = Result(wire[c].frame)
      OBVIOUS
    <2>3. End(c, outcome)
      BY <1>3, <2>2
    <2>. QED
      BY <1>1, <2>1, <2>2, <2>3, EndKeepsInv
  <1>. QED
    BY <1>2, <1>3 DEF ReadBody

(* Time only passes while no deadline of an open connection has come.       *)
LEMMA TickInv == ASSUME IInv, Tick PROVE IInv'
  <1>1. Shared'
    BY DEF IInv, Shared, Tick
  <1>2. ASSUME NEW c \in Calls PROVE GoodCall(call[c], clock, c \in sent)'
    <2>1. GoodCall(call[c], clock, c \in sent)
      BY DEF IInv
    <2>2. ASSUME call[c].pc \in Exchange PROVE clock + 1 <= call[c].deadline
      <3>1. call[c].deadline \in Nat /\ clock \in Nat
        BY <2>1, <2>2 DEF GoodCall, IInv, Shared
      <3>2. InTime(c)
        BY <2>2 DEF Tick
      <3>3. clock < call[c].deadline
        BY <3>1, <3>2, NoneIsNoNumber DEF InTime
      <3>. QED
        BY <3>1, <3>3
    <2>3. ASSUME call[c].pc = "dial", call[c].context # None PROVE clock + 1 <= call[c].context
      <3>1. call[c].context \in Nat /\ clock \in Nat
        BY <2>1, <2>3 DEF GoodCall, CallState, IInv, Shared
      <3>2. ContextInTime(c)
        BY <2>3 DEF Tick
      <3>3. clock < call[c].context
        BY <2>3, <3>2 DEF ContextInTime
      <3>. QED
        BY <3>1, <3>3
    <2>4. clock \in Nat
      BY DEF IInv, Shared
    <2>5. Truthful(call[c], clock) => Truthful(call[c], clock + 1)
      BY <2>4 DEF Truthful
    <2>. QED
      BY <2>1, <2>2, <2>3, <2>5 DEF GoodCall, Tick
  <1>. QED
    BY <1>1, <1>2 DEF IInv, Tick

(* What the network reports is kept, and reads as a failed connect only if  *)
(* it says so.                                                              *)
LEMMA ConnectionBreaksInv == ASSUME IInv, NEW c \in Calls, ConnectionBreaks(c) PROVE IInv'
  <1>1. PICK text \in Reports :
          call' = [call EXCEPT ![c].pc = "done", ![c].outcome = Classify(text), ![c].report = text]
    BY DEF ConnectionBreaks
  <1>. DEFINE outcome == Classify(text)
              s == [call[c] EXCEPT !.pc = "done", !.outcome = outcome, !.report = text]
  <1>2. call[c] \in CallState /\ text \in SUBSET Words
    BY DEF IInv, Reports, Words, ConnectWords
  <1>3. outcome \in {"protocol-failed", "connect-failed"}
    BY DEF Classify, Reports
  <1>4. outcome = "connect-failed" => text \cap {"refused", "unreachable"} # {}
    <2>1. CASE text = {} \/ text = {"connection"}
      BY <2>1 DEF Classify, ConnectWords
    <2>2. CASE text = {"connection", "refused"} \/ text = {"unreachable"}
      BY <2>2
    <2>. QED
      BY <2>1, <2>2 DEF Reports
  <1>5. call' = [call EXCEPT ![c] = s]
    BY <1>1
  <1>. HIDE DEF outcome
  <1>6. /\ s \in CallState
        /\ s.pc = "done" /\ s.outcome = outcome /\ s.body = call[c].body /\ s.report = text
    BY <1>2, <1>3 DEF CallState, PCs, Outcomes
  <1>. HIDE DEF s
  <1>7. Truthful(s, clock)
    BY <1>3, <1>4, <1>6 DEF Truthful
  <1>. QED
    BY <1>5, <1>6, <1>7, DoneKeepsInv DEF ConnectionBreaks

LEMMA StepInv == IInv /\ [Next]_vars => IInv'
  <1>. SUFFICES ASSUME IInv, [Next]_vars PROVE IInv'
    OBVIOUS
  <1>1. ASSUME NEW c \in Calls, DialFails(c) PROVE IInv'
    <2>1. c \notin sent
      BY <1>1 DEF DialFails, IInv, GoodCall
    <2>. QED
      BY <1>1, <2>1, FailKeepsInv DEF DialFails
  <1>2. ASSUME NEW c \in Calls, ConnectionBreaks(c) PROVE IInv'
    BY <1>2, ConnectionBreaksInv
  <1>3. ASSUME NEW c \in Calls, DeadlineFires(c) PROVE IInv'
    <2>1. /\ call[c].pc \in Exchange /\ ~InTime(c) /\ clock \in Nat
          /\ GoodCall(call[c], clock, c \in sent)
      BY <1>3 DEF DeadlineFires, IInv, Shared
    <2>2. call[c].deadline \in Nat
      BY <2>1 DEF GoodCall
    <2>3. call[c].deadline <= clock
      BY <2>1, <2>2, NoneIsNoNumber DEF InTime
    <2>. QED
      BY <1>3, <2>2, <2>3, FailKeepsInv DEF DeadlineFires
  <1>4. CASE UNCHANGED vars
    BY <1>4 DEF vars, IInv, Shared, GoodCall
  <1>. QED
    BY <1>1, <1>2, <1>3, <1>4, BeginInv, TakeIdInv, BuildFrameInv, ConnectInv, WriteInv,
       PeerAnswersInv, ReadHeaderInv, ReadBodyInv, TickInv DEF Next

LEMMA Inductive == Spec => []IInv
  BY InitInv, StepInv, PTL DEF Spec

(* Every variable keeps its type, and no body that is read is longer than   *)
(* the response limit.                                                      *)
THEOREM TypeCorrect == Spec => []TypeOK
  <1>1. IInv => TypeOK
    BY DEF IInv, Shared, GoodCall, TypeOK
  <1>. QED
    BY <1>1, Inductive, PTL

(* The exchange on a connection never lasts beyond the deadline of the      *)
(* context, else the timeout of the plan, whatever the peer does, and a     *)
(* dial not beyond the deadline of the context, if it has one.              *)
THEOREM TimelyExchange == Spec => []ExchangeWithinTimeout
  <1>1. IInv => ExchangeWithinTimeout
    BY DEF IInv, GoodCall, ExchangeWithinTimeout
  <1>. QED
    BY <1>1, Inductive, PTL

(* What an error says of a request that was sent holds, although it is      *)
(* found out by the words of the text: a timeout had its deadline, a failed *)
(* connect the network's report, and it was serialized.                     *)
THEOREM ErrorsTellWhatHappened == Spec => []ErrorsOfSentRequests
  <1>1. IInv => ErrorsOfSentRequests
    BY NoneIsNoNumber DEF IInv, Shared, GoodCall, Truthful, ErrorsOfSentRequests
  <1>. QED
    BY <1>1, Inductive, PTL

-----------------------------------------------------------------------------
(* The ids that calls have, and the ids that were given out since u was.    *)
Used == {call[c].id : c \in Calls} \ {0}

Since(u) ==
  {v \in Ids \ {0} : IF u <= counter THEN u <= v /\ v <= counter ELSE u <= v \/ v <= counter}

(* No two calls have the same id, because every id that was given out is a  *)
(* call's, and there are fewer calls than ids.                              *)
IdsAreDistinct ==
  /\ \A c, d \in Calls : call[c].id # 0 /\ call[c].id = call[d].id => c = d
  /\ \A u \in Used : Since(u) \subseteq Used

(* A call has its id before it dials, an answer the id of the request it    *)
(* answers, and a call only reads the body of a valid frame that came.      *)
Answered(c) ==
  /\ call[c].pc \in {"idle", "id"} => call[c].id = 0
  /\ call[c].pc \in {"dial"} \cup Exchange \/ c \in sent => call[c].id # 0
  /\ wire[c] # None => wire[c].for \in sent /\ wire[c].id = call[wire[c].for].id
  /\ call[c].pc = "body" => wire[c] # None /\ wire[c].frame.valid
  /\ call[c].outcome \in {"ok", "rejected"} =>
       /\ wire[c] # None /\ wire[c].frame.valid /\ wire[c].frame.map
       /\ call[c].id # 0 /\ wire[c].id = call[c].id

AnswerInv == IdsAreDistinct /\ \A c \in Calls : Answered(c)

(* A call without an id leaves an id that no call has.                      *)
LEMMA AnIdIsFree ==
  ASSUME IInv, NEW c \in Calls, call[c].id = 0
  PROVE  ~(Ids \ {0} \subseteq Used)
  <1>. DEFINE S == {d \in Calls : call[d].id # 0}
              T == 1 .. IdSpace - 1
              f == [d \in S |-> call[d].id]
  <1>1. IdSpace \in Nat \ {0, 1} /\ Ids \ {0} = T
    BY BoltAssumption DEF Ids
  <1>2. IsFiniteSet(T) /\ Cardinality(T) = IdSpace - 1
    <2>1. PICK n \in Nat : n = IdSpace - 1 /\ 1 <= n
      BY <1>1
    <2>2. IsFiniteSet(1 .. n) /\ Cardinality(1 .. n) = IF 1 > n THEN 0 ELSE n - 1 + 1
      BY FS_Interval
    <2>. QED
      BY <2>1, <2>2
  <1>3. /\ IsFiniteSet(Calls \ {c}) /\ Cardinality(Calls \ {c}) = Cardinality(Calls) - 1
        /\ Cardinality(Calls) \in Nat
    BY FewCalls, FS_RemoveElement, FS_CardinalityType
  <1>4. S \subseteq Calls \ {c}
    OBVIOUS
  <1>5. IsFiniteSet(S) /\ Cardinality(S) <= Cardinality(Calls) - 1
    BY <1>3, <1>4, FS_Subset
  <1>6. Cardinality(S) \in Nat
    BY <1>5, FS_CardinalityType
  <1>7. SUFFICES ASSUME T \subseteq Used PROVE FALSE
    BY <1>1
  <1>8. f \in Surjection(S, T)
    <2>1. f \in [S -> T]
      BY <1>1 DEF IInv, CallState
    <2>2. \A u \in T : \E d \in S : f[d] = u
      BY <1>7 DEF Used
    <2>. QED
      BY <2>1, <2>2 DEF Surjection
  <1>9. Cardinality(T) <= Cardinality(S)
    BY <1>5, <1>8, FS_Surjection
  <1>. QED
    BY <1>1, <1>2, <1>3, <1>5, <1>6, <1>9, FewCalls

LEMMA InitAnswered == Init => AnswerInv
  <1>. SUFFICES ASSUME Init PROVE AnswerInv
    OBVIOUS
  <1>1. \A c \in Calls : call[c] = Fresh /\ wire[c] = None /\ c \notin sent
    BY DEF Init
  <1>2. Fresh.id = 0 /\ Fresh.pc = "idle" /\ Fresh.outcome = "none"
    BY DEF Fresh
  <1>3. Used = {}
    BY <1>1, <1>2 DEF Used
  <1>. QED
    BY <1>1, <1>2, <1>3 DEF AnswerInv, IdsAreDistinct, Answered, Exchange

(* The id that is taken next is not a call's, for the ids that were given   *)
(* out since would all be calls'.                                           *)
LEMMA TakeIdDistinct ==
  ASSUME IInv, AnswerInv, NEW c \in Calls, TakeId(c)
  PROVE  IdsAreDistinct'
  <1>0. call[c].id = 0
    BY DEF TakeId, AnswerInv, Answered
  <1>. DEFINE next == (counter + 1) % IdSpace
  <1>1. /\ IdSpace \in Nat \ {0, 1} /\ counter \in 0 .. IdSpace - 1
        /\ Ids = 0 .. IdSpace - 1
    BY BoltAssumption DEF IInv, Shared, Ids
  <1>2. next = IF counter = IdSpace - 1 THEN 0 ELSE counter + 1
    BY <1>1, Z3
  <1>3. counter' = next
    BY DEF TakeId
  <1>. HIDE DEF next
  <1>4. Used \subseteq Ids \ {0}
    BY DEF Used, IInv, CallState
  <1>5. CASE next = 0
    <2>1. call' = call /\ Used' = Used
      BY <1>5 DEF TakeId, Used, next
    <2>2. counter = IdSpace - 1 /\ counter' = 0
      BY <1>1, <1>2, <1>3, <1>5
    <2>3. \A u \in Ids \ {0} : Since(u)' \subseteq Since(u)
      BY <1>1, <2>2 DEF Since
    <2>. QED
      BY <1>4, <2>1, <2>3 DEF AnswerInv, IdsAreDistinct
  <1>6. CASE next # 0
    <2>1. next = counter + 1 /\ next \in Ids
      BY <1>1, <1>2, <1>6
    <2>2. /\ \A d \in Calls : call'[d].id = IF d = c THEN next ELSE call[d].id
      BY <1>6 DEF TakeId, next, IInv, CallState
    <2>3. Used' = Used \cup {next}
      BY <1>0, <1>6, <2>2 DEF Used
    <2>4. next \notin Used
      <3>. SUFFICES ASSUME next \in Used PROVE FALSE
        OBVIOUS
      <3>1. Ids \ {0} \subseteq Since(next)
        BY <1>1, <2>1 DEF Since
      <3>. QED
        BY <1>0, <3>1, AnIdIsFree DEF AnswerInv, IdsAreDistinct
    <2>5. ASSUME NEW d \in Calls, NEW e \in Calls, call'[d].id # 0, call'[d].id = call'[e].id
          PROVE  d = e
      <3>1. \A k \in Calls : k # c => call'[k].id # next \/ call'[k].id = 0
        BY <2>2, <2>4 DEF Used
      <3>. QED
        BY <2>2, <2>5, <3>1 DEF AnswerInv, IdsAreDistinct
    <2>6. ASSUME NEW u \in Used', NEW v \in Since(u)' PROVE v \in Used'
      <3>1. u \in Ids \ {0} /\ v \in Ids \ {0}
        BY <1>4, <1>6, <2>1, <2>3, <2>6 DEF Since
      <3>2. IF u <= next THEN u <= v /\ v <= next ELSE u <= v \/ v <= next
        BY <1>3, <2>6 DEF Since
      <3>3. CASE u = next
        BY <1>1, <2>1, <2>3, <3>1, <3>2, <3>3
      <3>4. CASE u # next /\ v # next
        <4>1. u \in Used
          BY <2>3, <3>4
        <4>2. v \in Since(u)
          BY <1>1, <2>1, <3>1, <3>2, <3>4 DEF Since
        <4>. QED
          BY <2>3, <4>1, <4>2 DEF AnswerInv, IdsAreDistinct
      <3>. QED
        BY <2>3, <3>3, <3>4
    <2>. QED
      BY <2>5, <2>6 DEF IdsAreDistinct
  <1>. QED
    BY <1>5, <1>6

(* What a step does to a call: its id is kept, and of the others            *)
(* everything is.                                                           *)
LEMMA IdsKept ==
  ASSUME AnswerInv, UNCHANGED counter, \A d \in Calls : call'[d].id = call[d].id
  PROVE  IdsAreDistinct'
  <1>1. Used' = Used
    BY DEF Used
  <1>2. \A u : Since(u)' = Since(u)
    BY DEF Since
  <1>. QED
    BY <1>1, <1>2 DEF AnswerInv, IdsAreDistinct

(* A step that keeps every id, and in which a call goes on as it may.       *)
LEMMA AnsweredNext ==
  ASSUME IInv, AnswerInv, UNCHANGED <<counter, wire, sent>>, NEW c \in Calls,
         NEW s, call' = [call EXCEPT ![c] = s], s.id = call[c].id,
         s.pc \notin {"idle"}, s.pc = "id" => call[c].pc = "idle",
         s.pc \in {"dial"} \cup Exchange => s.id # 0,
         s.pc = "body" => wire[c] # None /\ wire[c].frame.valid,
         s.outcome \in {"ok", "rejected"} =>
           /\ wire[c] # None /\ wire[c].frame.valid /\ wire[c].frame.map
           /\ s.id # 0 /\ wire[c].id = s.id
  PROVE  AnswerInv'
  <1>1. \A d \in Calls : call'[d] = IF d = c THEN s ELSE call[d]
    BY DEF IInv
  <1>2. \A d \in Calls : call'[d].id = call[d].id
    BY <1>1
  <1>3. IdsAreDistinct'
    BY <1>2, IdsKept
  <1>4. ASSUME NEW d \in Calls PROVE Answered(d)'
    <2>1. Answered(d)
      BY DEF AnswerInv
    <2>2. wire'[d] # None => wire'[d].for \in sent' /\ wire'[d].id = call'[wire'[d].for].id
      <3>1. wire'[d] # None => wire'[d].for \in Calls
        BY <2>1 DEF Answered, IInv, Shared
      <3>. QED
        BY <1>2, <2>1, <3>1 DEF Answered
    <2>3. CASE d = c
      BY <1>1, <2>1, <2>2, <2>3 DEF Answered
    <2>4. CASE d # c
      BY <1>1, <2>1, <2>2, <2>4 DEF Answered
    <2>. QED
      BY <2>3, <2>4
  <1>. QED
    BY <1>3, <1>4 DEF AnswerInv

LEMMA FailAnswered ==
  ASSUME IInv, AnswerInv, NEW c \in Calls, NEW text, Fail(c, text),
         UNCHANGED <<counter, wire, sent>>
  PROVE  AnswerInv'
  <1>. DEFINE outcome == Classify(text)
              s == [call[c] EXCEPT !.pc = "done", !.outcome = outcome]
  <1>1. outcome \notin {"ok", "rejected"}
    BY DEF Classify
  <1>. HIDE DEF outcome
  <1>2. call[c] \in CallState
    BY DEF IInv
  <1>3. s.pc = "done" /\ s.outcome = outcome /\ s.id = call[c].id
    BY <1>2 DEF CallState
  <1>4. call' = [call EXCEPT ![c] = s]
    BY DEF Fail, End, outcome
  <1>. HIDE DEF s
  <1>. QED
    BY <1>1, <1>3, <1>4, AnsweredNext DEF Exchange

LEMMA NextAnswered ==
  ASSUME IInv, AnswerInv, [Next]_vars
  PROVE  AnswerInv'
  <1>0. \A c \in Calls : call[c] \in CallState /\ Answered(c) /\ GoodCall(call[c], clock, c \in sent)
    BY DEF IInv, AnswerInv
  <1>1. ASSUME NEW c \in Calls, Begin(c) PROVE AnswerInv'
    <2>1. PICK t \in Nat, d \in Nat \cup {None} :
            call' = [call EXCEPT ![c].pc = "id", ![c].timeout = t, ![c].context = d]
      <3>1. PICK t \in Timeouts, d \in ContextTimeouts :
              call' = [call EXCEPT ![c].pc = "id",
                                   ![c].timeout = IF t = 0 THEN DefaultTimeout ELSE t,
                                   ![c].context = IF d = None THEN None ELSE clock + d]
        BY <1>1 DEF Begin
      <3>2. /\ (IF t = 0 THEN DefaultTimeout ELSE t) \in Nat
            /\ (IF d = None THEN None ELSE clock + d) \in Nat \cup {None}
        BY BoltAssumption DEF IInv, Shared
      <3>. QED
        BY <3>1, <3>2
    <2>. DEFINE s == [call[c] EXCEPT !.pc = "id", !.timeout = t, !.context = d]
    <2>2. s.pc = "id" /\ s.id = call[c].id /\ s.outcome = call[c].outcome
      BY <1>0 DEF CallState
    <2>3. call' = [call EXCEPT ![c] = s]
      BY <2>1
    <2>4. call[c].pc = "idle" /\ call[c].outcome = "none" /\ UNCHANGED <<counter, wire, sent>>
      BY <1>0, <1>1 DEF Begin, GoodCall
    <2>. HIDE DEF s
    <2>. QED
      BY <2>2, <2>3, <2>4, AnsweredNext DEF Exchange
  <1>2. ASSUME NEW c \in Calls, TakeId(c) PROVE AnswerInv'
    <2>. DEFINE next == (counter + 1) % IdSpace
    <2>1. IdsAreDistinct'
      BY <1>2, TakeIdDistinct
    <2>2. /\ call[c].pc = "id" /\ call[c].id = 0 /\ UNCHANGED <<wire, sent>>
          /\ call' = IF next = 0 THEN call ELSE [call EXCEPT ![c].pc = "build", ![c].id = next]
      BY <1>0, <1>2 DEF TakeId, Answered
    <2>. HIDE DEF next
    <2>3. /\ \A d \in Calls \ {c} : call'[d] = call[d]
          /\ next # 0 => call'[c].pc = "build" /\ call'[c].id = next /\ call'[c].outcome = call[c].outcome
          /\ next = 0 => call'[c] = call[c]
      BY <1>0, <2>2 DEF CallState, IInv
    <2>4. c \notin sent /\ call[c].outcome = "none"
      BY <1>0, <2>2 DEF Answered, GoodCall
    <2>5. ASSUME NEW d \in Calls PROVE Answered(d)'
      <3>1. Answered(d)
        BY <1>0
      <3>2. wire'[d] # None => wire'[d].for \in sent' /\ wire'[d].id = call'[wire'[d].for].id
        <4>1. wire'[d] # None => wire'[d].for \in Calls \ {c}
          BY <2>2, <2>4, <3>1 DEF Answered, IInv, Shared
        <4>. QED
          BY <2>2, <2>3, <3>1, <4>1 DEF Answered
      <3>3. CASE d = c
        BY <2>2, <2>3, <2>4, <3>1, <3>2, <3>3 DEF Answered, Exchange
      <3>4. CASE d # c
        BY <2>2, <2>3, <3>1, <3>2, <3>4 DEF Answered
      <3>. QED
        BY <3>3, <3>4
    <2>. QED
      BY <2>1, <2>5 DEF AnswerInv
  <1>3. ASSUME NEW c \in Calls, BuildFrame(c) PROVE AnswerInv'
    <2>1. UNCHANGED <<counter, wire, sent>>
      BY <1>3 DEF BuildFrame
    <2>2. CASE \E text \in Quoted : Fail(c, text)
      BY <2>1, <2>2, FailAnswered
    <2>3. CASE call[c].id # 0 /\ call' = [call EXCEPT ![c].pc = "dial", ![c].dialed = clock]
      <3>. DEFINE s == [call[c] EXCEPT !.pc = "dial", !.dialed = clock]
      <3>1. /\ s.pc = "dial" /\ s.id = call[c].id /\ s.outcome = call[c].outcome
            /\ call[c].outcome = "none"
        BY <1>0, <1>3 DEF CallState, BuildFrame, GoodCall
      <3>2. call' = [call EXCEPT ![c] = s]
        BY <2>3
      <3>. HIDE DEF s
      <3>. QED
        BY <2>1, <2>3, <3>1, <3>2, AnsweredNext
    <2>. QED
      BY <1>3, <2>2, <2>3 DEF BuildFrame
  <1>4. ASSUME NEW c \in Calls, Connect(c) PROVE AnswerInv'
    <2>. DEFINE d == IF call[c].context # None THEN call[c].context ELSE clock + call[c].timeout
                s == [call[c] EXCEPT !.pc = "write", !.connected = clock, !.deadline = d]
    <2>1. call' = [call EXCEPT ![c] = s]
      BY <1>4 DEF Connect
    <2>. HIDE DEF d
    <2>2. /\ s.pc = "write" /\ s.id = call[c].id /\ s.outcome = call[c].outcome
          /\ call[c].outcome = "none" /\ call[c].id # 0 /\ UNCHANGED <<counter, wire, sent>>
      BY <1>0, <1>4 DEF CallState, Connect, GoodCall, Answered
    <2>. HIDE DEF s
    <2>. QED
      BY <2>1, <2>2, AnsweredNext
  <1>5. ASSUME NEW c \in Calls, Write(c) PROVE AnswerInv'
    <2>1. /\ \A d \in Calls : call'[d] = IF d = c THEN [call[c] EXCEPT !.pc = "header"] ELSE call[d]
          /\ sent' = sent \cup {c} /\ UNCHANGED <<counter, wire>> /\ call[c].pc = "write"
      BY <1>5 DEF Write, IInv
    <2>2. /\ call'[c].pc = "header" /\ call'[c].id = call[c].id
          /\ call'[c].outcome = call[c].outcome
      BY <1>0, <2>1 DEF CallState
    <2>3. \A d \in Calls : call'[d].id = call[d].id
      BY <2>1, <2>2
    <2>4. call[c].id # 0 /\ call[c].outcome = "none"
      BY <1>0, <2>1 DEF Answered, GoodCall, Exchange
    <2>5. ASSUME NEW d \in Calls PROVE Answered(d)'
      <3>1. Answered(d)
        BY <1>0
      <3>2. wire'[d] # None => wire'[d].for \in sent' /\ wire'[d].id = call'[wire'[d].for].id
        <4>1. wire'[d] # None => wire'[d].for \in Calls
          BY <2>1, <3>1 DEF Answered, IInv, Shared
        <4>. QED
          BY <2>1, <2>3, <3>1, <4>1 DEF Answered
      <3>3. CASE d = c
        BY <2>1, <2>2, <2>4, <3>1, <3>2, <3>3 DEF Answered
      <3>4. CASE d # c
        BY <2>1, <3>1, <3>2, <3>4 DEF Answered
      <3>. QED
        BY <3>3, <3>4
    <2>. QED
      BY <2>1, <2>3, <2>5, IdsKept DEF AnswerInv
  <1>6. ASSUME NEW c \in Calls, PeerAnswers(c) PROVE AnswerInv'
    <2>1. PICK d \in sent, a \in Answers :
            wire' = [wire EXCEPT ![c] = [for |-> d, id |-> call[d].id, frame |-> a]]
      BY <1>6 DEF PeerAnswers
    <2>2. /\ UNCHANGED <<counter, call, sent>> /\ wire[c] = None /\ call[c].pc # "done"
          /\ wire \in [Calls -> [for : Calls, id : Ids, frame : Answers] \cup {None}]
      BY <1>6 DEF PeerAnswers, IInv, Shared
    <2>3. wire'[c] = [for |-> d, id |-> call[d].id, frame |-> a]
      BY <2>1, <2>2
    <2>4. call[c].outcome = "none" /\ call[c].pc # "body"
      BY <1>0, <2>2 DEF GoodCall, Answered
    <2>5. ASSUME NEW e \in Calls PROVE Answered(e)'
      <3>1. Answered(e)
        BY <1>0
      <3>2. CASE e = c
        BY <2>2, <2>3, <2>4, <3>1, <3>2 DEF Answered
      <3>3. CASE e # c
        <4>1. wire'[e] = wire[e]
          BY <2>1, <2>2, <3>3
        <4>. QED
          BY <2>2, <3>1, <4>1 DEF Answered
      <3>. QED
        BY <3>2, <3>3
    <2>. QED
      BY <2>2, <2>5, IdsKept DEF AnswerInv
  <1>7. ASSUME NEW c \in Calls, ReadHeader(c) PROVE AnswerInv'
    <2>1. UNCHANGED <<counter, wire, sent>> /\ wire[c] # None /\ call[c].pc = "header"
      BY <1>7 DEF ReadHeader
    <2>2. CASE Fail(c, {})
      BY <2>1, <2>2, FailAnswered
    <2>3. CASE ~Fail(c, {})
      <3>. DEFINE a == wire[c].frame
                  n == a.class + a.header + a.content
                  s == [call[c] EXCEPT !.pc = "body", !.body = n]
      <3>1. a.valid /\ call' = [call EXCEPT ![c] = s]
        BY <1>7, <2>3 DEF ReadHeader
      <3>. HIDE DEF n
      <3>2. /\ s.pc = "body" /\ s.id = call[c].id /\ s.outcome = call[c].outcome
            /\ call[c].outcome = "none" /\ call[c].id # 0
        BY <1>0, <2>1 DEF CallState, GoodCall, Answered, Exchange
      <3>. HIDE DEF s
      <3>. QED
        BY <2>1, <3>1, <3>2, AnsweredNext
    <2>. QED
      BY <2>2, <2>3
  <1>8. ASSUME NEW c \in Calls, ReadBody(c) PROVE AnswerInv'
    <2>1. UNCHANGED <<counter, wire, sent>> /\ call[c].pc = "body"
      BY <1>8 DEF ReadBody
    <2>2. CASE Fail(c, {})
      BY <2>1, <2>2, FailAnswered
    <2>3. CASE ~Fail(c, {})
      <3>. DEFINE outcome == Result(wire[c].frame)
                  s == [call[c] EXCEPT !.pc = "done", !.outcome = outcome]
      <3>1. /\ wire[c].frame.map /\ wire[c].id = call[c].id
            /\ call' = [call EXCEPT ![c] = s]
        BY <1>8, <2>3 DEF ReadBody, End
      <3>. HIDE DEF outcome
      <3>2. /\ s.pc = "done" /\ s.id = call[c].id
            /\ wire[c] # None /\ wire[c].frame.valid /\ call[c].id # 0
        BY <1>0, <2>1 DEF CallState, Answered, Exchange
      <3>. HIDE DEF s
      <3>. QED
        BY <2>1, <3>1, <3>2, AnsweredNext DEF Exchange
    <2>. QED
      BY <2>2, <2>3
  <1>9. ASSUME NEW c \in Calls, DialFails(c) \/ ConnectionBreaks(c) \/ DeadlineFires(c)
        PROVE  AnswerInv'
    <2>1. CASE DialFails(c) \/ DeadlineFires(c)
      BY <2>1, FailAnswered DEF DialFails, DeadlineFires
    <2>2. CASE ConnectionBreaks(c)
      <3>1. PICK text \in Reports :
              call' = [call EXCEPT ![c].pc = "done", ![c].outcome = Classify(text), ![c].report = text]
        BY <2>2 DEF ConnectionBreaks
      <3>. DEFINE outcome == Classify(text)
                  s == [call[c] EXCEPT !.pc = "done", !.outcome = outcome, !.report = text]
      <3>2. outcome \notin {"ok", "rejected"}
        BY DEF Classify
      <3>3. call' = [call EXCEPT ![c] = s]
        BY <3>1
      <3>. HIDE DEF outcome
      <3>4. s.pc = "done" /\ s.outcome = outcome /\ s.id = call[c].id
        BY <1>0 DEF CallState
      <3>5. UNCHANGED <<counter, wire, sent>>
        BY <2>2 DEF ConnectionBreaks
      <3>. HIDE DEF s
      <3>. QED
        BY <3>2, <3>3, <3>4, <3>5, AnsweredNext DEF Exchange
    <2>. QED
      BY <1>9, <2>1, <2>2
  <1>10. CASE UNCHANGED <<counter, call, wire, sent>>
    <2>1. IdsAreDistinct'
      BY <1>10, IdsKept
    <2>. QED
      BY <1>10, <2>1 DEF AnswerInv, Answered
  <1>. QED
    BY <1>1, <1>2, <1>3, <1>4, <1>5, <1>6, <1>7, <1>8, <1>9, <1>10 DEF Next, Tick, vars

(* What a call reports as the service's answer answers its own request,     *)
(* whatever the counter started from and however answers get mixed up: of   *)
(* fewer calls than ids no two have the same id.                            *)
THEOREM AnswersAreOwn == Spec => []OwnAnswer
  <1>1. IInv /\ AnswerInv => OwnAnswer
    <2>. SUFFICES ASSUME IInv, AnswerInv, NEW c \in Calls, call[c].outcome \in {"ok", "rejected"}
                  PROVE  wire[c].for = c /\ wire[c].frame.valid /\ wire[c].frame.map
      BY DEF OwnAnswer
    <2>1. /\ wire[c] # None /\ wire[c].frame.valid /\ wire[c].frame.map
          /\ call[c].id # 0 /\ call[c].id = call[wire[c].for].id
      BY DEF AnswerInv, Answered
    <2>2. wire[c].for \in Calls
      BY <2>1 DEF IInv, Shared
    <2>. QED
      BY <2>1, <2>2 DEF AnswerInv, IdsAreDistinct
  <1>2. IInv /\ AnswerInv /\ [Next]_vars => AnswerInv'
    BY NextAnswered
  <1>. QED
    BY <1>1, <1>2, InitAnswered, Inductive, PTL DEF Spec
=============================================================================
