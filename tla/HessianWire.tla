----------------------------- MODULE HessianWire -----------------------------
(***************************************************************************)
(* Hessian messages from writer to reader, and what the client makes of an *)
(* answer: DecodeResponse (internal/sofarpcwire/response.go) and           *)
(* FormatValueSafe (wire.go).                                              *)
(*                                                                         *)
(* Three things are read: a request of this client, by a service that      *)
(* keeps the tables of the protocol as the decoder does; an answer that    *)
(* BuildSuccessResponse made; and an answer from a peer that sends any     *)
(* tokens, which counts the values it may refer back to as Hessian does:   *)
(* lists, maps and objects in the order in which they start.               *)
(***************************************************************************)
EXTENDS HessianValues, HessianInts, HessianStrings

CONSTANTS
  Text, Composite,
  Peers,     \* peers that send answers of their own
  Sent,      \* bound of the model: Sent[p] : the tokens that p sends
  PeerLimits, OwnLimits, \* bound of the model: what the limits are lowered to, for the answers of
                         \* each peer and for what the client writes itself
  Texts, TooLong, Blank, RawKeys, Trim, Forests

ASSUME WireAssumption ==
  /\ Peers \cap {"request", "response"} = {}
  /\ DOMAIN Sent = Peers
  /\ Text \in [Scalars -> Names]
  /\ Composite \in Names
  /\ Texts \subseteq Scalars \cap Names
  /\ {TooLong, Blank} \subseteq Texts
  /\ Trim \in [RawKeys -> Texts]

VARIABLES
  input, ended, limits, wanted, stack, refs, classDefs, types, heap, returned, answers, status,
  message, todo, objectDefs, out, started, written,
  source  \* who made the message: "request", "response" or a peer

R == INSTANCE HessianDecoder
W == INSTANCE HessianWriter

(* A forest of JSON values: arrays, and objects with texts as keys.        *)
WellFormed(forest) ==
  LET count == Len(forest.nodes)
      values == Values(count)
  IN /\ count \in Nat /\ forest.nodes = [i \in 1..count |-> forest.nodes[i]]
     /\ forest.roots \in Seq(values)
     /\ \A i \in 1..count :
          LET node == forest.nodes[i] IN
          \/ node.kind = "array" /\ node.kids \in Seq(values)
          \/ /\ node.kind = "json"
             /\ node.kids \in [DOMAIN node.kids -> values]
             /\ DOMAIN node.kids \subseteq Texts
             /\ IsFiniteSet(DOMAIN node.kids)

ASSUME MessagesAssumption ==
  /\ \A p \in Peers : Sent[p] \subseteq Tokens /\ PeerLimits[p] \in R!Limits
  /\ OwnLimits \in R!Limits
  /\ \A forest \in Forests : WellFormed(forest)
  /\ IsFiniteSet(RawKeys)
  /\ {"null", "app", "m", "s", "sync", "sig", "v", "false"} \subseteq Scalars
  /\ {"type", "rpc_req_baggage"} \subseteq Texts
  /\ W!ClassNames \cup W!FieldNames \subseteq Names

reading == <<limits, wanted, stack, refs, classDefs, types, heap, returned, answers, status>>

writing == <<message, todo, objectDefs, out, started, written>>

vars == <<input, ended, reading, writing, source>>

Init ==
  /\ R!Init
  /\ W!Init
  /\ input = <<>>
  /\ source \in {"request", "response"} \cup Peers
  /\ limits = IF source \in Peers THEN PeerLimits[source] ELSE OwnLimits
  /\ ended = FALSE
  /\ wanted = 1

Prepare ==
  /\ CASE source = "request" -> W!BeginRequest
       [] source = "response" -> W!BeginResponse
       [] OTHER -> FALSE
  /\ UNCHANGED <<input, ended, reading, source>>

Write ==
  /\ W!Write
  /\ UNCHANGED <<input, ended, reading, source>>

(* What was written is read. *)
Deliver ==
  /\ written = "done"
  /\ ~ended
  /\ input' = out
  /\ ended' = TRUE
  /\ wanted' = Len(message.roots)
  /\ UNCHANGED <<limits, stack, refs, classDefs, types, heap, returned, answers, status, writing, source>>

PeerSends ==
  /\ source \in Peers
  /\ status = "reading"
  /\ input = <<>>
  /\ ~ended
  /\ \/ \E t \in Sent[source] : input' = <<t>> /\ UNCHANGED ended
     \/ ended' = TRUE /\ UNCHANGED input
  /\ UNCHANGED <<reading, writing, source>>

Read == R!Step /\ UNCHANGED <<writing, source>>

Next == Prepare \/ Write \/ Deliver \/ PeerSends \/ Read

(* The client is a loop over a message in memory; a peer goes on sending   *)
(* or closes the connection.                                               *)
Spec == Init /\ [][Next]_vars /\ WF_vars(Next)

-----------------------------------------------------------------------------
(* decodeSofaResponse: an answer that is not an object is no response, an  *)
(* object of another class is an exception.                                *)
Fields == heap[Head(answers).node].kids

(* An untyped map with a map under "fields" would pass for an object too;  *)
(* no peer of the model sends one.                                         *)
IsObject(v) == v.node > 0 /\ heap[v.node].kind = "object"

Field(name) == IF name \in DOMAIN Fields THEN Fields[name] ELSE Scalar("null")

AppResponse == Field("appResponse")

(* toStringMap prints whatever lies in the properties, however deep.  (Of  *)
(* an untyped map with "entries" it prints these alone; no peer of the     *)
(* model sends one.)                                                       *)
PropsPrinted == ~R!Endless(Field("responseProps"))

(* A typed node is a map that holds its parts under "items", "entries" or  *)
(* "fields", one level deeper.                                             *)
Levels(n) == IF heap[n].type = None THEN 1 ELSE 2

Kids(n) == {heap[n].kids[k] : k \in DOMAIN heap[n].kids}

(* The nodes that the formatter meets at each depth; a cycle leads it      *)
(* below every depth, and is refused when its first node comes again.      *)
Met ==
  LET at[d \in 0..limits.depth + 2] ==
        IF d = 0 THEN {AppResponse.node} \ {0}
        ELSE {k.node : k \in UNION {Kids(n) : n \in {m \in 1..Len(heap) : Levels(m) <= d /\ m \in at[d - Levels(m)]}}} \ {0}
  IN at

Formatted_FirstOnly ==
  \A n \in Met[0] : Levels(n) <= limits.depth

(* formatValue: nothing lies deeper than the limit. *)
Formatted ==
  \A d \in DOMAIN Met : \A n \in Met[d] :
    d + (IF Kids(n) = {} THEN Levels(n) - 1 ELSE Levels(n)) <= limits.depth

Outcome ==
  CASE status # "done" -> "none"
    [] ~IsObject(Head(answers)) -> "undecodable"
    [] heap[Head(answers).node].type # "SofaResponse" -> "rejected"
    [] ~PropsPrinted -> "crashed"
    [] "isError" \in DOMAIN Fields /\ Fields["isError"] = Scalar("true") -> "rejected"
    [] "errorMsg" \in DOMAIN Fields /\ Fields["errorMsg"].scalar \in Texts \ {Blank} -> "rejected"
    [] OTHER -> IF Formatted THEN "answered" ELSE "undecodable"

-----------------------------------------------------------------------------
(* Whatever a peer sends, the decoder nests, collects and remembers no     *)
(* more than its limits allow.                                             *)
WithinLimits ==
  /\ Len(stack) <= limits.depth
  /\ Len(refs) <= limits.refs /\ Len(classDefs) <= limits.refs /\ Len(types) <= limits.refs
  /\ status # "failed" => \A n \in 1..Len(heap) : Cardinality(DOMAIN heap[n].kids) <= limits.items

(* What was written is what is read: the lists, maps and objects in the    *)
(* order in which they were started, with their types and parts, although  *)
(* a definition is written once for all objects that have its fields.      *)
RoundTrip ==
  LET number(v) == IF v.node = 0 THEN v ELSE Node(SelectInSeq(started, LAMBDA m : m = v.node))
      node(n) == [n EXCEPT !.kids = [k \in DOMAIN @ |-> number(@[k])]]
  IN written = "done" =>
       /\ status \notin {"failed", "crashed"}
       /\ status = "done" =>
            /\ heap = [i \in 1..Len(started) |-> node(W!Adapted(message.nodes[started[i]]))]
            /\ answers = [i \in 1..Len(message.roots) |-> number(message.roots[i])]

(* A reference means the value that its number counts, as long as no list  *)
(* holds a list, a map or an object that starts inside it.                 *)
ReferencesCount ==
  status = "done" /\ (\A n \in 1..Len(heap) : heap[n].kind = "list" => \A v \in Kids(n) : v.node < n)
    => \A i \in 1..Len(refs) : refs[i] = i

(* An answer that is reported contains itself nowhere, so that it can be   *)
(* printed: a peer can send values that refer to what they are part of.    *)
AnswerHasAnEnd ==
  Outcome = "answered" => ~R!Endless(AppResponse)

(* What a token of a scalar says is what was sent: an integer, also where  *)
(* its text is wanted, and a string, however it is cut into chunks.        *)
ScalarsAreExact ==
  status = "reading" => IntegersAreExact /\ StringsAreExact

(* The decoder ends with values or an error, also when the peer never stops *)
(* sending, unless it sends a map with a key that contains itself.         *)
DecodingEnds == [](status # "crashed") => <>(status \in {"done", "failed"} \/ written = "failed")

(* "_, _ = DecodeResponse(data)" for any data (fuzz_test.go): whatever a   *)
(* peer sends as the key of a map, the process survives the decoding.      *)
SurvivesKeys == status # "crashed"

(* The same of what a peer sends as the properties of its response.        *)
SurvivesProps == Outcome # "crashed"

(* "It maintains three tables as required by the spec" (decoder.go): a     *)
(* reference means the value that its number counts.                       *)
ReferencesFollowTheSpec ==
  \A i \in 1..Len(refs) : refs[i] = i
=============================================================================
