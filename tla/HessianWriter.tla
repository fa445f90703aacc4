---------------------------- MODULE HessianWriter ----------------------------
(***************************************************************************)
(* BuildGenericRequest and BuildSuccessResponse (internal/sofarpcwire/     *)
(* wire.go, response.go) and hessianWriter (encoder.go): values as they    *)
(* come from JSON are adapted to Java types and written depth first.  The  *)
(* recursion is a stack of what is left to write.                          *)
(*                                                                         *)
(* A message is a forest: a sequence of nodes, each below at most one      *)
(* other, and a sequence of roots.  Before they are adapted the nodes of   *)
(* JSON are of kind "array" or "json"; what the client adds itself is an   *)
(* "object", a list of "strings" or a map of "props".                      *)
(***************************************************************************)
EXTENDS HessianValues

CONSTANTS
  Texts,     \* the scalars that are strings
  TooLong,   \* a string of more than 65535 characters
  Blank,     \* a string of blanks
  RawKeys, Trim, \* keys of a request's baggage and what is left of them when trimmed
  Forests    \* bound of the model: the values that are sent

VARIABLES
  message,     \* [nodes, roots], what is written, or None
  todo,        \* what is left of it
  objectDefs,  \* w.objectDefs, in the order of the numbers it gives
  out,         \* w.buf
  started,     \* the nodes in the order in which they were written
  written      \* "idle", "writing", "done" or "failed"

(* The classes and fields that the client itself names.                    *)
ClassNames == {"SofaRequest", "SofaResponse", "java.util.ArrayList", "java.util.LinkedHashMap", "[string]"}

FieldNames ==
  {"targetAppName", "methodName", "targetServiceUniqueName", "requestProps", "methodArgSigs",
   "isError", "errorMsg", "appResponse", "responseProps"}

Init ==
  /\ message = None
  /\ todo = <<>>
  /\ objectDefs = <<>>
  /\ out = <<>>
  /\ started = <<>>
  /\ written = "idle"

-----------------------------------------------------------------------------
(* PrepareValue: an object that names a class becomes an instance of it.   *)
ClassOf(kids) ==
  IF "@type" \in DOMAIN kids /\ kids["@type"].scalar \in Texts \ {Blank}
  THEN kids["@type"].scalar ELSE None

Adapted(node) ==
  CASE node.kind = "array" -> [kind |-> "list", type |-> "java.util.ArrayList", kids |-> node.kids]
    [] node.kind = "strings" -> [kind |-> "list", type |-> "[string]", kids |-> node.kids]
    [] node.kind = "props" -> [kind |-> "map", type |-> None, kids |-> node.kids]
    [] node.kind = "object" -> node
    [] node.kind = "json" ->
         IF ClassOf(node.kids) = None
         THEN [kind |-> "map", type |-> "java.util.LinkedHashMap", kids |-> node.kids]
         ELSE [kind |-> "object", type |-> ClassOf(node.kids),
               kids |-> [n \in DOMAIN node.kids \ {"@type"} |-> node.kids[n]]]

(* The keys of a map and the fields of an object, in the one order that    *)
(* sorting gives.                                                          *)
Ordered(kids) == SetToSeq(DOMAIN kids)

(* The entries of a map: each key, and its value behind it.                *)
Entries(kids) ==
  [i \in 1..2 * Len(Ordered(kids)) |->
     LET k == Ordered(kids)[(i + 1) \div 2] IN IF i % 2 = 1 THEN Scalar(k) ELSE kids[k]]

(* addRequestBaggage: keys are trimmed, and must then differ and not be    *)
(* empty.                                                                  *)
BaggageOK(baggage) ==
  /\ \A k \in baggage : Trim[k] # Blank
  /\ \A j, k \in baggage : Trim[j] = Trim[k] => j = k

Request(forest, app, baggage) ==
  LET n == Len(forest.nodes)
      fields == [targetAppName |-> Scalar(app), methodName |-> Scalar("m"),
                 targetServiceUniqueName |-> Scalar("s"), requestProps |-> Node(n + 2),
                 methodArgSigs |-> Node(n + 3)]
      fixed == [type |-> Scalar("sync")]
      props == IF baggage = {} THEN fixed
               ELSE [k \in {"type", "rpc_req_baggage"} |-> IF k = "type" THEN Scalar("sync") ELSE Node(n + 4)]
  IN [nodes |-> forest.nodes \o
        <<[kind |-> "object", type |-> "SofaRequest", kids |-> fields],
          [kind |-> "props", type |-> None, kids |-> props],
          [kind |-> "strings", type |-> None, kids |-> [i \in 1..Len(forest.roots) |-> Scalar("sig")]],
          [kind |-> "props", type |-> None,
           kids |-> [t \in {Trim[k] : k \in baggage} |-> Scalar("v")]]>>,
      roots |-> <<Node(n + 1)>> \o forest.roots]

Response(forest) ==
  LET fields == [isError |-> Scalar("false"), errorMsg |-> Scalar("null"),
                 appResponse |-> Head(forest.roots), responseProps |-> Scalar("null")]
  IN [nodes |-> forest.nodes \o <<[kind |-> "object", type |-> "SofaResponse", kids |-> fields]>>,
      roots |-> <<Node(Len(forest.nodes) + 1)>>]

Begin(m) ==
  /\ written = "idle"
  /\ message' = m
  /\ todo' = m.roots
  /\ written' = "writing"
  /\ UNCHANGED <<objectDefs, out, started>>

BeginRequest ==
  \E forest \in Forests, app \in {"null", "app"}, baggage \in SUBSET RawKeys :
    IF BaggageOK(baggage)
    THEN Begin(Request(forest, app, baggage))
    ELSE /\ written = "idle"
         /\ written' = "failed"
         /\ UNCHANGED <<message, todo, objectDefs, out, started>>

BeginResponse ==
  \E forest \in Forests : Len(forest.roots) = 1 /\ Begin(Response(forest))

-----------------------------------------------------------------------------
(* What closes a list or a map. *)
End == [node |-> -1, scalar |-> None]

Writing == written = "writing" /\ todo # <<>>

WriteFails ==
  /\ written' = "failed"
  /\ UNCHANGED <<message, todo, objectDefs, out, started>>

(* writeValue of a scalar, and the keys of a map. *)
WriteScalar ==
  /\ Writing
  /\ Head(todo).node = 0
  /\ IF Head(todo).scalar = TooLong
     THEN WriteFails
     ELSE /\ out' = Append(out, [Token("scalar") EXCEPT !.scalar = Head(todo).scalar])
          /\ todo' = Tail(todo)
          /\ UNCHANGED <<message, objectDefs, started, written>>

WriteEnd ==
  /\ Writing
  /\ Head(todo) = End
  /\ out' = Append(out, Token("z"))
  /\ todo' = Tail(todo)
  /\ UNCHANGED <<message, objectDefs, started, written>>

(* The node that is written next is of this kind. *)
NextNode(kind) ==
  /\ Writing
  /\ Head(todo).node > 0
  /\ Adapted(message.nodes[Head(todo).node]).kind = kind

(* The definition of a class with its fields is written once per message.  *)
WriteObject_DefByType ==
  LET node == Adapted(message.nodes[Head(todo).node])
      names == Ordered(node.kids)
      known == SelectInSeq(objectDefs, LAMBDA d : d.type = node.type)
  IN /\ NextNode("object")
     /\ IF TooLong \in DOMAIN node.kids
        THEN WriteFails
        ELSE /\ objectDefs' = IF known = 0 THEN Append(objectDefs, [type |-> node.type, names |-> names])
                              ELSE objectDefs
             /\ out' = out \o
                  (IF known = 0
                   THEN <<[Token("definition") EXCEPT !.type = node.type, !.names = names],
                          [Token("object") EXCEPT !.ref = Len(objectDefs)]>>
                   ELSE <<[Token("object") EXCEPT !.ref = known - 1]>>)
             /\ todo' = [i \in 1..Len(names) |-> node.kids[names[i]]] \o Tail(todo)
             /\ started' = Append(started, Head(todo).node)
             /\ UNCHANGED <<message, written>>

Known(def) == SelectInSeq(objectDefs, LAMBDA d : d = def)

WriteObject ==
  LET node == Adapted(message.nodes[Head(todo).node])
      def == [type |-> node.type, names |-> Ordered(node.kids)]
      known == Known(def)
  IN /\ NextNode("object")
     /\ IF TooLong \in DOMAIN node.kids
        THEN WriteFails
        ELSE /\ objectDefs' = IF known = 0 THEN Append(objectDefs, def) ELSE objectDefs
             /\ out' = out \o
                  (IF known = 0
                   THEN <<[Token("definition") EXCEPT !.type = def.type, !.names = def.names],
                          [Token("object") EXCEPT !.ref = Len(objectDefs)]>>
                   ELSE <<[Token("object") EXCEPT !.ref = known - 1]>>)
             /\ todo' = [i \in 1..Len(def.names) |-> node.kids[def.names[i]]] \o Tail(todo)
             /\ started' = Append(started, Head(todo).node)
             /\ UNCHANGED <<message, written>>

WriteMap ==
  LET node == Adapted(message.nodes[Head(todo).node]) IN
  /\ NextNode("map")
  /\ out' = Append(out, [Token("map") EXCEPT !.type = node.type])
  /\ todo' = Entries(node.kids) \o <<End>> \o Tail(todo)
  /\ started' = Append(started, Head(todo).node)
  /\ UNCHANGED <<message, objectDefs, written>>

WriteList ==
  LET node == Adapted(message.nodes[Head(todo).node]) IN
  /\ NextNode("list")
  /\ out' = Append(out, [Token("list") EXCEPT !.type = node.type, !.length = Len(node.kids)])
  /\ todo' = node.kids \o <<End>> \o Tail(todo)
  /\ started' = Append(started, Head(todo).node)
  /\ UNCHANGED <<message, objectDefs, written>>

Finished ==
  /\ written = "writing"
  /\ todo = <<>>
  /\ written' = "done"
  /\ UNCHANGED <<message, todo, objectDefs, out, started>>

Write == WriteScalar \/ WriteEnd \/ WriteObject \/ WriteMap \/ WriteList \/ Finished
=============================================================================
