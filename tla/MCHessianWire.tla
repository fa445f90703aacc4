---------------------------- MODULE MCHessianWire ----------------------------
(* Small messages: a few names and scalars, the tokens of a peer that nests *)
(* lists, maps and objects in each other, and values to send.               *)
EXTENDS HessianWire

MCTexts ==
  {"a", "b", "C", "@type", "appResponse", "isError", "long", " ", "s", "m", "sync", "app", "sig",
   "v", "k", "type", "rpc_req_baggage"}

MCScalars == MCTexts \cup {"true", "false", "null"}

MCNames ==
  MCScalars \cup {"map", "SofaRequest", "SofaResponse", "targetAppName", "methodName",
    "targetServiceUniqueName", "requestProps", "methodArgSigs", "errorMsg", "responseProps",
    "java.util.ArrayList", "java.util.LinkedHashMap", "[string]"}

MCText == [s \in MCScalars |-> s]

MCTrim == [k |-> "k", kBlank |-> "k", blank |-> " "]

(* Around the bounds of every form. *)
MCInts ==
  {v + d : v \in {0, -16, 47, -8, 15, -2048, 2047, -262144, 262143, -65536, 65536, -16777216, 16777216,
                  -2147483646, 2147483646},
           d \in -1..1}

T(tag) == Token(tag)

MCPeers == {"answers", "props", "lists", "classes"}

Class(type, names) == [T("definition") EXCEPT !.type = type, !.names = names]

Object(ref) == [T("object") EXCEPT !.ref = ref]

Ref(ref) == [T("ref") EXCEPT !.ref = ref]

MCSent == [
  answers |->
    {Class("SofaResponse", <<"appResponse">>), Object(0), T("map"), T("z"), Ref(0), Ref(1),
     [T("scalar") EXCEPT !.scalar = "a"]},
  props |->
    {Class("SofaResponse", <<"responseProps">>), Object(0), [T("list") EXCEPT !.length = 1], Ref(0),
     [T("scalar") EXCEPT !.scalar = "a"]},
  lists |->
    {[T("list") EXCEPT !.type = "C"], [T("list") EXCEPT !.typeRef = 0, !.length = 1],
     [T("list") EXCEPT !.length = 2], [T("list") EXCEPT !.length = 3],
     [T("fixed list") EXCEPT !.typeRef = 0, !.length = 1], T("z"), Ref(0),
     [T("scalar") EXCEPT !.scalar = "a"]},
  classes |->
    {Class("C", <<"a", "a">>), Class("SofaResponse", <<"a", "appResponse", "isError">>),
     Class("SofaResponse", <<"isError", "appResponse">>), Object(0), Object(1), T("bad"),
     [T("map") EXCEPT !.type = "C"], T("z"),
     [T("scalar") EXCEPT !.scalar = "true"]}]

MCPeerLimits == [
  answers |-> [depth |-> 4, items |-> 1, refs |-> 2],
  props |-> [depth |-> 4, items |-> 1, refs |-> 2],
  lists |-> [depth |-> 3, items |-> 2, refs |-> 2],
  classes |-> [depth |-> 4, items |-> 2, refs |-> 2]]

MCOwnLimits == [depth |-> 9, items |-> 5, refs |-> 20]

Json(kids) == [kind |-> "json", type |-> None, kids |-> kids]

Array(kids) == [kind |-> "array", type |-> None, kids |-> kids]

At(class) == "@type" :> Scalar(class)

MCForests ==
  {[nodes |-> <<>>, roots |-> <<Scalar("a")>>],
   [nodes |-> <<Array(<<>>), Json(NoKids)>>, roots |-> <<Node(1), Node(2)>>],
   [nodes |-> <<Json(At("C") @@ ("a" :> Node(2)) @@ ("b" :> Node(3))),
                Json(At("C") @@ ("a" :> Scalar("a")) @@ ("b" :> Scalar("v"))),
                Json(At("C") @@ ("a" :> Scalar("null")))>>, roots |-> <<Node(1)>>],
   [nodes |-> <<Array(<<Node(2), Scalar("true"), Node(3)>>),
                Json(At("C") @@ ("b" :> Scalar("a"))),
                Json(At(" ") @@ ("b" :> Node(4))),
                Array(<<Scalar("null")>>)>>, roots |-> <<Node(1)>>],
   [nodes |-> <<Json(("@type" :> Node(2)) @@ ("b" :> Node(3))),
                Array(<<Scalar("a")>>), Json(At("C"))>>, roots |-> <<Node(1)>>],
   [nodes |-> <<Json("a" :> Scalar("long"))>>, roots |-> <<Node(1)>>],
   [nodes |-> <<Json("long" :> Scalar("a"))>>, roots |-> <<Node(1)>>],
   [nodes |-> <<Json(At("C") @@ ("long" :> Scalar("a")))>>, roots |-> <<Node(1)>>]}
=============================================================================
