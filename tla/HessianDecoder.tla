--------------------------- MODULE HessianDecoder ---------------------------
(***************************************************************************)
(* hessianDecoder (internal/sofarpcwire/decoder.go, decoder_primitive.go): *)
(* the reader of answers, as the stack machine that its recursion is.      *)
(*                                                                         *)
(* The input is a sequence of tokens, a token being a tag with the bytes   *)
(* that belong to it.  A list, a map or an object is a node of the heap;   *)
(* nodes are numbered in the order in which the input starts them, which   *)
(* is how a Hessian writer counts the values it may refer back to.         *)
(***************************************************************************)
EXTENDS HessianValues

CONSTANTS
  Text,       \* Text[s] : what fmt.Sprint makes of a scalar
  Composite   \* what it makes of a list, a map or an object (not told apart)

VARIABLES
  input,      \* tokens that have arrived
  ended,      \* nothing more arrives
  limits,     \* d.limits
  wanted,     \* how many values the caller reads, one for a response
  stack,      \* the calls of readValue that wait for a value inside them
  refs,       \* d.refs, as nodes
  classDefs,  \* d.classDefs
  types,      \* d.types
  heap,       \* the nodes started so far
  returned,   \* the value that the innermost call returned, or None
  answers,    \* the values that were read
  status      \* "reading", "done", "failed", or "crashed": the process is gone

tables == <<refs, classDefs, types>>

Limits == [depth : Nat \ {0}, items : Nat \ {0}, refs : Nat \ {0}]

Init ==
  /\ stack = <<>>
  /\ refs = <<>>
  /\ classDefs = <<>>
  /\ types = <<>>
  /\ heap = <<>>
  /\ returned = None
  /\ answers = <<>>
  /\ status = "reading"

-----------------------------------------------------------------------------
Top == Last(stack)

AtEnd == input = <<>> /\ ended

NextIs(tags) == input # <<>> /\ Head(input).tag \in tags

(* The loops of readMap and of a list without a length look for the        *)
(* terminator before every key and every item.                             *)
AtTerminator == stack # <<>> /\ Top.left = Open /\ Top.key = None /\ NextIs({"z"})

Reading == status = "reading" /\ returned = None /\ (input # <<>> \/ ended)

(* readValue is called. *)
Wanting == Reading /\ (stack # <<>> => Top.left # 0) /\ ~AtTerminator

Fail ==
  /\ status' = "failed"
  /\ UNCHANGED <<limits, wanted, stack, refs, classDefs, types, heap, returned, answers>>

(* readIntValue calls readValue, one level deeper. *)
RoomForInt == Len(stack) + 1 < limits.depth

(* readType. *)
TypeReadable(t) ==
  /\ t.type # None => Len(types) < limits.refs
  /\ t.typeRef >= 0 => RoomForInt /\ t.typeRef < Len(types)

TypeOf(t) == IF t.typeRef >= 0 THEN types[t.typeRef + 1] ELSE t.type

TypesWith(t) == IF t.type # None THEN Append(types, t.type) ELSE types

RoomForRef == Len(refs) < limits.refs

(* left: the parts to come; peeks: whether a terminator may follow them.   *)
Frame(node, left, names, peeks) ==
  [node |-> node, left |-> left, names |-> names, peeks |-> peeks, key |-> None, count |-> 0]

(* The call for the value that a definition stands before. *)
Definition == Frame(0, 1, <<>>, FALSE)

(* A node is started, and the call that reads it waits for its parts. *)
Start(kind, type, kids, left, names, peeks) ==
  /\ heap' = Append(heap, [kind |-> kind, type |-> type, kids |-> kids])
  /\ stack' = Append(stack, Frame(Len(heap) + 1, left, names, peeks))
  /\ UNCHANGED <<limits, wanted, returned, answers, status>>

-----------------------------------------------------------------------------
(* One value is read: its first token. *)
Reads(tag) ==
  /\ Wanting
  /\ Len(stack) < limits.depth
  /\ NextIs({tag})
  /\ input' = Tail(input)
  /\ UNCHANGED ended

TooDeep ==
  /\ Wanting
  /\ Len(stack) >= limits.depth
  /\ Fail
  /\ UNCHANGED <<input, ended>>

(* Also inside of a token. *)
PastEnd ==
  /\ Wanting
  /\ AtEnd
  /\ Fail
  /\ UNCHANGED <<input, ended>>

(* An unknown tag, a malformed scalar, a terminator where a value belongs. *)
ReadNoValue ==
  /\ \E tag \in {"bad", "z"} : Reads(tag)
  /\ Fail

ReadScalar ==
  /\ Reads("scalar")
  /\ returned' = Scalar(Head(input).scalar)
  /\ UNCHANGED <<limits, wanted, stack, refs, classDefs, types, heap, answers, status>>

ReadRef ==
  /\ Reads("ref")
  /\ LET ref == Head(input).ref IN
     IF ref < Len(refs)
     THEN /\ returned' = Node(refs[ref + 1])
          /\ UNCHANGED <<limits, wanted, stack, refs, classDefs, types, heap, answers, status>>
     ELSE Fail

(* A definition stands before the value that readValue goes on to read, in *)
(* a call of its own.                                                      *)
ReadDefinition ==
  /\ Reads("definition")
  /\ LET t == Head(input) IN
     IF RoomForInt /\ Len(t.names) <= limits.items /\ Len(classDefs) < limits.refs
     THEN /\ classDefs' = Append(classDefs, [type |-> t.type, names |-> t.names])
          /\ stack' = Append(stack, Definition)
          /\ UNCHANGED <<limits, wanted, refs, types, heap, returned, answers, status>>
     ELSE Fail

ReadObject ==
  /\ Reads("object")
  /\ LET ref == Head(input).ref IN
     IF RoomForInt /\ ref < Len(classDefs) /\ RoomForRef
     THEN LET def == classDefs[ref + 1] IN
          /\ refs' = Append(refs, Len(heap) + 1)
          /\ UNCHANGED <<classDefs, types>>
          /\ Start("object", def.type, NoKids, Len(def.names), def.names, FALSE)
     ELSE Fail

ReadMap_RefAtEnd ==
  /\ Reads("map")
  /\ LET t == Head(input) IN
     IF TypeReadable(t) /\ RoomForRef
     THEN /\ types' = TypesWith(t)
          /\ UNCHANGED <<refs, classDefs>>
          /\ Start("map", TypeOf(t), NoKids, Open, <<>>, FALSE)
     ELSE Fail

ReadMap ==
  /\ Reads("map")
  /\ LET t == Head(input) IN
     IF TypeReadable(t) /\ RoomForRef
     THEN /\ refs' = Append(refs, Len(heap) + 1)
          /\ types' = TypesWith(t)
          /\ UNCHANGED classDefs
          /\ Start("map", TypeOf(t), NoKids, Open, <<>>, FALSE)
     ELSE Fail

(* A negative length is no length. *)
ReadList ==
  /\ Reads("list")
  /\ LET t == Head(input) IN
     IF TypeReadable(t) /\ t.length <= limits.items
     THEN /\ types' = TypesWith(t)
          /\ UNCHANGED <<refs, classDefs>>
          /\ Start("list", TypeOf(t), <<>>, IF t.length < 0 THEN Open ELSE t.length, <<>>, TRUE)
     ELSE Fail

(* readFixedTypedList: no terminator. *)
ReadFixedTypedList ==
  /\ Reads("fixed list")
  /\ LET t == Head(input) IN
     IF RoomForInt /\ t.typeRef \in 0..Len(types) - 1 /\ t.length \in 0..limits.items
     THEN /\ UNCHANGED tables
          /\ Start("list", types[t.typeRef + 1], <<>>, t.length, <<>>, FALSE)
     ELSE Fail

-----------------------------------------------------------------------------
(* The value of a finished call goes to the call that waits for it. *)
Returning == status = "reading" /\ returned # None

ReturningTo(kind) ==
  /\ Returning
  /\ stack # <<>>
  /\ Top # Definition
  /\ heap[Top.node].kind = kind

Give(frame, node) ==
  /\ stack' = [stack EXCEPT ![Len(stack)] = frame]
  /\ heap' = [heap EXCEPT ![frame.node] = node]
  /\ returned' = None

With(kids, k, v) == [j \in DOMAIN kids \cup {k} |-> IF j = k THEN v ELSE kids[j]]

Printed(v) == IF v.node = 0 THEN Text[v.scalar] ELSE Composite

(* The nodes that lie d levels below a value. *)
Below(v) ==
  LET at[d \in 0..Len(heap)] ==
        IF d = 0 THEN {v.node} \ {0}
        ELSE (UNION {{heap[n].kids[k].node : k \in DOMAIN heap[n].kids} : n \in at[d - 1]}) \ {0}
  IN at

Endless(v) == Below(v)[Len(heap)] # {}

ReturnToCaller ==
  /\ Returning
  /\ stack = <<>>
  /\ answers' = Append(answers, returned)
  /\ status' = IF Len(answers') = wanted THEN "done" ELSE "reading"
  /\ returned' = None
  /\ UNCHANGED <<input, ended, limits, wanted, stack, refs, classDefs, types, heap>>

ReturnThroughDefinition ==
  /\ Returning
  /\ stack # <<>>
  /\ Top = Definition
  /\ stack' = Front(stack)
  /\ UNCHANGED <<input, ended, limits, wanted, refs, classDefs, types, heap, returned, answers, status>>

(* The number of items is checked after each one that was read. *)
ReturnToList_NoCount ==
  /\ ReturningTo("list")
  /\ LET n == heap[Top.node] IN
     /\ Give([Top EXCEPT !.left = IF @ = Open THEN Open ELSE @ - 1],
             [n EXCEPT !.kids = Append(@, returned)])
     /\ status' = status
  /\ UNCHANGED <<input, ended, limits, wanted, refs, classDefs, types, answers>>

ReturnToList ==
  /\ ReturningTo("list")
  /\ LET n == heap[Top.node] IN
     /\ Give([Top EXCEPT !.left = IF @ = Open THEN Open ELSE @ - 1],
             [n EXCEPT !.kids = Append(@, returned)])
     /\ status' = IF Top.left = Open /\ Len(n.kids) >= limits.items THEN "failed" ELSE status
  /\ UNCHANGED <<input, ended, limits, wanted, refs, classDefs, types, answers>>

(* The text of a key is made when its value has been read too.  That of a  *)
(* key that contains itself never ends: the Go stack overflows, which no   *)
(* caller can recover from.                                                *)
Crash == status' = "crashed" /\ UNCHANGED <<stack, heap, returned>>

(* The same key twice is counted twice.                                    *)
ReturnToMap_CountsKeys ==
  /\ ReturningTo("map")
  /\ LET n == heap[Top.node] IN
     IF Top.key = None
     THEN Give([Top EXCEPT !.key = returned], n) /\ status' = status
     ELSE IF Endless(Top.key) THEN Crash
     ELSE LET kids == With(n.kids, Printed(Top.key), returned) IN
          /\ Give([Top EXCEPT !.key = None, !.count = Cardinality(DOMAIN kids)], [n EXCEPT !.kids = kids])
          /\ status' = IF Top.count >= limits.items THEN "failed" ELSE status
  /\ UNCHANGED <<input, ended, limits, wanted, refs, classDefs, types, answers>>

ReturnToMap ==
  /\ ReturningTo("map")
  /\ LET n == heap[Top.node] IN
     IF Top.key = None
     THEN Give([Top EXCEPT !.key = returned], n) /\ status' = status
     ELSE IF Endless(Top.key) THEN Crash
     ELSE /\ Give([Top EXCEPT !.key = None, !.count = @ + 1],
                  [n EXCEPT !.kids = With(@, Printed(Top.key), returned)])
          /\ status' = IF Top.count >= limits.items THEN "failed" ELSE status
  /\ UNCHANGED <<input, ended, limits, wanted, refs, classDefs, types, answers>>

(* A name that is defined twice keeps its last value. *)
ReturnToObject ==
  /\ ReturningTo("object")
  /\ LET n == heap[Top.node]
         name == Top.names[Len(Top.names) - Top.left + 1]
     IN Give([Top EXCEPT !.left = @ - 1], [n EXCEPT !.kids = With(@, name, returned)])
  /\ UNCHANGED <<input, ended, limits, wanted, refs, classDefs, types, answers, status>>

(* A list is added to the table of references when all of it was read. *)
Finish(n) ==
  /\ IF heap[n].kind = "list" /\ ~RoomForRef
     THEN Fail
     ELSE /\ refs' = IF heap[n].kind = "list" THEN Append(refs, n) ELSE refs
          /\ stack' = Front(stack)
          /\ returned' = Node(n)
          /\ UNCHANGED <<limits, wanted, classDefs, types, heap, answers, status>>

(* A list with a length is followed by a terminator, or not. *)
FinishCounted ==
  /\ Reading
  /\ stack # <<>>
  /\ Top.left = 0
  /\ input' = IF Top.peeks /\ NextIs({"z"}) THEN Tail(input) ELSE input
  /\ Finish(Top.node)
  /\ UNCHANGED ended

FinishOpen ==
  /\ Reading
  /\ AtTerminator
  /\ input' = Tail(input)
  /\ Finish(Top.node)
  /\ UNCHANGED ended

Step ==
  \/ TooDeep \/ PastEnd \/ ReadNoValue \/ ReadScalar \/ ReadRef \/ ReadDefinition
  \/ ReadObject \/ ReadMap \/ ReadList \/ ReadFixedTypedList
  \/ ReturnToCaller \/ ReturnThroughDefinition \/ ReturnToList \/ ReturnToMap \/ ReturnToObject
  \/ FinishCounted \/ FinishOpen
=============================================================================
