-------------------------- MODULE HessianWire_proofs --------------------------
(* What holds of every message, whatever a peer sends and however large the *)
(* limits are: the decoder stays within its limits, and a reference means   *)
(* the value that its number counts.                                        *)
EXTENDS HessianWire, FiniteSetTheorems, SequenceTheorems, WellFoundedInduction, TLAPS

-----------------------------------------------------------------------------
(* What the reader's state consists of. *)
Value == [node : Nat, scalar : Scalars \cup {None}]

Parts == Seq(Value) \cup UNION {[K -> Value] : K \in SUBSET Names}

HeapNode == [kind : {"list", "map", "object"}, type : Names \cup {None}, kids : Parts]

Keys == {v \in Value : v.node = 0 => v.scalar # None}

Frames ==
  [node : Nat, left : Int, names : Seq(Names), peeks : BOOLEAN, key : Keys \cup {None}, count : Nat]

Typed ==
  /\ limits \in R!Limits
  /\ status \in {"reading", "done", "failed", "crashed"}
  /\ input \in Seq(Tokens)
  /\ refs \in Seq(1..Len(heap))
  /\ classDefs \in Seq([type : Names \cup {None}, names : Seq(Names)])
  /\ types \in Seq(Names)
  /\ heap \in Seq(HeapNode)
  /\ stack \in Seq(Frames)
  /\ returned # None => returned \in Values(Len(heap))
  /\ answers \in Seq(Values(Len(heap)))

(* The parts of a node are values of the heap. *)
GoodNode(n) ==
  /\ heap[n].kind = "list" => heap[n].kids \in Seq(Value)
  /\ heap[n].kind # "list" => DOMAIN heap[n].kids \subseteq Names
  /\ IsFiniteSet(DOMAIN heap[n].kids)
  /\ \A k \in DOMAIN heap[n].kids : heap[n].kids[k] \in Values(Len(heap))

Small(n) == Cardinality(DOMAIN heap[n].kids) <= limits.items

(* What a call that waits for a part knows of the node it reads: how many  *)
(* parts it has, or how many more it will get.                             *)
GoodFrame(f) ==
  IF f.node = 0 THEN f = R!Definition
  ELSE /\ f.node \in 1..Len(heap)
       /\ LET n == heap[f.node] IN
          /\ n.kind = "list" => f.left = Open \/ (f.left \in Nat /\ f.left + Len(n.kids) <= limits.items)
          /\ n.kind = "map" => f.left = Open /\ Cardinality(DOMAIN n.kids) <= f.count
          /\ n.kind = "object" =>
               /\ f.left \in 0..Len(f.names)
               /\ Len(f.names) <= limits.items
               /\ DOMAIN n.kids \subseteq {f.names[i] : i \in 1..Len(f.names)}

(* A call inside of which another one runs, or has just returned, waits    *)
(* for a part; nodes are nested in the order in which they started.        *)
Nested ==
  /\ \A i \in 1..Len(stack) : i < Len(stack) \/ returned # None => stack[i].left # 0
  /\ \A i, j \in 1..Len(stack) : i < j /\ stack[j].node # 0 => stack[i].node < stack[j].node

Tables ==
  /\ Len(refs) <= limits.refs /\ Len(classDefs) <= limits.refs /\ Len(types) <= limits.refs
  /\ \A i \in 1..Len(classDefs) : Len(classDefs[i].names) <= limits.items

ReaderInv ==
  /\ Typed
  /\ \A n \in 1..Len(heap) : GoodNode(n) /\ (status # "failed" => Small(n))
  /\ Len(stack) <= limits.depth
  /\ \A i \in 1..Len(stack) : GoodFrame(stack[i])
  /\ Nested
  /\ Tables
  /\ status = "done" => stack = <<>>

(* What is written. *)
Sound(node, n) ==
  \/ node.kind \in {"array", "strings"} /\ node.kids \in Seq(Values(n))
  \/ /\ node.kind \in {"json", "props", "object"}
     /\ node.kids \in [DOMAIN node.kids -> Values(n)]
     /\ DOMAIN node.kids \subseteq (IF node.kind = "object" THEN Names ELSE Texts)
     /\ IsFiniteSet(DOMAIN node.kids)
     /\ node.kind = "object" => node.type \in Names

WriterInv ==
  /\ out \in Seq(Tokens)
  /\ objectDefs \in Seq([type : Names, names : Seq(Names)])
  /\ written = "writing" =>
       /\ message.nodes \in Seq(Range(message.nodes))
       /\ \A i \in 1..Len(message.nodes) : Sound(message.nodes[i], Len(message.nodes))
       /\ todo \in Seq(Values(Len(message.nodes)) \cup {W!End})

(* References are numbered in the order of the nodes they mean, except in  *)
(* a list that is being read, unless it holds, or will hold, a node that   *)
(* starts inside it.                                                       *)
IsList(f) == f.node # 0 /\ heap[f.node].kind = "list"

HoldsLater == \E n \in 1..Len(heap) : heap[n].kind = "list" /\ \E v \in Kids(n) : v.node >= n

WillHoldLater ==
  \E i \in 1..Len(stack) :
    /\ IsList(stack[i])
    /\ \/ \E j \in 1..Len(stack) : i < j /\ stack[j].node # 0
       \/ returned # None /\ returned.node > stack[i].node

Numbered ==
  /\ \A i \in 1..Len(stack) : IsList(stack[i]) => stack[i].node = Len(heap)
  /\ Len(refs) = IF \E i \in 1..Len(stack) : IsList(stack[i]) THEN Len(heap) - 1 ELSE Len(heap)
  /\ \A i \in 1..Len(refs) : refs[i] = i

Counted == HoldsLater \/ WillHoldLater \/ Numbered

IInv == ReaderInv /\ WriterInv /\ Counted

-----------------------------------------------------------------------------
LEMMA ValuesAre ==
  /\ \A n \in Nat : Values(n) \subseteq Value
  /\ \A m, n \in Nat : m <= n => Values(m) \subseteq Values(n)
  /\ \A n \in Nat : \A v \in Values(n) : v.node \in 0..n /\ (v.node = 0 => v.scalar \in Scalars)
  /\ \A n \in Nat : \A i \in 1..n : Node(i) \in Values(n) /\ Node(i).node = i
  /\ \A v \in Value : v # None
  BY ValuesAssumption DEF Values, Value, Scalar, Node

(* Who fails, or crashes, leaves everything as it was. *)
LEMMA StopKeeps ==
  ASSUME ReaderInv, Counted, input' \in Seq(Tokens), status' \in {"failed", "crashed"}, status = "reading",
         UNCHANGED <<limits, stack, refs, classDefs, types, heap, returned, answers>>
  PROVE  ReaderInv' /\ Counted'
  <1>2. Typed'
    BY DEF ReaderInv, Typed
  <1>3. \A n \in 1..Len(heap) : GoodNode(n)' /\ (status' # "failed" => Small(n)')
    BY DEF ReaderInv, GoodNode, Small
  <1>4. \A i \in 1..Len(stack) : GoodFrame(stack[i])'
    BY DEF ReaderInv, GoodFrame
  <1>5. Nested' /\ Tables'
    BY DEF ReaderInv, Nested, Tables
  <1>6. ReaderInv'
    BY <1>2, <1>3, <1>4, <1>5 DEF ReaderInv
  <1>7. Counted'
    BY DEF Counted, HoldsLater, WillHoldLater, Numbered, IsList, Kids
  <1>8. QED
    BY <1>6, <1>7

LEMMA FailKeeps ==
  ASSUME ReaderInv, Counted, R!Fail, input' \in Seq(Tokens)
  PROVE  ReaderInv' /\ Counted'
  <1>1. UNCHANGED <<limits, stack, refs, classDefs, types, heap, returned, answers>> /\ status' = "failed"
    BY DEF R!Fail
  <1>2. Typed'
    BY <1>1 DEF ReaderInv, Typed
  <1>3. \A n \in 1..Len(heap) : GoodNode(n)'
    BY <1>1 DEF ReaderInv, GoodNode
  <1>4. \A i \in 1..Len(stack) : GoodFrame(stack[i])'
    BY <1>1 DEF ReaderInv, GoodFrame
  <1>5. Nested' /\ Tables'
    BY <1>1 DEF ReaderInv, Nested, Tables
  <1>6. ReaderInv'
    BY <1>1, <1>2, <1>3, <1>4, <1>5 DEF ReaderInv
  <1>7. Counted'
    BY <1>1 DEF Counted, HoldsLater, WillHoldLater, Numbered, IsList, Kids
  <1>8. QED
    BY <1>6, <1>7

(* Sequences, as far as they are needed here. *)
LEMMA Appended ==
  ASSUME NEW S, NEW s \in Seq(S), NEW x
  PROVE  /\ Len(Append(s, x)) = Len(s) + 1
         /\ \A i \in 1..Len(s) : Append(s, x)[i] = s[i]
         /\ Append(s, x)[Len(s) + 1] = x
         /\ x \in S => Append(s, x) \in Seq(S)
  OBVIOUS

LEMMA Member ==
  ASSUME NEW S, NEW s \in Seq(S), NEW i \in 1..Len(s)
  PROVE  s[i] \in S
  OBVIOUS

LEMMA FrontIs ==
  ASSUME NEW S, NEW s \in Seq(S), s # <<>>
  PROVE  /\ R!Front(s) \in Seq(S)
         /\ Len(R!Front(s)) = Len(s) - 1
         /\ \A i \in 1..Len(s) - 1 : R!Front(s)[i] = s[i]
         /\ Len(s) \in Nat \ {0} /\ R!Last(s) = s[Len(s)]
  <1>1. Len(s) \in Nat /\ s \in [1..Len(s) -> S]
    OBVIOUS
  <1>2. Len(s) # 0
    BY EmptySeq
  <1>3. QED
    BY <1>1, <1>2 DEF R!Front, R!Last

LEMMA SeqGrows ==
  ASSUME NEW S, NEW T, S \subseteq T, NEW s \in Seq(S)
  PROVE  s \in Seq(T)
  OBVIOUS

LEMMA NodesAreSome ==
  ASSUME ReaderInv
  PROVE  /\ Len(heap) \in Nat /\ Len(stack) \in Nat
         /\ \A i \in 1..Len(stack) : stack[i] \in Frames /\ stack[i].node \in 0..Len(heap)
         /\ \A n \in 1..Len(heap) : heap[n] \in HeapNode
         /\ limits.depth \in Nat \ {0} /\ limits.items \in Nat \ {0} /\ limits.refs \in Nat \ {0}
  <1>1. heap \in Seq(HeapNode) /\ stack \in Seq(Frames) /\ limits \in R!Limits
    BY DEF ReaderInv, Typed
  <1>2. \A i \in 1..Len(stack) : stack[i] \in Frames /\ GoodFrame(stack[i])
    BY <1>1 DEF ReaderInv
  <1>3. Len(heap) \in Nat /\ Len(stack) \in Nat
    BY <1>1
  <1>4. \A i \in 1..Len(stack) : stack[i].node \in 0..Len(heap)
    BY <1>2, <1>3 DEF GoodFrame
  <1>5. QED
    BY <1>1, <1>2, <1>3, <1>4 DEF R!Limits

(* A node is started. *)
LEMMA StartKeeps ==
  ASSUME ReaderInv, Counted, R!Wanting, Len(stack) < limits.depth,
         NEW kind, NEW type \in Names \cup {None}, NEW kids, NEW left \in Int,
         NEW names \in Seq(Names), NEW peeks \in BOOLEAN,
         R!Start(kind, type, kids, left, names, peeks),
         \/ /\ kind = "list" /\ kids = <<>> /\ refs' = refs
            /\ left = Open \/ left \in 0..limits.items
         \/ /\ kind = "map" /\ kids = NoKids /\ refs' = Append(refs, Len(heap) + 1)
            /\ left = Open
         \/ /\ kind = "object" /\ kids = NoKids /\ refs' = Append(refs, Len(heap) + 1)
            /\ left = Len(names) /\ Len(names) <= limits.items,
         input' \in Seq(Tokens), classDefs' = classDefs,
         types' \in Seq(Names), Len(types') <= limits.refs, Len(refs') <= limits.refs
  PROVE  ReaderInv' /\ Counted'
  <1>0. /\ heap \in Seq(HeapNode) /\ stack \in Seq(Frames)
        /\ Len(heap) \in Nat /\ Len(stack) \in Nat
    BY NodesAreSome DEF ReaderInv, Typed
  <1>a. PICK n : n = Len(heap) + 1
    OBVIOUS
  <1>b. PICK f : f = R!Frame(n, left, names, peeks)
    OBVIOUS
  <1>c. PICK h : h = [kind |-> kind, type |-> type, kids |-> kids]
    OBVIOUS
  <1>1. /\ heap' = Append(heap, h) /\ stack' = Append(stack, f)
        /\ UNCHANGED <<limits, wanted, returned, answers, status, classDefs>>
    BY <1>a, <1>b, <1>c DEF R!Start
  <1>2. /\ status = "reading" /\ returned = None
        /\ stack # <<>> => stack[Len(stack)].left # 0
    BY DEF R!Wanting, R!Reading, R!Top, R!Last
  <1>3. f \in Frames /\ f.node = n /\ f.left = left /\ f.names = names /\ f.count = 0
    <2>1. n \in Nat
      BY <1>a, NodesAreSome
    <2>2. QED
      BY <1>b, <2>1 DEF R!Frame, Frames
  <1>4. h \in HeapNode /\ DOMAIN kids = {} /\ (kind = "list" => kids \in Seq(Value))
    <2>1. NoKids \in [{} -> Value] /\ <<>> \in Seq(Value)
      BY DEF NoKids
    <2>2. kids \in Parts
      BY <2>1 DEF Parts
    <2>3. DOMAIN kids = {}
      BY DEF NoKids
    <2>4. QED
      BY <1>c, <2>1, <2>2, <2>3 DEF HeapNode
  <1>5. /\ Len(heap') = n /\ heap'[n] = h /\ n \in Nat \ {0}
        /\ \A i \in 1..Len(heap) : heap'[i] = heap[i]
        /\ heap' \in Seq(HeapNode)
    BY <1>0, <1>a, <1>1, <1>4, Appended
  <1>6. /\ Len(stack') = Len(stack) + 1 /\ stack'[Len(stack) + 1] = f
        /\ \A i \in 1..Len(stack) : stack'[i] = stack[i]
        /\ stack' \in Seq(Frames) /\ Len(stack) \in Nat
    BY <1>1, <1>3, Appended, NodesAreSome DEF ReaderInv, Typed
  <1>7. Values(Len(heap)) \subseteq Values(n)
    <2>1. n \in Nat /\ Len(heap) <= n
      BY <1>0, <1>a
    <2>2. QED
      BY <1>0, <1>5, <2>1, ValuesAre
  <1>8. Typed'
    <2>1. refs \in Seq(1..n)
      <3>1. refs \in Seq(1..Len(heap)) /\ 1..Len(heap) \subseteq 1..n
        BY <1>a, NodesAreSome DEF ReaderInv, Typed
      <3>2. QED
        BY <3>1, SeqGrows
    <2>5. refs' \in Seq(1..n)
      <3>1. n \in 1..n
        BY <1>0, <1>a
      <3>2. refs' \in {refs, Append(refs, n)}
        BY <1>a
      <3>3. QED
        BY <2>1, <3>1, <3>2
    <2>2. answers' \in Seq(Values(n))
      BY <1>1, <1>7, SeqGrows DEF ReaderInv, Typed
    <2>3. limits' \in R!Limits /\ classDefs' \in Seq([type : Names \cup {None}, names : Seq(Names)])
      BY <1>1 DEF ReaderInv, Typed
    <2>4. QED
      BY <1>1, <1>2, <1>5, <1>6, <2>2, <2>3, <2>5 DEF Typed
  <1>9. \A i \in 1..n : GoodNode(i)' /\ Small(i)'
    <2>1. ASSUME NEW i \in 1..Len(heap) PROVE GoodNode(i)' /\ Small(i)'
      <3>1. GoodNode(i) /\ Small(i) /\ heap'[i] = heap[i]
        BY <1>2, <1>5 DEF ReaderInv
      <3>2. QED
        BY <1>1, <1>5, <1>7, <3>1 DEF GoodNode, Small
    <2>2. GoodNode(n)' /\ Small(n)'
      <3>1. heap'[n].kind = kind /\ heap'[n].kids = kids
        BY <1>c, <1>5
      <3>2. IsFiniteSet({}) /\ Cardinality({}) = 0
        BY FS_EmptySet
      <3>3. QED
        BY <1>1, <1>4, <3>1, <3>2, NodesAreSome DEF GoodNode, Small
    <2>3. QED
      BY <1>a, <2>1, <2>2, NodesAreSome
  <1>10. \A i \in 1..Len(stack) + 1 : GoodFrame(stack[i])'
    <2>1. ASSUME NEW i \in 1..Len(stack) PROVE GoodFrame(stack[i])'
      <3>1. GoodFrame(stack[i]) /\ stack'[i] = stack[i]
        BY <1>6 DEF ReaderInv
      <3>2. CASE stack[i].node = 0
        BY <3>1, <3>2 DEF GoodFrame, R!Definition, R!Frame
      <3>3. CASE stack[i].node # 0
        <4>1. stack[i].node \in 1..Len(heap)
          BY <3>1, <3>3 DEF GoodFrame
        <4>2. heap'[stack[i].node] = heap[stack[i].node]
          BY <4>1, <1>5
        <4>3. stack[i].node \in 1..Len(heap')
          BY <4>1, <1>0, <1>5, <1>a
        <4>4. QED
          BY <1>1, <3>1, <3>3, <4>2, <4>3 DEF GoodFrame
      <3>4. QED
        BY <3>2, <3>3
    <2>2. GoodFrame(f)'
      <3>1. heap'[n].kind = kind /\ heap'[n].kids = kids
        BY <1>c, <1>5
      <3>2. Cardinality(DOMAIN kids) = 0 /\ (kind = "list" => Len(kids) = 0)
        BY <1>4, FS_EmptySet
      <3>3. Len(names) \in Nat /\ n \in 1..n
        BY <1>5
      <3>4. CASE kind = "list"
        BY <1>1, <1>3, <1>5, <3>1, <3>2, <3>3, <3>4, NodesAreSome DEF GoodFrame
      <3>5. CASE kind = "map"
        BY <1>1, <1>3, <1>4, <1>5, <3>1, <3>2, <3>3, <3>5 DEF GoodFrame
      <3>6. CASE kind = "object"
        BY <1>1, <1>3, <1>4, <1>5, <3>1, <3>2, <3>3, <3>6 DEF GoodFrame
      <3>7. QED
        BY <3>4, <3>5, <3>6
    <2>3. ASSUME NEW i \in 1..Len(stack) + 1, i \notin 1..Len(stack) PROVE GoodFrame(stack[i])'
      <3>1. i = Len(stack) + 1
        BY <1>6, <2>3
      <3>2. stack'[i] = f
        BY <1>6, <3>1
      <3>3. QED
        BY <2>2, <3>2 DEF GoodFrame
    <2>4. QED
      BY <2>1, <2>3
  <1>11. Nested'
    <2>1. \A i \in 1..Len(stack) : stack[i].left # 0
      BY <1>2, <1>6 DEF ReaderInv, Nested
    <2>2. \A i \in 1..Len(stack) : stack[i].node < n
      BY <1>a, NodesAreSome
    <2>3. \A i, j \in 1..Len(stack) : i < j /\ stack[j].node # 0 => stack[i].node < stack[j].node
      BY DEF ReaderInv, Nested
    <2>4. \A i \in 1..Len(stack') : i < Len(stack') \/ returned' # None => stack'[i].left # 0
      <3>1. returned' = None
        BY <1>1, <1>2
      <3>2. ASSUME NEW i \in 1..Len(stack'), i < Len(stack') PROVE stack'[i].left # 0
        <4>1. i \in 1..Len(stack) /\ stack'[i] = stack[i]
          BY <1>6, <3>2
        <4>2. QED
          BY <2>1, <4>1
      <3>3. QED
        BY <3>1, <3>2
    <2>5. \A i, j \in 1..Len(stack') : i < j /\ stack'[j].node # 0 => stack'[i].node < stack'[j].node
      <3>1. ASSUME NEW i \in 1..Len(stack'), NEW j \in 1..Len(stack'), i < j, stack'[j].node # 0
            PROVE  stack'[i].node < stack'[j].node
        <4>1. i \in 1..Len(stack) /\ stack'[i] = stack[i]
          BY <1>6, <3>1
        <4>2. CASE j \in 1..Len(stack)
          BY <1>6, <2>3, <3>1, <4>1, <4>2
        <4>3. CASE j = Len(stack) + 1
          BY <1>3, <1>6, <2>2, <4>1, <4>3
        <4>4. QED
          BY <1>6, <4>2, <4>3
      <3>2. QED
        BY <3>1
    <2>6. QED
      BY <2>4, <2>5 DEF Nested
  <1>12. Tables'
    BY <1>1 DEF ReaderInv, Tables
  <1>13. ReaderInv'
    <2>1. Len(stack') <= limits'.depth
      BY <1>0, <1>1, <1>6, NodesAreSome
    <2>2. Len(stack') = Len(stack) + 1 /\ Len(heap') = n /\ status' = "reading"
      BY <1>1, <1>2, <1>5, <1>6
    <2>3. QED
      BY <1>8, <1>9, <1>10, <1>11, <1>12, <2>1, <2>2 DEF ReaderInv
  <1>14. \A i \in 1..Len(stack) : IsList(stack[i])' = IsList(stack[i])
    <2>1. ASSUME NEW i \in 1..Len(stack) PROVE IsList(stack[i])' = IsList(stack[i])
      <3>1. stack[i].node = 0 \/ stack[i].node \in 1..Len(heap)
        BY NodesAreSome
      <3>2. QED
        BY <1>5, <1>6, <3>1 DEF IsList
    <2>2. QED
      BY <2>1
  <1>15. ASSUME HoldsLater PROVE HoldsLater'
    <2>1. PICK m \in 1..Len(heap) : heap[m].kind = "list" /\ \E v \in Kids(m) : v.node >= m
      BY <1>15 DEF HoldsLater
    <2>2. heap'[m] = heap[m] /\ m \in 1..Len(heap')
      BY <1>0, <1>5, <1>a, <2>1
    <2>3. QED
      BY <2>1, <2>2 DEF HoldsLater, Kids
  <1>16. ASSUME NEW i \in 1..Len(stack), IsList(stack[i]) PROVE WillHoldLater'
    <2>1. i \in 1..Len(stack') /\ Len(stack') \in 1..Len(stack') /\ i < Len(stack') /\ stack'[Len(stack')].node # 0
      BY <1>3, <1>5, <1>6
    <2>2. QED
      BY <1>14, <1>16, <2>1 DEF WillHoldLater
  <1>17. ASSUME Numbered, \A i \in 1..Len(stack) : ~IsList(stack[i]) PROVE Numbered'
    <2>1. Len(refs) = Len(heap) /\ \A i \in 1..Len(refs) : refs[i] = i
      BY <1>17 DEF Numbered
    <2>2. IsList(f)' <=> kind = "list"
      BY <1>c, <1>3, <1>5 DEF IsList
    <2>3. refs \in Seq(1..Len(heap))
      BY DEF ReaderInv, Typed
    <2>4. CASE kind = "list"
      <3>1. refs' = refs /\ Len(refs') = Len(heap') - 1
        BY <1>0, <1>5, <1>a, <2>1, <2>4
      <3>2. \A i \in 1..Len(stack') : IsList(stack[i])' <=> i = Len(stack')
        <4>1. ASSUME NEW i \in 1..Len(stack) PROVE ~IsList(stack[i])' /\ i # Len(stack')
          BY <1>6, <1>14, <1>17
        <4>2. ASSUME NEW i \in 1..Len(stack'), i \notin 1..Len(stack) PROVE IsList(stack[i])' /\ i = Len(stack')
          <5>1. i = Len(stack) + 1 /\ stack'[i] = f
            BY <1>6, <4>2
          <5>2. QED
            BY <1>6, <2>2, <2>4, <5>1 DEF IsList
        <4>3. QED
          BY <4>1, <4>2
      <3>3. Len(stack') \in 1..Len(stack') /\ stack'[Len(stack')].node = Len(heap')
        BY <1>3, <1>5, <1>6
      <3>4. QED
        BY <2>1, <3>1, <3>2, <3>3 DEF Numbered
    <2>5. CASE kind # "list"
      <3>1. Len(refs') = Len(refs) + 1 /\ refs'[Len(refs) + 1] = n /\ \A i \in 1..Len(refs) : refs'[i] = refs[i]
        <4>1. refs' = Append(refs, n)
          BY <1>a, <2>5
        <4>2. QED
          BY <2>3, <4>1, Appended
      <3>2. \A i \in 1..Len(stack') : ~IsList(stack[i])'
        <4>1. ASSUME NEW i \in 1..Len(stack') PROVE ~IsList(stack[i])'
          <5>1. CASE i \in 1..Len(stack)
            BY <1>14, <1>17, <5>1
          <5>2. CASE i = Len(stack) + 1
            BY <1>6, <2>2, <2>5, <5>2
          <5>3. QED
            BY <1>6, <5>1, <5>2
        <4>2. QED
          BY <4>1
      <3>3. QED
        <4>1. Len(refs') = Len(heap') /\ \A i \in 1..Len(refs') : refs'[i] = i
          <5>1. n = Len(heap) + 1 /\ Len(heap') = n /\ Len(refs) = Len(heap)
            BY <1>5, <1>a, <2>1
          <5>2. Len(refs') = n
            BY <3>1, <5>1
          <5>3. ASSUME NEW i \in 1..n PROVE refs'[i] = i
            <6>1. CASE i = n
              BY <3>1, <5>1, <6>1
            <6>2. CASE i # n
              <7>1. i \in 1..Len(refs)
                BY <1>0, <5>1, <6>2
              <7>2. QED
                BY <2>1, <3>1, <7>1
            <6>3. QED
              BY <6>1, <6>2
          <5>4. QED
            BY <5>1, <5>2, <5>3
        <4>2. QED
          BY <3>2, <4>1 DEF Numbered
    <2>6. QED
      BY <2>4, <2>5
  <1>18. QED
    BY <1>13, <1>15, <1>16, <1>17 DEF Counted, WillHoldLater

(* The call on top of the stack gets a part of the node t that it reads.    *)
LEMMA GiveKeeps ==
  ASSUME ReaderInv, Counted, R!Returning, stack # <<>>, R!Top # R!Definition,
         NEW t, t = R!Top.node, NEW f \in Frames, f.node = t, NEW h \in HeapNode, h.kind = heap[t].kind,
         R!Give(f, h),
         UNCHANGED <<limits, refs, classDefs, types, answers, input>>, status' \in {"failed", status},
         h.kind = "list" => h.kids \in Seq(Value) /\ returned \in {h.kids[k] : k \in DOMAIN h.kids},
         h.kind # "list" => DOMAIN h.kids \subseteq Names,
         IsFiniteSet(DOMAIN h.kids),
         \A k \in DOMAIN h.kids : h.kids[k] \in Values(Len(heap)),
         status' # "failed" => Cardinality(DOMAIN h.kids) <= limits.items,
         h.kind = "list" => Kids(t) \subseteq {h.kids[k] : k \in DOMAIN h.kids},
         t \in 1..Len(heap) => GoodFrame(f)'
  PROVE  ReaderInv' /\ Counted'
  <1> DEFINE l == Len(stack)
  <1>0. /\ heap \in Seq(HeapNode) /\ stack \in Seq(Frames)
        /\ Len(heap) \in Nat /\ l \in Nat \ {0}
    BY NodesAreSome, EmptySeq DEF ReaderInv, Typed
  <1>1. t = stack[l].node /\ stack[l] # R!Definition /\ l \in 1..l
    BY <1>0 DEF R!Top, R!Last
  <1>2. t \in 1..Len(heap)
    BY <1>0, <1>1 DEF ReaderInv, GoodFrame
  <1>3. status = "reading" /\ returned # None /\ returned' = None
    BY DEF R!Returning, R!Give
  <1>4. stack' = [stack EXCEPT ![l] = f] /\ heap' = [heap EXCEPT ![t] = h]
    BY DEF R!Give
  <1>5. /\ heap' \in Seq(HeapNode) /\ Len(heap') = Len(heap) /\ heap'[t] = h
        /\ \A i \in 1..Len(heap) : i # t => heap'[i] = heap[i]
    BY <1>0, <1>2, <1>4
  <1>6. /\ stack' \in Seq(Frames) /\ Len(stack') = l /\ stack'[l] = f
        /\ \A i \in 1..l : i # l => stack'[i] = stack[i]
    BY <1>0, <1>1, <1>4
  <1>7. \A i \in 1..l : stack'[i].node = stack[i].node
    BY <1>1, <1>6
  <1>8. \A n \in 1..Len(heap) : heap'[n].kind = heap[n].kind
    BY <1>5
  <1>9. Typed'
    BY <1>3, <1>5, <1>6 DEF ReaderInv, Typed
  <1>10. \A n \in 1..Len(heap) : GoodNode(n)' /\ (status' # "failed" => Small(n)')
    <2>1. ASSUME NEW n \in 1..Len(heap), n # t PROVE GoodNode(n)' /\ (status' # "failed" => Small(n)')
      <3>1. GoodNode(n) /\ (status # "failed" => Small(n)) /\ heap'[n] = heap[n]
        BY <1>5, <2>1 DEF ReaderInv
      <3>2. QED
        BY <1>3, <1>5, <3>1 DEF GoodNode, Small
    <2>2. GoodNode(t)' /\ (status' # "failed" => Small(t)')
      BY <1>2, <1>5 DEF GoodNode, Small
    <2>3. QED
      BY <2>1, <2>2
  <1>11. \A i \in 1..l : GoodFrame(stack[i])'
    <2>1. ASSUME NEW i \in 1..l, i # l PROVE GoodFrame(stack[i])'
      <3>1. GoodFrame(stack[i]) /\ stack'[i] = stack[i]
        BY <1>6, <2>1 DEF ReaderInv
      <3>2. stack[i].node < t
        BY <1>0, <1>1, <1>2, <2>1 DEF ReaderInv, Nested
      <3>3. CASE stack[i].node = 0
        BY <3>1, <3>3 DEF GoodFrame, R!Definition, R!Frame
      <3>4. CASE stack[i].node # 0
        <4>1. stack[i].node \in 1..Len(heap) /\ heap'[stack[i].node] = heap[stack[i].node]
          BY <1>0, <1>2, <1>5, <3>1, <3>2, <3>4 DEF GoodFrame
        <4>2. QED
          BY <1>5, <3>1, <3>4, <4>1 DEF GoodFrame
      <3>5. QED
        BY <3>3, <3>4
    <2>2. ASSUME NEW i \in 1..l, i = l PROVE GoodFrame(stack[i])'
      BY <1>2, <1>6, <2>2
    <2>3. QED
      BY <2>1, <2>2
  <1>12. Nested'
    <2>1. \A i \in 1..l : i < l => stack'[i].left # 0
      BY <1>0, <1>6 DEF ReaderInv, Nested
    <2>2. \A i, j \in 1..l : i < j /\ stack'[j].node # 0 => stack'[i].node < stack'[j].node
      BY <1>7 DEF ReaderInv, Nested
    <2>3. QED
      BY <1>3, <1>6, <2>1, <2>2 DEF Nested
  <1>13. ReaderInv'
    BY <1>3, <1>5, <1>6, <1>9, <1>10, <1>11, <1>12 DEF ReaderInv, Tables
  <1>14. \A i \in 1..l : IsList(stack[i])' = IsList(stack[i])
    <2>1. ASSUME NEW i \in 1..l PROVE IsList(stack[i])' = IsList(stack[i])
      <3>1. stack[i].node = 0 \/ stack[i].node \in 1..Len(heap)
        BY NodesAreSome
      <3>2. QED
        BY <1>7, <1>8, <3>1 DEF IsList
    <2>2. QED
      BY <2>1
  <1>15. ASSUME HoldsLater PROVE HoldsLater'
    <2>0. PICK m \in 1..Len(heap) : heap[m].kind = "list" /\ \E v \in Kids(m) : v.node >= m
      BY <1>15 DEF HoldsLater
    <2>1. PICK v \in Kids(m) : v.node >= m
      BY <2>0
    <2>2. v \in Kids(m)'
      <3>1. CASE m = t
        <4>1. Kids(t)' = {h.kids[k] : k \in DOMAIN h.kids}
          BY <1>5 DEF Kids
        <4>2. QED
          BY <2>0, <2>1, <3>1, <4>1
      <3>2. CASE m # t
        BY <1>5, <2>0, <2>1, <3>2 DEF Kids
      <3>3. QED
        BY <3>1, <3>2
    <2>3. QED
      BY <1>5, <1>8, <2>0, <2>1, <2>2 DEF HoldsLater
  <1>16. ASSUME NEW i \in 1..l, IsList(stack[i]),
                (\E j \in 1..l : i < j /\ stack[j].node # 0) \/ returned.node > stack[i].node
         PROVE  Counted'
    <2>1. CASE i = l
      <3>1. stack[i].node = t /\ heap[t].kind = "list" /\ returned.node > t
        BY <1>0, <1>1, <1>16, <2>1 DEF IsList
      <3>2. returned \in Kids(t)'
        BY <1>5, <3>1 DEF Kids
      <3>3. returned.node >= t
        BY <1>2, <1>3, <3>1, ValuesAre, <1>0 DEF ReaderInv, Typed
      <3>4. QED
        BY <1>2, <1>5, <1>8, <3>1, <3>2, <3>3 DEF HoldsLater, Counted
    <2>2. CASE i # l
      <3>1. i < l /\ stack'[l].node # 0 /\ IsList(stack[i])'
        BY <1>0, <1>1, <1>2, <1>7, <1>14, <1>16, <2>2
      <3>2. QED
        BY <1>0, <1>6, <3>1 DEF WillHoldLater, Counted
    <2>3. QED
      BY <2>1, <2>2
  <1>17. ASSUME Numbered PROVE Numbered'
    BY <1>5, <1>6, <1>7, <1>14, <1>17 DEF Numbered
  <1>18. QED
    BY <1>13, <1>15, <1>16, <1>17 DEF Counted, WillHoldLater

(* A node has all its parts, and the call that read it returns it.          *)
LEMMA FinishKeeps ==
  ASSUME ReaderInv, Counted, R!Reading, stack # <<>>, R!Top.left # 1, input' \in Seq(Tokens),
         R!Finish(R!Top.node)
  PROVE  ReaderInv' /\ Counted'
  <1>0. /\ heap \in Seq(HeapNode) /\ stack \in Seq(Frames) /\ refs \in Seq(1..Len(heap))
        /\ Len(heap) \in Nat /\ Len(stack) \in Nat \ {0}
    BY NodesAreSome, EmptySeq DEF ReaderInv, Typed
  <1>a. PICK l : l = Len(stack)
    OBVIOUS
  <1>b. PICK t : t = stack[l].node
    OBVIOUS
  <1>1. t = R!Top.node /\ stack[l] # R!Definition /\ l \in 1..l /\ l \in 1..Len(stack)
    BY <1>0, <1>a, <1>b DEF R!Top, R!Last, R!Definition, R!Frame
  <1>2. t \in 1..Len(heap)
    BY <1>0, <1>1, <1>a, <1>b DEF ReaderInv, GoodFrame
  <1>3. status = "reading" /\ returned = None
    BY DEF R!Reading
  <1>4. CASE R!Fail
    BY <1>4, FailKeeps
  <1>5. CASE ~ R!Fail
    <2>1. /\ heap[t].kind = "list" => R!RoomForRef
          /\ refs' = IF heap[t].kind = "list" THEN Append(refs, t) ELSE refs
          /\ stack' = R!Front(stack) /\ returned' = Node(t)
          /\ UNCHANGED <<limits, classDefs, types, heap, answers, status>>
      BY <1>1, <1>5 DEF R!Finish, R!Node, Node
    <2>2. /\ stack' \in Seq(Frames) /\ Len(stack') = l - 1
          /\ \A i \in 1..l - 1 : stack'[i] = stack[i] /\ i \in 1..Len(stack)
      BY <1>0, <1>a, <2>1, FrontIs
    <2>3. returned' \in Values(Len(heap)) /\ returned'.node = t /\ returned' # None
      BY <1>0, <1>2, <2>1, ValuesAre
    <2>4. /\ refs' \in Seq(1..Len(heap))
          /\ heap[t].kind = "list" => /\ Len(refs') = Len(refs) + 1 /\ refs'[Len(refs) + 1] = t
                                      /\ \A i \in 1..Len(refs) : refs'[i] = refs[i]
      <3>1. CASE heap[t].kind = "list"
        <4>1. refs' = Append(refs, t)
          BY <2>1, <3>1
        <4>2. QED
          BY <1>0, <1>2, <4>1, Appended
      <3>2. CASE heap[t].kind # "list"
        BY <1>0, <2>1, <3>2
      <3>3. QED
        BY <3>1, <3>2
    <2>5. Typed'
      BY <2>1, <2>2, <2>3, <2>4 DEF ReaderInv, Typed
    <2>6. \A n \in 1..Len(heap) : GoodNode(n)' /\ Small(n)'
      BY <1>3, <2>1 DEF ReaderInv, GoodNode, Small
    <2>7. \A i \in 1..l - 1 : GoodFrame(stack[i])'
      <3>1. ASSUME NEW i \in 1..l - 1 PROVE GoodFrame(stack[i])'
        <4>1. GoodFrame(stack[i]) /\ stack'[i] = stack[i]
          BY <2>2 DEF ReaderInv
        <4>2. QED
          BY <2>1, <4>1 DEF GoodFrame, R!Definition, R!Frame
      <3>2. QED
        BY <3>1
    <2>8. Nested'
      <3>1. \A i \in 1..l - 1 : stack'[i].left # 0
        BY <1>0, <1>a, <2>2 DEF ReaderInv, Nested
      <3>2. \A i, j \in 1..l - 1 : i < j /\ stack'[j].node # 0 => stack'[i].node < stack'[j].node
        BY <2>2 DEF ReaderInv, Nested
      <3>3. QED
        BY <2>2, <3>1, <3>2 DEF Nested
    <2>9. Tables'
      <3>1. Len(refs') <= limits.refs
        BY <1>0, <2>1, <2>4, NodesAreSome DEF R!RoomForRef, ReaderInv, Tables
      <3>2. QED
        BY <2>1, <3>1 DEF ReaderInv, Tables
    <2>10. Len(stack') <= limits'.depth
      <3>1. Len(stack') < Len(stack) /\ Len(stack) <= limits.depth /\ limits' = limits
        BY <1>0, <1>a, <2>1, <2>2 DEF ReaderInv
      <3>2. QED
        BY <1>0, <1>a, <2>2, <3>1, NodesAreSome
    <2>11. ReaderInv'
      BY <1>3, <2>1, <2>2, <2>5, <2>6, <2>7, <2>8, <2>9, <2>10 DEF ReaderInv
    <2>12. \A i \in 1..l - 1 : IsList(stack[i])' <=> IsList(stack[i])
      BY <2>1, <2>2 DEF IsList
    <2>13. ASSUME HoldsLater PROVE HoldsLater'
      BY <2>1, <2>13 DEF HoldsLater, Kids
    <2>14. \A i \in 1..l - 1 : stack[i].node < t
      <3>1. ASSUME NEW i \in 1..l - 1 PROVE stack[i].node < t
        <4>1. i \in 1..Len(stack) /\ l \in 1..Len(stack) /\ i < l /\ stack[l].node # 0
          BY <1>0, <1>1, <1>2, <1>a, <1>b
        <4>2. QED
          BY <1>b, <4>1 DEF ReaderInv, Nested
      <3>2. QED
        BY <3>1
    <2>15. ASSUME WillHoldLater PROVE WillHoldLater'
      <3>1. PICK i \in 1..Len(stack), j \in 1..Len(stack) : IsList(stack[i]) /\ i < j
        BY <1>3, <2>15 DEF WillHoldLater
      <3>2. i \in 1..l - 1
        BY <1>0, <1>a, <3>1
      <3>3. QED
        BY <2>2, <2>3, <2>12, <2>14, <3>1, <3>2 DEF WillHoldLater
    <2>16. ASSUME Numbered PROVE Numbered'
      <3>1. CASE heap[t].kind = "list"
        <4>1. t = Len(heap) /\ Len(refs) = Len(heap) - 1
          BY <1>0, <1>1, <1>2, <1>b, <2>16, <3>1 DEF Numbered, IsList
        <4>2. \A i \in 1..l - 1 : ~IsList(stack[i])
          BY <1>0, <2>2, <2>14, <2>16, <4>1 DEF Numbered
        <4>3. Len(refs') = Len(heap) /\ \A i \in 1..Len(refs) : refs'[i] = i
          <5>1. \A i \in 1..Len(refs) : refs[i] = i /\ refs'[i] = refs[i]
            BY <2>4, <2>16, <3>1 DEF Numbered
          <5>2. Len(refs') = Len(refs) + 1
            BY <2>4, <3>1
          <5>3. QED
            BY <1>0, <4>1, <5>1, <5>2
        <4>4. \A i \in 1..Len(refs') : refs'[i] = i
          <5>1. ASSUME NEW i \in 1..Len(refs') PROVE refs'[i] = i
            <6>1. CASE i \in 1..Len(refs)
              BY <4>3, <6>1
            <6>2. CASE i = Len(refs) + 1
              BY <2>4, <3>1, <4>1, <6>2
            <6>3. QED
              BY <1>0, <4>1, <4>3, <6>1, <6>2
          <5>2. QED
            BY <5>1
        <4>5. QED
          BY <2>1, <2>2, <2>12, <4>2, <4>3, <4>4 DEF Numbered
      <3>2. CASE heap[t].kind # "list"
        <4>1. ~IsList(stack[l]) /\ refs' = refs /\ heap' = heap
          BY <1>b, <2>1, <3>2 DEF IsList
        <4>2. (\E i \in 1..Len(stack) : IsList(stack[i])) <=> \E i \in 1..l - 1 : IsList(stack[i])
          BY <1>0, <1>a, <4>1
        <4>3. (\E i \in 1..Len(stack') : IsList(stack[i])') <=> \E i \in 1..l - 1 : IsList(stack[i])
          BY <2>2, <2>12
        <4>4. \A i \in 1..Len(stack') : IsList(stack[i])' => stack'[i].node = Len(heap')
          BY <2>2, <2>12, <2>16, <4>1 DEF Numbered
        <4>5. QED
          BY <2>16, <4>1, <4>2, <4>3, <4>4 DEF Numbered
      <3>3. QED
        BY <3>1, <3>2
    <2>17. QED
      BY <2>11, <2>13, <2>15, <2>16 DEF Counted
  <1>6. QED
    BY <1>4, <1>5

-----------------------------------------------------------------------------
(* The actions of the decoder. *)
LEMMA ReadsOne ==
  ASSUME ReaderInv, NEW tag, R!Reads(tag)
  PROVE  /\ R!Wanting /\ Len(stack) < limits.depth
         /\ input' \in Seq(Tokens) /\ Head(input) \in Tokens /\ Head(input).tag = tag
  <1>1. input # <<>> /\ input \in Seq(Tokens) /\ input' = Tail(input) /\ Head(input).tag = tag
    BY DEF R!Reads, R!NextIs, ReaderInv, Typed
  <1>2. QED
    BY <1>1 DEF R!Reads

LEMMA TokenIs ==
  ASSUME NEW t \in Tokens
  PROVE  /\ t.scalar \in Scalars \cup {None} /\ t.type \in Names \cup {None}
         /\ t.typeRef \in Int /\ t.length \in Int /\ t.names \in Seq(Names) /\ t.ref \in Nat
         /\ t.tag = "scalar" => t.scalar \in Scalars
  BY DEF Tokens

LEMMA NextFails ==
  ASSUME ReaderInv, Counted, R!TooDeep \/ R!PastEnd \/ R!ReadNoValue
  PROVE  ReaderInv' /\ Counted'
  <1>1. CASE R!TooDeep \/ R!PastEnd
    BY <1>1, FailKeeps DEF R!TooDeep, R!PastEnd, ReaderInv, Typed
  <1>2. CASE R!ReadNoValue
    BY <1>2, FailKeeps, ReadsOne DEF R!ReadNoValue
  <1>3. QED
    BY <1>1, <1>2

(* What stands alone is returned at once. *)
LEMMA ReturnsKeep ==
  ASSUME ReaderInv, Counted, R!Wanting, input' \in Seq(Tokens), returned' \in Values(Len(heap)),
         UNCHANGED <<limits, stack, refs, classDefs, types, heap, answers, status>>
  PROVE  ReaderInv' /\ Counted'
  <1>1. returned = None /\ status = "reading"
    BY DEF R!Wanting, R!Reading
  <1>2. Typed'
    BY DEF ReaderInv, Typed
  <1>3. (\A n \in 1..Len(heap) : GoodNode(n) /\ Small(n))'
    BY <1>1 DEF ReaderInv, GoodNode, Small
  <1>4. (\A i \in 1..Len(stack) : GoodFrame(stack[i]))'
    BY SMTT(30) DEF ReaderInv, GoodFrame
  <1>5. Nested'
    <2>1. stack # <<>> => stack[Len(stack)].left # 0
      BY DEF R!Wanting, R!Top, R!Last
    <2>2. \A i \in 1..Len(stack) : stack[i].left # 0
      <3>1. ASSUME NEW i \in 1..Len(stack) PROVE stack[i].left # 0
        <4>1. stack # <<>> /\ Len(stack) \in Nat
          BY NodesAreSome
        <4>2. i < Len(stack) \/ i = Len(stack)
          BY <4>1
        <4>3. QED
          BY <2>1, <4>1, <4>2 DEF ReaderInv, Nested
      <3>2. QED
        BY <3>1
    <2>3. QED
      BY <2>2 DEF ReaderInv, Nested
  <1>6. ReaderInv'
    BY <1>1, <1>2, <1>3, <1>4, <1>5 DEF ReaderInv, Tables
  <1>7. HoldsLater => HoldsLater'
    BY DEF HoldsLater, Kids
  <1>8. WillHoldLater => WillHoldLater'
    BY <1>1 DEF WillHoldLater, IsList
  <1>9. Numbered => Numbered'
    BY DEF Numbered, IsList
  <1>10. QED
    BY <1>6, <1>7, <1>8, <1>9 DEF Counted

LEMMA NextReadScalar ==
  ASSUME ReaderInv, Counted, R!ReadScalar
  PROVE  ReaderInv' /\ Counted'
  <1>1. R!Wanting /\ input' \in Seq(Tokens) /\ Head(input).scalar \in Scalars
    BY ReadsOne, TokenIs DEF R!ReadScalar
  <1>2. returned' \in Values(Len(heap))
    BY <1>1 DEF R!ReadScalar, R!Scalar, Scalar, Values
  <1>3. QED
    BY <1>1, <1>2, ReturnsKeep DEF R!ReadScalar

LEMMA NextReadRef ==
  ASSUME ReaderInv, Counted, R!ReadRef
  PROVE  ReaderInv' /\ Counted'
  <1>1. R!Wanting /\ input' \in Seq(Tokens) /\ Head(input).ref \in Nat
    BY ReadsOne, TokenIs DEF R!ReadRef
  <1>2. CASE Head(input).ref < Len(refs)
    <2>1. returned' = Node(refs[Head(input).ref + 1])
      BY <1>2 DEF R!ReadRef, R!Node, Node
    <2>2. refs[Head(input).ref + 1] \in 1..Len(heap)
      <3>1. refs \in Seq(1..Len(heap))
        BY DEF ReaderInv, Typed
      <3>2. Head(input).ref + 1 \in 1..Len(refs)
        BY <1>1, <1>2, <3>1
      <3>3. QED
        BY <3>1, <3>2
    <2>3. returned' \in Values(Len(heap))
      BY <2>1, <2>2, ValuesAre, NodesAreSome
    <2>4. QED
      BY <1>1, <1>2, <2>3, ReturnsKeep DEF R!ReadRef
  <1>3. CASE ~ (Head(input).ref < Len(refs))
    BY <1>1, <1>3, FailKeeps DEF R!ReadRef
  <1>4. QED
    BY <1>2, <1>3

LEMMA NextReadDefinition ==
  ASSUME ReaderInv, Counted, R!ReadDefinition
  PROVE  ReaderInv' /\ Counted'
  <1>1. R!Wanting /\ Len(stack) < limits.depth /\ input' \in Seq(Tokens) /\ Head(input) \in Tokens
    BY ReadsOne DEF R!ReadDefinition
  <1>2. CASE R!Fail
    BY <1>1, <1>2, FailKeeps
  <1>3. CASE ~ R!Fail
    <2>a. PICK t : t = Head(input)
      OBVIOUS
    <2>b. PICK f : f = R!Definition
      OBVIOUS
    <2>c. PICK d : d = [type |-> t.type, names |-> t.names]
      OBVIOUS
    <2>1. /\ Len(t.names) <= limits.items /\ Len(classDefs) < limits.refs
          /\ classDefs' = Append(classDefs, d) /\ stack' = Append(stack, f)
          /\ UNCHANGED <<limits, refs, types, heap, returned, answers, status>>
      BY <1>3, <2>a, <2>b, <2>c DEF R!ReadDefinition
    <2>2. t.type \in Names \cup {None} /\ t.names \in Seq(Names)
      BY <1>1, <2>a, TokenIs
    <2>3. f \in Frames /\ f.node = 0 /\ f.left = 1
      BY <2>b DEF R!Definition, R!Frame, Frames
    <2>4. /\ stack \in Seq(Frames) /\ Len(stack) \in Nat
          /\ classDefs \in Seq([type : Names \cup {None}, names : Seq(Names)])
      BY NodesAreSome DEF ReaderInv, Typed
    <2>5. /\ Len(stack') = Len(stack) + 1 /\ stack'[Len(stack) + 1] = f
          /\ \A i \in 1..Len(stack) : stack'[i] = stack[i]
          /\ stack' \in Seq(Frames)
      BY <2>1, <2>3, <2>4, Appended
    <2>6. d \in [type : Names \cup {None}, names : Seq(Names)] /\ d.names = t.names
      BY <2>2, <2>c
    <2>7. /\ Len(classDefs') = Len(classDefs) + 1 /\ classDefs'[Len(classDefs) + 1] = d
          /\ \A i \in 1..Len(classDefs) : classDefs'[i] = classDefs[i]
          /\ classDefs' \in Seq([type : Names \cup {None}, names : Seq(Names)])
      BY <2>1, <2>4, <2>6, Appended
    <2>8. returned = None /\ status = "reading" /\ (stack # <<>> => stack[Len(stack)].left # 0)
      BY <1>1 DEF R!Wanting, R!Reading, R!Top, R!Last
    <2>9. Typed'
      <3>1. limits' \in R!Limits /\ refs' \in Seq(1..Len(heap')) /\ heap' \in Seq(HeapNode)
        BY <2>1 DEF ReaderInv, Typed
      <3>2. types' \in Seq(Names) /\ answers' \in Seq(Values(Len(heap'))) /\ status' = "reading" /\ returned' = None
        BY <2>1, <2>8 DEF ReaderInv, Typed
      <3>3. QED
        BY <1>1, <2>5, <2>7, <3>1, <3>2 DEF Typed
    <2>10. (\A n \in 1..Len(heap) : GoodNode(n) /\ Small(n))'
      BY <2>1, <2>8 DEF ReaderInv, GoodNode, Small
    <2>11. (\A i \in 1..Len(stack) : GoodFrame(stack[i]))'
      <3>1. ASSUME NEW i \in 1..Len(stack') PROVE GoodFrame(stack[i])'
        <4>1. CASE i \in 1..Len(stack)
          <5>1. GoodFrame(stack[i]) /\ stack'[i] = stack[i]
            BY <2>5, <4>1 DEF ReaderInv
          <5>2. QED
            BY <2>1, <5>1 DEF GoodFrame, R!Definition, R!Frame
        <4>2. CASE i = Len(stack) + 1
          BY <2>b, <2>3, <2>5, <4>2 DEF GoodFrame, R!Definition, R!Frame
        <4>3. QED
          BY <2>4, <2>5, <4>1, <4>2
      <3>2. QED
        BY <3>1
    <2>12. Nested'
      <3>1. \A i \in 1..Len(stack) : stack'[i].left # 0
        BY <2>4, <2>5, <2>8 DEF ReaderInv, Nested
      <3>2. \A i \in 1..Len(stack') : stack'[i].left # 0
        BY <2>3, <2>4, <2>5, <3>1
      <3>3. ASSUME NEW i \in 1..Len(stack'), NEW j \in 1..Len(stack'), i < j, stack'[j].node # 0
            PROVE  stack'[i].node < stack'[j].node
        <4>1. j # Len(stack) + 1
          BY <2>3, <2>5, <3>3
        <4>2. i \in 1..Len(stack) /\ j \in 1..Len(stack)
          <5>1. i \in 1..Len(stack) + 1 /\ j \in 1..Len(stack) + 1
            BY <2>5
          <5>2. Len(stack) \in Nat /\ i < j
            BY <2>4, <3>3
          <5>3. QED
            BY <4>1, <5>1, <5>2
        <4>3. QED
          BY <2>5, <3>3, <4>2 DEF ReaderInv, Nested
      <3>4. QED
        BY <3>2, <3>3 DEF Nested
    <2>13. Tables'
      <3>1. Len(classDefs) \in Nat /\ Len(classDefs') <= limits.refs
        BY <2>1, <2>4, <2>7, NodesAreSome
      <3>2. ASSUME NEW i \in 1..Len(classDefs') PROVE Len(classDefs'[i].names) <= limits.items
        <4>1. CASE i = Len(classDefs) + 1
          BY <2>1, <2>6, <2>7, <4>1
        <4>2. CASE i # Len(classDefs) + 1
          <5>1. i \in 1..Len(classDefs)
            BY <2>7, <3>1, <4>2
          <5>2. QED
            BY <2>7, <5>1 DEF ReaderInv, Tables
        <4>3. QED
          BY <4>1, <4>2
      <3>3. QED
        BY <2>1, <3>1, <3>2 DEF ReaderInv, Tables
    <2>14. Len(stack') <= limits'.depth
      BY <1>1, <2>1, <2>4, <2>5, NodesAreSome
    <2>15. ReaderInv'
      BY <2>1, <2>8, <2>9, <2>10, <2>11, <2>12, <2>13, <2>14 DEF ReaderInv
    <2>16. /\ \A i \in 1..Len(stack) : IsList(stack[i])' <=> IsList(stack[i])
           /\ \A i \in 1..Len(stack') : i \notin 1..Len(stack) => ~IsList(stack[i])'
           /\ 1..Len(stack) \subseteq 1..Len(stack')
      BY <2>1, <2>3, <2>4, <2>5 DEF IsList
    <2>17. HoldsLater => HoldsLater'
      BY <2>1 DEF HoldsLater, Kids
    <2>18. ASSUME WillHoldLater PROVE WillHoldLater'
      <3>1. PICK i \in 1..Len(stack), j \in 1..Len(stack) :
                    IsList(stack[i]) /\ i < j /\ stack[j].node # 0
        BY <2>8, <2>18 DEF WillHoldLater
      <3>2. QED
        BY <2>5, <2>16, <3>1 DEF WillHoldLater
    <2>19. ASSUME Numbered PROVE Numbered'
      <3>1. (\E i \in 1..Len(stack) : IsList(stack[i])) <=> (\E i \in 1..Len(stack) : IsList(stack[i]))'
        BY <2>16
      <3>2. (\A i \in 1..Len(stack) : IsList(stack[i]) => stack[i].node = Len(heap))'
        BY <2>1, <2>5, <2>16, <2>19 DEF Numbered
      <3>3. QED
        BY <2>1, <2>19, <3>1, <3>2 DEF Numbered
    <2>20. QED
      BY <2>15, <2>17, <2>18, <2>19 DEF Counted
  <1>4. QED
    BY <1>2, <1>3

(* The types of lists and maps. *)
LEMMA TypesKeep ==
  ASSUME ReaderInv, NEW t \in Tokens, R!TypeReadable(t)
  PROVE  /\ R!TypeOf(t) \in Names \cup {None}
         /\ R!TypesWith(t) \in Seq(Names)
         /\ Len(R!TypesWith(t)) <= limits.refs
  <1>1. /\ types \in Seq(Names) /\ Len(types) <= limits.refs /\ limits.refs \in Nat
        /\ t.type \in Names \cup {None} /\ t.typeRef \in Int
    BY NodesAreSome, TokenIs DEF ReaderInv, Typed, Tables
  <1>2. R!TypeOf(t) \in Names \cup {None}
    <2>1. CASE t.typeRef >= 0
      <3>1. t.typeRef + 1 \in 1..Len(types)
        BY <1>1, <2>1 DEF R!TypeReadable
      <3>2. QED
        BY <1>1, <2>1, <3>1 DEF R!TypeOf
    <2>2. CASE ~ (t.typeRef >= 0)
      BY <1>1, <2>2 DEF R!TypeOf
    <2>3. QED
      BY <2>1, <2>2
  <1>3. CASE t.type = None
    BY <1>1, <1>2, <1>3 DEF R!TypesWith
  <1>4. CASE t.type # None
    <2>1. Len(types) < limits.refs /\ R!TypesWith(t) = Append(types, t.type) /\ t.type \in Names
      BY <1>1, <1>4 DEF R!TypesWith, R!TypeReadable
    <2>2. QED
      BY <1>1, <1>2, <2>1, Appended
  <1>5. QED
    BY <1>3, <1>4

LEMMA RefsStay ==
  ASSUME ReaderInv
  PROVE  /\ refs \in Seq(1..Len(heap)) /\ Len(refs) <= limits.refs
         /\ \A x : R!RoomForRef => Len(Append(refs, x)) <= limits.refs
         /\ types \in Seq(Names) /\ Len(types) <= limits.refs
  <1>1. refs \in Seq(1..Len(heap)) /\ Len(refs) <= limits.refs /\ types \in Seq(Names) /\ Len(types) <= limits.refs
    BY DEF ReaderInv, Typed, Tables
  <1>2. ASSUME NEW x, R!RoomForRef PROVE Len(Append(refs, x)) <= limits.refs
    BY <1>1, <1>2, NodesAreSome, Appended DEF R!RoomForRef
  <1>3. QED
    BY <1>1, <1>2

LEMMA NextReadObject ==
  ASSUME ReaderInv, Counted, R!ReadObject
  PROVE  ReaderInv' /\ Counted'
  <1>1. R!Wanting /\ Len(stack) < limits.depth /\ input' \in Seq(Tokens) /\ Head(input).ref \in Nat
    BY ReadsOne, TokenIs DEF R!ReadObject
  <1>2. CASE R!Fail
    BY <1>1, <1>2, FailKeeps
  <1>3. CASE ~ R!Fail
    <2>a. PICK d : d = classDefs[Head(input).ref + 1]
      OBVIOUS
    <2>1. /\ Head(input).ref < Len(classDefs) /\ R!RoomForRef
          /\ refs' = Append(refs, Len(heap) + 1) /\ UNCHANGED <<classDefs, types>>
          /\ R!Start("object", d.type, R!NoKids, Len(d.names), d.names, FALSE)
      BY <1>3, <2>a DEF R!ReadObject
    <2>2. d.type \in Names \cup {None} /\ d.names \in Seq(Names) /\ Len(d.names) <= limits.items
      <3>1. classDefs \in Seq([type : Names \cup {None}, names : Seq(Names)])
        BY DEF ReaderInv, Typed
      <3>2. Head(input).ref + 1 \in 1..Len(classDefs)
        BY <1>1, <2>1, <3>1
      <3>3. QED
        <4>1. d \in [type : Names \cup {None}, names : Seq(Names)]
          BY <2>a, <3>1, <3>2, Member
        <4>2. Len(d.names) <= limits.items
          BY <2>a, <3>2 DEF ReaderInv, Tables
        <4>3. QED
          BY <4>1, <4>2
    <2>3. R!NoKids = NoKids /\ Len(d.names) \in Int
      BY <2>2 DEF R!NoKids, NoKids
    <2>4. QED
      BY <1>1, <2>1, <2>2, <2>3, RefsStay, StartKeeps
  <1>4. QED
    BY <1>2, <1>3

LEMMA NextReadMap ==
  ASSUME ReaderInv, Counted, R!ReadMap
  PROVE  ReaderInv' /\ Counted'
  <1>1. R!Wanting /\ Len(stack) < limits.depth /\ input' \in Seq(Tokens) /\ Head(input) \in Tokens
    BY ReadsOne DEF R!ReadMap
  <1>2. CASE R!Fail
    BY <1>1, <1>2, FailKeeps
  <1>3. CASE ~ R!Fail
    <2>a. PICK t : t = Head(input)
      OBVIOUS
    <2>1. /\ R!TypeReadable(t) /\ R!RoomForRef
          /\ refs' = Append(refs, Len(heap) + 1) /\ types' = R!TypesWith(t) /\ classDefs' = classDefs
          /\ R!Start("map", R!TypeOf(t), R!NoKids, R!Open, <<>>, FALSE)
      BY <1>3, <2>a DEF R!ReadMap
    <2>2. R!NoKids = NoKids /\ R!Open = Open /\ Open \in Int /\ <<>> \in Seq(Names)
      BY DEF R!NoKids, NoKids, R!Open, Open
    <2>3. QED
      BY <1>1, <2>a, <2>1, <2>2, RefsStay, TypesKeep, StartKeeps
  <1>4. QED
    BY <1>2, <1>3

LEMMA NextReadList ==
  ASSUME ReaderInv, Counted, R!ReadList
  PROVE  ReaderInv' /\ Counted'
  <1>1. R!Wanting /\ Len(stack) < limits.depth /\ input' \in Seq(Tokens) /\ Head(input) \in Tokens
    BY ReadsOne DEF R!ReadList
  <1>2. CASE R!Fail
    BY <1>1, <1>2, FailKeeps
  <1>3. CASE ~ R!Fail
    <2>a. PICK t : t = Head(input)
      OBVIOUS
    <2>b. PICK left : left = IF t.length < 0 THEN Open ELSE t.length
      OBVIOUS
    <2>1. /\ R!TypeReadable(t) /\ t.length <= limits.items
          /\ types' = R!TypesWith(t) /\ refs' = refs /\ classDefs' = classDefs
          /\ R!Start("list", R!TypeOf(t), <<>>, left, <<>>, TRUE)
      BY <1>3, <2>a, <2>b DEF R!ReadList, R!Open, Open
    <2>2. left \in Int /\ (left = Open \/ left \in 0..limits.items) /\ <<>> \in Seq(Names)
      BY <1>1, <2>a, <2>b, <2>1, TokenIs, NodesAreSome DEF Open
    <2>3. QED
      BY <1>1, <2>a, <2>1, <2>2, RefsStay, TypesKeep, StartKeeps
  <1>4. QED
    BY <1>2, <1>3

LEMMA NextReadFixedTypedList ==
  ASSUME ReaderInv, Counted, R!ReadFixedTypedList
  PROVE  ReaderInv' /\ Counted'
  <1>1. R!Wanting /\ Len(stack) < limits.depth /\ input' \in Seq(Tokens) /\ Head(input) \in Tokens
    BY ReadsOne DEF R!ReadFixedTypedList
  <1>2. CASE R!Fail
    BY <1>1, <1>2, FailKeeps
  <1>3. CASE ~ R!Fail
    <2>a. PICK t : t = Head(input)
      OBVIOUS
    <2>1. /\ t.typeRef \in 0..Len(types) - 1 /\ t.length \in 0..limits.items
          /\ types' = types /\ refs' = refs /\ classDefs' = classDefs
          /\ R!Start("list", types[t.typeRef + 1], <<>>, t.length, <<>>, FALSE)
      BY <1>3, <2>a DEF R!ReadFixedTypedList, R!tables
    <2>2. types[t.typeRef + 1] \in Names \cup {None} /\ t.length \in Int /\ <<>> \in Seq(Names)
      BY <1>1, <2>a, <2>1, RefsStay, TokenIs
    <2>3. QED
      BY <1>1, <2>1, <2>2, RefsStay, StartKeeps
  <1>4. QED
    BY <1>2, <1>3

LEMMA NextReturnToCaller ==
  ASSUME ReaderInv, Counted, R!ReturnToCaller
  PROVE  ReaderInv' /\ Counted'
  <1>1. /\ stack = <<>> /\ returned # None /\ answers' = Append(answers, returned) /\ returned' = None
        /\ status = "reading" /\ status' \in {"reading", "done"}
        /\ UNCHANGED <<input, limits, stack, refs, classDefs, types, heap>>
    BY DEF R!ReturnToCaller, R!Returning
  <1>2. answers' \in Seq(Values(Len(heap)))
    BY <1>1, Appended DEF ReaderInv, Typed
  <1>3. Typed'
    BY <1>1, <1>2 DEF ReaderInv, Typed
  <1>4. (\A n \in 1..Len(heap) : GoodNode(n) /\ Small(n))'
    BY <1>1 DEF ReaderInv, GoodNode, Small
  <1>5. ReaderInv'
    BY <1>1, <1>3, <1>4 DEF ReaderInv, Nested, Tables
  <1>6. ~WillHoldLater
    BY <1>1 DEF WillHoldLater
  <1>7. Counted'
    BY <1>1, <1>6 DEF Counted, HoldsLater, Numbered, IsList, Kids
  <1>8. QED
    BY <1>5, <1>7

LEMMA NextReturnThroughDefinition ==
  ASSUME ReaderInv, Counted, R!ReturnThroughDefinition
  PROVE  ReaderInv' /\ Counted'
  <1>a. PICK l : l = Len(stack)
    OBVIOUS
  <1>0. stack \in Seq(Frames) /\ stack # <<>> /\ l \in Nat \ {0}
    BY <1>a, NodesAreSome, EmptySeq DEF R!ReturnThroughDefinition, ReaderInv, Typed
  <1>1. /\ returned # None /\ status = "reading" /\ stack[l].node = 0 /\ stack' = R!Front(stack)
        /\ UNCHANGED <<input, limits, refs, classDefs, types, heap, returned, answers, status>>
    BY <1>a DEF R!ReturnThroughDefinition, R!Returning, R!Top, R!Last, R!Definition, R!Frame
  <1>2. /\ stack' \in Seq(Frames) /\ Len(stack') = l - 1
        /\ \A i \in 1..l - 1 : stack'[i] = stack[i] /\ i \in 1..Len(stack)
    BY <1>0, <1>1, <1>a, FrontIs
  <1>3. Typed'
    BY <1>1, <1>2 DEF ReaderInv, Typed
  <1>4. (\A n \in 1..Len(heap) : GoodNode(n) /\ Small(n))'
    BY <1>1 DEF ReaderInv, GoodNode, Small
  <1>5. (\A i \in 1..Len(stack) : GoodFrame(stack[i]))'
    <2>1. ASSUME NEW i \in 1..l - 1 PROVE GoodFrame(stack[i])'
      <3>1. GoodFrame(stack[i]) /\ stack'[i] = stack[i]
        BY <1>2 DEF ReaderInv
      <3>2. QED
        BY <1>1, <3>1 DEF GoodFrame, R!Definition, R!Frame
    <2>2. QED
      BY <1>2, <2>1
  <1>6. Nested'
    <2>1. \A i \in 1..l - 1 : stack'[i].left # 0
      BY <1>0, <1>1, <1>2 DEF ReaderInv, Nested
    <2>2. \A i, j \in 1..l - 1 : i < j /\ stack'[j].node # 0 => stack'[i].node < stack'[j].node
      BY <1>2 DEF ReaderInv, Nested
    <2>3. QED
      BY <1>2, <2>1, <2>2 DEF Nested
  <1>7. Len(stack') <= limits'.depth
    <2>1. l <= limits.depth /\ limits' = limits
      BY <1>1, <1>a DEF ReaderInv
    <2>2. QED
      BY <1>0, <1>2, <2>1, NodesAreSome
  <1>8. ReaderInv'
    BY <1>1, <1>3, <1>4, <1>5, <1>6, <1>7 DEF ReaderInv, Tables
  <1>9. /\ \A i \in 1..l - 1 : IsList(stack[i])' <=> IsList(stack[i])
        /\ \A i \in 1..Len(stack) : stack[i].node # 0 => i \in 1..l - 1
    BY <1>0, <1>1, <1>2, <1>a DEF IsList
  <1>10. HoldsLater => HoldsLater'
    BY <1>1 DEF HoldsLater, Kids
  <1>11. ASSUME WillHoldLater PROVE WillHoldLater'
    <2>1. PICK i \in 1..Len(stack) :
            /\ IsList(stack[i])
            /\ \/ \E j \in 1..Len(stack) : i < j /\ stack[j].node # 0
               \/ returned # None /\ returned.node > stack[i].node
      BY <1>11 DEF WillHoldLater
    <2>2. i \in 1..l - 1 /\ IsList(stack[i])'
      BY <1>9, <2>1 DEF IsList
    <2>3. CASE \E j \in 1..Len(stack) : i < j /\ stack[j].node # 0
      <3>1. PICK j \in 1..Len(stack) : i < j /\ stack[j].node # 0
        BY <2>3
      <3>2. j \in 1..l - 1
        BY <1>9, <3>1
      <3>3. QED
        BY <1>2, <2>2, <3>1, <3>2 DEF WillHoldLater
    <2>4. CASE returned.node > stack[i].node
      BY <1>1, <1>2, <2>2, <2>4 DEF WillHoldLater
    <2>5. QED
      BY <2>1, <2>3, <2>4
  <1>12. ASSUME Numbered PROVE Numbered'
    <2>1. (\E i \in 1..Len(stack) : IsList(stack[i])) <=> \E i \in 1..l - 1 : IsList(stack[i])
      BY <1>2, <1>9 DEF IsList
    <2>2. (\E i \in 1..Len(stack) : IsList(stack[i]))' <=> \E i \in 1..l - 1 : IsList(stack[i])
      BY <1>2, <1>9
    <2>3. (\A i \in 1..Len(stack) : IsList(stack[i]) => stack[i].node = Len(heap))'
      BY <1>1, <1>2, <1>9, <1>12 DEF Numbered
    <2>4. QED
      BY <1>1, <1>12, <2>1, <2>2, <2>3 DEF Numbered
  <1>13. QED
    BY <1>8, <1>10, <1>11, <1>12 DEF Counted

(* The node on top of the stack, to which a value is returned.              *)
LEMMA TopIs ==
  ASSUME ReaderInv, NEW kind, R!ReturningTo(kind), NEW t, t = R!Top.node, NEW f, f = R!Top
  PROVE  /\ t \in 1..Len(heap) /\ heap[t] \in HeapNode /\ heap[t].kind = kind
         /\ f \in Frames /\ f.node = t /\ GoodFrame(f) /\ f.left # 0
         /\ GoodNode(t) /\ Small(t) /\ IsFiniteSet(DOMAIN heap[t].kids)
         /\ returned \in Values(Len(heap)) /\ returned \in Value
         /\ stack # <<>> /\ R!Returning /\ f # R!Definition /\ Len(heap) \in Nat
         /\ limits.items \in Nat
  <1>a. PICK l : l = Len(stack)
    OBVIOUS
  <1>1. stack \in Seq(Frames) /\ stack # <<>> /\ l \in 1..Len(stack)
    BY <1>a, NodesAreSome, EmptySeq DEF R!ReturningTo, ReaderInv, Typed
  <1>2. f = stack[l] /\ f # R!Definition /\ R!Returning /\ status = "reading" /\ returned # None
    BY <1>a DEF R!ReturningTo, R!Top, R!Last, R!Returning
  <1>3. f \in Frames /\ GoodFrame(f) /\ f.left # 0
    BY <1>1, <1>2 DEF ReaderInv, Nested
  <1>4. t = f.node /\ t \in 1..Len(heap)
    BY <1>2, <1>3 DEF GoodFrame
  <1>5. heap[t].kind = kind
    BY DEF R!ReturningTo
  <1>6. GoodNode(t) /\ Small(t)
    BY <1>2, <1>4 DEF ReaderInv
  <1>7. returned \in Values(Len(heap)) /\ returned \in Value
    BY <1>2, ValuesAre, NodesAreSome DEF ReaderInv, Typed
  <1>8. IsFiniteSet(DOMAIN heap[t].kids)
    BY <1>6 DEF GoodNode
  <1>9. QED
    BY <1>1, <1>2, <1>3, <1>4, <1>5, <1>6, <1>7, <1>8, NodesAreSome

LEMMA GivesTo ==
  ASSUME ReaderInv, NEW f, NEW h, R!Give(f, h), f.node \in 1..Len(heap)
  PROVE  heap'[f.node] = h /\ Len(heap') = Len(heap)
  <1>1. heap \in Seq(HeapNode) /\ heap' = [heap EXCEPT ![f.node] = h]
    BY DEF ReaderInv, Typed, R!Give
  <1>2. QED
    BY <1>1

LEMMA NextReturnToList ==
  ASSUME ReaderInv, Counted, R!ReturnToList
  PROVE  ReaderInv' /\ Counted'
  <1>a. PICK f : f = R!Top
    OBVIOUS
  <1>b. PICK t : t = f.node
    OBVIOUS
  <1>c. PICK g : g = [f EXCEPT !.left = IF @ = Open THEN Open ELSE @ - 1]
    OBVIOUS
  <1>d. PICK h : h = [heap[t] EXCEPT !.kids = Append(@, returned)]
    OBVIOUS
  <1>1. /\ R!ReturningTo("list") /\ R!Give(g, h)
        /\ status' = IF f.left = Open /\ Len(heap[t].kids) >= limits.items THEN "failed" ELSE status
        /\ UNCHANGED <<input, limits, refs, classDefs, types, answers>>
    BY <1>a, <1>b, <1>c, <1>d DEF R!ReturnToList, R!Open, Open
  <1>2. /\ t \in 1..Len(heap) /\ heap[t] \in HeapNode /\ heap[t].kind = "list"
        /\ f \in Frames /\ f.node = t /\ GoodFrame(f) /\ f.left # 0
        /\ GoodNode(t) /\ Small(t) /\ returned \in Value /\ returned \in Values(Len(heap))
        /\ stack # <<>> /\ R!Returning /\ f # R!Definition /\ limits.items \in Nat
    BY <1>1, <1>a, <1>b, TopIs
  <1>3. PICK s : s = heap[t].kids
    OBVIOUS
  <1>4. s \in Seq(Value) /\ Len(s) \in Nat /\ DOMAIN s = 1..Len(s)
    BY <1>2, <1>3 DEF GoodNode
  <1>5. h = [kind |-> "list", type |-> heap[t].type, kids |-> Append(s, returned)]
    BY <1>2, <1>3, <1>d DEF HeapNode
  <1>6. /\ h.kids \in Seq(Value) /\ Len(h.kids) = Len(s) + 1 /\ DOMAIN h.kids = 1..Len(s) + 1
        /\ h.kids[Len(s) + 1] = returned /\ \A i \in 1..Len(s) : h.kids[i] = s[i]
    BY <1>2, <1>4, <1>5
  <1>7. h \in HeapNode
    BY <1>2, <1>5, <1>6 DEF HeapNode, Parts
  <1>8. IsFiniteSet(DOMAIN h.kids) /\ Cardinality(DOMAIN h.kids) = Len(s) + 1
    <2>1. 1 \in Int /\ Len(s) + 1 \in Int /\ ~ (1 > Len(s) + 1)
      BY <1>4
    <2>2. QED
      BY <1>4, <1>6, <2>1, FS_Interval
  <1>9. \A k \in DOMAIN h.kids : h.kids[k] \in Values(Len(heap))
    <2>1. \A i \in 1..Len(s) : s[i] \in Values(Len(heap))
      BY <1>2, <1>3, <1>4 DEF GoodNode
    <2>2. ASSUME NEW k \in 1..Len(s) + 1 PROVE h.kids[k] \in Values(Len(heap))
      <3>1. CASE k = Len(s) + 1
        BY <1>2, <1>6, <3>1
      <3>2. CASE k # Len(s) + 1
        <4>1. k \in 1..Len(s)
          BY <1>4, <3>2
        <4>2. QED
          BY <1>6, <2>1, <4>1
      <3>3. QED
        BY <3>1, <3>2
    <2>3. QED
      BY <1>6, <2>2
  <1>10. /\ f.left = Open \/ (f.left \in Nat \ {0} /\ f.left + Len(s) <= limits.items)
         /\ f.left \in Int
    BY <1>2, <1>3 DEF GoodFrame, Frames
  <1>11. g \in Frames /\ g.node = t /\ g.left = IF f.left = Open THEN Open ELSE f.left - 1
    <2>1. (IF f.left = Open THEN Open ELSE f.left - 1) \in Int
      BY <1>10 DEF Open
    <2>2. QED
      BY <1>2, <1>c, <2>1 DEF Frames
  <1>12. heap'[t] = h /\ Len(heap') = Len(heap)
    BY <1>1, <1>2, <1>11, GivesTo
  <1>13. g.left = Open \/ (g.left \in Nat /\ g.left + Len(h.kids) <= limits.items)
    BY <1>4, <1>6, <1>10, <1>11, <1>2 DEF Open
  <1>14. GoodFrame(g)'
    BY <1>1, <1>2, <1>5, <1>11, <1>12, <1>13 DEF GoodFrame
  <1>15. status' # "failed" => Cardinality(DOMAIN h.kids) <= limits.items
    BY <1>1, <1>2, <1>3, <1>4, <1>8, <1>10
  <1>16. Kids(t) \subseteq {h.kids[k] : k \in DOMAIN h.kids} /\ returned \in {h.kids[k] : k \in DOMAIN h.kids}
    BY <1>3, <1>4, <1>6 DEF Kids
  <1>17. QED
    BY <1>1, <1>2, <1>5, <1>6, <1>7, <1>8, <1>9, <1>11, <1>14, <1>15, <1>16, <1>a, <1>b, GiveKeeps

(* One more part under a name. *)
LEMMA WithIs ==
  ASSUME NEW n \in Nat, NEW kids, IsFiniteSet(DOMAIN kids), DOMAIN kids \subseteq Names,
         \A k \in DOMAIN kids : kids[k] \in Values(n),
         NEW k \in Names, NEW v \in Values(n)
  PROVE  /\ R!With(kids, k, v) \in Parts
         /\ DOMAIN R!With(kids, k, v) = DOMAIN kids \cup {k}
         /\ \A j \in DOMAIN R!With(kids, k, v) : R!With(kids, k, v)[j] \in Values(n)
         /\ IsFiniteSet(DOMAIN kids \cup {k})
         /\ Cardinality(DOMAIN kids \cup {k}) <= Cardinality(DOMAIN kids) + 1
         /\ Cardinality(DOMAIN kids) \in Nat
  <1>1. R!With(kids, k, v) = [j \in DOMAIN kids \cup {k} |-> IF j = k THEN v ELSE kids[j]]
    BY DEF R!With
  <1>2. Values(n) \subseteq Value
    BY ValuesAre
  <1>3. R!With(kids, k, v) \in [DOMAIN kids \cup {k} -> Value]
    BY <1>1, <1>2
  <1>4. R!With(kids, k, v) \in Parts
    BY <1>3 DEF Parts
  <1>5. /\ IsFiniteSet(DOMAIN kids \cup {k})
        /\ Cardinality(DOMAIN kids \cup {k}) <= Cardinality(DOMAIN kids) + 1
        /\ Cardinality(DOMAIN kids) \in Nat
    <2>1. Cardinality(DOMAIN kids) \in Nat
      BY FS_CardinalityType
    <2>2. Cardinality(DOMAIN kids \cup {k}) = IF k \in DOMAIN kids THEN Cardinality(DOMAIN kids) ELSE Cardinality(DOMAIN kids) + 1
      BY FS_AddElement
    <2>3. IsFiniteSet(DOMAIN kids \cup {k})
      BY FS_AddElement
    <2>4. QED
      BY <2>1, <2>2, <2>3
  <1>6. QED
    BY <1>1, <1>4, <1>5

(* The value of a key, and its text. *)
LEMMA KeysAre ==
  ASSUME NEW n \in Nat, NEW v \in Values(n)
  PROVE  v \in Keys
  BY ValuesAre, ValuesAssumption DEF Keys

LEMMA PrintedIs ==
  ASSUME NEW v \in Keys
  PROVE  R!Printed(v) \in Names
  BY WireAssumption, ValuesAssumption DEF R!Printed, Keys, Value

LEMMA NextReturnToMap ==
  ASSUME ReaderInv, Counted, R!ReturnToMap
  PROVE  ReaderInv' /\ Counted'
  <1>a. PICK f : f = R!Top
    OBVIOUS
  <1>b. PICK t : t = f.node
    OBVIOUS
  <1>c. PICK n : n = heap[t]
    OBVIOUS
  <1>1. R!ReturningTo("map") /\ UNCHANGED <<input, limits, refs, classDefs, types, answers>>
    BY DEF R!ReturnToMap
  <1>2. /\ t \in 1..Len(heap) /\ n \in HeapNode /\ n.kind = "map"
        /\ f \in Frames /\ f.node = t /\ GoodFrame(f) /\ f.left # 0
        /\ GoodNode(t) /\ Small(t) /\ IsFiniteSet(DOMAIN n.kids)
        /\ returned \in Value /\ returned \in Values(Len(heap))
        /\ stack # <<>> /\ R!Returning /\ f # R!Definition /\ limits.items \in Nat /\ Len(heap) \in Nat
    BY <1>1, <1>a, <1>b, <1>c, TopIs
  <1>3. /\ \A k \in DOMAIN n.kids : n.kids[k] \in Values(Len(heap))
        /\ DOMAIN n.kids \subseteq Names
        /\ Cardinality(DOMAIN n.kids) <= limits.items
    BY <1>2, <1>c DEF GoodNode, Small
  <1>4. /\ f.left = Open /\ Cardinality(DOMAIN n.kids) <= f.count /\ f.count \in Nat
        /\ f.key \in Keys \cup {None}
    BY <1>2, <1>c DEF GoodFrame, Frames
  <1>5. CASE f.key = None
    <2>a. PICK g : g = [f EXCEPT !.key = returned]
      OBVIOUS
    <2>1. R!Give(g, n) /\ status' = status
      BY <1>5, <1>a, <1>b, <1>c, <2>a DEF R!ReturnToMap
    <2>2. returned \in Keys
      BY <1>2, KeysAre
    <2>3. g \in Frames /\ g.node = t /\ g.left = f.left /\ g.count = f.count
      BY <1>2, <2>2, <2>a DEF Frames
    <2>4. heap'[t] = n /\ Len(heap') = Len(heap)
      BY <1>2, <2>1, <2>3, GivesTo
    <2>5. GoodFrame(g)'
      BY <1>2, <1>4, <2>3, <2>4 DEF GoodFrame
    <2>6. QED
      BY <1>1, <1>2, <1>3, <1>a, <1>b, <1>c, <2>1, <2>3, <2>5, GiveKeeps
  <1>6. CASE f.key # None /\ ~R!Endless(f.key)
    <2>k. PICK key : key = R!Printed(f.key)
      OBVIOUS
    <2>a. PICK g : g = [f EXCEPT !.key = None, !.count = @ + 1]
      OBVIOUS
    <2>b. PICK h : h = [n EXCEPT !.kids = R!With(@, key, returned)]
      OBVIOUS
    <2>1. /\ R!Give(g, h)
          /\ status' = IF f.count >= limits.items THEN "failed" ELSE status
      BY <1>6, <1>a, <1>b, <1>c, <2>a, <2>b, <2>k DEF R!ReturnToMap
    <2>2. key \in Names
      BY <1>4, <1>6, <2>k, PrintedIs
    <2>3. h = [kind |-> "map", type |-> n.type, kids |-> R!With(n.kids, key, returned)]
      BY <1>2, <2>b DEF HeapNode
    <2>4. /\ h.kids \in Parts /\ DOMAIN h.kids = DOMAIN n.kids \cup {key}
          /\ \A k \in DOMAIN h.kids : h.kids[k] \in Values(Len(heap))
          /\ IsFiniteSet(DOMAIN h.kids)
          /\ Cardinality(DOMAIN h.kids) <= Cardinality(DOMAIN n.kids) + 1
          /\ Cardinality(DOMAIN n.kids) \in Nat /\ Cardinality(DOMAIN h.kids) \in Nat
      <3>1. h.kids = R!With(n.kids, key, returned)
        BY <2>3
      <3>2. IsFiniteSet(DOMAIN n.kids \cup {key}) => Cardinality(DOMAIN n.kids \cup {key}) \in Nat
        BY FS_CardinalityType
      <3>3. PICK kids, v, m : kids = n.kids /\ v = returned /\ m = Len(heap)
        OBVIOUS
      <3>4. /\ m \in Nat /\ IsFiniteSet(DOMAIN kids) /\ DOMAIN kids \subseteq Names
            /\ \A k \in DOMAIN kids : kids[k] \in Values(m)
            /\ key \in Names /\ v \in Values(m)
        BY <1>2, <1>3, <2>2, <3>3
      <3>5. /\ R!With(kids, key, v) \in Parts
            /\ DOMAIN R!With(kids, key, v) = DOMAIN kids \cup {key}
            /\ \A j \in DOMAIN R!With(kids, key, v) : R!With(kids, key, v)[j] \in Values(m)
            /\ IsFiniteSet(DOMAIN kids \cup {key})
            /\ Cardinality(DOMAIN kids \cup {key}) <= Cardinality(DOMAIN kids) + 1
            /\ Cardinality(DOMAIN kids) \in Nat
        BY <3>4, WithIs
      <3>6. QED
        BY <3>1, <3>2, <3>3, <3>5
    <2>5. h \in HeapNode /\ h.kind = "map" /\ DOMAIN h.kids \subseteq Names
      BY <1>2, <1>3, <2>2, <2>3, <2>4 DEF HeapNode
    <2>6. g \in Frames /\ g.node = t /\ g.left = f.left /\ g.count = f.count + 1
      <3>1. /\ f.count + 1 \in Nat
            /\ f = [node |-> f.node, left |-> f.left, names |-> f.names, peeks |-> f.peeks, key |-> f.key, count |-> f.count]
        BY <1>2, <1>4 DEF Frames
      <3>2. g = [node |-> f.node, left |-> f.left, names |-> f.names, peeks |-> f.peeks, key |-> None, count |-> f.count + 1]
        BY <2>a, <3>1
      <3>3. QED
        BY <1>2, <3>1, <3>2 DEF Frames
    <2>7. heap'[t] = h /\ Len(heap') = Len(heap)
      BY <1>2, <2>1, <2>6, GivesTo
    <2>8. Cardinality(DOMAIN h.kids) <= f.count + 1
      BY <1>4, <2>4
    <2>9. GoodFrame(g)'
      BY <1>2, <1>4, <2>5, <2>6, <2>7, <2>8 DEF GoodFrame
    <2>10. status' # "failed" => Cardinality(DOMAIN h.kids) <= limits.items
      BY <1>2, <1>4, <2>1, <2>4, <2>8
    <2>11. status' \in {"failed", status} /\ h.kind = heap[t].kind
      BY <1>2, <1>c, <2>1, <2>5
    <2>12. QED
      BY <1>1, <1>2, <1>a, <1>b, <2>1, <2>4, <2>5, <2>6, <2>9, <2>10, <2>11, GiveKeeps
  <1>7. CASE f.key # None /\ R!Endless(f.key)
    <2>1. status' = "crashed" /\ UNCHANGED <<stack, heap, returned>>
      BY <1>7, <1>a DEF R!ReturnToMap, R!Crash
    <2>2. status = "reading" /\ input' \in Seq(Tokens)
      BY <1>1, <1>2 DEF R!Returning, ReaderInv, Typed
    <2>3. QED
      BY <1>1, <2>1, <2>2, StopKeeps
  <1>8. QED
    BY <1>5, <1>6, <1>7

LEMMA NextReturnToObject ==
  ASSUME ReaderInv, Counted, R!ReturnToObject
  PROVE  ReaderInv' /\ Counted'
  <1>a. PICK f : f = R!Top
    OBVIOUS
  <1>b. PICK t : t = f.node
    OBVIOUS
  <1>c. PICK n : n = heap[t]
    OBVIOUS
  <1>d. PICK name : name = f.names[Len(f.names) - f.left + 1]
    OBVIOUS
  <1>e. PICK g : g = [f EXCEPT !.left = @ - 1]
    OBVIOUS
  <1>f. PICK h : h = [n EXCEPT !.kids = R!With(@, name, returned)]
    OBVIOUS
  <1>1. /\ R!ReturningTo("object") /\ UNCHANGED <<input, limits, refs, classDefs, types, answers, status>>
        /\ R!Give(g, h)
    BY <1>a, <1>b, <1>c, <1>d, <1>e, <1>f DEF R!ReturnToObject
  <1>2. /\ t \in 1..Len(heap) /\ n \in HeapNode /\ n.kind = "object"
        /\ f \in Frames /\ f.node = t /\ GoodFrame(f) /\ f.left # 0
        /\ GoodNode(t) /\ IsFiniteSet(DOMAIN n.kids)
        /\ returned \in Value /\ returned \in Values(Len(heap))
        /\ stack # <<>> /\ R!Returning /\ f # R!Definition /\ limits.items \in Nat /\ Len(heap) \in Nat
    BY <1>1, <1>a, <1>b, <1>c, TopIs
  <1>3. /\ \A k \in DOMAIN n.kids : n.kids[k] \in Values(Len(heap))
        /\ DOMAIN n.kids \subseteq Names
    BY <1>2, <1>c DEF GoodNode
  <1>4. /\ f.left \in 0..Len(f.names) /\ Len(f.names) <= limits.items
        /\ DOMAIN n.kids \subseteq {f.names[i] : i \in 1..Len(f.names)}
        /\ f.names \in Seq(Names) /\ Len(f.names) \in Nat
    BY <1>2, <1>c DEF GoodFrame, Frames
  <1>5. Len(f.names) - f.left + 1 \in 1..Len(f.names) /\ f.left - 1 \in 0..Len(f.names) /\ f.left - 1 \in Int
    BY <1>2, <1>4
  <1>6. name \in Names /\ name \in {f.names[i] : i \in 1..Len(f.names)}
    BY <1>4, <1>5, <1>d, Member
  <1>7. h = [kind |-> "object", type |-> n.type, kids |-> R!With(n.kids, name, returned)]
    BY <1>2, <1>f DEF HeapNode
  <1>8. /\ h.kids \in Parts /\ DOMAIN h.kids = DOMAIN n.kids \cup {name}
        /\ \A k \in DOMAIN h.kids : h.kids[k] \in Values(Len(heap))
        /\ IsFiniteSet(DOMAIN h.kids)
    <2>1. h.kids = R!With(n.kids, name, returned)
      BY <1>7
    <2>2. PICK kids, v, m : kids = n.kids /\ v = returned /\ m = Len(heap)
      OBVIOUS
    <2>3. /\ m \in Nat /\ IsFiniteSet(DOMAIN kids) /\ DOMAIN kids \subseteq Names
          /\ \A k \in DOMAIN kids : kids[k] \in Values(m)
          /\ name \in Names /\ v \in Values(m)
      BY <1>2, <1>3, <1>6, <2>2
    <2>4. /\ R!With(kids, name, v) \in Parts
          /\ DOMAIN R!With(kids, name, v) = DOMAIN kids \cup {name}
          /\ \A j \in DOMAIN R!With(kids, name, v) : R!With(kids, name, v)[j] \in Values(m)
          /\ IsFiniteSet(DOMAIN kids \cup {name})
          /\ Cardinality(DOMAIN kids \cup {name}) <= Cardinality(DOMAIN kids) + 1
          /\ Cardinality(DOMAIN kids) \in Nat
      BY <2>3, WithIs
    <2>5. QED
      BY <2>1, <2>2, <2>4
  <1>9. h \in HeapNode /\ h.kind = "object" /\ DOMAIN h.kids \subseteq Names
    BY <1>2, <1>3, <1>6, <1>7, <1>8 DEF HeapNode
  <1>10. g \in Frames /\ g.node = t /\ g.left = f.left - 1 /\ g.names = f.names
    BY <1>2, <1>5, <1>e DEF Frames
  <1>11. heap'[t] = h /\ Len(heap') = Len(heap)
    BY <1>1, <1>2, <1>10, GivesTo
  <1>12. DOMAIN h.kids \subseteq {f.names[i] : i \in 1..Len(f.names)}
    BY <1>4, <1>6, <1>8
  <1>13. GoodFrame(g)'
    BY <1>1, <1>2, <1>4, <1>5, <1>9, <1>10, <1>11, <1>12 DEF GoodFrame
  <1>14. Cardinality(DOMAIN h.kids) <= limits.items
    <2>1. IsFiniteSet(1..Len(f.names)) /\ Cardinality(1..Len(f.names)) = Len(f.names)
      BY <1>4, FS_Interval
    <2>2. LET T == {f.names[i] : i \in 1..Len(f.names)}
          IN  IsFiniteSet(T) /\ Cardinality(T) <= Len(f.names)
      <3> DEFINE T == {f.names[i] : i \in 1..Len(f.names)}
      <3>1. f.names \in [1..Len(f.names) -> Names]
        BY <1>4
      <3>2. f.names \in [1..Len(f.names) -> T]
        BY <3>1
      <3>3. f.names \in Surjection(1..Len(f.names), T)
        BY <3>2 DEF Surjection
      <3>4. IsFiniteSet(T) /\ Cardinality(T) <= Cardinality(1..Len(f.names))
        <4> HIDE DEF T
        <4>1. QED
          BY <2>1, <3>3, FS_Surjection
      <3>5. QED
        BY <2>1, <3>4
    <2>3. /\ Cardinality(DOMAIN h.kids) <= Cardinality({f.names[i] : i \in 1..Len(f.names)})
          /\ IsFiniteSet({f.names[i] : i \in 1..Len(f.names)})
      BY <1>12, <2>2, FS_Subset
    <2>4. Cardinality(DOMAIN h.kids) \in Nat /\ Cardinality({f.names[i] : i \in 1..Len(f.names)}) \in Nat
      BY <1>8, <2>3, FS_CardinalityType
    <2>5. QED
      BY <1>2, <1>4, <2>2, <2>3, <2>4
  <1>15. h.kind = heap[t].kind /\ status' \in {"failed", status}
    BY <1>1, <1>2, <1>9, <1>c
  <1>16. QED
    BY <1>1, <1>2, <1>8, <1>9, <1>10, <1>13, <1>14, <1>15, <1>a, <1>b, GiveKeeps

LEMMA NextFinish ==
  ASSUME ReaderInv, Counted, R!FinishCounted \/ R!FinishOpen
  PROVE  ReaderInv' /\ Counted'
  <1>1. input \in Seq(Tokens)
    BY DEF ReaderInv, Typed
  <1>2. CASE R!FinishCounted
    <2>1. R!Reading /\ stack # <<>> /\ R!Top.left # 1 /\ R!Finish(R!Top.node)
      BY <1>2 DEF R!FinishCounted
    <2>2. input' \in Seq(Tokens)
      BY <1>1, <1>2 DEF R!FinishCounted, R!NextIs
    <2>3. QED
      BY <2>1, <2>2, FinishKeeps
  <1>3. CASE R!FinishOpen
    <2>1. R!Reading /\ stack # <<>> /\ R!Top.left # 1 /\ R!Finish(R!Top.node)
      BY <1>3 DEF R!FinishOpen, R!AtTerminator, R!Open
    <2>2. input' \in Seq(Tokens)
      BY <1>1, <1>3 DEF R!FinishOpen, R!AtTerminator, R!NextIs
    <2>3. QED
      BY <2>1, <2>2, FinishKeeps
  <1>4. QED
    BY <1>2, <1>3

LEMMA NextRead ==
  ASSUME ReaderInv, Counted, R!Step
  PROVE  ReaderInv' /\ Counted'
  BY NextFails, NextReadScalar, NextReadRef, NextReadDefinition, NextReadObject, NextReadMap,
     NextReadList, NextReadFixedTypedList, NextReturnToCaller, NextReturnThroughDefinition,
     NextReturnToList, NextReturnToMap, NextReturnToObject, NextFinish DEF R!Step

-----------------------------------------------------------------------------
(* The writer.                                                              *)

(* A part of a forest is a part of a larger one. *)
LEMMA SoundGrows ==
  ASSUME NEW m \in Nat, NEW n \in Nat, m <= n, NEW node, Sound(node, m)
  PROVE  Sound(node, n)
  <1>1. Values(m) \subseteq Values(n)
    BY ValuesAre
  <1>2. CASE node.kind \in {"array", "strings"} /\ node.kids \in Seq(Values(m))
    <2>1. node.kids \in Seq(Values(n))
      BY <1>1, <1>2, SeqGrows
    <2>2. QED
      BY <1>2, <2>1 DEF Sound
  <1>3. CASE node.kind \in {"json", "props", "object"} /\ node.kids \in [DOMAIN node.kids -> Values(m)]
    <2>1. node.kids \in [DOMAIN node.kids -> Values(n)]
      BY <1>1, <1>3
    <2>2. QED
      BY <1>3, <2>1 DEF Sound
  <1>4. QED
    BY <1>2, <1>3 DEF Sound

LEMMA TextsAre ==
  Texts \subseteq Names /\ Texts \subseteq Scalars
  BY WireAssumption

(* What a node is once its values are adapted to Java types. *)
LEMMA AdaptedIs ==
  ASSUME NEW n \in Nat, NEW node, Sound(node, n), NEW a, a = W!Adapted(node)
  PROVE  /\ a.kind = "list" => a.type \in Names /\ a.kids \in Seq(Values(n))
         /\ a.kind # "list" => /\ a.type \in Names \cup {None}
                               /\ DOMAIN a.kids \subseteq Names
                               /\ IsFiniteSet(DOMAIN a.kids)
                               /\ \A k \in DOMAIN a.kids : a.kids[k] \in Values(n)
         /\ a.kind = "map" => DOMAIN a.kids \subseteq Texts
         /\ a.kind = "object" => a.type \in Names
         /\ a.kind \in {"list", "map", "object"}
  <1>n. W!ClassNames \subseteq Names /\ Texts \subseteq Names
    BY MessagesAssumption, TextsAre
  <1>1. CASE node.kind = "array" /\ node.kids \in Seq(Values(n))
    <2>1. a = [kind |-> "list", type |-> "java.util.ArrayList", kids |-> node.kids]
      BY <1>1 DEF W!Adapted
    <2>2. QED
      BY <1>1, <1>n, <2>1 DEF W!ClassNames
  <1>2. CASE node.kind = "strings" /\ node.kids \in Seq(Values(n))
    <2>1. a = [kind |-> "list", type |-> "[string]", kids |-> node.kids]
      BY <1>2 DEF W!Adapted
    <2>2. QED
      BY <1>2, <1>n, <2>1 DEF W!ClassNames
  <1>3. CASE /\ node.kind = "props" /\ node.kids \in [DOMAIN node.kids -> Values(n)]
             /\ DOMAIN node.kids \subseteq Texts /\ IsFiniteSet(DOMAIN node.kids)
    <2>1. a = [kind |-> "map", type |-> None, kids |-> node.kids]
      BY <1>3 DEF W!Adapted
    <2>2. QED
      BY <1>3, <1>n, <2>1
  <1>4. CASE /\ node.kind = "object" /\ node.kids \in [DOMAIN node.kids -> Values(n)]
             /\ DOMAIN node.kids \subseteq Names /\ IsFiniteSet(DOMAIN node.kids) /\ node.type \in Names
    <2>1. a = node
      BY <1>4 DEF W!Adapted
    <2>2. QED
      BY <1>4, <2>1
  <1>5. CASE /\ node.kind = "json" /\ node.kids \in [DOMAIN node.kids -> Values(n)]
             /\ DOMAIN node.kids \subseteq Texts /\ IsFiniteSet(DOMAIN node.kids)
    <2>1. CASE W!ClassOf(node.kids) = None
      <3>1. a = [kind |-> "map", type |-> "java.util.LinkedHashMap", kids |-> node.kids]
        BY <1>5, <2>1 DEF W!Adapted
      <3>2. QED
        BY <1>5, <1>n, <3>1 DEF W!ClassNames
    <2>2. CASE W!ClassOf(node.kids) # None
      <3>a. PICK K : K = DOMAIN node.kids \ {"@type"}
        OBVIOUS
      <3>1. a = [kind |-> "object", type |-> W!ClassOf(node.kids), kids |-> [k \in K |-> node.kids[k]]]
        BY <1>5, <2>2, <3>a DEF W!Adapted
      <3>2. W!ClassOf(node.kids) \in Names
        BY <2>2, <1>n DEF W!ClassOf
      <3>3. IsFiniteSet(K) /\ K \subseteq DOMAIN node.kids
        BY <1>5, <3>a, FS_Subset
      <3>4. QED
        BY <1>5, <1>n, <3>1, <3>2, <3>3
    <2>3. QED
      BY <2>1, <2>2
  <1>6. QED
    BY <1>1, <1>2, <1>3, <1>4, <1>5 DEF Sound

(* A nonempty set of naturals has a least element. *)
LEMMA LeastElement ==
  ASSUME NEW T \in SUBSET Nat, T # {}
  PROVE  \E i \in T : \A j \in T : i <= j
  <1> DEFINE upTo == {1 .. i : i \in T}
  <1>1. upTo # {}
    OBVIOUS
  <1>2. \A i \in T : IsFiniteSet(1 .. i)
    BY FS_Interval
  <1>3. upTo \subseteq FiniteSubsetsOf(Nat)
    BY <1>2 DEF FiniteSubsetsOf
  <1>4. PICK s \in upTo : \A t \in upTo : ~ (<<t, s>> \in StrictSubsetOrdering(Nat))
    <2> HIDE DEF upTo
    <2>1. QED
      BY <1>1, <1>3, FS_StrictSubsetOrderingWellFounded, WFMin
  <1>5. PICK i \in T : s = 1 .. i
    OBVIOUS
  <1>6. ASSUME NEW j \in T, j < i PROVE FALSE
    <2>1. 1 .. j \subseteq 1 .. i
      BY <1>6
    <2>2. i \in 1 .. i /\ i \notin 1 .. j
      BY <1>6
    <2>3. <<1 .. j, s>> \in StrictSubsetOrdering(Nat)
      BY <1>5, <2>1, <2>2 DEF StrictSubsetOrdering
    <2>4. QED
      BY <1>4, <2>3
  <1>7. QED
    BY <1>6

LEMMA MinIs ==
  ASSUME NEW I \in SUBSET Nat, I # {}
  PROVE  W!Min(I) \in I
  <1>1. PICK x \in I : \A y \in I : x <= y
    BY LeastElement
  <1>2. QED
    BY <1>1 DEF W!Min

LEMMA CardinalityIs ==
  \A S : W!Cardinality(S) = Cardinality(S)
  BY DEF W!Cardinality, Cardinality, W!IsFiniteSet, IsFiniteSet

(* Names in the order of a sequence. *)
LEMMA OrderedIs ==
  ASSUME NEW kids, IsFiniteSet(DOMAIN kids)
  PROVE  /\ W!Ordered(kids) \in [1..Cardinality(DOMAIN kids) -> DOMAIN kids]
         /\ Cardinality(DOMAIN kids) \in Nat
         /\ W!Ordered(kids) \in Seq(DOMAIN kids)
  <1>1. PICK S : S = DOMAIN kids
    OBVIOUS
  <1>2. Cardinality(S) \in Nat
    BY <1>1, FS_CardinalityType
  <1>3. PICK f : f \in Bijection(1..Cardinality(S), S)
    BY <1>1, FS_CardinalityType DEF ExistsBijection
  <1>4. f \in [1..Cardinality(S) -> S] /\ W!IsInjective(f)
    BY <1>3 DEF Bijection, Injection, IsInjective, W!IsInjective
  <1>5. W!Ordered(kids) \in [1..Cardinality(S) -> S]
    BY <1>1, <1>4, CardinalityIs DEF W!Ordered, W!SetToSeq
  <1>6. QED
    BY <1>1, <1>2, <1>5

(* What the writer appends are tokens. *)
LEMMA WrittenAre ==
  ASSUME NEW s \in Scalars, NEW type \in Names \cup {None}, NEW names \in Seq(Names), NEW n \in Nat
  PROVE  /\ [W!Token("scalar") EXCEPT !.scalar = s] \in Tokens
         /\ W!Token("z") \in Tokens
         /\ [W!Token("definition") EXCEPT !.type = type, !.names = names] \in Tokens
         /\ [W!Token("object") EXCEPT !.ref = n] \in Tokens
         /\ [W!Token("map") EXCEPT !.type = type] \in Tokens
         /\ [W!Token("list") EXCEPT !.type = type, !.length = n] \in Tokens
  <1> DEFINE all == [tag : Tags, scalar : Scalars \cup {None}, type : Names \cup {None}, typeRef : Int,
                     length : Int, names : Seq(Names), ref : Nat]
  <1>1. \A t \in all : t.tag # "scalar" => t \in Tokens
    BY DEF Tokens
  <1>2. \A t \in all : t.scalar \in Scalars => t \in Tokens
    BY ValuesAssumption DEF Tokens
  <1>3. -1 \in Int /\ Open \in Int /\ <<>> \in Seq(Names) /\ 0 \in Nat /\ None \in Names \cup {None} /\ n \in Int
    BY DEF Open
  <1>4. [W!Token("scalar") EXCEPT !.scalar = s] \in Tokens
    <2>1. PICK t : t = [W!Token("scalar") EXCEPT !.scalar = s]
      OBVIOUS
    <2>2. t = [tag |-> "scalar", scalar |-> s, type |-> None, typeRef |-> -1,
               length |-> Open, names |-> <<>>, ref |-> 0]
      BY <2>1 DEF W!Token, W!Open, Open
    <2>3. t \in all /\ t.scalar \in Scalars
      BY <1>3, <2>2 DEF Tags
    <2>4. QED
      BY <1>2, <2>1, <2>3
  <1>5. W!Token("z") \in Tokens
    <2>1. PICK t : t = W!Token("z")
      OBVIOUS
    <2>2. t = [tag |-> "z", scalar |-> None, type |-> None, typeRef |-> -1,
               length |-> Open, names |-> <<>>, ref |-> 0]
      BY <2>1 DEF W!Token, W!Open, Open
    <2>3. t \in all /\ t.tag # "scalar"
      BY <1>3, <2>2 DEF Tags
    <2>4. QED
      BY <1>1, <2>1, <2>3
  <1>6. [W!Token("definition") EXCEPT !.type = type, !.names = names] \in Tokens
    <2>1. PICK t : t = [W!Token("definition") EXCEPT !.type = type, !.names = names]
      OBVIOUS
    <2>2. t = [tag |-> "definition", scalar |-> None, type |-> type, typeRef |-> -1,
               length |-> Open, names |-> names, ref |-> 0]
      BY <2>1 DEF W!Token, W!Open, Open
    <2>3. t \in all /\ t.tag # "scalar"
      BY <1>3, <2>2 DEF Tags
    <2>4. QED
      BY <1>1, <2>1, <2>3
  <1>7. [W!Token("object") EXCEPT !.ref = n] \in Tokens
    <2>1. PICK t : t = [W!Token("object") EXCEPT !.ref = n]
      OBVIOUS
    <2>2. t = [tag |-> "object", scalar |-> None, type |-> None, typeRef |-> -1,
               length |-> Open, names |-> <<>>, ref |-> n]
      BY <2>1 DEF W!Token, W!Open, Open
    <2>3. t \in all /\ t.tag # "scalar"
      BY <1>3, <2>2 DEF Tags
    <2>4. QED
      BY <1>1, <2>1, <2>3
  <1>8. [W!Token("map") EXCEPT !.type = type] \in Tokens
    <2>1. PICK t : t = [W!Token("map") EXCEPT !.type = type]
      OBVIOUS
    <2>2. t = [tag |-> "map", scalar |-> None, type |-> type, typeRef |-> -1,
               length |-> Open, names |-> <<>>, ref |-> 0]
      BY <2>1 DEF W!Token, W!Open, Open
    <2>3. t \in all /\ t.tag # "scalar"
      BY <1>3, <2>2 DEF Tags
    <2>4. QED
      BY <1>1, <2>1, <2>3
  <1>9. [W!Token("list") EXCEPT !.type = type, !.length = n] \in Tokens
    <2>1. PICK t : t = [W!Token("list") EXCEPT !.type = type, !.length = n]
      OBVIOUS
    <2>2. t = [tag |-> "list", scalar |-> None, type |-> type, typeRef |-> -1,
               length |-> n, names |-> <<>>, ref |-> 0]
      BY <2>1 DEF W!Token, W!Open, Open
    <2>3. t \in all /\ t.tag # "scalar"
      BY <1>3, <2>2 DEF Tags
    <2>4. QED
      BY <1>1, <2>1, <2>3
  <1>10. QED
    BY <1>4, <1>5, <1>6, <1>7, <1>8, <1>9

(* What can be left to write of a message of n nodes. *)
Todo(n) == Values(n) \cup {W!End}

(* A step that writes some of the message. *)
LEMMA WriteKeeps ==
  ASSUME WriterInv, W!Writing, UNCHANGED <<message, written>>, NEW n, n = Len(message.nodes),
         out' \in Seq(Tokens), todo' \in Seq(Todo(n)),
         objectDefs' \in Seq([type : Names, names : Seq(Names)])
  PROVE  WriterInv'
  <1>1. W!End' = W!End
    OBVIOUS
  <1>2. todo' \in Seq(Values(Len(message'.nodes)) \cup {W!End})
    BY DEF Todo
  <1>3. QED
    BY <1>2 DEF WriterInv, W!Writing

(* What is written next, and what is left then. *)
LEMMA WritesOne ==
  ASSUME WriterInv, W!Writing, NEW n, n = Len(message.nodes)
  PROVE  /\ n \in Nat
         /\ Head(todo) \in Todo(n) /\ Tail(todo) \in Seq(Todo(n))
         /\ Head(todo).node \in 1..n => Sound(message.nodes[Head(todo).node], n)
         /\ Head(todo).node > 0 => Head(todo).node \in 1..n
         /\ Head(todo).node = 0 => Head(todo).scalar \in Scalars
         /\ Values(n) \subseteq Todo(n) /\ W!End \in Todo(n)
         /\ out \in Seq(Tokens) /\ objectDefs \in Seq([type : Names, names : Seq(Names)])
  <1>1. n \in Nat /\ todo \in Seq(Todo(n)) /\ todo # <<>>
    BY DEF WriterInv, W!Writing, Todo
  <1>2. Head(todo) \in Todo(n) /\ Tail(todo) \in Seq(Todo(n))
    BY <1>1
  <1>3. W!End.node = -1
    BY DEF W!End
  <1>4. Head(todo).node > 0 => Head(todo).node \in 1..n
    BY <1>1, <1>2, <1>3, ValuesAre DEF Todo
  <1>5. Head(todo).node = 0 => Head(todo).scalar \in Scalars
    BY <1>1, <1>2, <1>3, ValuesAre DEF Todo
  <1>6. Head(todo).node \in 1..n => Sound(message.nodes[Head(todo).node], n)
    BY DEF WriterInv, W!Writing
  <1>7. QED
    BY <1>1, <1>2, <1>4, <1>5, <1>6 DEF Todo, WriterInv

LEMMA NextWriteScalar ==
  ASSUME WriterInv, W!WriteScalar
  PROVE  WriterInv'
  <1>1. W!Writing /\ Head(todo).node = 0
    BY DEF W!WriteScalar
  <1>2. CASE Head(todo).scalar = TooLong
    BY <1>2 DEF W!WriteScalar, W!WriteFails, WriterInv
  <1>3. CASE Head(todo).scalar # TooLong
    <2>1. PICK n : n = Len(message.nodes)
      OBVIOUS
    <2>2. [W!Token("scalar") EXCEPT !.scalar = Head(todo).scalar] \in Tokens
      BY <1>1, <2>1, WritesOne, WrittenAre, EmptySeq
    <2>3. out' \in Seq(Tokens)
      <3>1. PICK t : t = [W!Token("scalar") EXCEPT !.scalar = Head(todo).scalar]
        OBVIOUS
      <3>2. out' = Append(out, t)
        BY <1>3, <3>1 DEF W!WriteScalar
      <3>3. out \in Seq(Tokens)
        BY DEF WriterInv
      <3>4. QED
        BY <2>2, <3>1, <3>2, <3>3
    <2>4. QED
      BY <1>1, <1>3, <2>1, <2>3, WritesOne, WriteKeeps DEF W!WriteScalar
  <1>4. QED
    BY <1>2, <1>3

LEMMA NextWriteEnd ==
  ASSUME WriterInv, W!WriteEnd
  PROVE  WriterInv'
  <1>1. W!Writing /\ out' = Append(out, W!Token("z")) /\ todo' = Tail(todo) /\ UNCHANGED <<message, objectDefs, written>>
    BY DEF W!WriteEnd
  <1>2. PICK n : n = Len(message.nodes)
    OBVIOUS
  <1>3. W!Token("z") \in Tokens
    BY WrittenAre, MessagesAssumption, EmptySeq
  <1>4. out' \in Seq(Tokens)
    BY <1>1, <1>2, <1>3, WritesOne
  <1>5. QED
    BY <1>1, <1>2, <1>4, WritesOne, WriteKeeps

LEMMA NextWriteList ==
  ASSUME WriterInv, W!WriteList
  PROVE  WriterInv'
  <1>a. PICK n : n = Len(message.nodes)
    OBVIOUS
  <1>b. PICK a : a = W!Adapted(message.nodes[Head(todo).node])
    OBVIOUS
  <1>1. /\ W!Writing /\ Head(todo).node > 0 /\ a.kind = "list"
        /\ out' = Append(out, [W!Token("list") EXCEPT !.type = a.type, !.length = Len(a.kids)])
        /\ todo' = a.kids \o <<W!End>> \o Tail(todo)
        /\ UNCHANGED <<message, objectDefs, written>>
    BY <1>b DEF W!WriteList, W!NextNode
  <1>2. /\ n \in Nat /\ Sound(message.nodes[Head(todo).node], n)
        /\ Tail(todo) \in Seq(Todo(n)) /\ Values(n) \subseteq Todo(n) /\ W!End \in Todo(n)
        /\ out \in Seq(Tokens) /\ objectDefs \in Seq([type : Names, names : Seq(Names)])
    BY <1>1, <1>a, WritesOne
  <1>3. a.type \in Names /\ a.kids \in Seq(Values(n))
    BY <1>1, <1>2, <1>b, AdaptedIs
  <1>4. a.kids \in Seq(Todo(n)) /\ Len(a.kids) \in Nat
    BY <1>2, <1>3, SeqGrows
  <1>5. [W!Token("list") EXCEPT !.type = a.type, !.length = Len(a.kids)] \in Tokens
    BY <1>3, <1>4, WrittenAre, MessagesAssumption, EmptySeq
  <1>6. out' \in Seq(Tokens)
    BY <1>1, <1>2, <1>5
  <1>7. todo' \in Seq(Todo(n))
    BY <1>1, <1>2, <1>4
  <1>8. QED
    BY <1>1, <1>2, <1>6, <1>7, <1>a, WriteKeeps

(* The entries of a map. *)
LEMMA EntriesAre ==
  ASSUME NEW n \in Nat, NEW kids, IsFiniteSet(DOMAIN kids), DOMAIN kids \subseteq Texts,
         \A k \in DOMAIN kids : kids[k] \in Values(n)
  PROVE  W!Entries(kids) \in Seq(Values(n))
  <1>a. PICK keys : keys = W!Ordered(kids)
    OBVIOUS
  <1>1. keys \in Seq(DOMAIN kids) /\ Len(keys) \in Nat
    BY <1>a, OrderedIs
  <1>b. PICK s : s = W!Entries(kids)
    OBVIOUS
  <1>2. s = [i \in 1..2 * Len(keys) |->
               IF i % 2 = 1 THEN W!Scalar(keys[(i + 1) \div 2]) ELSE kids[keys[(i + 1) \div 2]]]
    BY <1>a, <1>b DEF W!Entries
  <1>3. ASSUME NEW i \in 1..2 * Len(keys)
        PROVE  s[i] \in Values(n)
    <2>1. PICK j : j = (i + 1) \div 2
      OBVIOUS
    <2>2. j \in 1..Len(keys)
      BY <1>1, <2>1
    <2>3. keys[j] \in DOMAIN kids
      BY <1>1, <2>2, Member
    <2>4. W!Scalar(keys[j]) \in Values(n)
      BY <2>3, TextsAre DEF W!Scalar, Values, Scalar
    <2>5. kids[keys[j]] \in Values(n)
      BY <2>3
    <2>6. QED
      BY <1>2, <2>1, <2>4, <2>5
  <1>4. s \in [1..2 * Len(keys) -> Values(n)] /\ 2 * Len(keys) \in Nat
    BY <1>1, <1>2, <1>3
  <1>5. QED
    BY <1>4, <1>b

LEMMA NextWriteMap ==
  ASSUME WriterInv, W!WriteMap
  PROVE  WriterInv'
  <1>a. PICK n : n = Len(message.nodes)
    OBVIOUS
  <1>b. PICK a : a = W!Adapted(message.nodes[Head(todo).node])
    OBVIOUS
  <1>1. /\ W!Writing /\ Head(todo).node > 0 /\ a.kind = "map"
        /\ out' = Append(out, [W!Token("map") EXCEPT !.type = a.type])
        /\ todo' = W!Entries(a.kids) \o <<W!End>> \o Tail(todo)
        /\ UNCHANGED <<message, objectDefs, written>>
    BY <1>b DEF W!WriteMap, W!NextNode
  <1>2. /\ n \in Nat /\ Sound(message.nodes[Head(todo).node], n)
        /\ Tail(todo) \in Seq(Todo(n)) /\ Values(n) \subseteq Todo(n) /\ W!End \in Todo(n)
        /\ out \in Seq(Tokens) /\ objectDefs \in Seq([type : Names, names : Seq(Names)])
    BY <1>1, <1>a, WritesOne
  <1>3. /\ a.type \in Names \cup {None} /\ DOMAIN a.kids \subseteq Texts /\ IsFiniteSet(DOMAIN a.kids)
        /\ \A k \in DOMAIN a.kids : a.kids[k] \in Values(n)
    BY <1>1, <1>2, <1>b, AdaptedIs
  <1>4. W!Entries(a.kids) \in Seq(Todo(n))
    <2>1. PICK kids : kids = a.kids
      OBVIOUS
    <2>2. W!Entries(kids) \in Seq(Values(n))
      BY <1>2, <1>3, <2>1, EntriesAre
    <2>3. QED
      BY <1>2, <2>1, <2>2, SeqGrows
  <1>5. [W!Token("map") EXCEPT !.type = a.type] \in Tokens
    BY <1>3, WrittenAre, MessagesAssumption, EmptySeq
  <1>6. out' \in Seq(Tokens)
    BY <1>1, <1>2, <1>5
  <1>7. todo' \in Seq(Todo(n))
    BY <1>1, <1>2, <1>4
  <1>8. QED
    BY <1>1, <1>2, <1>6, <1>7, <1>a, WriteKeeps

(* A definition that was written has a number. *)
LEMMA KnownIs ==
  ASSUME NEW T, objectDefs \in Seq(T), NEW def
  PROVE  W!Known(def) \in 0..Len(objectDefs)
  <1> DEFINE I == {i \in 1..Len(objectDefs) : objectDefs[i] = def}
  <1>1. Len(objectDefs) \in Nat /\ I \subseteq 1..Len(objectDefs)
    OBVIOUS
  <1>2. W!Known(def) = IF I # {} THEN W!Min(I) ELSE 0
    BY DEF W!Known, W!SelectInSeq
  <1>3. I \in SUBSET Nat
    OBVIOUS
  <1>4. I # {} => W!Min(I) \in I
    <2> HIDE DEF I
    <2>1. QED
      BY <1>3, MinIs
  <1>5. QED
    BY <1>1, <1>2, <1>4

LEMMA NextWriteObject ==
  ASSUME WriterInv, W!WriteObject
  PROVE  WriterInv'
  <1>a. PICK n : n = Len(message.nodes)
    OBVIOUS
  <1>b. PICK a : a = W!Adapted(message.nodes[Head(todo).node])
    OBVIOUS
  <1>c. PICK names : names = W!Ordered(a.kids)
    OBVIOUS
  <1>d. PICK def : def = [type |-> a.type, names |-> names]
    OBVIOUS
  <1>e. PICK known : known = W!Known(def)
    OBVIOUS
  <1>1. W!Writing /\ Head(todo).node > 0 /\ a.kind = "object"
    BY <1>b DEF W!WriteObject, W!NextNode
  <1>2. /\ n \in Nat /\ Sound(message.nodes[Head(todo).node], n)
        /\ Tail(todo) \in Seq(Todo(n)) /\ Values(n) \subseteq Todo(n) /\ W!End \in Todo(n)
        /\ out \in Seq(Tokens) /\ objectDefs \in Seq([type : Names, names : Seq(Names)])
    BY <1>1, <1>a, WritesOne
  <1>3. CASE TooLong \in DOMAIN a.kids
    BY <1>3, <1>b DEF W!WriteObject, W!WriteFails, WriterInv
  <1>4. CASE TooLong \notin DOMAIN a.kids
    <2>1. /\ objectDefs' = IF known = 0 THEN Append(objectDefs, def) ELSE objectDefs
          /\ out' = out \o
               (IF known = 0
                THEN <<[W!Token("definition") EXCEPT !.type = def.type, !.names = def.names],
                       [W!Token("object") EXCEPT !.ref = Len(objectDefs)]>>
                ELSE <<[W!Token("object") EXCEPT !.ref = known - 1]>>)
          /\ todo' = [i \in 1..Len(def.names) |-> a.kids[def.names[i]]] \o Tail(todo)
          /\ UNCHANGED <<message, written>>
      BY <1>4, <1>b, <1>c, <1>d, <1>e DEF W!WriteObject
    <2>2. /\ a.type \in Names /\ DOMAIN a.kids \subseteq Names /\ IsFiniteSet(DOMAIN a.kids)
          /\ \A k \in DOMAIN a.kids : a.kids[k] \in Values(n)
      BY <1>1, <1>2, <1>b, AdaptedIs
    <2>3. names \in Seq(DOMAIN a.kids) /\ Len(names) \in Nat /\ names \in Seq(Names)
      <3>1. PICK kids : kids = a.kids
        OBVIOUS
      <3>2. names \in Seq(DOMAIN kids)
        BY <1>c, <2>2, <3>1, OrderedIs
      <3>3. QED
        BY <2>2, <3>1, <3>2, SeqGrows
    <2>4. def.type = a.type /\ def.names = names /\ def \in [type : Names, names : Seq(Names)]
      BY <1>d, <2>2, <2>3
    <2>5. known \in 0..Len(objectDefs) /\ Len(objectDefs) \in Nat
      BY <1>2, <1>e, KnownIs
    <2>6. objectDefs' \in Seq([type : Names, names : Seq(Names)])
      <3>1. Append(objectDefs, def) \in Seq([type : Names, names : Seq(Names)])
        BY <1>2, <2>4
      <3>2. QED
        BY <1>2, <2>1, <3>1
    <2>7. out' \in Seq(Tokens)
      <3>1. CASE known = 0
        <4>1. PICK t, u : /\ t = [W!Token("definition") EXCEPT !.type = a.type, !.names = names]
                          /\ u = [W!Token("object") EXCEPT !.ref = Len(objectDefs)]
          OBVIOUS
        <4>2. t \in Tokens /\ u \in Tokens
          BY <2>2, <2>3, <2>5, <4>1, WrittenAre, MessagesAssumption
        <4>3. out' = out \o <<t, u>>
          BY <2>1, <2>4, <3>1, <4>1
        <4>4. <<t, u>> \in Seq(Tokens)
          BY <4>2
        <4>5. QED
          BY <1>2, <4>3, <4>4
      <3>2. CASE known # 0
        <4>1. PICK u : u = [W!Token("object") EXCEPT !.ref = known - 1]
          OBVIOUS
        <4>2. known - 1 \in Nat
          BY <2>5, <3>2
        <4>3. u \in Tokens
          BY <2>2, <2>3, <4>1, <4>2, WrittenAre, MessagesAssumption
        <4>4. out' = out \o <<u>>
          BY <2>1, <3>2, <4>1
        <4>5. <<u>> \in Seq(Tokens)
          BY <4>3
        <4>6. QED
          BY <1>2, <4>4, <4>5
      <3>3. QED
        BY <3>1, <3>2
    <2>8. todo' \in Seq(Todo(n))
      <3>1. PICK s : s = [i \in 1..Len(names) |-> a.kids[names[i]]]
        OBVIOUS
      <3>2. \A i \in 1..Len(names) : a.kids[names[i]] \in Todo(n)
        BY <1>2, <2>2, <2>3
      <3>3. s \in Seq(Todo(n))
        BY <2>3, <3>1, <3>2
      <3>4. todo' = s \o Tail(todo)
        BY <2>1, <2>4, <3>1
      <3>5. QED
        BY <1>2, <3>3, <3>4
    <2>9. QED
      BY <1>1, <2>1, <2>6, <2>7, <2>8, <1>a, WriteKeeps
  <1>5. QED
    BY <1>3, <1>4

LEMMA NextWrite ==
  ASSUME WriterInv, W!Write
  PROVE  WriterInv'
  <1>1. ASSUME W!Finished PROVE WriterInv'
    BY <1>1 DEF W!Finished, WriterInv
  <1>2. QED
    BY <1>1, NextWriteScalar, NextWriteEnd, NextWriteList, NextWriteMap, NextWriteObject DEF W!Write

LEMMA SeqIs ==
  ASSUME NEW n \in Nat, NEW S, NEW s \in [1..n -> S]
  PROVE  s \in Seq(S)
  OBVIOUS

(* A sequence is one of its elements. *)
LEMMA OfItsElements ==
  ASSUME NEW n \in Nat, NEW s, DOMAIN s = 1..n, s \in [1..n -> {s[i] : i \in 1..n}]
  PROVE  s \in Seq(Range(s)) /\ Len(s) = n
  <1>1. Range(s) = {s[i] : i \in 1..n}
    BY DEF Range
  <1>2. s \in Seq({s[i] : i \in 1..n}) /\ Len(s) = n
    BY SeqIs
  <1>3. QED
    BY <1>1, <1>2

(* The nodes of a forest, and what stands at its roots. *)
LEMMA ForestIs ==
  ASSUME NEW forest \in Forests
  PROVE  /\ Len(forest.nodes) \in Nat
         /\ forest.nodes \in Seq(Range(forest.nodes))
         /\ forest.roots \in Seq(Values(Len(forest.nodes)))
         /\ \A i \in 1..Len(forest.nodes) : Sound(forest.nodes[i], Len(forest.nodes))
  <1>1. WellFormed(forest)
    BY MessagesAssumption
  <1>2. /\ Len(forest.nodes) \in Nat
        /\ forest.nodes = [i \in 1..Len(forest.nodes) |-> forest.nodes[i]]
        /\ forest.roots \in Seq(Values(Len(forest.nodes)))
        /\ \A i \in 1..Len(forest.nodes) : Sound(forest.nodes[i], Len(forest.nodes))
    BY <1>1 DEF WellFormed, Sound
  <1>3. forest.nodes \in Seq(Range(forest.nodes))
    <2>1. PICK s, n : s = forest.nodes /\ n = Len(forest.nodes)
      OBVIOUS
    <2>2. n \in Nat /\ DOMAIN s = 1..n /\ s \in [1..n -> {s[i] : i \in 1..n}]
      BY <1>2, <2>1
    <2>3. s \in Seq(Range(s))
      BY <2>2, OfItsElements
    <2>4. QED
      BY <2>1, <2>3
  <1>4. QED
    BY <1>2, <1>3

(* A forest with more nodes behind its own. *)
LEMMA Extended ==
  ASSUME NEW forest \in Forests, NEW X, NEW s \in Seq(X), NEW nodes, nodes = forest.nodes \o s,
         \A i \in 1..Len(s) : Sound(s[i], Len(forest.nodes) + Len(s))
  PROVE  /\ nodes \in Seq(Range(nodes)) /\ Len(nodes) = Len(forest.nodes) + Len(s)
         /\ \A i \in 1..Len(nodes) : Sound(nodes[i], Len(nodes))
  <1>a. PICK m, n : m = Len(forest.nodes) /\ n = m + Len(s)
    OBVIOUS
  <1>1. /\ m \in Nat /\ Len(s) \in Nat /\ forest.nodes \in Seq(Range(forest.nodes))
        /\ \A i \in 1..m : Sound(forest.nodes[i], m)
    BY <1>a, ForestIs
  <1>2. nodes \in Seq(Range(forest.nodes) \cup X) /\ Len(nodes) = n /\ n \in Nat /\ m <= n
    BY <1>1, <1>a
  <1>3. /\ \A i \in 1..m : nodes[i] = forest.nodes[i]
        /\ \A i \in m + 1..n : nodes[i] = s[i - m] /\ i - m \in 1..Len(s)
    BY <1>1, <1>a
  <1>4. nodes \in Seq(Range(nodes))
    <2>1. n \in Nat /\ DOMAIN nodes = 1..n /\ nodes = [i \in 1..n |-> nodes[i]]
      BY <1>2
    <2>2. nodes \in [1..n -> {nodes[i] : i \in 1..n}]
      BY <2>1
    <2>3. QED
      BY <2>1, <2>2, OfItsElements
  <1>5. ASSUME NEW i \in 1..n PROVE Sound(nodes[i], n)
    <2>1. CASE i \in 1..m
      BY <1>1, <1>2, <1>3, <2>1, SoundGrows
    <2>2. CASE i \in m + 1..n
      BY <1>3, <1>a, <2>2
    <2>3. QED
      BY <1>1, <1>2, <2>1, <2>2
  <1>6. QED
    BY <1>2, <1>4, <1>5, <1>a

LEMMA FiveAreFinite ==
  ASSUME NEW a, NEW b, NEW c, NEW d, NEW e
  PROVE  IsFiniteSet({a, b, c, d, e})
  <1>1. IsFiniteSet({a})
    BY FS_Singleton
  <1>2. IsFiniteSet({a} \cup {b})
    BY <1>1, FS_AddElement
  <1>3. IsFiniteSet({a} \cup {b} \cup {c})
    BY <1>2, FS_AddElement
  <1>4. IsFiniteSet({a} \cup {b} \cup {c} \cup {d})
    BY <1>3, FS_AddElement
  <1>5. IsFiniteSet({a} \cup {b} \cup {c} \cup {d} \cup {e})
    BY <1>4, FS_AddElement
  <1>6. {a, b, c, d, e} = {a} \cup {b} \cup {c} \cup {d} \cup {e}
    OBVIOUS
  <1>7. QED
    BY <1>5, <1>6

LEMMA BeginKeeps ==
  ASSUME WriterInv, NEW m, W!Begin(m), NEW n, n = Len(m.nodes), n \in Nat,
         m.nodes \in Seq(Range(m.nodes)), \A i \in 1..n : Sound(m.nodes[i], n),
         m.roots \in Seq(Values(n))
  PROVE  WriterInv'
  <1>1. /\ message' = m /\ todo' = m.roots /\ UNCHANGED <<objectDefs, out>>
    BY DEF W!Begin
  <1>2. todo' \in Seq(Values(n) \cup {W!End})
    BY <1>1, SeqGrows
  <1>3. QED
    BY <1>1, <1>2 DEF WriterInv

(* The class of a request and its fields, and what else the client adds.   *)
LEMMA RequestKeeps ==
  ASSUME WriterInv, NEW forest \in Forests, NEW app \in {"null", "app"}, NEW baggage \in SUBSET RawKeys,
         W!Begin(W!Request(forest, app, baggage))
  PROVE  WriterInv'
  <1>a. PICK m : m = Len(forest.nodes)
    OBVIOUS
  <1>b. PICK n : n = m + 4
    OBVIOUS
  <1>c. PICK fields : fields = [targetAppName |-> W!Scalar(app), methodName |-> W!Scalar("m"),
                                targetServiceUniqueName |-> W!Scalar("s"), requestProps |-> W!Node(m + 2),
                                methodArgSigs |-> W!Node(m + 3)]
    OBVIOUS
  <1>d. PICK props : props = IF baggage = {} THEN [type |-> W!Scalar("sync")]
                             ELSE [k \in {"type", "rpc_req_baggage"} |->
                                     IF k = "type" THEN W!Scalar("sync") ELSE W!Node(m + 4)]
    OBVIOUS
  <1>e. PICK sigs : sigs = [i \in 1..Len(forest.roots) |-> W!Scalar("sig")]
    OBVIOUS
  <1>f. PICK more : more = [t \in {Trim[k] : k \in baggage} |-> W!Scalar("v")]
    OBVIOUS
  <1>g. PICK a, b, c, d :
          /\ a = [kind |-> "object", type |-> "SofaRequest", kids |-> fields]
          /\ b = [kind |-> "props", type |-> None, kids |-> props]
          /\ c = [kind |-> "strings", type |-> None, kids |-> sigs]
          /\ d = [kind |-> "props", type |-> None, kids |-> more]
    OBVIOUS
  <1>h. PICK s : s = <<a, b, c, d>>
    OBVIOUS
  <1>i. PICK r : r = W!Request(forest, app, baggage)
    OBVIOUS
  <1>1. r = [nodes |-> forest.nodes \o s, roots |-> <<W!Node(m + 1)>> \o forest.roots]
    BY <1>a, <1>c, <1>d, <1>e, <1>f, <1>g, <1>h, <1>i DEF W!Request
  <1>2. m \in Nat /\ n \in Nat /\ m <= n /\ forest.roots \in Seq(Values(m))
    BY <1>a, <1>b, ForestIs
  <1>3. /\ \A i \in 1..n : W!Node(i) \in Values(n)
        /\ \A x \in Scalars : W!Scalar(x) \in Values(n)
    BY DEF W!Node, W!Scalar, Values, Node, Scalar
  <1>4. Sound(a, n)
    <2>1. /\ "targetAppName" \in Names /\ "methodName" \in Names /\ "targetServiceUniqueName" \in Names
          /\ "requestProps" \in Names /\ "methodArgSigs" \in Names /\ "SofaRequest" \in Names
      BY MessagesAssumption DEF W!ClassNames, W!FieldNames
    <2>2. DOMAIN fields = {"targetAppName", "methodName", "targetServiceUniqueName", "requestProps", "methodArgSigs"}
      BY <1>c
    <2>3. /\ W!Scalar(app) \in Values(n) /\ W!Scalar("m") \in Values(n) /\ W!Scalar("s") \in Values(n)
          /\ W!Node(m + 2) \in Values(n) /\ W!Node(m + 3) \in Values(n)
      BY <1>2, <1>3, <1>b, MessagesAssumption
    <2>4. fields \in [DOMAIN fields -> Values(n)]
      BY <2>3, <1>c
    <2>5. IsFiniteSet(DOMAIN fields)
      <3>1. IsFiniteSet({"targetAppName", "methodName", "targetServiceUniqueName", "requestProps", "methodArgSigs"})
        BY FiveAreFinite
      <3>2. QED
        BY <2>2, <3>1
    <2>6. QED
      BY <1>g, <2>1, <2>2, <2>4, <2>5 DEF Sound
  <1>5. Sound(b, n)
    <2>1. {"type", "rpc_req_baggage"} \subseteq Texts /\ "sync" \in Scalars
      BY MessagesAssumption
    <2>2. W!Scalar("sync") \in Values(n) /\ W!Node(m + 4) \in Values(n)
      BY <1>2, <1>3, <1>b, <2>1
    <2>3. props \in [DOMAIN props -> Values(n)] /\ DOMAIN props \subseteq {"type", "rpc_req_baggage"}
      BY <1>d, <2>2
    <2>4. IsFiniteSet({"type", "rpc_req_baggage"})
      <3>1. {"type", "rpc_req_baggage"} = {"type", "type", "type", "type", "rpc_req_baggage"}
        OBVIOUS
      <3>2. QED
        BY <3>1, FiveAreFinite
    <2>5. IsFiniteSet(DOMAIN props)
      BY <2>3, <2>4, FS_Subset
    <2>6. QED
      BY <1>g, <2>1, <2>3, <2>5 DEF Sound
  <1>6. Sound(c, n)
    <2>1. W!Scalar("sig") \in Values(n) /\ Len(forest.roots) \in Nat
      BY <1>2, <1>3, MessagesAssumption
    <2>2. sigs \in Seq(Values(n))
      BY <1>e, <2>1
    <2>3. QED
      BY <1>g, <2>2 DEF Sound
  <1>7. Sound(d, n)
    <2>1. W!Scalar("v") \in Values(n)
      BY <1>3, MessagesAssumption
    <2>2. DOMAIN more = {Trim[k] : k \in baggage} /\ more \in [DOMAIN more -> Values(n)]
      BY <1>f, <2>1
    <2>3. DOMAIN more \subseteq Texts
      BY <2>2, WireAssumption
    <2>4. IsFiniteSet(DOMAIN more)
      <3>1. IsFiniteSet(baggage)
        BY MessagesAssumption, FS_Subset
      <3>2. PICK f : f = [k \in baggage |-> Trim[k]]
        OBVIOUS
      <3>3. f \in Surjection(baggage, DOMAIN more)
        BY <2>2, <3>2 DEF Surjection
      <3>4. QED
        BY <3>1, <3>3, FS_Surjection
    <2>5. QED
      BY <1>g, <2>2, <2>3, <2>4 DEF Sound
  <1>8. /\ s \in Seq({a, b, c, d}) /\ Len(s) = 4
        /\ \A i \in 1..4 : s[i] \in {a, b, c, d}
    BY <1>h
  <1>9. \A i \in 1..Len(s) : Sound(s[i], n)
    BY <1>4, <1>5, <1>6, <1>7, <1>8
  <1>10. /\ r.nodes \in Seq(Range(r.nodes)) /\ Len(r.nodes) = n
         /\ \A i \in 1..n : Sound(r.nodes[i], n)
    <2>1. PICK nodes, X : nodes = r.nodes /\ X = {a, b, c, d}
      OBVIOUS
    <2>2. m = Len(forest.nodes) /\ n = m + Len(s) /\ s \in Seq(X) /\ nodes = forest.nodes \o s
      BY <1>1, <1>8, <1>a, <1>b, <2>1
    <2>3. \A i \in 1..Len(s) : Sound(s[i], Len(forest.nodes) + Len(s))
      BY <1>9, <2>2
    <2>4. /\ nodes \in Seq(Range(nodes)) /\ Len(nodes) = Len(forest.nodes) + Len(s)
          /\ \A i \in 1..Len(nodes) : Sound(nodes[i], Len(nodes))
      BY <2>2, <2>3, Extended
    <2>5. QED
      BY <2>1, <2>2, <2>4
  <1>11. r.roots \in Seq(Values(n))
    <2>1. forest.roots \in Seq(Values(n))
      BY <1>2, ValuesAre, SeqGrows
    <2>2. W!Node(m + 1) \in Values(n)
      BY <1>2, <1>3, <1>b
    <2>3. QED
      BY <1>1, <2>1, <2>2
  <1>12. QED
    BY <1>2, <1>10, <1>11, <1>i, BeginKeeps

LEMMA ResponseKeeps ==
  ASSUME WriterInv, NEW forest \in Forests, Len(forest.roots) = 1, W!Begin(W!Response(forest))
  PROVE  WriterInv'
  <1>a. PICK m : m = Len(forest.nodes)
    OBVIOUS
  <1>b. PICK n : n = m + 1
    OBVIOUS
  <1>c. PICK fields : fields = [isError |-> W!Scalar("false"), errorMsg |-> W!Scalar("null"),
                                appResponse |-> Head(forest.roots), responseProps |-> W!Scalar("null")]
    OBVIOUS
  <1>d. PICK a : a = [kind |-> "object", type |-> "SofaResponse", kids |-> fields]
    OBVIOUS
  <1>e. PICK r : r = W!Response(forest)
    OBVIOUS
  <1>1. r = [nodes |-> forest.nodes \o <<a>>, roots |-> <<W!Node(m + 1)>>]
    BY <1>a, <1>c, <1>d, <1>e DEF W!Response
  <1>2. m \in Nat /\ n \in Nat /\ m <= n /\ forest.roots \in Seq(Values(m))
    BY <1>a, <1>b, ForestIs
  <1>3. W!Node(n) \in Values(n) /\ \A x \in Scalars : W!Scalar(x) \in Values(n)
    BY <1>2, <1>b DEF W!Node, W!Scalar, Values, Node, Scalar
  <1>4. Sound(a, n)
    <2>1. /\ "isError" \in Names /\ "errorMsg" \in Names /\ "appResponse" \in Names
          /\ "responseProps" \in Names /\ "SofaResponse" \in Names
      BY MessagesAssumption DEF W!ClassNames, W!FieldNames
    <2>2. DOMAIN fields = {"isError", "errorMsg", "appResponse", "responseProps"}
      BY <1>c
    <2>3. Head(forest.roots) \in Values(n)
      <3>1. Head(forest.roots) \in Values(m)
        BY <1>2
      <3>2. QED
        BY <1>2, <3>1, ValuesAre
    <2>4. W!Scalar("false") \in Values(n) /\ W!Scalar("null") \in Values(n)
      BY <1>3, MessagesAssumption
    <2>5. fields \in [DOMAIN fields -> Values(n)]
      BY <2>3, <2>4, <1>c
    <2>6. IsFiniteSet(DOMAIN fields)
      <3>1. DOMAIN fields = {"isError", "errorMsg", "appResponse", "responseProps", "responseProps"}
        BY <2>2
      <3>2. IsFiniteSet({"isError", "errorMsg", "appResponse", "responseProps", "responseProps"})
        BY FiveAreFinite
      <3>3. QED
        BY <3>1, <3>2
    <2>7. QED
      BY <1>d, <2>1, <2>2, <2>5, <2>6 DEF Sound
  <1>5. PICK s : s = <<a>>
    OBVIOUS
  <1>6. s \in Seq({a}) /\ Len(s) = 1 /\ \A i \in 1..Len(s) : Sound(s[i], n)
    BY <1>4, <1>5
  <1>7. r.nodes = forest.nodes \o s
    BY <1>1, <1>5
  <1>8. /\ r.nodes \in Seq(Range(r.nodes)) /\ Len(r.nodes) = n
        /\ \A i \in 1..n : Sound(r.nodes[i], n)
    <2>1. PICK nodes, X : nodes = r.nodes /\ X = {a}
      OBVIOUS
    <2>2. m = Len(forest.nodes) /\ n = m + Len(s) /\ s \in Seq(X) /\ nodes = forest.nodes \o s
      BY <1>6, <1>7, <1>a, <1>b, <2>1
    <2>3. \A i \in 1..Len(s) : Sound(s[i], Len(forest.nodes) + Len(s))
      BY <1>6, <2>2
    <2>4. /\ nodes \in Seq(Range(nodes)) /\ Len(nodes) = Len(forest.nodes) + Len(s)
          /\ \A i \in 1..Len(nodes) : Sound(nodes[i], Len(nodes))
      BY <2>2, <2>3, Extended
    <2>5. QED
      BY <2>1, <2>2, <2>4
  <1>9. r.roots \in Seq(Values(n))
    BY <1>1, <1>3, <1>b
  <1>10. QED
    BY <1>2, <1>8, <1>9, <1>e, BeginKeeps

LEMMA NextPrepare ==
  ASSUME WriterInv, Prepare
  PROVE  WriterInv'
  <1>1. W!BeginRequest \/ W!BeginResponse
    BY DEF Prepare
  <1>2. CASE W!BeginRequest
    <2>1. PICK forest \in Forests, app \in {"null", "app"}, baggage \in SUBSET RawKeys :
            IF W!BaggageOK(baggage)
            THEN W!Begin(W!Request(forest, app, baggage))
            ELSE written' = "failed" /\ UNCHANGED <<message, todo, objectDefs, out, started>>
      BY <1>2 DEF W!BeginRequest
    <2>2. CASE W!BaggageOK(baggage)
      BY <2>1, <2>2, RequestKeeps
    <2>3. CASE ~W!BaggageOK(baggage)
      BY <2>1, <2>3 DEF WriterInv
    <2>4. QED
      BY <2>2, <2>3
  <1>3. CASE W!BeginResponse
    BY <1>3, ResponseKeeps DEF W!BeginResponse
  <1>4. QED
    BY <1>1, <1>2, <1>3

-----------------------------------------------------------------------------
(* The invariant holds at first, and every step keeps it. *)

LEMMA Holds ==
  Init => IInv
  <1> SUFFICES ASSUME Init PROVE IInv
    OBVIOUS
  <1>1. /\ stack = <<>> /\ refs = <<>> /\ classDefs = <<>> /\ types = <<>> /\ heap = <<>>
        /\ returned = None /\ answers = <<>> /\ status = "reading" /\ input = <<>>
        /\ objectDefs = <<>> /\ out = <<>> /\ written = "idle"
    BY DEF Init, R!Init, W!Init
  <1>2. limits \in R!Limits
    BY MessagesAssumption DEF Init
  <1>3. limits.depth \in Nat /\ limits.items \in Nat /\ limits.refs \in Nat
    BY <1>2 DEF R!Limits
  <1>4. ReaderInv
    BY <1>1, <1>2, <1>3 DEF ReaderInv, Typed, Nested, Tables
  <1>5. WriterInv
    BY <1>1 DEF WriterInv
  <1>6. Counted
    BY <1>1 DEF Counted, Numbered
  <1>7. QED
    BY <1>4, <1>5, <1>6 DEF IInv

(* A step of others than the reader. *)
LEMMA ReaderStays ==
  ASSUME ReaderInv, Counted, input' \in Seq(Tokens),
         UNCHANGED <<limits, stack, refs, classDefs, types, heap, returned, answers, status>>
  PROVE  ReaderInv' /\ Counted'
  <1>1. ReaderInv'
    <2>1. Typed'
      BY DEF ReaderInv, Typed
    <2>2. (\A n \in 1..Len(heap) : GoodNode(n) /\ (status # "failed" => Small(n)))'
      BY DEF ReaderInv, GoodNode, Small
    <2>3. (\A i \in 1..Len(stack) : GoodFrame(stack[i]))'
      <3>1. ASSUME NEW f, GoodFrame(f) PROVE GoodFrame(f)'
        BY <3>1 DEF GoodFrame, R!Definition, R!Frame
      <3>2. QED
        BY <3>1 DEF ReaderInv
    <2>4. Nested' /\ Tables'
      BY DEF ReaderInv, Nested, Tables
    <2>5. QED
      BY <2>1, <2>2, <2>3, <2>4 DEF ReaderInv
  <1>2. Counted'
    BY DEF Counted, HoldsLater, WillHoldLater, Numbered, IsList, Kids
  <1>3. QED
    BY <1>1, <1>2

LEMMA WriterStays ==
  ASSUME WriterInv, UNCHANGED writing
  PROVE  WriterInv'
  BY DEF WriterInv, writing

LEMMA IsInductive ==
  IInv /\ [Next]_vars => IInv'
  <1> SUFFICES ASSUME IInv, [Next]_vars PROVE IInv'
    OBVIOUS
  <1>1. ReaderInv /\ WriterInv /\ Counted /\ input \in Seq(Tokens) /\ out \in Seq(Tokens)
    BY DEF IInv, ReaderInv, Typed, WriterInv
  <1>2. CASE Prepare
    <2>1. WriterInv'
      BY <1>1, <1>2, NextPrepare
    <2>2. UNCHANGED reading /\ input' = input
      BY <1>2 DEF Prepare
    <2>3. QED
      BY <1>1, <2>1, <2>2, ReaderStays DEF IInv, reading
  <1>3. CASE Write
    <2>1. WriterInv'
      BY <1>1, <1>3, NextWrite DEF Write
    <2>2. UNCHANGED reading /\ input' = input
      BY <1>3 DEF Write
    <2>3. QED
      BY <1>1, <2>1, <2>2, ReaderStays DEF IInv, reading
  <1>4. CASE Deliver
    <2>1. input' = out /\ UNCHANGED writing
      BY <1>4 DEF Deliver
    <2>2. UNCHANGED <<limits, stack, refs, classDefs, types, heap, returned, answers, status>>
      BY <1>4 DEF Deliver
    <2>3. ReaderInv' /\ Counted'
      BY <1>1, <2>1, <2>2, ReaderStays
    <2>4. QED
      BY <1>1, <2>1, <2>3, WriterStays DEF IInv, reading
  <1>5. CASE PeerSends
    <2>1. UNCHANGED reading /\ UNCHANGED writing
      BY <1>5 DEF PeerSends
    <2>2. input' \in Seq(Tokens)
      <3>1. CASE input' = input
        BY <1>1, <3>1
      <3>2. CASE \E t \in Sent[source] : input' = <<t>>
        <4>1. PICK t \in Sent[source] : input' = <<t>>
          BY <3>2
        <4>2. t \in Tokens
          BY <1>5, MessagesAssumption DEF PeerSends
        <4>3. QED
          BY <4>1, <4>2
      <3>3. QED
        BY <1>5, <3>1, <3>2 DEF PeerSends
    <2>3. QED
      BY <1>1, <2>1, <2>2, ReaderStays, WriterStays DEF IInv, reading
  <1>6. CASE Read
    <2>1. ReaderInv' /\ Counted'
      BY <1>1, <1>6, NextRead DEF Read
    <2>2. UNCHANGED writing
      BY <1>6 DEF Read
    <2>3. QED
      BY <1>1, <2>1, <2>2, WriterStays DEF IInv, reading
  <1>7. CASE UNCHANGED vars
    <2>1. UNCHANGED reading /\ UNCHANGED writing /\ input' = input
      BY <1>7 DEF vars
    <2>2. QED
      BY <1>1, <2>1, ReaderStays, WriterStays DEF IInv, reading
  <1>8. QED
    BY <1>2, <1>3, <1>4, <1>5, <1>6, <1>7 DEF Next

LEMMA AlwaysInvariant ==
  Spec => []IInv
  <1>1. QED
    BY Holds, IsInductive, PTL DEF Spec

-----------------------------------------------------------------------------
(* Whatever arrives, and whatever the limits are, decoder.go nests no      *)
(* deeper, collects no more parts of a value and remembers no more         *)
(* references, classes and types than its limits allow.                    *)
THEOREM StaysWithinLimits ==
  Spec => []WithinLimits
  <1>1. IInv => WithinLimits
    BY DEF IInv, ReaderInv, Tables, Small, WithinLimits
  <1>2. QED
    BY <1>1, AlwaysInvariant, PTL

(* However lists, maps, objects and references are nested in a message     *)
(* that was read, number i of the table of decoder.go is the value that    *)
(* started as number i, unless a list holds what starts inside it.         *)
THEOREM ReferencesMeanTheirValues ==
  Spec => []ReferencesCount
  <1>1. IInv => ReferencesCount
    <2> SUFFICES ASSUME IInv, status = "done", ~HoldsLater
                 PROVE  \A i \in 1..Len(refs) : refs[i] = i
      <3>1. ~HoldsLater <=> \A n \in 1..Len(heap) : heap[n].kind = "list" => \A v \in Kids(n) : ~(v.node >= n)
        BY DEF HoldsLater
      <3>2. ASSUME IInv, NEW n \in 1..Len(heap), NEW v \in Kids(n)
            PROVE  v.node < n => ~(v.node >= n)
        <4>1. Len(heap) \in Nat /\ v \in Values(Len(heap))
          BY <3>2, NodesAreSome DEF IInv, ReaderInv, GoodNode, Kids
        <4>2. v.node \in Nat
          BY <4>1, ValuesAre
        <4>3. QED
          BY <4>1, <4>2
      <3>3. QED
        BY <3>1, <3>2 DEF ReferencesCount
    <2>1. stack = <<>>
      BY DEF IInv, ReaderInv
    <2>2. ~WillHoldLater
      BY <2>1 DEF WillHoldLater
    <2>3. Numbered
      BY <2>2 DEF IInv, Counted
    <2>4. QED
      BY <2>3 DEF Numbered
  <1>2. QED
    BY <1>1, AlwaysInvariant, PTL

-----------------------------------------------------------------------------
(* An answer that is reported has an end: the formatter meets the nodes of *)
(* a cycle again and again, ever deeper, and refuses what is too deep.     *)

(* The nodes that a node holds. *)
Under(n) == {heap[n].kids[k].node : k \in DOMAIN heap[n].kids} \ {0}

LEMMA UnderIs ==
  ASSUME ReaderInv, NEW n \in 1..Len(heap)
  PROVE  /\ Under(n) \subseteq 1..Len(heap)
         /\ Under(n) = {v.node : v \in Kids(n)} \ {0}
         /\ Under(n) # {} => Kids(n) # {}
  <1>1. \A k \in DOMAIN heap[n].kids : heap[n].kids[k] \in Values(Len(heap))
    BY DEF ReaderInv, GoodNode
  <1>2. \A k \in DOMAIN heap[n].kids : heap[n].kids[k].node \in 0..Len(heap)
    BY <1>1, ValuesAre, NodesAreSome
  <1>3. Under(n) \subseteq 1..Len(heap)
    BY <1>2, NodesAreSome DEF Under
  <1>4. QED
    BY <1>3 DEF Under, Kids

(* Below is what its definition says, level by level. *)
LEMMA BelowIs ==
  ASSUME ReaderInv, NEW v
  PROVE  /\ R!Below(v)[0] = {v.node} \ {0}
         /\ \A d \in 1..Len(heap) : R!Below(v)[d] = UNION {Under(n) : n \in R!Below(v)[d - 1]}
  <1> DEFINE Step(x) == (UNION {{heap[n].kids[k].node : k \in DOMAIN heap[n].kids} : n \in x}) \ {0}
             Is(f, i) == f = [d \in 0..i |-> IF d = 0 THEN {v.node} \ {0} ELSE Step(f[d - 1])]
             bad == {i \in Nat : ~\E f : Is(f, i)}
  <1>0. Len(heap) \in Nat
    BY NodesAreSome
  <1>a. PICK b : b = R!Below(v)
    OBVIOUS
  <1>1. \E f : Is(f, Len(heap))
    <2> HIDE DEF Step
    <2>1. Is([d \in 0..0 |-> {v.node} \ {0}], 0)
      OBVIOUS
    <2>2. ASSUME NEW i \in Nat, NEW f, Is(f, i)
          PROVE  \E g : Is(g, i + 1)
      <3>1. PICK g : g = [d \in 0..i + 1 |-> IF d \in 0..i THEN f[d] ELSE Step(f[i])]
        OBVIOUS
      <3>2. ASSUME NEW d \in 0..i + 1
            PROVE  g[d] = IF d = 0 THEN {v.node} \ {0} ELSE Step(g[d - 1])
        <4>1. CASE d \in 0..i
          <5>1. g[d] = f[d] /\ f[d] = IF d = 0 THEN {v.node} \ {0} ELSE Step(f[d - 1])
            BY <2>2, <3>1, <4>1
          <5>2. d # 0 => d - 1 \in 0..i /\ d - 1 \in 0..i + 1 /\ g[d - 1] = f[d - 1]
            BY <3>1, <4>1
          <5>3. QED
            BY <5>1, <5>2
        <4>2. CASE d = i + 1
          <5>1. g[d] = Step(f[i]) /\ i \in 0..i /\ i \in 0..i + 1 /\ d # 0 /\ d - 1 = i
            BY <3>1, <4>2
          <5>2. g[i] = f[i]
            BY <3>1, <5>1
          <5>3. QED
            BY <5>1, <5>2
        <4>3. QED
          BY <4>1, <4>2
      <3>3. Is(g, i + 1)
        BY <3>1, <3>2
      <3>4. QED
        BY <3>3
    <2>3. ASSUME bad # {} PROVE FALSE
      <3>1. PICK i \in bad : \A j \in bad : i <= j
        <4>1. bad \in SUBSET Nat
          OBVIOUS
        <4> HIDE DEF bad
        <4>2. QED
          BY <2>3, <4>1, LeastElement
      <3>2. i # 0
        <4> HIDE DEF Is
        <4>1. QED
          BY <2>1
      <3>3. i - 1 \in Nat /\ i - 1 \notin bad /\ i = (i - 1) + 1
        <4>1. bad \in SUBSET Nat
          OBVIOUS
        <4> HIDE DEF bad
        <4>2. QED
          BY <3>1, <3>2, <4>1
      <3>4. QED
        <4> HIDE DEF Is
        <4>1. PICK f : Is(f, i - 1)
          BY <3>3
        <4>2. \E g : Is(g, (i - 1) + 1)
          BY <2>2, <3>3, <4>1
        <4>3. QED
          BY <3>3, <4>2
    <2>4. QED
      <3> HIDE DEF Is
      <3>1. QED
        BY <2>3, <1>0
  <1>2. Is(b, Len(heap))
    <2>1. b = CHOOSE f : Is(f, Len(heap))
      BY <1>a DEF R!Below
    <2>2. QED
      <3> HIDE DEF Is
      <3>1. QED
        BY <1>1, <2>1
  <1>3. b[0] = {v.node} \ {0}
    BY <1>0, <1>2
  <1>4. ASSUME NEW d \in 1..Len(heap)
        PROVE  b[d] = UNION {Under(n) : n \in b[d - 1]}
    <2>1. d \in 0..Len(heap) /\ d # 0
      BY <1>0
    <2>2. b[d] = (UNION {{heap[n].kids[k].node : k \in DOMAIN heap[n].kids} : n \in b[d - 1]}) \ {0}
      BY <1>2, <2>1
    <2>3. QED
      BY <2>2 DEF Under
  <1>5. QED
    BY <1>a, <1>3, <1>4

(* Met is what its definition says, level by level. *)
LEMMA MetIs ==
  ASSUME limits.depth \in Nat
  PROVE  /\ DOMAIN Met = 0..limits.depth + 2
         /\ Met[0] = {AppResponse.node} \ {0}
         /\ \A d \in 1..limits.depth + 2 :
              Met[d] = {k.node : k \in UNION {Kids(n) : n \in {m \in 1..Len(heap) : Levels(m) <= d /\ m \in Met[d - Levels(m)]}}} \ {0}
  <1> DEFINE From(f, d) == {m \in 1..Len(heap) : Levels(m) <= d /\ m \in f[d - Levels(m)]}
             Step(ms) == {k.node : k \in UNION {Kids(n) : n \in ms}} \ {0}
             Is(f, i) == f = [d \in 0..i |-> IF d = 0 THEN {AppResponse.node} \ {0} ELSE Step(From(f, d))]
             bad == {i \in Nat : ~\E f : Is(f, i)}
             last == limits.depth + 2
  <1>0. last \in Nat /\ \A m : Levels(m) \in {1, 2}
    BY DEF Levels
  <1>a. PICK b : b = Met
    OBVIOUS
  <1>1. \E f : Is(f, last)
    <2> HIDE DEF Step
    <2>1. Is([d \in 0..0 |-> {AppResponse.node} \ {0}], 0)
      OBVIOUS
    <2>2. ASSUME NEW i \in Nat, NEW f, Is(f, i)
          PROVE  \E g : Is(g, i + 1)
      <3>1. PICK g : g = [d \in 0..i + 1 |-> IF d \in 0..i THEN f[d] ELSE Step(From(f, i + 1))]
        OBVIOUS
      <3>2. ASSUME NEW d \in 0..i + 1
            PROVE  g[d] = IF d = 0 THEN {AppResponse.node} \ {0} ELSE Step(From(g, d))
        <4>0. From(g, d) = From(f, d)
          <5>1. ASSUME NEW m \in 1..Len(heap), Levels(m) <= d PROVE g[d - Levels(m)] = f[d - Levels(m)]
            <6>1. d - Levels(m) \in 0..i /\ d - Levels(m) \in 0..i + 1
              BY <1>0, <5>1
            <6>2. QED
              BY <3>1, <6>1
          <5>2. QED
            BY <5>1
        <4> HIDE DEF From
        <4>1. CASE d \in 0..i
          <5>1. g[d] = f[d] /\ f[d] = IF d = 0 THEN {AppResponse.node} \ {0} ELSE Step(From(f, d))
            BY <2>2, <3>1, <4>1
          <5>2. QED
            BY <4>0, <5>1
        <4>2. CASE d = i + 1
          <5>1. g[d] = Step(From(f, d)) /\ d # 0
            BY <3>1, <4>2
          <5>2. QED
            BY <4>0, <5>1
        <4>3. QED
          BY <4>1, <4>2
      <3>3. Is(g, i + 1)
        <4> HIDE DEF From
        <4>1. QED
          BY <3>1, <3>2
      <3>4. QED
        BY <3>3
    <2>3. ASSUME bad # {} PROVE FALSE
      <3>1. PICK i \in bad : \A j \in bad : i <= j
        <4>1. bad \in SUBSET Nat
          OBVIOUS
        <4> HIDE DEF bad
        <4>2. QED
          BY <2>3, <4>1, LeastElement
      <3>2. i # 0
        <4> HIDE DEF Is
        <4>1. QED
          BY <2>1
      <3>3. i - 1 \in Nat /\ i - 1 \notin bad /\ i = (i - 1) + 1
        <4>1. bad \in SUBSET Nat
          OBVIOUS
        <4> HIDE DEF bad
        <4>2. QED
          BY <3>1, <3>2, <4>1
      <3>4. QED
        <4> HIDE DEF Is
        <4>1. PICK f : Is(f, i - 1)
          BY <3>3
        <4>2. \E g : Is(g, (i - 1) + 1)
          BY <2>2, <3>3, <4>1
        <4>3. QED
          BY <3>3, <4>2
    <2>4. QED
      <3> HIDE DEF Is, last
      <3>1. QED
        BY <2>3, <1>0
  <1>2. Is(b, last)
    <2>1. b = CHOOSE f : Is(f, last)
      BY <1>a DEF Met
    <2>2. QED
      <3> HIDE DEF Is
      <3>1. QED
        BY <1>1, <2>1
  <1>3. DOMAIN b = 0..last /\ b[0] = {AppResponse.node} \ {0}
    BY <1>0, <1>2
  <1>4. ASSUME NEW d \in 1..last PROVE b[d] = Step(From(b, d))
    <2>1. d \in 0..last /\ d # 0
      BY <1>0
    <2> HIDE DEF Step, From, last
    <2>2. QED
      BY <1>2, <2>1
  <1>5. QED
    BY <1>a, <1>3, <1>4

(* A node below a value is at the end of a path. *)
LEMMA PathTo ==
  ASSUME ReaderInv, NEW v, v.node \in 0..Len(heap)
  PROVE  \A d \in 0..Len(heap) : \A n \in R!Below(v)[d] :
           \E p \in [0..d -> 1..Len(heap)] :
             p[0] = v.node /\ p[d] = n /\ \A i \in 0..d - 1 : p[i + 1] \in Under(p[i])
  <1> DEFINE Path(p, d, n) == p[0] = v.node /\ p[d] = n /\ \A i \in 0..d - 1 : p[i + 1] \in Under(p[i])
             Found(d) == \A n \in R!Below(v)[d] : \E p \in [0..d -> 1..Len(heap)] : Path(p, d, n)
             bad == {d \in 0..Len(heap) : ~Found(d)}
  <1>0. Len(heap) \in Nat
    BY NodesAreSome
  <1>1. Found(0)
    <2>1. ASSUME NEW n \in R!Below(v)[0] PROVE \E p \in [0..0 -> 1..Len(heap)] : Path(p, 0, n)
      <3>1. n = v.node /\ n \in 1..Len(heap)
        BY <1>0, <2>1, BelowIs
      <3>2. PICK p : p = [i \in 0..0 |-> n]
        OBVIOUS
      <3>3. p \in [0..0 -> 1..Len(heap)] /\ Path(p, 0, n)
        BY <3>1, <3>2
      <3>4. QED
        BY <3>3
    <2>2. QED
      BY <2>1
  <1>2. ASSUME NEW d \in 1..Len(heap), Found(d - 1)
        PROVE  Found(d)
    <2>1. ASSUME NEW n \in R!Below(v)[d] PROVE \E p \in [0..d -> 1..Len(heap)] : Path(p, d, n)
      <3>1. PICK m \in R!Below(v)[d - 1] : n \in Under(m)
        BY <2>1, BelowIs
      <3>2. PICK q \in [0..d - 1 -> 1..Len(heap)] : Path(q, d - 1, m)
        BY <1>2
      <3>3. m \in 1..Len(heap) /\ d \in Nat /\ d - 1 \in Nat
        BY <1>0, <3>2
      <3>4. n \in 1..Len(heap)
        BY <3>1, <3>3, UnderIs
      <3>5. PICK p : p = [i \in 0..d |-> IF i = d THEN n ELSE q[i]]
        OBVIOUS
      <3>6. p[d] = n /\ \A i \in 0..d - 1 : p[i] = q[i] /\ q[i] \in 1..Len(heap)
        BY <3>2, <3>3, <3>5
      <3>7. p \in [0..d -> 1..Len(heap)]
        BY <3>2, <3>3, <3>4, <3>5
      <3>8. ASSUME NEW i \in 0..d - 1 PROVE p[i + 1] \in Under(p[i])
        <4>1. CASE i = d - 1
          BY <3>1, <3>2, <3>3, <3>6, <4>1
        <4>2. CASE i # d - 1
          <5>1. i + 1 \in 0..d - 1 /\ i \in 0..(d - 1) - 1
            BY <3>3, <4>2
          <5>2. QED
            BY <3>2, <3>6, <5>1
        <4>3. QED
          BY <4>1, <4>2
      <3>9. p[0] = v.node
        BY <3>2, <3>3, <3>6
      <3>10. QED
        BY <3>6, <3>7, <3>8, <3>9
    <2>2. QED
      BY <2>1
  <1>3. bad = {}
    <2>1. SUFFICES ASSUME bad # {} PROVE FALSE
      OBVIOUS
    <2>2. bad \in SUBSET Nat /\ bad \subseteq 0..Len(heap)
      BY <1>0
    <2>3. PICK d \in bad : \A e \in bad : d <= e
      <3> HIDE DEF bad
      <3>1. QED
        BY <2>1, <2>2, LeastElement
    <2> HIDE DEF Found
    <2>4. d # 0 /\ d \in 1..Len(heap)
      BY <1>0, <1>1, <2>2
    <2>5. d - 1 \in 0..Len(heap) /\ ~(d <= d - 1)
      BY <1>0, <2>4
    <2>6. Found(d - 1)
      BY <2>3, <2>5
    <2>7. QED
      BY <1>2, <2>3, <2>4, <2>6
  <1>4. QED
    BY <1>3

(* What never ends goes around: from the value on there are nodes each of  *)
(* which holds another one of them.                                        *)
LEMMA GoesAround ==
  ASSUME ReaderInv, NEW v, v.node \in 0..Len(heap), R!Endless(v)
  PROVE  \E C : /\ v.node \in C /\ C \subseteq 1..Len(heap)
                /\ \A n \in C : \E m \in C : m \in Under(n)
  <1>a. PICK L : L = Len(heap)
    OBVIOUS
  <1>0. L \in Nat /\ L \in 0..L
    BY <1>a, NodesAreSome
  <1>1. PICK n : n \in R!Below(v)[L]
    BY <1>a DEF R!Endless
  <1>2. PICK p \in [0..L -> 1..L] : p[0] = v.node /\ \A i \in 0..L - 1 : p[i + 1] \in Under(p[i])
    <2>1. \E q \in [0..Len(heap) -> 1..Len(heap)] :
            q[0] = v.node /\ q[Len(heap)] = n /\ \A k \in 0..Len(heap) - 1 : q[k + 1] \in Under(q[k])
      <3>1. Len(heap) \in 0..Len(heap) /\ n \in R!Below(v)[Len(heap)]
        BY <1>0, <1>1, <1>a
      <3>2. \A d \in 0..Len(heap) : \A k \in R!Below(v)[d] :
              \E q \in [0..d -> 1..Len(heap)] :
                q[0] = v.node /\ q[d] = k /\ \A t \in 0..d - 1 : q[t + 1] \in Under(q[t])
        BY PathTo
      <3>3. \A k \in R!Below(v)[Len(heap)] :
              \E q \in [0..Len(heap) -> 1..Len(heap)] :
                q[0] = v.node /\ q[Len(heap)] = k /\ \A t \in 0..Len(heap) - 1 : q[t + 1] \in Under(q[t])
        BY <3>1, <3>2
      <3>4. QED
        BY <3>1, <3>3
    <2>2. QED
      BY <2>1, <1>a
  <1>3. PICK i \in 0..L, j \in 0..L : i < j /\ p[i] = p[j]
    <2>1. IsFiniteSet(0..L) /\ Cardinality(0..L) = L + 1
      <3>1. 0 \in Int /\ L \in Int /\ ~(0 > L) /\ L - 0 + 1 = L + 1
        BY <1>0
      <3>2. QED
        BY <3>1, FS_Interval
    <2>2. IsFiniteSet(1..L) /\ Cardinality(1..L) = L
      BY <1>0, FS_Interval
    <2>3. Cardinality(1..L) < Cardinality(0..L)
      BY <1>0, <2>1, <2>2
    <2>4. PICK x \in 0..L, y \in 0..L : x # y /\ p[x] = p[y]
      BY <1>2, <2>1, <2>2, <2>3, FS_PigeonHole
    <2>5. x < y \/ y < x
      BY <1>0, <2>4
    <2>6. QED
      BY <2>4, <2>5
  <1>4. PICK C : C = {p[t] : t \in 0..j}
    OBVIOUS
  <1>5. v.node \in C
    <2>1. 0 \in 0..j /\ p[0] = v.node
      BY <1>0, <1>2, <1>3
    <2>2. QED
      BY <1>4, <2>1
  <1>6. C \subseteq 1..L
    BY <1>0, <1>2, <1>3, <1>4
  <1>7. ASSUME NEW m \in C PROVE \E k \in C : k \in Under(m)
    <2>1. PICK t \in 0..j : m = p[t]
      BY <1>4
    <2>2. PICK u \in 0..j : u < j /\ p[u] = p[t]
      <3>1. CASE t = j
        <4>1. i \in 0..j
          BY <1>0, <1>3
        <4>2. QED
          BY <1>3, <3>1, <4>1
      <3>2. CASE t # j
        BY <1>0, <3>2
      <3>3. QED
        BY <3>1, <3>2
    <2>3. u \in 0..L - 1 /\ u + 1 \in 0..j
      BY <1>0, <1>3, <2>2
    <2>4. p[u + 1] \in Under(m) /\ p[u + 1] \in C
      BY <1>2, <1>4, <2>1, <2>2, <2>3
    <2>5. QED
      BY <2>4
  <1>8. QED
    BY <1>5, <1>6, <1>7, <1>a

(* The formatter refuses it. *)
LEMMA FormattedEnds ==
  ASSUME ReaderInv, AppResponse.node \in 0..Len(heap), Formatted
  PROVE  ~R!Endless(AppResponse)
  <1>1. SUFFICES ASSUME R!Endless(AppResponse) PROVE FALSE
    OBVIOUS
  <1>2. PICK C : /\ AppResponse.node \in C /\ C \subseteq 1..Len(heap)
                 /\ \A n \in C : \E m \in C : m \in Under(n)
    BY <1>1, GoesAround
  <1>a. PICK D : D = limits.depth
    OBVIOUS
  <1>3. D \in Nat /\ Len(heap) \in Nat
    BY <1>a, NodesAreSome
  <1>b. PICK met : met = Met
    OBVIOUS
  <1>4. /\ DOMAIN met = 0..D + 2
        /\ met[0] = {AppResponse.node} \ {0}
        /\ \A d \in 1..D + 2 :
             met[d] = {k.node : k \in UNION {Kids(n) : n \in {m \in 1..Len(heap) : Levels(m) <= d /\ m \in met[d - Levels(m)]}}} \ {0}
    BY <1>3, <1>a, <1>b, MetIs
  <1>5. \A d \in 0..D + 2 : \A n \in met[d] :
          d + (IF Kids(n) = {} THEN Levels(n) - 1 ELSE Levels(n)) <= D
    BY <1>4, <1>a, <1>b DEF Formatted
  <1> DEFINE rest == {e \in 0..D : \E n \in C : n \in met[D - e]}
  <1>6. D \in rest
    <2>1. AppResponse.node \in met[0]
      BY <1>2, <1>3, <1>4
    <2>2. D - D = 0 /\ D \in 0..D
      BY <1>3
    <2>3. QED
      BY <1>2, <2>1, <2>2
  <1>7. PICK e \in rest : \A x \in rest : e <= x
    <2>1. rest \in SUBSET Nat
      BY <1>3
    <2> HIDE DEF rest
    <2>2. QED
      BY <1>6, <2>1, LeastElement
  <1>8. PICK d : d = D - e
    OBVIOUS
  <1>9. PICK n \in C : n \in met[d]
    BY <1>7, <1>8
  <1>10. d \in 0..D /\ d \in 0..D + 2 /\ e = D - d /\ e \in 0..D
    BY <1>3, <1>7, <1>8
  <1>11. PICK m \in C : m \in Under(n)
    BY <1>2
  <1>12. n \in 1..Len(heap) /\ m \in 1..Len(heap)
    BY <1>2
  <1>13. Under(n) = {v.node : v \in Kids(n)} \ {0} /\ Kids(n) # {}
    BY <1>11, <1>12, UnderIs
  <1>14. d + Levels(n) <= D /\ Levels(n) \in {1, 2}
    BY <1>5, <1>9, <1>10, <1>13 DEF Levels
  <1>15. PICK x : x = d + Levels(n)
    OBVIOUS
  <1>16. x \in 1..D + 2 /\ x - Levels(n) = d /\ Levels(n) <= x /\ D - x \in 0..D /\ D - x < e /\ D - (D - x) = x
    BY <1>3, <1>10, <1>14, <1>15
  <1>17. m \in met[x]
    <2>1. PICK v \in Kids(n) : m = v.node
      BY <1>11, <1>13
    <2>2. n \in {k \in 1..Len(heap) : Levels(k) <= x /\ k \in met[x - Levels(k)]}
      BY <1>9, <1>12, <1>16
    <2>3. m # 0
      BY <1>12, <1>3
    <2>4. QED
      BY <1>4, <1>16, <2>1, <2>2, <2>3
  <1>18. D - x \in rest
    BY <1>16, <1>17
  <1>19. QED
    BY <1>7, <1>10, <1>16, <1>18

(* A message that was read has brought a value. *)
Answered == status = "done" => answers # <<>>

LEMMA OnlyTheCallerIsDone ==
  R!Step => \/ answers' # <<>>
            \/ answers' = answers /\ status' \in {status, "failed", "crashed"}
  <1> DEFINE Kept == answers' = answers /\ status' \in {status, "failed", "crashed"}
  <1>1. R!Fail => Kept
    BY DEF R!Fail
  <1>2. ASSUME NEW kind, NEW type, NEW kids, NEW left, NEW names, NEW peeks,
               R!Start(kind, type, kids, left, names, peeks)
        PROVE  Kept
    BY <1>2 DEF R!Start
  <1>3. R!TooDeep \/ R!PastEnd \/ R!ReadNoValue => Kept
    BY <1>1 DEF R!TooDeep, R!PastEnd, R!ReadNoValue
  <1>4. R!ReadScalar \/ R!ReadRef \/ R!ReadDefinition => Kept
    BY <1>1 DEF R!ReadScalar, R!ReadRef, R!ReadDefinition
  <1>5. R!ReadObject \/ R!ReadMap \/ R!ReadList \/ R!ReadFixedTypedList => Kept
    BY <1>1, <1>2 DEF R!ReadObject, R!ReadMap, R!ReadList, R!ReadFixedTypedList
  <1>6. R!ReturnToCaller => answers' # <<>>
    <2>1. SUFFICES ASSUME R!ReturnToCaller PROVE answers' # <<>>
      OBVIOUS
    <2>2. PICK v, old : v = returned /\ old = answers
      OBVIOUS
    <2>3. answers' = Append(old, v)
      BY <2>1, <2>2 DEF R!ReturnToCaller
    <2>4. QED
      BY <2>3
  <1>7. R!ReturnThroughDefinition => Kept
    BY DEF R!ReturnThroughDefinition
  <1>8. R!ReturnToList => Kept
    BY DEF R!ReturnToList
  <1>9. R!ReturnToMap => Kept
    BY DEF R!ReturnToMap, R!Crash
  <1>10. R!ReturnToObject => Kept
    BY DEF R!ReturnToObject
  <1>11. R!FinishCounted \/ R!FinishOpen => Kept
    BY <1>1 DEF R!FinishCounted, R!FinishOpen, R!Finish
  <1> HIDE DEF Kept
  <1>12. R!Step => answers' # <<>> \/ Kept
    BY <1>3, <1>4, <1>5, <1>6, <1>7, <1>8, <1>9, <1>10, <1>11 DEF R!Step
  <1>13. QED
    BY <1>12 DEF Kept

LEMMA AlwaysAnswered ==
  Spec => []Answered
  <1>1. Init => Answered
    BY DEF Init, R!Init, Answered
  <1>2. Answered /\ [Next]_vars => Answered'
    <2> SUFFICES ASSUME Answered, [Next]_vars PROVE Answered'
      OBVIOUS
    <2>1. CASE Read
      BY <2>1, OnlyTheCallerIsDone DEF Read, Answered
    <2>2. CASE UNCHANGED <<answers, status>>
      BY <2>2 DEF Answered
    <2>3. QED
      BY <2>1, <2>2 DEF Next, Prepare, Write, Deliver, PeerSends, reading, vars
  <1>3. QED
    BY <1>1, <1>2, PTL DEF Spec

(* Whatever values a peer sends, and however they refer to what they are a *)
(* part of: an answer that wire.go reports contains itself nowhere.        *)
THEOREM ReportedAnswersEnd ==
  Spec => []AnswerHasAnEnd
  <1>1. IInv /\ Answered => AnswerHasAnEnd
    <2> SUFFICES ASSUME IInv, Answered, Outcome = "answered" PROVE ~R!Endless(AppResponse)
      BY DEF AnswerHasAnEnd
    <2>1. ReaderInv
      BY DEF IInv
    <2>2. PICK sent : sent = Head(answers)
      OBVIOUS
    <2>3. status = "done" /\ IsObject(sent) /\ Formatted
      <3>1. PICK f, g, h, i, object : /\ f = (heap[Head(answers).node].type # "SofaResponse")
                                   /\ g = ("isError" \in DOMAIN Fields /\ Fields["isError"] = Scalar("true"))
                                   /\ h = ("errorMsg" \in DOMAIN Fields /\ Fields["errorMsg"].scalar \in Texts \ {Blank})
                                   /\ i = ~PropsPrinted
                                   /\ object = IsObject(sent)
        OBVIOUS
      <3>2. Outcome = CASE status # "done" -> "none"
                        [] ~object -> "undecodable"
                        [] f -> "rejected"
                        [] i -> "crashed"
                        [] g -> "rejected"
                        [] h -> "rejected"
                        [] OTHER -> IF Formatted THEN "answered" ELSE "undecodable"
        BY <2>2, <3>1 DEF Outcome
      <3>3. status = "done" /\ object /\ Formatted
        BY <3>2
      <3>4. QED
        BY <3>1, <3>3
    <2>4. sent \in Values(Len(heap))
      <3>1. answers \in Seq(Values(Len(heap))) /\ answers # <<>>
        BY <2>1, <2>3 DEF Answered, ReaderInv, Typed
      <3>2. QED
        BY <2>2, <3>1
    <2>5. sent.node \in 1..Len(heap) /\ Len(heap) \in Nat
      BY <2>1, <2>3, <2>4, ValuesAre, NodesAreSome DEF IsObject
    <2>6. AppResponse \in Values(Len(heap))
      <3>1. CASE "appResponse" \in DOMAIN Fields
        BY <2>1, <2>2, <2>5, <3>1 DEF ReaderInv, GoodNode, Fields, Field, AppResponse
      <3>2. CASE "appResponse" \notin DOMAIN Fields
        <4>1. "null" \in Scalars
          BY MessagesAssumption
        <4>2. AppResponse = Scalar("null")
          BY <3>2 DEF AppResponse, Field
        <4>3. Scalar("null") \in Values(Len(heap))
          BY <2>5, <4>1 DEF Scalar, Values
        <4>4. QED
          BY <4>2, <4>3
      <3>3. QED
        BY <3>1, <3>2
    <2>7. AppResponse.node \in 0..Len(heap)
      BY <2>5, <2>6, ValuesAre
    <2>8. QED
      BY <2>1, <2>3, <2>7, FormattedEnds
  <1>2. QED
    BY <1>1, AlwaysInvariant, AlwaysAnswered, PTL

-----------------------------------------------------------------------------
(* Induction and recursion over the natural numbers, in a form that does   *)
(* not need an operator to stand for the formula: what holds is a set.     *)
LEMMA SetInduction ==
  ASSUME NEW S, 0 \in S, \A n \in Nat : n \in S => n + 1 \in S
  PROVE  \A n \in Nat : n \in S
  <1> SUFFICES ASSUME NEW n \in Nat, n \notin S PROVE FALSE
    OBVIOUS
  <1> DEFINE A == {k \in 0..n : k \in S}
             next == [k \in A |-> k + 1]
  <1>1. IsFiniteSet(A)
    <2>1. IsFiniteSet(0..n)
      BY FS_Interval
    <2>2. QED
      BY <2>1, FS_Subset
  <1>2. next \in Injection(A, A)
    <2>1. next \in [A -> A]
      <3>1. \A k \in A : k + 1 \in A
        OBVIOUS
      <3>2. QED
        BY <3>1
    <2>2. \A j, k \in A : next[j] = next[k] => j = k
      OBVIOUS
    <2>3. QED
      BY <2>1, <2>2 DEF Injection, IsInjective
  <1>3. next \in Surjection(A, A)
    <2> HIDE DEF A, next
    <2>1. QED
      BY <1>1, <1>2, FS_Injection
  <1>4. 0 \in A
    OBVIOUS
  <1>5. PICK k \in A : next[k] = 0
    <2> HIDE DEF A, next
    <2>1. QED
      BY <1>3, <1>4 DEF Surjection
  <1>6. QED
    BY <1>5

(* f starts with base and goes on with what step[i] makes of it. *)
Recurs(f, k, base, step) ==
  f[0] = base /\ \A i \in 1..k : f[i] = step[i][f[i - 1]]

LEMMA Recursion ==
  ASSUME NEW n \in Nat, NEW X, NEW base \in X, NEW step, \A i \in 1..n : step[i] \in [X -> X]
  PROVE  \E f \in [0..n -> X] : Recurs(f, n, base, step)
  <1> DEFINE S == {k \in Nat : k <= n => \E f \in [0..k -> X] : Recurs(f, k, base, step)}
  <1>1. 0 \in S
    <2> DEFINE f == [i \in 0..0 |-> base]
    <2>1. f \in [0..0 -> X] /\ f[0] = base
      OBVIOUS
    <2>2. Recurs(f, 0, base, step)
      BY <2>1 DEF Recurs
    <2>3. QED
      BY <2>1, <2>2
  <1>2. ASSUME NEW k \in Nat, k \in S PROVE k + 1 \in S
    <2>1. SUFFICES ASSUME k + 1 <= n PROVE \E f \in [0..k + 1 -> X] : Recurs(f, k + 1, base, step)
      OBVIOUS
    <2>2. PICK f \in [0..k -> X] : Recurs(f, k, base, step)
      BY <1>2, <2>1
    <2> DEFINE g == [i \in 0..k + 1 |-> IF i = k + 1 THEN step[k + 1][f[k]] ELSE f[i]]
    <2>3. g \in [0..k + 1 -> X]
      BY <2>1, <2>2
    <2>4. ASSUME NEW i \in 1..k + 1 PROVE g[i] = step[i][g[i - 1]]
      BY <2>2 DEF Recurs
    <2>5. g[0] = base
      BY <2>2 DEF Recurs
    <2>6. Recurs(g, k + 1, base, step)
      BY <2>4, <2>5 DEF Recurs
    <2>7. QED
      BY <2>3, <2>6
  <1>3. \A k \in Nat : k \in S
    <2> HIDE DEF S
    <2>1. QED
      BY <1>1, <1>2, SetInduction
  <1>4. QED
    BY <1>3

-----------------------------------------------------------------------------
(* Integers. *)

(* The bytes stand behind what is before them, one after the other. *)
ByteByByte(f, high, bytes) ==
  /\ f[0] = high
  /\ \A i \in 1..Len(bytes) : f[i] = f[i - 1] * 256 + bytes[i]
  /\ Behind(high, bytes) = f[Len(bytes)]

LEMMA BehindIs ==
  ASSUME NEW high \in Int, NEW bytes \in Seq(Int)
  PROVE  \E f : ByteByByte(f, high, bytes)
  <1> DEFINE n == Len(bytes)
             step == [i \in 1..n |-> [x \in Int |-> x * 256 + bytes[i]]]
             Is(f) == f = [i \in 0..n |-> IF i = 0 THEN high ELSE f[i - 1] * 256 + bytes[i]]
             upTo == CHOOSE f : Is(f)
  <1>1. n \in Nat /\ \A i \in 1..n : bytes[i] \in Int
    OBVIOUS
  <1>2. \A i \in 1..n : step[i] \in [Int -> Int] /\ \A x \in Int : step[i][x] = x * 256 + bytes[i]
    BY <1>1
  <1>3. PICK f \in [0..n -> Int] : Recurs(f, n, high, step)
    <2> HIDE DEF step, n
    <2>1. QED
      BY <1>1, <1>2, Recursion
  <1>4. Is(f)
    <2>1. ASSUME NEW i \in 1..n PROVE f[i] = f[i - 1] * 256 + bytes[i]
      <3> HIDE DEF step, n
      <3>1. f[i - 1] \in Int /\ f[i] = step[i][f[i - 1]]
        BY <1>1, <1>3 DEF Recurs
      <3>2. QED
        BY <1>2, <3>1
    <2>2. f[0] = high
      BY <1>3 DEF Recurs
    <2> HIDE DEF step, n
    <2>3. f = [i \in 0..n |-> IF i = 0 THEN high ELSE f[i - 1] * 256 + bytes[i]]
      BY <1>1, <1>3, <2>1, <2>2
    <2>4. QED
      BY <2>3
  <1>5. Is(upTo)
    BY <1>4
  <1>6. Behind(high, bytes) = upTo[n]
    BY DEF Behind
  <1>7. QED
    <2> HIDE DEF upTo
    <2>1. upTo = [i \in 0..n |-> IF i = 0 THEN high ELSE upTo[i - 1] * 256 + bytes[i]]
      BY <1>5
    <2>2. upTo[0] = high
      BY <1>1, <2>1
    <2>3. \A i \in 1..n : upTo[i] = upTo[i - 1] * 256 + bytes[i]
      BY <1>1, <2>1
    <2>4. QED
      BY <1>6, <2>2, <2>3 DEF ByteByByte

LEMMA BehindFew ==
  ASSUME NEW high \in Int
  PROVE  /\ Behind(high, <<>>) = high
         /\ \A a \in Int : Behind(high, <<a>>) = high * 256 + a
         /\ \A a, b \in Int : Behind(high, <<a, b>>) = (high * 256 + a) * 256 + b
         /\ \A a, b, c \in Int :
              Behind(high, <<a, b, c>>) = ((high * 256 + a) * 256 + b) * 256 + c
  <1>1. Behind(high, <<>>) = high
    <2> DEFINE bytes == <<>>
    <2>1. bytes \in Seq(Int) /\ Len(bytes) = 0
      OBVIOUS
    <2> HIDE DEF bytes
    <2>2. PICK f : ByteByByte(f, high, bytes)
      BY <2>1, BehindIs
    <2>3. QED
      BY <2>1, <2>2 DEF bytes, ByteByByte
  <1>2. ASSUME NEW a \in Int PROVE Behind(high, <<a>>) = high * 256 + a
    <2> DEFINE bytes == <<a>>
    <2>1. bytes \in Seq(Int) /\ Len(bytes) = 1 /\ bytes[1] = a
      OBVIOUS
    <2> HIDE DEF bytes
    <2>2. PICK f : ByteByByte(f, high, bytes)
      BY <2>1, BehindIs
    <2>3. f[1] = f[1 - 1] * 256 + bytes[1]
      BY <2>1, <2>2 DEF ByteByByte
    <2>4. QED
      BY <2>1, <2>2, <2>3 DEF bytes, ByteByByte
  <1>3. ASSUME NEW a \in Int, NEW b \in Int PROVE Behind(high, <<a, b>>) = (high * 256 + a) * 256 + b
    <2> DEFINE bytes == <<a, b>>
    <2>1. bytes \in Seq(Int) /\ Len(bytes) = 2 /\ bytes[1] = a /\ bytes[2] = b
      OBVIOUS
    <2> HIDE DEF bytes
    <2>2. PICK f : ByteByByte(f, high, bytes)
      BY <2>1, BehindIs
    <2>3. f[1] = f[1 - 1] * 256 + bytes[1] /\ f[2] = f[2 - 1] * 256 + bytes[2]
      BY <2>1, <2>2 DEF ByteByByte
    <2>4. QED
      BY <2>1, <2>2, <2>3 DEF bytes, ByteByByte
  <1>4. ASSUME NEW a \in Int, NEW b \in Int, NEW c \in Int
        PROVE  Behind(high, <<a, b, c>>) = ((high * 256 + a) * 256 + b) * 256 + c
    <2> DEFINE bytes == <<a, b, c>>
    <2>1. bytes \in Seq(Int) /\ Len(bytes) = 3 /\ bytes[1] = a /\ bytes[2] = b /\ bytes[3] = c
      OBVIOUS
    <2> HIDE DEF bytes
    <2>2. PICK f : ByteByByte(f, high, bytes)
      BY <2>1, BehindIs
    <2>3. /\ f[1] = f[1 - 1] * 256 + bytes[1] /\ f[2] = f[2 - 1] * 256 + bytes[2]
          /\ f[3] = f[3 - 1] * 256 + bytes[3]
      BY <2>1, <2>2 DEF ByteByByte
    <2>4. QED
      BY <2>1, <2>2, <2>3 DEF bytes, ByteByByte
  <1>5. QED
    BY <1>1, <1>2, <1>3, <1>4

LEMMA BytesAre ==
  ASSUME NEW v \in Int
  PROVE  /\ Bytes(v, 0) = <<>>
         /\ Bytes(v, 1) = <<v % 256>>
         /\ Bytes(v, 2) = <<(v \div 256) % 256, v % 256>>
         /\ Bytes(v, 4) = <<(v \div 16777216) % 256, (v \div 65536) % 256, (v \div 256) % 256, v % 256>>
  <1>1. v \div 1 = v
    BY SMT
  <1>2. Bytes(v, 0) = <<>>
    BY SMT DEF Bytes
  <1>3. Bytes(v, 1) = <<v % 256>>
    BY <1>1, SMT DEF Bytes, Weight
  <1>4. Bytes(v, 2) = <<(v \div 256) % 256, v % 256>>
    BY <1>1, SMT DEF Bytes, Weight
  <1>5. Bytes(v, 4) = <<(v \div 16777216) % 256, (v \div 65536) % 256, (v \div 256) % 256, v % 256>>
    BY <1>1, SMT DEF Bytes, Weight
  <1>6. QED
    BY <1>2, <1>3, <1>4, <1>5, SMT

(* The bytes of a number make the number again. *)
LEMMA Digits ==
  ASSUME NEW v \in Int
  PROVE  /\ (v \div 256) * 256 + (v % 256) = v
         /\ ((v \div 65536) * 256 + ((v \div 256) % 256)) * 256 + (v % 256) = v
         /\ (((v \div 16777216) * 256 + ((v \div 65536) % 256)) * 256 + ((v \div 256) % 256)) * 256 + (v % 256) = v
         /\ v % 256 \in 0..255 /\ (v \div 256) % 256 \in 0..255
         /\ (v \div 65536) % 256 \in 0..255 /\ (v \div 16777216) % 256 \in 0..255
  BY SMT

(* What a signed integer of four bytes can be. *)
OfFourBytes(v) == -2147483647 - 1 <= v /\ v <= 2147483647

LEMMA HighByte ==
  ASSUME NEW v \in Int, OfFourBytes(v)
  PROVE  Signed((v \div 16777216) % 256) = v \div 16777216
  BY SMT DEF Signed, OfFourBytes

(* A tag belongs to one form. *)
LEMMA SameForms == TextForms = Forms
  BY SMT DEF TextForms, Forms

LEMMA FormIs ==
  ASSUME NEW kind \in {"int", "long"}, NEW n \in 1..3, NEW tag \in Forms[kind][n].tags
  PROVE  /\ (CHOOSE f \in FormsOf(Forms) : tag \in f.tags) = Forms[kind][n]
         /\ tag \in Int /\ tag \notin {73, 119}
  <1> DEFINE at(k, m) == Forms[k][m].tags
  <1>1. /\ at("int", 1) = 128..191 /\ at("int", 2) = 192..207 /\ at("int", 3) = 208..215
        /\ at("long", 1) = 216..239 /\ at("long", 2) = 240..255 /\ at("long", 3) = 56..63
    BY SMT DEF Forms
  <1>2. n = 1 \/ n = 2 \/ n = 3
    BY SMT
  <1>3. tag \in Int /\ tag \notin {73, 119}
    BY <1>1, <1>2, SMT
  <1>4. ASSUME NEW k \in {"int", "long"}, NEW m \in 1..3, tag \in at(k, m) PROVE k = kind /\ m = n
    <2>1. m = 1 \/ m = 2 \/ m = 3
      BY SMT
    <2> HIDE DEF at
    <2>2. tag \in at(kind, n)
      BY SMT DEF at
    <2>3. CASE kind = "int"
      BY <1>1, <1>2, <1>4, <2>1, <2>2, <2>3, SMT
    <2>4. CASE kind = "long"
      BY <1>1, <1>2, <1>4, <2>1, <2>2, <2>4, SMT
    <2>5. QED
      BY <2>3, <2>4, SMT
  <1>5. \A f \in FormsOf(Forms) : tag \in f.tags <=> f = Forms[kind][n]
    BY <1>4, SMT DEF FormsOf
  <1>6. Forms[kind][n] \in FormsOf(Forms)
    BY SMT DEF FormsOf
  <1>7. QED
    BY <1>3, <1>5, <1>6, SMT

LEMMA IntOfShort ==
  ASSUME NEW kind \in {"int", "long"}, NEW n \in 1..3, NEW tag \in Forms[kind][n].tags, NEW rest \in Seq(Int)
  PROVE  IntOf(Forms, <<tag>> \o rest) = Behind(tag - Forms[kind][n].zero, rest)
  <1> DEFINE bytes == <<tag>> \o rest
  <1>1. tag \in Int /\ tag \notin {73, 119}
        /\ (CHOOSE f \in FormsOf(Forms) : tag \in f.tags) = Forms[kind][n]
    BY FormIs
  <1>2. Head(bytes) = tag /\ Tail(bytes) = rest
    BY <1>1
  <1> HIDE DEF bytes
  <1>3. IntOf(Forms, bytes) = Behind(tag - (CHOOSE f \in FormsOf(Forms) : tag \in f.tags).zero, rest)
    <2>1. tag \notin {Wide.int, Wide.long}
      BY <1>1, SMT DEF Wide
    <2>2. IntOf(Forms, bytes) = IF Head(bytes) \in {Wide.int, Wide.long}
                                THEN Behind(Signed(bytes[2]), SubSeq(bytes, 3, 5))
                                ELSE Behind(Head(bytes) - (CHOOSE f \in FormsOf(Forms) : Head(bytes) \in f.tags).zero,
                                            Tail(bytes))
      BY Zenon DEF IntOf
    <2>3. QED
      BY <1>2, <2>1, <2>2
  <1>4. QED
    BY <1>1, <1>3 DEF bytes

LEMMA IntOfWide ==
  ASSUME NEW wide \in {73, 119}, NEW a \in Int, NEW b \in Int, NEW c \in Int, NEW d \in Int
  PROVE  IntOf(Forms, <<wide, a, b, c, d>>) = Behind(Signed(a), <<b, c, d>>)
  <1> DEFINE bytes == <<wide, a, b, c, d>>
  <1>1. Head(bytes) = wide /\ bytes[2] = a
    OBVIOUS
  <1>2. SubSeq(bytes, 3, 5) = <<b, c, d>>
    <2>1. bytes \in Seq(Int) /\ Len(bytes) = 5 /\ bytes[3] = b /\ bytes[4] = c /\ bytes[5] = d
      OBVIOUS
    <2> HIDE DEF bytes
    <2>2. \A i \in 3..5 : bytes[i] \in Int
      BY <2>1, SMT
    <2>3. /\ SubSeq(bytes, 3, 5) \in Seq(Int) /\ Len(SubSeq(bytes, 3, 5)) = 5 - 3 + 1
          /\ \A i \in 1..5 - 3 + 1 : SubSeq(bytes, 3, 5)[i] = bytes[3 + i - 1]
      <3>1. 3 \in Int /\ 5 \in Int /\ 3 <= 5
        BY SMT
      <3>2. QED
        BY <2>2, <3>1, SubSeqProperties, SMT
    <2> DEFINE part == SubSeq(bytes, 3, 5)
    <2>4. part \in Seq(Int) /\ Len(part) = 3 /\ part[1] = b /\ part[2] = c /\ part[3] = d
      BY <2>1, <2>3, SMT
    <2> HIDE DEF part
    <2>5. part = <<b, c, d>>
      BY <2>4, SMT
    <2>6. QED
      BY <2>5 DEF part
  <1> HIDE DEF bytes
  <1>3. IntOf(Forms, bytes) = Behind(Signed(a), <<b, c, d>>)
    <2>1. wide \in {Wide.int, Wide.long}
      BY SMT DEF Wide
    <2>2. IntOf(Forms, bytes) = IF Head(bytes) \in {Wide.int, Wide.long}
                                THEN Behind(Signed(bytes[2]), SubSeq(bytes, 3, 5))
                                ELSE Behind(Head(bytes) - (CHOOSE f \in FormsOf(Forms) : Head(bytes) \in f.tags).zero,
                                            Tail(bytes))
      BY Zenon DEF IntOf
    <2>3. QED
      BY <1>1, <1>2, <2>1, <2>2
  <1>4. QED
    BY <1>3 DEF bytes

(* An integer is read as it was sent, whatever it is. *)
LEMMA ShortExact ==
  ASSUME NEW kind \in {"int", "long"}, NEW n \in 1..3, NEW v \in Int,
         NEW tag \in Forms[kind][n].tags, tag = Forms[kind][n].zero + v \div Weight[n]
  PROVE  IntOf(Forms, <<tag>> \o Bytes(v, n - 1)) = v
  <1>1. n = 1 \/ n = 2 \/ n = 3
    OBVIOUS
  <1>2. Forms[kind][n].zero \in Int
    <2>1. kind = "int" \/ kind = "long"
      OBVIOUS
    <2>2. QED
      BY <1>1, <2>1, SMT DEF Forms
  <1>3. v \div Weight[n] \in Int
    BY <1>1, SMT DEF Weight
  <1>4. tag - Forms[kind][n].zero = v \div Weight[n]
    <2>1. ASSUME NEW z \in Int, NEW w \in Int, tag = z + w PROVE tag - z = w
      BY <2>1
    <2>2. QED
      BY <1>2, <1>3, <2>1
  <1>5. Bytes(v, n - 1) \in Seq(Int)
    BY SMT DEF Bytes, Weight
  <1>6. IntOf(Forms, <<tag>> \o Bytes(v, n - 1)) = Behind(v \div Weight[n], Bytes(v, n - 1))
    BY <1>4, <1>5, IntOfShort
  <1>7. Behind(v \div Weight[n], Bytes(v, n - 1)) = v
    <2>1. CASE n = 1
      BY <2>1, BytesAre, BehindFew, SMT DEF Weight
    <2>2. CASE n = 2
      <3>1. v \div 256 \in Int /\ v % 256 \in Int /\ n - 1 = 1
        BY <2>2, SMT
      <3>2. Behind(v \div 256, <<v % 256>>) = (v \div 256) * 256 + (v % 256)
        BY <3>1, BehindFew
      <3>3. (v \div 256) * 256 + (v % 256) = v
        BY Digits, SMT
      <3>4. Bytes(v, n - 1) = <<v % 256>>
        BY <3>1, BytesAre, SMT
      <3>5. v \div Weight[n] = v \div 256
        BY <2>2, SMT DEF Weight
      <3>6. QED
        BY <3>2, <3>3, <3>4, <3>5
    <2>3. CASE n = 3
      <3>1. v \div 65536 \in Int /\ (v \div 256) % 256 \in Int /\ v % 256 \in Int /\ n - 1 = 2
        BY <2>3, SMT
      <3>2. PICK w \in Int : w = v \div 65536
        BY <3>1, SMT
      <3>3. Behind(w, <<(v \div 256) % 256, v % 256>>) = (w * 256 + ((v \div 256) % 256)) * 256 + (v % 256)
        BY <3>1, BehindFew
      <3>4. (w * 256 + ((v \div 256) % 256)) * 256 + (v % 256) = v
        BY <3>2, Digits, SMT
      <3>5. Bytes(v, n - 1) = <<(v \div 256) % 256, v % 256>>
        BY <3>1, BytesAre, SMT
      <3>6. v \div Weight[n] = w
        BY <2>3, <3>2, SMT DEF Weight
      <3>7. QED
        BY <3>3, <3>4, <3>5, <3>6
    <2>4. QED
      BY <1>1, <2>1, <2>2, <2>3
  <1>8. QED
    BY <1>6, <1>7

LEMMA OneAndFour ==
  ASSUME NEW w \in Int, NEW p \in Int, NEW q \in Int, NEW r \in Int, NEW t \in Int
  PROVE  <<w>> \o <<p, q, r, t>> = <<w, p, q, r, t>>
  <1> DEFINE left == <<w>>
             right == <<p, q, r, t>>
             both == left \o right
  <1>1. left \in Seq(Int) /\ right \in Seq(Int) /\ Len(left) = 1 /\ Len(right) = 4
    BY SMT
  <1>2. left[1] = w /\ right[1] = p /\ right[2] = q /\ right[3] = r /\ right[4] = t
    BY SMT
  <1> HIDE DEF left, right
  <1>3. /\ both \in Seq(Int) /\ Len(both) = 5
        /\ both[1] = w /\ both[2] = p /\ both[3] = q /\ both[4] = r /\ both[5] = t
    <2>1. /\ both \in Seq(Int) /\ Len(both) = Len(left) + Len(right)
          /\ \A i \in 1..Len(left) + Len(right) : both[i] = IF i <= Len(left) THEN left[i] ELSE right[i - Len(left)]
      BY <1>1, ConcatProperties
    <2> HIDE DEF both
    <2>2. QED
      BY <1>1, <1>2, <2>1, SMT
  <1> HIDE DEF both
  <1>4. both = <<w, p, q, r, t>>
    BY <1>3, SMT
  <1>5. QED
    BY <1>4, Zenon DEF both, left, right

WideReads(wide, a, b, c, d, high) ==
  IntOf(Forms, <<wide>> \o <<a, b, c, d>>) = ((high * 256 + b) * 256 + c) * 256 + d

LEMMA WideOf ==
  ASSUME NEW wide \in {73, 119}, NEW a \in Int, NEW b \in Int, NEW c \in Int, NEW d \in Int,
         NEW high \in Int, Signed(a) = high
  PROVE  WideReads(wide, a, b, c, d, high)
  <1>1. <<wide>> \o <<a, b, c, d>> = <<wide, a, b, c, d>>
    <2>1. wide \in Int
      OBVIOUS
    <2>2. QED
      BY <2>1, OneAndFour
  <1>2. IntOf(Forms, <<wide, a, b, c, d>>) = Behind(high, <<b, c, d>>)
    BY IntOfWide
  <1>3. Behind(high, <<b, c, d>>) = ((high * 256 + b) * 256 + c) * 256 + d
    BY BehindFew
  <1>4. QED
    BY <1>1, <1>2, <1>3 DEF WideReads

LEMMA WideExact ==
  ASSUME NEW wide \in {73, 119}, NEW v \in Int, OfFourBytes(v)
  PROVE  IntOf(Forms, <<wide>> \o Bytes(v, 4)) = v
  <1> DEFINE a == (v \div 16777216) % 256
             b == (v \div 65536) % 256
             c == (v \div 256) % 256
             d == v % 256
             high == v \div 16777216
             bytes == Bytes(v, 4)
  <1>1. a \in Int /\ b \in Int /\ c \in Int /\ d \in Int /\ high \in Int
    BY SMT
  <1>2. bytes = <<a, b, c, d>>
    BY BytesAre, SMT
  <1>3. Signed(a) = high
    BY HighByte, SMT
  <1>4. ((high * 256 + b) * 256 + c) * 256 + d = v
    BY Digits, SMT
  <1> HIDE DEF a, b, c, d, high, bytes
  <1>5. WideReads(wide, a, b, c, d, high)
    BY <1>1, <1>3, WideOf
  <1>6. QED
    BY <1>2, <1>4, <1>5 DEF bytes, WideReads

LEMMA EveryIntegerIsExact == IntegersAreExact
  <1> SUFFICES ASSUME NEW v \in Ints, NEW kind \in {"int", "long"}
               PROVE  IntOf(Forms, Encoded(kind, v)) = v
    BY SameForms, SMT DEF IntegersAreExact
  <1>1. v \in Int /\ OfFourBytes(v)
    BY IntsAssumption, SMT DEF OfFourBytes
  <1> DEFINE least == [int |-> <<-16, -2048, -262144>>, long |-> <<-8, -2048, -262144>>]
             most == [int |-> <<47, 2047, 262143>>, long |-> <<15, 2047, 262143>>]
             zero == [int |-> <<144, 200, 212>>, long |-> <<224, 248, 60>>]
             wide == [int |-> 73, long |-> 119]
             fits == {n \in 1..3 : least[kind][n] <= v /\ v <= most[kind][n]}
             m == CHOOSE n \in fits : \A o \in fits : n <= o
  <1>2. Encoded(kind, v) = IF fits = {} THEN <<wide[kind]>> \o Bytes(v, 4)
                           ELSE <<zero[kind][m] + v \div Weight[m]>> \o Bytes(v, m - 1)
    BY SMT DEF Encoded
  <1>3. CASE fits = {}
    <2>1. wide[kind] \in {73, 119}
      BY SMT
    <2> HIDE DEF fits, wide
    <2>2. QED
      BY <1>1, <1>2, <1>3, <2>1, WideExact, SMT
  <1>4. CASE fits # {}
    <2>1. m \in fits
      <3>1. fits \subseteq 1..3
        BY SMT
      <3> HIDE DEF fits
      <3>3. \E n \in fits : \A o \in fits : n <= o
        <4>1. CASE 1 \in fits
          BY <3>1, <4>1, SMT
        <4>2. CASE 1 \notin fits /\ 2 \in fits
          <5>1. \A o \in fits : 2 <= o
            BY <3>1, <4>2, SMT
          <5>2. QED
            BY <4>2, <5>1, SMT
        <4>3. CASE 1 \notin fits /\ 2 \notin fits
          <5>1. \A o \in fits : o = 3
            BY <3>1, <4>3, SMT
          <5>2. 3 \in fits
            BY <1>4, <5>1, SMT
          <5>3. QED
            BY <5>1, <5>2, SMT
        <4>4. QED
          BY <4>1, <4>2, <4>3, SMT
      <3>2. QED
        BY <3>3
    <2> HIDE DEF m
    <2>2. Forms[kind][m].zero + v \div Weight[m] \in Forms[kind][m].tags
      <3>1. m = 1 \/ m = 2 \/ m = 3
        BY <2>1, SMT
      <3>2. CASE kind = "int"
        BY <1>1, <2>1, <3>1, <3>2, SMT DEF Forms, Weight
      <3>3. CASE kind = "long"
        BY <1>1, <2>1, <3>1, <3>3, SMT DEF Forms, Weight
      <3>4. QED
        BY <3>2, <3>3, SMT
    <2>5. zero[kind][m] = Forms[kind][m].zero
      <3>1. m = 1 \/ m = 2 \/ m = 3
        BY <2>1, SMT
      <3>2. QED
        BY <3>1, SMT DEF Forms
    <2>3. m \in 1..3 /\ v \in Int
      BY <1>1, <2>1, SMT
    <2> HIDE DEF fits, zero
    <2>6. IntOf(Forms, <<zero[kind][m] + v \div Weight[m]>> \o Bytes(v, m - 1)) = v
      BY <2>2, <2>3, <2>5, ShortExact
    <2>4. QED
      BY <1>2, <1>4, <2>6
  <1>5. QED
    BY <1>3, <1>4, SMT

-----------------------------------------------------------------------------
(* Strings. *)
Positive == Nat \ {0}

Associate(x, y, z) == (x \o y) \o z = x \o (y \o z)

LEMMA Associates ==
  ASSUME NEW x \in Seq(Positive), NEW y \in Seq(Positive), NEW z \in Seq(Positive)
  PROVE  Associate(x, y, z)
  BY SMT DEF Associate

(* The parts, one behind the other. *)
PartByPart(f, parts, S) ==
  /\ f[0] = <<>>
  /\ \A i \in 0..Len(parts) : f[i] \in Seq(S)
  /\ \A i \in 1..Len(parts) : f[i] = f[i - 1] \o parts[i]
  /\ FlattenSeq(parts) = f[Len(parts)]

LEMMA FlattenIs ==
  ASSUME NEW S, NEW parts \in Seq(Seq(S))
  PROVE  \E f : PartByPart(f, parts, S)
  <1> DEFINE n == Len(parts)
             X == Seq(S)
             step == [i \in 1..n |-> [x \in X |-> x \o parts[i]]]
             Is(f) == f = [i \in 1..n |-> IF i = 1 THEN parts[i] ELSE f[i - 1] \o parts[i]]
             flatten == CHOOSE f : Is(f)
  <1>1. n \in Nat /\ <<>> \in X /\ \A i \in 1..n : parts[i] \in X
    OBVIOUS
  <1>2. \A i \in 1..n : step[i] \in [X -> X] /\ \A x \in X : step[i][x] = x \o parts[i]
    BY <1>1
  <1>3. PICK f \in [0..n -> X] : Recurs(f, n, <<>>, step)
    <2> HIDE DEF step, n, X
    <2>1. QED
      BY <1>1, <1>2, Recursion
  <1>4. /\ f[0] = <<>> /\ \A i \in 0..n : f[i] \in X
        /\ \A i \in 1..n : f[i] = f[i - 1] \o parts[i]
    <2>1. ASSUME NEW i \in 1..n PROVE f[i] = f[i - 1] \o parts[i]
      <3> HIDE DEF step, n, X
      <3>1. f[i - 1] \in X /\ f[i] = step[i][f[i - 1]]
        BY <1>1, <1>3 DEF Recurs
      <3>2. QED
        BY <1>2, <3>1
    <2> HIDE DEF step, n, X
    <2>2. QED
      BY <1>1, <1>3, <2>1 DEF Recurs
  <1>5. CASE n = 0
    <2>1. parts = <<>>
      BY <1>5
    <2>2. FlattenSeq(parts) = <<>>
      BY <1>5, <2>1 DEF FlattenSeq
    <2>3. QED
      BY <1>4, <1>5, <2>2 DEF PartByPart
  <1>7. ASSUME n # 0 PROVE f[1] = parts[1]
    <2>1. 1 \in 1..n /\ 1 - 1 = 0
      BY <1>1, <1>7
    <2>2. f[1] = <<>> \o parts[1] /\ parts[1] \in Seq(S)
      BY <1>1, <1>4, <2>1
    <2>3. QED
      BY <2>2, ConcatEmptySeq
  <1>6. CASE n # 0
    <2> DEFINE g == [i \in 1..n |-> f[i]]
    <2>1. Is(g)
      <3>1. ASSUME NEW i \in 1..n PROVE g[i] = IF i = 1 THEN parts[i] ELSE g[i - 1] \o parts[i]
        <4> HIDE DEF n
        <4>1. CASE i = 1
          BY <1>6, <1>7, <4>1
        <4>2. CASE i # 1
          <5>1. i - 1 \in 1..n
            BY <1>1, <4>2
          <5>2. g[i] = f[i] /\ g[i - 1] = f[i - 1]
            BY <5>1
          <5>3. QED
            BY <1>4, <4>2, <5>2
        <4>3. QED
          BY <4>1, <4>2
      <3> HIDE DEF n, X
      <3>3. QED
        BY <3>1, Zenon
    <2>2. Is(flatten)
      BY <2>1
    <2>3. FlattenSeq(parts) = flatten[n]
      BY <1>6 DEF FlattenSeq
    <2> DEFINE h == [i \in 0..n |-> IF i = 0 THEN <<>> ELSE flatten[i]]
               Agree == {k \in Nat : k \in 1..n => flatten[k] = f[k]}
    <2>4. \A i \in 1..n : flatten[i] = IF i = 1 THEN parts[i] ELSE flatten[i - 1] \o parts[i]
      <3> HIDE DEF flatten, n
      <3>1. QED
        BY <2>2, Zenon
    <2>5. \A k \in Nat : k \in Agree
      <3> HIDE DEF flatten, n, X
      <3>1. f[1] = parts[1]
        BY <1>6, <1>7
      <3>2. 0 \in Agree
        BY <1>1
      <3>3. ASSUME NEW k \in Nat, k \in Agree PROVE k + 1 \in Agree
        <4>1. CASE k = 0
          BY <1>1, <2>4, <3>1, <4>1
        <4>2. CASE k # 0 /\ k + 1 \in 1..n
          <5>1. k \in 1..n /\ k + 1 # 1 /\ (k + 1) - 1 = k
            BY <1>1, <4>2
          <5>2. flatten[k] = f[k]
            BY <3>3, <5>1
          <5>3. flatten[k + 1] = flatten[k] \o parts[k + 1]
            BY <2>4, <4>2, <5>1
          <5>4. f[k + 1] = f[k] \o parts[k + 1]
            BY <1>4, <4>2, <5>1
          <5>5. flatten[k + 1] = f[k + 1]
            BY <5>2, <5>3, <5>4, Zenon
          <5>6. QED
            BY <5>5
        <4>3. CASE k + 1 \notin 1..n
          BY <4>3
        <4>4. QED
          BY <4>1, <4>2, <4>3
      <3> HIDE DEF Agree
      <3>4. QED
        BY <3>2, <3>3, SetInduction
    <2>6. flatten[n] = f[n]
      <3> HIDE DEF flatten
      <3>1. n \in 1..n /\ n \in Nat
        BY <1>1, <1>6
      <3> HIDE DEF n
      <3>2. QED
        BY <2>5, <3>1
    <2>7. QED
      BY <1>4, <2>3, <2>6 DEF PartByPart
  <1>8. QED
    BY <1>5, <1>6

(* The bytes of one character. *)
CharacterBytes(c) == <<c>> \o [j \in 1..c - 1 |-> 1]

LEMMA CharacterBytesAre ==
  ASSUME NEW c \in Positive
  PROVE  /\ CharacterBytes(c) \in Seq(Positive)
         /\ Len(CharacterBytes(c)) = c
         /\ CharacterBytes(c)[1] = c
  <1> DEFINE first == <<c>>
             others == [j \in 1..c - 1 |-> 1]
  <1>1. first \in Seq(Positive) /\ Len(first) = 1 /\ first[1] = c
    BY DEF Positive
  <1>2. others \in Seq(Positive) /\ Len(others) = c - 1
    BY DEF Positive
  <1> HIDE DEF first, others
  <1>3. /\ first \o others \in Seq(Positive) /\ Len(first \o others) = 1 + (c - 1)
        /\ (first \o others)[1] = first[1]
    <2>1. Len(first) \in Nat /\ Len(others) \in Nat
      BY <1>1, <1>2
    <2>2. QED
      BY <1>1, <1>2, <2>1, ConcatProperties
  <1>4. QED
    BY <1>1, <1>3 DEF CharacterBytes, first, others, Positive

LEMMA SizesAre ==
  /\ Sizes(<<>>) = <<>>
  /\ \A string \in Seq(Positive) : Sizes(string) \in Seq(Positive)
  /\ \A string \in Seq(Positive), c \in Positive :
       Sizes(Append(string, c)) = Sizes(string) \o CharacterBytes(c)
  <1> DEFINE parts(string) == [i \in DOMAIN string |-> CharacterBytes(string[i])]
  <1>1. \A string : Sizes(string) = FlattenSeq(parts(string))
    BY Zenon DEF Sizes, CharacterBytes
  <1>2. ASSUME NEW string \in Seq(Positive)
        PROVE  /\ parts(string) \in Seq(Seq(Positive)) /\ Len(parts(string)) = Len(string)
               /\ \A i \in 1..Len(string) : parts(string)[i] = CharacterBytes(string[i])
    <2>1. \A i \in 1..Len(string) : CharacterBytes(string[i]) \in Seq(Positive)
      BY CharacterBytesAre
    <2>2. QED
      BY <2>1
  <1> HIDE DEF parts
  <1>3. Sizes(<<>>) = <<>>
    <2>1. <<>> \in Seq(Positive) /\ Len(<<>>) = 0
      OBVIOUS
    <2>2. Len(parts(<<>>)) = 0 /\ parts(<<>>) \in Seq(Seq(Positive))
      BY <1>2, <2>1
    <2>3. PICK f : PartByPart(f, parts(<<>>), Positive)
      BY <2>2, FlattenIs
    <2>4. QED
      BY <1>1, <2>2, <2>3 DEF PartByPart
  <1>4. ASSUME NEW string \in Seq(Positive) PROVE Sizes(string) \in Seq(Positive)
    <2>1. PICK f : PartByPart(f, parts(string), Positive)
      BY <1>2, FlattenIs
    <2>2. Len(parts(string)) \in 0..Len(parts(string))
      BY <1>2
    <2>3. QED
      BY <1>1, <2>1, <2>2 DEF PartByPart
  <1>5. ASSUME NEW string \in Seq(Positive), NEW c \in Positive
        PROVE  Sizes(Append(string, c)) = Sizes(string) \o CharacterBytes(c)
    <2> DEFINE longer == Append(string, c)
               n == Len(string)
    <2>1. longer \in Seq(Positive) /\ Len(longer) = n + 1 /\ n \in Nat
          /\ longer[n + 1] = c /\ \A i \in 1..n : longer[i] = string[i]
      BY AppendProperties
    <2> HIDE DEF longer
    <2>2. PICK f : PartByPart(f, parts(string), Positive)
      BY <1>2, FlattenIs
    <2>3. PICK g : PartByPart(g, parts(longer), Positive)
      BY <1>2, <2>1, FlattenIs
    <2>4. /\ f[0] = <<>> /\ Sizes(string) = f[n]
          /\ \A i \in 1..n : f[i] = f[i - 1] \o CharacterBytes(string[i])
      BY <1>1, <1>2, <2>2 DEF PartByPart
    <2>5. /\ g[0] = <<>> /\ Sizes(longer) = g[n + 1]
          /\ \A i \in 1..n + 1 : g[i] = g[i - 1] \o CharacterBytes(longer[i])
      BY <1>1, <1>2, <2>1, <2>3 DEF PartByPart
    <2> HIDE DEF n
    <2> DEFINE Agree == {k \in Nat : k <= n => f[k] = g[k]}
    <2>6. \A k \in Nat : k \in Agree
      <3>1. 0 \in Agree
        BY <2>4, <2>5
      <3>2. ASSUME NEW k \in Nat, k \in Agree PROVE k + 1 \in Agree
        <4>1. SUFFICES ASSUME k + 1 <= n PROVE f[k + 1] = g[k + 1]
          OBVIOUS
        <4>2. k + 1 \in 1..n /\ k + 1 \in 1..n + 1 /\ (k + 1) - 1 = k /\ f[k] = g[k]
          BY <2>1, <3>2, <4>1
        <4>3. QED
          BY <2>1, <2>4, <2>5, <4>2
      <3> HIDE DEF Agree
      <3>3. QED
        BY <3>1, <3>2, SetInduction
    <2>7. f[n] = g[n]
      BY <2>1, <2>6
    <2>8. n + 1 \in 1..n + 1 /\ (n + 1) - 1 = n
      BY <2>1
    <2>9. QED
      BY <2>1, <2>4, <2>5, <2>7, <2>8 DEF longer
  <1>6. QED
    BY <1>3, <1>4, <1>5

(* The bytes of a string are those of its parts. *)
LEMMA SizesOfConcat ==
  ASSUME NEW s \in Seq(Positive), NEW t \in Seq(Positive)
  PROVE  Sizes(s \o t) = Sizes(s) \o Sizes(t)
  <1> DEFINE Holding == {k \in Nat : \A u \in Seq(Positive) : Len(u) = k => Sizes(s \o u) = Sizes(s) \o Sizes(u)}
  <1>1. 0 \in Holding
    <2>1. SUFFICES ASSUME NEW u \in Seq(Positive), Len(u) = 0 PROVE Sizes(s \o u) = Sizes(s) \o Sizes(u)
      OBVIOUS
    <2>2. u = <<>> /\ s \o <<>> = s
      BY <2>1, ConcatEmptySeq
    <2>3. Sizes(s) \o <<>> = Sizes(s)
      BY SizesAre, ConcatEmptySeq
    <2>4. QED
      BY <2>2, <2>3, SizesAre
  <1>2. ASSUME NEW k \in Nat, k \in Holding PROVE k + 1 \in Holding
    <2>1. SUFFICES ASSUME NEW u \in Seq(Positive), Len(u) = k + 1 PROVE Sizes(s \o u) = Sizes(s) \o Sizes(u)
      OBVIOUS
    <2>2. u # <<>>
      BY <2>1
    <2>3. PICK v \in Seq(Positive), c \in Positive : u = Append(v, c)
      BY <2>2, SequenceEmptyOrAppend
    <2>4. Len(v) = k
      BY <2>1, <2>3
    <2>5. Sizes(s \o v) = Sizes(s) \o Sizes(v)
      BY <1>2, <2>4
    <2>6. s \o u = Append(s \o v, c) /\ s \o v \in Seq(Positive)
      BY <2>3
    <2>7. Sizes(s \o u) = Sizes(s \o v) \o CharacterBytes(c)
      BY <2>6, SizesAre
    <2>8. Sizes(u) = Sizes(v) \o CharacterBytes(c)
      BY <2>3, SizesAre
    <2>9. (Sizes(s) \o Sizes(v)) \o CharacterBytes(c) = Sizes(s) \o (Sizes(v) \o CharacterBytes(c))
      <3>1. Sizes(s) \in Seq(Positive) /\ Sizes(v) \in Seq(Positive) /\ CharacterBytes(c) \in Seq(Positive)
        BY SizesAre, CharacterBytesAre
      <3>2. Associate(Sizes(s), Sizes(v), CharacterBytes(c))
        BY <3>1, Associates, Zenon
      <3>3. QED
        BY <3>2, Zenon DEF Associate
    <2>10. QED
      BY <2>5, <2>7, <2>8, <2>9
  <1>3. \A k \in Nat : k \in Holding
    <2> HIDE DEF Holding
    <2>1. QED
      BY <1>1, <1>2, SetInduction
  <1>4. Len(t) \in Nat
    OBVIOUS
  <1>5. QED
    BY <1>3, <1>4

(* Where reading so many characters has got to. *)
ReadsUpTo(f, sizes, count) ==
  /\ f[0] = 0
  /\ \A n \in 0..count : f[n] \in Nat
  /\ \A n \in 1..count :
       f[n] = IF f[n - 1] >= Len(sizes) THEN Len(sizes) + 1 ELSE f[n - 1] + sizes[f[n - 1] + 1]
  /\ BytesOf(sizes, count) = IF f[count] > Len(sizes) THEN Failure ELSE SubSeq(sizes, 1, f[count])

LEMMA BytesOfIs ==
  ASSUME NEW sizes \in Seq(Positive), NEW count \in Nat
  PROVE  \E f : ReadsUpTo(f, sizes, count)
  <1> DEFINE next(x) == IF x >= Len(sizes) THEN Len(sizes) + 1 ELSE x + sizes[x + 1]
             step == [i \in 1..count |-> [x \in Nat |-> next(x)]]
             Is(f) == f = [n \in 0..count |-> IF n = 0 THEN 0 ELSE next(f[n - 1])]
             to == CHOOSE f : Is(f)
  <1>1. \A x \in Nat : next(x) \in Nat
    BY DEF Positive
  <1>2. \A i \in 1..count : step[i] \in [Nat -> Nat] /\ \A x \in Nat : step[i][x] = next(x)
    <2> HIDE DEF next
    <2>1. QED
      BY <1>1
  <1>3. PICK f \in [0..count -> Nat] : Recurs(f, count, 0, step)
    <2> HIDE DEF step
    <2>1. QED
      BY <1>2, Recursion
  <1>4. Is(f)
    <2> HIDE DEF step, next
    <2>1. ASSUME NEW i \in 1..count PROVE f[i] = next(f[i - 1])
      <3>1. f[i - 1] \in Nat /\ f[i] = step[i][f[i - 1]]
        <4>1. i - 1 \in 0..count
          OBVIOUS
        <4>2. QED
          BY <1>3, <4>1 DEF Recurs
      <3>2. QED
        BY <1>2, <3>1
    <2>2. f[0] = 0
      BY <1>3 DEF Recurs
    <2>3. ASSUME NEW n \in 0..count PROVE f[n] = IF n = 0 THEN 0 ELSE next(f[n - 1])
      BY <2>1, <2>2
    <2>4. f = [n \in 0..count |-> IF n = 0 THEN 0 ELSE next(f[n - 1])]
      BY <1>3, <2>3
    <2>5. QED
      BY <2>4
  <1>5. Is(to)
    BY <1>4
  <1>6. BytesOf(sizes, count) = IF to[count] > Len(sizes) THEN Failure ELSE SubSeq(sizes, 1, to[count])
    BY Zenon DEF BytesOf
  <1> HIDE DEF to, next
  <1>7. /\ to[0] = 0
        /\ \A n \in 1..count : to[n] = next(to[n - 1])
    <2>1. \A n \in 0..count : to[n] = IF n = 0 THEN 0 ELSE next(to[n - 1])
      BY <1>5, Zenon
    <2>2. QED
      BY <2>1
  <1> DEFINE InNat == {k \in Nat : k <= count => to[k] \in Nat}
  <1>8. \A k \in Nat : k \in InNat
    <2>1. 0 \in InNat
      BY <1>7
    <2>2. ASSUME NEW k \in Nat, k \in InNat PROVE k + 1 \in InNat
      <3>1. SUFFICES ASSUME k + 1 <= count PROVE to[k + 1] \in Nat
        OBVIOUS
      <3>2. to[k + 1] = next(to[k]) /\ to[k] \in Nat
        BY <1>7, <2>2, <3>1
      <3>3. QED
        BY <1>1, <3>2
    <2> HIDE DEF InNat
    <2>3. QED
      BY <2>1, <2>2, SetInduction
  <1>9. QED
    <2>1. \A n \in 0..count : to[n] \in Nat
      BY <1>8
    <2>2. QED
      BY <1>6, <1>7, <2>1 DEF ReadsUpTo, next

Upto(string, k) == SubSeq(string, 1, k)

LEMMA Prefix ==
  ASSUME NEW string \in Seq(Positive)
  PROVE  /\ \A k \in 0..Len(string) : Upto(string, k) \in Seq(Positive) /\ Len(Upto(string, k)) = k
         /\ Upto(string, 0) = <<>>
         /\ Upto(string, Len(string)) = string
  <1>1. ASSUME NEW k \in 0..Len(string)
        PROVE  Upto(string, k) \in Seq(Positive) /\ Len(Upto(string, k)) = k
    <2>1. \A i \in 1..k : string[i] \in Positive
      OBVIOUS
    <2>2. /\ SubSeq(string, 1, k) \in Seq(Positive)
          /\ Len(SubSeq(string, 1, k)) = IF 1 <= k THEN k - 1 + 1 ELSE 0
      <3>1. 1 \in Int /\ k \in Int
        OBVIOUS
      <3>2. QED
        BY <2>1, <3>1, SubSeqProperties
    <2>3. (IF 1 <= k THEN k - 1 + 1 ELSE 0) = k
      OBVIOUS
    <2>4. QED
      BY <2>2, <2>3 DEF Upto
  <1>2. Upto(string, 0) = <<>>
    BY SubSeqEmpty DEF Upto
  <1>3. Upto(string, Len(string)) = string
    BY SubSeqFull DEF Upto
  <1>4. QED
    BY <1>1, <1>2, <1>3, Zenon

(* The characters behind the first k, up to the one at j. *)
Part(string, k, j) == SubSeq(string, k + 1, j)

LEMMA PartIs ==
  ASSUME NEW string \in Seq(Positive), NEW k \in 0..Len(string), NEW j \in k..Len(string)
  PROVE  /\ Part(string, k, j) \in Seq(Positive) /\ Len(Part(string, k, j)) = j - k
         /\ Upto(string, j) = Upto(string, k) \o Part(string, k, j)
  <1>1. \A i \in k + 1..j : string[i] \in Positive
    OBVIOUS
  <1>2. /\ SubSeq(string, k + 1, j) \in Seq(Positive)
        /\ Len(SubSeq(string, k + 1, j)) = IF k + 1 <= j THEN j - (k + 1) + 1 ELSE 0
    <2>1. k + 1 \in Int /\ j \in Int
      OBVIOUS
    <2>2. QED
      BY <1>1, <2>1, SubSeqProperties
  <1>3. (IF k + 1 <= j THEN j - (k + 1) + 1 ELSE 0) = j - k
    OBVIOUS
  <1>4. SubSeq(string, 1, k) \o SubSeq(string, k + 1, j) = SubSeq(string, 1, j)
    <2>1. 1 \in 1..Len(string) + 1 /\ k \in 1 - 1..Len(string) /\ j \in k..Len(string)
      OBVIOUS
    <2>2. QED
      BY <2>1, ConcatAdjacentSubSeq, Zenon
  <1>5. QED
    BY <1>2, <1>3, <1>4 DEF Upto, Part

(* The bytes of the first characters. *)
LEMMA SizesGrow ==
  ASSUME NEW string \in Seq(Positive), NEW k \in 0..Len(string), NEW j \in k..Len(string)
  PROVE  Sizes(Upto(string, j)) = Sizes(Upto(string, k)) \o Sizes(Part(string, k, j))
  <1>1. Upto(string, k) \in Seq(Positive)
    BY Prefix, Zenon
  <1>2. Part(string, k, j) \in Seq(Positive) /\ Upto(string, j) = Upto(string, k) \o Part(string, k, j)
    BY PartIs, Zenon
  <1>3. QED
    BY <1>1, <1>2, SizesOfConcat, Zenon

(* So many characters are what was written of them. *)
LEMMA BytesOfSizes ==
  ASSUME NEW string \in Seq(Positive)
  PROVE  BytesOf(Sizes(string), Len(string)) = Sizes(string)
  <1> DEFINE sizes == Sizes(string)
             count == Len(string)
             at(k) == Len(Sizes(Upto(string, k)))
  <1>1. sizes \in Seq(Positive) /\ count \in Nat /\ Len(sizes) \in Nat
    BY SizesAre
  <1>2. at(0) = 0 /\ at(count) = Len(sizes)
    <2>1. Upto(string, 0) = <<>> /\ Upto(string, count) = string
      BY Prefix, Zenon DEF count
    <2>2. QED
      BY <2>1, SizesAre
  <1>3. ASSUME NEW k \in Nat, k < count
        PROVE  /\ at(k) \in Nat /\ at(k) < Len(sizes)
               /\ at(k + 1) = at(k) + sizes[at(k) + 1]
    <2> DEFINE before == Sizes(Upto(string, k))
               rest == Sizes(Part(string, k + 1, count))
               here == CharacterBytes(string[k + 1])
    <2>1. k \in 0..count /\ k + 1 \in 0..count /\ k + 1 \in k..count /\ count \in k + 1..count /\ k + 1 \in 1..count
      BY <1>1, <1>3
    <2>2. /\ Upto(string, k) \in Seq(Positive) /\ Upto(string, k + 1) \in Seq(Positive)
          /\ Part(string, k + 1, count) \in Seq(Positive)
      BY <2>1, Prefix, PartIs, Zenon
    <2>3. sizes = Sizes(Upto(string, k + 1)) \o rest
      <3>1. Upto(string, count) = string
        BY Prefix, Zenon
      <3>2. QED
        BY <2>1, <3>1, SizesGrow, Zenon
    <2>4. string[k + 1] \in Positive
      BY <2>1
    <2>5. SubSeq(string, k + 1, k + 1) = Append(<<>>, string[k + 1])
      <3>1. \A i \in k + 1..k + 1 : string[i] \in Positive
        BY <2>4
      <3>2. /\ SubSeq(string, k + 1, k + 1) \in Seq(Positive)
            /\ Len(SubSeq(string, k + 1, k + 1)) = IF k + 1 <= k + 1 THEN (k + 1) - (k + 1) + 1 ELSE 0
            /\ \A i \in 1..(k + 1) - (k + 1) + 1 : SubSeq(string, k + 1, k + 1)[i] = string[(k + 1) + i - 1]
        BY <3>1, <2>1, SubSeqProperties
      <3> DEFINE one == SubSeq(string, k + 1, k + 1)
      <3> HIDE DEF one
      <3>3. one \in Seq(Positive) /\ Len(one) = 1 /\ one[1] = string[k + 1]
        BY <3>2 DEF one
      <3>4. one = Append(<<>>, string[k + 1])
        BY <2>4, <3>3
      <3>5. QED
        BY <3>4 DEF one
    <2>6. Sizes(Append(<<>>, string[k + 1])) = here
      <3>1. Sizes(Append(<<>>, string[k + 1])) = Sizes(<<>>) \o here
        <4>1. <<>> \in Seq(Positive)
          OBVIOUS
        <4>2. QED
          BY <2>4, <4>1, SizesAre, Zenon
      <3>2. here \in Seq(Positive)
        BY <2>4, CharacterBytesAre
      <3>3. QED
        BY <3>1, <3>2, SizesAre, ConcatEmptySeq
    <2>7. Sizes(Upto(string, k + 1)) = before \o here
      BY <2>1, <2>5, <2>6, SizesGrow, Zenon DEF Part
    <2>8. before \in Seq(Positive) /\ rest \in Seq(Positive) /\ here \in Seq(Positive)
          /\ Len(here) = string[k + 1] /\ here[1] = string[k + 1]
      BY <2>2, <2>4, SizesAre, CharacterBytesAre
    <2> HIDE DEF before, rest, here
    <2>9. Len(before \o here) = Len(before) + Len(here) /\ before \o here \in Seq(Positive)
      BY <2>8, ConcatProperties, Zenon
    <2>10. Len(here) \in Nat /\ Len(here) >= 1 /\ Len(rest) \in Nat /\ Len(before) \in Nat
      BY <2>4, <2>8 DEF Positive
    <2>11. /\ Len(sizes) = Len(before) + Len(here) + Len(rest)
           /\ sizes[Len(before) + 1] = here[1]
      <3>1. (before \o here)[Len(before) + 1] = here[1]
        <4>1. Len(before) + 1 \in 1..Len(before) + Len(here) /\ ~(Len(before) + 1 <= Len(before))
              /\ (Len(before) + 1) - Len(before) = 1
          BY <2>10
        <4>2. \A i \in 1..Len(before) + Len(here) :
                (before \o here)[i] = IF i <= Len(before) THEN before[i] ELSE here[i - Len(before)]
          BY <2>8, ConcatProperties, Zenon
        <4>3. QED
          BY <4>1, <4>2, Zenon
      <3> DEFINE most == before \o here
      <3>2. /\ Len(most \o rest) = Len(most) + Len(rest)
            /\ \A i \in 1..Len(most) + Len(rest) :
                (most \o rest)[i] = IF i <= Len(most) THEN most[i] ELSE rest[i - Len(most)]
        BY <2>8, <2>9, ConcatProperties
      <3>3. sizes = most \o rest
        BY <2>3, <2>7, Zenon
      <3>4. Len(most) = Len(before) + Len(here) /\ most[Len(before) + 1] = here[1]
        BY <2>9, <3>1, Zenon
      <3> HIDE DEF most, sizes
      <3>5. Len(before) + 1 \in 1..Len(most) + Len(rest) /\ Len(before) + 1 <= Len(most)
        BY <2>10, <3>4
      <3>6. (most \o rest)[Len(before) + 1] = most[Len(before) + 1]
        BY <3>2, <3>5, Zenon
      <3>7. Len(sizes) = Len(before) + Len(here) + Len(rest)
        BY <3>2, <3>3, <3>4, Zenon
      <3>8. QED
        BY <3>3, <3>4, <3>6, <3>7, Zenon
    <2>12. QED
      BY <2>7, <2>8, <2>9, <2>10, <2>11 DEF before
  <1> HIDE DEF at, sizes, count
  <1>4. PICK f : ReadsUpTo(f, sizes, count)
    BY <1>1, BytesOfIs
  <1> DEFINE There == {k \in Nat : k <= count => f[k] = at(k)}
  <1>5. \A k \in Nat : k \in There
    <2>1. 0 \in There
      BY <1>2, <1>4 DEF ReadsUpTo
    <2>2. ASSUME NEW k \in Nat, k \in There PROVE k + 1 \in There
      <3>1. SUFFICES ASSUME k + 1 <= count PROVE f[k + 1] = at(k + 1)
        OBVIOUS
      <3>2. k < count /\ f[k] = at(k)
        BY <1>1, <2>2, <3>1
      <3>3. at(k) \in Nat /\ at(k) < Len(sizes) /\ at(k + 1) = at(k) + sizes[at(k) + 1]
        BY <1>3, <3>2
      <3>4. k + 1 \in 1..count /\ (k + 1) - 1 = k
        BY <1>1, <3>1
      <3>5. f[k + 1] = IF f[k] >= Len(sizes) THEN Len(sizes) + 1 ELSE f[k] + sizes[f[k] + 1]
        BY <1>4, <3>4 DEF ReadsUpTo
      <3>6. QED
        BY <1>1, <3>2, <3>3, <3>5
    <2> HIDE DEF There
    <2>3. QED
      BY <2>1, <2>2, SetInduction
  <1>6. f[count] = Len(sizes)
    BY <1>1, <1>2, <1>5
  <1>7. BytesOf(sizes, count) = SubSeq(sizes, 1, Len(sizes))
    BY <1>1, <1>4, <1>6 DEF ReadsUpTo
  <1>8. QED
    BY <1>1, <1>7, SubSeqFull DEF sizes, count

(* What the chunks up to each make together. *)
JoinsUpTo(f, part, limit, m) ==
  /\ f[0] = <<>>
  /\ \A i \in 1..m : f[i] = IF f[i - 1] = Failure \/ ~WithinBytes(limit, f[i - 1] \o part[i])
                            THEN Failure ELSE f[i - 1] \o part[i]

(* A chunk that is read to its end, and is the last one or not. *)
ReadsWhole(chunk, bytes, isLast) ==
  /\ chunk.sizes = bytes /\ BytesOf(bytes, chunk.count) = bytes
  /\ (chunk.tag # "s") <=> isLast

IsJoin(chunks, part, limit, m) ==
  \E f : JoinsUpTo(f, part, limit, m) /\ Joined(chunks, limit) = f[m]

LEMMA JoinedIs ==
  ASSUME NEW m \in Nat \ {0}, NEW chunks, Len(chunks) = m, NEW part \in [1..m -> Seq(Positive)], NEW limit \in Nat,
         \A i \in 1..m : ReadsWhole(chunks[i], part[i], i = m)
  PROVE  IsJoin(chunks, part, limit, m)
  <1> DEFINE last == SelectInSeq(chunks, LAMBDA c : c.tag # "s")
             next(n, x) == LET bytes == BytesOf(chunks[n].sizes, chunks[n].count) IN
                           IF x = Failure \/ bytes # chunks[n].sizes \/ ~WithinBytes(limit, x \o bytes)
                           THEN Failure ELSE x \o bytes
             then(n, x) == IF x = Failure \/ ~WithinBytes(limit, x \o part[n]) THEN Failure ELSE x \o part[n]
             X == Seq(Int)
             step == [n \in 1..m |-> [x \in X |-> then(n, x)]]
             Is(f) == f = [n \in 0..last |-> IF n = 0 THEN <<>> ELSE next(n, f[n - 1])]
             upTo == CHOOSE f : Is(f)
  <1>1. last = m
    <2> DEFINE I == {i \in 1..Len(chunks) : chunks[i].tag # "s"}
    <2>1. I = {m}
      <3>1. \A i \in 1..m : (chunks[i].tag # "s") <=> i = m
        BY DEF ReadsWhole
      <3>2. QED
        BY <3>1
    <2>2. last = IF I # {} THEN Min(I) ELSE 0
      BY Zenon DEF SelectInSeq
    <2> HIDE DEF I, last
    <2>3. Min({m}) = m
      BY DEF Min
    <2>4. QED
      BY <2>1, <2>2, <2>3
  <1>2. <<>> \in X /\ Failure \in X
    BY DEF Failure
  <1>3. ASSUME NEW n \in 1..m, NEW x \in X PROVE then(n, x) \in X
    <2>1. part[n] \in Seq(Int)
      <3>1. part[n] \in Seq(Positive) /\ Positive \subseteq Int
        BY DEF Positive
      <3>2. QED
        BY <3>1, SeqMonotonic
    <2>2. QED
      BY <1>2, <2>1
  <1>4. \A n \in 1..m : \A x : next(n, x) = then(n, x)
    BY Zenon DEF ReadsWhole
  <1> HIDE DEF last, next
  <1>5. \A i \in 1..m : step[i] \in [X -> X] /\ \A x \in X : step[i][x] = then(i, x)
    <2> HIDE DEF then, X
    <2>1. QED
      BY <1>3
  <1>6. PICK f \in [0..m -> X] : Recurs(f, m, <<>>, step)
    <2> HIDE DEF step, X
    <2>1. QED
      BY <1>2, <1>5, Recursion
  <1>7. Is(f)
    <2> HIDE DEF step, then, X
    <2>1. ASSUME NEW i \in 1..m PROVE f[i] = then(i, f[i - 1])
      <3>1. f[i - 1] \in X /\ f[i] = step[i][f[i - 1]]
        <4>1. i - 1 \in 0..m
          OBVIOUS
        <4>2. QED
          BY <1>6, <4>1 DEF Recurs
      <3>2. QED
        BY <1>5, <3>1
    <2>2. f[0] = <<>>
      BY <1>6 DEF Recurs
    <2>3. ASSUME NEW n \in 0..m PROVE f[n] = IF n = 0 THEN <<>> ELSE next(n, f[n - 1])
      <3>1. CASE n = 0
        BY <2>2, <3>1
      <3>2. CASE n # 0
        <4>1. n \in 1..m
          BY <3>2
        <4>2. QED
          BY <1>4, <2>1, <3>2, <4>1
      <3>3. QED
        BY <3>1, <3>2
    <2>4. f = [n \in 0..m |-> IF n = 0 THEN <<>> ELSE next(n, f[n - 1])]
      BY <1>6, <2>3
    <2>5. QED
      BY <1>1, <2>4
  <1>8. Is(upTo)
    BY <1>7
  <1>9. Joined(chunks, limit) = upTo[last]
    BY Zenon DEF Joined, last, next
  <1> HIDE DEF upTo, then
  <1>10. \A n \in 0..m : upTo[n] = IF n = 0 THEN <<>> ELSE next(n, upTo[n - 1])
    BY <1>1, <1>8, Zenon
  <1>11. upTo[0] = <<>>
    BY <1>10
  <1>12. ASSUME NEW i \in 1..m PROVE upTo[i] = then(i, upTo[i - 1])
    <2>1. i \in 0..m /\ i # 0
      OBVIOUS
    <2>2. QED
      BY <1>4, <1>10, <2>1, Zenon
  <1>13. JoinsUpTo(upTo, part, limit, m)
    BY <1>11, <1>12 DEF JoinsUpTo, then
  <1>14. QED
    BY <1>1, <1>9, <1>13 DEF IsJoin

(* A chunk of the characters behind one cut and up to the next. *)
CutOf(chunk, string, from, to, isLast) ==
  /\ chunk.sizes = Sizes(Part(string, from, to))
  /\ chunk.count = Len(Part(string, from, to))
  /\ (chunk.tag # "s") <=> isLast

IsCut(cut, string, m) ==
  /\ cut \in [0..m -> 0..Len(string)] /\ cut[0] = 0 /\ cut[m] = Len(string)
  /\ \A i \in 1..m : cut[i - 1] <= cut[i]

(* What was read of a string, within the limit. *)
Exact(chunks, string, limit) ==
  Joined(chunks, limit) = IF WithinBytes(limit, Sizes(string)) THEN Sizes(string) ELSE Failure

LEMMA CutsAreJoined ==
  ASSUME NEW string \in Seq(Positive), NEW limit \in Nat, NEW m \in Nat \ {0},
         NEW cut, IsCut(cut, string, m), NEW chunks, Len(chunks) = m,
         \A i \in 1..m : CutOf(chunks[i], string, cut[i - 1], cut[i], i = m)
  PROVE  Exact(chunks, string, limit)
  <1> DEFINE part == [i \in 1..m |-> Sizes(Part(string, cut[i - 1], cut[i]))]
             P(k) == Sizes(Upto(string, cut[k]))
             End(k) == IF WithinBytes(limit, P(k)) THEN P(k) ELSE Failure
  <1>0. /\ cut \in [0..m -> 0..Len(string)] /\ cut[0] = 0 /\ cut[m] = Len(string)
        /\ \A i \in 1..m : cut[i - 1] <= cut[i]
    BY DEF IsCut
  <1>1. ASSUME NEW i \in 1..m
        PROVE  /\ i - 1 \in 0..m /\ cut[i - 1] \in 0..Len(string) /\ cut[i] \in cut[i - 1]..Len(string)
               /\ Part(string, cut[i - 1], cut[i]) \in Seq(Positive)
               /\ part[i] = Sizes(Part(string, cut[i - 1], cut[i]))
               /\ part[i] \in Seq(Positive)
    <2>1. i - 1 \in 0..m /\ cut[i - 1] \in 0..Len(string) /\ cut[i] \in cut[i - 1]..Len(string)
      <3>1. i - 1 \in 0..m /\ i \in 0..m
        OBVIOUS
      <3>2. cut[i - 1] \in 0..Len(string) /\ cut[i] \in 0..Len(string) /\ cut[i - 1] <= cut[i]
        BY <1>0, <3>1
      <3>3. QED
        BY <3>1, <3>2
    <2>2. Part(string, cut[i - 1], cut[i]) \in Seq(Positive)
      BY <2>1, PartIs, Zenon
    <2>3. part[i] = Sizes(Part(string, cut[i - 1], cut[i]))
      OBVIOUS
    <2>4. QED
      BY <2>1, <2>2, <2>3, SizesAre
  <1>2. ASSUME NEW i \in 1..m PROVE ReadsWhole(chunks[i], part[i], i = m)
    <2>1. BytesOf(part[i], Len(Part(string, cut[i - 1], cut[i]))) = part[i]
      BY <1>1, BytesOfSizes, Zenon
    <2>2. CutOf(chunks[i], string, cut[i - 1], cut[i], i = m)
      OBVIOUS
    <2>3. part[i] = Sizes(Part(string, cut[i - 1], cut[i]))
      BY <1>1
    <2> HIDE DEF part
    <2>4. QED
      BY <2>1, <2>2, <2>3, Zenon DEF ReadsWhole, CutOf
  <1>3. part \in [1..m -> Seq(Positive)]
    <2>1. \A i \in 1..m : Sizes(Part(string, cut[i - 1], cut[i])) \in Seq(Positive)
      BY <1>1
    <2>2. QED
      BY <2>1
  <1> HIDE DEF part
  <1>4. PICK f : JoinsUpTo(f, part, limit, m) /\ Joined(chunks, limit) = f[m]
    <2>1. IsJoin(chunks, part, limit, m)
      BY <1>2, <1>3, JoinedIs
    <2>2. QED
      BY <2>1 DEF IsJoin
  <1>5. ASSUME NEW k \in 0..m PROVE P(k) \in Seq(Positive) /\ P(k) # Failure /\ Len(P(k)) \in Nat
    <2>1. Upto(string, cut[k]) \in Seq(Positive)
      BY <1>0, Prefix
    <2>2. P(k) \in Seq(Positive)
      BY <2>1, SizesAre
    <2> HIDE DEF P
    <2>3. P(k) # Failure
      <3>1. SUFFICES ASSUME P(k) = <<-1>> PROVE FALSE
        BY DEF Failure
      <3>2. <<-1>> \in Seq(Positive)
        BY <2>2, <3>1
      <3>3. Len(<<-1>>) = 1 /\ <<-1>>[1] = -1
        OBVIOUS
      <3>4. -1 \in Positive
        BY <3>2, <3>3, ElementOfSeq
      <3>5. QED
        BY <3>4 DEF Positive
    <2>4. QED
      BY <2>2, <2>3
  <1>6. ASSUME NEW i \in 1..m PROVE P(i) = P(i - 1) \o part[i]
    <2>1. cut[i - 1] \in 0..Len(string) /\ cut[i] \in cut[i - 1]..Len(string)
      BY <1>1
    <2>2. Sizes(Upto(string, cut[i])) = Sizes(Upto(string, cut[i - 1])) \o Sizes(Part(string, cut[i - 1], cut[i]))
      BY <2>1, SizesGrow
    <2>3. QED
      BY <1>1, <2>2, Zenon
  <1>7. P(0) = <<>> /\ P(m) = Sizes(string)
    BY <1>0, Prefix, SizesAre
  <1> HIDE DEF P
  <1> DEFINE There == {k \in Nat : k <= m => f[k] = End(k)}
  <1>8. \A k \in Nat : k \in There
    <2>1. 0 \in There
      <3>1. f[0] = <<>>
        BY <1>4 DEF JoinsUpTo
      <3>2. End(0) = <<>>
        BY <1>7 DEF WithinBytes
      <3>3. QED
        BY <3>1, <3>2
    <2>2. ASSUME NEW k \in Nat, k \in There PROVE k + 1 \in There
      <3>1. SUFFICES ASSUME k + 1 <= m PROVE f[k + 1] = End(k + 1)
        OBVIOUS
      <3>2. k + 1 \in 1..m /\ (k + 1) - 1 = k /\ k \in 0..m /\ f[k] = End(k) /\ k + 1 \in 0..m
        BY <2>2, <3>1
      <3>3. f[k + 1] = IF f[k] = Failure \/ ~WithinBytes(limit, f[k] \o part[k + 1])
                       THEN Failure ELSE f[k] \o part[k + 1]
        BY <1>4, <3>2 DEF JoinsUpTo
      <3>4. P(k + 1) = P(k) \o part[k + 1]
        BY <1>6, <3>2
      <3>5. P(k) # Failure /\ Len(P(k)) \in Nat /\ Len(P(k + 1)) \in Nat /\ Len(P(k)) <= Len(P(k + 1))
        <4>1. P(k) \in Seq(Positive) /\ part[k + 1] \in Seq(Positive)
          BY <1>3, <1>5, <3>2
        <4>2. Len(P(k) \o part[k + 1]) = Len(P(k)) + Len(part[k + 1]) /\ Len(part[k + 1]) \in Nat
          BY <4>1
        <4>3. QED
          <5>1. Len(P(k + 1)) = Len(P(k)) + Len(part[k + 1])
            BY <3>4, <4>2
          <5>2. P(k) # Failure /\ Len(P(k)) \in Nat /\ Len(P(k + 1)) \in Nat
            BY <1>5, <3>2
          <5>3. QED
            BY <4>2, <5>1, <5>2
      <3>6. CASE WithinBytes(limit, P(k))
        <4>1. f[k] = P(k)
          BY <3>2, <3>6
        <4>2. f[k + 1] = IF P(k) = Failure \/ ~WithinBytes(limit, P(k + 1)) THEN Failure ELSE P(k + 1)
          BY <3>3, <3>4, <4>1, Zenon
        <4>3. QED
          BY <3>5, <4>2
      <3>7. CASE ~WithinBytes(limit, P(k))
        <4>1. ~WithinBytes(limit, P(k + 1))
          BY <3>5, <3>7 DEF WithinBytes
        <4>2. QED
          BY <3>2, <3>3, <3>7, <4>1
      <3>8. QED
        BY <3>6, <3>7
    <2> HIDE DEF There
    <2>3. QED
      BY <2>1, <2>2, SetInduction
  <1>9. f[m] = End(m)
    BY <1>8
  <1>10. QED
    BY <1>4, <1>7, <1>9 DEF Exact

ChunkTags == {"s", "S", "count"}

ChunksOf == [tag : ChunkTags, count : Nat, sizes : Seq(Positive)]

LEMMA ChunkIs ==
  ASSUME NEW tag \in ChunkTags, NEW string \in Seq(Positive)
  PROVE  /\ Chunk(tag, string) \in ChunksOf /\ Chunk(tag, string).tag = tag
         /\ Chunk(tag, string).count = Len(string) /\ Chunk(tag, string).sizes = Sizes(string)
  <1>1. Sizes(string) \in Seq(Positive) /\ Len(string) \in Nat
    BY SizesAre
  <1>2. QED
    BY <1>1 DEF Chunk, ChunksOf

LEMMA LastChunkIs ==
  ASSUME NEW string \in Seq(Positive)
  PROVE  /\ LastChunk(string) \in ChunksOf /\ LastChunk(string).tag # "s"
         /\ LastChunk(string).count = Len(string) /\ LastChunk(string).sizes = Sizes(string)
  <1>1. LastChunk(string) = Chunk("count", string) \/ LastChunk(string) = Chunk("S", string)
    BY DEF LastChunk
  <1>2. "count" \in ChunkTags /\ "S" \in ChunkTags /\ "count" # "s" /\ "S" # "s"
    BY DEF ChunkTags
  <1>3. QED
    BY <1>1, <1>2, ChunkIs

LEMMA Times ==
  ASSUME NEW a \in Nat, NEW b \in Nat, NEW c \in Nat, a <= b
  PROVE  a * c <= b * c /\ a * c \in Nat
  <1>1. PICK d \in Nat : b = a + d
    <2>1. b - a \in Nat /\ b = a + (b - a)
      OBVIOUS
    <2>2. QED
      BY <2>1
  <1>2. b * c = a * c + d * c
    BY <1>1
  <1>3. a * c \in Nat /\ d * c \in Nat
    OBVIOUS
  <1>4. QED
    BY <1>2, <1>3

(* The cut of a string into full chunks and what is left. *)
IsSplit(chunks, string, full) ==
  /\ full \in Nat /\ full * ChunkLength <= Len(string)
  /\ chunks \in Seq(ChunksOf) /\ Len(chunks) = full + 1
  /\ \A i \in 1..full :
       /\ Part(string, (i - 1) * ChunkLength, i * ChunkLength) \in Seq(Positive)
       /\ chunks[i] = Chunk("s", Part(string, (i - 1) * ChunkLength, i * ChunkLength))
  /\ Part(string, full * ChunkLength, Len(string)) \in Seq(Positive)
  /\ chunks[full + 1] = LastChunk(Part(string, full * ChunkLength, Len(string)))

LEMMA SplitIs ==
  ASSUME NEW string \in Seq(Positive)
  PROVE  \E full : IsSplit(Split(string), string, full)
  <1> DEFINE n == Max({0, Len(string) - 1})
             full == n \div ChunkLength
             from(i) == (i - 1) * ChunkLength + 1
             whole == [i \in 1..full |-> Chunk("s", SubSeq(string, from(i), from(i + 1) - 1))]
             rest == <<LastChunk(SubSeq(string, from(full + 1), Len(string)))>>
  <1>1. Split(string) = whole \o rest
    BY Zenon DEF Split
  <1>2. ChunkLength \in Nat /\ ChunkLength > 0 /\ Len(string) \in Nat
    BY StringsAssumption
  <1>3. n \in Nat /\ n <= Len(string)
    <2>1. CASE Len(string) = 0
      <3>1. n \in {0, -1} /\ n >= 0
        <4>1. \E x \in {0, Len(string) - 1} : \A y \in {0, Len(string) - 1} : x >= y
          BY <2>1
        <4>2. QED
          BY <2>1, <4>1 DEF Max
      <3>2. QED
        BY <2>1, <3>1
    <2>2. CASE Len(string) > 0
      <3>1. \E x \in {0, Len(string) - 1} : \A y \in {0, Len(string) - 1} : x >= y
        BY <1>2, <2>2
      <3>2. n \in {0, Len(string) - 1}
        BY <3>1 DEF Max
      <3>3. QED
        BY <1>2, <2>2, <3>2
    <2>3. QED
      BY <1>2, <2>1, <2>2
  <1> HIDE DEF n
  <1>4. full \in Nat /\ full * ChunkLength <= n
    BY <1>2, <1>3, SMT
  <1> HIDE DEF full
  <1>5. full * ChunkLength <= Len(string) /\ full * ChunkLength \in Nat
    BY <1>2, <1>3, <1>4
  <1>6. ASSUME NEW i \in 1..full
        PROVE  /\ Part(string, (i - 1) * ChunkLength, i * ChunkLength) \in Seq(Positive)
               /\ whole[i] = Chunk("s", Part(string, (i - 1) * ChunkLength, i * ChunkLength))
    <2>1. /\ (i - 1) * ChunkLength <= i * ChunkLength /\ i * ChunkLength <= full * ChunkLength
          /\ (i - 1) * ChunkLength \in Nat /\ i * ChunkLength \in Nat
      <3>1. i - 1 \in Nat /\ i \in Nat /\ i - 1 <= i /\ i <= full /\ full \in Nat
        BY <1>4
      <3>2. QED
        BY <1>2, <3>1, Times
    <2>2. (i - 1) * ChunkLength \in 0..Len(string) /\ i * ChunkLength \in (i - 1) * ChunkLength..Len(string)
      BY <1>2, <1>5, <2>1
    <2>3. Part(string, (i - 1) * ChunkLength, i * ChunkLength) \in Seq(Positive)
      BY <2>2, PartIs, Zenon
    <2>4. whole[i] = Chunk("s", SubSeq(string, from(i), from(i + 1) - 1))
      <3> HIDE DEF from
      <3>1. QED
        BY DEF whole
    <2>5. from(i) = (i - 1) * ChunkLength + 1 /\ from(i + 1) - 1 = i * ChunkLength
      BY <1>2, <2>1
    <2> HIDE DEF whole, from
    <2>6. QED
      BY <2>3, <2>4, <2>5, Zenon DEF Part
  <1>7. Part(string, full * ChunkLength, Len(string)) \in Seq(Positive)
        /\ rest = <<LastChunk(Part(string, full * ChunkLength, Len(string)))>>
    <2>1. full * ChunkLength \in 0..Len(string) /\ Len(string) \in full * ChunkLength..Len(string)
      BY <1>2, <1>5
    <2>2. from(full + 1) = full * ChunkLength + 1
      BY <1>2, <1>4, <1>5
    <2>3. QED
      BY <2>1, <2>2, PartIs, Zenon DEF Part
  <1>8. whole \in Seq(ChunksOf) /\ Len(whole) = full
    <2>1. \A i \in 1..full : whole[i] \in ChunksOf
      <3>1. "s" \in ChunkTags
        BY DEF ChunkTags
      <3> HIDE DEF whole
      <3>2. QED
        BY <1>6, <3>1, ChunkIs
    <2>2. \A i \in 1..full : whole[i] = Chunk("s", SubSeq(string, from(i), from(i + 1) - 1))
      OBVIOUS
    <2> HIDE DEF from
    <2>3. QED
      BY <1>4, <2>1
  <1>9. rest \in Seq(ChunksOf) /\ Len(rest) = 1
        /\ rest[1] = LastChunk(Part(string, full * ChunkLength, Len(string)))
    <2>1. LastChunk(Part(string, full * ChunkLength, Len(string))) \in ChunksOf
      BY <1>7, LastChunkIs
    <2> HIDE DEF rest
    <2>2. QED
      BY <1>7, <2>1
  <1> HIDE DEF whole, rest
  <1>10. /\ whole \o rest \in Seq(ChunksOf) /\ Len(whole \o rest) = full + 1
         /\ \A i \in 1..full : (whole \o rest)[i] = whole[i]
         /\ (whole \o rest)[full + 1] = rest[1]
    <2>1. /\ whole \o rest \in Seq(ChunksOf) /\ Len(whole \o rest) = Len(whole) + Len(rest)
          /\ \A i \in 1..Len(whole) + Len(rest) :
               (whole \o rest)[i] = IF i <= Len(whole) THEN whole[i] ELSE rest[i - Len(whole)]
      BY <1>8, <1>9, ConcatProperties, Zenon
    <2> DEFINE both == whole \o rest
    <2> HIDE DEF both
    <2>2. /\ both \in Seq(ChunksOf) /\ Len(both) = full + 1
          /\ \A i \in 1..full + 1 : both[i] = IF i <= full THEN whole[i] ELSE rest[i - full]
      BY <1>8, <1>9, <2>1 DEF both
    <2>3. /\ \A i \in 1..full : both[i] = whole[i]
          /\ both[full + 1] = rest[1]
      BY <1>4, <2>2
    <2>4. QED
      BY <2>2, <2>3 DEF both
  <1>11. IsSplit(Split(string), string, full)
    BY <1>1, <1>4, <1>5, <1>6, <1>7, <1>9, <1>10, Zenon DEF IsSplit
  <1>12. QED
    BY <1>11

LEMMA WrittenIsExact ==
  ASSUME NEW string \in Seq(Positive), NEW limit \in Nat
  PROVE  Exact(Written(string), string, limit)
  <1> DEFINE m == 1
             cut == [i \in 0..m |-> IF i = 0 THEN 0 ELSE Len(string)]
             chunks == Written(string)
  <1>1. m \in Nat \ {0} /\ cut \in [0..m -> 0..Len(string)] /\ cut[0] = 0 /\ cut[m] = Len(string)
    OBVIOUS
  <1>2. \A i \in 1..m : i = 1 /\ cut[i - 1] = 0 /\ cut[i] = Len(string) /\ cut[i - 1] <= cut[i]
    <2>1. ASSUME NEW i \in 1..m PROVE i = 1 /\ i - 1 = 0 /\ i - 1 \in 0..m /\ i \in 0..m
      OBVIOUS
    <2>2. Len(string) \in Nat
      OBVIOUS
    <2>3. QED
      BY <1>1, <2>1, <2>2
  <1>3. Len(chunks) = m /\ chunks[1] = LastChunk(string)
    BY DEF Written
  <1>4. Part(string, 0, Len(string)) = string
    BY SubSeqFull DEF Part
  <1>5. \A i \in 1..m : CutOf(chunks[i], string, cut[i - 1], cut[i], i = m)
    <2>1. CutOf(chunks[1], string, 0, Len(string), TRUE)
      BY <1>3, <1>4, LastChunkIs, Zenon DEF CutOf
    <2> HIDE DEF chunks, cut
    <2>2. QED
      BY <1>2, <2>1
  <1>6. IsCut(cut, string, m)
    BY <1>1, <1>2 DEF IsCut
  <1> HIDE DEF m, cut, chunks
  <1>7. Exact(chunks, string, limit)
    BY <1>1, <1>3, <1>5, <1>6, CutsAreJoined
  <1>8. QED
    BY <1>7 DEF chunks

LEMMA SplitIsExact ==
  ASSUME NEW string \in Seq(Positive), NEW limit \in Nat
  PROVE  Exact(Split(string), string, limit) /\ Exact(SplitToTheEnd(string), string, limit)
  <1>1. PICK full : IsSplit(Split(string), string, full)
    BY SplitIs
  <1> DEFINE chunks == Split(string)
  <1>2. /\ full \in Nat /\ full * ChunkLength <= Len(string)
        /\ chunks \in Seq(ChunksOf) /\ Len(chunks) = full + 1
        /\ ChunkLength \in Nat /\ Len(string) \in Nat
    BY <1>1, StringsAssumption DEF IsSplit
  <1> DEFINE at(i) == IF i <= full THEN i * ChunkLength ELSE Len(string)
  <1>3. ASSUME NEW i \in Nat
        PROVE  at(i) \in 0..Len(string) /\ at(i) <= at(i + 1)
    <2>1. CASE i + 1 <= full
      <3>1. i * ChunkLength <= (i + 1) * ChunkLength /\ i * ChunkLength \in Nat
            /\ (i + 1) * ChunkLength <= full * ChunkLength
        BY <1>2, <2>1, Times
      <3>2. QED
        BY <1>2, <2>1, <3>1
    <2>2. CASE i = full
      BY <1>2, <2>2
    <2>3. CASE i > full
      BY <1>2, <2>3
    <2>4. QED
      BY <1>2, <2>1, <2>2, <2>3
  <1>4. ASSUME NEW i \in 1..full
        PROVE  CutOf(chunks[i], string, at(i - 1), at(i), FALSE)
    <2>1. /\ Part(string, (i - 1) * ChunkLength, i * ChunkLength) \in Seq(Positive)
          /\ chunks[i] = Chunk("s", Part(string, (i - 1) * ChunkLength, i * ChunkLength))
      BY <1>1 DEF IsSplit
    <2>2. at(i - 1) = (i - 1) * ChunkLength /\ at(i) = i * ChunkLength
      BY <1>2
    <2>3. "s" \in ChunkTags
      BY DEF ChunkTags
    <2> HIDE DEF chunks, at
    <2>4. QED
      <3> DEFINE p == Part(string, (i - 1) * ChunkLength, i * ChunkLength)
                 c == Chunk("s", p)
      <3>1. c.tag = "s" /\ c.count = Len(p) /\ c.sizes = Sizes(p)
        BY <2>1, <2>3, ChunkIs, Zenon
      <3>2. CutOf(c, string, (i - 1) * ChunkLength, i * ChunkLength, FALSE)
        <4> HIDE DEF c
        <4>1. QED
          BY <3>1, Zenon DEF CutOf
      <3>3. QED
        BY <2>1, <2>2, <3>2, Zenon
  <1>5. /\ CutOf(chunks[full + 1], string, at(full), at(full + 1), TRUE)
        /\ CutOf([chunks[full + 1] EXCEPT !.tag = "s"], string, at(full), at(full + 1), FALSE)
        /\ chunks[full + 1] \in ChunksOf
    <2>1. /\ Part(string, full * ChunkLength, Len(string)) \in Seq(Positive)
          /\ chunks[full + 1] = LastChunk(Part(string, full * ChunkLength, Len(string)))
      BY <1>1 DEF IsSplit
    <2>2. at(full) = full * ChunkLength /\ at(full + 1) = Len(string)
      BY <1>2
    <2> DEFINE c == chunks[full + 1]
               p == Part(string, full * ChunkLength, Len(string))
    <2>3. c \in ChunksOf /\ c.tag # "s" /\ c.count = Len(p) /\ c.sizes = Sizes(p)
      BY <2>1, LastChunkIs
    <2> HIDE DEF c, at
    <2>4. LET d == [c EXCEPT !.tag = "s"] IN d.tag = "s" /\ d.count = c.count /\ d.sizes = c.sizes
      BY <2>3 DEF ChunksOf, ChunkTags
    <2>5. CutOf(c, string, at(full), at(full + 1), TRUE)
          /\ CutOf([c EXCEPT !.tag = "s"], string, at(full), at(full + 1), FALSE)
      BY <2>2, <2>3, <2>4, Zenon DEF CutOf
    <2>6. QED
      BY <2>3, <2>5 DEF c
  <1>6. Exact(Split(string), string, limit)
    <2> DEFINE m == full + 1
               cut == [i \in 0..m |-> at(i)]
    <2>1. /\ m \in Nat \ {0} /\ cut \in [0..m -> 0..Len(string)] /\ cut[0] = 0 /\ cut[m] = Len(string)
          /\ \A i \in 1..m : cut[i - 1] = at(i - 1) /\ cut[i] = at(i) /\ cut[i - 1] <= cut[i]
      <3>1. at(0) = 0 /\ at(m) = Len(string)
        BY <1>2
      <3> HIDE DEF at
      <3>2. \A i \in 1..m : i - 1 \in Nat /\ at(i - 1) <= at((i - 1) + 1) /\ (i - 1) + 1 = i
        BY <1>2, <1>3
      <3>3. ASSUME NEW i \in 0..m PROVE i \in Nat /\ at(i) \in 0..Len(string) /\ cut[i] = at(i)
        <4>1. i \in Nat
          OBVIOUS
        <4>2. QED
          BY <1>3, <4>1
      <3>4. \A i \in 1..m : i - 1 \in 0..m /\ i \in 0..m
        BY <1>2
      <3>5. 0 \in 0..m /\ m \in 0..m /\ m \in Nat \ {0}
        BY <1>2
      <3>6. cut \in [0..m -> 0..Len(string)]
        BY <3>3
      <3> HIDE DEF cut, m
      <3>7. QED
        BY <3>1, <3>2, <3>3, <3>4, <3>5, <3>6
    <2>2. \A i \in 1..m : CutOf(chunks[i], string, cut[i - 1], cut[i], i = m)
      <3>1. SUFFICES ASSUME NEW i \in 1..m PROVE CutOf(chunks[i], string, at(i - 1), at(i), i = m)
        BY <2>1
      <3>2. CASE i = m
        <4>1. i = full + 1 /\ i - 1 = full
          BY <1>2, <3>2
        <4> HIDE DEF at, chunks
        <4>2. QED
          BY <1>5, <3>2, <4>1, Zenon DEF CutOf
      <3>3. CASE i # m
        <4>1. i \in 1..full
          BY <1>2, <3>3
        <4> HIDE DEF at, chunks, m
        <4>2. QED
          BY <1>4, <3>3, <4>1, Zenon DEF CutOf
      <3>4. QED
        BY <3>2, <3>3
    <2>3. Len(chunks) = m
      BY <1>2
    <2> HIDE DEF m, cut, at, chunks
    <2>4. IsCut(cut, string, m)
      BY <2>1 DEF IsCut
    <2>5. Exact(chunks, string, limit)
      BY <2>1, <2>2, <2>3, <2>4, CutsAreJoined
    <2>6. QED
      BY <2>5 DEF chunks
  <1>7. Exact(SplitToTheEnd(string), string, limit)
    <2> DEFINE m == full + 2
               cut == [i \in 0..m |-> at(i)]
               open == [chunks[full + 1] EXCEPT !.tag = "s"]
               more == Append(Front(chunks), open)
               longer == more \o <<LastChunk(<<>>)>>
    <2>1. /\ m \in Nat \ {0} /\ cut \in [0..m -> 0..Len(string)] /\ cut[0] = 0 /\ cut[m] = Len(string)
          /\ \A i \in 1..m : cut[i - 1] = at(i - 1) /\ cut[i] = at(i) /\ cut[i - 1] <= cut[i]
      <3>1. at(0) = 0 /\ at(m) = Len(string)
        BY <1>2
      <3> HIDE DEF at
      <3>2. \A i \in 1..m : i - 1 \in Nat /\ at(i - 1) <= at((i - 1) + 1) /\ (i - 1) + 1 = i
        BY <1>2, <1>3
      <3>3. ASSUME NEW i \in 0..m PROVE i \in Nat /\ at(i) \in 0..Len(string) /\ cut[i] = at(i)
        <4>1. i \in Nat
          OBVIOUS
        <4>2. QED
          BY <1>3, <4>1
      <3>4. \A i \in 1..m : i - 1 \in 0..m /\ i \in 0..m
        BY <1>2
      <3>5. 0 \in 0..m /\ m \in 0..m /\ m \in Nat \ {0}
        BY <1>2
      <3>6. cut \in [0..m -> 0..Len(string)]
        BY <3>3
      <3> HIDE DEF cut, m
      <3>7. QED
        BY <3>1, <3>2, <3>3, <3>4, <3>5, <3>6
    <2>2. SplitToTheEnd(string) = longer
      <3>1. Last(Split(string)) = chunks[full + 1]
        BY <1>2 DEF Last
      <3>2. QED
        BY <3>1, Zenon DEF SplitToTheEnd
    <2>3. /\ Front(chunks) \in Seq(ChunksOf) /\ Len(Front(chunks)) = full
          /\ \A i \in 1..full : Front(chunks)[i] = chunks[i]
      <3> HIDE DEF chunks
      <3>1. \A i \in 1..full : chunks[i] \in ChunksOf
        BY <1>2
      <3>2. /\ SubSeq(chunks, 1, full) \in Seq(ChunksOf)
            /\ Len(SubSeq(chunks, 1, full)) = IF 1 <= full THEN full - 1 + 1 ELSE 0
            /\ \A i \in 1..full - 1 + 1 : SubSeq(chunks, 1, full)[i] = chunks[1 + i - 1]
        <4>1. 1 \in Int /\ full \in Int
          BY <1>2
        <4>2. QED
          BY <3>1, <4>1, SubSeqProperties
      <3>3. Front(chunks) = SubSeq(chunks, 1, full)
        BY <1>2 DEF Front
      <3> DEFINE front == Front(chunks)
      <3> HIDE DEF front
      <3>4. /\ front \in Seq(ChunksOf) /\ Len(front) = full
            /\ \A i \in 1..full : front[i] = chunks[i]
        BY <1>2, <3>2, <3>3 DEF front
      <3>5. QED
        BY <3>4 DEF front
    <2>4. open \in ChunksOf
      BY <1>5 DEF ChunksOf, ChunkTags
    <2> HIDE DEF open
    <2>5. /\ more \in Seq(ChunksOf) /\ Len(more) = full + 1 /\ more[full + 1] = open
          /\ \A i \in 1..full : more[i] = chunks[i]
      <3>1. /\ Append(Front(chunks), open) \in Seq(ChunksOf)
            /\ Len(Append(Front(chunks), open)) = Len(Front(chunks)) + 1
            /\ \A i \in 1..Len(Front(chunks)) : Append(Front(chunks), open)[i] = Front(chunks)[i]
            /\ Append(Front(chunks), open)[Len(Front(chunks)) + 1] = open
        BY <2>3, <2>4, AppendProperties, ZenonT(60)
      <3>2. QED
        BY <2>3, <3>1, Zenon
    <2> HIDE DEF more
    <2> DEFINE end == <<LastChunk(<<>>)>>
    <2>6. end \in Seq(ChunksOf) /\ Len(end) = 1 /\ end[1] = LastChunk(<<>>)
      <3>1. LastChunk(<<>>) \in ChunksOf
        <4>1. <<>> \in Seq(Positive)
          OBVIOUS
        <4>2. QED
          BY <4>1, LastChunkIs
      <3>2. QED
        BY <3>1
    <2> HIDE DEF end
    <2>7. /\ Len(longer) = m /\ longer[full + 2] = LastChunk(<<>>)
          /\ \A i \in 1..full + 1 : longer[i] = more[i]
      <3>1. /\ Len(more \o end) = Len(more) + Len(end)
            /\ \A i \in 1..Len(more) + Len(end) : (more \o end)[i] = IF i <= Len(more) THEN more[i] ELSE end[i - Len(more)]
        BY <2>5, <2>6, ConcatProperties, Zenon
      <3> DEFINE both == more \o end
      <3> HIDE DEF both
      <3>2. /\ Len(both) = full + 2
            /\ \A i \in 1..full + 2 : both[i] = IF i <= full + 1 THEN more[i] ELSE end[i - (full + 1)]
        BY <1>2, <2>5, <2>6, <3>1 DEF both
      <3>3. both[full + 2] = end[1] /\ \A i \in 1..full + 1 : both[i] = more[i]
        BY <1>2, <3>2
      <3>4. longer = both
        BY DEF both, end
      <3>5. QED
        BY <2>6, <3>2, <3>3, <3>4, Zenon
    <2> HIDE DEF longer
    <2>8. \A i \in 1..m : CutOf(longer[i], string, cut[i - 1], cut[i], i = m)
      <3>1. SUFFICES ASSUME NEW i \in 1..m PROVE CutOf(longer[i], string, at(i - 1), at(i), i = m)
        BY <2>1
      <3>2. CASE i = m
        <4>1. i = full + 2 /\ at(i - 1) = Len(string) /\ at(i) = Len(string)
          BY <1>2, <3>2
        <4>2. Part(string, Len(string), Len(string)) = <<>>
          BY <1>2, SubSeqEmpty DEF Part
        <4>3. <<>> \in Seq(Positive)
          OBVIOUS
        <4> HIDE DEF at, chunks
        <4>4. QED
          BY <2>7, <3>2, <4>1, <4>2, <4>3, LastChunkIs, Zenon DEF CutOf
      <3>3. CASE i = full + 1
        <4>1. i # m /\ i - 1 = full /\ i \in 1..full + 1
          BY <1>2, <3>3
        <4> HIDE DEF at, chunks, m
        <4>2. longer[i] = open
          BY <2>5, <2>7, <3>3, <4>1, Zenon
        <4>3. CutOf(open, string, at(full), at(full + 1), FALSE)
          BY <1>5, Zenon DEF open
        <4>4. QED
          BY <3>3, <4>1, <4>2, <4>3, Zenon DEF CutOf
      <3>4. CASE i # m /\ i # full + 1
        <4>1. i \in 1..full /\ i \in 1..full + 1
          BY <1>2, <3>4
        <4> HIDE DEF at, chunks, m
        <4>2. longer[i] = chunks[i]
          BY <2>5, <2>7, <4>1, Zenon
        <4>3. QED
          BY <1>4, <3>4, <4>1, <4>2, Zenon DEF CutOf
      <3>5. QED
        BY <3>2, <3>3, <3>4
    <2>9. Len(longer) = m
      BY <2>7
    <2> HIDE DEF m, cut, at
    <2>10. IsCut(cut, string, m)
      BY <2>1 DEF IsCut
    <2>11. Exact(longer, string, limit)
      BY <2>1, <2>8, <2>9, <2>10, CutsAreJoined
    <2>12. QED
      BY <2>2, <2>11
  <1>8. QED
    BY <1>6, <1>7

LEMMA EveryStringIsExact == StringsAreExact
  <1> SUFFICES ASSUME NEW string \in Strings, NEW limit \in ByteLimits,
                      NEW chunks \in {Written(string), Split(string), SplitToTheEnd(string)}
               PROVE  Exact(chunks, string, limit)
    BY Zenon DEF StringsAreExact, Exact
  <1>1. limit \in Nat
    BY StringsAssumption
  <1>2. string \in Seq(Positive)
    <2>1. PICK n \in 0..MaxLength : string \in [1..n -> Characters]
      BY DEF Strings, BoundedSeq, SeqOf
    <2>2. n \in Nat /\ Characters \subseteq Positive
      BY <2>1, StringsAssumption DEF Positive
    <2>3. string \in [1..n -> Positive]
      BY <2>1, <2>2
    <2>4. QED
      BY <2>2, <2>3
  <1>3. QED
    BY <1>1, <1>2, WrittenIsExact, SplitIsExact, Zenon

(* Whatever integers and strings a service sends, and however it cuts the  *)
(* strings into chunks: IntOf and Joined, which decoder.go and             *)
(* decoder_primitive.go are, read them as they were sent.                  *)
THEOREM ScalarsStayExact ==
  Spec => []ScalarsAreExact
  <1>1. ScalarsAreExact
    BY EveryIntegerIsExact, EveryStringIsExact DEF ScalarsAreExact
  <1>2. QED
    BY <1>1, PTL

=============================================================================
