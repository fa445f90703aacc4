-------------------------- MODULE UserSetup_proofs --------------------------
(***************************************************************************)
(* Proofs about setup, for any number of runs, any options and any files   *)
(* in the beginning.                                                       *)
(***************************************************************************)
EXTENDS UserSetup, FiniteSetTheorems, SequenceTheorems, WellFoundedInduction, TLAPS

-----------------------------------------------------------------------------
(* Induction and recursion over the natural numbers, in a form that does   *)
(* not need an operator to stand for the formula: what holds is a set.     *)
LEMMA SetInduction ==
  ASSUME NEW S, 0 \in S, \A n \in Nat : n \in S => n + 1 \in S
  PROVE  \A n \in Nat : n \in S
  <1> SUFFICES ASSUME NEW n \in Nat, n \notin S PROVE FALSE
    OBVIOUS
  <1> DEFINE A == {k \in 0..n : k \in S}
             next == [k \in A |-> k + 1]
  <1>1. IsFiniteSet(A)
    <2>1. IsFiniteSet(0..n)
      BY FS_Interval
    <2>2. QED
      BY <2>1, FS_Subset
  <1>2. next \in Injection(A, A)
    <2>1. next \in [A -> A]
      <3>1. \A k \in A : k + 1 \in A
        OBVIOUS
      <3>2. QED
        BY <3>1
    <2>2. \A j, k \in A : next[j] = next[k] => j = k
      OBVIOUS
    <2>3. QED
      BY <2>1, <2>2 DEF Injection, IsInjective
  <1>3. next \in Surjection(A, A)
    <2> HIDE DEF A, next
    <2>1. QED
      BY <1>1, <1>2, FS_Injection
  <1>4. 0 \in A
    OBVIOUS
  <1>5. PICK k \in A : next[k] = 0
    <2> HIDE DEF A, next
    <2>1. QED
      BY <1>3, <1>4 DEF Surjection
  <1>6. QED
    BY <1>5

(* f starts with base and goes on with what step[i] makes of it. *)
Recurs(f, k, base, step) ==
  f[0] = base /\ \A i \in 1..k : f[i] = step[i][f[i - 1]]

LEMMA Recursion ==
  ASSUME NEW n \in Nat, NEW X, NEW base \in X, NEW step, \A i \in 1..n : step[i] \in [X -> X]
  PROVE  \E f \in [0..n -> X] : Recurs(f, n, base, step)
  <1> DEFINE S == {k \in Nat : k <= n => \E f \in [0..k -> X] : Recurs(f, k, base, step)}
  <1>1. 0 \in S
    <2> DEFINE f == [i \in 0..0 |-> base]
    <2>1. f \in [0..0 -> X] /\ f[0] = base
      OBVIOUS
    <2>2. Recurs(f, 0, base, step)
      BY <2>1 DEF Recurs
    <2>3. QED
      BY <2>1, <2>2
  <1>2. ASSUME NEW k \in Nat, k \in S PROVE k + 1 \in S
    <2>1. SUFFICES ASSUME k + 1 <= n PROVE \E f \in [0..k + 1 -> X] : Recurs(f, k + 1, base, step)
      OBVIOUS
    <2>2. PICK f \in [0..k -> X] : Recurs(f, k, base, step)
      BY <1>2, <2>1
    <2> DEFINE g == [i \in 0..k + 1 |-> IF i = k + 1 THEN step[k + 1][f[k]] ELSE f[i]]
    <2>3. g \in [0..k + 1 -> X]
      BY <2>1, <2>2
    <2>4. ASSUME NEW i \in 1..k + 1 PROVE g[i] = step[i][g[i - 1]]
      BY <2>2 DEF Recurs
    <2>5. g[0] = base
      BY <2>2 DEF Recurs
    <2>6. Recurs(g, k + 1, base, step)
      BY <2>4, <2>5 DEF Recurs
    <2>7. QED
      BY <2>3, <2>6
  <1>3. \A k \in Nat : k \in S
    <2> HIDE DEF S
    <2>1. QED
      BY <1>1, <1>2, SetInduction
  <1>4. QED
    BY <1>3

(* A set of positions that is not empty has a last one. *)
LEMMA LastOne ==
  ASSUME NEW i \in Nat, NEW places \in SUBSET (1..i), places # {}
  PROVE  \E j \in places : \A k \in places : k <= j
  <1> DEFINE HasOne == {n \in Nat : \A A \in SUBSET (1..n) : A # {} => \E j \in A : \A k \in A : k <= j}
  <1>1. 0 \in HasOne
    <2>1. 1..0 = {}
      OBVIOUS
    <2>2. \A A \in SUBSET (1..0) : A = {}
      BY <2>1
    <2>3. QED
      BY <2>2
  <1>2. ASSUME NEW n \in Nat, n \in HasOne PROVE n + 1 \in HasOne
    <2>1. SUFFICES ASSUME NEW A \in SUBSET (1..n + 1), A # {} PROVE \E j \in A : \A k \in A : k <= j
      OBVIOUS
    <2>2. CASE n + 1 \in A
      BY <2>1, <2>2
    <2>3. CASE n + 1 \notin A
      <3>1. A \in SUBSET (1..n)
        BY <2>1, <2>3
      <3>2. QED
        BY <1>2, <2>1, <3>1
    <2>4. QED
      BY <2>2, <2>3
  <1>3. \A n \in Nat : n \in HasOne
    <2> HIDE DEF HasOne
    <2>1. QED
      BY <1>1, <1>2, SetInduction
  <1>4. QED
    BY <1>3

-----------------------------------------------------------------------------
(* Lines. *)

(* What lines are made of. *)
FileNames == UNION {{lines[i].name : i \in DOMAIN lines} : lines \in TomlFiles}
FileValues == UNION {{lines[i].value : i \in DOMAIN lines} : lines \in TomlFiles}
FlagNames == UNION {DOMAIN o.env : o \in Options}
FlagValues == UNION {{o.env[k] : k \in DOMAIN o.env} : o \in Options}

LineNames == FileNames \cup FlagNames \cup Ours \cup {"command", "setting", "top"}
LineValues == FileValues \cup FlagValues \cup Runs \cup {Client, "none"}

(* A header of one of our tables is one that setup finds. *)
Found(line) == line.kind \notin {"table", "pair"} => line.name \notin Ours

Kinds == {"table", "noted", "quoted", "array", "pair"}

Line == {l \in [kind : Kinds, name : LineNames, value : LineValues] : IsLine(l) /\ Found(l)}

LEMMA KindsOfLines ==
  ASSUME NEW l \in Line
  PROVE  /\ l.name \in LineNames /\ l.value \in LineValues
         /\ \/ l.kind = "table" /\ l = Table(l.name)
            \/ l.kind \in {"noted", "quoted", "array"} /\ l.name \notin Ours
            \/ l.kind = "pair" /\ l = Pair(l.name, l.value)
  BY DEF Line, IsLine, Found, Table, Noted, Quoted, Array, Pair

LEMMA LinesOfKinds ==
  /\ \A n \in LineNames : Table(n) \in Line /\ Table(n).kind = "table" /\ Table(n).name = n
  /\ \A n \in LineNames, v \in LineValues :
       Pair(n, v) \in Line /\ Pair(n, v).kind = "pair" /\ Pair(n, v).name = n /\ Pair(n, v).value = v
  /\ \A n, m : Table(n) = Table(m) => n = m
  <1>1. "none" \in LineValues
    BY DEF LineValues
  <1>2. ASSUME NEW n \in LineNames PROVE Table(n) \in Line /\ Table(n).kind = "table" /\ Table(n).name = n
    BY <1>1 DEF Line, Kinds, IsLine, Found, Table
  <1>3. ASSUME NEW n \in LineNames, NEW v \in LineValues
        PROVE  Pair(n, v) \in Line /\ Pair(n, v).kind = "pair" /\ Pair(n, v).name = n /\ Pair(n, v).value = v
    BY DEF Line, Kinds, IsLine, Found, Pair
  <1>4. ASSUME NEW n, NEW m, Table(n) = Table(m) PROVE n = m
    BY <1>4 DEF Table
  <1>5. QED
    BY <1>2, <1>3, <1>4

(* The header above a position. *)
Above(lines, i, h) ==
  h \in 1..i /\ lines[h].kind # "pair" /\ \A k \in 1..i : lines[k].kind # "pair" => k <= h

NoneAbove(lines, i) == \A k \in 1..i : lines[k].kind = "pair"

LEMMA OwnerIs ==
  ASSUME NEW lines, NEW i \in Nat
  PROVE  /\ NoneAbove(lines, i) => Owner(lines, i) = Table("top")
         /\ \A h : Above(lines, i, h) => Owner(lines, i) = Opens(lines[h])
         /\ NoneAbove(lines, i) \/ \E h : Above(lines, i, h)
  <1> DEFINE above == {j \in 1..i : lines[j].kind # "pair"}
             at == CHOOSE j \in above : \A k \in above : k <= j
  <1>1. Owner(lines, i) = IF above = {} THEN Table("top") ELSE Opens(lines[at])
    BY Zenon DEF Owner
  <1>2. NoneAbove(lines, i) <=> above = {}
    BY DEF NoneAbove
  <1>3. ASSUME NEW h, Above(lines, i, h) PROVE above # {} /\ at = h
    <2>1. h \in above /\ \A k \in above : k <= h
      BY <1>3 DEF Above
    <2>2. \A j \in above : (\A k \in above : k <= j) => j = h
      BY <2>1
    <2> HIDE DEF above
    <2>3. QED
      BY <2>1, <2>2
  <1>4. ASSUME above # {} PROVE \E h : Above(lines, i, h)
    <2>1. PICK h \in above : \A k \in above : k <= h
      <3>1. above \in SUBSET (1..i)
        OBVIOUS
      <3> HIDE DEF above
      <3>2. QED
        BY <1>4, <3>1, LastOne
    <2>2. Above(lines, i, h)
      BY <2>1 DEF Above
    <2>3. QED
      BY <2>2
  <1> HIDE DEF above, at
  <1>5. QED
    BY <1>1, <1>2, <1>3, <1>4

(* The same for the headers that the code finds. *)
UnderHeader(lines, i, h) ==
  h \in 1..i /\ IsHeader(lines[h]) /\ \A k \in 1..i : IsHeader(lines[k]) => k <= h

NoHeader(lines, i) == \A k \in 1..i : ~IsHeader(lines[k])

LEMMA UnderIs ==
  ASSUME NEW lines, NEW i \in Nat
  PROVE  /\ NoHeader(lines, i) => Under(lines, i) = "top"
         /\ \A h : UnderHeader(lines, i, h) => Under(lines, i) = Title(lines[h])
         /\ NoHeader(lines, i) \/ \E h : UnderHeader(lines, i, h)
  <1> DEFINE above == {j \in 1 .. i : IsHeader(lines[j])}
             at == CHOOSE j \in above : \A k \in above : k <= j
  <1>1. Under(lines, i) = IF above = {} THEN "top" ELSE Title(lines[at])
    BY Zenon DEF Under
  <1>2. NoHeader(lines, i) <=> above = {}
    BY DEF NoHeader
  <1>3. ASSUME NEW h, UnderHeader(lines, i, h) PROVE above # {} /\ at = h
    <2>1. h \in above /\ \A k \in above : k <= h
      BY <1>3 DEF UnderHeader
    <2>2. \A j \in above : (\A k \in above : k <= j) => j = h
      BY <2>1
    <2> HIDE DEF above
    <2>3. QED
      BY <2>1, <2>2
  <1>4. ASSUME above # {} PROVE \E h : UnderHeader(lines, i, h)
    <2>1. PICK h \in above : \A k \in above : k <= h
      <3>1. above \in SUBSET (1..i)
        OBVIOUS
      <3> HIDE DEF above
      <3>2. QED
        BY <1>4, <3>1, LastOne
    <2>2. UnderHeader(lines, i, h)
      BY <2>1 DEF UnderHeader
    <2>3. QED
      BY <2>2
  <1> HIDE DEF above, at
  <1>5. QED
    BY <1>1, <1>2, <1>3, <1>4

(* Picking lines one after the other. *)
PicksUpTo(f, lines, places) ==
  /\ f[0] = <<>>
  /\ \A i \in 0..Len(lines) : f[i] \in Seq(Line)
  /\ \A i \in 1..Len(lines) : f[i] = IF i \in places THEN Append(f[i - 1], lines[i]) ELSE f[i - 1]
  /\ Picked(lines, places) = f[Len(lines)]

LEMMA PickedIs ==
  ASSUME NEW lines \in Seq(Line), NEW places
  PROVE  \E f : PicksUpTo(f, lines, places)
  <1> DEFINE n == Len(lines)
             X == Seq(Line)
             next(i, x) == IF i \in places THEN Append(x, lines[i]) ELSE x
             step == [i \in 1..n |-> [x \in X |-> next(i, x)]]
             Is(f) == f = [i \in 0..n |-> IF i = 0 THEN <<>> ELSE next(i, f[i - 1])]
             upTo == CHOOSE f : Is(f)
  <1>1. n \in Nat /\ <<>> \in X
    OBVIOUS
  <1>2. \A i \in 1..n, x \in X : next(i, x) \in X
    OBVIOUS
  <1>3. \A i \in 1..n : step[i] \in [X -> X] /\ \A x \in X : step[i][x] = next(i, x)
    <2> HIDE DEF next, X, n
    <2>1. QED
      BY <1>2
  <1>4. PICK f \in [0..n -> X] : Recurs(f, n, <<>>, step)
    <2> HIDE DEF step, X, n
    <2>1. QED
      BY <1>1, <1>3, Recursion
  <1> HIDE DEF next, step, X, n
  <1>5. f[0] = <<>> /\ \A i \in 1..n : f[i] = next(i, f[i - 1])
    <2>1. ASSUME NEW i \in 1..n PROVE f[i] = next(i, f[i - 1])
      <3>1. i - 1 \in 0..n
        BY <1>1
      <3>2. f[i - 1] \in X /\ f[i] = step[i][f[i - 1]]
        BY <1>4, <3>1 DEF Recurs
      <3>3. QED
        BY <1>3, <3>2
    <2>2. QED
      BY <1>4, <2>1 DEF Recurs
  <1>6. Is(f)
    <2>1. \A i \in 0..n : f[i] = IF i = 0 THEN <<>> ELSE next(i, f[i - 1])
      BY <1>1, <1>5
    <2>2. f = [i \in 0..n |-> IF i = 0 THEN <<>> ELSE next(i, f[i - 1])]
      BY <1>4, <2>1
    <2>3. QED
      BY <2>2
  <1>7. Is(upTo)
    BY <1>6
  <1>8. Picked(lines, places) = upTo[n]
    BY Zenon DEF Picked, n, next
  <1> HIDE DEF upTo
  <1>9. upTo[0] = <<>> /\ \A i \in 1..n : upTo[i] = next(i, upTo[i - 1])
    <2>1. \A i \in 0..n : upTo[i] = IF i = 0 THEN <<>> ELSE next(i, upTo[i - 1])
      BY <1>7, Zenon
    <2>2. QED
      BY <1>1, <2>1
  <1> DEFINE InX == {k \in Nat : k <= n => upTo[k] \in X}
  <1>10. \A k \in Nat : k \in InX
    <2>1. 0 \in InX
      BY <1>1, <1>9
    <2>2. ASSUME NEW k \in Nat, k \in InX PROVE k + 1 \in InX
      <3>1. SUFFICES ASSUME k + 1 <= n PROVE upTo[k + 1] \in X
        OBVIOUS
      <3>2. k + 1 \in 1..n /\ upTo[k + 1] = next(k + 1, upTo[k]) /\ upTo[k] \in X
        BY <1>1, <1>9, <2>2, <3>1
      <3>3. QED
        BY <1>2, <3>2
    <2> HIDE DEF InX
    <2>3. QED
      BY <2>1, <2>2, SetInduction
  <1>11. \A i \in 0..n : upTo[i] \in X
    BY <1>1, <1>10
  <1>12. QED
    BY <1>8, <1>9, <1>11, Zenon DEF PicksUpTo, n, X, next

(* Each picked line is one of the lines, and none is picked twice. *)
Embeds(e, p, lines, places, n) ==
  /\ e \in [1..Len(p) -> places \cap (1..n)]
  /\ \A i \in 1..Len(p) : p[i] = lines[e[i]]
  /\ \A i, j \in 1..Len(p) : e[i] = e[j] => i = j

LEMMA PickedAre ==
  ASSUME NEW lines \in Seq(Line), NEW places
  PROVE  /\ Picked(lines, places) \in Seq(Line)
         /\ \E e : Embeds(e, Picked(lines, places), lines, places, Len(lines))
  <1>1. PICK f : PicksUpTo(f, lines, places)
    BY PickedIs
  <1> DEFINE n == Len(lines)
             Good == {k \in Nat : k <= n => \E e : Embeds(e, f[k], lines, places, k)}
  <1>2. /\ n \in Nat /\ f[0] = <<>> /\ Picked(lines, places) = f[n]
        /\ \A i \in 0..n : f[i] \in Seq(Line)
        /\ \A i \in 1..n : f[i] = IF i \in places THEN Append(f[i - 1], lines[i]) ELSE f[i - 1]
    BY <1>1 DEF PicksUpTo
  <1> HIDE DEF n
  <1>3. 0 \in Good
    <2> DEFINE e == [i \in 1..0 |-> i]
    <2>1. Embeds(e, <<>>, lines, places, 0)
      BY DEF Embeds
    <2>2. QED
      BY <1>2, <2>1
  <1>4. ASSUME NEW k \in Nat, k \in Good PROVE k + 1 \in Good
    <2>1. SUFFICES ASSUME k + 1 <= n PROVE \E e : Embeds(e, f[k + 1], lines, places, k + 1)
      OBVIOUS
    <2>2. k + 1 \in 1..n /\ (k + 1) - 1 = k /\ k \in 0..n
      BY <1>2, <2>1
    <2>3. PICK e : Embeds(e, f[k], lines, places, k)
      BY <1>2, <1>4, <2>1
    <2>4. f[k] \in Seq(Line) /\ Len(f[k]) \in Nat
      BY <1>2, <2>2
    <2> DEFINE p == f[k]
               q == f[k + 1]
               m == Len(p)
    <2>5. CASE k + 1 \notin places
      <3>1. q = p
        BY <1>2, <2>2, <2>5
      <3>2. Embeds(e, p, lines, places, k + 1)
        BY <2>3 DEF Embeds
      <3>3. QED
        BY <3>1, <3>2
    <2>6. CASE k + 1 \in places
      <3>1. q = Append(p, lines[k + 1])
        BY <1>2, <2>2, <2>6
      <3>2. lines[k + 1] \in Line
        BY <2>2 DEF n
      <3>3. Len(q) = m + 1 /\ q[m + 1] = lines[k + 1] /\ \A i \in 1..m : q[i] = p[i]
        BY <2>4, <3>1, <3>2, AppendProperties
      <3> DEFINE g == [i \in 1..m + 1 |-> IF i = m + 1 THEN k + 1 ELSE e[i]]
      <3>4. /\ \A i \in 1..m : e[i] \in places \cap (1..k) /\ p[i] = lines[e[i]]
            /\ \A i, j \in 1..m : e[i] = e[j] => i = j
        BY <2>3 DEF Embeds
      <3> HIDE DEF p, q, m
      <3>5. m \in Nat
        BY <2>4 DEF m, p
      <3>6. \A i \in 1..m + 1 : i = m + 1 \/ i \in 1..m
        BY <3>5
      <3>7. g \in [1..m + 1 -> places \cap (1..k + 1)]
        BY <2>6, <3>4, <3>6
      <3>8. \A i \in 1..m + 1 : q[i] = lines[g[i]]
        BY <3>3, <3>4, <3>6, <3>5
      <3>9. ASSUME NEW i \in 1..m + 1, NEW j \in 1..m + 1, g[i] = g[j] PROVE i = j
        BY <3>4, <3>5, <3>6, <3>9
      <3> HIDE DEF g
      <3>10. Embeds(g, q, lines, places, k + 1)
        BY <3>3, <3>7, <3>8, <3>9 DEF Embeds
      <3>11. QED
        BY <3>10 DEF q
    <2>7. QED
      BY <2>5, <2>6
  <1>5. \A k \in Nat : k \in Good
    <2> HIDE DEF Good
    <2>1. QED
      BY <1>3, <1>4, SetInduction
  <1>6. Picked(lines, places) \in Seq(Line)
    <2>1. n \in 0..n
      BY <1>2
    <2>2. QED
      BY <1>2, <2>1
  <1>7. \E e : Embeds(e, f[n], lines, places, n)
    BY <1>2, <1>5
  <1>8. QED
    BY <1>2, <1>6, <1>7 DEF n

(* Picking the first lines. *)
LEMMA PickedFirst ==
  ASSUME NEW s \in Seq(Line), NEW t \in Seq(Line)
  PROVE  Picked(s \o t, 1..Len(s)) = s
  <1> DEFINE lines == s \o t
             n == Len(lines)
             m == Len(s)
  <1>1. lines \in Seq(Line) /\ n = m + Len(t) /\ m \in Nat /\ Len(t) \in Nat /\ \A i \in 1..m : lines[i] = s[i]
    OBVIOUS
  <1>2. PICK f : PicksUpTo(f, lines, 1..m)
    BY <1>1, PickedIs
  <1> HIDE DEF lines
  <1>3. /\ f[0] = <<>> /\ Picked(lines, 1..m) = f[n]
        /\ \A i \in 1..n : f[i] = IF i \in 1..m THEN Append(f[i - 1], lines[i]) ELSE f[i - 1]
    BY <1>2 DEF PicksUpTo
  <1> HIDE DEF n, m
  <1> DEFINE There == {k \in Nat : k <= n => f[k] = IF k <= m THEN SubSeq(s, 1, k) ELSE s}
  <1>4. 0 \in There
    <2>1. SubSeq(s, 1, 0) = <<>>
      BY SubSeqEmpty
    <2>2. 0 <= m
      BY <1>1
    <2>3. f[0] = IF 0 <= m THEN SubSeq(s, 1, 0) ELSE s
      BY <1>3, <2>1, <2>2, Zenon
    <2>4. QED
      BY <2>3
  <1>5. ASSUME NEW k \in Nat, k \in There PROVE k + 1 \in There
    <2>1. SUFFICES ASSUME k + 1 <= n PROVE f[k + 1] = IF k + 1 <= m THEN SubSeq(s, 1, k + 1) ELSE s
      OBVIOUS
    <2>2. k + 1 \in 1..n /\ (k + 1) - 1 = k /\ f[k] = IF k <= m THEN SubSeq(s, 1, k) ELSE s
      BY <1>1, <1>5, <2>1
    <2>3. CASE k + 1 <= m
      <3>1. f[k + 1] = Append(SubSeq(s, 1, k), s[k + 1])
        <4>1. k + 1 \in 1..m /\ k <= m
          BY <2>3, <1>1
        <4>2. f[k + 1] = Append(f[k], lines[k + 1]) /\ lines[k + 1] = s[k + 1]
          BY <1>1, <1>3, <2>2, <4>1
        <4>3. QED
          BY <2>2, <4>1, <4>2, Zenon
      <3>2. SubSeq(s, 1, k + 1) = SubSeq(s, 1, (k + 1) - 1) \o <<s[k + 1]>>
        <4>1. 1 \in 1..Len(s) /\ k + 1 \in 1..Len(s)
          BY <1>1, <2>3 DEF m
        <4>2. QED
          BY <4>1, SubSeqRecursiveSecond
      <3>3. SubSeq(s, 1, k) \in Seq(Line) /\ s[k + 1] \in Line
        <4>1. \A i \in 1..k : s[i] \in Line
          BY <2>3, <1>1 DEF m
        <4>2. k + 1 \in 1..Len(s)
          BY <2>3, <1>1 DEF m
        <4>3. 1 \in Int /\ k \in Int
          OBVIOUS
        <4>4. QED
          BY <4>1, <4>2, <4>3, SubSeqProperties
      <3>4. Append(SubSeq(s, 1, k), s[k + 1]) = SubSeq(s, 1, k) \o <<s[k + 1]>>
        BY <3>3, AppendIsConcat
      <3>5. QED
        BY <2>2, <2>3, <3>1, <3>2, <3>4, Zenon
    <2>4. CASE k = m
      <3>1. SubSeq(s, 1, m) = s
        BY SubSeqFull DEF m
      <3>2. QED
        BY <1>1, <1>3, <2>2, <2>4, <3>1
    <2>5. CASE k > m
      BY <1>1, <1>3, <2>2, <2>5
    <2>6. QED
      BY <1>1, <2>3, <2>4, <2>5
  <1>6. \A k \in Nat : k \in There
    <2> HIDE DEF There
    <2>1. QED
      BY <1>4, <1>5, SetInduction
  <1>7. f[n] = s
    <2>1. n \in Nat /\ m <= n
      BY <1>1
    <2>2. CASE n = m
      <3>1. SubSeq(s, 1, m) = s
        BY SubSeqFull DEF m
      <3>2. QED
        BY <1>6, <2>1, <2>2, <3>1
    <2>3. CASE n # m
      BY <1>1, <1>6, <2>1, <2>3
    <2>4. QED
      BY <2>2, <2>3
  <1>8. QED
    BY <1>3, <1>7 DEF lines, m

-----------------------------------------------------------------------------
(* What a run writes. *)

(* A finite set in some order: every member at exactly one place. *)
LEMMA Ordered ==
  ASSUME NEW S, IsFiniteSet(S)
  PROVE  /\ Cardinality(S) \in Nat
         /\ SetToSeq(S) \in [1..Cardinality(S) -> S]
         /\ DOMAIN SetToSeq(S) = 1..Cardinality(S)
         /\ \A x \in S : \E i \in 1..Cardinality(S) : SetToSeq(S)[i] = x
  <1> DEFINE n == Cardinality(S)
             order == SetToSeq(S)
  <1>1. n \in Nat /\ ExistsBijection(1..n, S)
    BY FS_CardinalityType
  <1>2. \E f \in [1..n -> S] : IsInjective(f)
    <2>1. PICK f : f \in Bijection(1..n, S)
      BY <1>1 DEF ExistsBijection
    <2>2. f \in [1..n -> S] /\ IsInjective(f)
      BY <2>1 DEF Bijection, Injection
    <2>3. QED
      BY <2>2
  <1>3. order \in [1..n -> S] /\ IsInjective(order)
    BY <1>2 DEF SetToSeq
  <1>4. order \in Injection(1..n, S)
    BY <1>3 DEF Injection
  <1>5. IsFiniteSet(1..n) /\ Cardinality(1..n) = n
    <2>1. 1..n \in SUBSET Int /\ 1 \in Int /\ n \in Int
      BY <1>1
    <2>2. Cardinality(1..n) = IF 1 > n THEN 0 ELSE n - 1 + 1
      BY <2>1, FS_Interval
    <2>3. QED
      BY <1>1, <2>1, <2>2, FS_Interval
  <1>6. order \in Surjection(1..n, S)
    <2> HIDE DEF order
    <2>1. QED
      BY <1>4, <1>5, FS_Injection
  <1>7. \A x \in S : \E i \in 1..n : order[i] = x
    BY <1>6 DEF Surjection
  <1>8. QED
    BY <1>1, <1>3, <1>7

(* An environment whose keys and values may stand in a line. *)
IsEnv(env) ==
  /\ env = [k \in DOMAIN env |-> env[k]]
  /\ IsFiniteSet(DOMAIN env)
  /\ \A k \in DOMAIN env : k \in LineNames /\ env[k] \in LineValues

(* The two tables of an entry, and nothing else. *)
IsEntry(t, r, env) ==
  /\ t \in Seq(Line)
  /\ Len(t) >= 2
  /\ t[1] = Table("sofarpc") /\ t[2] = Pair("command", r)
  /\ Len(t) >= 3 => t[3] = Table("sofarpc.env")
  /\ \A i \in 4..Len(t) : \E k \in DOMAIN env : t[i] = Pair(k, env[k])
  /\ \A k \in DOMAIN env : \E i \in 4..Len(t) : t[i] = Pair(k, env[k])

LEMMA RenderedIs ==
  ASSUME NEW r \in Runs, NEW env, IsEnv(env)
  PROVE  IsEntry(Rendered(r, env), r, env)
  <1> DEFINE order == SetToSeq(DOMAIN env)
             n == Cardinality(DOMAIN env)
             head == <<Table("sofarpc"), Pair("command", r)>>
             mid == IF env = NoEnv THEN <<>> ELSE <<Table("sofarpc.env")>>
             rest == [i \in DOMAIN order |-> Pair(order[i], env[order[i]])]
  <1>1. /\ n \in Nat /\ order \in [1..n -> DOMAIN env] /\ DOMAIN order = 1..n
        /\ \A x \in DOMAIN env : \E i \in 1..n : order[i] = x
    BY Ordered, Zenon DEF IsEnv
  <1>2. Table("sofarpc") \in Line /\ Table("sofarpc.env") \in Line /\ Pair("command", r) \in Line
    <2>1. "sofarpc" \in LineNames /\ "sofarpc.env" \in LineNames /\ "command" \in LineNames /\ r \in LineValues
      BY DEF LineNames, LineValues, Ours
    <2>2. QED
      BY <2>1, LinesOfKinds
  <1>3. \A k \in DOMAIN env : Pair(k, env[k]) \in Line
    BY LinesOfKinds, Zenon DEF IsEnv
  <1>4. head \in Seq(Line) /\ Len(head) = 2 /\ head[1] = Table("sofarpc") /\ head[2] = Pair("command", r)
    BY <1>2
  <1>5. mid \in Seq(Line) /\ (env = NoEnv => Len(mid) = 0)
        /\ (env # NoEnv => Len(mid) = 1 /\ mid[1] = Table("sofarpc.env"))
    BY <1>2
  <1> HIDE DEF order, n
  <1>6. rest \in [1..n -> Line] /\ \A i \in 1..n : rest[i] = Pair(order[i], env[order[i]]) /\ order[i] \in DOMAIN env
    BY <1>1, <1>3
  <1>7. rest \in Seq(Line) /\ Len(rest) = n
    <2> HIDE DEF rest
    <2>1. QED
      BY <1>1, <1>6
  <1>8. env = NoEnv <=> n = 0
    <2>1. ASSUME env = NoEnv PROVE n = 0
      <3>1. DOMAIN env = {}
        BY <2>1 DEF NoEnv
      <3>2. QED
        BY <3>1, FS_EmptySet DEF n
    <2>2. ASSUME n = 0 PROVE env = NoEnv
      <3>1. DOMAIN env = {}
        <4>1. 1..n = {}
          BY <2>2
        <4>2. QED
          BY <1>1, <4>1
      <3>2. QED
        BY <3>1 DEF NoEnv, IsEnv
    <2>3. QED
      BY <2>1, <2>2
  <1>9. Rendered(r, env) = head \o mid \o rest
    BY Zenon DEF Rendered, order
  <1> HIDE DEF head, mid, rest
  <1> DEFINE t == head \o mid \o rest
             front == head \o mid
  <1>10. front \in Seq(Line) /\ Len(front) = 2 + Len(mid) /\ front[1] = Table("sofarpc")
         /\ front[2] = Pair("command", r) /\ (Len(mid) = 1 => front[3] = mid[1])
    <2>1. Len(mid) \in Nat /\ 1 \in 1..Len(head) + Len(mid) /\ 2 \in 1..Len(head) + Len(mid)
      BY <1>4, <1>5
    <2>2. /\ front \in Seq(Line) /\ Len(front) = Len(head) + Len(mid)
          /\ \A i \in 1..Len(head) + Len(mid) : front[i] = IF i <= Len(head) THEN head[i] ELSE mid[i - Len(head)]
      BY <1>4, <1>5, ConcatProperties, Zenon
    <2> HIDE DEF front
    <2>3. front[1] = head[1] /\ front[2] = head[2]
      BY <1>4, <2>1, <2>2
    <2>4. ASSUME Len(mid) = 1 PROVE front[3] = mid[1]
      <3>1. 3 \in 1..Len(head) + Len(mid) /\ ~(3 <= Len(head)) /\ 3 - Len(head) = 1
        BY <1>4, <2>4
      <3>2. QED
        BY <2>2, <3>1
    <2>5. QED
      BY <1>4, <2>2, <2>3, <2>4
  <1>11. t \in Seq(Line) /\ Len(t) = 2 + Len(mid) + n
         /\ \A i \in 1..Len(t) : t[i] = IF i <= Len(front) THEN front[i] ELSE rest[i - Len(front)]
    <2>1. t = front \o rest
      OBVIOUS
    <2> HIDE DEF t, front
    <2>2. /\ front \o rest \in Seq(Line) /\ Len(front \o rest) = Len(front) + Len(rest)
          /\ \A i \in 1..Len(front) + Len(rest) :
               (front \o rest)[i] = IF i <= Len(front) THEN front[i] ELSE rest[i - Len(front)]
      <3>1. front \in Seq(Line) /\ rest \in Seq(Line)
        BY <1>7, <1>10
      <3>2. QED
        BY <3>1, ConcatProperties, Zenon
    <2>3. QED
      BY <1>7, <1>10, <2>1, <2>2
  <1> HIDE DEF front
  <1>12. Len(mid) = IF n = 0 THEN 0 ELSE 1
    BY <1>5, <1>8
  <1> HIDE DEF t
  <1>13. /\ Len(t) >= 2 /\ t[1] = Table("sofarpc") /\ t[2] = Pair("command", r)
         /\ Len(t) >= 3 => t[3] = Table("sofarpc.env")
    BY <1>1, <1>5, <1>8, <1>10, <1>11, <1>12
  <1>14. ASSUME NEW i \in 4..Len(t) PROVE i - 3 \in 1..n /\ t[i] = rest[i - 3]
    <2>1. n # 0 /\ Len(front) = 3 /\ i \in 1..Len(t) /\ ~(i <= 3) /\ i - 3 \in 1..n
      BY <1>1, <1>10, <1>11, <1>12
    <2>2. QED
      BY <1>11, <2>1
  <1>15. ASSUME NEW i \in 1..n PROVE i + 3 \in 4..Len(t) /\ t[i + 3] = rest[i]
    <2>1. n # 0 /\ Len(front) = 3 /\ i + 3 \in 1..Len(t) /\ ~(i + 3 <= 3) /\ (i + 3) - 3 = i /\ i + 3 \in 4..Len(t)
      BY <1>1, <1>10, <1>11, <1>12
    <2>2. QED
      BY <1>11, <2>1
  <1>16. ASSUME NEW i \in 4..Len(t) PROVE \E k \in DOMAIN env : t[i] = Pair(k, env[k])
    BY <1>6, <1>14
  <1>17. ASSUME NEW k \in DOMAIN env PROVE \E i \in 4..Len(t) : t[i] = Pair(k, env[k])
    <2>1. PICK i \in 1..n : order[i] = k
      BY <1>1
    <2>2. t[i + 3] = Pair(k, env[k]) /\ i + 3 \in 4..Len(t)
      BY <1>6, <1>15, <2>1
    <2>3. QED
      BY <2>2
  <1>18. QED
    BY <1>9, <1>11, <1>13, <1>16, <1>17, Zenon DEF IsEntry, t

(* What is kept has none of our tables, and no table twice if the file had *)
(* none twice. *)
IsStripped(s) == \A i \in 1..Len(s) : Owner(s, i) # Table("sofarpc") /\ Owner(s, i) # Table("sofarpc.env")

LEMMA StrippedIs ==
  ASSUME NEW lines \in Seq(Line)
  PROVE  /\ Stripped(lines) \in Seq(Line)
         /\ IsStripped(Stripped(lines))
         /\ \A i \in 1..Len(Stripped(lines)) : Stripped(lines)[i].kind # "pair" => Stripped(lines)[i].name \notin Ours
         /\ Readable(lines) => Readable(Stripped(lines))
         /\ \A i \in 1..Len(Stripped(lines)) : \E j \in 1..Len(lines) : Stripped(lines)[i] = lines[j]
  <1> DEFINE places == {i \in DOMAIN lines : Under(lines, i) \notin Ours}
             s == Stripped(lines)
  <1>1. s = Picked(lines, places)
    BY Zenon DEF Stripped
  <1> HIDE DEF s
  <1>2. s \in Seq(Line)
    BY <1>1, PickedAre
  <1>3. PICK e : Embeds(e, s, lines, places, Len(lines))
    <2> HIDE DEF places
    <2>1. QED
      BY <1>1, PickedAre
  <1>4. /\ \A i \in 1..Len(s) : e[i] \in 1..Len(lines) /\ Under(lines, e[i]) \notin Ours /\ s[i] = lines[e[i]]
        /\ \A i, j \in 1..Len(s) : e[i] = e[j] => i = j
    BY <1>3 DEF Embeds
  <1>5. ASSUME NEW i \in 1..Len(s), s[i].kind # "pair" PROVE s[i] \in Line /\ s[i].name \notin Ours
    <2>1. s[i] \in Line
      BY <1>2
    <2>2. SUFFICES ASSUME s[i].kind = "table", s[i].name \in Ours PROVE FALSE
      BY <1>5, <2>1, KindsOfLines
    <2>3. e[i] \in 1..Len(lines) /\ e[i] \in Nat /\ lines[e[i]].kind = "table" /\ lines[e[i]].name \in Ours
      BY <1>4, <2>2
    <2>4. UnderHeader(lines, e[i], e[i]) /\ Title(lines[e[i]]) = lines[e[i]].name
      BY <2>3 DEF UnderHeader, IsHeader, Title
    <2>5. Under(lines, e[i]) \in Ours
      BY <2>3, <2>4, UnderIs
    <2>6. QED
      BY <1>4, <2>5
  <1>6. ASSUME NEW i \in 1..Len(s), NEW n \in Ours PROVE Owner(s, i) # Table(n)
    <2>1. i \in Nat /\ Len(s) \in Nat
      BY <1>2
    <2>2. CASE NoneAbove(s, i)
      <3>1. Owner(s, i) = Table("top")
        BY <2>1, <2>2, OwnerIs
      <3>2. "top" # n
        BY DEF Ours
      <3>3. QED
        BY <3>1, <3>2, LinesOfKinds
    <2>3. CASE \E h : Above(s, i, h)
      <3>1. PICK h : Above(s, i, h)
        BY <2>3
      <3>2. Owner(s, i) = Opens(s[h])
        BY <2>1, <3>1, OwnerIs
      <3>3. h \in 1..Len(s) /\ s[h].kind # "pair"
        BY <2>1, <3>1 DEF Above
      <3>4. s[h] \in Line /\ s[h].name \notin Ours
        BY <1>5, <3>3
      <3>5. Opens(s[h]) # Table(n)
        <4>1. CASE Defines(s[h])
          <5>1. Opens(s[h]) = Table(s[h].name)
            BY <4>1 DEF Opens
          <5>2. QED
            BY <3>4, <5>1, LinesOfKinds
        <4>2. CASE ~Defines(s[h])
          BY <4>2 DEF Opens, Defines, Table
        <4>3. QED
          BY <4>1, <4>2
      <3>6. QED
        BY <3>2, <3>5
    <2>4. QED
      BY <2>1, <2>2, <2>3, OwnerIs
  <1>7. ASSUME Readable(lines) PROVE Readable(s)
    <2>1. SUFFICES ASSUME NEW i \in 1..Len(s), NEW j \in 1..Len(s), Defines(s[i]), s[j].kind # "pair",
                          s[j].name = s[i].name
                   PROVE  i = j
      BY <1>2 DEF Readable
    <2>2. /\ e[i] \in DOMAIN lines /\ e[j] \in DOMAIN lines
          /\ Defines(lines[e[i]]) /\ lines[e[j]].kind # "pair" /\ lines[e[j]].name = lines[e[i]].name
      BY <1>4, <2>1
    <2>3. e[i] = e[j]
      BY <1>7, <2>2 DEF Readable
    <2>4. QED
      BY <1>4, <2>3
  <1>8. "sofarpc" \in Ours /\ "sofarpc.env" \in Ours
    BY DEF Ours
  <1>9. IsStripped(s)
    BY <1>6, <1>8, Zenon DEF IsStripped
  <1>10. \A i \in 1..Len(s) : s[i].kind # "pair" => s[i].name \notin Ours
    BY <1>5
  <1>11. \A i \in 1..Len(s) : \E j \in 1..Len(lines) : s[i] = lines[j]
    BY <1>4
  <1>12. QED
    BY <1>2, <1>7, <1>9, <1>10, <1>11 DEF s

(* Behind a header of its own a part keeps its owners; before it nothing   *)
(* changes.                                                                *)
LEMMA OwnerJoined ==
  ASSUME NEW s \in Seq(Line), NEW t \in Seq(Line)
  PROVE  /\ \A i \in 1..Len(s) : Owner(s \o t, i) = Owner(s, i)
         /\ \A j \in 1..Len(t), h \in 1..Len(t) : Above(t, j, h) => Owner(s \o t, Len(s) + j) = Opens(t[h])
         /\ \A j \in 1..Len(t) : NoneAbove(t, j) /\ NoneAbove(s, Len(s)) => Owner(s \o t, Len(s) + j) = Table("top")
  <1> DEFINE lines == s \o t
             n == Len(s)
             m == Len(t)
  <1>1. /\ n \in Nat /\ m \in Nat /\ Len(lines) = n + m
        /\ \A i \in 1..n : lines[i] = s[i]
        /\ \A j \in 1..m : lines[n + j] = t[j]
    OBVIOUS
  <1> HIDE DEF lines, n, m
  <1>2. ASSUME NEW i \in 1..n PROVE Owner(lines, i) = Owner(s, i)
    <2>1. i \in Nat /\ \A k \in 1..i : lines[k] = s[k]
      BY <1>1
    <2>2. CASE NoneAbove(s, i)
      <3>1. NoneAbove(lines, i)
        BY <2>1, <2>2 DEF NoneAbove
      <3>2. QED
        BY <2>1, <2>2, <3>1, OwnerIs
    <2>3. ASSUME NEW h, Above(s, i, h) PROVE Owner(lines, i) = Owner(s, i)
      <3>1. Above(lines, i, h) /\ lines[h] = s[h]
        BY <2>1, <2>3 DEF Above
      <3>2. Owner(lines, i) = Opens(lines[h]) /\ Owner(s, i) = Opens(s[h])
        BY <2>1, <2>3, <3>1, OwnerIs
      <3>3. QED
        BY <3>1, <3>2
    <2>4. QED
      BY <2>1, <2>2, <2>3, OwnerIs
  <1>3. ASSUME NEW j \in 1..m, NEW h \in 1..m, Above(t, j, h) PROVE Owner(lines, n + j) = Opens(t[h])
    <2>1. n + j \in Nat /\ n + h \in 1..n + j /\ lines[n + h] = t[h]
      BY <1>1, <1>3 DEF Above
    <2>2. ASSUME NEW k \in 1..n + j, lines[k].kind # "pair" PROVE k <= n + h
      <3>1. CASE k <= n
        BY <1>1, <3>1
      <3>2. CASE k > n
        <4>1. k - n \in 1..m /\ k - n \in 1..j /\ n + (k - n) = k
          BY <1>1, <2>2, <3>2
        <4>2. lines[k] = t[k - n]
          <5>1. lines[n + (k - n)] = t[k - n]
            BY <1>1, <4>1
          <5>2. QED
            BY <4>1, <5>1
        <4>3. k - n <= h
          BY <1>3, <2>2, <4>1, <4>2 DEF Above
        <4>4. QED
          BY <1>1, <4>3
      <3>3. QED
        BY <1>1, <3>1, <3>2
    <2>3. lines[n + h].kind # "pair"
      BY <1>3, <2>1 DEF Above
    <2>4. Above(lines, n + j, n + h)
      BY <2>1, <2>2, <2>3 DEF Above
    <2>5. QED
      BY <2>1, <2>4, OwnerIs
  <1>4. ASSUME NEW j \in 1..m, NoneAbove(t, j), NoneAbove(s, n) PROVE Owner(lines, n + j) = Table("top")
    <2>1. ASSUME NEW k \in 1..n + j PROVE lines[k].kind = "pair"
      <3>1. CASE k <= n
        <4>1. k \in 1..n
          BY <1>1, <3>1
        <4>2. QED
          BY <1>1, <1>4, <4>1 DEF NoneAbove
      <3>2. CASE k > n
        <4>1. k - n \in 1..m /\ k - n \in 1..j /\ n + (k - n) = k
          BY <1>1, <3>2
        <4>2. lines[k] = t[k - n]
          <5>1. lines[n + (k - n)] = t[k - n]
            BY <1>1, <4>1
          <5>2. QED
            BY <4>1, <5>1
        <4>3. QED
          BY <1>4, <4>1, <4>2 DEF NoneAbove
      <3>3. QED
        BY <1>1, <3>1, <3>2
    <2>2. NoneAbove(lines, n + j) /\ n + j \in Nat
      BY <1>1, <2>1 DEF NoneAbove
    <2>3. QED
      BY <2>2, OwnerIs
  <1>5. QED
    BY <1>2, <1>3, <1>4 DEF lines, n, m

(* The owners in an entry. *)
LEMMA EntryOwners ==
  ASSUME NEW r \in Runs, NEW env, NEW t, IsEntry(t, r, env)
  PROVE  /\ Above(t, 1, 1) /\ Above(t, 2, 1)
         /\ \A j \in 3..Len(t) : Above(t, j, 3)
  <1>1. t[1].kind = "table" /\ t[2].kind = "pair"
    BY DEF IsEntry, Table, Pair
  <1>2. Len(t) \in Nat /\ Len(t) >= 2
    BY DEF IsEntry
  <1>3. ASSUME NEW j \in 4..Len(t) PROVE t[j].kind = "pair"
    <2>1. PICK k \in DOMAIN env : t[j] = Pair(k, env[k])
      BY DEF IsEntry
    <2>2. QED
      BY <2>1 DEF Pair
  <1>4. Len(t) >= 3 => t[3].kind = "table"
    BY DEF IsEntry, Table
  <1>5. Above(t, 1, 1) /\ Above(t, 2, 1)
    <2>1. \A k \in 1..2 : k = 1 \/ k = 2
      OBVIOUS
    <2>2. QED
      BY <1>1, <2>1 DEF Above
  <1>6. ASSUME NEW j \in 3..Len(t) PROVE Above(t, j, 3)
    <2>1. ASSUME NEW k \in 1..j, t[k].kind # "pair" PROVE k <= 3
      <3>1. ~(k \in 4..Len(t))
        BY <1>3, <2>1
      <3>2. QED
        BY <1>2, <3>1
    <2>2. 3 \in 1..j /\ t[3].kind # "pair"
      BY <1>2, <1>4
    <2>3. QED
      BY <2>1, <2>2 DEF Above
  <1>7. QED
    BY <1>5, <1>6

(* What a run has registered: the file with an entry of its own behind the *)
(* rest.                                                                   *)
Registered(new, s, t, r, env) ==
  new = s \o t /\ s \in Seq(Line) /\ IsStripped(s) /\ IsEntry(t, r, env)

LEMMA RegisteredPairs ==
  ASSUME NEW r \in Runs, NEW env, IsEnv(env), NEW s, NEW t, NEW new, Registered(new, s, t, r, env)
  PROVE  /\ PairsOf(new, "sofarpc") = {Pair("command", r)}
         /\ PairsOf(new, "sofarpc.env") = {Pair(k, env[k]) : k \in DOMAIN env}
         /\ \A i \in DOMAIN new : (Owner(new, i) \notin {Table(n) : n \in Ours}) <=> i \in 1..Len(s)
  <1> DEFINE n == Len(s)
             m == Len(t)
             A == Table("sofarpc")
             B == Table("sofarpc.env")
  <1>1. /\ s \in Seq(Line) /\ t \in Seq(Line) /\ n \in Nat /\ m \in Nat /\ m >= 2
        /\ new \in Seq(Line) /\ Len(new) = n + m /\ DOMAIN new = 1..n + m
        /\ \A i \in 1..n : new[i] = s[i]
        /\ \A j \in 1..m : new[n + j] = t[j]
    <2>1. new = s \o t /\ s \in Seq(Line) /\ t \in Seq(Line) /\ Len(t) >= 2
      BY DEF Registered, IsEntry
    <2>2. QED
      BY <2>1
  <1>2. /\ t[1] = A /\ t[2] = Pair("command", r) /\ (m >= 3 => t[3] = B)
        /\ \A i \in 4..m : \E k \in DOMAIN env : t[i] = Pair(k, env[k])
        /\ \A k \in DOMAIN env : \E i \in 4..m : t[i] = Pair(k, env[k])
    BY DEF Registered, IsEntry
  <1> HIDE DEF n, m
  <1>3. \A i \in 1..n : Owner(new, i) # A /\ Owner(new, i) # B
    <2>1. \A i \in 1..n : Owner(new, i) = Owner(s, i)
      BY <1>1, OwnerJoined DEF Registered, n
    <2>2. \A i \in 1..n : Owner(s, i) # A /\ Owner(s, i) # B
      BY DEF Registered, IsStripped, n
    <2>3. QED
      BY <2>1, <2>2
  <1>4. Owner(new, n + 1) = A /\ Owner(new, n + 2) = A /\ \A j \in 3..m : Owner(new, n + j) = B
    <2>1. \A j \in 1..m, h \in 1..m : Above(t, j, h) => Owner(new, n + j) = Opens(t[h])
      BY <1>1, OwnerJoined DEF Registered, n, m
    <2>2. Above(t, 1, 1) /\ Above(t, 2, 1) /\ \A j \in 3..m : Above(t, j, 3)
      BY EntryOwners DEF Registered, m
    <2>3. 1 \in 1..m /\ 2 \in 1..m
      BY <1>1
    <2>4. Opens(A) = A /\ Opens(B) = B
      BY DEF Opens, Defines, Table
    <2>5. ASSUME NEW j \in 3..m PROVE Owner(new, n + j) = B
      <3>1. 3 \in 1..m /\ j \in 1..m /\ m >= 3
        BY <1>1
      <3>2. QED
        BY <1>2, <2>1, <2>2, <2>4, <3>1
    <2>6. QED
      BY <1>2, <2>1, <2>2, <2>3, <2>4, <2>5
  <1>5. A # B /\ A.kind = "table" /\ B.kind = "table"
    BY DEF Table
  <1>6. \A i \in 1..n + m : i \in 1..n \/ i = n + 1 \/ i = n + 2 \/ \E j \in 3..m : i = n + j
    <2>1. ASSUME NEW i \in 1..n + m, i \notin 1..n, i # n + 1, i # n + 2 PROVE \E j \in 3..m : i = n + j
      <3>1. i - n \in 3..m /\ i = n + (i - n)
        BY <1>1, <2>1
      <3>2. QED
        BY <3>1
    <2>2. QED
      BY <2>1
  <1>7. n + 1 \in DOMAIN new /\ n + 2 \in DOMAIN new /\ new[n + 1] = A /\ new[n + 2] = Pair("command", r)
        /\ \A j \in 3..m : n + j \in DOMAIN new /\ new[n + j] = t[j]
    BY <1>1, <1>2
  <1> HIDE DEF A, B
  <1>8. PairsOf(new, "sofarpc") = {Pair("command", r)}
    <2>1. PairsOf(new, "sofarpc") = {new[i] : i \in {j \in DOMAIN new : new[j].kind = "pair" /\ Owner(new, j) = A}}
      BY DEF PairsOf, A
    <2>2. ASSUME NEW i \in DOMAIN new, new[i].kind = "pair", Owner(new, i) = A PROVE new[i] = Pair("command", r)
      <3>1. i \in 1..n + m /\ i \notin 1..n /\ i # n + 1
        BY <1>1, <1>3, <1>5, <1>7, <2>2
      <3>2. ASSUME NEW j \in 3..m, i = n + j PROVE FALSE
        BY <1>4, <1>5, <2>2, <3>2
      <3>3. QED
        BY <1>6, <1>7, <3>1, <3>2
    <2>3. n + 2 \in DOMAIN new /\ new[n + 2].kind = "pair" /\ Owner(new, n + 2) = A
      BY <1>4, <1>7 DEF Pair
    <2>4. QED
      BY <1>7, <2>1, <2>2, <2>3
  <1>9. PairsOf(new, "sofarpc.env") = {Pair(k, env[k]) : k \in DOMAIN env}
    <2>1. PairsOf(new, "sofarpc.env") = {new[i] : i \in {j \in DOMAIN new : new[j].kind = "pair" /\ Owner(new, j) = B}}
      BY DEF PairsOf, B
    <2>2. ASSUME NEW i \in DOMAIN new, new[i].kind = "pair", Owner(new, i) = B
          PROVE  \E k \in DOMAIN env : new[i] = Pair(k, env[k])
      <3>1. PICK j \in 3..m : i = n + j
        BY <1>1, <1>3, <1>4, <1>5, <1>6, <2>2
      <3>2. j # 3
        BY <1>2, <1>5, <1>7, <2>2, <3>1
      <3>3. j \in 4..m
        BY <1>1, <3>2
      <3>4. QED
        BY <1>2, <1>7, <3>1, <3>3
    <2>3. ASSUME NEW k \in DOMAIN env
          PROVE  \E i \in DOMAIN new : new[i].kind = "pair" /\ Owner(new, i) = B /\ new[i] = Pair(k, env[k])
      <3>1. PICK j \in 4..m : t[j] = Pair(k, env[k])
        BY <1>2
      <3>2. j \in 3..m
        BY <1>1
      <3>3. n + j \in DOMAIN new /\ new[n + j] = Pair(k, env[k]) /\ Owner(new, n + j) = B
        BY <1>4, <1>7, <3>1, <3>2
      <3>4. Pair(k, env[k]).kind = "pair"
        BY DEF Pair
      <3>5. QED
        BY <3>3, <3>4
    <2>4. QED
      BY <2>1, <2>2, <2>3
  <1>10. ASSUME NEW i \in DOMAIN new PROVE (Owner(new, i) \notin {Table(o) : o \in Ours}) <=> i \in 1..n
    <2>1. {Table(o) : o \in Ours} = {A, B}
      BY DEF Ours, A, B
    <2>2. ASSUME i \in 1..n PROVE Owner(new, i) \notin {A, B}
      BY <1>3, <2>2
    <2>3. ASSUME i \notin 1..n PROVE Owner(new, i) \in {A, B}
      <3>1. i \in 1..n + m
        BY <1>1
      <3>2. QED
        BY <1>4, <1>6, <2>3, <3>1
    <2>4. QED
      BY <2>1, <2>2, <2>3
  <1>11. QED
    BY <1>8, <1>9, <1>10 DEF n

(* No table is defined twice in what a run has registered. *)
LEMMA RegisteredReadable ==
  ASSUME NEW r \in Runs, NEW env, NEW s, NEW t, NEW new, Registered(new, s, t, r, env), Readable(s),
         \A i \in 1..Len(s) : s[i].kind # "pair" => s[i].name \notin Ours
  PROVE  Readable(new)
  <1> DEFINE n == Len(s)
             m == Len(t)
             A == Table("sofarpc")
             B == Table("sofarpc.env")
  <1>1. /\ n \in Nat /\ m \in Nat /\ DOMAIN new = 1..n + m /\ DOMAIN s = 1..n
        /\ \A i \in 1..n : new[i] = s[i]
        /\ \A j \in 1..m : new[n + j] = t[j]
    <2>1. new = s \o t /\ s \in Seq(Line) /\ t \in Seq(Line)
      BY DEF Registered, IsEntry
    <2>2. QED
      BY <2>1
  <1>2. t[1] = A /\ t[2].kind = "pair" /\ (m >= 3 => t[3] = B) /\ \A i \in 4..m : t[i].kind = "pair"
    <2>1. IsEntry(t, r, env)
      BY DEF Registered
    <2>2. t[1] = A /\ t[2].kind = "pair" /\ (m >= 3 => t[3] = B)
      BY <2>1 DEF IsEntry, Pair
    <2>3. ASSUME NEW i \in 4..m PROVE t[i].kind = "pair"
      <3>1. PICK k \in DOMAIN env : t[i] = Pair(k, env[k])
        BY <2>1 DEF IsEntry
      <3>2. QED
        BY <3>1 DEF Pair
    <2>4. QED
      BY <2>2, <2>3
  <1>3. A.name = "sofarpc" /\ B.name = "sofarpc.env" /\ A.name \in Ours /\ B.name \in Ours
    BY DEF Table, Ours
  <1>4. \A i \in 1..n : s[i].kind # "pair" => s[i].name \notin Ours
    OBVIOUS
  <1> HIDE DEF n, m, A, B
  <1>5. ASSUME NEW i \in 1..n + m, new[i].kind # "pair", i \notin 1..n
        PROVE  (i = n + 1 /\ new[i] = A) \/ (i = n + 3 /\ new[i] = B)
    <2>1. i - n \in 1..m /\ new[i] = t[i - n] /\ i = n + (i - n)
      <3>1. i - n \in 1..m /\ i = n + (i - n)
        BY <1>1, <1>5
      <3>2. QED
        BY <1>1, <3>1
    <2>2. i - n = 1 \/ i - n = 3
      BY <1>1, <1>2, <1>5, <2>1
    <2>3. QED
      BY <1>1, <1>2, <2>1, <2>2
  <1>6. ASSUME NEW i \in 1..n + m, NEW j \in 1..n + m, Defines(new[i]), new[j].kind # "pair",
               new[j].name = new[i].name
        PROVE  i = j
    <2>1. new[i].kind # "pair"
      BY <1>6 DEF Defines
    <2>2. CASE i \in 1..n /\ j \in 1..n
      <3>1. Defines(s[i]) /\ s[j].kind # "pair" /\ s[j].name = s[i].name
        BY <1>1, <1>6, <2>2
      <3>2. QED
        BY <1>1, <2>2, <3>1 DEF Readable
    <2>3. CASE i \in 1..n /\ j \notin 1..n
      <3>1. new[j].name \in Ours
        BY <1>3, <1>5, <1>6, <2>3
      <3>2. new[i].name \notin Ours
        BY <1>1, <1>4, <2>1, <2>3
      <3>3. QED
        BY <1>6, <3>1, <3>2
    <2>4. CASE i \notin 1..n /\ j \in 1..n
      <3>1. new[i].name \in Ours
        BY <1>3, <1>5, <2>1, <2>4
      <3>2. new[j].name \notin Ours
        BY <1>1, <1>4, <1>6, <2>4
      <3>3. QED
        BY <1>6, <3>1, <3>2
    <2>5. CASE i \notin 1..n /\ j \notin 1..n
      BY <1>3, <1>5, <1>6, <2>1, <2>5
    <2>6. QED
      BY <2>2, <2>3, <2>4, <2>5
  <1>7. QED
    BY <1>1, <1>6 DEF Readable

(* What the code finds of the environment that was there. *)
EnvPairs(lines) ==
  {i \in DOMAIN lines : /\ lines[i].kind = "pair" /\ lines[i].value # NotAString
                        /\ Under(lines, i) = "sofarpc.env"}

LEMMA ReadEnvIs ==
  ASSUME NEW lines \in Seq(Line)
  PROVE  /\ IsEnv(ReadEnv(lines))
         /\ DOMAIN ReadEnv(lines) = {lines[i].name : i \in EnvPairs(lines)}
         /\ \A k \in DOMAIN ReadEnv(lines) :
              \E i \in EnvPairs(lines) : lines[i] = Pair(k, ReadEnv(lines)[k])
  <1> DEFINE pairs == EnvPairs(lines)
             LastOf(k) == CHOOSE i \in pairs : lines[i].name = k /\ \A j \in pairs : lines[j].name = k => j <= i
             names == {lines[i].name : i \in pairs}
             old == ReadEnv(lines)
  <1>1. old = [k \in names |-> lines[LastOf(k)].value]
    BY Zenon DEF ReadEnv, EnvPairs
  <1>2. Len(lines) \in Nat /\ pairs \in SUBSET (1..Len(lines))
    BY DEF EnvPairs
  <1>3. \A i \in pairs : lines[i] \in Line /\ lines[i].kind = "pair"
    BY DEF EnvPairs
  <1> HIDE DEF old, pairs
  <1>4. ASSUME NEW k \in names PROVE LastOf(k) \in pairs /\ lines[LastOf(k)].name = k
    <2> DEFINE same == {i \in pairs : lines[i].name = k}
    <2>1. same # {} /\ same \in SUBSET (1..Len(lines))
      BY <1>2, <1>4
    <2>2. PICK j \in same : \A i \in same : i <= j
      <3> HIDE DEF same
      <3>1. QED
        BY <1>2, <2>1, LastOne
    <2>3. j \in pairs /\ lines[j].name = k /\ \A i \in pairs : lines[i].name = k => i <= j
      BY <2>2
    <2> HIDE DEF same
    <2>4. QED
      BY <2>3
  <1> HIDE DEF LastOf
  <1>5. ASSUME NEW k \in names PROVE lines[LastOf(k)] = Pair(k, old[k]) /\ old[k] \in LineValues /\ k \in LineNames
    <2>1. lines[LastOf(k)] \in Line /\ lines[LastOf(k)].kind = "pair" /\ lines[LastOf(k)].name = k
      BY <1>3, <1>4
    <2>2. old[k] = lines[LastOf(k)].value
      BY <1>1
    <2>3. QED
      BY <2>1, <2>2, KindsOfLines
  <1>6. IsFiniteSet(names)
    <2>1. IsFiniteSet(1..Len(lines))
      BY <1>2, FS_Interval
    <2>2. IsFiniteSet(pairs)
      BY <1>2, <2>1, FS_Subset
    <2> DEFINE f == [i \in pairs |-> lines[i].name]
    <2>3. f \in Surjection(pairs, names)
      <3>1. f \in [pairs -> names]
        OBVIOUS
      <3>2. \A n \in names : \E i \in pairs : f[i] = n
        OBVIOUS
      <3>3. QED
        BY <3>1, <3>2 DEF Surjection
    <2> HIDE DEF f, names
    <2>4. QED
      BY <2>2, <2>3, FS_Surjection
  <1>7. DOMAIN old = names
    BY <1>1
  <1>8. old = [k \in DOMAIN old |-> old[k]]
    BY <1>1
  <1> HIDE DEF names
  <1>9. IsEnv(old)
    BY <1>5, <1>6, <1>7, <1>8 DEF IsEnv
  <1>10. \A k \in DOMAIN old : \E i \in pairs : lines[i] = Pair(k, old[k])
    BY <1>4, <1>5, <1>7
  <1>11. QED
    BY <1>7, <1>9, <1>10 DEF old, pairs, names

LEMMA EnvironmentIs ==
  ASSUME NEW o \in Options, NEW old, IsEnv(old)
  PROVE  IsEnv(Environment(o, old))
  <1> DEFINE kept == IF o.replace THEN {} ELSE {k \in DOMAIN old \ ProjectKeys : old[k] # NotAString}
             all == kept \cup DOMAIN o.env
             new == Environment(o, old)
  <1>1. new = [k \in all |-> IF k \in DOMAIN o.env THEN o.env[k] ELSE old[k]]
    BY Zenon DEF Environment
  <1>2. kept \in SUBSET DOMAIN old
    OBVIOUS
  <1>3. IsFiniteSet(DOMAIN old) /\ \A k \in DOMAIN old : k \in LineNames /\ old[k] \in LineValues
    BY DEF IsEnv
  <1>4. IsFiniteSet(DOMAIN o.env) /\ \A k \in DOMAIN o.env : k \in LineNames /\ o.env[k] \in LineValues
    <2>1. IsFiniteSet(DOMAIN o.env)
      BY SetupAssumption
    <2>2. \A k \in DOMAIN o.env : k \in FlagNames /\ o.env[k] \in FlagValues
      BY DEF FlagNames, FlagValues
    <2>3. QED
      BY <2>1, <2>2 DEF LineNames, LineValues
  <1> HIDE DEF kept, new
  <1>5. IsFiniteSet(all)
    BY <1>2, <1>3, <1>4, FS_Subset, FS_Union
  <1>6. DOMAIN new = all /\ new = [k \in DOMAIN new |-> new[k]]
    BY <1>1
  <1>7. \A k \in all : k \in LineNames /\ new[k] \in LineValues
    BY <1>1, <1>2, <1>3, <1>4
  <1>8. QED
    BY <1>5, <1>6, <1>7 DEF IsEnv, new

(* What a run makes of the lines it has read. *)
LEMMA UpsertedIs ==
  ASSUME NEW r \in Runs, opt[r] \in Options, NEW lines \in Seq(Line)
  PROVE  LET env == Environment(opt[r], ReadEnv(lines))
             new == UpsertedLines(r, lines)
         IN  /\ IsEnv(env)
             /\ Registered(new, Stripped(lines), Rendered(r, env), r, env)
             /\ new \in Seq(Line)
             /\ Readable(lines) => Readable(new)
             /\ PairsOf(new, "sofarpc") = {Pair("command", r)}
             /\ PairsOf(new, "sofarpc.env") = {Pair(k, env[k]) : k \in DOMAIN env}
  <1> DEFINE env == Environment(opt[r], ReadEnv(lines))
             s == Stripped(lines)
             t == Rendered(r, env)
             new == UpsertedLines(r, lines)
  <1>1. IsEnv(env)
    BY ReadEnvIs, EnvironmentIs, Zenon
  <1>2. IsEntry(t, r, env)
    BY <1>1, RenderedIs, Zenon
  <1>3. s \in Seq(Line) /\ IsStripped(s) /\ (Readable(lines) => Readable(s))
        /\ \A i \in 1..Len(s) : s[i].kind # "pair" => s[i].name \notin Ours
    BY StrippedIs, Zenon
  <1>4. new = s \o t
    BY Zenon DEF UpsertedLines
  <1> HIDE DEF env, s, t, new
  <1>5. Registered(new, s, t, r, env)
    BY <1>2, <1>3, <1>4, Zenon DEF Registered
  <1>6. new \in Seq(Line)
    BY <1>2, <1>3, <1>4 DEF IsEntry
  <1>7. Readable(lines) => Readable(new)
    BY <1>3, <1>5, RegisteredReadable, Zenon
  <1>8. PairsOf(new, "sofarpc") = {Pair("command", r)} /\ PairsOf(new, "sofarpc.env") = {Pair(k, env[k]) : k \in DOMAIN env}
    BY <1>1, <1>5, RegisteredPairs, Zenon
  <1>9. QED
    BY <1>1, <1>5, <1>6, <1>7, <1>8 DEF env, s, t, new

(* A setting before the first header changes none of our tables. *)
LEMMA Prepended ==
  ASSUME NEW lines \in Seq(Line), NEW l \in Line, l.kind = "pair"
  PROVE  /\ <<l>> \o lines \in Seq(Line)
         /\ Readable(lines) => Readable(<<l>> \o lines)
         /\ \A n \in Ours : PairsOf(<<l>> \o lines, n) = PairsOf(lines, n)
  <1> DEFINE new == <<l>> \o lines
             m == Len(lines)
  <1>1. /\ <<l>> \in Seq(Line) /\ Len(<<l>>) = 1 /\ <<l>>[1] = l
        /\ new \in Seq(Line) /\ m \in Nat /\ DOMAIN new = 1..m + 1 /\ DOMAIN lines = 1..m
        /\ new[1] = l /\ \A j \in 1..m : new[1 + j] = lines[j]
    OBVIOUS
  <1>2. ASSUME NEW j \in 1..m PROVE Owner(new, 1 + j) = Owner(lines, j)
    <2>1. j \in Nat /\ 1..j \in SUBSET (1..m)
      BY <1>1
    <2>2. CASE NoneAbove(lines, j)
      <3>1. NoneAbove(<<l>>, 1)
        BY <1>1 DEF NoneAbove
      <3>2. Owner(new, 1 + j) = Table("top")
        BY <1>1, <2>2, <3>1, OwnerJoined
      <3>3. QED
        BY <2>1, <2>2, <3>2, OwnerIs
    <2>3. ASSUME NEW h, Above(lines, j, h) PROVE Owner(new, 1 + j) = Owner(lines, j)
      <3>1. h \in 1..m
        BY <2>1, <2>3 DEF Above
      <3>2. Owner(new, Len(<<l>>) + j) = Opens(lines[h])
        BY <1>1, <2>3, <3>1, OwnerJoined
      <3>3. QED
        BY <1>1, <2>1, <2>3, <3>2, OwnerIs
    <2>4. QED
      BY <2>1, <2>2, <2>3, OwnerIs
  <1>3. Owner(new, 1) = Table("top")
    <2>1. NoneAbove(new, 1)
      BY <1>1 DEF NoneAbove
    <2>2. QED
      BY <2>1, OwnerIs
  <1> HIDE DEF new, m
  <1>4. \A i \in 1..m + 1 : i = 1 \/ \E j \in 1..m : i = 1 + j
    <2>1. ASSUME NEW i \in 1..m + 1, i # 1 PROVE \E j \in 1..m : i = 1 + j
      <3>1. i - 1 \in 1..m /\ i = 1 + (i - 1)
        BY <1>1, <2>1
      <3>2. QED
        BY <3>1
    <2>2. QED
      BY <2>1
  <1>5. ASSUME Readable(lines) PROVE Readable(new)
    <2>1. SUFFICES ASSUME NEW i \in 1..m + 1, NEW j \in 1..m + 1, Defines(new[i]), new[j].kind # "pair",
                          new[j].name = new[i].name
                   PROVE  i = j
      BY <1>1 DEF Readable
    <2>2. i # 1 /\ j # 1
      BY <1>1, <2>1 DEF Defines
    <2>3. PICK a \in 1..m, b \in 1..m : i = 1 + a /\ j = 1 + b
      BY <1>4, <2>2
    <2>4. Defines(lines[a]) /\ lines[b].kind # "pair" /\ lines[b].name = lines[a].name
      BY <1>1, <2>1, <2>3
    <2>5. a = b
      BY <1>1, <1>5, <2>4 DEF Readable
    <2>6. QED
      BY <2>3, <2>5
  <1>6. ASSUME NEW n \in Ours PROVE PairsOf(new, n) = PairsOf(lines, n)
    <2>1. Table("top") # Table(n)
      <3>1. "top" # n
        BY DEF Ours
      <3>2. QED
        BY <3>1, LinesOfKinds
    <2>2. ASSUME NEW i \in DOMAIN new, new[i].kind = "pair", Owner(new, i) = Table(n)
          PROVE  \E j \in DOMAIN lines : lines[j].kind = "pair" /\ Owner(lines, j) = Table(n) /\ lines[j] = new[i]
      <3>1. PICK j \in 1..m : i = 1 + j
        BY <1>1, <1>3, <1>4, <2>1, <2>2
      <3>2. QED
        BY <1>1, <1>2, <2>2, <3>1
    <2>3. ASSUME NEW j \in DOMAIN lines, lines[j].kind = "pair", Owner(lines, j) = Table(n)
          PROVE  \E i \in DOMAIN new : new[i].kind = "pair" /\ Owner(new, i) = Table(n) /\ lines[j] = new[i]
      <3>1. j \in 1..m /\ 1 + j \in DOMAIN new
        BY <1>1
      <3>2. new[1 + j].kind = "pair" /\ Owner(new, 1 + j) = Table(n) /\ lines[j] = new[1 + j]
        BY <1>1, <1>2, <2>3, <3>1
      <3>3. QED
        BY <3>1, <3>2
    <2>4. QED
      BY <2>2, <2>3 DEF PairsOf
  <1>7. QED
    BY <1>1, <1>5, <1>6 DEF new

(* A file without arrays of tables, and with no header in quotes or with a *)
(* comment behind it: there the code and TOML agree where a table ends.    *)
IsPlain(line) == line.kind \in {"table", "pair"}

Plain(lines) == \A i \in 1..Len(lines) : IsPlain(lines[i])

LEMMA PlainOwner ==
  ASSUME NEW lines \in Seq(Line), Plain(lines), NEW i \in 1..Len(lines)
  PROVE  Owner(lines, i) = Table(Under(lines, i))
  <1>1. i \in Nat /\ 1..i \in SUBSET (1..Len(lines))
    OBVIOUS
  <1>2. \A k \in 1..i : lines[k].kind # "pair" <=> lines[k].kind = "table"
    BY <1>1 DEF Plain, IsPlain
  <1>3. \A k \in 1..i : IsHeader(lines[k]) <=> lines[k].kind = "table"
    BY <1>1 DEF Plain, IsPlain, IsHeader
  <1>4. CASE NoneAbove(lines, i)
    <2>1. NoHeader(lines, i)
      BY <1>3, <1>4 DEF NoneAbove, NoHeader
    <2>2. Owner(lines, i) = Table("top") /\ Under(lines, i) = "top"
      BY <1>1, <1>4, <2>1, OwnerIs, UnderIs
    <2>3. QED
      BY <2>2
  <1>5. ASSUME NEW h, Above(lines, i, h) PROVE Owner(lines, i) = Table(Under(lines, i))
    <2>1. h \in 1..i /\ lines[h].kind = "table"
      BY <1>2, <1>5 DEF Above
    <2>2. Opens(lines[h]) = Table(lines[h].name) /\ Title(lines[h]) = lines[h].name
      BY <2>1 DEF Opens, Defines, Title
    <2>3. UnderHeader(lines, i, h)
      BY <1>2, <1>3, <1>5, <2>1 DEF Above, UnderHeader
    <2>4. Owner(lines, i) = Opens(lines[h]) /\ Under(lines, i) = Title(lines[h])
      BY <1>1, <1>5, <2>3, OwnerIs, UnderIs
    <2>5. QED
      BY <2>2, <2>4, Zenon
  <1>6. QED
    BY <1>1, <1>4, <1>5, OwnerIs

(* Registering keeps a plain file plain, and what is not ours as it was. *)
LEMMA ForeignKept ==
  ASSUME NEW r \in Runs, opt[r] \in Options, NEW lines \in Seq(Line), Plain(lines)
  PROVE  /\ Plain(UpsertedLines(r, lines))
         /\ Foreign(UpsertedLines(r, lines)) = Foreign(lines)
  <1> DEFINE env == Environment(opt[r], ReadEnv(lines))
             s == Stripped(lines)
             t == Rendered(r, env)
             new == UpsertedLines(r, lines)
             ours == {Table(n) : n \in Ours}
  <1>1. IsEnv(env) /\ Registered(new, s, t, r, env)
    BY UpsertedIs, Zenon
  <1>2. s \in Seq(Line) /\ \A i \in 1..Len(s) : \E j \in 1..Len(lines) : s[i] = lines[j]
    BY StrippedIs, Zenon
  <1>3. s = Picked(lines, {i \in DOMAIN lines : Under(lines, i) \notin Ours})
    BY Zenon DEF Stripped
  <1> HIDE DEF env, s, t, new
  <1>4. new = s \o t /\ t \in Seq(Line)
    BY <1>1 DEF Registered, IsEntry
  <1>5. Plain(new)
    <2>1. ASSUME NEW i \in 1..Len(new) PROVE IsPlain(new[i])
      <3>1. Len(s) \in Nat /\ Len(t) \in Nat /\ Len(new) = Len(s) + Len(t)
        BY <1>2, <1>4
      <3>2. CASE i <= Len(s)
        <4>1. new[i] = s[i] /\ i \in 1..Len(s)
          BY <1>2, <1>4, <3>1, <3>2
        <4>2. QED
          BY <1>2, <4>1 DEF Plain
      <3>3. CASE i > Len(s)
        <4>1. new[i] = t[i - Len(s)] /\ i - Len(s) \in 1..Len(t)
          BY <1>2, <1>4, <3>1, <3>3
        <4>2. ASSUME NEW j \in 1..Len(t) PROVE IsPlain(t[j])
          <5>1. IsEntry(t, r, env)
            BY <1>1 DEF Registered
          <5>2. CASE j \in 4..Len(t)
            <6>1. PICK k \in DOMAIN env : t[j] = Pair(k, env[k])
              BY <5>1, <5>2 DEF IsEntry
            <6>2. QED
              BY <6>1 DEF IsPlain, Pair
          <5>3. CASE j \notin 4..Len(t)
            <6>1. j = 1 \/ j = 2 \/ (j = 3 /\ Len(t) >= 3)
              BY <3>1, <5>3
            <6>2. QED
              BY <5>1, <6>1 DEF IsEntry, IsPlain, Table, Pair
          <5>4. QED
            BY <5>2, <5>3
        <4>3. QED
          BY <4>1, <4>2
      <3>4. QED
        BY <3>1, <3>2, <3>3
    <2>2. QED
      BY <2>1 DEF Plain
  <1>6. Foreign(new) = s
    <2>1. \A i \in DOMAIN new : (Owner(new, i) \notin ours) <=> i \in 1..Len(s)
      BY <1>1, RegisteredPairs, Zenon
    <2>2. 1..Len(s) \in SUBSET DOMAIN new
      BY <1>2, <1>4
    <2>3. {i \in DOMAIN new : Owner(new, i) \notin ours} = 1..Len(s)
      <3> HIDE DEF ours
      <3>1. QED
        BY <2>1, <2>2
    <2>4. Foreign(new) = Picked(new, 1..Len(s))
      BY <2>3, Zenon DEF Foreign
    <2>5. QED
      BY <1>2, <1>4, <2>4, PickedFirst
  <1>7. Foreign(lines) = s
    <2>1. ASSUME NEW i \in DOMAIN lines PROVE (Owner(lines, i) \notin ours) <=> (Under(lines, i) \notin Ours)
      <3>1. Owner(lines, i) = Table(Under(lines, i))
        BY PlainOwner
      <3>2. ASSUME NEW n, Table(Under(lines, i)) = Table(n) PROVE Under(lines, i) = n
        BY <3>2, LinesOfKinds, Zenon
      <3>3. QED
        BY <3>1, <3>2
    <2>2. {i \in DOMAIN lines : Owner(lines, i) \notin ours} = {i \in DOMAIN lines : Under(lines, i) \notin Ours}
      BY <2>1
    <2>3. QED
      BY <1>3, <2>2, Zenon DEF Foreign
  <1>8. QED
    BY <1>5, <1>6, <1>7 DEF new

(* A file in which no guardrail is set twice. *)
OneValue(lines) ==
  \A p, q \in PairsOf(lines, "sofarpc.env") : p.name = q.name => p = q

(* The environment that Codex reads from lines. *)
EnvIn(lines) ==
  LET pairs == PairsOf(lines, "sofarpc.env")
  IN  [k \in {p.name : p \in pairs} |-> (CHOOSE p \in pairs : p.name = k).value]

LEMMA EnvInIs ==
  ASSUME NEW lines, OneValue(lines)
  PROVE  /\ DOMAIN EnvIn(lines) = {p.name : p \in PairsOf(lines, "sofarpc.env")}
         /\ \A p \in PairsOf(lines, "sofarpc.env") : EnvIn(lines)[p.name] = p.value
  <1> DEFINE pairs == PairsOf(lines, "sofarpc.env")
             at(k) == CHOOSE p \in pairs : p.name = k
  <1>1. EnvIn(lines) = [k \in {p.name : p \in pairs} |-> at(k).value]
    BY Zenon DEF EnvIn
  <1>2. ASSUME NEW p \in pairs PROVE at(p.name) = p
    <2>1. at(p.name) \in pairs /\ at(p.name).name = p.name
      BY Zenon
    <2>2. QED
      BY <2>1 DEF OneValue
  <1> HIDE DEF pairs, at
  <1>3. QED
    BY <1>1, <1>2 DEF pairs

LEMMA EnvInRegistered ==
  ASSUME NEW lines, NEW env, PairsOf(lines, "sofarpc.env") = {Pair(k, env[k]) : k \in DOMAIN env}
  PROVE  /\ OneValue(lines)
         /\ DOMAIN EnvIn(lines) = DOMAIN env
         /\ \A k \in DOMAIN env : EnvIn(lines)[k] = env[k]
  <1>1. \A k, v : Pair(k, v).name = k /\ Pair(k, v).value = v
    BY DEF Pair
  <1>2. OneValue(lines)
    BY <1>1 DEF OneValue
  <1>3. DOMAIN EnvIn(lines) = {p.name : p \in {Pair(k, env[k]) : k \in DOMAIN env}}
    BY <1>2, EnvInIs
  <1>4. DOMAIN EnvIn(lines) = DOMAIN env
    <2>1. ASSUME NEW n PROVE n \in {p.name : p \in {Pair(k, env[k]) : k \in DOMAIN env}} <=> n \in DOMAIN env
      BY <1>1
    <2>2. \A n : n \in DOMAIN EnvIn(lines) <=> n \in DOMAIN env
      BY <1>3, <2>1, Zenon
    <2>3. QED
      BY <2>2
  <1>5. ASSUME NEW k \in DOMAIN env PROVE EnvIn(lines)[k] = env[k]
    <2>1. Pair(k, env[k]) \in PairsOf(lines, "sofarpc.env")
      OBVIOUS
    <2>2. EnvIn(lines)[Pair(k, env[k]).name] = Pair(k, env[k]).value
      BY <1>2, <2>1, EnvInIs, Zenon
    <2>3. QED
      BY <1>1, <2>2
  <1>6. QED
    BY <1>2, <1>4, <1>5

(* was has the strings of old, and perhaps more of it. *)
Strings(was, old) ==
  /\ \A k \in DOMAIN was : k \in DOMAIN old /\ was[k] = old[k]
  /\ \A k \in DOMAIN old : old[k] # NotAString => k \in DOMAIN was

LEMMA ReadsTheStrings ==
  ASSUME NEW lines \in Seq(Line), Plain(lines), OneValue(lines)
  PROVE  Strings(ReadEnv(lines), EnvIn(lines))
  <1> DEFINE was == ReadEnv(lines)
             old == EnvIn(lines)
             pairs == PairsOf(lines, "sofarpc.env")
  <1>1. DOMAIN was = {lines[i].name : i \in EnvPairs(lines)}
        /\ \A k \in DOMAIN was : \E i \in EnvPairs(lines) : lines[i] = Pair(k, was[k])
    BY ReadEnvIs, Zenon
  <1>2. DOMAIN old = {p.name : p \in pairs} /\ \A p \in pairs : old[p.name] = p.value
    BY EnvInIs, Zenon
  <1>3. ASSUME NEW i \in DOMAIN lines
        PROVE  Owner(lines, i) = Table("sofarpc.env") <=> Under(lines, i) = "sofarpc.env"
    <2>1. Owner(lines, i) = Table(Under(lines, i))
      BY PlainOwner
    <2>2. Table(Under(lines, i)) = Table("sofarpc.env") => Under(lines, i) = "sofarpc.env"
      BY LinesOfKinds, Zenon
    <2>3. QED
      BY <2>1, <2>2, Zenon
  <1>4. \A i \in EnvPairs(lines) : lines[i] \in pairs
    BY <1>3 DEF EnvPairs, PairsOf
  <1>5. ASSUME NEW p \in pairs, p.value # NotAString PROVE \E i \in EnvPairs(lines) : lines[i] = p
    BY <1>3, <1>5 DEF EnvPairs, PairsOf
  <1> HIDE DEF was, old, pairs
  <1>6. ASSUME NEW k \in DOMAIN was PROVE k \in DOMAIN old /\ was[k] = old[k]
    <2>1. PICK i \in EnvPairs(lines) : lines[i] = Pair(k, was[k])
      BY <1>1
    <2>2. lines[i] \in pairs /\ lines[i].name = k /\ lines[i].value = was[k]
      BY <1>4, <2>1 DEF Pair
    <2>3. QED
      BY <1>2, <2>2
  <1>7. ASSUME NEW k \in DOMAIN old, old[k] # NotAString PROVE k \in DOMAIN was
    <2>1. PICK p \in pairs : p.name = k
      BY <1>2
    <2>2. p.value # NotAString
      BY <1>2, <1>7, <2>1
    <2>3. PICK i \in EnvPairs(lines) : lines[i] = p
      BY <1>5, <2>2
    <2>4. QED
      BY <1>1, <2>1, <2>3
  <1>8. QED
    BY <1>6, <1>7 DEF Strings, was, old

(* The guardrails after a run with options o, and those before. *)
Guarded(o, old, new) ==
  LET kept == {k \in DOMAIN old \cap UserKeys : old[k] # NotAString /\ ~o.replace}
  IN  /\ DOMAIN new \cap (UserKeys \cup ProjectKeys) = kept \cup DOMAIN o.env
      /\ \A k \in DOMAIN o.env : new[k] = o.env[k]
      /\ \A k \in kept \ DOMAIN o.env : new[k] = old[k]

LEMMA EnvironmentGuards ==
  ASSUME NEW o \in Options, NEW was, NEW old, Strings(was, old), NEW new,
         DOMAIN new = DOMAIN Environment(o, was),
         \A k \in DOMAIN new : new[k] = Environment(o, was)[k]
  PROVE  Guarded(o, old, new)
  <1> DEFINE took == IF o.replace THEN {} ELSE {k \in DOMAIN was \ ProjectKeys : was[k] # NotAString}
             kept == {k \in DOMAIN old \cap UserKeys : old[k] # NotAString /\ ~o.replace}
             env == Environment(o, was)
  <1>1. env = [k \in took \cup DOMAIN o.env |-> IF k \in DOMAIN o.env THEN o.env[k] ELSE was[k]]
    BY Zenon DEF Environment
  <1>2. DOMAIN new = took \cup DOMAIN o.env
        /\ \A k \in DOMAIN new : new[k] = IF k \in DOMAIN o.env THEN o.env[k] ELSE was[k]
    <2> HIDE DEF took
    <2>1. QED
      BY <1>1
  <1>3. DOMAIN o.env \subseteq UserKeys /\ UserKeys \cap ProjectKeys = {}
    BY SetupAssumption
  <1>4. took \cap (UserKeys \cup ProjectKeys) = kept
    BY <1>3 DEF Strings
  <1>5. DOMAIN new \cap (UserKeys \cup ProjectKeys) = kept \cup DOMAIN o.env
    <2> HIDE DEF took, kept
    <2>1. QED
      BY <1>2, <1>3, <1>4
  <1>6. \A k \in DOMAIN o.env : new[k] = o.env[k]
    BY <1>2
  <1>7. ASSUME NEW k \in kept \ DOMAIN o.env PROVE new[k] = old[k]
    <2>1. k \in took /\ k \notin DOMAIN o.env
      BY <1>4, <1>7
    <2>2. k \in DOMAIN was
      BY <2>1
    <2> HIDE DEF took, kept
    <2>3. QED
      BY <1>2, <2>1, <2>2 DEF Strings
  <1>8. QED
    BY <1>5, <1>6, <1>7, Zenon DEF Guarded

-----------------------------------------------------------------------------
(* The invariants. *)
AllJobs == Clients \X {"config", "skill"}

Steps == {"start", "read", "replace", "done", "failed"}

(* A JSON file is such a record, and a TOML file a sequence of lines. *)
TypeOK ==
  /\ file = [c \in Clients |-> file[c]]
  /\ IsJson(file["claude"])
  /\ file["codex"] \in Seq(Line)
  /\ skill = [c \in Clients |-> skill[c]]
  /\ opt \in [Runs -> Options]
  /\ pc \in [Runs -> [step : Steps, jobs : Seq(AllJobs)]]
  /\ body = [r \in Runs |-> body[r]]
  /\ version \in [Clients -> Nat]
  /\ seen \in [Runs -> Nat]

(* The commands under which a client has the server. *)
CommandsIn(c, f) ==
  IF c = "claude" THEN {f.entry.command}
  ELSE {p.value : p \in {q \in PairsOf(f, "sofarpc") : q.name = "command"}}

Registers(c, f) == CommandsIn(c, f) # {} /\ CommandsIn(c, f) \subseteq Runs

(* The job has been done, by this run or by one after it. *)
Covered(job) ==
  IF job[2] = "config" THEN Registers(job[1], file[job[1]]) ELSE skill[job[1]] \in Runs

(* A run has jobs until it is done. *)
JobsLeft(r) ==
  /\ pc[r].step \in {"start", "read", "replace"} => pc[r].jobs # <<>>
  /\ pc[r].step = "done" => pc[r].jobs = <<>>

(* What a run is about to write registers it, and can be read. *)
GoodBody(c, f) ==
  IF c = "claude" THEN IsJson(f) /\ Registers(c, f)
  ELSE f \in Seq(Line) /\ Readable(f) /\ Registers(c, f)

BodyIsGood(r) ==
  pc[r].step = "replace" =>
    IF Job(r)[2] = "config" THEN GoodBody(Job(r)[1], body[r]) ELSE body[r] \in Runs

(* Of the jobs of a run that goes on, those that are not left are done. *)
Progress(r) ==
  pc[r].step # "failed" /\ ~opt[r].dryRun =>
    \A i \in DOMAIN Jobs(opt[r]) :
      Covered(Jobs(opt[r])[i]) \/ \E j \in DOMAIN pc[r].jobs : pc[r].jobs[j] = Jobs(opt[r])[i]

(* If nobody has saved the file since, the run replaces what it has read.  *)
Written(r, o, c, f) ==
  IF c = "claude"
  THEN [f EXCEPT !.text = "json", !.entry = [command |-> r, env |-> Environment(o, f.entry.env)]]
  ELSE Stripped(f) \o Rendered(r, Environment(o, ReadEnv(f)))

Current(r) ==
  pc[r].step = "replace" /\ Job(r)[2] = "config" =>
    /\ seen[r] <= version[Job(r)[1]]
    /\ seen[r] = version[Job(r)[1]] =>
         /\ body[r] = Written(r, opt[r], Job(r)[1], file[Job(r)[1]])
         /\ Job(r)[1] = "claude" => file["claude"].text # "garbage"

RunOK(r) == JobsLeft(r) /\ BodyIsGood(r) /\ Progress(r) /\ Current(r)

(* The inductive invariant: SuccessCoversEveryClient needs to know what a  *)
(* run is about to write, and which jobs are behind it.                    *)
Inv ==
  /\ TypeOK
  /\ Readable(file["codex"])
  /\ \A r \in Runs : RunOK(r)

(* Our tables, if they are there, have headers that setup finds. *)
OursAreFound == \A lines \in TomlFiles : \A i \in DOMAIN lines : Found(lines[i])

(* With plain headers only and with one value for each guardrail, the code *)
(* sees in a file what Codex sees.                                         *)
HeadersArePlain == \A lines \in TomlFiles : Plain(lines)

SetOnce == \A lines \in TomlFiles : OneValue(lines)

PlainBody(r) ==
  pc[r].step = "replace" /\ Job(r) = <<"codex", "config">> => Plain(body[r]) /\ OneValue(body[r])

PlainInv ==
  /\ Plain(file["codex"]) /\ (SetOnce => OneValue(file["codex"]))
  /\ \A r \in Runs : PlainBody(r)

-----------------------------------------------------------------------------
LEMMA JobsAre ==
  ASSUME NEW o \in Options
  PROVE  Jobs(o) \in Seq(AllJobs) /\ Jobs(o) # <<>>
  <1> DEFINE Asked(c) == o.clients = {} \/ c \in o.clients
             Of(c) == IF ~Asked(c) THEN <<>>
                      ELSE IF o.skill THEN <<<<c, "config">>, <<c, "skill">>>> ELSE <<<<c, "config">>>>
  <1>1. Jobs(o) = Of("claude") \o Of("codex")
    BY Zenon DEF Jobs
  <1>2. o.clients \subseteq Clients
    BY SetupAssumption
  <1>3. ASSUME NEW c \in Clients PROVE Of(c) \in Seq(AllJobs) /\ Len(Of(c)) \in Nat /\ (Asked(c) => Len(Of(c)) # 0)
    <2>1. <<c, "config">> \in AllJobs /\ <<c, "skill">> \in AllJobs
      BY DEF AllJobs
    <2>2. QED
      BY <2>1
  <1>4. Asked("claude") \/ Asked("codex")
    BY <1>2 DEF Clients
  <1>5. "claude" \in Clients /\ "codex" \in Clients
    BY DEF Clients
  <1> HIDE DEF Of, Asked
  <1>6. Jobs(o) \in Seq(AllJobs) /\ Len(Jobs(o)) = Len(Of("claude")) + Len(Of("codex"))
    BY <1>1, <1>3, <1>5
  <1>7. Len(Jobs(o)) # 0
    BY <1>3, <1>4, <1>5, <1>6
  <1>8. QED
    BY <1>6, <1>7

LEMMA WrittenIs ==
  ASSUME NEW r \in Runs, NEW f
  PROVE  /\ Upserted(r, f) = Written(r, opt[r], "claude", f)
         /\ UpsertedLines(r, f) = Written(r, opt[r], "codex", f)
  <1>1. "codex" # "claude"
    OBVIOUS
  <1>2. QED
    BY <1>1, Zenon DEF Upserted, UpsertedLines, Written

(* What is written is good. *)
LEMMA WrittenIsGood ==
  ASSUME TypeOK, Readable(file["codex"]), NEW r \in Runs, NEW c \in Clients
  PROVE  GoodBody(c, Written(r, opt[r], c, file[c]))
  <1>1. CASE c = "claude"
    <2> DEFINE f == file["claude"]
               new == Written(r, opt[r], "claude", f)
               env == Environment(opt[r], f.entry.env)
    <2>1. f = [text |-> f.text, entry |-> [command |-> f.entry.command, env |-> f.entry.env],
               servers |-> f.servers, rest |-> f.rest]
      BY Zenon DEF TypeOK, IsJson
    <2>2. new = [f EXCEPT !.text = "json", !.entry = [command |-> r, env |-> env]]
      BY Zenon DEF Written
    <2> HIDE DEF f, env
    <2>3. new = [text |-> "json", entry |-> [command |-> r, env |-> env], servers |-> f.servers, rest |-> f.rest]
      BY <2>1, <2>2
    <2> HIDE DEF new
    <2>4. IsJson(new) /\ new.entry.command = r
      BY <2>3 DEF IsJson
    <2>5. Registers("claude", new)
      BY <2>4 DEF Registers, CommandsIn
    <2>6. QED
      BY <1>1, <2>4, <2>5 DEF GoodBody, new, f
  <1>2. CASE c = "codex"
    <2> DEFINE f == file["codex"]
               new == UpsertedLines(r, f)
    <2>1. f \in Seq(Line) /\ opt[r] \in Options
      BY DEF TypeOK
    <2>2. new \in Seq(Line) /\ (Readable(f) => Readable(new)) /\ PairsOf(new, "sofarpc") = {Pair("command", r)}
      BY <2>1, UpsertedIs, Zenon
    <2>3. new = Written(r, opt[r], "codex", f)
      BY WrittenIs, Zenon
    <2> HIDE DEF new
    <2>4. CommandsIn("codex", new) = {r}
      <3>1. Pair("command", r).name = "command" /\ Pair("command", r).value = r
        BY DEF Pair
      <3>2. QED
        BY <2>2, <3>1 DEF CommandsIn
    <2>5. Registers("codex", new)
      BY <2>4 DEF Registers
    <2>6. GoodBody("codex", new)
      BY <2>2, <2>5 DEF GoodBody
    <2>7. QED
      BY <1>2, <2>3, <2>6
  <1>3. QED
    BY <1>1, <1>2 DEF Clients

-----------------------------------------------------------------------------
(* Steps. *)
LEMMA GotoIs ==
  ASSUME TypeOK, NEW r \in Runs, NEW s \in Steps, Goto(r, s)
  PROVE  /\ pc' \in [Runs -> [step : Steps, jobs : Seq(AllJobs)]]
         /\ pc'[r].step = s /\ pc'[r].jobs = pc[r].jobs
         /\ \A q \in Runs : q # r => pc'[q] = pc[q]
  <1>1. pc' = [pc EXCEPT ![r].step = s] /\ pc \in [Runs -> [step : Steps, jobs : Seq(AllJobs)]]
    BY Zenon DEF Goto, TypeOK
  <1>2. QED
    BY <1>1

LEMMA NextJobIs ==
  ASSUME TypeOK, NEW r \in Runs, NextJob(r), pc[r].jobs # <<>>
  PROVE  /\ pc' \in [Runs -> [step : Steps, jobs : Seq(AllJobs)]]
         /\ pc'[r].step \in {"done", "read"} /\ pc'[r].jobs = Tail(pc[r].jobs)
         /\ JobsLeft(r)'
         /\ \A i \in DOMAIN pc[r].jobs :
              pc[r].jobs[i] = Job(r) \/ \E j \in DOMAIN pc'[r].jobs : pc'[r].jobs[j] = pc[r].jobs[i]
         /\ \A q \in Runs : q # r => pc'[q] = pc[q]
  <1> DEFINE jobs == pc[r].jobs
             new == [step |-> IF Len(jobs) = 1 THEN "done" ELSE "read", jobs |-> Tail(jobs)]
  <1>1. pc' = [pc EXCEPT ![r] = new]
    BY Zenon DEF NextJob
  <1>2. pc \in [Runs -> [step : Steps, jobs : Seq(AllJobs)]] /\ jobs \in Seq(AllJobs) /\ jobs # <<>>
    BY DEF TypeOK
  <1>3. Tail(jobs) \in Seq(AllJobs) /\ Len(Tail(jobs)) = Len(jobs) - 1 /\ Len(jobs) \in Nat /\ Len(jobs) # 0
        /\ \A i \in 1..Len(jobs) - 1 : Tail(jobs)[i] = jobs[i + 1]
    BY <1>2
  <1> HIDE DEF jobs
  <1>4. new \in [step : Steps, jobs : Seq(AllJobs)] /\ new.jobs = Tail(jobs)
        /\ new.step = IF Len(jobs) = 1 THEN "done" ELSE "read"
    BY <1>3 DEF Steps
  <1> HIDE DEF new
  <1>5. pc' \in [Runs -> [step : Steps, jobs : Seq(AllJobs)]] /\ pc'[r] = new
        /\ \A q \in Runs : q # r => pc'[q] = pc[q]
    BY <1>1, <1>2, <1>4
  <1>6. JobsLeft(r)'
    <2>1. Tail(jobs) = <<>> <=> Len(jobs) = 1
      <3>1. Tail(jobs) = <<>> <=> Len(Tail(jobs)) = 0
        BY <1>3, EmptySeq, Zenon
      <3>2. QED
        BY <1>3, <3>1
    <2>2. QED
      BY <1>4, <1>5, <2>1 DEF JobsLeft
  <1>7. ASSUME NEW i \in DOMAIN jobs, jobs[i] # Head(jobs)
        PROVE  \E j \in DOMAIN Tail(jobs) : Tail(jobs)[j] = jobs[i]
    <2>1. i \in 1..Len(jobs) /\ i # 1
      BY <1>2, <1>7
    <2>2. i - 1 \in 1..Len(jobs) - 1 /\ (i - 1) + 1 = i
      BY <1>3, <2>1
    <2>3. Tail(jobs)[i - 1] = jobs[i] /\ i - 1 \in DOMAIN Tail(jobs)
      BY <1>3, <2>2
    <2>4. QED
      BY <2>3
  <1>8. Job(r) = Head(jobs)
    BY DEF Job, jobs
  <1>9. QED
    BY <1>4, <1>5, <1>6, <1>7, <1>8 DEF jobs

(* What other processes do to a run: what is covered stays covered, and a  *)
(* file that changes gets a new version.                                   *)
Keeps ==
  /\ opt' = opt
  /\ version' \in [Clients -> Nat]
  /\ \A job \in AllJobs : Covered(job) => Covered(job)'
  /\ \A c \in Clients : (version'[c] = version[c] /\ file'[c] = file[c]) \/ version'[c] > version[c]

LEMMA ProgressKept ==
  ASSUME TypeOK, Keeps, NEW q \in Runs, Progress(q),
         pc'[q].step = "failed" \/ (pc[q].step # "failed" /\ pc'[q].jobs = pc[q].jobs)
  PROVE  Progress(q)'
  <1>1. opt' = opt /\ opt[q] \in Options /\ \A job \in AllJobs : Covered(job) => Covered(job)'
    BY DEF Keeps, TypeOK
  <1>2. \A i \in DOMAIN Jobs(opt[q]) : Jobs(opt[q])[i] \in AllJobs
    <2>1. Jobs(opt[q]) \in Seq(AllJobs)
      BY <1>1, JobsAre
    <2>2. QED
      BY <2>1
  <1>3. SUFFICES ASSUME pc'[q].step # "failed", ~opt[q].dryRun, NEW i \in DOMAIN Jobs(opt[q])
                 PROVE  Covered(Jobs(opt[q])[i])' \/ \E j \in DOMAIN pc'[q].jobs : pc'[q].jobs[j] = Jobs(opt[q])[i]
    BY <1>1 DEF Progress
  <1>4. Covered(Jobs(opt[q])[i]) \/ \E j \in DOMAIN pc[q].jobs : pc[q].jobs[j] = Jobs(opt[q])[i]
    BY <1>3 DEF Progress
  <1> DEFINE job == Jobs(opt[q])[i]
  <1>5. CASE Covered(job)
    <2>1. PICK x \in AllJobs : x = job
      BY <1>2, <1>3
    <2>2. Covered(x)'
      BY <1>1, <1>5, <2>1
    <2>3. job' = job
      BY <1>1
    <2>4. QED
      BY <2>1, <2>2, <2>3
  <1>6. CASE \E j \in DOMAIN pc[q].jobs : pc[q].jobs[j] = job
    BY <1>3, <1>6
  <1>7. QED
    BY <1>4, <1>5, <1>6

LEMMA Steady ==
  ASSUME TypeOK, Keeps, NEW q \in Runs, RunOK(q), pc'[q] = pc[q], body'[q] = body[q], seen'[q] = seen[q]
  PROVE  RunOK(q)'
  <1>1. JobsLeft(q)'
    BY DEF RunOK, JobsLeft
  <1>2. BodyIsGood(q)'
    BY DEF RunOK, BodyIsGood, Job, GoodBody, Registers, CommandsIn
  <1>3. Progress(q)'
    BY ProgressKept DEF RunOK, Progress
  <1>4. Current(q)'
    <2>1. SUFFICES ASSUME pc[q].step = "replace", Job(q)[2] = "config"
                   PROVE  /\ seen[q] <= version'[Job(q)[1]]
                          /\ seen[q] = version'[Job(q)[1]] =>
                               /\ body[q] = Written(q, opt[q], Job(q)[1], file'[Job(q)[1]])
                               /\ Job(q)[1] = "claude" => file'["claude"].text # "garbage"
      BY DEF Current, Job, Keeps
    <2> DEFINE c == Job(q)[1]
    <2>2. c \in Clients
      <3>1. pc[q].jobs \in Seq(AllJobs) /\ pc[q].jobs # <<>>
        BY <2>1 DEF TypeOK, RunOK, JobsLeft
      <3>2. Head(pc[q].jobs) \in AllJobs
        BY <3>1
      <3>3. QED
        BY <3>2 DEF AllJobs, Job
    <2>3. seen[q] <= version[c] /\ (seen[q] = version[c] =>
             body[q] = Written(q, opt[q], c, file[c]) /\ (c = "claude" => file["claude"].text # "garbage"))
      BY <2>1 DEF RunOK, Current
    <2>4. seen[q] \in Nat /\ version[c] \in Nat /\ version'[c] \in Nat
      BY <2>2 DEF TypeOK, Keeps
    <2> HIDE DEF c
    <2>5. CASE version'[c] = version[c] /\ file'[c] = file[c]
      BY <2>3, <2>5 DEF c
    <2>6. CASE version'[c] > version[c]
      BY <2>3, <2>4, <2>6 DEF c
    <2>7. QED
      BY <2>2, <2>5, <2>6 DEF Keeps
  <1>5. QED
    BY <1>1, <1>2, <1>3, <1>4 DEF RunOK

(* A step that changes no file and no skill. *)
LEMMA NothingWritten ==
  ASSUME TypeOK, UNCHANGED <<file, skill, opt, version>>
  PROVE  Keeps
  <1>1. \A job \in AllJobs : Covered(job) => Covered(job)'
    BY DEF Covered, Registers, CommandsIn
  <1>2. QED
    BY <1>1 DEF Keeps, TypeOK

(* A file that is replaced by a good one. *)
LEMMA GoodSave ==
  ASSUME TypeOK, NEW c \in Clients, NEW f, file' = [file EXCEPT ![c] = f],
         version' = [version EXCEPT ![c] = @ + 1], UNCHANGED <<skill, opt>>,
         Registers(c, file[c]) => Registers(c, f)
  PROVE  Keeps
  <1>1. file' = [k \in Clients |-> IF k = c THEN f ELSE file[k]]
    BY DEF TypeOK
  <1>2. version' \in [Clients -> Nat] /\ version'[c] = version[c] + 1 /\ version[c] \in Nat
        /\ \A k \in Clients : k # c => version'[k] = version[k]
    BY DEF TypeOK
  <1>3. \A k \in Clients : file'[k] = IF k = c THEN f ELSE file[k]
    BY <1>1
  <1>4. ASSUME NEW job \in AllJobs, Covered(job) PROVE Covered(job)'
    <2>1. job[1] \in Clients
      BY DEF AllJobs
    <2>2. CASE job[2] = "config"
      <3>1. Registers(job[1], file[job[1]])
        BY <1>4, <2>2 DEF Covered
      <3>2. Registers(job[1], file'[job[1]])
        BY <1>3, <2>1, <3>1
      <3>3. QED
        BY <2>2, <3>2 DEF Covered, Registers, CommandsIn
    <2>3. CASE job[2] # "config"
      BY <1>4, <2>3 DEF Covered
    <2>4. QED
      BY <2>2, <2>3
  <1>5. ASSUME NEW k \in Clients
        PROVE  (version'[k] = version[k] /\ file'[k] = file[k]) \/ version'[k] > version[k]
    BY <1>2, <1>3
  <1>6. QED
    BY <1>2, <1>4, <1>5 DEF Keeps

(* The file of a client after a good save. *)
GoodFile(c, f) == IF c = "claude" THEN IsJson(f) ELSE f \in Seq(Line) /\ Readable(f)

LEMMA GoodFiles ==
  ASSUME TypeOK, Readable(file["codex"]), NEW c \in Clients, NEW f, file' = [file EXCEPT ![c] = f], GoodFile(c, f)
  PROVE  /\ file' = [k \in Clients |-> file'[k]]
         /\ IsJson(file'["claude"]) /\ file'["codex"] \in Seq(Line) /\ Readable(file'["codex"])
  <1>1. file' = [k \in Clients |-> IF k = c THEN f ELSE file[k]]
    BY DEF TypeOK
  <1>2. "claude" \in Clients /\ "codex" \in Clients /\ (c = "claude" \/ c = "codex")
    BY DEF Clients
  <1>3. file'["claude"] = (IF c = "claude" THEN f ELSE file["claude"])
        /\ file'["codex"] = (IF c = "codex" THEN f ELSE file["codex"])
    BY <1>1, <1>2
  <1>4. file' = [k \in Clients |-> file'[k]]
    BY <1>1
  <1>5. CASE c = "claude"
    BY <1>3, <1>4, <1>5 DEF GoodFile, TypeOK
  <1>6. CASE c = "codex"
    BY <1>3, <1>4, <1>6 DEF GoodFile, TypeOK
  <1>7. QED
    BY <1>2, <1>5, <1>6

(* The job of a run that has not ended. *)
LEMMA JobIs ==
  ASSUME TypeOK, NEW r \in Runs, JobsLeft(r), pc[r].step \in {"start", "read", "replace"}
  PROVE  /\ pc[r].jobs # <<>> /\ Job(r) \in AllJobs
         /\ Job(r)[1] \in Clients /\ Job(r)[2] \in {"config", "skill"}
         /\ Job(r) = <<Job(r)[1], Job(r)[2]>>
  <1>1. pc[r].jobs \in Seq(AllJobs) /\ pc[r].jobs # <<>>
    BY DEF TypeOK, JobsLeft
  <1>2. Head(pc[r].jobs) \in AllJobs
    BY <1>1
  <1>3. Job(r) \in AllJobs
    BY <1>2 DEF Job
  <1>4. QED
    BY <1>1, <1>3 DEF AllJobs

LEMMA InitInv ==
  ASSUME OursAreFound
  PROVE  Init => Inv
  <1> SUFFICES ASSUME Init PROVE Inv
    OBVIOUS
  <1>1. PICK j \in JsonFiles, t \in TomlFiles : file = [c \in Clients |-> IF c = "claude" THEN j ELSE t]
    BY DEF Init
  <1>2. "claude" \in Clients /\ "codex" \in Clients /\ "claude" # "codex"
    BY DEF Clients
  <1>3. file["claude"] = j /\ file["codex"] = t
    BY <1>1, <1>2
  <1>4. IsJson(j) /\ t \in Seq({t[i] : i \in DOMAIN t}) /\ (\A i \in DOMAIN t : IsLine(t[i])) /\ Readable(t)
    <2>1. IsJson(j) /\ IsToml(t)
      BY SetupAssumption
    <2>2. QED
      BY <2>1, Zenon DEF IsToml
  <1>5. t \in Seq(Line)
    <2>1. ASSUME NEW i \in DOMAIN t PROVE t[i] \in Line
      <3>1. t[i].name \in LineNames /\ t[i].value \in LineValues
        <4>1. t[i].name \in FileNames /\ t[i].value \in FileValues
          BY DEF FileNames, FileValues
        <4>2. QED
          BY <4>1 DEF LineNames, LineValues
      <3>2. IsLine(t[i]) /\ Found(t[i])
        BY <1>4 DEF OursAreFound
      <3>3. t[i] \in {Table(t[i].name), Noted(t[i].name), Quoted(t[i].name), Array(t[i].name), Pair(t[i].name, t[i].value)}
        BY <3>2 DEF IsLine
      <3>4. t[i] \in [kind : Kinds, name : LineNames, value : LineValues]
        <4>1. "none" \in LineValues
          BY DEF LineValues
        <4>2. QED
          BY <3>1, <3>3, <4>1 DEF Kinds, Table, Noted, Quoted, Array, Pair
      <3>5. QED
        BY <3>2, <3>4 DEF Line
    <2>2. Len(t) \in Nat /\ DOMAIN t = 1..Len(t) /\ t = [i \in 1..Len(t) |-> t[i]]
      BY <1>4
    <2>3. QED
      BY <2>1, <2>2
  <1>6. pc = [r \in Runs |-> [step |-> "start", jobs |-> Jobs(opt[r])]] /\ opt \in [Runs -> Options]
        /\ skill = [c \in Clients |-> Before] /\ body = [r \in Runs |-> "none"]
        /\ version = [c \in Clients |-> 0] /\ seen = [r \in Runs |-> 0]
    BY DEF Init
  <1>7. \A r \in Runs : Jobs(opt[r]) \in Seq(AllJobs) /\ Jobs(opt[r]) # <<>>
    BY <1>6, JobsAre
  <1>8. pc \in [Runs -> [step : Steps, jobs : Seq(AllJobs)]]
    BY <1>6, <1>7 DEF Steps
  <1>9. TypeOK
    BY <1>1, <1>3, <1>4, <1>5, <1>6, <1>8 DEF TypeOK
  <1>10. ASSUME NEW r \in Runs PROVE RunOK(r)
    <2>1. pc[r].step = "start" /\ pc[r].jobs = Jobs(opt[r])
      BY <1>6
    <2>2. QED
      BY <1>7, <2>1 DEF RunOK, JobsLeft, BodyIsGood, Progress, Current
  <1>11. QED
    BY <1>3, <1>4, <1>9, <1>10 DEF Inv

(* A step of one run, seen from the others. *)
LEMMA OthersOK ==
  ASSUME TypeOK, Keeps, NEW r \in Runs, \A q \in Runs : RunOK(q), RunOK(r)',
         \A q \in Runs : q # r => pc'[q] = pc[q] /\ body'[q] = body[q] /\ seen'[q] = seen[q]
  PROVE  \A q \in Runs : RunOK(q)'
  <1>1. ASSUME NEW q \in Runs, q # r PROVE RunOK(q)'
    BY <1>1, Steady
  <1>2. QED
    BY <1>1

LEMMA StartStep ==
  ASSUME Inv, NEW r \in Runs, Start(r)
  PROVE  Inv'
  <1>1. TypeOK /\ Readable(file["codex"]) /\ \A q \in Runs : RunOK(q)
    BY DEF Inv
  <1>2. PICK s \in {"read", "failed"} : Goto(r, s)
    BY DEF Start
  <1>3. s \in Steps
    BY DEF Steps
  <1>4. UNCHANGED <<file, skill, opt, body, version, seen>> /\ pc[r].step = "start"
    BY DEF Start
  <1>5. /\ pc' \in [Runs -> [step : Steps, jobs : Seq(AllJobs)]]
        /\ pc'[r].step = s /\ pc'[r].jobs = pc[r].jobs /\ \A q \in Runs : q # r => pc'[q] = pc[q]
    BY <1>1, <1>2, <1>3, GotoIs
  <1>6. Keeps
    BY <1>1, <1>4, NothingWritten
  <1>7. RunOK(r)'
    <2>1. RunOK(r)
      BY <1>1
    <2>2. Progress(r)'
      BY <1>1, <1>4, <1>5, <1>6, <2>1, ProgressKept DEF RunOK
    <2>3. JobsLeft(r)'
      BY <1>4, <1>5, <2>1 DEF RunOK, JobsLeft
    <2>4. QED
      BY <1>5, <2>2, <2>3 DEF RunOK, BodyIsGood, Current
  <1>8. \A q \in Runs : RunOK(q)'
    BY <1>1, <1>4, <1>5, <1>6, <1>7, OthersOK
  <1>9. TypeOK'
    BY <1>1, <1>4, <1>5 DEF TypeOK
  <1>10. QED
    BY <1>1, <1>4, <1>8, <1>9 DEF Inv

LEMMA FailsStep ==
  ASSUME Inv, NEW r \in Runs, Fails(r)
  PROVE  Inv'
  <1>1. TypeOK /\ Readable(file["codex"]) /\ \A q \in Runs : RunOK(q)
    BY DEF Inv
  <1>2. Goto(r, "failed") /\ UNCHANGED <<file, skill, opt, body, version, seen>>
    BY DEF Fails
  <1>3. "failed" \in Steps
    BY DEF Steps
  <1>4. /\ pc' \in [Runs -> [step : Steps, jobs : Seq(AllJobs)]]
        /\ pc'[r].step = "failed" /\ \A q \in Runs : q # r => pc'[q] = pc[q]
    BY <1>1, <1>2, <1>3, GotoIs
  <1>5. Keeps
    BY <1>1, <1>2, NothingWritten
  <1>6. RunOK(r)'
    BY <1>4 DEF RunOK, JobsLeft, BodyIsGood, Progress, Current
  <1>7. \A q \in Runs : RunOK(q)'
    BY <1>1, <1>2, <1>4, <1>5, <1>6, OthersOK
  <1>8. TypeOK'
    BY <1>1, <1>2, <1>4 DEF TypeOK
  <1>9. QED
    BY <1>1, <1>2, <1>7, <1>8 DEF Inv

(* A run goes on with its next job when the one before is done, or need    *)
(* not be.                                                                 *)
LEMMA NextJobOK ==
  ASSUME TypeOK, Keeps, NEW r \in Runs, RunOK(r), NextJob(r), pc[r].step \in {"read", "replace"},
         NEW done \in AllJobs, done = Job(r), opt[r].dryRun \/ Covered(done)'
  PROVE  RunOK(r)'
  <1>1. pc[r].jobs # <<>> /\ Job(r) \in AllJobs
    BY JobIs DEF RunOK
  <1>2. /\ pc'[r].step \in {"done", "read"} /\ JobsLeft(r)'
        /\ \A i \in DOMAIN pc[r].jobs :
             pc[r].jobs[i] = Job(r) \/ \E j \in DOMAIN pc'[r].jobs : pc'[r].jobs[j] = pc[r].jobs[i]
    BY <1>1, NextJobIs
  <1>3. Progress(r)'
    <2>1. opt' = opt /\ opt[r] \in Options /\ \A job \in AllJobs : Covered(job) => Covered(job)'
      BY DEF Keeps, TypeOK
    <2>2. SUFFICES ASSUME ~opt[r].dryRun, NEW i \in DOMAIN Jobs(opt[r])
                   PROVE  Covered(Jobs(opt[r])[i])' \/ \E j \in DOMAIN pc'[r].jobs : pc'[r].jobs[j] = Jobs(opt[r])[i]
      BY <2>1 DEF Progress
    <2>3. Jobs(opt[r])[i] \in AllJobs
      <3>1. Jobs(opt[r]) \in Seq(AllJobs)
        BY <2>1, JobsAre
      <3>2. QED
        BY <2>2, <3>1
    <2>4. Covered(Jobs(opt[r])[i]) \/ \E j \in DOMAIN pc[r].jobs : pc[r].jobs[j] = Jobs(opt[r])[i]
      BY <2>2 DEF RunOK, Progress
    <2>5. PICK x \in AllJobs : x = Jobs(opt[r])[i]
      BY <2>3
    <2>6. Jobs(opt[r])[i]' = x
      BY <2>1, <2>5
    <2>7. CASE Covered(x)
      <3>1. Covered(x)'
        BY <2>1, <2>7
      <3>2. QED
        BY <2>6, <3>1
    <2>8. ASSUME NEW j \in DOMAIN pc[r].jobs, pc[r].jobs[j] = x
          PROVE  Covered(x)' \/ \E k \in DOMAIN pc'[r].jobs : pc'[r].jobs[k] = x
      <3>1. CASE x = done
        BY <2>2, <3>1
      <3>2. CASE x # done
        BY <1>2, <2>8, <3>2
      <3>3. QED
        BY <3>1, <3>2
    <2>9. QED
      BY <2>4, <2>5, <2>6, <2>7, <2>8
  <1>4. QED
    BY <1>2, <1>3 DEF RunOK, BodyIsGood, Current

LEMMA JsonParts ==
  ASSUME NEW f, IsJson(f)
  PROVE  \E a, k, e, s, x : f = [text |-> a, entry |-> [command |-> k, env |-> e], servers |-> s, rest |-> x]
  BY Zenon DEF IsJson

LEMMA ReadStep ==
  ASSUME Inv, NEW r \in Runs, ReadFile(r)
  PROVE  Inv'
  <1> DEFINE c == Job(r)[1]
  <1>1. TypeOK /\ Readable(file["codex"]) /\ \A q \in Runs : RunOK(q)
    BY DEF Inv
  <1>2. pc[r].step = "read" /\ Job(r)[2] = "config"
    BY DEF ReadFile
  <1>3. c \in Clients /\ pc[r].jobs # <<>> /\ Job(r) \in AllJobs
    BY <1>1, <1>2, JobIs DEF RunOK
  <1>4. UNCHANGED <<file, skill, opt, version>> /\ seen' = [seen EXCEPT ![r] = version[c]]
    BY DEF ReadFile
  <1>5. Keeps
    BY <1>1, <1>4, NothingWritten
  <1>6. seen' \in [Runs -> Nat] /\ seen'[r] = version[c] /\ \A q \in Runs : q # r => seen'[q] = seen[q]
    BY <1>1, <1>3, <1>4 DEF TypeOK
  <1> DEFINE new == IF c = "claude" THEN Upserted(r, file[c]) ELSE UpsertedLines(r, file[c])
             garbage == c = "claude" /\ file[c].text = "garbage"
  <1>7. IF garbage
        THEN Goto(r, "failed") /\ UNCHANGED body
        ELSE /\ IF opt[r].dryRun THEN NextJob(r) ELSE Goto(r, "replace")
             /\ body' = [body EXCEPT ![r] = new]
    BY Zenon DEF ReadFile
  <1> HIDE DEF new, garbage, c
  <1>8. body' = [q \in Runs |-> body'[q]] /\ \A q \in Runs : q # r => body'[q] = body[q]
    <2>1. body = [q \in Runs |-> body[q]]
      BY <1>1 DEF TypeOK
    <2>2. QED
      BY <1>7, <2>1
  <1>9. /\ pc' \in [Runs -> [step : Steps, jobs : Seq(AllJobs)]]
        /\ \A q \in Runs : q # r => pc'[q] = pc[q]
        /\ RunOK(r)'
    <2>1. CASE garbage
      <3>1. "failed" \in Steps /\ Goto(r, "failed")
        BY <1>7, <2>1 DEF Steps
      <3>2. /\ pc' \in [Runs -> [step : Steps, jobs : Seq(AllJobs)]]
            /\ pc'[r].step = "failed" /\ \A q \in Runs : q # r => pc'[q] = pc[q]
        BY <1>1, <3>1, GotoIs
      <3>3. QED
        BY <3>2 DEF RunOK, JobsLeft, BodyIsGood, Progress, Current
    <2>2. CASE ~garbage /\ opt[r].dryRun
      <3>1. NextJob(r)
        BY <1>7, <2>2
      <3>2. /\ pc' \in [Runs -> [step : Steps, jobs : Seq(AllJobs)]]
            /\ \A q \in Runs : q # r => pc'[q] = pc[q]
        BY <1>1, <1>3, <3>1, NextJobIs
      <3>3. PICK done \in AllJobs : done = Job(r)
        BY <1>3
      <3>4. RunOK(r)'
        BY <1>1, <1>2, <1>5, <2>2, <3>1, <3>3, NextJobOK
      <3>5. QED
        BY <3>2, <3>4
    <2>3. CASE ~garbage /\ ~opt[r].dryRun
      <3>1. "replace" \in Steps /\ Goto(r, "replace") /\ body' = [body EXCEPT ![r] = new]
        BY <1>7, <2>3 DEF Steps
      <3>2. /\ pc' \in [Runs -> [step : Steps, jobs : Seq(AllJobs)]]
            /\ pc'[r].step = "replace" /\ pc'[r].jobs = pc[r].jobs
            /\ \A q \in Runs : q # r => pc'[q] = pc[q]
        BY <1>1, <3>1, GotoIs
      <3>3. body'[r] = Written(r, opt[r], c, file[c])
        <4>1. body = [q \in Runs |-> body[q]]
          BY <1>1 DEF TypeOK
        <4>2. body'[r] = new
          BY <3>1, <4>1
        <4>3. c = "claude" \/ c = "codex"
          BY <1>3 DEF Clients
        <4>4. new = Written(r, opt[r], c, file[c])
          BY <4>3, WrittenIs DEF new
        <4>5. QED
          BY <4>2, <4>4
      <3>4. GoodBody(c, body'[r])
        BY <1>1, <1>3, <3>3, WrittenIsGood
      <3>5. Job(r)' = Job(r)
        BY <3>2 DEF Job
      <3>6. BodyIsGood(r)'
        BY <1>2, <3>4, <3>5 DEF BodyIsGood, GoodBody, Registers, CommandsIn, c
      <3>7. Current(r)'
        <4>1. version[c] \in Nat
          BY <1>1, <1>3 DEF TypeOK
        <4>2. c = "claude" => file["claude"].text # "garbage"
          BY <2>3 DEF garbage
        <4>3. Job(r)'[1] = c
          BY <3>5 DEF c
        <4>4. opt' = opt /\ file' = file /\ version' = version
          BY <1>4
        <4>5. QED
          BY <1>6, <3>3, <4>1, <4>2, <4>3, <4>4 DEF Current
      <3>8. Progress(r)'
        BY <1>1, <1>2, <1>5, <3>2, ProgressKept DEF RunOK
      <3>9. JobsLeft(r)'
        BY <1>3, <3>2 DEF JobsLeft
      <3>10. QED
        BY <3>2, <3>6, <3>7, <3>8, <3>9 DEF RunOK
    <2>4. QED
      BY <2>1, <2>2, <2>3
  <1>10. \A q \in Runs : RunOK(q)'
    BY <1>1, <1>5, <1>6, <1>8, <1>9, OthersOK
  <1>11. TypeOK'
    BY <1>1, <1>4, <1>6, <1>8, <1>9 DEF TypeOK
  <1>12. QED
    BY <1>1, <1>4, <1>10, <1>11 DEF Inv

LEMMA PrepareStep ==
  ASSUME Inv, NEW r \in Runs, PrepareSkill(r)
  PROVE  Inv'
  <1>1. TypeOK /\ Readable(file["codex"]) /\ \A q \in Runs : RunOK(q)
    BY DEF Inv
  <1>2. pc[r].step = "read" /\ Job(r)[2] = "skill" /\ body' = [body EXCEPT ![r] = r]
        /\ UNCHANGED <<file, skill, opt, version, seen>>
        /\ IF opt[r].dryRun THEN NextJob(r) ELSE Goto(r, "replace")
    BY DEF PrepareSkill
  <1>3. pc[r].jobs # <<>> /\ Job(r) \in AllJobs
    BY <1>1, <1>2, JobIs DEF RunOK
  <1>4. Keeps
    BY <1>1, <1>2, NothingWritten
  <1>5. body' = [q \in Runs |-> body'[q]] /\ body'[r] = r /\ \A q \in Runs : q # r => body'[q] = body[q]
    <2>1. body = [q \in Runs |-> body[q]]
      BY <1>1 DEF TypeOK
    <2>2. QED
      BY <1>2, <2>1
  <1>6. /\ pc' \in [Runs -> [step : Steps, jobs : Seq(AllJobs)]]
        /\ \A q \in Runs : q # r => pc'[q] = pc[q]
        /\ RunOK(r)'
    <2>1. CASE opt[r].dryRun
      <3>1. NextJob(r)
        BY <1>2, <2>1
      <3>2. /\ pc' \in [Runs -> [step : Steps, jobs : Seq(AllJobs)]]
            /\ \A q \in Runs : q # r => pc'[q] = pc[q]
        BY <1>1, <1>3, <3>1, NextJobIs
      <3>3. PICK done \in AllJobs : done = Job(r)
        BY <1>3
      <3>4. RunOK(r)'
        BY <1>1, <1>2, <1>4, <2>1, <3>1, <3>3, NextJobOK
      <3>5. QED
        BY <3>2, <3>4
    <2>2. CASE ~opt[r].dryRun
      <3>1. "replace" \in Steps /\ Goto(r, "replace")
        BY <1>2, <2>2 DEF Steps
      <3>2. /\ pc' \in [Runs -> [step : Steps, jobs : Seq(AllJobs)]]
            /\ pc'[r].step = "replace" /\ pc'[r].jobs = pc[r].jobs
            /\ \A q \in Runs : q # r => pc'[q] = pc[q]
        BY <1>1, <3>1, GotoIs
      <3>3. Job(r)' = Job(r) /\ Job(r)[2] # "config"
        BY <1>2, <3>2 DEF Job
      <3>4. BodyIsGood(r)' /\ Current(r)'
        BY <1>5, <3>3 DEF BodyIsGood, Current
      <3>5. Progress(r)'
        BY <1>1, <1>2, <1>4, <3>2, ProgressKept DEF RunOK
      <3>6. JobsLeft(r)'
        BY <1>3, <3>2 DEF JobsLeft
      <3>7. QED
        BY <3>2, <3>4, <3>5, <3>6 DEF RunOK
    <2>3. QED
      BY <2>1, <2>2
  <1>7. \A q \in Runs : RunOK(q)'
    BY <1>1, <1>2, <1>4, <1>5, <1>6, OthersOK
  <1>8. TypeOK'
    BY <1>1, <1>2, <1>5, <1>6 DEF TypeOK
  <1>9. QED
    BY <1>1, <1>2, <1>7, <1>8 DEF Inv

LEMMA ReplaceStep ==
  ASSUME Inv, NEW r \in Runs, Replace(r)
  PROVE  Inv'
  <1>1. TypeOK /\ Readable(file["codex"]) /\ (\A q \in Runs : RunOK(q)) /\ BodyIsGood(r)
    BY DEF Inv, RunOK
  <1>2. pc[r].step = "replace" /\ NextJob(r) /\ UNCHANGED <<opt, body, seen>>
    BY DEF Replace
  <1>3. pc[r].jobs # <<>> /\ Job(r) \in AllJobs /\ Job(r)[1] \in Clients /\ Job(r)[2] \in {"config", "skill"}
    BY <1>1, <1>2, JobIs DEF RunOK
  <1>4. PICK done \in AllJobs : done = Job(r)
    BY <1>3
  <1>5. /\ pc' \in [Runs -> [step : Steps, jobs : Seq(AllJobs)]]
        /\ \A q \in Runs : q # r => pc'[q] = pc[q]
    BY <1>1, <1>2, <1>3, NextJobIs
  <1> DEFINE c == done[1]
  <1>6. /\ Keeps /\ Covered(done)'
        /\ file' = [k \in Clients |-> file'[k]] /\ IsJson(file'["claude"])
        /\ file'["codex"] \in Seq(Line) /\ Readable(file'["codex"])
        /\ skill' = [k \in Clients |-> skill'[k]]
    <2>1. CASE done[2] = "config"
      <3>1. file' = [file EXCEPT ![c] = body[r]] /\ version' = [version EXCEPT ![c] = @ + 1] /\ skill' = skill
        BY <1>4, <2>1 DEF Replace
      <3>2. c \in Clients /\ GoodBody(c, body[r])
        BY <1>1, <1>2, <1>3, <1>4, <2>1 DEF BodyIsGood
      <3>3. Registers(c, body[r]) /\ GoodFile(c, body[r])
        BY <3>2 DEF GoodBody, GoodFile
      <3>4. Keeps
        BY <1>1, <1>2, <3>1, <3>2, <3>3, GoodSave
      <3>5. /\ file' = [k \in Clients |-> file'[k]] /\ IsJson(file'["claude"])
            /\ file'["codex"] \in Seq(Line) /\ Readable(file'["codex"])
        BY <1>1, <3>1, <3>2, <3>3, GoodFiles
      <3>6. file'[c] = body[r]
        <4>1. file = [k \in Clients |-> file[k]]
          BY <1>1 DEF TypeOK
        <4>2. QED
          BY <3>1, <3>2, <4>1
      <3>7. Covered(done)'
        BY <2>1, <3>3, <3>6 DEF Covered, Registers, CommandsIn
      <3>8. QED
        BY <1>1, <3>1, <3>4, <3>5, <3>7 DEF TypeOK
    <2>2. CASE done[2] # "config"
      <3>1. skill' = [skill EXCEPT ![c] = body[r]] /\ UNCHANGED <<file, version>>
        BY <1>4, <2>2 DEF Replace
      <3>2. c \in Clients /\ body[r] \in Runs
        BY <1>1, <1>2, <1>3, <1>4, <2>2 DEF BodyIsGood
      <3>3. skill = [k \in Clients |-> skill[k]]
        BY <1>1 DEF TypeOK
      <3>4. skill' = [k \in Clients |-> skill'[k]] /\ skill'[c] = body[r]
            /\ \A k \in Clients : k # c => skill'[k] = skill[k]
        BY <3>1, <3>2, <3>3
      <3>5. ASSUME NEW job \in AllJobs, Covered(job) PROVE Covered(job)'
        <4>1. job[1] \in Clients
          BY DEF AllJobs
        <4>2. QED
          BY <3>1, <3>2, <3>4, <3>5, <4>1 DEF Covered, Registers, CommandsIn
      <3>6. Keeps
        BY <1>1, <1>2, <3>1, <3>5 DEF Keeps, TypeOK
      <3>7. Covered(done)'
        BY <2>2, <3>2, <3>4 DEF Covered
      <3>8. QED
        BY <1>1, <3>1, <3>4, <3>6, <3>7 DEF TypeOK
    <2>3. QED
      BY <2>1, <2>2
  <1>7. RunOK(r)'
    BY <1>1, <1>2, <1>4, <1>6, NextJobOK
  <1>8. \A q \in Runs : RunOK(q)'
    BY <1>1, <1>2, <1>5, <1>6, <1>7, OthersOK
  <1>9. TypeOK'
    BY <1>1, <1>2, <1>5, <1>6 DEF TypeOK, Keeps
  <1>10. QED
    BY <1>6, <1>8, <1>9 DEF Inv

(* The setting that a client saves. *)
LEMMA SettingIsALine == Pair("setting", Client) \in Line /\ Pair("setting", Client).kind = "pair"
  <1>1. "setting" \in LineNames /\ Client \in LineValues
    BY DEF LineNames, LineValues
  <1>2. QED
    BY <1>1, LinesOfKinds

LEMMA ClientStep ==
  ASSUME Inv, NEW c \in Clients, ClientSaves(c)
  PROVE  Inv'
  <1>1. TypeOK /\ Readable(file["codex"]) /\ \A q \in Runs : RunOK(q)
    BY DEF Inv
  <1>2. version' = [version EXCEPT ![c] = @ + 1] /\ UNCHANGED <<skill, opt, pc, body, seen>>
    BY DEF ClientSaves
  <1>3. \E f : file' = [file EXCEPT ![c] = f] /\ GoodFile(c, f) /\ (Registers(c, file[c]) => Registers(c, f))
    <2>1. CASE c = "claude"
      <3> DEFINE old == file["claude"]
                 f == [old EXCEPT !.rest = Client, !.text = "json"]
      <3>1. file' = [file EXCEPT !["claude"].rest = Client, !["claude"].text = "json"]
        BY <2>1 DEF ClientSaves
      <3>2. file = [k \in Clients |-> file[k]] /\ IsJson(old)
        BY <1>1 DEF TypeOK
      <3>3. file' = [file EXCEPT !["claude"] = f]
        BY <3>1
      <3> HIDE DEF old
      <3>4. f = [text |-> "json", entry |-> [command |-> old.entry.command, env |-> old.entry.env],
                 servers |-> old.servers, rest |-> Client]
        <4>1. \E a, k, e, s, x : old = [text |-> a, entry |-> [command |-> k, env |-> e], servers |-> s, rest |-> x]
          BY <3>2, JsonParts, Zenon
        <4>2. PICK a, k, e, s, x : old = [text |-> a, entry |-> [command |-> k, env |-> e], servers |-> s, rest |-> x]
          BY <4>1
        <4>3. f = [[text |-> a, entry |-> [command |-> k, env |-> e], servers |-> s, rest |-> x]
                     EXCEPT !.rest = Client, !.text = "json"]
          BY <4>2
        <4> HIDE DEF f
        <4>4. f = [text |-> "json", entry |-> [command |-> k, env |-> e], servers |-> s, rest |-> Client]
          BY <4>3
        <4>5. old.entry.command = k /\ old.entry.env = e /\ old.servers = s
          BY <4>2
        <4>6. QED
          BY <4>4, <4>5
      <3> HIDE DEF f
      <3>5. IsJson(f) /\ f.entry.command = old.entry.command
        BY <3>4 DEF IsJson
      <3>6. GoodFile("claude", f) /\ (Registers("claude", old) => Registers("claude", f))
        BY <3>5 DEF GoodFile, Registers, CommandsIn
      <3>7. QED
        BY <2>1, <3>3, <3>6 DEF old
    <2>2. CASE c # "claude"
      <3> DEFINE old == file["codex"]
                 f == <<Pair("setting", Client)>> \o old
      <3>1. c = "codex"
        BY <2>2 DEF Clients
      <3>2. file' = [file EXCEPT !["codex"] = f]
        BY <3>1 DEF ClientSaves
      <3>3. old \in Seq(Line)
        BY <1>1 DEF TypeOK
      <3>4. f \in Seq(Line) /\ (Readable(old) => Readable(f)) /\ \A n \in Ours : PairsOf(f, n) = PairsOf(old, n)
        BY <3>3, SettingIsALine, Prepended, Zenon
      <3>5. "sofarpc" \in Ours
        BY DEF Ours
      <3> HIDE DEF f
      <3>6. GoodFile("codex", f)
        BY <1>1, <3>4 DEF GoodFile
      <3>7. CommandsIn("codex", f) = CommandsIn("codex", old)
        BY <3>4, <3>5 DEF CommandsIn
      <3>8. Registers("codex", old) => Registers("codex", f)
        BY <3>7 DEF Registers
      <3>9. QED
        BY <3>1, <3>2, <3>6, <3>8
    <2>3. QED
      BY <2>1, <2>2
  <1>4. PICK f : file' = [file EXCEPT ![c] = f] /\ GoodFile(c, f) /\ (Registers(c, file[c]) => Registers(c, f))
    BY <1>3
  <1>5. Keeps
    BY <1>1, <1>2, <1>4, GoodSave
  <1>6. /\ file' = [k \in Clients |-> file'[k]] /\ IsJson(file'["claude"])
        /\ file'["codex"] \in Seq(Line) /\ Readable(file'["codex"])
    BY <1>1, <1>4, GoodFiles
  <1>7. \A q \in Runs : RunOK(q)'
    BY <1>1, <1>2, <1>5, Steady
  <1>8. TypeOK'
    BY <1>1, <1>2, <1>5, <1>6 DEF TypeOK, Keeps
  <1>9. QED
    BY <1>6, <1>7, <1>8 DEF Inv

LEMMA NextInv == Inv /\ [Next]_vars => Inv'
  <1> SUFFICES ASSUME Inv, [Next]_vars PROVE Inv'
    OBVIOUS
  <1>1. ASSUME NEW r \in Runs, Start(r) PROVE Inv'
    BY <1>1, StartStep
  <1>2. ASSUME NEW r \in Runs, ReadFile(r) PROVE Inv'
    BY <1>2, ReadStep
  <1>3. ASSUME NEW r \in Runs, PrepareSkill(r) PROVE Inv'
    BY <1>3, PrepareStep
  <1>4. ASSUME NEW r \in Runs, Replace(r) PROVE Inv'
    BY <1>4, ReplaceStep
  <1>5. ASSUME NEW r \in Runs, Fails(r) PROVE Inv'
    BY <1>5, FailsStep
  <1>6. ASSUME NEW c \in Clients, ClientSaves(c) PROVE Inv'
    BY <1>6, ClientStep
  <1>7. CASE UNCHANGED vars
    <2>1. UNCHANGED <<file, skill, opt, pc, body, version, seen>>
      BY <1>7 DEF vars
    <2>2. TypeOK' /\ Readable(file["codex"])' /\ Keeps
      BY <2>1, NothingWritten DEF Inv, TypeOK
    <2>3. \A q \in Runs : RunOK(q)'
      BY <2>1, <2>2, Steady DEF Inv
    <2>4. QED
      BY <2>2, <2>3 DEF Inv
  <1>8. QED
    BY <1>1, <1>2, <1>3, <1>4, <1>5, <1>6, <1>7 DEF Next

LEMMA AlwaysInv ==
  ASSUME OursAreFound
  PROVE  Spec => []Inv
  <1>1. QED
    BY InitInv, NextInv, PTL DEF Spec

(* Codex can always read its config, and a run that ends without an error  *)
(* has done every job it was asked for, whatever overlapped with it: in    *)
(* every behaviour from files that could be read to begin with, and in     *)
(* which a header of the server's own tables has no comment behind it and  *)
(* no name in quotes.  With one of these, a table is soon defined twice.   *)
THEOREM SuccessCovers ==
  ASSUME OursAreFound
  PROVE  Spec => []SuccessCoversEveryClient
  <1>1. Inv => SuccessCoversEveryClient
    <2> SUFFICES ASSUME Inv PROVE SuccessCoversEveryClient
      OBVIOUS
    <2>1. Readable(file["codex"]) /\ \A q \in Runs : RunOK(q)
      BY DEF Inv
    <2>2. ASSUME NEW r \in Runs, pc[r].step = "done", ~opt[r].dryRun, NEW i \in DOMAIN Jobs(opt[r])
          PROVE  Covered(Jobs(opt[r])[i])
      <3>1. pc[r].jobs = <<>>
        BY <2>1, <2>2 DEF RunOK, JobsLeft
      <3>2. DOMAIN pc[r].jobs = {}
        BY <3>1
      <3>3. QED
        BY <2>1, <2>2, <3>2 DEF RunOK, Progress
    <2>3. ASSUME NEW c \in Clients PROVE Registers(c, file[c]) <=> CommandsOf(c) # {} /\ CommandsOf(c) \subseteq Runs
      <3>1. CASE c = "claude"
        BY <3>1 DEF Registers, CommandsIn, CommandsOf
      <3>2. CASE c # "claude"
        BY <3>2 DEF Registers, CommandsIn, CommandsOf
      <3>3. QED
        BY <3>1, <3>2
    <2>4. ASSUME NEW r \in Runs, NEW i \in DOMAIN Jobs(opt[r]) PROVE Jobs(opt[r])[i][1] \in Clients
      <3>1. opt[r] \in Options
        BY DEF Inv, TypeOK
      <3>2. Jobs(opt[r]) \in Seq(AllJobs)
        BY <3>1, JobsAre
      <3>3. Jobs(opt[r])[i] \in AllJobs
        BY <2>4, <3>2
      <3>4. QED
        BY <3>3 DEF AllJobs
    <2>5. ASSUME NEW r \in Runs, pc[r].step = "done", ~opt[r].dryRun, NEW i \in DOMAIN Jobs(opt[r])
          PROVE  IF Jobs(opt[r])[i][2] = "config"
                 THEN CommandsOf(Jobs(opt[r])[i][1]) # {} /\ CommandsOf(Jobs(opt[r])[i][1]) \subseteq Runs
                 ELSE skill[Jobs(opt[r])[i][1]] \in Runs
      <3>1. Covered(Jobs(opt[r])[i]) /\ Jobs(opt[r])[i][1] \in Clients
        BY <2>2, <2>4, <2>5
      <3>2. QED
        BY <2>3, <3>1 DEF Covered
    <2>6. QED
      BY <2>1, <2>5 DEF SuccessCoversEveryClient
  <1>2. QED
    BY AlwaysInv, <1>1, PTL

-----------------------------------------------------------------------------
(* Plain files. *)
LEMMA WrittenIsPlain ==
  ASSUME NEW r \in Runs, opt[r] \in Options, NEW lines \in Seq(Line), Plain(lines)
  PROVE  Plain(UpsertedLines(r, lines)) /\ OneValue(UpsertedLines(r, lines))
  <1> DEFINE env == Environment(opt[r], ReadEnv(lines))
             new == UpsertedLines(r, lines)
  <1>1. PairsOf(new, "sofarpc.env") = {Pair(k, env[k]) : k \in DOMAIN env}
    BY UpsertedIs, Zenon
  <1>2. Plain(new)
    BY ForeignKept, Zenon
  <1> HIDE DEF env, new
  <1>3. OneValue(new)
    BY <1>1, EnvInRegistered
  <1>4. QED
    BY <1>2, <1>3 DEF new

LEMMA PrependedIsPlain ==
  ASSUME NEW lines \in Seq(Line), Plain(lines)
  PROVE  /\ Plain(<<Pair("setting", Client)>> \o lines)
         /\ OneValue(lines) => OneValue(<<Pair("setting", Client)>> \o lines)
  <1> DEFINE l == Pair("setting", Client)
             new == <<l>> \o lines
  <1>1. l \in Line /\ l.kind = "pair"
    BY SettingIsALine, Zenon
  <1> HIDE DEF l
  <1>2. "sofarpc.env" \in Ours /\ \A n \in Ours : PairsOf(new, n) = PairsOf(lines, n)
    BY <1>1, Prepended DEF Ours
  <1>3. OneValue(lines) => OneValue(new)
    BY <1>2 DEF OneValue
  <1>4. Plain(new)
    <2>1. ASSUME NEW i \in 1..Len(new) PROVE IsPlain(new[i])
      <3>1. CASE i = 1
        <4>1. new[1] = l
          BY <1>1
        <4>2. QED
          BY <1>1, <3>1, <4>1 DEF IsPlain
      <3>2. CASE i # 1
        <4>1. i - 1 \in 1..Len(lines) /\ new[i] = lines[i - 1]
          BY <1>1, <3>2
        <4>2. QED
          BY <4>1 DEF Plain
      <3>3. QED
        BY <3>1, <3>2
    <2> HIDE DEF new
    <2>2. QED
      BY <2>1 DEF Plain
  <1>5. QED
    BY <1>3, <1>4 DEF l

LEMMA InitPlain ==
  ASSUME HeadersArePlain
  PROVE  Init => PlainInv
  <1> SUFFICES ASSUME Init PROVE PlainInv
    OBVIOUS
  <1>1. PICK j \in JsonFiles, t \in TomlFiles : file = [c \in Clients |-> IF c = "claude" THEN j ELSE t]
    BY DEF Init
  <1>2. file["codex"] = t
    BY <1>1 DEF Clients
  <1>3. \A r \in Runs : pc[r].step = "start"
    BY DEF Init
  <1>4. QED
    BY <1>2, <1>3 DEF PlainInv, PlainBody, HeadersArePlain, SetOnce

LEMMA NextPlain == Inv /\ PlainInv /\ [Next]_vars => PlainInv'
  <1> SUFFICES ASSUME Inv, PlainInv, [Next]_vars PROVE PlainInv'
    OBVIOUS
  <1>1. TypeOK /\ (\A q \in Runs : RunOK(q)) /\ Plain(file["codex"]) /\ (SetOnce => OneValue(file["codex"]))
        /\ (\A q \in Runs : PlainBody(q)) /\ file["codex"] \in Seq(Line)
    BY DEF Inv, PlainInv, TypeOK
  <1>2. ASSUME NEW r \in Runs, \A q \in Runs : q # r => pc'[q] = pc[q] /\ body'[q] = body[q],
               PlainBody(r)', file'["codex"] = file["codex"]
        PROVE  PlainInv'
    <2>1. ASSUME NEW q \in Runs, q # r PROVE PlainBody(q)'
      BY <1>1, <1>2, <2>1 DEF PlainBody, Job
    <2>2. \A q \in Runs : PlainBody(q)'
      BY <1>2, <2>1
    <2>3. QED
      BY <1>1, <1>2, <2>2 DEF PlainInv
  <1>3. ASSUME NEW r \in Runs, Start(r) \/ Fails(r) PROVE PlainInv'
    <2>1. PICK s \in {"read", "failed"} : Goto(r, s)
      BY <1>3 DEF Start, Fails
    <2>2. UNCHANGED <<file, body>> /\ s \in Steps
      BY <1>3 DEF Start, Fails, Steps
    <2>3. pc'[r].step = s /\ \A q \in Runs : q # r => pc'[q] = pc[q]
      BY <1>1, <2>1, <2>2, GotoIs
    <2>4. PlainBody(r)'
      BY <2>3 DEF PlainBody
    <2>5. QED
      BY <1>2, <2>2, <2>3, <2>4
  <1>4. ASSUME NEW r \in Runs, ReadFile(r) \/ PrepareSkill(r) PROVE PlainInv'
    <2>1. pc[r].step = "read" /\ UNCHANGED <<file, opt>>
      BY <1>4 DEF ReadFile, PrepareSkill
    <2>2. pc[r].jobs # <<>> /\ Job(r) \in AllJobs
      BY <1>1, <2>1, JobIs DEF RunOK
    <2>3. body = [q \in Runs |-> body[q]] /\ opt[r] \in Options
      BY <1>1 DEF TypeOK
    <2>4. \A q \in Runs : q # r => body'[q] = body[q]
      BY <1>4, <2>3 DEF ReadFile, PrepareSkill
    <2>5. NextJob(r) \/ \E s \in {"failed", "replace"} : Goto(r, s)
      BY <1>4 DEF ReadFile, PrepareSkill
    <2>6. CASE NextJob(r)
      <3>1. pc'[r].step \in {"done", "read"} /\ \A q \in Runs : q # r => pc'[q] = pc[q]
        BY <1>1, <2>2, <2>6, NextJobIs
      <3>2. PlainBody(r)'
        BY <3>1 DEF PlainBody
      <3>3. QED
        BY <1>2, <2>1, <2>4, <3>1, <3>2
    <2>7. ASSUME NEW s \in {"failed", "replace"}, Goto(r, s) PROVE PlainInv'
      <3>1. s \in Steps
        BY DEF Steps
      <3>2. pc'[r].step = s /\ pc'[r].jobs = pc[r].jobs /\ \A q \in Runs : q # r => pc'[q] = pc[q]
        BY <1>1, <2>7, <3>1, GotoIs
      <3>3. Job(r)' = Job(r)
        BY <3>2 DEF Job
      <3>4. ASSUME s = "replace", Job(r) = <<"codex", "config">> PROVE body'[r] = UpsertedLines(r, file["codex"])
        <4>1. ReadFile(r) /\ Job(r)[1] = "codex"
          BY <1>4, <3>4 DEF PrepareSkill
        <4>2. body' = [body EXCEPT ![r] = UpsertedLines(r, file["codex"])]
          BY <4>1 DEF ReadFile
        <4>3. QED
          BY <2>3, <4>2
      <3>5. PlainBody(r)'
        <4>1. Plain(UpsertedLines(r, file["codex"])) /\ OneValue(UpsertedLines(r, file["codex"]))
          BY <1>1, <2>3, WrittenIsPlain
        <4>2. QED
          BY <3>2, <3>3, <3>4, <4>1 DEF PlainBody
      <3>6. QED
        BY <1>2, <2>1, <2>4, <3>2, <3>5
    <2>8. QED
      BY <2>5, <2>6, <2>7
  <1>5. ASSUME NEW r \in Runs, Replace(r) PROVE PlainInv'
    <2>1. pc[r].step = "replace" /\ NextJob(r) /\ body' = body
      BY <1>5 DEF Replace
    <2>2. pc[r].jobs # <<>> /\ Job(r)[1] \in Clients /\ Job(r) = <<Job(r)[1], Job(r)[2]>>
      BY <1>1, <2>1, JobIs DEF RunOK
    <2>3. pc'[r].step \in {"done", "read"} /\ \A q \in Runs : q # r => pc'[q] = pc[q]
      BY <1>1, <2>1, <2>2, NextJobIs
    <2>4. Plain(file'["codex"]) /\ (SetOnce => OneValue(file'["codex"]))
      <3>1. file = [k \in Clients |-> file[k]]
        BY <1>1 DEF TypeOK
      <3>2. CASE Job(r)[2] = "config" /\ Job(r)[1] = "codex"
        <4>1. Plain(body[r]) /\ OneValue(body[r])
          BY <1>1, <2>1, <2>2, <3>2 DEF PlainBody
        <4>2. file'["codex"] = body[r]
          <5>1. file' = [file EXCEPT !["codex"] = body[r]] /\ "codex" \in Clients
            BY <1>5, <3>2 DEF Replace, Clients
          <5>2. QED
            BY <3>1, <5>1
        <4>3. QED
          BY <4>1, <4>2
      <3>3. CASE Job(r)[2] = "config" /\ Job(r)[1] # "codex"
        <4>1. file'["codex"] = file["codex"]
          <5>1. file' = [file EXCEPT ![Job(r)[1]] = body[r]] /\ "codex" \in Clients
            BY <1>5, <3>3 DEF Replace, Clients
          <5>2. QED
            BY <3>1, <3>3, <5>1
        <4>2. QED
          BY <1>1, <4>1
      <3>4. CASE Job(r)[2] # "config"
        BY <1>1, <1>5, <3>4 DEF Replace
      <3>5. QED
        BY <3>2, <3>3, <3>4
    <2>5. ASSUME NEW q \in Runs PROVE PlainBody(q)'
      <3>1. CASE q = r
        BY <2>3, <3>1 DEF PlainBody
      <3>2. CASE q # r
        BY <1>1, <2>1, <2>3, <3>2 DEF PlainBody, Job
      <3>3. QED
        BY <3>1, <3>2
    <2>6. QED
      BY <2>4, <2>5 DEF PlainInv
  <1>6. ASSUME NEW c \in Clients, ClientSaves(c) PROVE PlainInv'
    <2>1. UNCHANGED <<pc, body>>
      BY <1>6 DEF ClientSaves
    <2>2. Plain(file'["codex"]) /\ (SetOnce => OneValue(file'["codex"]))
      <3>1. file = [k \in Clients |-> file[k]] /\ "codex" \in Clients
        BY <1>1 DEF TypeOK, Clients
      <3>2. CASE c = "claude"
        <4>1. file' = [file EXCEPT !["claude"].rest = Client, !["claude"].text = "json"]
          BY <1>6, <3>2 DEF ClientSaves
        <4>2. file'["codex"] = file["codex"]
          BY <3>1, <4>1
        <4>3. QED
          BY <1>1, <4>2
      <3>3. CASE c # "claude"
        <4>1. c = "codex"
          BY <3>3 DEF Clients
        <4>2. file' = [file EXCEPT !["codex"] = <<Pair("setting", Client)>> \o file["codex"]]
          BY <1>6, <4>1 DEF ClientSaves
        <4>3. file'["codex"] = <<Pair("setting", Client)>> \o file["codex"]
          BY <3>1, <4>2
        <4>4. QED
          BY <1>1, <4>3, PrependedIsPlain
      <3>4. QED
        BY <3>2, <3>3
    <2>3. ASSUME NEW q \in Runs PROVE PlainBody(q)'
      BY <1>1, <2>1 DEF PlainBody, Job
    <2>4. QED
      BY <2>2, <2>3 DEF PlainInv
  <1>7. CASE UNCHANGED vars
    BY <1>7 DEF vars, PlainInv, PlainBody, Job
  <1>8. QED
    BY <1>3, <1>4, <1>5, <1>6, <1>7 DEF Next

(* Inv and PlainInv from the first state on, if the files were plain. *)
LEMMA AlwaysPlain ==
  ASSUME HeadersArePlain
  PROVE  Spec => [](Inv /\ PlainInv)
  <1>1. Init => Inv /\ PlainInv
    <2>1. OursAreFound
      <3>1. ASSUME NEW lines \in TomlFiles, NEW i \in DOMAIN lines PROVE Found(lines[i])
        <4>1. lines \in Seq({lines[k] : k \in DOMAIN lines}) /\ Plain(lines)
          BY SetupAssumption DEF IsToml, HeadersArePlain
        <4>2. i \in 1..Len(lines)
          BY <4>1
        <4>3. QED
          BY <4>1, <4>2 DEF Plain, IsPlain, Found
      <3>2. QED
        BY <3>1 DEF OursAreFound
    <2>2. QED
      BY <2>1, InitInv, InitPlain
  <1>2. (Inv /\ PlainInv) /\ [Next]_vars => (Inv /\ PlainInv)'
    BY NextInv, NextPlain
  <1>3. QED
    BY <1>1, <1>2, PTL DEF Spec

(* What a run writes over a file that nobody saved since it was read. *)
LEMMA UndisturbedWrites ==
  ASSUME Inv, NEW r \in Runs, Undisturbed(r)
  PROVE  LET c == Job(r)[1]
         IN  /\ c \in Clients /\ opt[r] \in Options
             /\ file'[c] = Written(r, opt[r], c, file[c])
             /\ c = "claude" => file["claude"].text # "garbage"
  <1> DEFINE c == Job(r)[1]
  <1>1. TypeOK /\ RunOK(r)
    BY DEF Inv
  <1>2. Replace(r) /\ Job(r)[2] = "config" /\ version[c] = seen[r]
    BY DEF Undisturbed
  <1>3. pc[r].step = "replace" /\ file' = [file EXCEPT ![c] = body[r]]
    BY <1>2 DEF Replace
  <1>4. c \in Clients /\ opt[r] \in Options
    BY <1>1, <1>3, JobIs DEF RunOK, TypeOK
  <1>5. file = [k \in Clients |-> file[k]]
    BY <1>1 DEF TypeOK
  <1>6. file'[c] = body[r]
    <2> HIDE DEF c
    <2>1. QED
      BY <1>3, <1>4, <1>5
  <1>7. body[r] = Written(r, opt[r], c, file[c]) /\ (c = "claude" => file["claude"].text # "garbage")
    BY <1>1, <1>2, <1>3 DEF RunOK, Current
  <1>8. QED
    BY <1>4, <1>6, <1>7

LEMMA JsonWritten ==
  ASSUME NEW r, NEW o, NEW f, IsJson(f)
  PROVE  LET new == Written(r, o, "claude", f)
         IN  new.servers = f.servers /\ new.rest = f.rest /\ new.entry.env = Environment(o, f.entry.env)
  <1> DEFINE new == Written(r, o, "claude", f)
             env == Environment(o, f.entry.env)
  <1>1. \E a, k, e, s, x : f = [text |-> a, entry |-> [command |-> k, env |-> e], servers |-> s, rest |-> x]
    BY JsonParts, Zenon
  <1>2. PICK a, k, e, s, x : f = [text |-> a, entry |-> [command |-> k, env |-> e], servers |-> s, rest |-> x]
    BY <1>1
  <1>3. new = [f EXCEPT !.text = "json", !.entry = [command |-> r, env |-> env]]
    BY Zenon DEF Written
  <1> HIDE DEF new, env
  <1>4. new = [text |-> "json", entry |-> [command |-> r, env |-> env], servers |-> s, rest |-> x]
    BY <1>2, <1>3
  <1>5. f.servers = s /\ f.rest = x
    BY <1>2
  <1>6. QED
    BY <1>4, <1>5 DEF new, env

(* Registering keeps what is not its own: in every step of every behaviour *)
(* whose TOML files have plain headers only.  With others it does not.     *)
THEOREM KeepsWhatIsNotOurs ==
  ASSUME HeadersArePlain
  PROVE  Spec => ReplacesOnlyItsEntry
  <1>1. Inv /\ PlainInv /\ [Next]_vars =>
          [\A r \in Runs : Undisturbed(r) =>
             IF Job(r)[1] = "claude"
             THEN /\ file["claude"].text # "garbage"
                  /\ file'["claude"].servers = file["claude"].servers
                  /\ file'["claude"].rest = file["claude"].rest
             ELSE Foreign(file'["codex"]) = Foreign(file["codex"])]_vars
    <2> SUFFICES ASSUME Inv, PlainInv, NEW r \in Runs, Undisturbed(r)
                 PROVE  IF Job(r)[1] = "claude"
                        THEN /\ file["claude"].text # "garbage"
                             /\ file'["claude"].servers = file["claude"].servers
                             /\ file'["claude"].rest = file["claude"].rest
                        ELSE Foreign(file'["codex"]) = Foreign(file["codex"])
      OBVIOUS
    <2> DEFINE c == Job(r)[1]
    <2>1. /\ c \in Clients /\ opt[r] \in Options
          /\ file'[c] = Written(r, opt[r], c, file[c])
          /\ c = "claude" => file["claude"].text # "garbage"
      BY UndisturbedWrites, Zenon
    <2>2. IsJson(file["claude"]) /\ file["codex"] \in Seq(Line) /\ Plain(file["codex"])
      BY DEF Inv, TypeOK, PlainInv
    <2> HIDE DEF c
    <2>3. CASE c = "claude"
      BY <2>1, <2>2, <2>3, JsonWritten DEF c
    <2>4. CASE c # "claude"
      <3>1. c = "codex"
        BY <2>1, <2>4 DEF Clients
      <3>2. file'["codex"] = UpsertedLines(r, file["codex"])
        BY <2>1, <3>1, WrittenIs
      <3>3. Foreign(UpsertedLines(r, file["codex"])) = Foreign(file["codex"])
        BY <2>1, <2>2, ForeignKept
      <3>4. QED
        BY <2>4, <3>2, <3>3 DEF c
    <2>5. QED
      BY <2>3, <2>4
  <1>2. QED
    BY AlwaysPlain, <1>1, PTL DEF ReplacesOnlyItsEntry, Spec

LEMMA CodexEnvIs == EnvOf("codex") = EnvIn(file["codex"])
  <1>1. "codex" # "claude"
    OBVIOUS
  <1>2. QED
    BY <1>1, Zenon DEF EnvOf, EnvIn

(* The client starts the server with the guardrails of the flags and those *)
(* it had, and with nothing of any project: in every step of every         *)
(* behaviour whose TOML files have plain headers only and set no guardrail *)
(* twice.                                                                  *)
THEOREM GuardrailsAreKept ==
  ASSUME HeadersArePlain, SetOnce
  PROVE  Spec => KeepsGuardrails
  <1>1. Inv /\ PlainInv /\ [Next]_vars =>
          [\A r \in Runs, c \in Clients : Undisturbed(r) /\ c = Job(r)[1] =>
             LET old == EnvOf(c)
                 new == EnvOf(c)'
                 kept == {k \in DOMAIN old \cap UserKeys : old[k] # NotAString /\ ~opt[r].replace}
             IN  /\ DOMAIN new \cap (UserKeys \cup ProjectKeys) = kept \cup DOMAIN opt[r].env
                 /\ \A k \in DOMAIN opt[r].env : new[k] = opt[r].env[k]
                 /\ \A k \in kept \ DOMAIN opt[r].env : new[k] = old[k]]_vars
    <2> SUFFICES ASSUME Inv, PlainInv, NEW r \in Runs, NEW c \in Clients, Undisturbed(r), c = Job(r)[1]
                 PROVE  Guarded(opt[r], EnvOf(c), EnvOf(c)')
      BY DEF Guarded
    <2>1. /\ opt[r] \in Options
          /\ file'[c] = Written(r, opt[r], c, file[c])
      BY UndisturbedWrites, Zenon
    <2>2. IsJson(file["claude"]) /\ file["codex"] \in Seq(Line) /\ Plain(file["codex"]) /\ OneValue(file["codex"])
      BY DEF Inv, TypeOK, PlainInv
    <2>3. CASE c = "claude"
      <3> DEFINE old == file["claude"].entry.env
                 new == file'["claude"].entry.env
      <3>1. new = Environment(opt[r], old)
        BY <2>1, <2>2, <2>3, JsonWritten
      <3>2. EnvOf(c) = old /\ EnvOf(c)' = new
        BY <2>3 DEF EnvOf
      <3> HIDE DEF old, new
      <3>3. Strings(old, old)
        BY DEF Strings
      <3>4. Guarded(opt[r], old, new)
        BY <2>1, <3>1, <3>3, EnvironmentGuards
      <3>5. QED
        BY <3>2, <3>4
    <2>4. CASE c # "claude"
      <3> DEFINE lines == file["codex"]
                 env == Environment(opt[r], ReadEnv(lines))
                 new == UpsertedLines(r, lines)
      <3>1. c = "codex"
        BY <2>4 DEF Clients
      <3>2. file'["codex"] = new
        BY <2>1, <3>1, WrittenIs
      <3>3. PairsOf(new, "sofarpc.env") = {Pair(k, env[k]) : k \in DOMAIN env}
        BY <2>1, <2>2, UpsertedIs, Zenon
      <3>4. EnvOf(c) = EnvIn(lines)
        BY <3>1, CodexEnvIs, Zenon
      <3>5. EnvOf(c)' = EnvIn(file'["codex"])
        <4>1. "codex" # "claude"
          OBVIOUS
        <4>2. EnvOf("codex")' = EnvIn(file'["codex"])
          BY <4>1, Zenon DEF EnvOf, EnvIn
        <4>3. QED
          BY <3>1, <4>2
      <3>6. Strings(ReadEnv(lines), EnvIn(lines))
        BY <2>2, ReadsTheStrings
      <3> HIDE DEF new
      <3>7. DOMAIN EnvIn(new) = DOMAIN env /\ \A k \in DOMAIN env : EnvIn(new)[k] = env[k]
        <4> HIDE DEF env
        <4>1. QED
          BY <3>3, EnvInRegistered
      <3>8. Guarded(opt[r], EnvIn(lines), EnvIn(new))
        BY <2>1, <3>6, <3>7, EnvironmentGuards
      <3>9. QED
        BY <3>2, <3>4, <3>5, <3>8
    <2>5. QED
      BY <2>3, <2>4
  <1>2. QED
    BY AlwaysPlain, <1>1, PTL DEF KeepsGuardrails, Spec
=============================================================================
