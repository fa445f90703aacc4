----------------------- MODULE ContractHolder_proofs -----------------------
(***************************************************************************)
(* Proofs about the contract holder, for any calls, any finite set of      *)
(* roots and any capacity, and about the store that one of its entries     *)
(* holds, for any lookups, class names, files, index and contents of the   *)
(* files.                                                                  *)
(***************************************************************************)
EXTENDS ContractHolder, SourceStore, FiniteSetTheorems, SequenceTheorems, TLAPS

(* The cached roots, each listed once, and where their entries are. *)
Listed ==
  /\ IsInjective(order)
  /\ ToSet(order) = DOMAIN projects
  /\ Len(order) <= ProjectMax
  /\ \A r \in DOMAIN projects : entries[projects[r]].root = r

(* The second list ends with the first. *)
EndsWith(q, s) ==
  /\ Len(s) <= Len(q)
  /\ \A j \in 1 .. Len(s) : s[j] = q[Len(q) - Len(s) + j]

(* The history lists no root twice either, and ends as the cache does: the *)
(* form of KeepsMostRecent that a step preserves.                          *)
Recent ==
  /\ IsInjective(requested)
  /\ EndsWith(requested, order)
  /\ Len(order) < ProjectMax => order = requested

(* A call in progress is bound to an entry of the root it asked for, and   *)
(* the entry it loads is no longer fresh.                                  *)
Bound ==
  \A c \in Calls :
    pc[c] # "idle" =>
      /\ held[c] = 0 => root[c] = NoRoot
      /\ held[c] # 0 => root[c] \in Roots /\ entries[held[c]].root = root[c]
      /\ held[c] # 0 /\ pc[c] = "loading" => entries[held[c]].once # "fresh"

(* Every entry ever allocated for a root is cached or was dropped, and its *)
(* loader was started once if it is no longer fresh.                       *)
Allocated(r) == {i \in DOMAIN entries : entries[i].root = r}
Started(r) == {i \in Allocated(r) : entries[i].once # "fresh"}
Cached(r) == IF r \in DOMAIN projects THEN 1 ELSE 0

Ledger ==
  \A r \in Roots :
    /\ Cardinality(Allocated(r)) = drops[r] + Cached(r)
    /\ Cardinality(Started(r)) = loads[r]

(* The inductive invariant. *)
Inv == TypeOK /\ Listed /\ Recent /\ Bound /\ Ledger

-----------------------------------------------------------------------------
(* Removing one place of a list. *)
LEMMA RemoveAtIs ==
  ASSUME NEW S, NEW s \in Seq(S), NEW i \in 1 .. Len(s)
  PROVE  /\ RemoveAt(s, i) \in Seq(S)
         /\ Len(RemoveAt(s, i)) = Len(s) - 1
         /\ \A j \in 1 .. Len(s) - 1 : RemoveAt(s, i)[j] = IF j < i THEN s[j] ELSE s[j + 1]
  <1> DEFINE n == Len(s)
             head == SubSeq(s, 1, i - 1)
             tail == SubSeq(s, i + 1, n)
  <1>1. n \in Nat /\ i \in 1 .. n /\ \A j \in 1 .. n : s[j] \in S
    BY LenProperties, ElementOfSeq
  <1>2. /\ head \in Seq(S) /\ Len(head) = i - 1
        /\ \A j \in 1 .. i - 1 : head[j] = s[j]
    <2>1. 1 \in Int /\ i - 1 \in Int /\ \A j \in 1 .. i - 1 : s[j] \in S
      BY <1>1
    <2> HIDE DEF n
    <2>2. /\ head \in Seq(S)
          /\ Len(head) = IF 1 <= i - 1 THEN (i - 1) - 1 + 1 ELSE 0
          /\ \A j \in 1 .. (i - 1) - 1 + 1 : head[j] = s[1 + j - 1]
      BY <2>1, SubSeqProperties
    <2>3. QED
      BY <1>1, <2>2
  <1>3. /\ tail \in Seq(S) /\ Len(tail) = n - i
        /\ \A j \in 1 .. n - i : tail[j] = s[i + j]
    <2>1. i + 1 \in Int /\ n \in Int /\ \A j \in i + 1 .. n : s[j] \in S
      BY <1>1
    <2> HIDE DEF n
    <2>2. /\ tail \in Seq(S)
          /\ Len(tail) = IF i + 1 <= n THEN n - (i + 1) + 1 ELSE 0
          /\ \A j \in 1 .. n - (i + 1) + 1 : tail[j] = s[(i + 1) + j - 1]
      BY <2>1, SubSeqProperties
    <2>3. QED
      BY <1>1, <2>2
  <1>4. RemoveAt(s, i) = head \o tail
    BY DEF RemoveAt
  <1> HIDE DEF head, tail
  <1>5. /\ head \o tail \in Seq(S)
        /\ Len(head \o tail) = Len(head) + Len(tail)
        /\ \A j \in 1 .. Len(head) + Len(tail) :
             (head \o tail)[j] = IF j <= Len(head) THEN head[j] ELSE tail[j - Len(head)]
    BY <1>2, <1>3, ConcatProperties
  <1>6. Len(head) + Len(tail) = n - 1
    BY <1>1, <1>2, <1>3
  <1>7. ASSUME NEW j \in 1 .. n - 1
        PROVE  (head \o tail)[j] = IF j < i THEN s[j] ELSE s[j + 1]
    <2>1. CASE j < i
      BY <1>1, <1>2, <1>5, <1>6, <1>7, <2>1
    <2>2. CASE ~(j < i)
      <3>1. (head \o tail)[j] = tail[j - (i - 1)]
        BY <1>1, <1>2, <1>5, <1>6, <1>7, <2>2
      <3>2. j - (i - 1) \in 1 .. n - i /\ i + (j - (i - 1)) = j + 1
        BY <1>1, <1>7, <2>2
      <3>3. QED
        BY <1>3, <2>2, <3>1, <3>2
    <2>3. QED
      BY <2>1, <2>2
  <1>8. QED
    BY <1>4, <1>5, <1>6, <1>7

(* Appending to a list. *)
LEMMA AppendIs ==
  ASSUME NEW S, NEW s \in Seq(S), NEW e \in S
  PROVE  /\ Append(s, e) \in Seq(S)
         /\ Len(Append(s, e)) = Len(s) + 1
         /\ \A j \in 1 .. Len(s) : Append(s, e)[j] = s[j]
         /\ Append(s, e)[Len(s) + 1] = e
  OBVIOUS

(* The set of the elements of a list. *)
LEMMA ToSetIs ==
  ASSUME NEW S, NEW s \in Seq(S)
  PROVE  /\ ToSet(s) \subseteq S
         /\ \A e : e \in ToSet(s) <=> \E j \in 1 .. Len(s) : s[j] = e
         /\ \A e : Contains(s, e) <=> e \in ToSet(s)
  BY LenProperties DEF ToSet, Contains

(* Moving a root that is not listed appends it. *)
LEMMA MoveNew ==
  ASSUME NEW S, NEW s \in Seq(S), NEW e \in S, e \notin ToSet(s)
  PROVE  MoveToEnd(s, e) = Append(s, e)
  BY ToSetIs DEF MoveToEnd

(* Moving a listed root shifts those behind it. *)
LEMMA MoveOld ==
  ASSUME NEW S, NEW s \in Seq(S), IsInjective(s), NEW i \in 1 .. Len(s)
  PROVE  /\ MoveToEnd(s, s[i]) \in Seq(S)
         /\ Len(MoveToEnd(s, s[i])) = Len(s)
         /\ \A j \in 1 .. Len(s) :
              MoveToEnd(s, s[i])[j] = IF j < i THEN s[j]
                                      ELSE IF j < Len(s) THEN s[j + 1] ELSE s[i]
  <1> DEFINE n == Len(s)
             e == s[i]
             r == RemoveAt(s, i)
  <1>1. DOMAIN s = 1 .. n /\ e \in S
    BY LenProperties, ElementOfSeq
  <1>0. n \in Nat \ {0}
    BY LenProperties
  <1>2. Contains(s, e)
    BY DEF Contains
  <1>3. (CHOOSE k \in DOMAIN s : s[k] = e) = i
    BY <1>1 DEF IsInjective
  <1>4. MoveToEnd(s, e) = Append(r, e)
    BY <1>2, <1>3 DEF MoveToEnd
  <1>5. /\ r \in Seq(S) /\ Len(r) = n - 1
        /\ \A j \in 1 .. n - 1 : r[j] = IF j < i THEN s[j] ELSE s[j + 1]
    BY RemoveAtIs
  <1> HIDE DEF r
  <1>6. /\ Append(r, e) \in Seq(S) /\ Len(Append(r, e)) = n
        /\ \A j \in 1 .. n - 1 : Append(r, e)[j] = r[j]
        /\ Append(r, e)[n] = e
    <2>0. r \in Seq(S) /\ e \in S
      BY <1>1, <1>5
    <2>1. /\ Append(r, e) \in Seq(S) /\ Len(Append(r, e)) = Len(r) + 1
          /\ \A j \in 1 .. Len(r) : Append(r, e)[j] = r[j]
          /\ Append(r, e)[Len(r) + 1] = e
      BY <2>0, AppendIs
    <2>2. Len(r) = n - 1 /\ Len(r) + 1 = n
      BY <1>0, <1>5
    <2>3. QED
      BY <2>1, <2>2
  <1>7. ASSUME NEW j \in 1 .. n
        PROVE  Append(r, e)[j] = IF j < i THEN s[j] ELSE IF j < n THEN s[j + 1] ELSE e
    <2>1. CASE j < n
      BY <1>1, <1>5, <1>6, <1>7, <2>1
    <2>2. CASE j = n
      BY <1>1, <1>6, <1>7, <2>2
    <2>3. j < n \/ j = n
      BY <1>0
    <2>4. QED
      BY <2>1, <2>2, <2>3
  <1>8. QED
    BY <1>4, <1>6, <1>7

(* Moving a root to the end of a list without duplicates. *)
LEMMA MoveIs ==
  ASSUME NEW S, NEW s \in Seq(S), IsInjective(s), NEW e \in S
  PROVE  LET m == MoveToEnd(s, e)
         IN  /\ m \in Seq(S)
             /\ Len(m) = IF e \in ToSet(s) THEN Len(s) ELSE Len(s) + 1
             /\ Len(m) > 0 /\ m[Len(m)] = e
             /\ IsInjective(m)
             /\ ToSet(m) = ToSet(s) \cup {e}
  <1> DEFINE m == MoveToEnd(s, e)
             n == Len(s)
  <1>1. n \in Nat /\ DOMAIN s = 1 .. n /\ \A j \in 1 .. n : s[j] \in S
    BY LenProperties, ElementOfSeq
  <1>2. CASE e \notin ToSet(s)
    <2>1. /\ m \in Seq(S) /\ Len(m) = n + 1 /\ m[n + 1] = e
          /\ \A j \in 1 .. n : m[j] = s[j]
      BY <1>2, MoveNew, AppendIs
    <2>2. \A j \in 1 .. n : s[j] # e
      BY <1>2, ToSetIs
    <2> HIDE DEF m
    <2>3. DOMAIN m = 1 .. n + 1
      BY <2>1, LenProperties
    <2>4. IsInjective(m)
      BY <1>1, <2>1, <2>2, <2>3 DEF IsInjective
    <2>5. ASSUME NEW x PROVE x \in ToSet(m) <=> x \in ToSet(s) \cup {e}
      <3>1. x \in ToSet(m) <=> \E j \in 1 .. n + 1 : m[j] = x
        BY <2>1, ToSetIs
      <3>2. x \in ToSet(s) <=> \E j \in 1 .. n : s[j] = x
        BY ToSetIs
      <3>3. n + 1 \in 1 .. n + 1 /\ \A j \in 1 .. n + 1 : j \in 1 .. n \/ j = n + 1
        BY <1>1
      <3>4. QED
        BY <1>1, <2>1, <3>1, <3>2, <3>3
    <2>6. QED
      BY <1>1, <1>2, <2>1, <2>4, <2>5 DEF m
  <1>3. CASE e \in ToSet(s)
    <2>1. PICK i \in 1 .. n : s[i] = e
      BY <1>3, ToSetIs
    <2>2. /\ m \in Seq(S) /\ Len(m) = n
          /\ \A j \in 1 .. n : m[j] = IF j < i THEN s[j] ELSE IF j < n THEN s[j + 1] ELSE e
      BY <2>1, MoveOld
    <2> HIDE DEF m
    <2>3. DOMAIN m = 1 .. n /\ n > 0 /\ m[n] = e
      BY <1>1, <2>1, <2>2, LenProperties
    <2> DEFINE from(j) == IF j < i THEN j ELSE IF j < n THEN j + 1 ELSE i
    <2>4. \A j \in 1 .. n : from(j) \in 1 .. n /\ m[j] = s[from(j)]
      BY <1>1, <2>1, <2>2
    <2>5. \A j, k \in 1 .. n : from(j) = from(k) => j = k
      BY <1>1, <2>1
    <2>6. \A k \in 1 .. n : \E j \in 1 .. n : from(j) = k
      <3> SUFFICES ASSUME NEW k \in 1 .. n PROVE \E j \in 1 .. n : from(j) = k
        OBVIOUS
      <3>1. CASE k < i
        BY <3>1
      <3>2. CASE k = i
        BY <1>1, <2>1, <3>2
      <3>3. CASE k > i
        <4>1. k - 1 \in 1 .. n /\ from(k - 1) = k
          BY <1>1, <2>1, <3>3
        <4>2. QED
          BY <4>1
      <3>4. QED
        BY <1>1, <3>1, <3>2, <3>3
    <2> HIDE DEF from
    <2>7. IsInjective(m)
      BY <1>1, <2>3, <2>4, <2>5 DEF IsInjective
    <2>8. ASSUME NEW x PROVE x \in ToSet(m) <=> x \in ToSet(s)
      <3>1. x \in ToSet(m) <=> \E j \in 1 .. n : m[j] = x
        BY <2>2, ToSetIs
      <3>2. x \in ToSet(s) <=> \E j \in 1 .. n : s[j] = x
        BY ToSetIs
      <3>3. QED
        BY <2>4, <2>6, <3>1, <3>2
    <2>9. QED
      BY <1>3, <2>2, <2>3, <2>7, <2>8 DEF m
  <1>4. QED
    BY <1>2, <1>3

(* What the eviction keeps: the end of the list, at most ProjectMax long. *)
LEMMA KeptIs ==
  ASSUME NEW S, NEW s \in Seq(S)
  PROVE  /\ Excess(s) \in 0 .. Len(s)
         /\ Kept(s) \in Seq(S)
         /\ Len(Kept(s)) = Len(s) - Excess(s)
         /\ Len(Kept(s)) = IF Len(s) > ProjectMax THEN ProjectMax ELSE Len(s)
         /\ \A j \in 1 .. Len(s) - Excess(s) : Kept(s)[j] = s[Excess(s) + j]
  <1>1. Len(s) \in Nat /\ \A j \in 1 .. Len(s) : s[j] \in S
    BY LenProperties, ElementOfSeq
  <1>2. /\ Excess(s) \in 0 .. Len(s)
        /\ Len(s) - Excess(s) = IF Len(s) > ProjectMax THEN ProjectMax ELSE Len(s)
    BY <1>1, HolderAssumption DEF Excess
  <1> DEFINE x == Excess(s)
  <1>3. Kept(s) = SubSeq(s, x + 1, Len(s))
    BY DEF Kept
  <1> HIDE DEF x
  <1>4. x \in 0 .. Len(s)
    BY <1>2 DEF x
  <1>5. x + 1 \in Int /\ Len(s) \in Int /\ \A j \in x + 1 .. Len(s) : s[j] \in S
    BY <1>1, <1>4
  <1>6. /\ SubSeq(s, x + 1, Len(s)) \in Seq(S)
        /\ Len(SubSeq(s, x + 1, Len(s))) = IF x + 1 <= Len(s) THEN Len(s) - (x + 1) + 1 ELSE 0
        /\ \A j \in 1 .. Len(s) - (x + 1) + 1 : SubSeq(s, x + 1, Len(s))[j] = s[(x + 1) + j - 1]
    BY <1>5, SubSeqProperties
  <1>7. /\ Len(SubSeq(s, x + 1, Len(s))) = Len(s) - x
        /\ \A j \in 1 .. Len(s) - x : SubSeq(s, x + 1, Len(s))[j] = s[x + j]
    BY <1>1, <1>4, <1>6
  <1>8. QED
    BY <1>2, <1>3, <1>6, <1>7 DEF x

(* Moving a root in a list and in its end moves it the same way. *)
LEMMA MoveKeepsEnd ==
  ASSUME NEW S, NEW s \in Seq(S), NEW q \in Seq(S), NEW e \in S,
         IsInjective(s), IsInjective(q), EndsWith(q, s)
  PROVE  EndsWith(MoveToEnd(q, e), MoveToEnd(s, e))
  <1> DEFINE n == Len(s)
             l == Len(q)
             ms == MoveToEnd(s, e)
             mq == MoveToEnd(q, e)
  <1>1. /\ n \in Nat /\ l \in Nat /\ n <= l
        /\ \A j \in 1 .. n : s[j] = q[l - n + j]
    BY LenProperties DEF EndsWith
  <1>2. DOMAIN q = 1 .. l
    BY LenProperties
  <1>3. CASE e \in ToSet(s)
    <2>1. PICK i \in 1 .. n : s[i] = e
      BY <1>3, ToSetIs
    <2> DEFINE k == l - n + i
    <2>2. k \in 1 .. l /\ q[k] = e
      BY <1>1, <2>1
    <2>3. /\ Len(ms) = n
          /\ \A j \in 1 .. n : ms[j] = IF j < i THEN s[j] ELSE IF j < n THEN s[j + 1] ELSE e
      BY <2>1, MoveOld
    <2>4. /\ Len(mq) = l
          /\ \A j \in 1 .. l : mq[j] = IF j < k THEN q[j] ELSE IF j < l THEN q[j + 1] ELSE e
      <3> HIDE DEF k
      <3>1. QED
        BY <2>2, MoveOld
    <2> HIDE DEF ms, mq
    <2>5. ASSUME NEW j \in 1 .. n PROVE ms[j] = mq[l - n + j]
      <3>1. l - n + j \in 1 .. l /\ (l - n + j < k <=> j < i) /\ (l - n + j < l <=> j < n)
        BY <1>1, <2>1
      <3>2. mq[l - n + j] = IF j < i THEN q[l - n + j]
                            ELSE IF j < n THEN q[l - n + j + 1] ELSE e
        BY <2>4, <3>1
      <3>3. j < n => j + 1 \in 1 .. n /\ l - n + (j + 1) = l - n + j + 1
        BY <1>1
      <3>4. j < n => s[j + 1] = q[l - n + j + 1]
        BY <1>1, <3>3
      <3>5. QED
        BY <1>1, <2>3, <3>2, <3>4
    <2>6. QED
      BY <1>1, <2>3, <2>4, <2>5 DEF EndsWith, ms, mq
  <1>4. CASE e \notin ToSet(s)
    <2>1. ms = Append(s, e)
      BY <1>4, MoveNew
    <2>2. Len(ms) = n + 1 /\ ms[n + 1] = e /\ \A j \in 1 .. n : ms[j] = s[j]
      BY <2>1, AppendIs
    <2>3. CASE e \notin ToSet(q)
      <3>1. mq = Append(q, e)
        BY <2>3, MoveNew
      <3>2. Len(mq) = l + 1 /\ mq[l + 1] = e /\ \A j \in 1 .. l : mq[j] = q[j]
        BY <3>1, AppendIs
      <3> HIDE DEF ms, mq
      <3>3. ASSUME NEW j \in 1 .. n + 1 PROVE ms[j] = mq[l - n + j]
        <4>1. CASE j = n + 1
          BY <1>1, <2>2, <3>2, <4>1
        <4>2. CASE j # n + 1
          <5>1. j \in 1 .. n /\ l - n + j \in 1 .. l
            BY <1>1, <4>2
          <5>2. QED
            BY <1>1, <2>2, <3>2, <5>1
        <4>3. QED
          BY <4>1, <4>2
      <3>4. (l + 1) - (n + 1) = l - n
        BY <1>1
      <3>5. QED
        BY <1>1, <2>2, <3>2, <3>3, <3>4 DEF EndsWith, ms, mq
    <2>4. CASE e \in ToSet(q)
      <3>1. PICK k \in 1 .. l : q[k] = e
        BY <2>4, ToSetIs
      <3>2. k <= l - n
        <4> SUFFICES ASSUME k > l - n PROVE FALSE
          BY <1>1
        <4>1. k - (l - n) \in 1 .. n /\ l - n + (k - (l - n)) = k
          BY <1>1, <3>1
        <4>2. s[k - (l - n)] = e
          BY <1>1, <3>1, <4>1
        <4>3. QED
          BY <1>4, <4>1, <4>2, ToSetIs
      <3>3. /\ Len(mq) = l
            /\ \A j \in 1 .. l : mq[j] = IF j < k THEN q[j] ELSE IF j < l THEN q[j + 1] ELSE e
        BY <3>1, MoveOld
      <3> HIDE DEF ms, mq
      <3>4. n + 1 <= l
        BY <1>1, <3>1, <3>2
      <3>5. ASSUME NEW j \in 1 .. n + 1 PROVE ms[j] = mq[l - (n + 1) + j]
        <4>1. /\ l - (n + 1) + j \in 1 .. l
              /\ l - (n + 1) + j >= k
              /\ (l - (n + 1) + j < l <=> j < n + 1)
              /\ l - (n + 1) + j + 1 = l - n + j
          BY <1>1, <3>2, <3>4
        <4>2. mq[l - (n + 1) + j] = IF j < n + 1 THEN q[l - n + j] ELSE e
          BY <3>1, <3>3, <4>1
        <4>3. CASE j = n + 1
          BY <1>1, <2>2, <4>2, <4>3
        <4>4. CASE j # n + 1
          <5>1. j \in 1 .. n /\ j < n + 1
            BY <1>1, <4>4
          <5>2. QED
            BY <1>1, <2>2, <4>2, <5>1
        <4>5. QED
          BY <4>3, <4>4
      <3>6. QED
        BY <2>2, <3>3, <3>4, <3>5 DEF EndsWith, ms, mq
    <2>5. QED
      BY <2>3, <2>4
  <1>5. QED
    BY <1>3, <1>4

(* Evicting from the front keeps the end. *)
LEMMA KeptKeepsEnd ==
  ASSUME NEW S, NEW s \in Seq(S), NEW q \in Seq(S), EndsWith(q, s)
  PROVE  EndsWith(q, Kept(s))
  <1> DEFINE x == Excess(s)
             n == Len(s)
             l == Len(q)
  <1>1. n \in Nat /\ l \in Nat /\ n <= l /\ \A j \in 1 .. n : s[j] = q[l - n + j]
    BY LenProperties DEF EndsWith
  <1>2. x \in 0 .. n /\ Len(Kept(s)) = n - x /\ \A j \in 1 .. n - x : Kept(s)[j] = s[x + j]
    BY KeptIs
  <1> HIDE DEF x
  <1>3. ASSUME NEW j \in 1 .. n - x PROVE Kept(s)[j] = q[l - (n - x) + j]
    <2>1. x + j \in 1 .. n /\ l - n + (x + j) = l - (n - x) + j
      BY <1>1, <1>2
    <2>2. s[x + j] = q[l - n + (x + j)]
      BY <1>1, <2>1
    <2>3. QED
      BY <1>2, <2>1, <2>2
  <1>4. n - x <= l
    BY <1>1, <1>2
  <1>5. QED
    BY <1>2, <1>3, <1>4 DEF EndsWith

(* A list that is not too long is kept as it is. *)
LEMMA KeptAll ==
  ASSUME NEW S, NEW s \in Seq(S), Len(s) <= ProjectMax
  PROVE  Kept(s) = s
  <1>1. Excess(s) = 0 /\ Len(s) \in Nat
    BY LenProperties, HolderAssumption DEF Excess
  <1>2. Kept(s) \in Seq(S) /\ Len(Kept(s)) = Len(s) /\ \A j \in 1 .. Len(s) : Kept(s)[j] = s[j]
    <2>1. \A j \in 1 .. Len(s) : 0 + j = j
      OBVIOUS
    <2>2. Len(s) - 0 = Len(s)
      BY <1>1
    <2>3. QED
      BY <1>1, <2>1, <2>2, KeptIs
  <1>3. QED
    BY <1>2, SeqEqual

-----------------------------------------------------------------------------
(* What a request makes of the list. *)
LEMMA RequestOrder ==
  ASSUME TypeOK, Listed, Recent, NEW c \in Calls, NEW r \in Roots, Request(c, r)
  PROVE  /\ order' \in Seq(Roots)
         /\ IsInjective(order')
         /\ Len(order') <= ProjectMax
         /\ r \in ToSet(order')
         /\ ToSet(order') \subseteq DOMAIN projects \cup {r}
         /\ DOMAIN projects' = ToSet(order')
         /\ requested' \in Seq(Roots)
         /\ Recent'
  <1> DEFINE m == MoveToEnd(order, r)
             q == MoveToEnd(requested, r)
             n == Len(m)
             x == Excess(m)
  <1>1. order \in Seq(Roots) /\ requested \in Seq(Roots)
    BY DEF TypeOK
  <1>2. /\ m \in Seq(Roots) /\ IsInjective(m) /\ ToSet(m) = ToSet(order) \cup {r}
        /\ n = (IF r \in ToSet(order) THEN Len(order) ELSE Len(order) + 1)
        /\ n > 0 /\ m[n] = r
    BY <1>1, MoveIs DEF Listed
  <1>3. q \in Seq(Roots) /\ IsInjective(q)
    BY <1>1, MoveIs DEF Recent
  <1>4. order' = Kept(m) /\ requested' = q /\ DOMAIN projects' = ToSet(order')
    BY DEF Request, Touch
  <1>5. EndsWith(q, m)
    BY <1>1, MoveKeepsEnd DEF Recent, Listed
  <1> HIDE DEF m, q
  <1>6. n \in Nat /\ DOMAIN m = 1 .. n
    BY <1>2, LenProperties
  <1>7. /\ x \in 0 .. n /\ Kept(m) \in Seq(Roots) /\ Len(Kept(m)) = n - x
        /\ Len(Kept(m)) = IF n > ProjectMax THEN ProjectMax ELSE n
        /\ \A j \in 1 .. n - x : Kept(m)[j] = m[x + j]
    BY <1>2, KeptIs
  <1> HIDE DEF n, x
  <1>8. DOMAIN Kept(m) = 1 .. n - x
    BY <1>7, LenProperties
  <1>9. IsInjective(Kept(m))
    <2>1. ASSUME NEW j \in 1 .. n - x, NEW k \in 1 .. n - x, m[x + j] = m[x + k] PROVE j = k
      <3>1. x + j \in DOMAIN m /\ x + k \in DOMAIN m
        BY <1>6, <1>7
      <3>2. x + j = x + k
        BY <1>2, <2>1, <3>1 DEF IsInjective
      <3>3. QED
        BY <1>6, <1>7, <3>2
    <2>2. QED
      BY <1>7, <1>8, <2>1 DEF IsInjective
  <1>10. ToSet(Kept(m)) \subseteq ToSet(order) \cup {r}
    <2>1. ASSUME NEW e \in ToSet(Kept(m)) PROVE e \in ToSet(m)
      <3>1. PICK j \in 1 .. n - x : Kept(m)[j] = e
        BY <1>8 DEF ToSet
      <3>2. x + j \in DOMAIN m /\ m[x + j] = e
        BY <1>6, <1>7, <3>1
      <3>3. QED
        BY <3>2 DEF ToSet
    <2>2. QED
      BY <1>2, <2>1
  <1>11. r \in ToSet(Kept(m))
    <2>1. n - x \in 1 .. n - x /\ x + (n - x) = n
      BY <1>2, <1>6, <1>7, HolderAssumption
    <2>2. Kept(m)[n - x] = r
      BY <1>2, <1>7, <2>1
    <2>3. QED
      BY <1>8, <2>1, <2>2 DEF ToSet
  <1>12. Recent'
    <2>1. EndsWith(q, Kept(m))
      BY <1>2, <1>3, <1>5, KeptKeepsEnd
    <2>2. ASSUME Len(Kept(m)) < ProjectMax PROVE Kept(m) = q
      <3>1. n = Len(m) /\ n < ProjectMax
        BY <1>6, <1>7, <2>2, HolderAssumption DEF n
      <3>2. Kept(m) = m
        BY <1>2, <1>6, <3>1, KeptAll, HolderAssumption
      <3>3. Len(order) < ProjectMax
        BY <1>1, <1>2, <3>1, LenProperties, HolderAssumption
      <3>4. m = q
        BY <3>3 DEF Recent, m, q
      <3>5. QED
        BY <3>2, <3>4
    <2>3. QED
      BY <1>3, <1>4, <2>1, <2>2 DEF Recent, EndsWith
  <1>13. Len(Kept(m)) <= ProjectMax
    BY <1>6, <1>7, HolderAssumption
  <1>14. QED
    BY <1>3, <1>4, <1>7, <1>9, <1>10, <1>11, <1>12, <1>13 DEF Listed

(* What a request makes of the map and the entries. *)
LEMMA RequestEntry ==
  ASSUME TypeOK, Listed, Recent, NEW c \in Calls, NEW r \in Roots, Request(c, r)
  PROVE  /\ r \in DOMAIN projects'
         /\ projects'[r] = held'[c]
         /\ \A q \in DOMAIN projects' \ {r} : q \in DOMAIN projects /\ projects'[q] = projects[q]
         /\ r \in DOMAIN projects => entries' = entries /\ held'[c] = projects[r]
         /\ r \notin DOMAIN projects =>
              /\ entries' \in Seq(Entry(Roots))
              /\ Len(entries') = Len(entries) + 1
              /\ \A i \in 1 .. Len(entries) : entries'[i] = entries[i]
              /\ entries'[Len(entries) + 1] = NewEntry(r)
              /\ held'[c] = Len(entries) + 1
         /\ drops' = [q \in Roots |-> IF q \in (DOMAIN projects \cup {r}) \ DOMAIN projects'
                                      THEN drops[q] + 1 ELSE drops[q]]
  <1>1. /\ r \in ToSet(order') /\ DOMAIN projects' = ToSet(order')
        /\ ToSet(order') \subseteq DOMAIN projects \cup {r}
    BY RequestOrder
  <1>2. NewEntry(r) \in Entry(Roots)
    BY DEF NewEntry, Entry, Values
  <1>3. Append(entries, NewEntry(r)) \in Seq(Entry(Roots))
    BY <1>2, AppendIs DEF TypeOK
  <1>4. /\ Len(Append(entries, NewEntry(r))) = Len(entries) + 1
        /\ \A i \in 1 .. Len(entries) : Append(entries, NewEntry(r))[i] = entries[i]
        /\ Append(entries, NewEntry(r))[Len(entries) + 1] = NewEntry(r)
    BY <1>2, AppendIs DEF TypeOK
  <1> DEFINE entry == IF r \in DOMAIN projects THEN projects[r] ELSE Len(entries) + 1
  <1>5. /\ projects' = [q \in ToSet(order') |-> IF q = r THEN entry ELSE projects[q]]
        /\ entries' = IF r \in DOMAIN projects THEN entries ELSE Append(entries, NewEntry(r))
        /\ held' = [held EXCEPT ![c] = entry]
        /\ drops' = [q \in Roots |-> IF q \in (DOMAIN projects \cup {r}) \ ToSet(order')
                                     THEN drops[q] + 1 ELSE drops[q]]
    BY DEF Request
  <1>6. held'[c] = entry
    BY <1>5 DEF TypeOK
  <1> HIDE DEF NewEntry
  <1>7. QED
    BY <1>1, <1>3, <1>4, <1>5, <1>6

(* What SetEntry changes. *)
LEMMA SetEntryIs ==
  ASSUME TypeOK, NEW c \in Calls, NEW o \in {"fresh", "running", "done"}, NEW v \in Values,
         SetEntry(c, o, v)
  PROVE  /\ default' \in Entry({NoRoot})
         /\ entries' \in Seq(Entry(Roots))
         /\ Len(entries') = Len(entries)
         /\ \A i \in 1 .. Len(entries) :
              /\ entries'[i].root = entries[i].root
              /\ entries'[i].once = IF i = held[c] THEN o ELSE entries[i].once
  <1>1. entries \in Seq(Entry(Roots)) /\ default \in Entry({NoRoot})
        /\ held[c] \in {0} \cup 1 .. Len(entries) /\ Len(entries) \in Nat
    BY LenProperties DEF TypeOK
  <1>2. CASE held[c] = 0
    <2>1. default' = [default EXCEPT !.once = o, !.value = v] /\ entries' = entries
      BY <1>2 DEF SetEntry, EntryOf
    <2>2. default' \in Entry({NoRoot})
      BY <1>1, <2>1 DEF Entry
    <2>3. QED
      BY <1>1, <1>2, <2>1, <2>2
  <1>3. CASE held[c] # 0
    <2> DEFINE h == held[c]
               new == [entries[h] EXCEPT !.once = o, !.value = v]
    <2>1. h \in 1 .. Len(entries)
      BY <1>1, <1>3
    <2>2. entries' = [entries EXCEPT ![h] = new] /\ default' = default
      BY <1>3 DEF SetEntry, EntryOf
    <2>3. entries[h] \in Entry(Roots)
      BY <1>1, <2>1, ElementOfSeq
    <2>4. new \in Entry(Roots) /\ new.root = entries[h].root /\ new.once = o
      BY <2>3 DEF Entry
    <2> HIDE DEF h, new
    <2>5. /\ entries' \in Seq(Entry(Roots)) /\ Len(entries') = Len(entries)
          /\ \A i \in 1 .. Len(entries) : entries'[i] = IF i = h THEN new ELSE entries[i]
      BY <1>1, <2>1, <2>2, <2>4, ExceptSeq
    <2>6. QED
      BY <1>1, <2>2, <2>4, <2>5 DEF h
  <1>4. QED
    BY <1>2, <1>3

-----------------------------------------------------------------------------
(* The initial states are typed. *)
LEMMA InitTypeOK == Init => TypeOK
  <1> SUFFICES ASSUME Init PROVE TypeOK
    OBVIOUS
  <1>1. <<>> \in Seq(Roots) /\ <<>> \in Seq(Entry(Roots)) /\ entries = <<>>
    BY EmptySeq DEF Init
  <1>2. projects \in [DOMAIN projects -> DOMAIN entries] /\ DOMAIN projects \subseteq Roots
    BY DEF Init
  <1>3. QED
    BY <1>1, <1>2 DEF Init, TypeOK, NewEntry, NoSnapshot, Entry, Values

(* Types are preserved, given that the list and the map agree. *)
LEMMA NextTypeOK == TypeOK /\ Listed /\ Recent /\ Bound /\ [Next]_vars => TypeOK'
  <1> SUFFICES ASSUME TypeOK, Listed, Recent, Bound, [Next]_vars PROVE TypeOK'
    OBVIOUS
  <1>0. Len(entries) \in Nat /\ DOMAIN entries = 1 .. Len(entries)
    BY LenProperties DEF TypeOK
  <1>1. ASSUME NEW c \in Calls, NEW r \in Roots, Request(c, r) PROVE TypeOK'
    <2>1. order' \in Seq(Roots) /\ requested' \in Seq(Roots) /\ DOMAIN projects' = ToSet(order')
          /\ ToSet(order') \subseteq DOMAIN projects \cup {r}
      BY <1>1, RequestOrder
    <2>2. /\ entries' \in Seq(Entry(Roots))
          /\ DOMAIN entries \subseteq DOMAIN entries'
          /\ held'[c] \in DOMAIN entries'
      <3>1. CASE r \in DOMAIN projects
        BY <1>1, <3>1, RequestEntry DEF TypeOK
      <3>2. CASE r \notin DOMAIN projects
        <4>1. entries' \in Seq(Entry(Roots)) /\ Len(entries') = Len(entries) + 1
              /\ held'[c] = Len(entries) + 1
          BY <1>1, <3>2, RequestEntry
        <4>2. DOMAIN entries' = 1 .. Len(entries) + 1
          BY <4>1, LenProperties
        <4>3. QED
          BY <1>0, <4>1, <4>2
      <3>3. QED
        BY <3>1, <3>2
    <2>3. projects' \in [DOMAIN projects' -> DOMAIN entries']
      <3>1. \A q \in DOMAIN projects' : projects'[q] \in DOMAIN entries'
        BY <1>1, <2>2, RequestEntry DEF TypeOK
      <3>2. projects' = [q \in DOMAIN projects' |-> projects'[q]]
        BY <1>1, <2>1 DEF Request
      <3>3. QED
        BY <3>1, <3>2
    <2>4. /\ held' \in [Calls -> {0} \cup DOMAIN entries']
          /\ root' \in [Calls -> Roots \cup {NoRoot}]
          /\ pc' \in [Calls -> {"idle", "once", "loading"}]
          /\ snapshot' \in [Calls -> [root : Roots \cup {NoRoot}, value : Values]]
          /\ calls' \in Nat
      BY <1>1, <2>2 DEF Request, TypeOK, NoSnapshot, Values
    <2>5. drops' \in [Roots -> Nat]
      BY <1>1, RequestEntry DEF TypeOK
    <2>6. default' = default /\ loads' = loads
      BY <1>1 DEF Request
    <2>7. DOMAIN projects' \subseteq Roots
      BY <2>1 DEF TypeOK
    <2>8. QED
      BY <2>1, <2>2, <2>3, <2>4, <2>5, <2>6, <2>7 DEF TypeOK
  <1>2. ASSUME NEW c \in Calls, RequestDefault(c) PROVE TypeOK'
    BY <1>2 DEF RequestDefault, TypeOK, cacheVars, NoSnapshot, Values
  <1>3. ASSUME NEW c \in Calls, NEW o \in {"fresh", "running", "done"}, NEW v \in Values,
               SetEntry(c, o, v), UNCHANGED cacheVars
        PROVE  /\ entries' \in Seq(Entry(Roots)) /\ DOMAIN entries' = DOMAIN entries
               /\ default' \in Entry({NoRoot})
               /\ projects' \in [DOMAIN projects' -> DOMAIN entries']
    <2>1. entries' \in Seq(Entry(Roots)) /\ Len(entries') = Len(entries)
          /\ default' \in Entry({NoRoot})
      BY <1>3, SetEntryIs
    <2>2. DOMAIN entries' = 1 .. Len(entries)
      BY <2>1, LenProperties
    <2>3. QED
      BY <1>0, <1>3, <2>1, <2>2 DEF TypeOK, cacheVars
  <1>4. ASSUME NEW c \in Calls, StartLoad(c) PROVE TypeOK'
    <2>1. SetEntry(c, "running", "none") /\ UNCHANGED cacheVars
      BY <1>4 DEF StartLoad
    <2>2. /\ entries' \in Seq(Entry(Roots)) /\ DOMAIN entries' = DOMAIN entries
          /\ default' \in Entry({NoRoot})
          /\ projects' \in [DOMAIN projects' -> DOMAIN entries']
      BY <1>3, <2>1 DEF Values
    <2>3. loads' \in [Roots -> Nat] /\ pc' \in [Calls -> {"idle", "once", "loading"}]
      BY <1>4 DEF StartLoad, TypeOK
    <2>4. QED
      BY <1>4, <2>1, <2>2, <2>3 DEF StartLoad, TypeOK, cacheVars
  <1>5. ASSUME NEW c \in Calls, LoadReturns(c) PROVE TypeOK'
    <2>1. PICK v \in Values : SetEntry(c, "done", v)
      BY <1>5 DEF LoadReturns
    <2>2. /\ entries' \in Seq(Entry(Roots)) /\ DOMAIN entries' = DOMAIN entries
          /\ default' \in Entry({NoRoot})
          /\ projects' \in [DOMAIN projects' -> DOMAIN entries']
      BY <1>3, <1>5, <2>1 DEF LoadReturns
    <2>3. QED
      BY <1>5, <2>2 DEF LoadReturns, TypeOK, cacheVars
  <1>6. ASSUME NEW c \in Calls, LoadPanics(c) PROVE TypeOK'
    <2>1. SetEntry(c, "done", "none") /\ UNCHANGED cacheVars
      BY <1>6 DEF LoadPanics
    <2>2. /\ entries' \in Seq(Entry(Roots)) /\ DOMAIN entries' = DOMAIN entries
          /\ default' \in Entry({NoRoot})
          /\ projects' \in [DOMAIN projects' -> DOMAIN entries']
      BY <1>3, <2>1 DEF Values
    <2>3. QED
      BY <1>6, <2>2 DEF LoadPanics, Return, TypeOK, cacheVars, NoSnapshot, Values
  <1>7. ASSUME NEW c \in Calls, Snapshot(c) PROVE TypeOK'
    <2>1. EntryOf(c) \in Entry(Roots \cup {NoRoot})
      <3>1. CASE held[c] = 0
        BY <3>1 DEF EntryOf, TypeOK, Entry
      <3>2. CASE held[c] # 0
        <4>1. held[c] \in 1 .. Len(entries)
          BY <1>0, <3>2 DEF TypeOK
        <4>2. entries[held[c]] \in Entry(Roots)
          BY <4>1, ElementOfSeq DEF TypeOK
        <4>3. QED
          BY <3>2, <4>2 DEF EntryOf, Entry
      <3>3. QED
        BY <3>1, <3>2
    <2>2. [root |-> EntryOf(c).root, value |-> EntryOf(c).value]
            \in [root : Roots \cup {NoRoot}, value : Values]
      BY <2>1 DEF Entry
    <2> HIDE DEF EntryOf
    <2>3. QED
      BY <1>7, <2>2 DEF Snapshot, Return, TypeOK, cacheVars
  <1>8. CASE UNCHANGED vars
    BY <1>8 DEF vars, TypeOK
  <1>9. QED
    BY <1>1, <1>2, <1>4, <1>5, <1>6, <1>7, <1>8 DEF Next

-----------------------------------------------------------------------------
(* The steps of a load change entries, but no list, no root of an entry,   *)
(* and nobody's binding but that of a call that returns.                   *)
LEMMA LoadSteps ==
  ASSUME TypeOK, NEW c \in Calls, StartLoad(c) \/ LoadReturns(c) \/ LoadPanics(c)
  PROVE  /\ UNCHANGED <<projects, order, requested, drops>>
         /\ Len(entries') = Len(entries)
         /\ \A i \in 1 .. Len(entries) :
              /\ entries'[i].root = entries[i].root
              /\ entries'[i].once = "fresh" => entries[i].once = "fresh"
              /\ i # held[c] => entries'[i].once = entries[i].once
              /\ i = held[c] => entries'[i].once # "fresh"
  <1>1. PICK o \in {"running", "done"}, v \in Values : SetEntry(c, o, v)
    <2>1. CASE StartLoad(c)
      BY <2>1 DEF StartLoad, Values
    <2>2. CASE LoadReturns(c)
      BY <2>2 DEF LoadReturns
    <2>3. CASE LoadPanics(c)
      BY <2>3 DEF LoadPanics, Values
    <2>4. QED
      BY <2>1, <2>2, <2>3
  <1>2. /\ Len(entries') = Len(entries)
        /\ \A i \in 1 .. Len(entries) :
             /\ entries'[i].root = entries[i].root
             /\ entries'[i].once = IF i = held[c] THEN o ELSE entries[i].once
    BY <1>1, SetEntryIs
  <1>3. UNCHANGED <<projects, order, requested, drops>>
    BY DEF StartLoad, LoadReturns, LoadPanics, cacheVars
  <1>4. QED
    BY <1>2, <1>3

(* The list, the map and the history keep their agreement. *)
LEMMA NextListed ==
  ASSUME TypeOK, Listed, Recent, [Next]_vars
  PROVE  Listed' /\ Recent'
  <1>0. Len(entries) \in Nat /\ DOMAIN entries = 1 .. Len(entries)
    BY LenProperties DEF TypeOK
  <1>1. ASSUME NEW c \in Calls, NEW r \in Roots, Request(c, r) PROVE Listed' /\ Recent'
    <2>1. /\ IsInjective(order') /\ Len(order') <= ProjectMax /\ DOMAIN projects' = ToSet(order')
          /\ Recent'
      BY <1>1, RequestOrder
    <2>2. ASSUME NEW q \in DOMAIN projects' PROVE entries'[projects'[q]].root = q
      <3>1. CASE r \in DOMAIN projects
        <4>1. q \in DOMAIN projects /\ projects'[q] = projects[q] /\ entries' = entries
          BY <1>1, <2>2, <3>1, RequestEntry
        <4>2. QED
          BY <4>1 DEF Listed
      <3>2. CASE r \notin DOMAIN projects /\ q = r
        <4>1. entries'[projects'[q]] = NewEntry(r)
          BY <1>1, <3>2, RequestEntry
        <4>2. QED
          BY <3>2, <4>1 DEF NewEntry
      <3>3. CASE r \notin DOMAIN projects /\ q # r
        <4>1. q \in DOMAIN projects /\ projects'[q] = projects[q]
          BY <1>1, <2>2, <3>3, RequestEntry
        <4>2. projects[q] \in 1 .. Len(entries)
          BY <1>0, <4>1 DEF TypeOK
        <4>3. entries'[projects[q]] = entries[projects[q]]
          BY <1>1, <3>3, <4>2, RequestEntry
        <4>4. QED
          BY <4>1, <4>3 DEF Listed
      <3>4. QED
        BY <3>1, <3>2, <3>3
    <2>3. QED
      BY <2>1, <2>2 DEF Listed
  <1>2. ASSUME NEW c \in Calls, StartLoad(c) \/ LoadReturns(c) \/ LoadPanics(c)
        PROVE  Listed' /\ Recent'
    <2>1. UNCHANGED <<projects, order, requested>>
      BY <1>2, LoadSteps
    <2>2. \A i \in 1 .. Len(entries) : entries'[i].root = entries[i].root
      BY <1>2, LoadSteps
    <2>3. \A q \in DOMAIN projects : projects[q] \in 1 .. Len(entries)
      BY <1>0 DEF TypeOK
    <2>4. QED
      BY <2>1, <2>2, <2>3 DEF Listed, Recent, EndsWith
  <1>3. ASSUME NEW c \in Calls, RequestDefault(c) \/ Snapshot(c) PROVE Listed' /\ Recent'
    BY <1>3 DEF RequestDefault, Snapshot, cacheVars, Listed, Recent, EndsWith
  <1>4. CASE UNCHANGED vars
    BY <1>4 DEF vars, Listed, Recent, EndsWith
  <1>5. QED
    BY <1>1, <1>2, <1>3, <1>4 DEF Next

(* A call stays bound to its entry until it returns. *)
LEMMA NextBound ==
  ASSUME TypeOK, Listed, Recent, Bound, [Next]_vars
  PROVE  Bound'
  <1>0. /\ Len(entries) \in Nat /\ DOMAIN entries = 1 .. Len(entries)
        /\ \A d \in Calls : held[d] # 0 => held[d] \in 1 .. Len(entries)
    BY LenProperties DEF TypeOK
  <1>1. ASSUME NEW c \in Calls, NEW r \in Roots, Request(c, r) PROVE Bound'
    <2>1. \A i \in 1 .. Len(entries) : entries'[i] = entries[i]
      BY <1>1, RequestEntry
    <2>2. held'[c] # 0 /\ entries'[held'[c]].root = r
      <3>1. CASE r \in DOMAIN projects
        <4>1. entries' = entries /\ held'[c] = projects[r]
          BY <1>1, <3>1, RequestEntry
        <4>2. projects[r] \in 1 .. Len(entries) /\ entries[projects[r]].root = r
          BY <1>0, <3>1 DEF TypeOK, Listed
        <4>3. QED
          BY <1>0, <4>1, <4>2
      <3>2. CASE r \notin DOMAIN projects
        <4>1. entries'[Len(entries) + 1] = NewEntry(r) /\ held'[c] = Len(entries) + 1
          BY <1>1, <3>2, RequestEntry
        <4>2. QED
          BY <1>0, <4>1 DEF NewEntry
      <3>3. QED
        BY <3>1, <3>2
    <2>3. /\ pc'[c] = "once" /\ root'[c] = r
          /\ \A d \in Calls \ {c} : pc'[d] = pc[d] /\ root'[d] = root[d] /\ held'[d] = held[d]
      BY <1>1 DEF Request, TypeOK
    <2>4. QED
      BY <1>0, <2>1, <2>2, <2>3 DEF Bound
  <1>2. ASSUME NEW c \in Calls, RequestDefault(c) PROVE Bound'
    BY <1>2 DEF RequestDefault, Bound, TypeOK
  <1>3. ASSUME NEW c \in Calls, StartLoad(c) \/ LoadReturns(c) \/ LoadPanics(c) PROVE Bound'
    <2>1. \A i \in 1 .. Len(entries) :
            /\ entries'[i].root = entries[i].root
            /\ entries'[i].once = "fresh" => entries[i].once = "fresh"
            /\ i = held[c] => entries'[i].once # "fresh"
      BY <1>3, LoadSteps
    <2>2. /\ pc[c] # "idle"
          /\ pc'[c] = "idle" \/ (root'[c] = root[c] /\ held'[c] = held[c])
          /\ \A d \in Calls \ {c} : pc'[d] = pc[d] /\ root'[d] = root[d] /\ held'[d] = held[d]
      BY <1>3 DEF StartLoad, LoadReturns, LoadPanics, Return, TypeOK
    <2>3. QED
      BY <1>0, <2>1, <2>2 DEF Bound
  <1>4. ASSUME NEW c \in Calls, Snapshot(c) PROVE Bound'
    BY <1>4 DEF Snapshot, Return, Bound, TypeOK
  <1>5. CASE UNCHANGED vars
    BY <1>5 DEF vars, Bound
  <1>6. QED
    BY <1>1, <1>2, <1>3, <1>4, <1>5 DEF Next

-----------------------------------------------------------------------------
(* Only finitely many entries were ever allocated. *)
LEMMA LedgerFinite ==
  ASSUME TypeOK, NEW r
  PROVE  /\ IsFiniteSet(Allocated(r)) /\ IsFiniteSet(Started(r))
         /\ Cardinality(Allocated(r)) \in Nat /\ Cardinality(Started(r)) \in Nat
         /\ Cardinality(Started(r)) <= Cardinality(Allocated(r))
  <1>1. Len(entries) \in Nat /\ DOMAIN entries = 1 .. Len(entries)
    BY LenProperties DEF TypeOK
  <1>2. IsFiniteSet(1 .. Len(entries))
    BY <1>1, FS_Interval
  <1>3. Allocated(r) \in SUBSET (1 .. Len(entries)) /\ Started(r) \in SUBSET Allocated(r)
    BY <1>1 DEF Allocated, Started
  <1>4. IsFiniteSet(Allocated(r))
    BY <1>2, <1>3, FS_Subset
  <1>5. IsFiniteSet(Started(r)) /\ Cardinality(Started(r)) <= Cardinality(Allocated(r))
    BY <1>3, <1>4, FS_Subset
  <1>6. QED
    BY <1>4, <1>5, FS_CardinalityType

(* A request allocates an entry when it caches a root, and counts a drop   *)
(* for every root that leaves the cache.                                   *)
LEMMA RequestLedger ==
  ASSUME Inv, NEW c \in Calls, NEW r \in Roots, Request(c, r)
  PROVE  Ledger'
  <1> USE DEF Inv
  <1>0. Len(entries) \in Nat /\ DOMAIN entries = 1 .. Len(entries)
    BY LenProperties DEF TypeOK
  <1>1. /\ r \in DOMAIN projects'
        /\ \A q \in DOMAIN projects' \ {r} : q \in DOMAIN projects
        /\ drops' = [q \in Roots |-> IF q \in (DOMAIN projects \cup {r}) \ DOMAIN projects'
                                     THEN drops[q] + 1 ELSE drops[q]]
        /\ loads' = loads
    BY RequestEntry DEF Request
  <1>2. \A q \in Roots : drops[q] \in Nat
    BY DEF TypeOK
  <1>3. CASE r \in DOMAIN projects
    <2>1. entries' = entries
      BY <1>3, RequestEntry
    <2>2. \A q \in Roots : drops'[q] + Cached(q)' = drops[q] + Cached(q)
      BY <1>1, <1>2, <1>3 DEF Cached
    <2>3. \A q \in Roots : Allocated(q)' = Allocated(q) /\ Started(q)' = Started(q)
      BY <2>1 DEF Allocated, Started
    <2>4. QED
      BY <1>1, <2>2, <2>3 DEF Ledger
  <1>4. CASE r \notin DOMAIN projects
    <2> DEFINE k == Len(entries) + 1
    <2>1. /\ entries' \in Seq(Entry(Roots)) /\ Len(entries') = k
          /\ \A i \in 1 .. Len(entries) : entries'[i] = entries[i]
          /\ entries'[k] = NewEntry(r)
      BY <1>4, RequestEntry
    <2>2. DOMAIN entries' = 1 .. k
      BY <2>1, LenProperties
    <2>3. /\ k \notin 1 .. Len(entries) /\ 1 .. k = (1 .. Len(entries)) \cup {k}
      BY <1>0
    <2>4. entries'[k].root = r /\ entries'[k].once = "fresh"
      BY <2>1 DEF NewEntry
    <2> HIDE DEF k
    <2>5. \A q : Started(q)' = Started(q)
      BY <1>0, <2>1, <2>2, <2>3, <2>4 DEF Started, Allocated
    <2>6. \A q \in Roots \ {r} : Allocated(q)' = Allocated(q)
      BY <1>0, <2>1, <2>2, <2>3, <2>4 DEF Allocated
    <2>7. Allocated(r)' = Allocated(r) \cup {k} /\ k \notin Allocated(r)
      BY <1>0, <2>1, <2>2, <2>3, <2>4 DEF Allocated
    <2>8. Cardinality(Allocated(r)') = Cardinality(Allocated(r)) + 1
      BY <2>7, LedgerFinite, FS_AddElement
    <2>9. drops'[r] = drops[r] /\ Cached(r)' = 1 /\ Cached(r) = 0
      BY <1>1, <1>4 DEF Cached
    <2>10. \A q \in Roots \ {r} : drops'[q] + Cached(q)' = drops[q] + Cached(q)
      BY <1>1, <1>2, <1>4 DEF Cached
    <2>11. Cardinality(Allocated(r)') = drops'[r] + Cached(r)'
      BY <1>2, <2>8, <2>9 DEF Ledger
    <2>12. \A q \in Roots : Cardinality(Started(q)') = loads'[q]
      BY <1>1, <2>5 DEF Ledger
    <2>13. \A q \in Roots : Cardinality(Allocated(q)') = drops'[q] + Cached(q)'
      BY <2>6, <2>10, <2>11 DEF Ledger
    <2>14. QED
      BY <2>12, <2>13 DEF Ledger
  <1>5. QED
    BY <1>3, <1>4

(* The start of a load takes one entry of the root from fresh to running;  *)
(* the end of a load changes no entry that is fresh.                       *)
LEMMA LoadLedger ==
  ASSUME Inv, NEW c \in Calls, StartLoad(c) \/ LoadReturns(c) \/ LoadPanics(c)
  PROVE  Ledger'
  <1> USE DEF Inv
  <1>0. /\ Len(entries) \in Nat /\ DOMAIN entries = 1 .. Len(entries)
        /\ held[c] # 0 => held[c] \in 1 .. Len(entries)
    BY LenProperties DEF TypeOK
  <1>1. /\ UNCHANGED <<projects, drops>>
        /\ Len(entries') = Len(entries)
        /\ \A i \in 1 .. Len(entries) :
             /\ entries'[i].root = entries[i].root
             /\ i # held[c] => entries'[i].once = entries[i].once
             /\ i = held[c] => entries'[i].once # "fresh"
    BY LoadSteps
  <1>2. DOMAIN entries' = 1 .. Len(entries)
    <2>1. TypeOK'
      BY NextTypeOK DEF Next
    <2>2. QED
      BY <1>1, <2>1, LenProperties DEF TypeOK
  <1>3. \A q \in Roots : Allocated(q)' = Allocated(q)
    BY <1>0, <1>1, <1>2 DEF Allocated
  <1>4. \A q \in Roots : Cardinality(Allocated(q)') = drops'[q] + Cached(q)'
    BY <1>1, <1>3 DEF Ledger, Cached
  <1>5. CASE held[c] = 0
    <2>1. \A q \in Roots : Started(q)' = Started(q)
      BY <1>0, <1>1, <1>2, <1>5 DEF Started, Allocated
    <2>2. root[c] = NoRoot
      BY <1>5 DEF Bound, StartLoad, LoadReturns, LoadPanics
    <2>3. loads' = loads
      BY <2>2, HolderAssumption DEF StartLoad, LoadReturns, LoadPanics, TypeOK
    <2>4. QED
      BY <1>4, <2>1, <2>3 DEF Ledger
  <1>6. CASE held[c] # 0 /\ (LoadReturns(c) \/ LoadPanics(c))
    <2>1. entries[held[c]].once # "fresh" /\ loads' = loads
      BY <1>6 DEF Bound, LoadReturns, LoadPanics
    <2>2. \A q \in Roots : Started(q)' = Started(q)
      BY <1>0, <1>1, <1>2, <1>6, <2>1 DEF Started, Allocated
    <2>3. QED
      BY <1>4, <2>1, <2>2 DEF Ledger
  <1>7. CASE held[c] # 0 /\ StartLoad(c)
    <2> DEFINE h == held[c]
    <2>1. h \in 1 .. Len(entries) /\ entries[h].once = "fresh" /\ entries[h].root = root[c]
          /\ root[c] \in Roots
      BY <1>0, <1>7 DEF StartLoad, Bound, EntryOf
    <2>2. loads' = [q \in Roots |-> IF q = root[c] THEN loads[q] + 1 ELSE loads[q]]
      BY <1>7 DEF StartLoad
    <2>3. h \notin Started(root[c])
      BY <2>1 DEF Started
    <2>4. \A q \in Roots \ {root[c]} : Started(q)' = Started(q)
      BY <1>0, <1>1, <1>2, <2>1 DEF Started, Allocated
    <2>5. Cardinality(Started(root[c]) \cup {h}) = Cardinality(Started(root[c])) + 1
      BY <2>3, LedgerFinite, FS_AddElement
    <2>6. ASSUME NEW q \in Roots PROVE Cardinality(Started(q)') = loads'[q]
      <3>1. CASE q = root[c]
        <4>1. Started(q)' = Started(root[c]) \cup {h}
          BY <1>0, <1>1, <1>2, <2>1, <3>1 DEF Started, Allocated
        <4>2. QED
          BY <2>1, <2>2, <2>5, <3>1, <4>1 DEF Ledger
      <3>2. CASE q # root[c]
        BY <2>2, <2>4, <3>2 DEF Ledger
      <3>3. QED
        BY <3>1, <3>2
    <2>7. QED
      BY <1>4, <2>6 DEF Ledger
  <1>8. QED
    BY <1>5, <1>6, <1>7

-----------------------------------------------------------------------------
(* The initial states satisfy the invariant. *)
LEMMA InitInv == Init => Inv
  <1> SUFFICES ASSUME Init PROVE Inv
    OBVIOUS
  <1>1. TypeOK
    BY InitTypeOK
  <1>2. order = <<>> /\ requested = <<>> /\ entries = <<>> /\ DOMAIN projects = {}
    BY DEF Init
  <1>3. Len(<<>>) = 0 /\ DOMAIN <<>> = {}
    OBVIOUS
  <1>4. ToSet(order) = {} /\ IsInjective(order) /\ Len(order) = 0
    BY <1>2, <1>3 DEF ToSet, IsInjective
  <1>5. Listed
    BY <1>2, <1>4, HolderAssumption DEF Listed
  <1>6. Recent
    BY <1>2, <1>4 DEF Recent, EndsWith
  <1>7. Bound
    BY DEF Init, Bound
  <1>8. Ledger
    <2>1. \A r \in Roots : Allocated(r) = {} /\ Started(r) = {}
      BY <1>2, <1>3 DEF Allocated, Started
    <2>2. Cardinality({}) = 0
      BY FS_EmptySet
    <2>3. \A r \in Roots : drops[r] = 0 /\ loads[r] = 0 /\ Cached(r) = 0
      BY <1>2 DEF Init, Cached
    <2>4. QED
      BY <2>1, <2>2, <2>3 DEF Ledger
  <1>9. QED
    BY <1>1, <1>5, <1>6, <1>7, <1>8 DEF Inv

(* The ledger is kept by every step. *)
LEMMA NextLedger == Inv /\ [Next]_vars => Ledger'
  <1> SUFFICES ASSUME Inv, [Next]_vars PROVE Ledger'
    OBVIOUS
  <1>1. CASE UNCHANGED <<projects, entries, loads, drops>>
    BY <1>1 DEF Inv, Ledger, Allocated, Started, Cached
  <1>2. ASSUME NEW c \in Calls, RequestDefault(c) \/ Snapshot(c)
        PROVE  UNCHANGED <<projects, entries, loads, drops>>
    BY <1>2 DEF RequestDefault, Snapshot, cacheVars
  <1>3. QED
    BY <1>1, <1>2, RequestLedger, LoadLedger DEF Next, vars

(* Every step preserves the invariant. *)
LEMMA NextInv == Inv /\ [Next]_vars => Inv'
  <1> SUFFICES ASSUME Inv, [Next]_vars PROVE Inv'
    OBVIOUS
  <1>1. TypeOK'
    BY NextTypeOK DEF Inv
  <1>2. Listed' /\ Recent'
    BY NextListed DEF Inv
  <1>3. Bound'
    BY NextBound DEF Inv
  <1>4. Ledger'
    BY NextLedger
  <1>5. QED
    BY <1>1, <1>2, <1>3, <1>4 DEF Inv

(* Every reachable state satisfies the invariant. *)
LEMMA InvariantAlways == Spec => []Inv
  BY InitInv, NextInv, PTL DEF Spec

-----------------------------------------------------------------------------
(* A list without duplicates is as long as the set of its elements. *)
LEMMA ListedIsCounted ==
  ASSUME NEW S, NEW s \in Seq(S), IsInjective(s)
  PROVE  Cardinality(ToSet(s)) = Len(s)
  <1>1. Len(s) \in Nat /\ DOMAIN s = 1 .. Len(s) /\ s \in [1 .. Len(s) -> ToSet(s)]
    BY LenProperties DEF ToSet
  <1>2. s \in Bijection(1 .. Len(s), ToSet(s))
    BY <1>1 DEF Bijection, Injection, Surjection, IsInjective, ToSet
  <1>3. ExistsBijection(1 .. Len(s), ToSet(s))
    BY <1>2 DEF ExistsBijection
  <1>4. QED
    BY <1>1, <1>3, FS_CountingElements

(* A list that ends another is its last part. *)
LEMMA EndIsSubSeq ==
  ASSUME NEW S, NEW s \in Seq(S), NEW q \in Seq(S), EndsWith(q, s)
  PROVE  s = SubSeq(q, Len(q) - Len(s) + 1, Len(q))
  <1> DEFINE n == Len(s)
             l == Len(q)
             e == SubSeq(q, l - n + 1, l)
  <1>1. n \in Nat /\ l \in Nat /\ n <= l /\ \A j \in 1 .. n : s[j] = q[l - n + j]
    BY LenProperties DEF EndsWith
  <1>2. \A i \in 1 .. l : q[i] \in S
    BY ElementOfSeq
  <1> HIDE DEF n, l
  <1>3. l - n + 1 \in Int /\ l \in Int /\ \A i \in l - n + 1 .. l : q[i] \in S
    <2>1. l - n + 1 \in Int /\ l \in Int
      BY <1>1
    <2>2. \A i \in l - n + 1 .. l : i \in 1 .. l
      BY <1>1
    <2>3. QED
      BY <1>2, <2>1, <2>2
  <1>4. /\ e \in Seq(S)
        /\ Len(e) = IF l - n + 1 <= l THEN l - (l - n + 1) + 1 ELSE 0
        /\ \A i \in 1 .. l - (l - n + 1) + 1 : e[i] = q[(l - n + 1) + i - 1]
    BY <1>3, SubSeqProperties
  <1>5. Len(e) = n /\ \A i \in 1 .. n : e[i] = q[l - n + i]
    BY <1>1, <1>4
  <1> HIDE DEF e
  <1>6. s = e
    BY <1>1, <1>4, <1>5, SeqEqual DEF n
  <1>7. QED
    BY <1>6 DEF e, n, l

(* The map, the recency list and the entries always agree, and the cache   *)
(* keeps exactly the roots requested last, in that order.                  *)
THEOREM CacheAlwaysExact == Spec => []CacheIsExact
  <1>1. Inv => CacheIsExact
    <2> SUFFICES ASSUME Inv PROVE CacheIsExact
      OBVIOUS
    <2>1. order \in Seq(Roots) /\ requested \in Seq(Roots)
      BY DEF Inv, TypeOK
    <2>2. Len(order) = Cardinality(DOMAIN projects)
      BY <2>1, ListedIsCounted DEF Inv, Listed
    <2>3. CacheCoherent
      BY <2>2 DEF Inv, Listed, CacheCoherent
    <2>4. KeepsMostRecent
      BY <2>1, EndIsSubSeq DEF Inv, Recent, KeepsMostRecent
    <2>5. QED
      BY <2>3, <2>4 DEF Inv, CacheIsExact
  <1>2. QED
    BY <1>1, InvariantAlways, PTL

(* A project's loader is started at most once per entry, and a new entry   *)
(* is allocated only after the cache dropped the old one.                  *)
THEOREM LoadsAlwaysJustified == Spec => []LoadsAreJustified
  <1>1. Inv => LoadsAreJustified
    BY LedgerFinite DEF Inv, Ledger, Cached, LoadsAreJustified
  <1>2. QED
    BY <1>1, InvariantAlways, PTL

(* What a call returns is the loaded store of the project it asked for.    *)
THEOREM AnswersAreTheProjects == Spec => AnswersTheRequestedProject
  <1>1. ASSUME Inv, NEW c \in Calls, pc[c] = "once", pc'[c] = "idle", [Next]_vars
        PROVE  /\ snapshot'[c].root = root[c]
               /\ snapshot'[c].value = EntryOf(c).value
               /\ EntryOf(c).once = "done"
    <2>1. Snapshot(c)
      <3>1. ASSUME NEW d \in Calls,
                   \/ \E r \in Roots : Request(d, r)
                   \/ RequestDefault(d) \/ StartLoad(d) \/ LoadReturns(d) \/ LoadPanics(d)
            PROVE  FALSE
        BY <1>1, <3>1
           DEF Inv, TypeOK, Request, RequestDefault, StartLoad, LoadReturns, LoadPanics, Return
      <3>2. ASSUME NEW d \in Calls, Snapshot(d) PROVE d = c
        BY <1>1, <3>2 DEF Inv, TypeOK, Snapshot, Return
      <3>3. ~ UNCHANGED vars
        BY <1>1 DEF vars
      <3>4. QED
        BY <1>1, <3>1, <3>2, <3>3 DEF Next
    <2>2. EntryOf(c).root = root[c]
      BY <1>1 DEF Inv, Bound, TypeOK, EntryOf, Entry
    <2>3. snapshot'[c] = [root |-> EntryOf(c).root, value |-> EntryOf(c).value]
          /\ EntryOf(c).once = "done"
      BY <1>1, <2>1 DEF Inv, TypeOK, Snapshot, Return
    <2>4. QED
      BY <2>2, <2>3
  <1>2. Inv /\ [Next]_vars
          => [\A c \in Calls :
                pc[c] = "once" /\ pc'[c] = "idle"
                  => /\ snapshot'[c].root = root[c]
                     /\ snapshot'[c].value = EntryOf(c).value
                     /\ EntryOf(c).once = "done"]_vars
    BY <1>1
  <1>3. QED
    BY <1>2, InvariantAlways, PTL DEF Spec, AnswersTheRequestedProject

-----------------------------------------------------------------------------
(* The source contract store, which an entry holds: its lookups go on while *)
(* the holder's calls do, and share no variable with them.                 *)

(* A lookup in progress has a name, and that name has a file. *)
LookupsHaveFiles ==
  \A c \in Lookups : stage[c] # "idle" => fqn[c] \in Fqns /\ FileOf(fqn[c]) \in Files

(* Nobody parses a file again after a parse of it has panicked. *)
PanicsAreFinal == \A p \in panicked : Parsing(p) = {}

(* What a lookup has been there for: a class that a parse found is in the  *)
(* cache by then, a waiter is woken by a parse that ended, and one that    *)
(* gives up has not found its class in what that parse stored.             *)
WitnessesAreTrue ==
  \A c \in Lookups :
    /\ stage[c] = "idle" => ended[c] = {}
    /\ "found" \in ended[c] => fqn[c] \in cache
    /\ stage[c] = "woken" => ended[c] # {}
    /\ stage[c] = "failing" => "lacked" \in ended[c]

(* The inductive invariant: SingleFlight needs to know that the entry of a *)
(* panicked parse stays, and which file each lookup is about.              *)
StoreInv ==
  /\ StoreTypeOK
  /\ SingleFlight
  /\ FailuresCountedOnce
  /\ LookupsHaveFiles
  /\ PanicsAreFinal
  /\ WitnessesAreTrue
  /\ IsFiniteSet(failures)

-----------------------------------------------------------------------------
(* A nonempty set of naturals has a least element. *)
LEMMA LeastElement ==
  ASSUME NEW T \in SUBSET Nat, T # {}
  PROVE  \E i \in T : \A j \in T : i <= j
  <1> DEFINE upTo == {1 .. i : i \in T}
  <1>1. upTo # {}
    OBVIOUS
  <1>2. \A i \in T : IsFiniteSet(1 .. i)
    BY FS_Interval
  <1>3. upTo \subseteq FiniteSubsetsOf(Nat)
    BY <1>2 DEF FiniteSubsetsOf
  <1>4. PICK s \in upTo : \A t \in upTo : ~ (<<t, s>> \in StrictSubsetOrdering(Nat))
    <2> HIDE DEF upTo
    <2>1. QED
      BY <1>1, <1>3, FS_StrictSubsetOrderingWellFounded, WFMin
  <1>5. PICK i \in T : s = 1 .. i
    OBVIOUS
  <1>6. ASSUME NEW j \in T, j < i PROVE FALSE
    <2>1. 1 .. j \subseteq 1 .. i
      BY <1>6
    <2>2. i \in 1 .. i /\ i \notin 1 .. j
      BY <1>6
    <2>3. <<1 .. j, s>> \in StrictSubsetOrdering(Nat)
      BY <1>5, <2>1, <2>2 DEF StrictSubsetOrdering
    <2>4. QED
      BY <1>4, <2>3
  <1>7. QED
    BY <1>6

(* The lookup of a name ends in no file, or in a file of the index. *)
LEMMA FileOfType ==
  ASSUME NEW f \in Fqns
  PROVE  FileOf(f) \in Files \cup {NoFile}
  <1> DEFINE hits == {i \in DOMAIN Enclosing[f] : Enclosing[f][i] \in DOMAIN Index}
  <1>1. CASE hits = {}
    BY <1>1 DEF FileOf
  <1>2. CASE hits # {}
    <2>1. hits \in SUBSET Nat
      BY SourceAssumption
    <2>2. PICK i \in hits : \A j \in hits : i <= j
      BY <1>2, <2>1, LeastElement
    <2> DEFINE first == CHOOSE k \in hits : \A j \in hits : k <= j
    <2>3. first \in hits
      BY <2>2
    <2>4. FileOf(f) = Index[Enclosing[f][first]]
      BY <1>2 DEF FileOf
    <2>5. QED
      BY <2>3, <2>4, SourceAssumption
  <1>3. QED
    BY <1>1, <1>2

-----------------------------------------------------------------------------
(* The initial states are typed. *)
LEMMA InitStoreType == StoreInit => StoreTypeOK
  BY SourceAssumption DEF StoreInit, StoreTypeOK, PCs

(* The type invariant is inductive once every lookup in progress has a file. *)
LEMMA NextStoreType ==
  StoreTypeOK /\ LookupsHaveFiles /\ [StoreNext]_storeVars => StoreTypeOK'
  <1> SUFFICES ASSUME StoreTypeOK, LookupsHaveFiles, [StoreNext]_storeVars PROVE StoreTypeOK'
    OBVIOUS
  <1> USE DEF StoreTypeOK, PCs, Goto, Forget, Answer
  <1>1. ASSUME NEW c \in Lookups, NEW f \in Fqns, Begin(c, f) PROVE StoreTypeOK'
    BY <1>1 DEF Begin
  <1>2. ASSUME NEW c \in Lookups, JoinOrParse(c) PROVE StoreTypeOK'
    BY <1>2 DEF JoinOrParse, LookupsHaveFiles
  <1>3. ASSUME NEW c \in Lookups, ParseFile(c) PROVE StoreTypeOK'
    BY <1>3 DEF ParseFile, LookupsHaveFiles
  <1>4. ASSUME NEW c \in Lookups, StoreClasses(c) PROVE StoreTypeOK'
    <2>1. ended' \in [Lookups -> SUBSET {"found", "lacked"}]
      <3>1. \A d \in Lookups : ended[d] \cup {Outcome(c, fqn[d])} \in SUBSET {"found", "lacked"}
        BY DEF Outcome
      <3>2. QED
        BY <1>4, <3>1 DEF StoreClasses, ParseEnds
    <2>2. stage' \in [Lookups -> PCs]
      BY <1>4 DEF StoreClasses, FinishParse
    <2>3. failures' \subseteq Fqns /\ failCount' \in Nat
      BY <1>4 DEF StoreClasses, RecordFailure, LookupsHaveFiles
    <2>4. cache' \subseteq Fqns /\ inflight' \subseteq Files
      BY <1>4 DEF StoreClasses, FinishParse
    <2>5. fqn' \in [Lookups -> Fqns \cup {NoName}] /\ parsed' \in [Lookups -> SUBSET Fqns]
      BY <1>4 DEF StoreClasses
    <2>6. UNCHANGED <<disk, edits, panicked>>
      BY <1>4 DEF StoreClasses
    <2>7. QED
      BY <2>1, <2>2, <2>3, <2>4, <2>5, <2>6
  <1>5. ASSUME NEW c \in Lookups, Reread(c) PROVE StoreTypeOK'
    BY <1>5 DEF Reread
  <1>6. ASSUME NEW c \in Lookups, Fail(c) PROVE StoreTypeOK'
    BY <1>6 DEF Fail, RecordFailure, LookupsHaveFiles
  <1>7. ASSUME NEW c \in Lookups, ParsePanics(c) PROVE StoreTypeOK'
    BY <1>7 DEF ParsePanics, LookupsHaveFiles
  <1>8. ASSUME NEW p \in Files, Edit(p) PROVE StoreTypeOK'
    <2>1. PICK content \in Contents[p] : disk' = [disk EXCEPT ![p] = content]
      BY <1>8 DEF Edit
    <2>2. content \in SUBSET Fqns
      BY SourceAssumption
    <2>3. disk' \in [Files -> SUBSET Fqns]
      BY <2>1, <2>2
    <2>4. QED
      BY <1>8, <2>3 DEF Edit, asked
  <1>9. CASE UNCHANGED storeVars
    BY <1>9 DEF storeVars, asked
  <1>10. QED
    BY <1>1, <1>2, <1>3, <1>4, <1>5, <1>6, <1>7, <1>8, <1>9 DEF StoreNext, Step

(* A lookup keeps its name until it answers, and a request is only taken   *)
(* for a name that has a file.                                             *)
LEMMA NextLookupsHaveFiles ==
  StoreTypeOK /\ LookupsHaveFiles /\ [StoreNext]_storeVars => LookupsHaveFiles'
  <1> SUFFICES ASSUME StoreTypeOK, LookupsHaveFiles, [StoreNext]_storeVars PROVE LookupsHaveFiles'
    OBVIOUS
  <1> USE DEF StoreTypeOK, LookupsHaveFiles, Goto, Forget, Answer
  <1>1. ASSUME NEW c \in Lookups, NEW f \in Fqns, Begin(c, f) PROVE LookupsHaveFiles'
    BY <1>1, FileOfType DEF Begin
  <1>2. ASSUME NEW c \in Lookups, JoinOrParse(c) PROVE LookupsHaveFiles'
    BY <1>2 DEF JoinOrParse
  <1>3. ASSUME NEW c \in Lookups, ParseFile(c) PROVE LookupsHaveFiles'
    BY <1>3 DEF ParseFile
  <1>4. ASSUME NEW c \in Lookups, StoreClasses(c) PROVE LookupsHaveFiles'
    BY <1>4 DEF StoreClasses, FinishParse
  <1>5. ASSUME NEW c \in Lookups, Reread(c) PROVE LookupsHaveFiles'
    BY <1>5 DEF Reread
  <1>6. ASSUME NEW c \in Lookups, Fail(c) PROVE LookupsHaveFiles'
    BY <1>6 DEF Fail
  <1>7. ASSUME NEW c \in Lookups, ParsePanics(c) PROVE LookupsHaveFiles'
    BY <1>7 DEF ParsePanics
  <1>8. CASE UNCHANGED <<stage, fqn>>
    BY <1>8
  <1>9. QED
    BY <1>1, <1>2, <1>3, <1>4, <1>5, <1>6, <1>7, <1>8 DEF StoreNext, Step, Edit, storeVars, asked

-----------------------------------------------------------------------------
(* Each name that fails is counted when it first enters the set. *)
LEMMA NextCount ==
  ASSUME StoreTypeOK, FailuresCountedOnce, IsFiniteSet(failures), [StoreNext]_storeVars
  PROVE  FailuresCountedOnce' /\ IsFiniteSet(failures')
  <1>1. ASSUME NEW f, RecordFailure(f)
        PROVE  FailuresCountedOnce' /\ IsFiniteSet(failures')
    <2>1. Cardinality(failures') =
            IF f \in failures THEN Cardinality(failures) ELSE Cardinality(failures) + 1
      BY <1>1, FS_AddElement DEF RecordFailure
    <2>2. IsFiniteSet(failures')
      BY <1>1, FS_AddElement DEF RecordFailure
    <2>3. QED
      BY <1>1, <2>1, <2>2 DEF RecordFailure, FailuresCountedOnce
  <1>2. CASE UNCHANGED <<failures, failCount>>
    BY <1>2 DEF FailuresCountedOnce
  <1>3. (\E f : RecordFailure(f)) \/ UNCHANGED <<failures, failCount>>
    BY DEF StoreNext, Step, Begin, JoinOrParse, ParseFile, ParsePanics, StoreClasses, Reread, Fail,
           Edit, storeVars, asked
  <1>4. QED
    BY <1>1, <1>2, <1>3

(* What a lookup must be doing for a file to be parsed. *)
LEMMA ParsingIs ==
  \A c \in Lookups, p \in Files :
    c \in Parsing(p) <=> stage[c] \in {"parsing", "storing"} /\ FileOf(fqn[c]) = p
  BY DEF Parsing

(* The lock discipline of the in-flight entries: only JoinOrParse starts a *)
(* parse, and only when there is no entry; only the end of that parse      *)
(* removes the entry, and wakes all who wait for it.                       *)
LEMMA NextSingleFlight ==
  ASSUME StoreTypeOK, SingleFlight, LookupsHaveFiles, PanicsAreFinal, [StoreNext]_storeVars
  PROVE  SingleFlight' /\ PanicsAreFinal'
  <1> USE DEF StoreTypeOK, PCs, Goto, Forget, Answer, SingleFlight, PanicsAreFinal, Parsing
  <1>1. ASSUME NEW c \in Lookups, NEW f \in Fqns, Begin(c, f) PROVE SingleFlight' /\ PanicsAreFinal'
    BY <1>1 DEF Begin
  <1>2. ASSUME NEW c \in Lookups, JoinOrParse(c) PROVE SingleFlight' /\ PanicsAreFinal'
    BY <1>2 DEF JoinOrParse, LookupsHaveFiles
  <1>3. ASSUME NEW c \in Lookups, ParseFile(c) PROVE SingleFlight' /\ PanicsAreFinal'
    BY <1>3 DEF ParseFile
  <1>4. ASSUME NEW c \in Lookups, StoreClasses(c) PROVE SingleFlight' /\ PanicsAreFinal'
    <2>0. PICK q \in Files : q = FileOf(fqn[c])
      BY <1>4 DEF StoreClasses, LookupsHaveFiles
    <2>1. /\ stage[c] = "storing" /\ UNCHANGED panicked /\ panicked \subseteq Files
          /\ inflight' = inflight \ {q} /\ stage'[c] = "idle"
          /\ \A d \in Lookups \ {c} :
               /\ stage'[d] = IF stage[d] = "waiting" /\ FileOf(fqn[d]) = q THEN "woken" ELSE stage[d]
               /\ fqn'[d] = fqn[d]
      BY <1>4, <2>0 DEF StoreClasses, FinishParse
    <2>2. Parsing(q) = {c} /\ q \notin panicked
      <3>1. c \in Parsing(q)
        BY <2>0, <2>1
      <3>2. QED
        BY <2>1, <3>1
    <2>3. \A p \in Files : Parsing(p)' = Parsing(p) \ {c}
      BY <2>1
    <2>4. Parsing(q)' = {} /\ \A p \in Files \ {q} : Parsing(p)' = Parsing(p)
      <3> HIDE DEF Parsing
      <3>1. \A p \in Files \ {q} : c \notin Parsing(p)
        BY <2>0, ParsingIs
      <3>2. \A p \in Files \ {q} : Parsing(p) \ {c} = Parsing(p)
        BY <3>1
      <3>3. Parsing(q) \ {c} = {}
        BY <2>2
      <3>4. QED
        BY <2>3, <3>2, <3>3
    <2> HIDE DEF Parsing, StoreTypeOK, PCs, Goto, Forget, Answer
    <2>5. ASSUME NEW p \in Files
          PROVE  /\ \A d, e \in Parsing(p)' : d = e
                 /\ p \in inflight' <=> (Parsing(p)' # {} \/ p \in panicked')
      <3>1. CASE p = q
        BY <2>1, <2>2, <2>4, <3>1
      <3>2. CASE p # q
        BY <2>1, <2>4, <3>2
      <3>3. QED
        BY <3>1, <3>2
    <2>6. ASSUME NEW d \in Lookups, stage'[d] = "waiting" PROVE FileOf(fqn'[d]) \in inflight'
      BY <2>1, <2>6
    <2>7. PanicsAreFinal'
      BY <2>1, <2>2, <2>4
    <2>8. QED
      BY <2>5, <2>6, <2>7
  <1>5. ASSUME NEW c \in Lookups, Reread(c) PROVE SingleFlight' /\ PanicsAreFinal'
    BY <1>5 DEF Reread
  <1>6. ASSUME NEW c \in Lookups, Fail(c) PROVE SingleFlight' /\ PanicsAreFinal'
    BY <1>6 DEF Fail
  <1>7. ASSUME NEW c \in Lookups, ParsePanics(c) PROVE SingleFlight' /\ PanicsAreFinal'
    BY <1>7 DEF ParsePanics, LookupsHaveFiles
  <1>8. CASE UNCHANGED <<stage, fqn, inflight, panicked>>
    BY <1>8
  <1>9. QED
    BY <1>1, <1>2, <1>3, <1>4, <1>5, <1>6, <1>7, <1>8 DEF StoreNext, Step, Edit, storeVars, asked

(* Only the end of a parse adds to what lookups have been there for, in    *)
(* the critical section that stores its classes.                           *)
LEMMA NextWitnesses ==
  ASSUME StoreTypeOK, WitnessesAreTrue, [StoreNext]_storeVars
  PROVE  WitnessesAreTrue'
  <1> USE DEF StoreTypeOK, PCs, Goto, Forget, Answer, WitnessesAreTrue
  <1>1. ASSUME NEW c \in Lookups, NEW f \in Fqns, Begin(c, f) PROVE WitnessesAreTrue'
    BY <1>1 DEF Begin
  <1>2. ASSUME NEW c \in Lookups, JoinOrParse(c) PROVE WitnessesAreTrue'
    BY <1>2 DEF JoinOrParse
  <1>3. ASSUME NEW c \in Lookups, ParseFile(c) PROVE WitnessesAreTrue'
    BY <1>3 DEF ParseFile
  <1>4. ASSUME NEW c \in Lookups, StoreClasses(c) PROVE WitnessesAreTrue'
    <2> SUFFICES ASSUME NEW d \in Lookups
                 PROVE  /\ stage'[d] = "idle" => ended'[d] = {}
                        /\ "found" \in ended'[d] => fqn'[d] \in cache'
                        /\ stage'[d] = "woken" => ended'[d] # {}
                        /\ stage'[d] = "failing" => "lacked" \in ended'[d]
      OBVIOUS
    <2>1. CASE d = c
      BY <1>4, <2>1 DEF StoreClasses, FinishParse, ParseEnds
    <2>2. CASE d # c
      <3>1. /\ fqn'[d] = fqn[d] /\ cache' = cache \cup parsed[c]
            /\ stage'[d] = IF stage[d] = "waiting" /\ FileOf(fqn[d]) = FileOf(fqn[c]) THEN "woken" ELSE stage[d]
            /\ ended'[d] = IF stage[d] # "idle" /\ FileOf(fqn[d]) = FileOf(fqn[c])
                           THEN ended[d] \cup {Outcome(c, fqn[d])} ELSE ended[d]
        BY <1>4, <2>2 DEF StoreClasses, FinishParse, ParseEnds
      <3>2. QED
        BY <3>1 DEF Outcome
    <2>3. QED
      BY <2>1, <2>2
  <1>5. ASSUME NEW c \in Lookups, Reread(c) PROVE WitnessesAreTrue'
    <2>1. fqn[c] \notin cache => "lacked" \in ended[c]
      <3>1. stage[c] = "woken" /\ ended[c] \in SUBSET {"found", "lacked"}
        BY <1>5 DEF Reread
      <3>2. QED
        BY <3>1
    <2>2. QED
      BY <1>5, <2>1 DEF Reread
  <1>6. ASSUME NEW c \in Lookups, Fail(c) PROVE WitnessesAreTrue'
    BY <1>6 DEF Fail
  <1>7. ASSUME NEW c \in Lookups, ParsePanics(c) PROVE WitnessesAreTrue'
    BY <1>7 DEF ParsePanics
  <1>8. CASE UNCHANGED <<stage, fqn, ended, cache>>
    BY <1>8
  <1>9. QED
    BY <1>1, <1>2, <1>3, <1>4, <1>5, <1>6, <1>7, <1>8 DEF StoreNext, Step, Edit, storeVars, asked

(* The initial states satisfy the invariant. *)
LEMMA InitStore == StoreInit => StoreInv
  <1> SUFFICES ASSUME StoreInit PROVE StoreInv
    OBVIOUS
  <1> USE DEF StoreInit
  <1>1. StoreTypeOK
    BY InitStoreType
  <1>2. SingleFlight /\ PanicsAreFinal
    BY DEF SingleFlight, PanicsAreFinal, Parsing
  <1>3. FailuresCountedOnce /\ IsFiniteSet(failures)
    BY FS_EmptySet DEF FailuresCountedOnce
  <1>4. LookupsHaveFiles /\ WitnessesAreTrue
    BY DEF LookupsHaveFiles, WitnessesAreTrue
  <1>5. QED
    BY <1>1, <1>2, <1>3, <1>4 DEF StoreInv

(* Every step preserves the invariant. *)
LEMMA NextStore == StoreInv /\ [StoreNext]_storeVars => StoreInv'
  <1> SUFFICES ASSUME StoreInv, [StoreNext]_storeVars PROVE StoreInv'
    OBVIOUS
  <1> USE DEF StoreInv
  <1>1. StoreTypeOK'
    BY NextStoreType
  <1>2. LookupsHaveFiles'
    BY NextLookupsHaveFiles
  <1>3. FailuresCountedOnce' /\ IsFiniteSet(failures')
    BY NextCount
  <1>4. SingleFlight' /\ PanicsAreFinal'
    BY NextSingleFlight
  <1>5. WitnessesAreTrue'
    BY NextWitnesses
  <1>6. QED
    BY <1>1, <1>2, <1>3, <1>4, <1>5

(* The cache, the in-flight entries and the failures agree in every state: *)
(* no file is parsed twice at once, no lookup waits for a parse that is    *)
(* over, and every name that failed is counted once.                       *)
THEOREM AlwaysConsistent ==
  StoreSpec => []StoreIsConsistent
  <1>1. StoreInv => StoreIsConsistent
    BY DEF StoreInv, StoreIsConsistent
  <1>2. QED
    BY <1>1, InitStore, NextStore, PTL DEF StoreSpec

(* A waiter is never left alone: as long as it waits there is a lookup that *)
(* parses its file and will wake it, unless that parse panicked.  This is   *)
(* the safety half of EveryLookupAnswers.                                   *)
THEOREM WaitersAreServed ==
  StoreSpec => [](\A c \in Lookups : stage[c] = "waiting" =>
                Parsing(FileOf(fqn[c])) # {} \/ FileOf(fqn[c]) \in panicked)
  <1>1. StoreInv => \A c \in Lookups : stage[c] = "waiting" =>
                  Parsing(FileOf(fqn[c])) # {} \/ FileOf(fqn[c]) \in panicked
    BY DEF StoreInv, StoreTypeOK, SingleFlight
  <1>2. QED
    BY <1>1, InitStore, NextStore, PTL DEF StoreSpec

(* What a lookup answers and starts, by what it has been there for. *)
LEMMA NextMissIsReal ==
  ASSUME StoreTypeOK, WitnessesAreTrue, [StoreNext]_storeVars
  PROVE  \A d \in Lookups : MissIsReal(d)
  <1> USE DEF StoreTypeOK, PCs, Goto, Forget, Answer, WitnessesAreTrue, MissIsReal, AnswersMiss, Outcome
  <1> SUFFICES ASSUME NEW d \in Lookups PROVE MissIsReal(d)
    OBVIOUS
  <1>1. ASSUME NEW c \in Lookups, NEW f \in Fqns, Begin(c, f) PROVE MissIsReal(d)
    BY <1>1 DEF Begin
  <1>2. ASSUME NEW c \in Lookups, JoinOrParse(c) PROVE MissIsReal(d)
    BY <1>2 DEF JoinOrParse
  <1>3. ASSUME NEW c \in Lookups, ParseFile(c) \/ ParsePanics(c) PROVE MissIsReal(d)
    BY <1>3 DEF ParseFile, ParsePanics
  <1>4. ASSUME NEW c \in Lookups, StoreClasses(c) PROVE MissIsReal(d)
    <2>1. cache' = cache \cup parsed[c] /\ stage[c] = "storing"
          /\ stage'[d] = IF d = c THEN "idle"
                         ELSE IF stage[d] = "waiting" /\ FileOf(fqn[d]) = FileOf(fqn[c]) THEN "woken" ELSE stage[d]
      BY <1>4 DEF StoreClasses, FinishParse
    <2>2. AnswersMiss(d) => "lacked" \in IF stage[d] = "storing" THEN {Outcome(d, fqn[d])} ELSE ended[d]
      <3>1. CASE d = c
        <4>1. fqn[c] \in parsed[c] => fqn[c] \in cache' /\ parsed[c] # {}
          BY <2>1
        <4>2. AnswersMiss(d) => ~ (fqn[c] \in parsed[c])
          BY <2>1, <3>1, <4>1
        <4>3. QED
          BY <2>1, <3>1, <4>2
      <3>2. CASE d # c
        BY <2>1, <3>2
      <3>3. QED
        BY <3>1, <3>2
    <2>3. ~ (stage[d] # "parsing" /\ stage'[d] = "parsing")
      BY <2>1
    <2>4. QED
      BY <2>2, <2>3
  <1>5. ASSUME NEW c \in Lookups, Reread(c) PROVE MissIsReal(d)
    BY <1>5 DEF Reread
  <1>6. ASSUME NEW c \in Lookups, Fail(c) PROVE MissIsReal(d)
    BY <1>6 DEF Fail
  <1>7. CASE UNCHANGED <<cache, stage>>
    BY <1>7
  <1>8. QED
    BY <1>1, <1>2, <1>3, <1>4, <1>5, <1>6, <1>7 DEF StoreNext, Step, Edit, storeVars, asked

(* A lookup answers "no such class" only when a parse of the file, its own *)
(* or one it waited for, ended while it was in progress without finding    *)
(* the class, and parses for itself only what no such parse has found.     *)
THEOREM NoFalseMiss ==
  StoreSpec => MissesAreReal
  <1>1. StoreInv /\ [StoreNext]_storeVars => [\A c \in Lookups : MissIsReal(c)]_storeVars
    BY NextMissIsReal DEF StoreInv
  <1>2. QED
    BY <1>1, InitStore, NextStore, PTL DEF StoreSpec, MissesAreReal
=============================================================================
