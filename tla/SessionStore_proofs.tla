------------------------- MODULE SessionStore_proofs -------------------------
(***************************************************************************)
(* Proofs about the session registry, for any set of ids, any capacity,    *)
(* expiry time and history length.                                         *)
(***************************************************************************)
EXTENDS SessionStore, FiniteSetTheorems, SequenceTheorems, TLAPS

-----------------------------------------------------------------------------
(* Induction and recursion over the natural numbers, in a form that does   *)
(* not need an operator to stand for the formula: what holds is a set.     *)
LEMMA SetInduction ==
  ASSUME NEW S, 0 \in S, \A n \in Nat : n \in S => n + 1 \in S
  PROVE  \A n \in Nat : n \in S
  <1> SUFFICES ASSUME NEW n \in Nat, n \notin S PROVE FALSE
    OBVIOUS
  <1> DEFINE A == {k \in 0..n : k \in S}
             next == [k \in A |-> k + 1]
  <1>1. IsFiniteSet(A)
    <2>1. IsFiniteSet(0..n)
      BY FS_Interval
    <2>2. QED
      BY <2>1, FS_Subset
  <1>2. next \in Injection(A, A)
    <2>1. next \in [A -> A]
      <3>1. \A k \in A : k + 1 \in A
        OBVIOUS
      <3>2. QED
        BY <3>1
    <2>2. \A j, k \in A : next[j] = next[k] => j = k
      OBVIOUS
    <2>3. QED
      BY <2>1, <2>2 DEF Injection, IsInjective
  <1>3. next \in Surjection(A, A)
    <2> HIDE DEF A, next
    <2>1. QED
      BY <1>1, <1>2, FS_Injection
  <1>4. 0 \in A
    OBVIOUS
  <1>5. PICK k \in A : next[k] = 0
    <2> HIDE DEF A, next
    <2>1. QED
      BY <1>3, <1>4 DEF Surjection
  <1>6. QED
    BY <1>5

(* f starts with base and goes on with what step[i] makes of it. *)
Recurs(f, k, base, step) ==
  f[0] = base /\ \A i \in 1..k : f[i] = step[i][f[i - 1]]

LEMMA Recursion ==
  ASSUME NEW n \in Nat, NEW X, NEW base \in X, NEW step, \A i \in 1..n : step[i] \in [X -> X]
  PROVE  \E f \in [0..n -> X] : Recurs(f, n, base, step)
  <1> DEFINE S == {k \in Nat : k <= n => \E f \in [0..k -> X] : Recurs(f, k, base, step)}
  <1>1. 0 \in S
    <2> DEFINE f == [i \in 0..0 |-> base]
    <2>1. f \in [0..0 -> X] /\ f[0] = base
      OBVIOUS
    <2>2. Recurs(f, 0, base, step)
      BY <2>1 DEF Recurs
    <2>3. QED
      BY <2>1, <2>2
  <1>2. ASSUME NEW k \in Nat, k \in S PROVE k + 1 \in S
    <2>1. SUFFICES ASSUME k + 1 <= n PROVE \E f \in [0..k + 1 -> X] : Recurs(f, k + 1, base, step)
      OBVIOUS
    <2>2. PICK f \in [0..k -> X] : Recurs(f, k, base, step)
      BY <1>2, <2>1
    <2> DEFINE g == [i \in 0..k + 1 |-> IF i = k + 1 THEN step[k + 1][f[k]] ELSE f[i]]
    <2>3. g \in [0..k + 1 -> X]
      BY <2>1, <2>2
    <2>4. ASSUME NEW i \in 1..k + 1 PROVE g[i] = step[i][g[i - 1]]
      BY <2>2 DEF Recurs
    <2>5. g[0] = base
      BY <2>2 DEF Recurs
    <2>6. Recurs(g, k + 1, base, step)
      BY <2>4, <2>5 DEF Recurs
    <2>7. QED
      BY <2>3, <2>6
  <1>3. \A k \in Nat : k \in S
    <2> HIDE DEF S
    <2>1. QED
      BY <1>1, <1>2, SetInduction
  <1>4. QED
    BY <1>3

(* Remembering a plan yields a list of plan numbers. *)
LEMMA RememberType ==
  ASSUME NEW plans \in Seq(Nat), NEW p \in Nat
  PROVE  Remember(plans, p) \in Seq(Nat)
  <1> DEFINE all == <<p>> \o plans
  <1>1. all \in Seq(Nat)
    <2>1. <<p>> \in Seq(Nat)
      OBVIOUS
    <2>2. QED
      BY <2>1, ConcatProperties
  <1>2. Len(all) \in Nat
    BY <1>1, LenProperties
  <1> DEFINE n == IF Len(all) > History THEN History ELSE Len(all)
  <1>3. n \in 0..Len(all)
    BY <1>2, SessionAssumption
  <1> HIDE DEF all
  <1>4. SubSeq(all, 1, n) \in Seq(Nat)
    BY <1>1, <1>2, <1>3
  <1>5. QED
    BY <1>4 DEF Remember, all

(* All sets of sessions are finite, because only issued ids are live. *)
LEMMA LiveIsFinite ==
  ASSUME TypeOK
  PROVE  /\ IsFiniteSet(DOMAIN sessions) /\ Cardinality(DOMAIN sessions) \in Nat
         /\ IsFiniteSet(Unexpired) /\ Cardinality(Unexpired) \in Nat
  <1>1. DOMAIN sessions \in SUBSET SessionIds
    BY DEF TypeOK
  <1>2. Unexpired \in SUBSET SessionIds
    BY <1>1 DEF Unexpired
  <1>3. QED
    BY <1>1, <1>2, SessionAssumption, FS_Subset, FS_CardinalityType

-----------------------------------------------------------------------------
(* A scan that has visited some of the sessions that are left has found one *)
(* of them that no other one it visited was used before.                   *)
Found(lru, left, visits, n) ==
  \/ lru = {} /\ \A i \in 1..n : visits[i] \notin left
  \/ \E id \in left :
       /\ lru = {id}
       /\ \A i \in 1..n : visits[i] \in left => sessions[id].lastUsed <= sessions[visits[i]].lastUsed

LEMMA LruIs ==
  ASSUME TypeOK, NEW left \in SUBSET DOMAIN sessions, NEW k \in Nat,
         NEW visits, Len(visits) = k, left \subseteq {visits[i] : i \in 1..k}, left # {}
  PROVE  \E id \in left :
           /\ Lru(left, visits) = {id}
           /\ \A other \in left : sessions[id].lastUsed <= sessions[other].lastUsed
  <1> DEFINE Used(id) == sessions[id].lastUsed
             Better(n, x) == visits[n] \in left /\ \A id \in x : Used(visits[n]) < Used(id)
             next(n, x) == IF Better(n, x) THEN {visits[n]} ELSE x
             X == SUBSET left
             step == [i \in 1..k |-> [x \in X |-> next(i, x)]]
             Is(f) == f = [n \in 0..k |-> IF n = 0 THEN {} ELSE next(n, f[n - 1])]
             lru == CHOOSE f : Is(f)
  <1>1. \A id \in left : Used(id) \in Nat
    BY DEF TypeOK, Session
  <1>2. \A i \in 1..k : step[i] \in [X -> X] /\ \A x \in X : step[i][x] = next(i, x)
    <2>1. \A i \in 1..k, x \in X : next(i, x) \in X
      OBVIOUS
    <2> HIDE DEF next, X
    <2>2. QED
      BY <2>1
  <1>3. PICK f \in [0..k -> X] : Recurs(f, k, {}, step)
    <2> HIDE DEF step
    <2>1. {} \in X
      OBVIOUS
    <2> HIDE DEF X
    <2>2. QED
      BY <1>2, <2>1, Recursion
  <1>4. Is(f)
    <2> HIDE DEF step, next, X
    <2>1. ASSUME NEW i \in 1..k PROVE f[i] = next(i, f[i - 1])
      <3>1. f[i - 1] \in X /\ f[i] = step[i][f[i - 1]]
        <4>1. i - 1 \in 0..k
          OBVIOUS
        <4>2. QED
          BY <1>3, <4>1 DEF Recurs
      <3>2. QED
        BY <1>2, <3>1
    <2>2. f[0] = {}
      BY <1>3 DEF Recurs
    <2>3. ASSUME NEW n \in 0..k PROVE f[n] = IF n = 0 THEN {} ELSE next(n, f[n - 1])
      BY <2>1, <2>2
    <2>4. f = [n \in 0..k |-> IF n = 0 THEN {} ELSE next(n, f[n - 1])]
      BY <1>3, <2>3
    <2>5. QED
      BY <2>4
  <1>5. Is(lru)
    BY <1>4
  <1>6. Lru(left, visits) = lru[k]
    BY Zenon DEF Lru
  <1> HIDE DEF lru
  <1>7. lru[0] = {} /\ \A n \in 1..k : lru[n] = next(n, lru[n - 1])
    <2> HIDE DEF next
    <2>1. \A n \in 0..k : lru[n] = IF n = 0 THEN {} ELSE next(n, lru[n - 1])
      BY <1>5, Zenon
    <2>2. QED
      BY <2>1
  <1> DEFINE There == {n \in Nat : n <= k => Found(lru[n], left, visits, n)}
  <1>8. \A n \in Nat : n \in There
    <2>1. 0 \in There
      BY <1>7 DEF Found
    <2>2. ASSUME NEW n \in Nat, n \in There PROVE n + 1 \in There
      <3>1. SUFFICES ASSUME n + 1 <= k PROVE Found(lru[n + 1], left, visits, n + 1)
        OBVIOUS
      <3>2. Found(lru[n], left, visits, n) /\ lru[n + 1] = next(n + 1, lru[n])
        <4>1. n <= k /\ n + 1 \in 1..k /\ (n + 1) - 1 = n
          BY <3>1
        <4> HIDE DEF next
        <4>2. QED
          BY <1>7, <2>2, <4>1
      <3>3. \A i \in 1..n + 1 : i = n + 1 \/ i \in 1..n
        OBVIOUS
      <3>4. CASE visits[n + 1] \notin left
        BY <3>2, <3>3, <3>4 DEF Found
      <3>5. CASE visits[n + 1] \in left /\ lru[n] = {}
        <4>1. \A i \in 1..n : visits[i] \notin left
          BY <3>2, <3>5 DEF Found
        <4>2. lru[n + 1] = {visits[n + 1]}
          BY <3>2, <3>5
        <4>3. QED
          BY <1>1, <3>3, <3>5, <4>1, <4>2 DEF Found
      <3>6. CASE visits[n + 1] \in left /\ lru[n] # {}
        <4>1. PICK id \in left :
                /\ lru[n] = {id}
                /\ \A i \in 1..n : visits[i] \in left => Used(id) <= Used(visits[i])
          BY <3>2, <3>6 DEF Found
        <4>2. CASE Used(visits[n + 1]) < Used(id)
          <5>1. lru[n + 1] = {visits[n + 1]}
            BY <3>2, <3>6, <4>1, <4>2
          <5>2. \A i \in 1..n + 1 : visits[i] \in left => Used(visits[n + 1]) <= Used(visits[i])
            BY <1>1, <3>3, <3>6, <4>1, <4>2
          <5>3. QED
            BY <3>6, <5>1, <5>2 DEF Found
        <4>3. CASE ~(Used(visits[n + 1]) < Used(id))
          <5>1. lru[n + 1] = {id}
            BY <3>2, <4>1, <4>3
          <5>2. \A i \in 1..n + 1 : visits[i] \in left => Used(id) <= Used(visits[i])
            BY <1>1, <3>3, <3>6, <4>1, <4>3
          <5>3. QED
            BY <5>1, <5>2 DEF Found
        <4>4. QED
          BY <4>2, <4>3
      <3>7. QED
        BY <3>4, <3>5, <3>6
    <2> HIDE DEF There
    <2>3. QED
      BY <2>1, <2>2, SetInduction
  <1>9. Found(lru[k], left, visits, k)
    BY <1>8
  <1>10. QED
    BY <1>6, <1>9 DEF Found

(* What enforceCapLocked leaves of the sessions that have not expired. *)
LeavesRoom(keep) ==
  /\ keep \subseteq Unexpired
  /\ Cap > 0 => Cardinality(keep) < Cap
  /\ \A out \in Unexpired \ keep, kept \in keep : sessions[out].lastUsed <= sessions[kept].lastUsed
  /\ Unexpired # keep => Cap > 0 /\ Cardinality(keep) = Cap - 1

(* The same in the middle of the loop, after n rounds. *)
Leaving(left, n) ==
  /\ left \subseteq Unexpired
  /\ \A out \in Unexpired \ left, kept \in left : sessions[out].lastUsed <= sessions[kept].lastUsed
  /\ Unexpired # left => Cap > 0 /\ Cardinality(left) >= Cap - 1
  /\ Cap > 0 => Cardinality(left) < Cap \/ Cardinality(left) + n <= Cardinality(Unexpired)

LEMMA KeptIs ==
  ASSUME TypeOK, NEW scans \in Scans
  PROVE  LeavesRoom(Kept(scans))
  <1> DEFINE k == Cardinality(Unexpired)
             X == SUBSET Unexpired
             next(n, x) == IF Cap = 0 \/ Cardinality(x) < Cap THEN x ELSE x \ Lru(x, scans[n])
             step == [i \in 1..k |-> [x \in X |-> next(i, x)]]
             Is(f) == f = [n \in 0..Len(scans) |-> IF n = 0 THEN Unexpired ELSE next(n, f[n - 1])]
             left == CHOOSE f : Is(f)
  <1>1. k \in Nat /\ IsFiniteSet(Unexpired)
    BY LiveIsFinite
  <1>2. Len(scans) = k
    <2>1. scans \in [1..k -> Surjection(1..k, Unexpired)]
      BY DEF Scans
    <2> HIDE DEF k
    <2>2. QED
      BY <1>1, <2>1
  <1>3. \A i \in 1..k : Len(scans[i]) = k /\ Unexpired \subseteq {scans[i][j] : j \in 1..k}
    <2>1. scans \in [1..k -> Surjection(1..k, Unexpired)]
      BY DEF Scans
    <2> HIDE DEF k
    <2>2. ASSUME NEW i \in 1..k
          PROVE  Len(scans[i]) = k /\ Unexpired \subseteq {scans[i][j] : j \in 1..k}
      <3>1. scans[i] \in Surjection(1..k, Unexpired)
        BY <2>1
      <3>2. /\ scans[i] \in [1..k -> Unexpired]
            /\ \A id \in Unexpired : \E j \in 1..k : scans[i][j] = id
        BY <3>1 DEF Surjection
      <3>3. Len(scans[i]) = k
        BY <1>1, <3>2
      <3>4. QED
        BY <3>2, <3>3
    <2>3. QED
      BY <2>2
  <1> HIDE DEF k
  <1>4. \A i \in 1..k : step[i] \in [X -> X] /\ \A x \in X : step[i][x] = next(i, x)
    <2>1. \A i \in 1..k, x \in X : next(i, x) \in X
      OBVIOUS
    <2> HIDE DEF next, X
    <2>2. QED
      BY <2>1
  <1>5. PICK f \in [0..k -> X] : Recurs(f, k, Unexpired, step)
    <2> HIDE DEF step
    <2>1. Unexpired \in X
      OBVIOUS
    <2> HIDE DEF X
    <2>2. QED
      BY <1>1, <1>4, <2>1, Recursion
  <1>6. Is(f)
    <2> HIDE DEF step, next, X
    <2>1. ASSUME NEW i \in 1..k PROVE f[i] = next(i, f[i - 1])
      <3>1. f[i - 1] \in X /\ f[i] = step[i][f[i - 1]]
        <4>1. i - 1 \in 0..k
          BY <1>1
        <4>2. QED
          BY <1>5, <4>1 DEF Recurs
      <3>2. QED
        BY <1>4, <3>1
    <2>2. f[0] = Unexpired
      BY <1>5 DEF Recurs
    <2>3. ASSUME NEW n \in 0..k PROVE f[n] = IF n = 0 THEN Unexpired ELSE next(n, f[n - 1])
      BY <1>1, <2>1, <2>2
    <2>4. f = [n \in 0..k |-> IF n = 0 THEN Unexpired ELSE next(n, f[n - 1])]
      BY <1>5, <2>3
    <2>5. QED
      BY <1>2, <2>4
  <1>7. Is(left)
    BY <1>6
  <1>8. Kept(scans) = left[Len(scans)]
    BY Zenon DEF Kept
  <1> HIDE DEF left
  <1>9. left[0] = Unexpired /\ \A n \in 1..k : left[n] = next(n, left[n - 1])
    <2> HIDE DEF next
    <2>1. \A n \in 0..k : left[n] = IF n = 0 THEN Unexpired ELSE next(n, left[n - 1])
      BY <1>2, <1>7, Zenon
    <2>2. QED
      BY <1>1, <2>1
  <1> DEFINE There == {n \in Nat : n <= k => Leaving(left[n], n)}
  <1>10. \A n \in Nat : n \in There
    <2>1. 0 \in There
      BY <1>1, <1>9 DEF Leaving, k
    <2>2. ASSUME NEW n \in Nat, n \in There PROVE n + 1 \in There
      <3>1. SUFFICES ASSUME n + 1 <= k PROVE Leaving(left[n + 1], n + 1)
        OBVIOUS
      <3>2. Leaving(left[n], n) /\ left[n + 1] = next(n + 1, left[n])
        <4>1. n <= k /\ n + 1 \in 1..k /\ (n + 1) - 1 = n
          BY <3>1, <1>1
        <4> HIDE DEF next
        <4>2. QED
          BY <1>9, <2>2, <4>1
      <3>3. /\ left[n] \subseteq Unexpired /\ IsFiniteSet(left[n]) /\ Cardinality(left[n]) \in Nat
        BY <1>1, <3>2, FS_Subset, FS_CardinalityType DEF Leaving
      <3>4. CASE Cap = 0 \/ Cardinality(left[n]) < Cap
        BY <3>2, <3>4, SessionAssumption DEF Leaving
      <3>5. CASE Cap > 0 /\ ~(Cardinality(left[n]) < Cap)
        <4>1. left[n + 1] = left[n] \ Lru(left[n], scans[n + 1])
          BY <3>2, <3>5, SessionAssumption
        <4>2. left[n] # {}
          BY <3>3, <3>5, FS_EmptySet, SessionAssumption
        <4>3. PICK id \in left[n] :
                /\ Lru(left[n], scans[n + 1]) = {id}
                /\ \A other \in left[n] : sessions[id].lastUsed <= sessions[other].lastUsed
          <5>1. left[n] \in SUBSET DOMAIN sessions
            BY <3>3 DEF Unexpired
          <5>2. /\ Len(scans[n + 1]) = k
                /\ left[n] \subseteq {scans[n + 1][i] : i \in 1..k}
            BY <1>3, <3>1, <3>3
          <5>3. QED
            BY <1>1, <4>2, <5>1, <5>2, LruIs
        <4>4. left[n + 1] = left[n] \ {id}
          BY <4>1, <4>3
        <4>5. Cardinality(left[n + 1]) = Cardinality(left[n]) - 1
          BY <3>3, <4>3, <4>4, FS_RemoveElement
        <4>6. \A out \in Unexpired \ left[n + 1], kept \in left[n + 1] :
                sessions[out].lastUsed <= sessions[kept].lastUsed
          BY <3>2, <4>3, <4>4 DEF Leaving
        <4>7. Cardinality(left[n]) + n <= k
          BY <3>2, <3>5 DEF Leaving, k
        <4>8. Cardinality(left[n + 1]) + n + 1 <= k /\ Cardinality(left[n + 1]) >= Cap - 1
          BY <1>1, <3>3, <3>5, <4>5, <4>7, SessionAssumption
        <4>9. QED
          BY <1>1, <3>3, <3>5, <4>4, <4>5, <4>6, <4>8 DEF Leaving, k
      <3>6. QED
        BY <3>4, <3>5, SessionAssumption
    <2> HIDE DEF There
    <2>3. QED
      BY <2>1, <2>2, SetInduction
  <1>11. Leaving(left[k], k)
    BY <1>1, <1>10
  <1>12. Cap > 0 => Cardinality(left[k]) < Cap
    <2>1. left[k] \subseteq Unexpired /\ Cardinality(left[k]) \in Nat
      BY <1>1, <1>11, FS_Subset, FS_CardinalityType DEF Leaving
    <2>2. QED
      BY <1>1, <1>11, <2>1, SessionAssumption DEF Leaving, k
  <1>13. Cardinality(left[k]) \in Nat
    BY <1>1, <1>11, FS_Subset, FS_CardinalityType DEF Leaving
  <1>14. QED
    BY <1>2, <1>8, <1>11, <1>12, <1>13, SessionAssumption DEF Leaving, LeavesRoom

(* What is live after Create: what the loop leaves, and the new session. *)
LEMMA Survivors ==
  ASSUME TypeOK, NEW id \in SessionIds, Create(id)
  PROVE  \E keep \in SUBSET Unexpired :
           /\ LeavesRoom(keep)
           /\ sessions' = [s \in keep \cup {id} |->
                             IF s = id
                             THEN [lastUsed |-> now, lastPlan |-> NoPlan, plans |-> <<>>]
                             ELSE sessions[s]]
  <1>1. PICK scans \in Scans :
          sessions' = [s \in Kept(scans) \cup {id} |->
                         IF s = id
                         THEN [lastUsed |-> now, lastPlan |-> NoPlan, plans |-> <<>>]
                         ELSE sessions[s]]
    BY DEF Create
  <1>2. LeavesRoom(Kept(scans))
    BY KeptIs
  <1>3. QED
    BY <1>1, <1>2 DEF LeavesRoom

-----------------------------------------------------------------------------
LEMMA InitTypeOK == Init => TypeOK
  BY DEF Init, TypeOK

(* The type invariant is inductive by itself. *)
LEMMA NextTypeOK == TypeOK /\ [Next]_vars => TypeOK'
  <1> SUFFICES ASSUME TypeOK, [Next]_vars PROVE TypeOK'
    OBVIOUS
  <1> USE DEF TypeOK, Session, NoPlan
  <1>1. ASSUME NEW id \in SessionIds, Create(id) PROVE TypeOK'
    <2>1. PICK keep \in SUBSET Unexpired :
            sessions' = [s \in keep \cup {id} |->
                           IF s = id
                           THEN [lastUsed |-> now, lastPlan |-> NoPlan, plans |-> <<>>]
                           ELSE sessions[s]]
      BY <1>1, Survivors
    <2>2. keep \subseteq DOMAIN sessions
      BY DEF Unexpired
    <2>3. DOMAIN sessions' = keep \cup {id}
      BY <2>1
    <2>4. issued' = issued \cup {id}
      BY <1>1 DEF Create
    <2>5. sessions' \in [DOMAIN sessions' -> Session]
      BY <2>1, <2>2, <2>3
    <2>6. log' \in [issued' -> Seq(Nat)]
      BY <1>1, <2>4 DEF Create
    <2>7. QED
      BY <1>1, <2>2, <2>3, <2>4, <2>5, <2>6 DEF Create
  <1>2. ASSUME NEW id \in SessionIds, Get(id) PROVE TypeOK'
    BY <1>2 DEF Get
  <1>3. ASSUME NEW id \in SessionIds, CapturePlan(id) PROVE TypeOK'
    <2>1. attempts' \in Nat /\ id \in issued
      BY <1>3 DEF CapturePlan
    <2>2. Remember(sessions[id].plans, attempts') \in Seq(Nat)
      BY <1>3, <2>1, RememberType DEF CapturePlan
    <2>3. DOMAIN sessions' = DOMAIN sessions
      BY <1>3 DEF CapturePlan
    <2>4. sessions' \in [DOMAIN sessions' -> Session]
      BY <1>3, <2>1, <2>2, <2>3 DEF CapturePlan
    <2>5. Append(log[id], attempts') \in Seq(Nat)
      BY <2>1
    <2>6. log' \in [issued -> Seq(Nat)]
      BY <1>3, <2>1, <2>5 DEF CapturePlan
    <2>7. QED
      BY <1>3, <2>1, <2>3, <2>4, <2>6 DEF CapturePlan
  <1>4. ASSUME NEW id \in SessionIds, CaptureTooLarge(id) PROVE TypeOK'
    <2>1. attempts' \in Nat /\ id \in issued
      BY <1>4 DEF CaptureTooLarge
    <2>2. DOMAIN sessions' = DOMAIN sessions
      BY <1>4 DEF CaptureTooLarge
    <2>3. sessions' \in [DOMAIN sessions' -> Session]
      BY <1>4, <2>2 DEF CaptureTooLarge
    <2>4. Append(log[id], NoPlan) \in Seq(Nat)
      BY <2>1
    <2>5. log' \in [issued -> Seq(Nat)]
      BY <1>4, <2>1, <2>4 DEF CaptureTooLarge
    <2>6. QED
      BY <1>4, <2>1, <2>2, <2>3, <2>5 DEF CaptureTooLarge
  <1>5. ASSUME ClockAdvances PROVE TypeOK'
    BY <1>5 DEF ClockAdvances
  <1>6. ASSUME ClockStepsBack PROVE TypeOK'
    BY <1>6 DEF ClockStepsBack
  <1>7. CASE UNCHANGED vars
    BY <1>7 DEF vars
  <1>8. QED
    BY <1>1, <1>2, <1>3, <1>4, <1>5, <1>6, <1>7 DEF Next

(* Every state of the registry has the declared types. *)
THEOREM TypeCorrect == Spec => []TypeOK
  BY InitTypeOK, NextTypeOK, PTL DEF Spec

-----------------------------------------------------------------------------
(* Only Create changes which sessions are live. *)
LEMMA SameSessions ==
  ASSUME TypeOK, [Next]_vars
  PROVE  \/ \E id \in SessionIds : Create(id)
         \/ DOMAIN sessions' = DOMAIN sessions
  <1> USE DEF TypeOK
  <1>1. ASSUME NEW id \in SessionIds, Get(id) \/ CapturePlan(id) \/ CaptureTooLarge(id)
        PROVE  DOMAIN sessions' = DOMAIN sessions
    BY <1>1 DEF Get, CapturePlan, CaptureTooLarge
  <1>2. CASE ClockAdvances \/ ClockStepsBack
    BY <1>2 DEF ClockAdvances, ClockStepsBack
  <1>3. CASE UNCHANGED vars
    BY <1>3 DEF vars
  <1>4. QED
    BY <1>1, <1>2, <1>3 DEF Next

(* What Create keeps and whom it evicts. *)
LEMMA CreateKeeps ==
  ASSUME TypeOK, NEW id \in SessionIds, Create(id)
  PROVE  \E keep \in SUBSET Unexpired :
           /\ LeavesRoom(keep)
           /\ DOMAIN sessions' = keep \cup {id}
           /\ id \notin DOMAIN sessions
           /\ IsFiniteSet(keep) /\ Cardinality(keep) \in Nat
  <1>1. PICK keep \in SUBSET Unexpired :
          /\ LeavesRoom(keep)
          /\ sessions' = [s \in keep \cup {id} |->
                            IF s = id
                            THEN [lastUsed |-> now, lastPlan |-> NoPlan, plans |-> <<>>]
                            ELSE sessions[s]]
    BY Survivors
  <1>2. DOMAIN sessions' = keep \cup {id}
    BY <1>1
  <1>3. id \notin DOMAIN sessions
    BY DEF Create, TypeOK
  <1>4. IsFiniteSet(keep) /\ Cardinality(keep) \in Nat
    BY LiveIsFinite, FS_Subset, FS_CardinalityType
  <1>5. QED
    BY <1>1, <1>2, <1>3, <1>4

LEMMA NextWithinCapacity == TypeOK /\ WithinCapacity /\ [Next]_vars => WithinCapacity'
  <1> SUFFICES ASSUME TypeOK, WithinCapacity, [Next]_vars, Cap > 0
               PROVE  Cardinality(DOMAIN sessions') <= Cap
    BY DEF WithinCapacity
  <1>1. CASE \E id \in SessionIds : Create(id)
    <2>1. PICK id \in SessionIds : Create(id)
      BY <1>1
    <2>2. PICK keep \in SUBSET Unexpired :
            /\ LeavesRoom(keep)
            /\ DOMAIN sessions' = keep \cup {id}
            /\ IsFiniteSet(keep) /\ Cardinality(keep) \in Nat
      BY <2>1, CreateKeeps
    <2>3. Cardinality(keep) < Cap
      BY <2>2 DEF LeavesRoom
    <2>4. Cardinality(keep \cup {id}) = IF id \in keep THEN Cardinality(keep) ELSE Cardinality(keep) + 1
      BY <2>2, FS_AddElement
    <2>5. QED
      BY <2>2, <2>3, <2>4, SessionAssumption
  <1>2. CASE DOMAIN sessions' = DOMAIN sessions
    BY <1>2 DEF WithinCapacity
  <1>3. QED
    BY <1>1, <1>2, SameSessions

(* The registry never outgrows its capacity. *)
THEOREM CapacityHolds == Spec => []WithinCapacity
  <1>1. Init => WithinCapacity
    <2> SUFFICES ASSUME Init, Cap > 0 PROVE Cardinality(DOMAIN sessions) <= Cap
      BY DEF WithinCapacity
    <2>1. DOMAIN sessions = {}
      BY DEF Init
    <2>2. QED
      BY <2>1, FS_EmptySet, SessionAssumption
  <1>2. QED
    BY <1>1, NextWithinCapacity, TypeCorrect, PTL DEF Spec

(* No step brings a dropped session back. *)
THEOREM DroppedForGood == Spec => DroppedStaysDropped
  <1>1. ASSUME TypeOK, [Next]_vars
        PROVE  [\A id \in issued \ DOMAIN sessions : id \notin DOMAIN sessions']_vars
    <2> SUFFICES ASSUME NEW id \in issued \ DOMAIN sessions
                 PROVE  id \notin DOMAIN sessions'
      OBVIOUS
    <2>1. CASE \E new \in SessionIds : Create(new)
      <3>1. PICK new \in SessionIds : Create(new)
        BY <2>1
      <3>2. new # id
        BY <3>1 DEF Create
      <3>3. PICK keep \in SUBSET Unexpired : DOMAIN sessions' = keep \cup {new}
        BY <1>1, <3>1, CreateKeeps
      <3>4. QED
        BY <3>2, <3>3 DEF Unexpired
    <2>2. CASE DOMAIN sessions' = DOMAIN sessions
      BY <2>2
    <2>3. QED
      BY <1>1, <2>1, <2>2, SameSessions
  <1>2. QED
    BY <1>1, TypeCorrect, PTL DEF Spec, DroppedStaysDropped

(* A session that has not expired goes only from a full registry, and only *)
(* if none of those that stay was used before it.                          *)
THEOREM LeastRecentlyUsedGoes == Spec => EvictsLeastRecentlyUsed
  <1> DEFINE Fair(id) ==
        /\ Cap > 0
        /\ Cardinality(DOMAIN sessions') = Cap
        /\ \A other \in DOMAIN sessions \cap DOMAIN sessions' :
             sessions[id].lastUsed <= sessions[other].lastUsed
  <1>1. ASSUME TypeOK, [Next]_vars
        PROVE  [\A id \in Unexpired \ DOMAIN sessions' : Fair(id)]_vars
    <2> SUFFICES ASSUME NEW id \in Unexpired \ DOMAIN sessions' PROVE Fair(id)
      OBVIOUS
    <2>1. CASE \E new \in SessionIds : Create(new)
      <3>1. PICK new \in SessionIds : Create(new)
        BY <2>1
      <3>2. PICK keep \in SUBSET Unexpired :
              /\ LeavesRoom(keep)
              /\ DOMAIN sessions' = keep \cup {new}
              /\ new \notin DOMAIN sessions
              /\ IsFiniteSet(keep) /\ Cardinality(keep) \in Nat
        BY <1>1, <3>1, CreateKeeps
      <3>3. id \in Unexpired \ keep
        BY <3>2
      <3>4. Cap > 0 /\ Cardinality(keep) = Cap - 1
        BY <3>2, <3>3 DEF LeavesRoom
      <3>5. Cardinality(DOMAIN sessions') = Cap
        <4>1. Cardinality(keep \cup {new}) = Cardinality(keep) + 1
          BY <3>2, FS_AddElement DEF Unexpired
        <4>2. QED
          BY <3>2, <3>4, <4>1, SessionAssumption
      <3>6. DOMAIN sessions \cap DOMAIN sessions' = keep
        BY <3>2 DEF Unexpired
      <3>7. \A other \in keep : sessions[id].lastUsed <= sessions[other].lastUsed
        BY <3>2, <3>3 DEF LeavesRoom
      <3>8. QED
        BY <3>2, <3>4, <3>5, <3>6, <3>7
    <2>2. CASE DOMAIN sessions' = DOMAIN sessions
      BY <2>2 DEF Unexpired
    <2>3. QED
      BY <1>1, <2>1, <2>2, SameSessions
  <1>2. QED
    BY <1>1, TypeCorrect, PTL DEF Spec, EvictsLeastRecentlyUsed

-----------------------------------------------------------------------------
(* Remembering a plan puts it first and forgets at most the last one. *)
LEMMA RememberIs ==
  ASSUME NEW plans \in Seq(Nat), NEW p \in Nat, Len(plans) <= History
  PROVE  /\ Remember(plans, p) \in Seq(Nat)
         /\ Len(Remember(plans, p)) = IF Len(plans) < History THEN Len(plans) + 1 ELSE History
         /\ \A i \in 1 .. Len(Remember(plans, p)) :
              Remember(plans, p)[i] = IF i = 1 THEN p ELSE plans[i - 1]
  <1> DEFINE all == <<p>> \o plans
             l == Len(plans)
             n == IF l < History THEN l + 1 ELSE History
  <1>1. l \in Nat /\ n \in 1 .. l + 1
    BY LenProperties, SessionAssumption
  <1>2. /\ all \in Seq(Nat) /\ Len(all) = l + 1
        /\ \A i \in 1 .. l + 1 : all[i] = IF i = 1 THEN p ELSE plans[i - 1]
    <2>1. <<p>> \in Seq(Nat) /\ Len(<<p>>) = 1 /\ <<p>>[1] = p
      OBVIOUS
    <2>2. /\ all \in Seq(Nat) /\ Len(all) = 1 + l
          /\ \A i \in 1 .. 1 + l : all[i] = IF i <= 1 THEN <<p>>[i] ELSE plans[i - 1]
      BY <2>1, ConcatProperties
    <2>3. QED
      BY <1>1, <2>1, <2>2
  <1> HIDE DEF all
  <1>3. Remember(plans, p) = SubSeq(all, 1, n)
    BY <1>1, <1>2, SessionAssumption DEF Remember, all
  <1> HIDE DEF n, l
  <1>4. \A i \in 1 .. n : i \in 1 .. l + 1
    BY <1>1
  <1>5. 1 \in Int /\ n \in Int /\ \A i \in 1 .. n : all[i] \in Nat
    <2>1. \A i \in 1 .. l + 1 : all[i] \in Nat
      BY <1>2, ElementOfSeq
    <2>2. QED
      BY <1>1, <1>4, <2>1
  <1>6. /\ SubSeq(all, 1, n) \in Seq(Nat)
        /\ Len(SubSeq(all, 1, n)) = IF 1 <= n THEN n - 1 + 1 ELSE 0
        /\ \A i \in 1 .. n - 1 + 1 : SubSeq(all, 1, n)[i] = all[1 + i - 1]
    BY <1>5, SubSeqProperties
  <1>7. Len(SubSeq(all, 1, n)) = n /\ \A i \in 1 .. n : SubSeq(all, 1, n)[i] = all[i]
    BY <1>1, <1>6
  <1>8. QED
    BY <1>2, <1>3, <1>4, <1>6, <1>7 DEF n, l

(* A list that remembers its captures still does after a later one. *)
LEMMA RemembersNext ==
  ASSUME NEW plans \in Seq(Nat), NEW fit \in SUBSET Nat, NEW p \in Nat,
         \A q \in fit : q < p, Remembers(plans, fit)
  PROVE  Remembers(Remember(plans, p), fit \cup {p})
  <1> DEFINE new == Remember(plans, p)
             l == Len(plans)
  <1>1. l \in Nat /\ DOMAIN plans = 1 .. l /\ \A i \in 1 .. l : plans[i] \in Nat
    BY LenProperties, ElementOfSeq
  <1>2. /\ l <= History
        /\ \A i, j \in 1 .. l : i < j => plans[i] > plans[j]
        /\ \A i \in 1 .. l : plans[i] \in fit
        /\ \A q \in fit : q \notin Elements(plans) =>
             l = History /\ \A i \in 1 .. l : q < plans[i]
    BY <1>1 DEF Remembers, Elements
  <1>3. /\ new \in Seq(Nat) /\ Len(new) = IF l < History THEN l + 1 ELSE History
        /\ \A i \in 1 .. Len(new) : new[i] = IF i = 1 THEN p ELSE plans[i - 1]
    BY <1>2, RememberIs
  <1> DEFINE n == Len(new)
  <1>4. n \in Nat /\ DOMAIN new = 1 .. n
    BY <1>3, LenProperties
  <1> HIDE DEF new, n
  <1>5. n >= 1 /\ n <= History /\ n <= l + 1
    BY <1>1, <1>3, SessionAssumption DEF n
  <1>6. \A i \in 1 .. n : i # 1 => i - 1 \in 1 .. l
    BY <1>1, <1>4, <1>5
  <1>7. \A i \in 1 .. n : new[i] = IF i = 1 THEN p ELSE plans[i - 1]
    BY <1>3 DEF n
  <1>8. \A i, j \in 1 .. n : i < j => new[i] > new[j]
    <2> SUFFICES ASSUME NEW i \in 1 .. n, NEW j \in 1 .. n, i < j PROVE new[i] > new[j]
      OBVIOUS
    <2>1. j # 1 /\ j - 1 \in 1 .. l /\ new[j] = plans[j - 1]
      BY <1>6, <1>7
    <2>2. CASE i = 1
      BY <1>1, <1>2, <1>7, <2>1, <2>2
    <2>3. CASE i # 1
      <3>1. i - 1 \in 1 .. l /\ new[i] = plans[i - 1] /\ i - 1 < j - 1
        BY <1>6, <1>7, <2>3
      <3>2. QED
        BY <1>2, <2>1, <3>1
    <2>4. QED
      BY <2>2, <2>3
  <1>9. \A i \in 1 .. n : new[i] \in fit \cup {p}
    BY <1>2, <1>6, <1>7
  <1>10. ASSUME NEW q \in fit \cup {p}, q \notin Elements(new)
         PROVE  n = History /\ \A i \in 1 .. n : q < new[i]
    <2>1. 1 \in 1 .. n /\ new[1] = p
      BY <1>4, <1>5, <1>7
    <2>2. q \in fit /\ q < p
      BY <1>4, <1>10, <2>1 DEF Elements
    <2>3. CASE q \in Elements(plans)
      <3>1. PICK k \in 1 .. l : plans[k] = q
        BY <1>1, <2>3 DEF Elements
      <3>2. ~(k + 1 \in 1 .. n)
        <4> SUFFICES ASSUME k + 1 \in 1 .. n PROVE FALSE
          OBVIOUS
        <4>1. new[k + 1] = plans[k + 1 - 1] /\ k + 1 - 1 = k
          BY <1>7, <3>1
        <4>2. QED
          BY <1>4, <1>10, <3>1, <4>1 DEF Elements
      <3>3. k = l /\ n = History /\ l = History
        <4>1. n = IF l < History THEN l + 1 ELSE History
          BY <1>3 DEF n
        <4>2. History \in Nat /\ l \in Nat /\ n \in Nat /\ l <= History /\ k \in 1 .. l
          BY <1>1, <1>2, <1>4, <3>1, SessionAssumption
        <4>3. CASE l < History
          <5>1. n = l + 1
            BY <4>1, <4>3
          <5>2. k + 1 \in 1 .. n
            BY <4>2, <5>1
          <5>3. QED
            BY <3>2, <5>2
        <4>4. CASE ~(l < History)
          <5>1. n = History
            BY <4>1, <4>4
          <5>2. l = History
            BY <4>2, <4>4
          <5>3. CASE k < l
            <6>1. k + 1 \in 1 .. n
              BY <4>2, <5>1, <5>2, <5>3
            <6>2. QED
              BY <3>2, <6>1
          <5>4. CASE ~(k < l)
            BY <4>2, <5>1, <5>2, <5>4
          <5>5. QED
            BY <5>3, <5>4
        <4>5. QED
          BY <4>3, <4>4
      <3>4. ASSUME NEW i \in 1 .. n PROVE q < new[i]
        <4>1. CASE i = 1
          BY <2>2, <2>1, <4>1
        <4>2. CASE i # 1
          <5>1. i - 1 \in 1 .. l /\ i - 1 < k
            BY <1>1, <1>6, <3>3, <4>2
          <5>2. plans[i - 1] > plans[k]
            BY <1>2, <3>1, <5>1
          <5>3. QED
            BY <1>1, <1>7, <3>1, <4>2, <5>1, <5>2
        <4>3. QED
          BY <4>1, <4>2
      <3>5. QED
        BY <3>3, <3>4
    <2>4. CASE q \notin Elements(plans)
      <3>1. l = History /\ \A i \in 1 .. l : q < plans[i]
        BY <1>2, <2>2, <2>4
      <3>2. n = History
        BY <1>1, <1>3, <3>1 DEF n
      <3>3. ASSUME NEW i \in 1 .. n PROVE q < new[i]
        BY <1>6, <1>7, <2>2, <3>1
      <3>4. QED
        BY <3>2, <3>3
    <2>5. QED
      BY <2>3, <2>4
  <1>11. QED
    BY <1>4, <1>5, <1>8, <1>9, <1>10 DEF Remembers, Elements, n, new

(* Plans are numbered in the order of their captures. *)
Numbered == \A id \in issued : \A p \in Elements(log[id]) : p <= attempts

(* The elements of a list that grows. *)
LEMMA AppendElements ==
  ASSUME NEW l \in Seq(Nat), NEW e \in Nat
  PROVE  /\ Append(l, e) \in Seq(Nat)
         /\ Elements(Append(l, e)) = Elements(l) \cup {e}
         /\ LastOf(Append(l, e)) = e
         /\ Elements(l) \subseteq Nat
  <1>1. /\ Append(l, e) \in Seq(Nat) /\ Len(Append(l, e)) = Len(l) + 1
        /\ \A j \in 1 .. Len(l) : Append(l, e)[j] = l[j]
        /\ Append(l, e)[Len(l) + 1] = e
    OBVIOUS
  <1>2. Len(l) \in Nat /\ DOMAIN l = 1 .. Len(l)
    BY LenProperties
  <1>3. DOMAIN Append(l, e) = 1 .. Len(l) + 1
    BY <1>1, LenProperties
  <1>4. 1 .. Len(l) + 1 = (1 .. Len(l)) \cup {Len(l) + 1}
    BY <1>2
  <1> DEFINE a == Append(l, e)
  <1>5. Elements(a) = {a[i] : i \in 1 .. Len(l) + 1} /\ Elements(l) = {l[i] : i \in 1 .. Len(l)}
    BY <1>2, <1>3 DEF Elements
  <1>6. a # <<>>
    BY <1>1, <1>2
  <1>7. LastOf(a) = e
    BY <1>1, <1>6 DEF LastOf
  <1>8. Elements(l) \subseteq Nat
    BY <1>2, ElementOfSeq DEF Elements
  <1> HIDE DEF a
  <1>9. Elements(a) = Elements(l) \cup {e}
    <2>1. \A i \in 1 .. Len(l) : a[i] = l[i]
      BY <1>1 DEF a
    <2>2. a[Len(l) + 1] = e
      BY <1>1 DEF a
    <2>3. QED
      BY <1>4, <1>5, <2>1, <2>2
  <1>10. QED
    BY <1>1, <1>7, <1>8, <1>9 DEF a

(* One step keeps the memory of every session exact. *)
LEMMA NextHistory ==
  ASSUME TypeOK, Numbered, HistoryIsRecentCaptures, [Next]_vars
  PROVE  Numbered' /\ HistoryIsRecentCaptures'
  <1> DEFINE fit(id) == Elements(log[id]) \ {NoPlan}
  <1>1. ASSUME NEW id \in SessionIds, Create(id)
        PROVE  Numbered' /\ HistoryIsRecentCaptures'
    <2>1. PICK keep \in SUBSET Unexpired :
            sessions' = [s \in keep \cup {id} |->
                           IF s = id
                           THEN [lastUsed |-> now, lastPlan |-> NoPlan, plans |-> <<>>]
                           ELSE sessions[s]]
      BY <1>1, Survivors
    <2>2. /\ id \notin issued /\ keep \subseteq DOMAIN sessions
          /\ log' = [s \in issued \cup {id} |-> IF s = id THEN <<>> ELSE log[s]]
          /\ issued' = issued \cup {id} /\ attempts' = attempts
      BY <1>1 DEF Create, Unexpired
    <2>3. Len(<<>>) = 0 /\ DOMAIN <<>> = {} /\ Elements(<<>>) = {} /\ LastOf(<<>>) = NoPlan
      BY DEF Elements, LastOf
    <2>4. Remembers(<<>>, {})
      BY <2>3, SessionAssumption DEF Remembers
    <2>5. \A s \in keep : s # id /\ s \in issued
      BY <2>2 DEF TypeOK
    <2>6. Numbered'
      BY <2>2, <2>3 DEF Numbered
    <2>7. ASSUME NEW s \in DOMAIN sessions'
          PROVE  /\ Remembers(sessions'[s].plans, Elements(log'[s]) \ {NoPlan})
                 /\ sessions'[s].lastPlan = LastOf(log'[s])
      <3>1. CASE s = id
        BY <2>1, <2>2, <2>3, <2>4, <3>1
      <3>2. CASE s # id
        <4>1. s \in keep /\ sessions'[s] = sessions[s] /\ log'[s] = log[s]
          BY <2>1, <2>2, <2>5, <2>7, <3>2
        <4>2. QED
          BY <2>2, <4>1 DEF HistoryIsRecentCaptures
      <3>3. QED
        BY <3>1, <3>2
    <2>8. QED
      BY <2>6, <2>7 DEF HistoryIsRecentCaptures
  <1>2. ASSUME NEW id \in SessionIds, Get(id)
        PROVE  Numbered' /\ HistoryIsRecentCaptures'
    <2>1. /\ DOMAIN sessions' = DOMAIN sessions /\ UNCHANGED <<issued, log, attempts>>
          /\ \A s \in DOMAIN sessions : /\ sessions'[s].plans = sessions[s].plans
                                        /\ sessions'[s].lastPlan = sessions[s].lastPlan
      BY <1>2 DEF Get, TypeOK, Session
    <2>2. QED
      BY <2>1 DEF Numbered, HistoryIsRecentCaptures
  <1>3. ASSUME NEW id \in SessionIds, CapturePlan(id)
        PROVE  Numbered' /\ HistoryIsRecentCaptures'
    <2> DEFINE p == attempts + 1
    <2>1. /\ id \in DOMAIN sessions /\ id \in issued /\ p \in Nat
          /\ attempts' = p /\ issued' = issued
          /\ DOMAIN sessions' = DOMAIN sessions
          /\ sessions'[id].plans = Remember(sessions[id].plans, p)
          /\ sessions'[id].lastPlan = p
          /\ \A s \in DOMAIN sessions \ {id} : sessions'[s] = sessions[s]
          /\ log'[id] = Append(log[id], p)
          /\ \A s \in issued \ {id} : log'[s] = log[s]
      BY <1>3 DEF CapturePlan, TypeOK
    <2>2. log[id] \in Seq(Nat) /\ sessions[id].plans \in Seq(Nat)
      BY <2>1 DEF TypeOK, Session
    <2>3. /\ Elements(log'[id]) = Elements(log[id]) \cup {p} /\ LastOf(log'[id]) = p
          /\ Elements(log[id]) \subseteq Nat
      BY <2>1, <2>2, AppendElements
    <2>4. p # NoPlan /\ attempts < p /\ attempts \in Nat
      BY DEF NoPlan, TypeOK
    <2>5. fit(id) \in SUBSET Nat /\ \A q \in fit(id) : q < p
      <3>1. \A q \in fit(id) : q \in Nat /\ q <= attempts
        BY <2>1, <2>3 DEF Numbered
      <3>2. QED
        BY <2>3, <2>4, <3>1
    <2>6. Elements(log'[id]) \ {NoPlan} = fit(id) \cup {p}
      BY <2>3, <2>4
    <2>7. Remembers(sessions[id].plans, fit(id))
      BY <2>1 DEF HistoryIsRecentCaptures
    <2> HIDE DEF p, fit
    <2>8. Remembers(sessions'[id].plans, fit(id) \cup {p})
      BY <2>1, <2>2, <2>5, <2>7, RemembersNext
    <2>9. HistoryIsRecentCaptures'
      BY <2>1, <2>3, <2>6, <2>8 DEF HistoryIsRecentCaptures, TypeOK
    <2>10. ASSUME NEW s \in issued, NEW q \in Elements(log'[s]) PROVE q <= p
      <3>1. CASE s = id
        <4>1. q = p \/ q \in Elements(log[id])
          BY <2>3, <2>10, <3>1
        <4>2. CASE q = p
          BY <2>1, <4>2
        <4>3. CASE q \in Elements(log[id])
          <5>1. q \in Nat /\ q <= attempts
            BY <2>1, <2>3, <4>3 DEF Numbered
          <5>2. QED
            BY <2>1, <2>4, <5>1
        <4>4. QED
          BY <4>1, <4>2, <4>3
      <3>2. CASE s # id
        <4>1. log'[s] = log[s] /\ log[s] \in Seq(Nat)
          BY <2>1, <3>2 DEF TypeOK
        <4>2. q \in Nat /\ q <= attempts
          BY <2>1, <2>10, <4>1, AppendElements DEF Numbered
        <4>3. QED
          BY <2>1, <2>4, <4>2
      <3>3. QED
        BY <3>1, <3>2
    <2>11. QED
      BY <2>1, <2>9, <2>10 DEF Numbered
  <1>4. ASSUME NEW id \in SessionIds, CaptureTooLarge(id)
        PROVE  Numbered' /\ HistoryIsRecentCaptures'
    <2>1. /\ id \in DOMAIN sessions /\ id \in issued
          /\ attempts' = attempts + 1 /\ issued' = issued /\ attempts \in Nat
          /\ DOMAIN sessions' = DOMAIN sessions
          /\ sessions'[id].plans = sessions[id].plans
          /\ sessions'[id].lastPlan = NoPlan
          /\ \A s \in DOMAIN sessions \ {id} : sessions'[s] = sessions[s]
          /\ log'[id] = Append(log[id], NoPlan)
          /\ \A s \in issued \ {id} : log'[s] = log[s]
      BY <1>4 DEF CaptureTooLarge, TypeOK, Session
    <2>2. log[id] \in Seq(Nat) /\ NoPlan \in Nat
      BY <2>1 DEF TypeOK, NoPlan
    <2>3. /\ Elements(log'[id]) = Elements(log[id]) \cup {NoPlan} /\ LastOf(log'[id]) = NoPlan
      BY <2>1, <2>2, AppendElements
    <2>4. Elements(log'[id]) \ {NoPlan} = Elements(log[id]) \ {NoPlan}
      BY <2>3
    <2>5. HistoryIsRecentCaptures'
      BY <2>1, <2>3, <2>4 DEF HistoryIsRecentCaptures, TypeOK
    <2>6. ASSUME NEW s \in issued, NEW q \in Elements(log'[s]) PROVE q <= attempts + 1
      <3>1. CASE q = NoPlan
        BY <2>1, <3>1 DEF NoPlan
      <3>2. CASE q # NoPlan
        <4>1. log[s] \in Seq(Nat) /\ q \in Elements(log[s])
          <5>1. log[s] \in Seq(Nat)
            BY DEF TypeOK
          <5>2. CASE s = id
            BY <2>3, <2>6, <3>2, <5>1, <5>2
          <5>3. CASE s # id
            BY <2>1, <2>6, <5>1, <5>3
          <5>4. QED
            BY <5>2, <5>3, <5>1
        <4>2. q \in Nat /\ q <= attempts
          BY <2>2, <4>1, AppendElements DEF Numbered
        <4>3. QED
          BY <2>1, <4>2
      <3>3. QED
        BY <3>1, <3>2
    <2>7. QED
      BY <2>1, <2>5, <2>6 DEF Numbered
  <1>5. CASE UNCHANGED <<sessions, issued, log, attempts>>
    BY <1>5 DEF Numbered, HistoryIsRecentCaptures
  <1>6. QED
    BY <1>1, <1>2, <1>3, <1>4, <1>5 DEF Next, ClockAdvances, ClockStepsBack, vars

(* Every session that is still there remembers exactly its most recent     *)
(* captures, newest first, and the last one exactly if it was within the   *)
(* byte limit, whatever was expired, evicted or captured elsewhere.        *)
THEOREM HistoryExact == Spec => []HistoryIsRecentCaptures
  <1>1. Init => Numbered /\ HistoryIsRecentCaptures
    BY DEF Init, Numbered, HistoryIsRecentCaptures
  <1>2. TypeOK /\ Numbered /\ HistoryIsRecentCaptures /\ [Next]_vars
          => Numbered' /\ HistoryIsRecentCaptures'
    BY NextHistory
  <1>3. QED
    BY <1>1, <1>2, TypeCorrect, PTL DEF Spec
=============================================================================
