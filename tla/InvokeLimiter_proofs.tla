------------------------ MODULE InvokeLimiter_proofs ------------------------
(***************************************************************************)
(* Proofs about the invoke limiter, for any finite set of callers, any set *)
(* of targets and any configured limits.                                   *)
(***************************************************************************)
EXTENDS InvokeLimiter, FiniteSetTheorems, TLAPS

(* The configuration is clamped, so a limit is never negative. *)
LEMMA ClampNat == ASSUME NEW n \in Int PROVE Clamp(n) \in Nat
  BY DEF Clamp

(* The type invariant is inductive by itself. *)
LEMMA InitTypeOK == Init => TypeOK
  <1> SUFFICES ASSUME Init PROVE TypeOK
    OBVIOUS
  <1>1. cfg \in [global : Nat, perTarget : Nat, timeout : Nat]
    BY LimiterAssumption, ClampNat DEF Init, NewInvokeLimiter
  <1>2. QED
    BY <1>1 DEF Init, TypeOK, PCs

LEMMA NextTypeOK == TypeOK /\ [Next]_vars => TypeOK'
  <1> SUFFICES ASSUME TypeOK, [Next]_vars PROVE TypeOK'
    OBVIOUS
  <1> USE DEF TypeOK, PCs
  <1>1. ASSUME NEW c \in Callers, NEW k \in Targets, Acquire(c, k) PROVE TypeOK'
    BY <1>1 DEF Acquire
  <1>2. ASSUME NEW c \in Callers, TakeSlot(c) PROVE TypeOK'
    <2>1. key[c] \in Targets
      OBVIOUS
    <2>2. TargetInUse(key[c]) \in Nat
      BY DEF TargetInUse
    <2>3. DOMAIN perTarget' = DOMAIN perTarget \cup {key[c]}
      BY <1>2 DEF TakeSlot
    <2>4. perTarget' \in [DOMAIN perTarget' -> Nat]
      BY <1>2, <2>2, <2>3 DEF TakeSlot
    <2>5. QED
      BY <1>2, <2>1, <2>3, <2>4 DEF TakeSlot
  <1>3. ASSUME NEW c \in Callers, Park(c) PROVE TypeOK'
    BY <1>3 DEF Park
  <1>4. ASSUME NEW c \in Callers, Retry(c) PROVE TypeOK'
    BY <1>4 DEF Retry
  <1>5. ASSUME NEW c \in Callers, GiveUp(c) PROVE TypeOK'
    BY <1>5 DEF GiveUp
  <1>6. ASSUME NEW c \in Callers, QueueTimeoutFires(c) PROVE TypeOK'
    BY <1>6 DEF QueueTimeoutFires
  <1>7. ASSUME NEW c \in Callers, ClientCancels(c) PROVE TypeOK'
    BY <1>7 DEF ClientCancels
  <1>8. ASSUME NEW c \in Callers, Release(c) PROVE TypeOK'
    <2>1. CASE Enabled /\ ~released[c]
      <3>1. globalInUse' \in Nat
        BY <1>8, <2>1 DEF Release
      <3>2. pc' \in [Callers -> PCs]
        BY <1>8, <2>1 DEF Release, Broadcast
      <3>3. DOMAIN perTarget' \subseteq Targets /\ perTarget' \in [DOMAIN perTarget' -> Nat]
        <4>1. CASE TargetInUse(key[c]) <= 1
          BY <1>8, <2>1, <4>1 DEF Release, GiveBackTarget
        <4>2. CASE ~(TargetInUse(key[c]) <= 1)
          <5>1. key[c] \in DOMAIN perTarget /\ perTarget[key[c]] > 1 /\ perTarget[key[c]] \in Nat
            BY <4>2 DEF TargetInUse
          <5>2. perTarget' = [perTarget EXCEPT ![key[c]] = perTarget[key[c]] - 1]
            BY <1>8, <2>1, <4>2 DEF Release, GiveBackTarget
          <5>3. QED
            BY <5>1, <5>2
        <4>3. QED
          BY <4>1, <4>2
      <3>4. QED
        BY <1>8, <3>1, <3>2, <3>3 DEF Release
    <2>2. CASE ~(Enabled /\ ~released[c])
      BY <1>8, <2>2 DEF Release
    <2>3. QED
      BY <2>1, <2>2
  <1>9. ASSUME NEW c \in Callers, Reuse(c) PROVE TypeOK'
    BY <1>9 DEF Reuse
  <1>10. CASE UNCHANGED vars
    BY <1>10 DEF vars
  <1>11. QED
    BY <1>1, <1>2, <1>3, <1>4, <1>5, <1>6, <1>7, <1>8, <1>9, <1>10 DEF Next

(* Type correctness of the limiter for every value of the constants. *)
THEOREM TypeCorrect == Spec => []TypeOK
  BY InitTypeOK, NextTypeOK, PTL DEF Spec

-----------------------------------------------------------------------------
(* A waiting or admitted call has not run its release function, and is     *)
(* only queued by a limiter that is switched on.                           *)
OnceInv ==
  \A c \in Callers :
    /\ pc[c] = "admitted" => ~released[c]
    /\ pc[c] = "finished" => released[c]
    /\ c \in Queued => Enabled /\ ~released[c]

(* The inductive invariant behind the limiter's safety properties. *)
LimiterInv ==
  /\ TypeOK
  /\ OnceInv
  /\ CountersMatchHolders
  /\ LimitsRespected
  /\ NoLostWakeup

(* Sets of holders are finite, so their cardinalities are naturals. *)
LEMMA HoldersFinite ==
  /\ IsFiniteSet(Holders)
  /\ Cardinality(Holders) \in Nat
  /\ \A k : IsFiniteSet(HoldersOf(k)) /\ Cardinality(HoldersOf(k)) \in Nat
  <1>1. IsFiniteSet(Holders)
    BY LimiterAssumption, FS_Subset, Holders \subseteq Callers DEF Holders
  <1>2. ASSUME NEW k PROVE IsFiniteSet(HoldersOf(k))
    BY <1>1, FS_Subset, HoldersOf(k) \subseteq Holders DEF HoldersOf
  <1>3. QED
    BY <1>1, <1>2, FS_CardinalityType

(* A step that neither admits nor releases leaves every set of holders,    *)
(* and hence every counting fact, as it was.                               *)
LEMMA HoldersKept ==
  ASSUME TypeOK, key' = key, NEW c \in Callers, NEW p,
         pc[c] # "admitted", p # "admitted", pc' = [pc EXCEPT ![c] = p]
  PROVE  Holders' = Holders /\ \A k : HoldersOf(k)' = HoldersOf(k)
  BY DEF TypeOK, Holders, HoldersOf

(* The counting facts only depend on the counters and the holders. *)
LEMMA CountsKept ==
  ASSUME LimiterInv, cfg' = cfg, globalInUse' = globalInUse, perTarget' = perTarget,
         Holders' = Holders, \A k : HoldersOf(k)' = HoldersOf(k),
         \A c \in Holders : key'[c] = key[c]
  PROVE  CountersMatchHolders' /\ LimitsRespected'
  <1>1. CountersMatchHolders'
    BY DEF LimiterInv, CountersMatchHolders, Enabled, TargetInUse
  <1>2. LimitsRespected'
    BY DEF LimiterInv, LimitsRespected
  <1>3. QED
    BY <1>1, <1>2

(* The counting facts are about distinct keys: an entry is positive       *)
(* exactly for the keys of holders.                                        *)
LEMMA EntriesPositive ==
  ASSUME LimiterInv, Enabled, NEW k \in Targets
  PROVE  (k \in DOMAIN perTarget) <=> (Cardinality(HoldersOf(k)) >= 1)
  <1>1. HoldersOf(k) = {} <=> k \notin DOMAIN perTarget
    BY DEF LimiterInv, CountersMatchHolders, HoldersOf
  <1>2. HoldersOf(k) = {} <=> Cardinality(HoldersOf(k)) = 0
    BY HoldersFinite, FS_EmptySet
  <1>3. QED
    BY <1>1, <1>2, HoldersFinite

(* Granting a slot. *)
LEMMA TakeSlotCounts ==
  ASSUME LimiterInv, NEW c \in Callers, TakeSlot(c)
  PROVE  CountersMatchHolders' /\ LimitsRespected' /\ NoLostWakeup'
  <1>k. PICK k0 \in Targets : k0 = key[c]
    BY DEF LimiterInv, TypeOK
  <1>0. TypeOK /\ Enabled /\ k0 \in Targets /\ CanAcquire(k0) /\ c \notin Holders
    BY <1>k DEF LimiterInv, OnceInv, TakeSlot, Queued, TypeOK, Holders
  <1>1. Holders' = Holders \cup {c}
    BY <1>0 DEF TakeSlot, TypeOK, Holders
  <1>2. HoldersOf(k0)' = HoldersOf(k0) \cup {c} /\ c \notin HoldersOf(k0)
    BY <1>k, <1>0, <1>1 DEF TakeSlot, TypeOK, HoldersOf
  <1>3. ASSUME NEW k \in Targets, k # k0 PROVE HoldersOf(k)' = HoldersOf(k)
    BY <1>k, <1>0, <1>1, <1>3 DEF TakeSlot, TypeOK, HoldersOf
  <1>4. Cardinality(Holders') = Cardinality(Holders) + 1
    BY <1>0, <1>1, HoldersFinite, FS_AddElement
  <1>5. Cardinality(HoldersOf(k0)') = Cardinality(HoldersOf(k0)) + 1
    BY <1>2, HoldersFinite, FS_AddElement
  <1>6. DOMAIN perTarget' = DOMAIN perTarget \cup {k0}
    BY <1>k DEF TakeSlot
  <1>7. \A k \in Targets : TargetInUse(k)' = IF k = k0 THEN TargetInUse(k) + 1 ELSE TargetInUse(k)
    BY <1>k, <1>0, <1>6 DEF TakeSlot, TargetInUse
  <1>8. DOMAIN perTarget' = {key'[d] : d \in Holders'}
    BY <1>k, <1>0, <1>1, <1>6 DEF LimiterInv, CountersMatchHolders, TakeSlot
  <1>9. CountersMatchHolders'
    <2>1. globalInUse' = Cardinality(Holders')
      BY <1>0, <1>4 DEF LimiterInv, CountersMatchHolders, TakeSlot
    <2>2. ASSUME NEW k \in Targets PROVE TargetInUse(k)' = Cardinality(HoldersOf(k)')
      <3>1. TargetInUse(k) = Cardinality(HoldersOf(k))
        BY <1>0 DEF LimiterInv, CountersMatchHolders
      <3>2. QED
        BY <1>3, <1>5, <1>7, <3>1
    <2>3. QED
      BY <1>8, <2>1, <2>2 DEF CountersMatchHolders
  <1>10. LimitsRespected'
    <2>1. cfg.global > 0 => Cardinality(Holders') <= cfg.global
      BY <1>0, <1>4, HoldersFinite DEF LimiterInv, CountersMatchHolders, CanAcquire, TypeOK
    <2>2. ASSUME cfg.perTarget > 0, NEW k \in Targets
          PROVE  Cardinality(HoldersOf(k)') <= cfg.perTarget
      <3>1. CASE k = k0
        BY <1>0, <1>5, <2>2, <3>1, HoldersFinite
           DEF LimiterInv, CountersMatchHolders, CanAcquire, TypeOK
      <3>2. CASE k # k0
        BY <1>3, <2>2, <3>2 DEF LimiterInv, LimitsRespected
      <3>3. QED
        BY <3>1, <3>2
    <2>3. QED
      BY <2>1, <2>2 DEF LimitsRespected, TakeSlot
  <1>11. NoLostWakeup'
    <2>1. ASSUME NEW d \in Callers, pc'[d] = "parked" PROVE ~CanAcquire(key[d])'
      <3>1. pc[d] = "parked" /\ key'[d] = key[d] /\ key[d] \in Targets
        BY <1>0, <2>1 DEF TakeSlot, TypeOK
      <3>2. ~CanAcquire(key[d])
        BY <3>1 DEF LimiterInv, NoLostWakeup
      <3>3. PICK j \in Targets : j = key[d]
        BY <3>1
      <3>4. TargetInUse(j) \in Nat /\ TargetInUse(j)' >= TargetInUse(j)
        BY <1>0, <1>7 DEF TargetInUse, TypeOK
      <3>5. TargetInUse(j)' \in Nat /\ globalInUse' = globalInUse + 1 /\ cfg' = cfg
        BY <1>0, <1>7, <3>4 DEF TakeSlot
      <3>6. ~CanAcquire(j)'
        BY <1>0, <3>2, <3>3, <3>4, <3>5 DEF CanAcquire, TypeOK
      <3>7. QED
        BY <3>1, <3>3, <3>6 DEF CanAcquire, TargetInUse
    <2>2. QED
      BY <2>1 DEF NoLostWakeup
  <1>12. QED
    BY <1>9, <1>10, <1>11

(* Giving a slot back, the first time the release function is called. *)
LEMMA ReleaseCounts ==
  ASSUME LimiterInv, NEW c \in Callers, Release(c), Enabled, ~released[c]
  PROVE  CountersMatchHolders' /\ LimitsRespected' /\ NoLostWakeup'
  <1>k. PICK k0 \in Targets : k0 = key[c]
    BY DEF LimiterInv, TypeOK
  <1>0. TypeOK /\ c \in Holders
    BY DEF LimiterInv, OnceInv, Release, Holders
  <1>p. pc' = Broadcast([pc EXCEPT ![c] = "finished"]) /\ key' = key /\ cfg' = cfg
    BY DEF Release
  <1>1. Holders' = Holders \ {c}
    BY <1>0, <1>p DEF TypeOK, Holders, Broadcast
  <1>2. HoldersOf(k0)' = HoldersOf(k0) \ {c} /\ c \in HoldersOf(k0)
    BY <1>k, <1>0, <1>1, <1>p DEF TypeOK, HoldersOf
  <1>3. ASSUME NEW k \in Targets, k # k0 PROVE HoldersOf(k)' = HoldersOf(k)
    BY <1>k, <1>0, <1>1, <1>3, <1>p DEF TypeOK, HoldersOf
  <1>4. Cardinality(Holders') = Cardinality(Holders) - 1
    BY <1>0, <1>1, HoldersFinite, FS_RemoveElement
  <1>5. Cardinality(HoldersOf(k0)') = Cardinality(HoldersOf(k0)) - 1
    BY <1>2, HoldersFinite, FS_RemoveElement
  <1>6. globalInUse = Cardinality(Holders)
        /\ (\A k \in Targets : TargetInUse(k) = Cardinality(HoldersOf(k)))
        /\ DOMAIN perTarget = {key[d] : d \in Holders}
    BY DEF LimiterInv, CountersMatchHolders
  <1>7. Cardinality(HoldersOf(k0)) >= 1 /\ k0 \in DOMAIN perTarget
    <2>1. k0 \in DOMAIN perTarget
      BY <1>k, <1>0, <1>6
    <2>2. QED
      BY <2>1, EntriesPositive
  <1>8. \A k \in Targets : TargetInUse(k)' = IF k = k0 THEN TargetInUse(k) - 1 ELSE TargetInUse(k)
    <2>1. CASE TargetInUse(k0) <= 1
      <3>1. perTarget' = [j \in DOMAIN perTarget \ {k0} |-> perTarget[j]]
        BY <1>k, <2>1 DEF Release, GiveBackTarget
      <3>2. TargetInUse(k0) = 1
        BY <1>6, <1>7, <2>1, HoldersFinite
      <3>3. QED
        BY <3>1, <3>2 DEF TargetInUse
    <2>2. CASE ~(TargetInUse(k0) <= 1)
      <3>1. perTarget' = [perTarget EXCEPT ![k0] = perTarget[k0] - 1]
        BY <1>k, <2>2 DEF Release, GiveBackTarget
      <3>2. QED
        BY <1>0, <1>7, <3>1 DEF TargetInUse, TypeOK
    <2>3. QED
      BY <2>1, <2>2
  <1>9. \A k \in Targets : TargetInUse(k)' = Cardinality(HoldersOf(k)')
    BY <1>3, <1>5, <1>6, <1>8
  <1>10. DOMAIN perTarget' = {key'[d] : d \in Holders'}
    <2>1. CASE TargetInUse(k0) <= 1
      <3>1. DOMAIN perTarget' = DOMAIN perTarget \ {k0}
        BY <1>k, <2>1 DEF Release, GiveBackTarget
      <3>2. Cardinality(HoldersOf(k0)') = 0
        BY <1>5, <1>6, <1>7, <2>1, HoldersFinite
      <3>3. HoldersOf(k0)' = {}
        <4>1. IsFiniteSet(HoldersOf(k0)')
          BY <1>2, HoldersFinite, FS_RemoveElement
        <4>2. QED
          BY <3>2, <4>1, FS_EmptySet
      <3>4. \A d \in Holders' : key[d] # k0
        BY <1>1, <1>p, <3>3 DEF HoldersOf
      <3>5. QED
        BY <1>k, <1>1, <1>6, <1>p, <3>1, <3>4
    <2>2. CASE ~(TargetInUse(k0) <= 1)
      <3>1. DOMAIN perTarget' = DOMAIN perTarget
        BY <1>k, <2>2 DEF Release, GiveBackTarget
      <3>2. HoldersOf(k0)' # {}
        <4>1. Cardinality(HoldersOf(k0)') # 0
          BY <1>5, <1>6, <1>7, <2>2, HoldersFinite
        <4>2. QED
          BY <4>1, FS_EmptySet
      <3>3. \E d \in Holders' : key[d] = k0
        BY <1>p, <3>2 DEF HoldersOf
      <3>4. QED
        BY <1>k, <1>1, <1>6, <1>p, <3>1, <3>3
    <2>3. QED
      BY <2>1, <2>2
  <1>11. CountersMatchHolders'
    <2>1. globalInUse' = Cardinality(Holders')
      <3>1. Cardinality(Holders) >= 1
        BY <1>0, HoldersFinite, FS_EmptySet
      <3>2. QED
        BY <1>4, <1>6, <3>1, HoldersFinite DEF Release
    <2>2. QED
      BY <1>9, <1>10, <2>1 DEF CountersMatchHolders
  <1>12. LimitsRespected'
    <2>1. ASSUME cfg.perTarget > 0, NEW k \in Targets
          PROVE  Cardinality(HoldersOf(k)') <= cfg.perTarget
      BY <1>0, <1>3, <1>5, <2>1, HoldersFinite DEF LimiterInv, LimitsRespected, TypeOK
    <2>2. cfg.global > 0 => Cardinality(Holders') <= cfg.global
      BY <1>0, <1>4, HoldersFinite DEF LimiterInv, LimitsRespected, TypeOK
    <2>3. QED
      BY <1>p, <2>1, <2>2 DEF LimitsRespected
  <1>13. NoLostWakeup'
    BY <1>0, <1>p DEF NoLostWakeup, Broadcast, TypeOK
  <1>14. QED
    BY <1>11, <1>12, <1>13

(* The inductive invariant holds initially. *)
LEMMA InitLimiterInv == Init => LimiterInv
  <1> SUFFICES ASSUME Init PROVE LimiterInv
    OBVIOUS
  <1>1. TypeOK
    BY InitTypeOK
  <1>2. Holders = {} /\ \A k : HoldersOf(k) = {}
    BY DEF Init, Holders, HoldersOf
  <1>3. Cardinality(Holders) = 0 /\ \A k : Cardinality(HoldersOf(k)) = 0
    BY <1>2, FS_EmptySet
  <1>4. CountersMatchHolders
    BY <1>2, <1>3 DEF Init, CountersMatchHolders, TargetInUse
  <1>5. LimitsRespected
    BY <1>1, <1>3 DEF LimitsRespected, TypeOK
  <1>6. OnceInv /\ NoLostWakeup
    BY DEF Init, OnceInv, NoLostWakeup, Queued
  <1>7. QED
    BY <1>1, <1>4, <1>5, <1>6 DEF LimiterInv

(* The inductive invariant is preserved by every step. *)
LEMMA NextLimiterInv == LimiterInv /\ [Next]_vars => LimiterInv'
  <1> SUFFICES ASSUME LimiterInv, [Next]_vars PROVE LimiterInv'
    OBVIOUS
  <1>t. TypeOK'
    BY NextTypeOK DEF LimiterInv
  <1>1. ASSUME NEW c \in Callers, NEW k \in Targets, Acquire(c, k) PROVE LimiterInv'
    <2>0. TypeOK /\ c \notin Holders
      BY <1>1 DEF Acquire, LimiterInv, Holders
    <2>1. OnceInv'
      BY <1>1 DEF Acquire, LimiterInv, OnceInv, TypeOK, Queued, Enabled
    <2>2. NoLostWakeup'
      BY <1>1 DEF Acquire, LimiterInv, NoLostWakeup, TypeOK, CanAcquire, TargetInUse
    <2>3. CASE Enabled
      <3>1. Holders' = Holders /\ (\A j : HoldersOf(j)' = HoldersOf(j))
        BY <1>1, <2>0, <2>3 DEF Acquire, Holders, HoldersOf, TypeOK
      <3>2. \A d \in Holders : key'[d] = key[d]
        BY <1>1, <2>0 DEF Acquire, Holders, TypeOK
      <3>3. CountersMatchHolders' /\ LimitsRespected'
        BY <1>1, <3>1, <3>2, CountsKept DEF Acquire
      <3>4. QED
        BY <1>t, <2>1, <2>2, <3>3 DEF LimiterInv
    <2>4. CASE ~Enabled
      <3>1. CountersMatchHolders' /\ LimitsRespected'
        BY <1>1, <2>4 DEF Acquire, Enabled, CountersMatchHolders, LimitsRespected
      <3>2. QED
        BY <1>t, <2>1, <2>2, <3>1 DEF LimiterInv
    <2>5. QED
      BY <2>3, <2>4
  <1>2. ASSUME NEW c \in Callers, TakeSlot(c) PROVE LimiterInv'
    <2>1. OnceInv'
      <3>1. ~released[c]
        BY <1>2 DEF TakeSlot, LimiterInv, OnceInv, Queued
      <3>2. QED
        BY <1>2, <3>1 DEF TakeSlot, LimiterInv, OnceInv, TypeOK, Queued, Enabled
    <2>2. QED
      BY <1>2, <1>t, <2>1, TakeSlotCounts DEF LimiterInv
  <1>3. ASSUME NEW c \in Callers, Park(c) PROVE LimiterInv'
    <2>1. Holders' = Holders /\ (\A k : HoldersOf(k)' = HoldersOf(k)) /\ key' = key
      BY <1>3 DEF Park, Holders, HoldersOf, LimiterInv, TypeOK
    <2>2. CountersMatchHolders' /\ LimitsRespected'
      BY <1>3, <2>1, CountsKept DEF Park
    <2>3. OnceInv'
      BY <1>3 DEF Park, LimiterInv, OnceInv, TypeOK, Queued, Enabled
    <2>4. NoLostWakeup'
      BY <1>3 DEF Park, LimiterInv, NoLostWakeup, TypeOK, CanAcquire, TargetInUse
    <2>5. QED
      BY <1>t, <2>2, <2>3, <2>4 DEF LimiterInv
  <1>4. ASSUME NEW c \in Callers, Retry(c) PROVE LimiterInv'
    <2>1. Holders' = Holders /\ (\A k : HoldersOf(k)' = HoldersOf(k)) /\ key' = key
      BY <1>4 DEF Retry, Holders, HoldersOf, LimiterInv, TypeOK
    <2>2. CountersMatchHolders' /\ LimitsRespected'
      BY <1>4, <2>1, CountsKept DEF Retry
    <2>3. OnceInv'
      BY <1>4 DEF Retry, LimiterInv, OnceInv, TypeOK, Queued, Enabled
    <2>4. NoLostWakeup'
      BY <1>4 DEF Retry, LimiterInv, NoLostWakeup, TypeOK, CanAcquire, TargetInUse
    <2>5. QED
      BY <1>t, <2>2, <2>3, <2>4 DEF LimiterInv
  <1>5. ASSUME NEW c \in Callers, GiveUp(c) PROVE LimiterInv'
    <2>1. Holders' = Holders /\ (\A k : HoldersOf(k)' = HoldersOf(k)) /\ key' = key
      BY <1>5 DEF GiveUp, Holders, HoldersOf, LimiterInv, TypeOK
    <2>2. CountersMatchHolders' /\ LimitsRespected'
      BY <1>5, <2>1, CountsKept DEF GiveUp
    <2>3. OnceInv'
      BY <1>5 DEF GiveUp, LimiterInv, OnceInv, TypeOK, Queued, Enabled
    <2>4. NoLostWakeup'
      BY <1>5 DEF GiveUp, LimiterInv, NoLostWakeup, TypeOK, CanAcquire, TargetInUse
    <2>5. QED
      BY <1>t, <2>2, <2>3, <2>4 DEF LimiterInv
  <1>6. ASSUME NEW c \in Callers, QueueTimeoutFires(c) PROVE LimiterInv'
    <2>1. Holders' = Holders /\ (\A k : HoldersOf(k)' = HoldersOf(k)) /\ key' = key
      BY <1>6 DEF QueueTimeoutFires, Holders, HoldersOf, LimiterInv, TypeOK
    <2>2. CountersMatchHolders' /\ LimitsRespected'
      BY <1>6, <2>1, CountsKept DEF QueueTimeoutFires
    <2>3. OnceInv'
      BY <1>6 DEF QueueTimeoutFires, LimiterInv, OnceInv, TypeOK, Queued, Enabled
    <2>4. NoLostWakeup'
      BY <1>6 DEF QueueTimeoutFires, LimiterInv, NoLostWakeup, TypeOK, CanAcquire, TargetInUse
    <2>5. QED
      BY <1>t, <2>2, <2>3, <2>4 DEF LimiterInv
  <1>7. ASSUME NEW c \in Callers, ClientCancels(c) PROVE LimiterInv'
    <2>1. Holders' = Holders /\ (\A k : HoldersOf(k)' = HoldersOf(k)) /\ key' = key
      BY <1>7 DEF ClientCancels, Holders, HoldersOf, LimiterInv, TypeOK
    <2>2. CountersMatchHolders' /\ LimitsRespected'
      BY <1>7, <2>1, CountsKept DEF ClientCancels
    <2>3. OnceInv'
      BY <1>7 DEF ClientCancels, LimiterInv, OnceInv, TypeOK, Queued, Enabled
    <2>4. NoLostWakeup'
      BY <1>7 DEF ClientCancels, LimiterInv, NoLostWakeup, TypeOK, CanAcquire, TargetInUse
    <2>5. QED
      BY <1>t, <2>2, <2>3, <2>4 DEF LimiterInv
  <1>8. ASSUME NEW c \in Callers, Release(c) PROVE LimiterInv'
    <2>1. CASE Enabled /\ ~released[c]
      <3>1. OnceInv'
        BY <1>8, <2>1 DEF Release, Broadcast, LimiterInv, OnceInv, TypeOK, Queued, Enabled
      <3>2. QED
        BY <1>8, <1>t, <2>1, <3>1, ReleaseCounts DEF LimiterInv
    <2>2. CASE Enabled /\ released[c]
      <3>1. pc' = pc /\ key' = key /\ released' = released /\ cfg' = cfg
            /\ globalInUse' = globalInUse /\ perTarget' = perTarget
        BY <1>8, <2>2 DEF Release, LimiterInv, OnceInv, TypeOK
      <3>2. OnceInv' /\ NoLostWakeup'
        BY <3>1 DEF LimiterInv, OnceInv, NoLostWakeup, Queued, Enabled, CanAcquire, TargetInUse
      <3>3. Holders' = Holders /\ (\A k : HoldersOf(k)' = HoldersOf(k))
        BY <3>1 DEF Holders, HoldersOf
      <3>4. QED
        BY <1>t, <3>1, <3>2, <3>3, CountsKept DEF LimiterInv
    <2>3. CASE ~Enabled
      <3>1. OnceInv' /\ NoLostWakeup'
        BY <1>8, <2>3 DEF Release, LimiterInv, OnceInv, NoLostWakeup, TypeOK, Queued, Enabled
      <3>2. CountersMatchHolders' /\ LimitsRespected'
        BY <1>8, <2>3 DEF Release, Enabled, CountersMatchHolders, LimitsRespected
      <3>3. QED
        BY <1>t, <3>1, <3>2 DEF LimiterInv
    <2>4. QED
      BY <2>1, <2>2, <2>3
  <1>9. ASSUME NEW c \in Callers, Reuse(c) PROVE LimiterInv'
    <2>1. Holders' = Holders /\ (\A k : HoldersOf(k)' = HoldersOf(k)) /\ key' = key
      BY <1>9 DEF Reuse, Holders, HoldersOf, LimiterInv, TypeOK
    <2>2. CountersMatchHolders' /\ LimitsRespected'
      BY <1>9, <2>1, CountsKept DEF Reuse
    <2>3. OnceInv'
      BY <1>9 DEF Reuse, LimiterInv, OnceInv, TypeOK, Queued, Enabled
    <2>4. NoLostWakeup'
      BY <1>9 DEF Reuse, LimiterInv, NoLostWakeup, TypeOK, CanAcquire, TargetInUse
    <2>5. QED
      BY <1>t, <2>2, <2>3, <2>4 DEF LimiterInv
  <1>10. CASE UNCHANGED vars
    <2>1. Holders' = Holders /\ \A k : HoldersOf(k)' = HoldersOf(k)
      BY <1>10 DEF vars, Holders, HoldersOf
    <2>2. CountersMatchHolders' /\ LimitsRespected'
      BY <1>10, <2>1, CountsKept DEF vars
    <2>3. OnceInv' /\ NoLostWakeup'
      BY <1>10 DEF vars, LimiterInv, OnceInv, NoLostWakeup, Queued, Enabled, CanAcquire, TargetInUse
    <2>4. QED
      BY <1>t, <2>2, <2>3 DEF LimiterInv
  <1>11. QED
    BY <1>1, <1>2, <1>3, <1>4, <1>5, <1>6, <1>7, <1>8, <1>9, <1>10 DEF Next

LEMMA InvariantAlways == Spec => []LimiterInv
  BY InitLimiterInv, NextLimiterInv, PTL DEF Spec

(* The counters always equal the number of admitted calls, per key and in  *)
(* total, and the map has entries for the keys in use and no others.       *)
THEOREM CountersExact == Spec => []CountersMatchHolders
  BY InvariantAlways, PTL DEF LimiterInv

(* The configured limits are never exceeded. *)
THEOREM LimitsHold == Spec => []LimitsRespected
  BY InvariantAlways, PTL DEF LimiterInv

(* Nobody sleeps on an open channel while there is room. *)
THEOREM WakeupsReachEveryone == Spec => []NoLostWakeup
  BY InvariantAlways, PTL DEF LimiterInv

-----------------------------------------------------------------------------
(* Refinement.  The bulkhead's sets of calls inside are the holders.       *)
LEMMA InsideIsHolders ==
  B!Inside = Holders /\ \A k : B!InsideFor(k) = HoldersOf(k)
  BY DEF B!Inside, B!InsideFor, Holders, HoldersOf, Abstraction

(* Cardinality is the same operator on both sides of the instance. *)
LEMMA SameCardinality == \A S : B!Cardinality(S) = Cardinality(S)
  BY DEF B!Cardinality, Cardinality

(* A step that changes neither where the bulkhead sees a call nor the keys *)
(* is invisible to it.                                                     *)
LEMMA Invisible ==
  ASSUME cfg' = cfg, key' = key, \A c \in Callers : Abstraction(pc[c])' = Abstraction(pc[c])
  PROVE  UNCHANGED B!vars
  BY DEF B!vars

LEMMA RefineInit == Init => B!Init
  <1> SUFFICES ASSUME Init PROVE B!Init
    OBVIOUS
  <1>1. cfg.global \in Nat /\ cfg.perTarget \in Nat
    BY InitTypeOK DEF TypeOK
  <1>2. QED
    BY <1>1 DEF Init, B!Init, Abstraction

(* Every step of the limiter is a step of the bulkhead or a stutter. *)
LEMMA RefineNext == LimiterInv /\ [Next]_vars => [B!Next]_(B!vars)
  <1> SUFFICES ASSUME LimiterInv, [Next]_vars PROVE [B!Next]_(B!vars)
    OBVIOUS
  <1>t. TypeOK
    BY DEF LimiterInv
  <1>1. ASSUME NEW c \in Callers, NEW k \in Targets, Acquire(c, k) PROVE B!Next
    <2>1. CASE Enabled
      <3>1. B!Ask(c, k)
        BY <1>1, <1>t, <2>1 DEF Acquire, TypeOK, B!Ask, Abstraction
      <3>2. QED
        BY <3>1 DEF B!Next
    <2>2. CASE ~Enabled
      <3>1. cfg.global = 0 /\ cfg.perTarget = 0
        BY <1>t, <2>2 DEF TypeOK, Enabled
      <3>2. B!WalkIn(c, k)
        BY <1>1, <1>t, <2>2, <3>1 DEF Acquire, TypeOK, B!WalkIn, Abstraction
      <3>3. QED
        BY <3>2 DEF B!Next
    <2>3. QED
      BY <2>1, <2>2
  <1>2. ASSUME NEW c \in Callers, TakeSlot(c) PROVE B!Next
    <2>1. key[c] \in Targets /\ Enabled /\ CanAcquire(key[c])
      BY <1>2, <1>t DEF TakeSlot, LimiterInv, OnceInv, Queued, TypeOK
    <2>2. B!HasRoom(key[c])
      <3>1. globalInUse = Cardinality(Holders)
            /\ TargetInUse(key[c]) = Cardinality(HoldersOf(key[c]))
        BY <2>1 DEF LimiterInv, CountersMatchHolders
      <3>2. cfg.global \in Nat /\ cfg.perTarget \in Nat /\ globalInUse \in Nat
        BY <1>t DEF TypeOK
      <3>3. Cardinality(HoldersOf(key[c])) \in Nat
        BY HoldersFinite
      <3>4. cfg.global > 0 => Cardinality(Holders) < cfg.global
        BY <2>1, <3>1, <3>2 DEF CanAcquire
      <3>5. cfg.perTarget > 0 => Cardinality(HoldersOf(key[c])) < cfg.perTarget
        BY <2>1, <3>1, <3>2, <3>3 DEF CanAcquire
      <3>6. B!Inside = Holders /\ B!InsideFor(key[c]) = HoldersOf(key[c])
        BY InsideIsHolders
      <3>7. QED
        BY <3>4, <3>5, <3>6, SameCardinality DEF B!HasRoom
    <2>3. B!Admit(c)
      BY <1>2, <1>t, <2>2 DEF TakeSlot, TypeOK, B!Admit, Abstraction
    <2>4. QED
      BY <2>3 DEF B!Next
  <1>3. ASSUME NEW c \in Callers, Park(c) PROVE UNCHANGED B!vars
    BY <1>3, <1>t, Invisible DEF Park, TypeOK, Abstraction
  <1>4. ASSUME NEW c \in Callers, Retry(c) PROVE UNCHANGED B!vars
    BY <1>4, <1>t, Invisible DEF Retry, TypeOK, Abstraction
  <1>5. ASSUME NEW c \in Callers, GiveUp(c) PROVE B!Next
    <2>1. B!TurnAway(c)
      BY <1>5, <1>t DEF GiveUp, TypeOK, B!TurnAway, Abstraction
    <2>2. QED
      BY <2>1 DEF B!Next
  <1>6. ASSUME NEW c \in Callers, QueueTimeoutFires(c) PROVE UNCHANGED B!vars
    BY <1>6, Invisible DEF QueueTimeoutFires, Abstraction
  <1>7. ASSUME NEW c \in Callers, ClientCancels(c) PROVE UNCHANGED B!vars
    BY <1>7, Invisible DEF ClientCancels, Abstraction
  <1>8. ASSUME NEW c \in Callers, Release(c) PROVE [B!Next]_(B!vars)
    <2>1. \A d \in Callers \ {c} : Abstraction(pc'[d]) = Abstraction(pc[d])
      BY <1>8, <1>t DEF Release, Broadcast, TypeOK, Abstraction
    <2>2. pc'[c] = "finished"
      BY <1>8, <1>t DEF Release, Broadcast, TypeOK
    <2>3. CASE pc[c] = "admitted"
      <3>1. B!Leave(c)
        BY <1>8, <2>1, <2>2, <2>3 DEF Release, B!Leave, Abstraction
      <3>2. QED
        BY <3>1 DEF B!Next
    <2>4. CASE pc[c] = "finished"
      BY <1>8, <2>1, <2>2, <2>4, Invisible DEF Release, Abstraction
    <2>5. QED
      BY <1>8, <2>3, <2>4 DEF Release
  <1>9. ASSUME NEW c \in Callers, Reuse(c) PROVE UNCHANGED B!vars
    BY <1>9, <1>t, Invisible DEF Reuse, TypeOK, Abstraction
  <1>10. CASE UNCHANGED vars
    BY <1>10, Invisible DEF vars, Abstraction
  <1>11. QED
    BY <1>1, <1>2, <1>3, <1>4, <1>5, <1>6, <1>7, <1>8, <1>9, <1>10 DEF Next

(* The limiter implements the bulkhead: in particular a call is admitted   *)
(* only while the number of calls inside is below both limits.             *)
THEOREM LimiterImplementsBulkhead == Spec => ImplementsBulkhead
  <1>1. LimiterInv /\ [Next]_vars => [B!Next]_(B!vars)
    BY RefineNext
  <1>2. QED
    BY <1>1, RefineInit, InvariantAlways, PTL DEF Spec, ImplementsBulkhead, B!Spec
=============================================================================
