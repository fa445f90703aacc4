---------------------------- MODULE SessionStore ----------------------------
(***************************************************************************)
(* The in-memory session registry (internal/mcp/session.go).  Every        *)
(* exported method holds s.mu from beginning to end, so each is one        *)
(* action.  A tool call uses the store more than once: sofarpc_invoke      *)
(* looks its session up, builds a plan without the lock, and captures the  *)
(* plan into a session that may have been dropped in between.              *)
(*                                                                         *)
(* A captured plan is named by the number of its capture.  The clock is    *)
(* the wall clock: s.clock().UTC() has no monotonic reading, so it may     *)
(* stand still or step back between two calls.                             *)
(***************************************************************************)
EXTENDS Naturals, Sequences, FiniteSets, Functions

CONSTANTS
  SessionIds,   \* what newID can return; every id is handed out once
  Cap,          \* s.cap, zero: unbounded
  TTL,          \* s.ttl in clock units, zero: sessions do not expire
  History,      \* defaultSessionPlanHistory
  MaxTime,      \* bound of the model: the clock stays in 0..MaxTime
  MaxCaptures   \* bound of the model: capture attempts per behaviour

ASSUME SessionAssumption ==
  /\ IsFiniteSet(SessionIds)
  /\ Cap \in Nat
  /\ TTL \in Nat
  /\ History \in Nat \ {0}
  /\ MaxTime \in Nat
  /\ MaxCaptures \in Nat

NoPlan == 0

VARIABLES
  now,        \* the wall clock
  sessions,   \* s.sessions
  issued,     \* every id handed out so far
  attempts,   \* captures attempted so far; the next plan's number is one more
  log         \* history: per issued id, the captures attempted on it, oldest
              \* first; an oversized plan is recorded as NoPlan

vars == <<now, sessions, issued, attempts, log>>

Session == [lastUsed : Nat, lastPlan : Nat, plans : Seq(Nat)]

-----------------------------------------------------------------------------
(* Helpers of Create. *)
Expired(s) == TTL > 0 /\ s.lastUsed + TTL < now

Unexpired == {id \in DOMAIN sessions : ~Expired(sessions[id])}

(* enforceCapLocked.  One scan of the sessions that are left: an id becomes *)
(* lruID (here none or one id) when there is none yet, or when its session *)
(* was used before that one's.                                             *)
Lru_TimeNotKept(left, visits) ==
  LET lru[n \in 0..Len(visits)] ==
        IF n = 0 THEN {}
        ELSE IF visits[n] \in left /\ lru[n - 1] = {}
             THEN {visits[n]}
             ELSE lru[n - 1]
  IN  lru[Len(visits)]

Lru(left, visits) ==
  LET lru[n \in 0..Len(visits)] ==
        IF n = 0 THEN {}
        ELSE IF /\ visits[n] \in left
                /\ \A id \in lru[n - 1] : sessions[visits[n]].lastUsed < sessions[id].lastUsed
             THEN {visits[n]}
             ELSE lru[n - 1]
  IN  lru[Len(visits)]

(* Its loop: while the registry is full, a scan and a delete. *)
Kept_OneTooMany(scans) ==
  LET left[n \in 0..Len(scans)] ==
        IF n = 0 THEN Unexpired
        ELSE IF Cap = 0 \/ Cardinality(left[n - 1]) < Cap - 1 THEN left[n - 1]
        ELSE left[n - 1] \ Lru(left[n - 1], scans[n])
  IN  left[Len(scans)]

Kept(scans) ==
  LET left[n \in 0..Len(scans)] ==
        IF n = 0 THEN Unexpired
        ELSE IF Cap = 0 \/ Cardinality(left[n - 1]) < Cap THEN left[n - 1]
        ELSE left[n - 1] \ Lru(left[n - 1], scans[n])
  IN  left[Len(scans)]

(* Every range over the map has an order of its own. *)
Scans ==
  LET n == Cardinality(Unexpired)
  IN  [1..n -> Surjection(1..n, Unexpired)]

Init ==
  /\ now = 0
  /\ sessions = [id \in {} |-> [lastUsed |-> 0, lastPlan |-> NoPlan, plans |-> <<>>]]
  /\ issued = {}
  /\ attempts = 0
  /\ log = [id \in {} |-> <<>>]

-----------------------------------------------------------------------------
Create(id) ==
  /\ id \in SessionIds \ issued
  /\ \E scans \in Scans :
       sessions' = [s \in Kept(scans) \cup {id} |->
                      IF s = id
                      THEN [lastUsed |-> now, lastPlan |-> NoPlan, plans |-> <<>>]
                      ELSE sessions[s]]
  /\ issued' = issued \cup {id}
  /\ log' = [s \in issued \cup {id} |-> IF s = id THEN <<>> ELSE log[s]]
  /\ UNCHANGED <<now, attempts>>

(* A missing id changes nothing.  The idle time is not looked at. *)
Get(id) ==
  /\ id \in DOMAIN sessions
  /\ sessions' = [sessions EXCEPT ![id].lastUsed = now]
  /\ UNCHANGED <<now, issued, attempts, log>>

(* append([]PlanEntry{entry}, session.Plans...), then the trim. *)
Remember_KeepsOldest(plans, p) ==
  IF Len(plans) >= History THEN plans ELSE <<p>> \o plans

Remember_NoTrim(plans, p) == <<p>> \o plans

Remember(plans, p) ==
  LET all == <<p>> \o plans
  IN  SubSeq(all, 1, IF Len(all) > History THEN History ELSE Len(all))

(* CapturePlan of a plan within the byte limit. *)
CapturePlan_Upsert(id) ==
  LET old == IF id \in DOMAIN sessions THEN sessions[id]
             ELSE [lastUsed |-> 0, lastPlan |-> NoPlan, plans |-> <<>>]
  IN
  /\ attempts < MaxCaptures
  /\ attempts' = attempts + 1
  /\ sessions' = [s \in DOMAIN sessions \cup {id} |->
                    IF s = id
                    THEN [lastUsed |-> now, lastPlan |-> attempts',
                          plans |-> Remember(old.plans, attempts')]
                    ELSE sessions[s]]
  /\ log' = [s \in issued |-> IF s = id THEN Append(log[s], attempts') ELSE log[s]]
  /\ UNCHANGED <<now, issued>>

CapturePlan(id) ==
  /\ id \in DOMAIN sessions
  /\ attempts < MaxCaptures
  /\ attempts' = attempts + 1
  /\ sessions' = [sessions EXCEPT
                    ![id] = [lastUsed |-> now, lastPlan |-> attempts',
                             plans |-> Remember(@.plans, attempts')]]
  /\ log' = [log EXCEPT ![id] = Append(@, attempts')]
  /\ UNCHANGED <<now, issued>>

(* CapturePlan of a plan above the byte limit: there is no latest plan any *)
(* more, the older ones stay.                                              *)
CaptureTooLarge_KeepsLatest(id) ==
  /\ id \in DOMAIN sessions
  /\ attempts < MaxCaptures
  /\ attempts' = attempts + 1
  /\ sessions' = [sessions EXCEPT ![id].lastUsed = now]
  /\ log' = [log EXCEPT ![id] = Append(@, NoPlan)]
  /\ UNCHANGED <<now, issued>>

CaptureTooLarge(id) ==
  /\ id \in DOMAIN sessions
  /\ attempts < MaxCaptures
  /\ attempts' = attempts + 1
  /\ sessions' = [sessions EXCEPT ![id].lastPlan = NoPlan, ![id].lastUsed = now]
  /\ log' = [log EXCEPT ![id] = Append(@, NoPlan)]
  /\ UNCHANGED <<now, issued>>

(* CapturePlan of a plan whose size cannot be computed has the effect of   *)
(* Get, and one into a dropped session has none.                           *)

ClockAdvances ==
  /\ now < MaxTime
  /\ now' = now + 1
  /\ UNCHANGED <<sessions, issued, attempts, log>>

ClockStepsBack ==
  /\ now > 0
  /\ now' = now - 1
  /\ UNCHANGED <<sessions, issued, attempts, log>>

Next ==
  \/ \E id \in SessionIds :
       Create(id) \/ Get(id) \/ CapturePlan(id) \/ CaptureTooLarge(id)
  \/ ClockAdvances
  \/ ClockStepsBack

Spec == Init /\ [][Next]_vars

-----------------------------------------------------------------------------
TypeOK ==
  /\ now \in Nat
  /\ issued \subseteq SessionIds
  /\ DOMAIN sessions \subseteq issued
  /\ sessions \in [DOMAIN sessions -> Session]
  /\ attempts \in Nat
  /\ log \in [issued -> Seq(Nat)]

(* The registry never holds more sessions than its capacity, whatever mix  *)
(* of expiry, eviction and clock changes preceded.                         *)
WithinCapacity == Cap > 0 => Cardinality(DOMAIN sessions) <= Cap

(* What a session remembers follows from the captures attempted on it:     *)
(* planIds that can be replayed are exactly the History most recent plans  *)
(* within the byte limit, newest first, and there is an implicit latest    *)
(* plan exactly when the last attempt was within it.  Plans are numbered   *)
(* in the order of their captures.                                         *)
Elements(l) == {l[i] : i \in DOMAIN l}
LastOf(l) == IF l = <<>> THEN NoPlan ELSE l[Len(l)]

Remembers(plans, fit) ==
  /\ Len(plans) <= History
  /\ \A i, j \in DOMAIN plans : i < j => plans[i] > plans[j]
  /\ Elements(plans) \subseteq fit
  /\ \A p \in fit \ Elements(plans) :
       Len(plans) = History /\ \A q \in Elements(plans) : p < q

HistoryIsRecentCaptures ==
  \A id \in DOMAIN sessions :
    /\ Remembers(sessions[id].plans, Elements(log[id]) \ {NoPlan})
    /\ sessions[id].lastPlan = LastOf(log[id])

(* A session that is dropped stays dropped: no later look-up or capture by *)
(* a call that still holds its id brings it back, so a stale id fails      *)
(* instead of reaching an empty session.                                   *)
DroppedStaysDropped ==
  [][\A id \in issued \ DOMAIN sessions : id \notin DOMAIN sessions']_vars

(* Whatever order the map is scanned in: a session that has not expired is *)
(* dropped only when the registry was full, no session that stays was used *)
(* before it, and the loop stops as soon as there is room for the new one. *)
EvictsLeastRecentlyUsed ==
  [][\A id \in Unexpired \ DOMAIN sessions' :
       /\ Cap > 0
       /\ Cardinality(DOMAIN sessions') = Cap
       /\ \A other \in DOMAIN sessions \cap DOMAIN sessions' :
            sessions[id].lastUsed <= sessions[other].lastUsed]_vars

(* The doc comment of SessionStore: "GC runs on-write (Create /            *)
(* UpdatePlan)" and idle sessions "are dropped on the next write".         *)
ExpiredDroppedOnNextWrite ==
  [][\A id \in SessionIds :
       Create(id) \/ CapturePlan(id) \/ CaptureTooLarge(id)
         => DOMAIN sessions' \subseteq Unexpired \cup {id}]_vars
=============================================================================
