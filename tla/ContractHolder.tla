--------------------------- MODULE ContractHolder ---------------------------
(***************************************************************************)
(* The contract holder (internal/mcp/contract_holder.go): one lazily       *)
(* loaded contract store per project root, in a cache that drops the least *)
(* recently requested root.  ForProject runs in concurrent tool calls: it  *)
(* binds an entry under h.mu, then loads it outside the lock, once per     *)
(* entry.  A call keeps the entry it bound even when the cache drops it.   *)
(*                                                                         *)
(* Entry 0 is the default store, which is loaded the same way and never    *)
(* dropped.  A panic of the loader is recovered in the tool's panic guard; *)
(* sync.Once counts it as done, leaving no store and no error.             *)
(***************************************************************************)
EXTENDS Naturals, Sequences, FiniteSets, SequencesExt

CONSTANTS
  Calls,        \* tool calls that can be in progress at once
  Roots,        \* canonical project roots
  NoRoot,       \* a call with no project: the default store
  ProjectMax,   \* h.projectMax, after its default is applied
  MaxCalls      \* bound of the model: ForProject calls per behaviour

ASSUME HolderAssumption ==
  /\ IsFiniteSet(Roots)
  /\ NoRoot \notin Roots
  /\ ProjectMax \in Nat \ {0}
  /\ MaxCalls \in Nat

(* What an entry or a snapshot can hold: a store, no store because there   *)
(* is nothing to load, or no store and a load error.                       *)
Values == {"store", "none", "error"}

VARIABLES
  projects,     \* h.projects: the current entry of each cached root
  order,        \* h.projectOrder, least recently requested first
  entries,      \* every entry allocated: [root, once, value]
  default,      \* the default entry
  pc,           \* where each call stands
  root,         \* the root each call asks for
  held,         \* the entry each call is bound to; 0 is the default
  snapshot,     \* the snapshot each call last returned
  calls,        \* ForProject calls so far
  requested,    \* history: roots by their last request, most recent last
  loads,        \* history: per root, how often its loader was started
  drops         \* history: per root, how often the cache dropped it

cacheVars == <<projects, order, requested, drops>>
vars == <<projects, order, entries, default, pc, root, held, snapshot, calls,
          requested, loads, drops>>

Entry(rs) == [root : rs, once : {"fresh", "running", "done"}, value : Values]

NewEntry_NoRoot(r) == [root |-> NoRoot, once |-> "fresh", value |-> "none"]

NewEntry(r) == [root |-> r, once |-> "fresh", value |-> "none"]

NoSnapshot == [root |-> NoRoot, value |-> "none"]

EntryOf(c) == IF held[c] = 0 THEN default ELSE entries[held[c]]

-----------------------------------------------------------------------------
Init ==
  /\ projects = [r \in {} |-> 0]
  /\ order = <<>>
  /\ entries = <<>>
  /\ default = NewEntry(NoRoot)
  /\ pc = [c \in Calls |-> "idle"]
  /\ root = [c \in Calls |-> NoRoot]
  /\ held = [c \in Calls |-> 0]
  /\ snapshot = [c \in Calls |-> NoSnapshot]
  /\ calls = 0
  /\ requested = <<>>
  /\ loads = [r \in Roots |-> 0]
  /\ drops = [r \in Roots |-> 0]

(* The call returns snapshot v (no snapshot when it panicked), and its     *)
(* locals are gone.                                                        *)
Return(c, v) ==
  /\ pc' = [pc EXCEPT ![c] = "idle"]
  /\ root' = [root EXCEPT ![c] = NoRoot]
  /\ held' = [held EXCEPT ![c] = 0]
  /\ snapshot' = [snapshot EXCEPT ![c] = v]

(* The loop removes the first place of r.  It is the only one: a list that *)
(* changes in this way alone has no root twice.                            *)
MoveToEnd(seq, r) ==
  Append(IF Contains(seq, r) THEN RemoveAt(seq, CHOOSE i \in DOMAIN seq : seq[i] = r) ELSE seq, r)

(* touchProjectContractLocked: move to the end. *)
Touch_Stays(seq, r) == IF Contains(seq, r) THEN seq ELSE Append(seq, r)

Touch(seq, r) == MoveToEnd(seq, r)

(* evictProjectContractsLocked drops roots from the front while there are  *)
(* too many.  The root just bound is last, so it is kept.                  *)
Excess_OffByOne(seq) == IF Len(seq) > ProjectMax + 1 THEN Len(seq) - ProjectMax ELSE 0

Excess(seq) == IF Len(seq) > ProjectMax THEN Len(seq) - ProjectMax ELSE 0

Kept_DropsNewest(seq) ==
  IF Excess(seq) = 0 THEN seq ELSE Append(SubSeq(seq, 1, ProjectMax - 1), Last(seq))

Kept(seq) == SubSeq(seq, Excess(seq) + 1, Len(seq))

-----------------------------------------------------------------------------
(* ForProject up to the unlock: bind the cached entry or a new one. *)
Request(c, r) ==
  LET ordered == Kept(Touch(order, r))
      cached  == r \in DOMAIN projects
      entry   == IF cached THEN projects[r] ELSE Len(entries) + 1
      all     == DOMAIN projects \cup {r}
      kept    == ToSet(ordered)
  IN
  /\ pc[c] = "idle"
  /\ calls < MaxCalls
  /\ order' = ordered
  /\ projects' = [q \in kept |-> IF q = r THEN entry ELSE projects[q]]
  /\ entries' = IF cached THEN entries ELSE Append(entries, NewEntry(r))
  /\ held' = [held EXCEPT ![c] = entry]
  /\ root' = [root EXCEPT ![c] = r]
  /\ pc' = [pc EXCEPT ![c] = "once"]
  /\ calls' = calls + 1
  /\ snapshot' = [snapshot EXCEPT ![c] = NoSnapshot]
  /\ requested' = MoveToEnd(requested, r)
  /\ drops' = [q \in Roots |-> IF q \in all \ kept THEN drops[q] + 1 ELSE drops[q]]
  /\ UNCHANGED <<default, loads>>

RequestDefault(c) ==
  /\ pc[c] = "idle"
  /\ calls < MaxCalls
  /\ held' = [held EXCEPT ![c] = 0]
  /\ root' = [root EXCEPT ![c] = NoRoot]
  /\ pc' = [pc EXCEPT ![c] = "once"]
  /\ calls' = calls + 1
  /\ snapshot' = [snapshot EXCEPT ![c] = NoSnapshot]
  /\ UNCHANGED <<cacheVars, entries, default, loads>>

SetEntry(c, once, value) ==
  LET new == [EntryOf(c) EXCEPT !.once = once, !.value = value]
  IN  IF held[c] = 0
      THEN default' = new /\ UNCHANGED entries
      ELSE entries' = [entries EXCEPT ![held[c]] = new] /\ UNCHANGED default

(* once.Do: the first call runs the loader; while it runs the others wait. *)
StartLoad_NoOnce(c) ==
  /\ pc[c] = "once"
  /\ EntryOf(c).once # "done"
  /\ SetEntry(c, "running", "none")
  /\ pc' = [pc EXCEPT ![c] = "loading"]
  /\ loads' = [r \in Roots |-> IF r = root[c] THEN loads[r] + 1 ELSE loads[r]]
  /\ UNCHANGED <<cacheVars, root, held, snapshot, calls>>

StartLoad(c) ==
  /\ pc[c] = "once"
  /\ EntryOf(c).once = "fresh"
  /\ SetEntry(c, "running", "none")
  /\ pc' = [pc EXCEPT ![c] = "loading"]
  /\ loads' = [r \in Roots |-> IF r = root[c] THEN loads[r] + 1 ELSE loads[r]]
  /\ UNCHANGED <<cacheVars, root, held, snapshot, calls>>

LoadReturns(c) ==
  /\ pc[c] = "loading"
  /\ \E v \in Values : SetEntry(c, "done", v)
  /\ pc' = [pc EXCEPT ![c] = "once"]
  /\ UNCHANGED <<cacheVars, root, held, snapshot, calls, loads>>

LoadPanics_NotDone(c) ==
  /\ pc[c] = "loading"
  /\ Return(c, NoSnapshot)
  /\ UNCHANGED <<cacheVars, entries, default, calls, loads>>

LoadPanics(c) ==
  /\ pc[c] = "loading"
  /\ SetEntry(c, "done", "none")
  /\ Return(c, NoSnapshot)
  /\ UNCHANGED <<cacheVars, calls, loads>>

(* once.Do has returned: the entry the call is bound to is read. *)
Snapshot_FromCache(c) ==
  /\ pc[c] = "once"
  /\ EntryOf(c).once = "done"
  /\ LET e == IF root[c] \in DOMAIN projects THEN entries[projects[root[c]]] ELSE default
     IN  Return(c, [root |-> e.root, value |-> e.value])
  /\ UNCHANGED <<cacheVars, entries, default, calls, loads>>

Snapshot(c) ==
  /\ pc[c] = "once"
  /\ EntryOf(c).once = "done"
  /\ Return(c, [root |-> EntryOf(c).root, value |-> EntryOf(c).value])
  /\ UNCHANGED <<cacheVars, entries, default, calls, loads>>

Next ==
  \E c \in Calls :
    \/ \E r \in Roots : Request(c, r)
    \/ RequestDefault(c)
    \/ StartLoad(c)
    \/ LoadReturns(c)
    \/ LoadPanics(c)
    \/ Snapshot(c)

Spec == Init /\ [][Next]_vars

(* Runnable goroutines run and a loader ends: it walks a finite tree. *)
FairSpec ==
  /\ Spec
  /\ \A c \in Calls :
       WF_vars(StartLoad(c)) /\ WF_vars(LoadReturns(c) \/ LoadPanics(c)) /\ WF_vars(Snapshot(c))

-----------------------------------------------------------------------------
TypeOK ==
  /\ projects \in [DOMAIN projects -> DOMAIN entries]
  /\ DOMAIN projects \subseteq Roots
  /\ order \in Seq(Roots)
  /\ entries \in Seq(Entry(Roots))
  /\ default \in Entry({NoRoot})
  /\ pc \in [Calls -> {"idle", "once", "loading"}]
  /\ root \in [Calls -> Roots \cup {NoRoot}]
  /\ held \in [Calls -> {0} \cup DOMAIN entries]
  /\ snapshot \in [Calls -> [root : Roots \cup {NoRoot}, value : Values]]
  /\ calls \in Nat
  /\ requested \in Seq(Roots)
  /\ loads \in [Roots -> Nat]
  /\ drops \in [Roots -> Nat]

(* The map and the recency list agree: the list has every cached root once *)
(* and nothing else, there are at most ProjectMax of them, and a root is   *)
(* cached under its own name.                                              *)
CacheCoherent ==
  /\ ToSet(order) = DOMAIN projects
  /\ Len(order) = Cardinality(DOMAIN projects)
  /\ Len(order) <= ProjectMax
  /\ \A r \in DOMAIN projects : entries[projects[r]].root = r

(* The cache holds the ProjectMax roots that were requested most recently, *)
(* in that order, whatever loads were in progress meanwhile.               *)
KeepsMostRecent ==
  order = SubSeq(requested, Len(requested) - Len(order) + 1, Len(requested))
  /\ (Len(order) < ProjectMax => order = requested)

(* The map, the list and the entries agree, whatever loads are going on,   *)
(* and what they keep is what was asked for last.                          *)
CacheIsExact == TypeOK /\ CacheCoherent /\ KeepsMostRecent

(* A project is loaded again only after the cache has dropped it: calls    *)
(* that arrive together share one load, panicked or not.                   *)
LoadsAreJustified ==
  \A r \in Roots : loads[r] <= drops[r] + (IF r \in DOMAIN projects THEN 1 ELSE 0)

(* A call is answered with the store of the project it asked for, after    *)
(* that store's load is over, even if the cache dropped the project while  *)
(* the call was waiting.                                                   *)
AnswersTheRequestedProject ==
  [][\A c \in Calls :
       pc[c] = "once" /\ pc'[c] = "idle"
         => /\ snapshot'[c].root = root[c]
            /\ snapshot'[c].value = EntryOf(c).value
            /\ EntryOf(c).once = "done"]_vars

(* Every call returns.  In particular a loader panic does not strand the   *)
(* calls that wait for the same entry.                                     *)
EveryCallReturns == \A c \in Calls : pc[c] # "idle" ~> pc[c] = "idle"
=============================================================================
