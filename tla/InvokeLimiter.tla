---------------------------- MODULE InvokeLimiter ----------------------------
(***************************************************************************)
(* The bulkhead shared by sofarpc_invoke and sofarpc_replay                *)
(* (internal/mcp/invoke_limiter.go).  Each caller is one tool call in its  *)
(* own goroutine.  Every critical section of l.mu is one action.           *)
(*                                                                         *)
(* The channel l.notify is replaced at every release, and the old one is   *)
(* closed.  A waiter holds the channel it read under the lock, so all that *)
(* matters is whether that channel is still the current, open one          *)
(* (pc = "parked") or has been closed since (pc = "woken").                *)
(*                                                                         *)
(* invokeLimitTargetKey returns a dial address, a mode or a service, never *)
(* the empty string, so every call has a key.                              *)
(***************************************************************************)
EXTENDS Integers, FiniteSets

CONSTANTS
  Callers,       \* tool calls that can be in progress at once
  Targets,       \* limiter keys: lower-cased dial addresses
  GlobalEnv,     \* raw values of SOFARPC_MAX_CONCURRENT_INVOKES
  PerTargetEnv,  \* raw values of SOFARPC_MAX_CONCURRENT_INVOKES_PER_TARGET
  TimeoutEnv     \* raw values of SOFARPC_INVOKE_QUEUE_TIMEOUT_MS

ASSUME LimiterAssumption ==
  /\ IsFiniteSet(Callers)
  /\ GlobalEnv \subseteq Int
  /\ PerTargetEnv \subseteq Int
  /\ TimeoutEnv \subseteq Int

VARIABLES
  cfg,          \* l.cfg after clamping; never changes
  globalInUse,  \* l.globalInUse
  perTarget,    \* l.perTarget, a map that only has keys that were inserted
  pc,           \* where the call stands
  key,          \* targetKey of the call
  ctxDone,      \* waitCtx.Done() is closed: queue timeout or cancellation
  released      \* the sync.Once of the call's release function has run

vars == <<cfg, globalInUse, perTarget, pc, key, ctxDone, released>>

PCs == {"idle", "trying", "parked", "woken", "admitted", "finished", "busy"}

-----------------------------------------------------------------------------
Clamp_None(n) == n

Clamp(n) == IF n < 0 THEN 0 ELSE n

NewInvokeLimiter(global, target, timeout) ==
  [global |-> Clamp(global), perTarget |-> Clamp(target), timeout |-> Clamp(timeout)]

Enabled == cfg.global > 0 \/ cfg.perTarget > 0

(* Reading a Go map yields zero for a missing key. *)
TargetInUse(k) == IF k \in DOMAIN perTarget THEN perTarget[k] ELSE 0

CanAcquire_OffByOne(k) ==
  /\ ~(cfg.global > 0 /\ globalInUse > cfg.global)
  /\ ~(cfg.perTarget > 0 /\ TargetInUse(k) >= cfg.perTarget)

CanAcquire_GlobalOnly(k) == ~(cfg.global > 0 /\ globalInUse >= cfg.global)

CanAcquire(k) ==
  /\ ~(cfg.global > 0 /\ globalInUse >= cfg.global)
  /\ ~(cfg.perTarget > 0 /\ TargetInUse(k) >= cfg.perTarget)

Queued == {c \in Callers : pc[c] \in {"trying", "parked", "woken"}}
Holders == {c \in Callers : pc[c] = "admitted"}
HoldersOf(k) == {c \in Holders : key[c] = k}

Init ==
  /\ \E g \in GlobalEnv, t \in PerTargetEnv, q \in TimeoutEnv :
       cfg = NewInvokeLimiter(g, t, q)
  /\ globalInUse = 0
  /\ perTarget = [k \in {} |-> 0]
  /\ pc = [c \in Callers |-> "idle"]
  /\ key \in [Callers -> Targets]
  /\ ctxDone = [c \in Callers |-> FALSE]
  /\ released = [c \in Callers |-> FALSE]

-----------------------------------------------------------------------------
(* Acquire is entered: the queue timer starts; a disabled limiter hands    *)
(* out a release function that does nothing.                               *)
Acquire(c, k) ==
  /\ pc[c] = "idle"
  /\ pc' = [pc EXCEPT ![c] = IF Enabled THEN "trying" ELSE "admitted"]
  /\ key' = [key EXCEPT ![c] = k]
  /\ ctxDone' = [ctxDone EXCEPT ![c] = FALSE]
  /\ released' = [released EXCEPT ![c] = FALSE]
  /\ UNCHANGED <<cfg, globalInUse, perTarget>>

(* One turn of the loop that finds room.  The context is not consulted. *)
TakeSlot(c) ==
  /\ pc[c] = "trying"
  /\ CanAcquire(key[c])
  /\ globalInUse' = globalInUse + 1
  /\ perTarget' = [k \in DOMAIN perTarget \cup {key[c]} |->
                     IF k = key[c] THEN TargetInUse(k) + 1 ELSE perTarget[k]]
  /\ pc' = [pc EXCEPT ![c] = "admitted"]
  /\ UNCHANGED <<cfg, key, ctxDone, released>>

(* One turn of the loop that finds none: the current channel is read under *)
(* the lock, then the caller waits in the select.                          *)
Park(c) ==
  /\ pc[c] = "trying"
  /\ ~CanAcquire(key[c])
  /\ pc' = [pc EXCEPT ![c] = "parked"]
  /\ UNCHANGED <<cfg, globalInUse, perTarget, key, ctxDone, released>>

(* The select's second case: the channel the caller holds is closed. *)
Retry(c) ==
  /\ pc[c] = "woken"
  /\ pc' = [pc EXCEPT ![c] = "trying"]
  /\ UNCHANGED <<cfg, globalInUse, perTarget, key, ctxDone, released>>

GiveUp_IgnoresQueueTimeout(c) ==
  /\ pc[c] \in {"parked", "woken"}
  /\ ctxDone[c]
  /\ cfg.timeout = 0
  /\ pc' = [pc EXCEPT ![c] = "busy"]
  /\ UNCHANGED <<cfg, globalInUse, perTarget, key, ctxDone, released>>

(* The select's first case.  With both cases ready Go picks either. *)
GiveUp(c) ==
  /\ pc[c] \in {"parked", "woken"}
  /\ ctxDone[c]
  /\ pc' = [pc EXCEPT ![c] = "busy"]
  /\ UNCHANGED <<cfg, globalInUse, perTarget, key, ctxDone, released>>

QueueTimeoutFires(c) ==
  /\ cfg.timeout > 0
  /\ c \in Queued
  /\ ~ctxDone[c]
  /\ ctxDone' = [ctxDone EXCEPT ![c] = TRUE]
  /\ UNCHANGED <<cfg, globalInUse, perTarget, pc, key, released>>

(* The client cancels the tool call, or its connection closes. *)
ClientCancels(c) ==
  /\ c \in Queued
  /\ ~ctxDone[c]
  /\ ctxDone' = [ctxDone EXCEPT ![c] = TRUE]
  /\ UNCHANGED <<cfg, globalInUse, perTarget, pc, key, released>>

GiveBackTarget_KeepsZero(k) ==
  perTarget' = IF TargetInUse(k) = 0 THEN perTarget ELSE [perTarget EXCEPT ![k] = @ - 1]

GiveBackTarget(k) ==
  perTarget' = IF TargetInUse(k) <= 1
               THEN [j \in DOMAIN perTarget \ {k} |-> perTarget[j]]
               ELSE [perTarget EXCEPT ![k] = @ - 1]

Broadcast_Signal(p) ==
  IF \E c \in Callers : p[c] = "parked"
  THEN [p EXCEPT ![CHOOSE c \in Callers : p[c] = "parked"] = "woken"]
  ELSE p

(* close(old): everybody parked on the channel that was current wakes up. *)
Broadcast(p) == [c \in Callers |-> IF p[c] = "parked" THEN "woken" ELSE p[c]]

Release_NoOnce(c) ==
  /\ pc[c] \in {"admitted", "finished"}
  /\ IF Enabled
     THEN /\ globalInUse' = IF globalInUse > 0 THEN globalInUse - 1 ELSE 0
          /\ GiveBackTarget(key[c])
          /\ pc' = Broadcast([pc EXCEPT ![c] = "finished"])
     ELSE /\ pc' = [pc EXCEPT ![c] = "finished"]
          /\ UNCHANGED <<globalInUse, perTarget>>
  /\ released' = [released EXCEPT ![c] = TRUE]
  /\ UNCHANGED <<cfg, key, ctxDone>>

(* The release function.  It may be called more than once; sync.Once makes *)
(* the later calls do nothing.                                             *)
Release(c) ==
  /\ pc[c] \in {"admitted", "finished"}
  /\ IF Enabled /\ ~released[c]
     THEN /\ globalInUse' = IF globalInUse > 0 THEN globalInUse - 1 ELSE 0
          /\ GiveBackTarget(key[c])
          /\ pc' = Broadcast([pc EXCEPT ![c] = "finished"])
     ELSE /\ pc' = [pc EXCEPT ![c] = "finished"]
          /\ UNCHANGED <<globalInUse, perTarget>>
  /\ released' = [released EXCEPT ![c] = TRUE]
  /\ UNCHANGED <<cfg, key, ctxDone>>

(* The tool call has answered; the goroutine slot takes another request. *)
Reuse(c) ==
  /\ pc[c] \in {"finished", "busy"}
  /\ pc' = [pc EXCEPT ![c] = "idle"]
  /\ UNCHANGED <<cfg, globalInUse, perTarget, key, ctxDone, released>>

Next ==
  \E c \in Callers :
    \/ \E k \in Targets : Acquire(c, k)
    \/ TakeSlot(c)
    \/ Park(c)
    \/ Retry(c)
    \/ GiveUp(c)
    \/ QueueTimeoutFires(c)
    \/ ClientCancels(c)
    \/ Release(c)
    \/ Reuse(c)

(* Runnable goroutines run and timers fire.  With a channel closed and a   *)
(* context done the select chooses uniformly at random, so a caller that   *)
(* keeps meeting that choice eventually takes the first case: strong       *)
(* fairness.  An admitted call's transport work ends: Client.Invoke sets a *)
(* deadline on the connection.  Nothing makes a client cancel or call.     *)
Fairness ==
  \A c \in Callers :
    /\ WF_vars(TakeSlot(c) \/ Park(c))
    /\ WF_vars(Retry(c))
    /\ SF_vars(GiveUp(c))
    /\ WF_vars(QueueTimeoutFires(c))
    /\ WF_vars(pc[c] = "admitted" /\ Release(c))

Spec == Init /\ [][Next]_vars
FairSpec == Spec /\ Fairness

-----------------------------------------------------------------------------
(* Every variable stays within its type: counters are naturals, the map    *)
(* only holds positive entries for known keys.                             *)
TypeOK ==
  /\ cfg \in [global : Nat, perTarget : Nat, timeout : Nat]
  /\ globalInUse \in Nat
  /\ DOMAIN perTarget \subseteq Targets
  /\ perTarget \in [DOMAIN perTarget -> Nat]
  /\ pc \in [Callers -> PCs]
  /\ key \in [Callers -> Targets]
  /\ ctxDone \in [Callers -> BOOLEAN]
  /\ released \in [Callers -> BOOLEAN]

(* The counters are exact at every instant, whatever the order of grants,  *)
(* refusals, repeated releases and cancellations: globalInUse is the       *)
(* number of admitted calls, perTarget the number per key, and a key with  *)
(* no admitted call has no entry, so the map cannot grow with the number   *)
(* of endpoints ever called.                                               *)
CountersMatchHolders ==
  Enabled =>
    /\ globalInUse = Cardinality(Holders)
    /\ DOMAIN perTarget = {key[c] : c \in Holders}
    /\ \A k \in Targets : TargetInUse(k) = Cardinality(HoldersOf(k))

(* No more calls are in the transport than the limits allow, in total and  *)
(* for one endpoint.                                                       *)
LimitsRespected ==
  /\ cfg.global > 0 => Cardinality(Holders) <= cfg.global
  /\ cfg.perTarget > 0 => \A k \in Targets : Cardinality(HoldersOf(k)) <= cfg.perTarget

(* No lost wake-up: a caller asleep on a channel nobody has closed yet     *)
(* would not find room if it looked.  In particular a caller refused while *)
(* asleep is refused because its limit is reached at that moment.          *)
NoLostWakeup ==
  \A c \in Callers : pc[c] = "parked" => ~CanAcquire(key[c])

(* With a queue timeout every queued call is let in or refused, however    *)
(* often newer calls overtake it for the slots that are given back.        *)
EveryCallSettles ==
  \A c \in Callers : (cfg.timeout > 0 /\ c \in Queued) ~> (c \notin Queued)

(* Where the bulkhead sees a call that stands at p. *)
Abstraction(p) ==
  IF p \in {"trying", "parked", "woken"} THEN "asking"
  ELSE IF p = "admitted" THEN "inside"
  ELSE "outside"

B == INSTANCE Bulkhead WITH
       limits <- [global |-> cfg.global, perTarget |-> cfg.perTarget],
       status <- [c \in Callers |-> Abstraction(pc[c])],
       dest <- key

(* The limiter with its counters, its map and its channel implements the   *)
(* bulkhead: each of its steps admits, refuses or lets go as the bulkhead  *)
(* may, or leaves it alone.                                                *)
ImplementsBulkhead == B!Spec
=============================================================================
