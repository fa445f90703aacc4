------------------------------ MODULE Bulkhead ------------------------------
(***************************************************************************)
(* What the invoke limiter promises its callers, with no counters and no   *)
(* notification channel: a call asks for a place, is let in only while     *)
(* fewer than the configured number of calls are inside (over all targets  *)
(* and for its own target), or is turned away, and eventually leaves.      *)
(* A limit of zero switches that dimension off.                            *)
(***************************************************************************)
EXTENDS Naturals, FiniteSets

CONSTANTS Callers,   \* concurrent tool calls
          Targets    \* service endpoints the calls are addressed to

VARIABLES limits,    \* [global |-> Nat, perTarget |-> Nat], fixed at start-up
          status,    \* status[c] : where call c stands
          dest       \* dest[c]   : the endpoint of call c's current request

vars == <<limits, status, dest>>

Inside == {c \in Callers : status[c] = "inside"}
InsideFor(k) == {c \in Inside : dest[c] = k}

HasRoom(k) ==
  /\ limits.global > 0 => Cardinality(Inside) < limits.global
  /\ limits.perTarget > 0 => Cardinality(InsideFor(k)) < limits.perTarget

Init ==
  /\ limits \in [global : Nat, perTarget : Nat]
  /\ status = [c \in Callers |-> "outside"]
  /\ dest \in [Callers -> Targets]

Ask(c, k) ==
  /\ status[c] = "outside"
  /\ status' = [status EXCEPT ![c] = "asking"]
  /\ dest' = [dest EXCEPT ![c] = k]
  /\ UNCHANGED limits

(* With both limits off nobody is made to ask. *)
WalkIn(c, k) ==
  /\ status[c] = "outside"
  /\ limits = [global |-> 0, perTarget |-> 0]
  /\ status' = [status EXCEPT ![c] = "inside"]
  /\ dest' = [dest EXCEPT ![c] = k]
  /\ UNCHANGED limits

Admit(c) ==
  /\ status[c] = "asking"
  /\ HasRoom(dest[c])
  /\ status' = [status EXCEPT ![c] = "inside"]
  /\ UNCHANGED <<limits, dest>>

TurnAway(c) ==
  /\ status[c] = "asking"
  /\ status' = [status EXCEPT ![c] = "outside"]
  /\ UNCHANGED <<limits, dest>>

Leave(c) ==
  /\ status[c] = "inside"
  /\ status' = [status EXCEPT ![c] = "outside"]
  /\ UNCHANGED <<limits, dest>>

Next ==
  \E c \in Callers :
    \/ \E k \in Targets : Ask(c, k) \/ WalkIn(c, k)
    \/ Admit(c)
    \/ TurnAway(c)
    \/ Leave(c)

Spec == Init /\ [][Next]_vars
=============================================================================
