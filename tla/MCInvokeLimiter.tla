--------------------------- MODULE MCInvokeLimiter ---------------------------
(* Three concurrent calls to two endpoints.  The global limit is off (-1 is *)
(* clamped to zero) or two, the per-target limit off or one, and queueing   *)
(* has a timeout or none, in every combination.                             *)
EXTENDS InvokeLimiter

MCGlobalEnv == {-1, 2}
MCPerTargetEnv == {0, 1}
MCTimeoutEnv == {0, 1}
=============================================================================
