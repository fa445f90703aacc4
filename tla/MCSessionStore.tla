--------------------------- MODULE MCSessionStore ---------------------------
(* Four session ids for a registry of three: sessions expire, and a full     *)
(* registry chooses one of three to drop, with ties, in every order of the   *)
(* scan.  A history of two plans rotates with three captures.                *)
EXTENDS SessionStore, TLC

IdSymmetry == Permutations(SessionIds)
=============================================================================
