--------------------------- MODULE MCConfigFiles ---------------------------
(* Two writers and every pair of operations, on every mix of missing,      *)
(* unparseable and hand-written files with one of two profiles.            *)
EXTENDS ConfigFiles, TLC

MCSymmetry == Permutations(Writers)
============================================================================
