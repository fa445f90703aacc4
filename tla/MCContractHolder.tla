--------------------------- MODULE MCContractHolder ---------------------------
(* Two calls, three projects and the default, a cache of two: a project is   *)
(* dropped while a call waits for its load, and requested again.             *)
EXTENDS ContractHolder
=============================================================================
