---------------------------- MODULE MCBoltClient ----------------------------
(* Two calls and the ids 1 and 2, so that the counter passes zero between   *)
(* them; the length of a content is below 4.                                *)
EXTENDS BoltClient, TLC

Reply(class, content, payload) ==
  [valid |-> TRUE, class |-> class, header |-> 0, content |-> content, map |-> TRUE, payload |-> payload]

MCAnswers ==
  {Reply(1, 1, "value"), Reply(0, 2, "error"), Reply(1, 0, "undecodable"), Reply(2, 3, "value"),
   [Reply(1, 1, "value") EXCEPT !.valid = FALSE],
   [Reply(1, 1, "value") EXCEPT !.map = FALSE]}

Symmetry == Permutations(Calls)
=============================================================================
