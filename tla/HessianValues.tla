---------------------------- MODULE HessianValues ----------------------------
(* What the writer and the reader of Hessian messages share: values, nodes  *)
(* and tokens.                                                              *)
EXTENDS Integers, Sequences, SequencesExt, FiniteSets

CONSTANTS
  Names,      \* type names, field names and texts of map keys
  Scalars,    \* values without parts
  None


(* A value is a scalar or a node: a list, a map or an object.               *)
Scalar(s) == [node |-> 0, scalar |-> s]

Node(n) == [node |-> n, scalar |-> None]

NoKids == [n \in {} |-> None]

(* What can be part of a message of n nodes.                                *)
Values(n) == {Scalar(s) : s \in Scalars} \cup {Node(i) : i \in 1..n}

ASSUME ValuesAssumption ==
  /\ None \notin Scalars \cup Names
  /\ None \notin [node : Nat, scalar : Scalars \cup {None}]

(* A list or map without a length: it ends with its terminator.             *)
Open == -1

(* A token is a tag with the bytes that belong to it.  type: a name, or     *)
(* None; typeRef: the number of an earlier one, or -1.                      *)
Token(tag) ==
  [tag |-> tag, scalar |-> None, type |-> None, typeRef |-> -1, length |-> Open, names |-> <<>>,
   ref |-> 0]

Tags == {"scalar", "ref", "definition", "object", "map", "list", "fixed list", "z", "bad"}

Tokens ==
  {t \in [tag : Tags, scalar : Scalars \cup {None}, type : Names \cup {None}, typeRef : Int,
          length : Int, names : Seq(Names), ref : Nat] :
     t.tag = "scalar" => t.scalar # None}
=============================================================================
