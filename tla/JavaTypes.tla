------------------------------ MODULE JavaTypes ------------------------------
(***************************************************************************)
(* Java types as the contract package sees them: type expressions, the     *)
(* classes of the store, how names, supertypes, fields and roles are found *)
(* (internal/core/contract: typespec.go, typeparams.go, fields.go,         *)
(* binaryname.go; internal/javatype/role.go).                              *)
(***************************************************************************)
EXTENDS Integers, Sequences, SequencesExt, FiniteSets

CONSTANTS
  None,
  Names,     \* of classes, type parameters, methods and fields
  Classes,   \* store.Class : what is known of some of the names
  Undollar,  \* Undollar[n] : n with its last '$' as a '.', or None
  Builtin    \* Builtin[n] : the role of the types that javatype knows

ASSUME JavaTypesAssumption ==
  /\ None \notin Names
  /\ DOMAIN Classes \subseteq Names
  /\ DOMAIN Builtin \subseteq Names
  /\ Undollar \in [Names -> Names \cup {None}]

(* ParseTypeSpec: an expression without its spelling.  Of the kinds of      *)
(* wildcards only that there is one is kept.                               *)
TypeSpec(base, arguments, depth) == [base |-> base, args |-> arguments, depth |-> depth, wild |-> FALSE]

Plain(base) == TypeSpec(base, <<>>, 0)

(* Element *)
Element(spec) ==
  IF spec.depth > 0 THEN [spec EXCEPT !.depth = @ - 1] ELSE Head(spec.args)

-----------------------------------------------------------------------------
(* typeArgBindings: a raw reference to a generic class binds nothing.       *)
Bindings(spec, class) ==
  LET n == IF Len(spec.args) < Len(class.params) THEN Len(spec.args) ELSE Len(class.params)
  IN [p \in {class.params[i] : i \in 1..n} |-> spec.args[SelectInSeq(class.params, LAMBDA q : q = p)]]

RECURSIVE Substituted(_, _)

(* substituteTypeSpec: a parameter may itself be an element of an array.   *)
Substituted(spec, bound) ==
  IF spec.args = <<>> /\ spec.base \in DOMAIN bound
  THEN [bound[spec.base] EXCEPT !.depth = @ + spec.depth, !.wild = @ \/ spec.wild]
  ELSE [spec EXCEPT !.args = [i \in DOMAIN @ |-> Substituted(@[i], bound)]]

(* The supertypes of a class in the order in which they are walked, each   *)
(* with what it binds; those the store does not know are left out.         *)
Known(name) == name \in DOMAIN Classes

Parent(spec, bound) ==
  LET s == Substituted(spec, bound)
  IN IF Known(s.base) THEN <<[name |-> s.base, bound |-> Bindings(s, Classes[s.base])]>> ELSE <<>>

SuperParent(at) == FlattenSeq([i \in DOMAIN Classes[at.name].super |-> Parent(Classes[at.name].super[i], at.bound)])

Parents(at) ==
  FlattenSeq([i \in DOMAIN Classes[at.name].interfaces |-> Parent(Classes[at.name].interfaces[i], at.bound)])
    \o SuperParent(at)

(* ResolvedFields, without their order: the field of a subclass hides the  *)
(* one of its superclass.                                                  *)
RECURSIVE FieldsFrom(_)
FieldsFrom(at) ==
  LET own == Classes[at.name].fields
      above == SuperParent(at)
  IN [f \in DOMAIN own |-> IF DOMAIN at.bound = {} THEN own[f].erased ELSE Substituted(own[f].type, at.bound)]
       @@ (IF above = <<>> THEN [f \in {} |-> None] ELSE FieldsFrom(Head(above)))

Fields == [c \in DOMAIN Classes |-> FieldsFrom([name |-> c, bound |-> [p \in {} |-> None]])]

FieldTypes(name) == IF Known(name) THEN Fields[name] ELSE [f \in {} |-> None]

-----------------------------------------------------------------------------
(* The names right above a name; also names that the store does not know.  *)
Above(name) ==
  IF Known(name)
  THEN {s.base : s \in ToSet(Classes[name].super) \cup ToSet(Classes[name].interfaces)}
  ELSE {}

RECURSIVE UpFrom(_)
UpFrom(names) ==
  LET more == names \cup UNION {Above(n) : n \in names}
  IN IF more = names THEN names ELSE UpFrom(more)

Supertypes == [n \in Names |-> UpFrom({n})]

(* typeAssignable *)
Assignable(actual, declared) == declared \in Supertypes[actual]

(* isEnumType: an enum, or something below java.lang.Enum. *)
IsEnum(name) ==
  /\ name # "Enum"
  /\ Known(name)
  /\ Classes[name].kind = "enum" \/ \E n \in Supertypes[name] : Known(n) /\ \E s \in ToSet(Classes[n].super) : s.base = "Enum"

(* Classify: what is not below a type with a role is a user type.  No      *)
(* class of the model is below two of them.                                *)
Role(name) ==
  LET roles == {Builtin[n] : n \in Supertypes[name] \cap DOMAIN Builtin}
  IN IF roles = {} THEN "user" ELSE CHOOSE r \in roles : TRUE

-----------------------------------------------------------------------------
(* storeTypeNameBudget: the readings of a name whose dollars are, one by   *)
(* one from the right, taken for dots.                                     *)
Candidates[name \in Names] ==
  IF Undollar[name] = None THEN <<>> ELSE <<Undollar[name]>> \o Candidates[Undollar[name]]

FirstKnown(names) == SelectInSeq(names, LAMBDA n : Known(n))

(* How a name is resolved when up to budget candidates may be built, and   *)
(* what is left of the budget.                                             *)
Resolution(name, budget) ==
  LET candidates == Candidates[name]
      found == FirstKnown(candidates)
      tries == IF found = 0 THEN Len(candidates) ELSE found
  IN CASE Known(name) \/ candidates = <<>> -> [name |-> name, budget |-> budget]
       [] OTHER -> IF tries > budget THEN [name |-> name, budget |-> 0]
                   ELSE [name |-> IF found = 0 THEN name ELSE candidates[found], budget |-> budget - tries]

Wire_SourceName(name, resolved) == IF Known(resolved) THEN resolved ELSE name

(* wireTypeName, once the name is resolved. *)
Wire(name, resolved) == IF Known(resolved) THEN Classes[resolved].binary ELSE name
=============================================================================
