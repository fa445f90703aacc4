-------------------------- MODULE MethodResolution --------------------------
(***************************************************************************)
(* Which overload a call means: ResolveMethod                              *)
(* (internal/core/contract/resolve.go).                                    *)
(***************************************************************************)
EXTENDS JavaTypes

(* substituteMethodTypeParams: without bindings a method keeps its erased  *)
(* parameters.                                                             *)
ParamsOf(method, bound) ==
  IF DOMAIN bound = {} THEN method.erased
  ELSE [i \in DOMAIN method.params |-> Substituted(method.params[i], bound)]

(* collectMethods: what a class and everything above it declare under a    *)
(* name, depth first, each signature once.                                 *)
RECURSIVE Collected(_, _, _, _)

Collected(left, seen, name, found) ==
  IF left = <<>> THEN found
  ELSE IF Head(left) \in seen THEN Collected(Tail(left), seen, name, found)
  ELSE LET at == Head(left)
           own == [i \in DOMAIN Classes[at.name].methods |->
                     IF Classes[at.name].methods[i].name = name
                     THEN <<ParamsOf(Classes[at.name].methods[i], at.bound)>> ELSE <<>>]
       IN Collected(Parents(at) \o Tail(left), seen \cup {at}, name,
                    FoldLeft(LAMBDA f, m : IF Contains(f, m) THEN f ELSE Append(f, m), found, FlattenSeq(own)))

Overloads(service, name) ==
  Collected(<<[name |-> service, bound |-> [p \in {} |-> None]]>>, {}, name, <<>>)

(* paramTypeAssignable *)
Accepts(actual, declared) ==
  /\ actual.depth = declared.depth
  /\ actual.base = declared.base \/ declared.base = "Object" \/ Assignable(actual.base, declared.base)

AllAccepted(actual, declared) ==
  Len(actual) = Len(declared) /\ \A i \in DOMAIN actual : Accepts(actual[i], declared[i])

(* pickOverload: the number of the one that is meant, or an error. *)
Picked(overloads, given) ==
  LET all == DOMAIN overloads
      exact == {i \in all : overloads[i] = given}
      matches == IF exact # {} THEN exact ELSE {i \in all : AllAccepted(given, overloads[i])}
  IN CASE Len(overloads) = 1 -> 1
       [] Len(overloads) > 1 /\ given # <<>> /\ Cardinality(matches) = 1 -> CHOOSE i \in matches : TRUE
       [] OTHER -> 0

(* ResolveMethod: the parameters of the overload, or None. *)
ResolveMethod(service, name, given) ==
  LET overloads == IF Known(service) THEN Overloads(service, name) ELSE <<>>
      picked == Picked(overloads, given)
  IN IF picked = 0 THEN None ELSE overloads[picked]
=============================================================================
