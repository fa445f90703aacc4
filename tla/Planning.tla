------------------------------ MODULE Planning ------------------------------
(***************************************************************************)
(* From what an agent passes to the arguments of a plan: BuildPlan with a  *)
(* contract and resolveArgs (internal/core/invoke/plan.go), NormalizeArgs  *)
(* (internal/core/contract/normalize.go), BuildSkeleton (skeleton.go) and  *)
(* RewriteWireTypeNames (binaryname.go).                                   *)
(*                                                                         *)
(* A value is a function from the paths of its parts to nodes, an          *)
(* argument's path being its position.  Normalization is the stack of the  *)
(* parts that are still to be normalized; the entries of an object are     *)
(* taken in any order, as Go ranges over a map.                            *)
(***************************************************************************)
EXTENDS MethodResolution

CONSTANTS
  Scalars,   \* strings, numbers and booleans
  Strings,   \* those that are strings
  Fits,      \* Fits[t] : those that become a value of the passthrough type t
  Decimals,  \* BigDecimal and BigInteger
  Positions, \* the positions of arguments and of the items of a list, in order
  Requests,  \* bound of the model: what agents ask for
  MaxCandidates \* maxFallbackCandidatesPerRequest

ASSUME PlanningAssumption ==
  /\ Strings \subseteq Scalars
  /\ Decimals \subseteq DOMAIN Fits
  /\ MaxCandidates \in Nat

VARIABLES
  request,  \* [trusted, service, method, paramTypes, source, args, text]
  params,   \* the parameters of the method that was resolved
  args,     \* what they get, as passed
  todo,     \* the parts to normalize: [path, spec]
  plain,    \* the parts whose type names are still to be rewritten
  out,      \* the arguments of the plan
  sigs,     \* its parameter types
  budget,   \* of the resolver, shared by all names of the request
  memo,     \* the names it resolved
  status    \* "new", "normalizing", "rewriting", "planned" or "failed"

vars == <<request, params, args, todo, plain, out, sigs, budget, memo, status>>

-----------------------------------------------------------------------------
(* kind: "null", "scalar", "object" or "list"; type: what an object has    *)
(* under "@type"; as: the Java type that a scalar was made to be.          *)
NodeOf(kind) == [kind |-> kind, scalar |-> None, type |-> None, as |-> None]

Text(s) == [NodeOf("scalar") EXCEPT !.scalar = s]

Typed(type) == [NodeOf("object") EXCEPT !.type = type]

Leaf(node) == <<>> :> node

(* A value under a name, and parts of a value put together. *)
Under(name, value) == [p \in {<<name>> \o q : q \in DOMAIN value} |-> value[Tail(p)]]

Merged(values) == FoldLeft(LAMBDA f, g : f @@ g, <<>> :> NodeOf("list"), values)

Keys(value, path) == {Last(p) : p \in {q \in DOMAIN value : q # <<>> /\ Front(q) = path}}

Within(value, path) == {p \in DOMAIN value : IsPrefix(path, p)}

Part(value, path) == [q \in {SubSeq(p, Len(path) + 1, Len(p)) : p \in Within(value, path)} |-> value[path \o q]]

(* The orders in which the parts of a node may be visited. *)
Orders(node, keys) ==
  IF node.kind = "list" THEN {SelectSeq(Positions, LAMBDA p : p \in keys)} ELSE SetToSeqs(keys)

-----------------------------------------------------------------------------
(* BuildSkeleton: one value for a type; a class inside of itself is a stub.*)
RECURSIVE Skeleton(_, _)

EnumObject(type, name) == Leaf(Typed(type)) @@ Under("name", Leaf(Text(name)))

FirstConstant(type) == IF Known(type) /\ Classes[type].constants # <<>> THEN Head(Classes[type].constants) ELSE ""

UserSkeleton(type, seen) ==
  LET fields == IF type \in seen THEN [f \in {} |-> None] ELSE FieldTypes(type)
  IN FoldSet(LAMBDA f, g : Under(f, Skeleton(fields[f], seen \cup {type})) @@ g, Leaf(Typed(type)), DOMAIN fields)

(* javatype.Placeholder *)
IsMap(type) == type = "Map"

ContainerSkeleton(spec, seen) ==
  CASE IsMap(spec.base) /\ Len(spec.args) < 2 -> Leaf(NodeOf("object"))
    [] IsMap(spec.base) /\ Len(spec.args) >= 2 ->
         Leaf(NodeOf("object")) @@ Under("<key>", Skeleton(spec.args[2], seen))
    [] ~IsMap(spec.base) /\ spec.args = <<>> -> Leaf(NodeOf("list"))
    [] OTHER -> Leaf(NodeOf("list")) @@ Under(Head(Positions), Skeleton(Head(spec.args), seen))

ValueSkeleton(spec, seen) ==
  CASE IsEnum(spec.base) -> EnumObject(spec.base, FirstConstant(spec.base))
    [] spec.base \in Decimals -> Leaf(Typed(spec.base)) @@ Under("value", Leaf(Text("0")))
    [] Role(spec.base) = "passthrough" /\ ~IsEnum(spec.base) /\ spec.base \notin Decimals -> Leaf(Text("0"))
    [] Role(spec.base) = "container" -> ContainerSkeleton(spec, seen)
    [] Role(spec.base) = "user" -> UserSkeleton(spec.base, seen)

Skeleton_BareElement(spec, seen) ==
  IF spec.depth > 0 THEN Skeleton(Element(spec), seen) ELSE ValueSkeleton(spec, seen)

(* buildValue *)
Skeleton(spec, seen) ==
  IF spec.depth > 0
  THEN Leaf(NodeOf("list")) @@ Under(Head(Positions), Skeleton(Element(spec), seen))
  ELSE ValueSkeleton(spec, seen)

(* The parameters of what is asked for, and the skeletons of each. *)
Parameters ==
  [q \in {<<r.service, r.method, r.paramTypes>> : r \in Requests} |-> ResolveMethod(q[1], q[2], q[3])]

SkeletonArgs ==
  [q \in {q \in DOMAIN Parameters : Parameters[q] # None} |->
     Merged([i \in DOMAIN Parameters[q] |-> Under(Positions[i], Skeleton(Parameters[q][i], {}))])]

Asks == <<request.service, request.method, request.paramTypes>>

-----------------------------------------------------------------------------
(* expectsStructuredJSONParam: also for a class of the user. *)
Structured(spec) == spec.depth > 0 \/ spec.base \notin DOMAIN Builtin \/ Builtin[spec.base] = "container"

(* expandStringifiedJSONArgs: arguments that come as the text of a list or *)
(* an object are parsed where a structure is expected.                     *)
Expanded(root, types) ==
  \/ root.kind = "list" /\ Len(types) > 1
  \/ root.kind \in {"list", "object"} /\ Len(types) = 1 /\ Structured(types[1])

Alone(value) == Merged(<<Under(Head(Positions), value)>>)

(* coerceArgsVector: one argument may come without its list.  A text that  *)
(* is parsed to a list is that one argument.                               *)
Vector(value, text, types) ==
  LET root == value[<<>>]
      one == Len(types) = 1
  IN CASE ~text /\ root.kind = "list" -> value
       [] ~text /\ root.kind # "list" /\ one -> Alone(value)
       [] text /\ Expanded(root, types) /\ one -> Alone(value)
       [] text /\ Expanded(root, types) /\ ~one -> value
       [] text /\ ~Expanded(root, types) /\ one -> Alone(Leaf(Text("json")))
       [] OTHER -> None

Arity(value) == Cardinality(Keys(value, <<>>))

-----------------------------------------------------------------------------
Init ==
  /\ request \in Requests
  /\ params = None
  /\ args = None
  /\ todo = <<>>
  /\ plain = {}
  /\ out = <<>>
  /\ sigs = <<>>
  /\ budget = MaxCandidates
  /\ memo = [n \in {} |-> None]
  /\ status = "new"

Fails ==
  /\ status' = "failed"
  /\ UNCHANGED <<request, params, args, todo, plain, out, sigs, budget, memo>>

(* buildTrustedPlan: without a contract the arguments are taken as they are.*)
PlanTrusted ==
  /\ status = "new"
  /\ request.trusted
  /\ LET vector == IF request.source = "user" THEN Vector(request.args, request.text, request.paramTypes) ELSE None IN
     IF request.paramTypes = <<>> \/ vector = None \/ (vector # None /\ Arity(vector) # Len(request.paramTypes))
     THEN Fails
     ELSE /\ params' = request.paramTypes
          /\ sigs' = request.paramTypes
          /\ out' = vector
          /\ status' = "planned"
          /\ UNCHANGED <<request, args, todo, plain, budget, memo>>

Resolve ==
  /\ status = "new"
  /\ ~request.trusted
  /\ IF Parameters[Asks] = None THEN Fails
     ELSE /\ params' = Parameters[Asks]
          /\ status' = "resolved"
          /\ UNCHANGED <<request, args, todo, plain, out, sigs, budget, memo>>

(* resolveArgs without arguments: the skeleton is what is sent. *)
PlanSkeleton ==
  /\ status = "resolved"
  /\ request.source = "skeleton"
  /\ out' = SkeletonArgs[Asks]
  /\ plain' = {p \in DOMAIN out' : out'[p].type # None}
  /\ status' = "rewriting"
  /\ UNCHANGED <<request, params, args, todo, sigs, budget, memo>>

(* resolveArgs with arguments: what the agent made itself, or the skeleton *)
(* that it was shown.                                                      *)
Passed == IF request.source = "user" THEN Vector(request.args, request.text, params) ELSE SkeletonArgs[Asks]

NormalizeArgs(vector) ==
  IF vector = None \/ (vector # None /\ Arity(vector) # Len(params))
  THEN Fails
  ELSE /\ args' = vector
       /\ out' = Leaf(vector[<<>>])
       /\ todo' = [i \in DOMAIN params |-> [path |-> <<Positions[i]>>, spec |-> params[i]]]
       /\ status' = "normalizing"
       /\ UNCHANGED <<request, params, plain, sigs, budget, memo>>

PlanArgs ==
  /\ status = "resolved"
  /\ request.source \in {"user", "filled"}
  /\ NormalizeArgs(Passed)

-----------------------------------------------------------------------------
(* typeNameResolver.storeName: what is resolved once is remembered. *)
ResolvedIn(r, name) ==
  IF name \in DOMAIN r.memo THEN r.memo[name] ELSE Resolution(name, r.budget).name

AfterName(r, name) ==
  IF name \in DOMAIN r.memo \/ Candidates[name] = <<>> THEN r
  ELSE LET n == Resolution(name, r.budget)
       IN [memo |-> (name :> n.name) @@ r.memo, budget |-> n.budget]

Resolver == [memo |-> memo, budget |-> budget]

(* The resolver after it was asked for names, one after the other. *)
Asked(names) == FoldLeft(AfterName, Resolver, names)

Ask(names) == memo' = Asked(names).memo /\ budget' = Asked(names).budget

(* What a name is to the store, in a resolver that was asked for it. *)
StoreName(r, name) == IF name \in DOMAIN r.memo THEN r.memo[name] ELSE name

WireName(r, name) == Wire(name, StoreName(r, name))

-----------------------------------------------------------------------------
(* normalizeForType, normalizeLoose: the part on top of the stack.  A part *)
(* without a type to go by has None.                                       *)
Part0 == Head(todo)

Node0 == args[Part0.path]

Normalizing(loose) ==
  /\ status = "normalizing"
  /\ todo # <<>>
  /\ Node0.kind # "null"
  /\ (Part0.spec = None) = loose

(* A type that is not an array, and for which nothing comes before roles.  *)
ByRole(role) ==
  /\ Normalizing(FALSE)
  /\ Part0.spec.base # "Object"
  /\ Part0.spec.depth = 0
  /\ ~IsEnum(Part0.spec.base)
  /\ Role(Part0.spec.base) = role

Done(nodes) ==
  /\ out' = [p \in {Part0.path \o q : q \in DOMAIN nodes} |-> nodes[SubSeq(p, Len(Part0.path) + 1, Len(p))]] @@ out
  /\ todo' = Tail(todo)

AsItIs == Done(Part(args, Part0.path))

(* The node is done, and its parts come next, each with the type it has in *)
(* specs.                                                                  *)
Keys0 == Keys(args, Part0.path)

Descend(node, specs) ==
  /\ out' = (Part0.path :> node) @@ out
  /\ \E order \in Orders(Node0, Keys0) :
       todo' = [i \in DOMAIN order |-> [path |-> Append(Part0.path, order[i]), spec |-> specs[order[i]]]] \o Tail(todo)

(* The same part again, by another type. *)
Again(spec) ==
  /\ todo' = <<[Part0 EXCEPT !.spec = spec]>> \o Tail(todo)
  /\ UNCHANGED <<out, memo, budget>>

Untouched == UNCHANGED <<request, params, args, plain, sigs>>

NormalizeNull ==
  /\ status = "normalizing"
  /\ todo # <<>>
  /\ Node0.kind = "null"
  /\ AsItIs
  /\ Untouched /\ UNCHANGED <<memo, budget, status>>

NormalizeLoose ==
  /\ Normalizing(TRUE)
  /\ Node0.type = None
  /\ Descend(Node0, [k \in Keys0 |-> None])
  /\ Untouched /\ UNCHANGED <<memo, budget, status>>

NormalizeByItsType ==
  /\ Normalizing(TRUE)
  /\ Node0.type # None
  /\ Again(Plain(Node0.type))
  /\ Untouched /\ UNCHANGED status

NormalizeObjectType ==
  /\ Normalizing(FALSE)
  /\ Part0.spec.base = "Object"
  /\ Again(None)
  /\ Untouched /\ UNCHANGED status

NormalizeArray ==
  /\ Normalizing(FALSE)
  /\ Part0.spec.base # "Object"
  /\ Part0.spec.depth > 0
  /\ IF Node0.kind = "list"
     THEN Descend(Node0, [k \in Keys0 |-> Element(Part0.spec)]) /\ Untouched /\ UNCHANGED <<memo, budget, status>>
     ELSE Fails

(* normalizeEnum: the fields of an enum's object are left as they are.     *)
NormalizeEnum ==
  /\ Normalizing(FALSE)
  /\ Part0.spec.base # "Object"
  /\ Part0.spec.depth = 0
  /\ IsEnum(Part0.spec.base)
  /\ LET type == IF Node0.type # None THEN Node0.type ELSE Part0.spec.base IN
     CASE Node0.scalar \in Strings ->
            Ask(<<type>>) /\ Done(EnumObject(WireName(Asked(<<type>>), type), Node0.scalar))
       [] Node0.kind = "object" ->
            Ask(<<type>>) /\ Done(Leaf(Typed(WireName(Asked(<<type>>), type))) @@ Part(args, Part0.path))
       [] OTHER -> AsItIs /\ UNCHANGED <<memo, budget>>
  /\ Untouched /\ UNCHANGED status

(* normalizeMap. *)
NormalizeMap ==
  /\ ByRole("container")
  /\ IsMap(Part0.spec.base)
  /\ CASE Node0.kind # "object" -> Fails
       [] Node0.kind = "object" /\ Len(Part0.spec.args) < 2 -> Again(None) /\ Untouched /\ UNCHANGED status
       [] OTHER -> Descend(Node0, [k \in Keys0 |-> Part0.spec.args[2]]) /\ Untouched /\ UNCHANGED <<memo, budget, status>>

(* normalizeCollection. *)
NormalizeCollection ==
  /\ ByRole("container")
  /\ ~IsMap(Part0.spec.base)
  /\ CASE Node0.kind # "list" -> Fails
       [] Node0.kind = "list" /\ Part0.spec.args = <<>> -> Again(None) /\ Untouched /\ UNCHANGED status
       [] OTHER -> Descend(Node0, [k \in Keys0 |-> Part0.spec.args[1]]) /\ Untouched /\ UNCHANGED <<memo, budget, status>>

(* toInt64, toFloat64 and decimalString with the bounds of the types. *)
FitsIn(scalar, type) == type \in DOMAIN Fits /\ scalar \in Fits[type]

(* normalizeScalar: a value that does not fit its type is left as it is.   *)
NormalizeScalar ==
  /\ ByRole("passthrough")
  /\ Part0.spec.base \notin Decimals
  /\ IF FitsIn(Node0.scalar, Part0.spec.base)
     THEN Done(Leaf([Node0 EXCEPT !.as = Part0.spec.base]))
     ELSE AsItIs
  /\ Untouched /\ UNCHANGED <<memo, budget, status>>

(* decimalObjectFor *)
DecimalObject(type, scalar) == Leaf(Typed(type)) @@ Under("value", Leaf(Text(scalar)))

NormalizeDecimal ==
  /\ ByRole("passthrough")
  /\ Part0.spec.base \in Decimals
  /\ LET type == Part0.spec.base
         at == Append(Part0.path, "value")
         scalar == IF Node0.kind = "object" /\ at \in DOMAIN args THEN args[at].scalar ELSE Node0.scalar IN
     IF Node0.type \notin {None, type} THEN Fails
     ELSE /\ IF FitsIn(scalar, type) THEN Done(DecimalObject(type, scalar)) ELSE AsItIs
          /\ Untouched /\ UNCHANGED <<memo, budget, status>>

MayStandFor_Anything(actual, declared) == TRUE

(* validateExplicitType *)
MayStandFor(actual, declared) == declared \in {"Object", actual} \/ Assignable(actual, declared)

(* normalizeObject; a string may be the constant of an enum that the store *)
(* does not know.                                                          *)
NormalizeUser ==
  /\ ByRole("user")
  /\ LET base == Part0.spec.base
         names == IF Node0.type = None THEN <<base>> ELSE <<base, Node0.type>>
         type == Last(names)
         known == StoreName(Asked(names), type)
         fields == FieldTypes(known) IN
     CASE ~Known(base) /\ Node0.scalar \in Strings ->
            Done(EnumObject(base, Node0.scalar)) /\ Untouched /\ UNCHANGED <<memo, budget, status>>
       [] Node0.kind # "object" /\ (Known(base) \/ Node0.scalar \notin Strings) -> Fails
       [] Node0.kind = "object" /\ ~MayStandFor(known, StoreName(Asked(names), base)) -> Fails
       [] OTHER ->
            /\ Ask(names)
            /\ Descend(Typed(Wire(type, known)), [k \in Keys0 |-> IF k \in DOMAIN fields THEN fields[k] ELSE None])
            /\ Untouched /\ UNCHANGED status

Normalized ==
  /\ status = "normalizing"
  /\ todo = <<>>
  /\ status' = "rewriting"
  /\ UNCHANGED <<request, params, args, todo, plain, out, sigs, budget, memo>>

(* RewriteWireTypeNames, one name. *)
Rewrite ==
  /\ status = "rewriting"
  /\ \E p \in plain :
       /\ Ask(<<out[p].type>>)
       /\ out' = [out EXCEPT ![p].type = WireName(Asked(<<@>>), @)]
       /\ plain' = plain \ {p}
  /\ UNCHANGED <<request, params, args, todo, sigs, status>>

(* WireParamTypes, by a resolver of its own. *)
RECURSIVE WireSpec(_)
WireSpec(spec) ==
  [spec EXCEPT !.base = Wire(@, Resolution(@, MaxCandidates).name),
               !.args = [i \in DOMAIN @ |-> WireSpec(@[i])]]

Planned ==
  /\ status = "rewriting"
  /\ plain = {}
  /\ sigs' = [i \in DOMAIN params |-> WireSpec(params[i])]
  /\ status' = "planned"
  /\ UNCHANGED <<request, params, args, todo, plain, out, budget, memo>>

Next ==
  \/ PlanTrusted \/ Resolve \/ PlanSkeleton \/ PlanArgs
  \/ NormalizeNull \/ NormalizeLoose \/ NormalizeByItsType \/ NormalizeObjectType \/ NormalizeArray
  \/ NormalizeEnum \/ NormalizeMap \/ NormalizeCollection \/ NormalizeScalar \/ NormalizeDecimal
  \/ NormalizeUser \/ Normalized \/ Rewrite \/ Planned

(* A plan is built in one call, which goes on until it returns. *)
Spec == Init /\ [][Next]_vars /\ WF_vars(Next)
-----------------------------------------------------------------------------
(* What declares the type of a part: the method, or the class, the list or  *)
(* the map around it.                                                      *)
ClassOf(binary) ==
  LET named == {c \in DOMAIN Classes : Classes[c].binary = binary}
  IN IF named = {} THEN None ELSE CHOOSE c \in named : TRUE

FieldOf(fields, key) == IF key \in DOMAIN fields THEN fields[key] ELSE None

Declares(spec, node, key) ==
  CASE spec # None /\ spec.depth > 0 -> Element(spec)
    [] node.type # None -> FieldOf(FieldTypes(ClassOf(node.type)), key)
    [] spec # None /\ spec.depth = 0 /\ node.type = None /\ spec.args # <<>> -> Last(spec.args)
    [] OTHER -> None

DeclaredAt(path) ==
  LET at[n \in 1..Len(path)] ==
        IF n = 1 THEN params[SelectInSeq(Positions, LAMBDA p : p = path[1])]
        ELSE Declares(at[n - 1], out[SubSeq(path, 1, n - 1)], path[n])
  IN at[Len(path)]

Upto(path) == {SubSeq(path, 1, n) : n \in 1..Len(path)}

(* The type that a value which was passed goes by. *)
ByItsType(declared, type) ==
  CASE declared # None /\ declared.base # "Object" -> declared.base
    [] (declared = None \/ declared.base = "Object") /\ type # None -> type
    [] OTHER -> "Object"

GoesBy(path) == ByItsType(DeclaredAt(path), args[path].type)

Passes == request.source # "skeleton" /\ status = "planned"

IsEnumAt(path) == Passes /\ DeclaredAt(path) # None /\ IsEnum(GoesBy(path))

(* What stands where a scalar should, or inside the object of an enum, is  *)
(* the agent's own affair.                                                 *)
TakesAsItIs(type, below) == IF IsEnum(type) THEN below ELSE Role(type) = "passthrough"

Inside(path) == Passes /\ \E q \in Upto(path) : TakesAsItIs(GoesBy(q), q # path)

(* The fields of a class are unknown when the budget was spent before its  *)
(* name, with dollars in it, could be resolved.                            *)
OfUnresolved(path) ==
  Passes /\ budget = 0 /\ \E q \in Upto(path) \ {path} :
    args[q].type # None /\ Candidates[args[q].type] # <<>>

(* The class files of a service are loaded by their binary names.  No class *)
(* that the store knows goes out under another spelling, in values as in   *)
(* parameter types, however the agent spells it and in whatever order the  *)
(* entries of objects are visited, except: as it was passed, inside what   *)
(* the agent put where a scalar or an enum's fields should be; and a       *)
(* spelling with dollars when the budget is spent, never the source's own. *)
IsSpelledOtherwise(name, class) == Known(class) /\ Classes[class].binary # name

OtherSpelling(name) ==
  /\ name # None
  /\ IsSpelledOtherwise(name, Resolution(name, Cardinality(Names)).name)

RECURSIVE Bases(_)
Bases(spec) == {spec.base} \cup UNION {Bases(spec.args[i]) : i \in DOMAIN spec.args}

ClassesGoByBinaryName ==
  status = "planned" /\ ~request.trusted =>
    /\ \A p \in DOMAIN out : OtherSpelling(out[p].type) =>
         \/ Inside(p) /\ out[p] = args[p]
         \/ budget = 0 /\ Candidates[out[p].type] # <<>>
    /\ \A i \in DOMAIN sigs : \A n \in Bases(sigs[i]) : ~OtherSpelling(n)

(* An object stands where its class may stand: what the method, or the     *)
(* class, the list or the map around it declares is a supertype of its     *)
(* class.  Enums are not checked (ExplicitTypesAreChecked), nor what is    *)
(* inside a class whose name was not resolved.                             *)
FitsAs(class, declared) ==
  class # None /\ declared # None /\ Known(declared.base) => Assignable(class, declared.base)

FitsAt(path) == FitsAs(ClassOf(out[path].type), DeclaredAt(path))

ObjectsFitWhereTheyStand ==
  status = "planned" /\ ~request.trusted =>
    \A p \in DOMAIN out \ {<<>>} : Inside(p) \/ OfUnresolved(p) \/ IsEnumAt(p) \/ FitsAt(p)

(* "normalization keeps the subtype payload while validating that it is    *)
(* assignable to the declared parameter type" (docs/plans, contract        *)
(* generics): of every declared type, enums included.                      *)
ExplicitTypesAreChecked ==
  status = "planned" /\ ~request.trusted =>
    \A p \in DOMAIN out \ {<<>>} : Inside(p) \/ OfUnresolved(p) \/ FitsAt(p)

(* "a JSON skeleton the agent can populate" (contract/store.go): no        *)
(* skeleton is rejected when it comes back.                                *)
SkeletonIsAccepted ==
  request.source = "filled" /\ ~request.trusted /\ params # None => status # "failed"

(* "For a method such as <T extends BaseRequest> Result<T> query(T request), *)
(* describe renders a BaseRequest skeleton" (docs/architecture.md): a      *)
(* service is called by types, never by the type parameters of a method or *)
(* of the generic interface that declares it.                              *)
TypeParameters ==
  UNION {ToSet(Classes[c].params) \cup UNION {ToSet(m.own) : m \in ToSet(Classes[c].methods)} : c \in DOMAIN Classes}

ParametersAreTypes ==
  params # None /\ ~request.trusted => \A i \in DOMAIN params : Bases(params[i]) \cap TypeParameters = {}

(* "a JSON skeleton the agent can populate before calling sofarpc_invoke"  *)
(* (contract/store.go): the call that gets it back returns a plan.         *)
SkeletonIsPlanned ==
  (request.source = "filled" /\ status = "resolved") ~> (status = "planned")
=============================================================================
