----------------------------- MODULE MCPlanning -----------------------------
(* A service that inherits methods from generic interfaces, classes that    *)
(* are nested, extended, generic or named with a dollar, as the source     *)
(* store keeps them, and the values an agent might pass.  The store erases *)
(* the parameters that a supertype is given (materialize.go), so Base gets *)
(* Object from Mid<U>.                                                     *)
EXTENDS Planning

S(base) == Plain(base)

Dollars ==
  "Outer$Inner" :> "Outer.Inner" @@ "Outer$Color" :> "Outer.Color" @@ "Deep$Mid$Leaf" :> "Deep$Mid.Leaf"
    @@ "Deep$Mid.Leaf" :> "Deep.Mid.Leaf" @@ "Un$known" :> "Un.known" @@ "Lit$eral" :> "Lit.eral"

ClassNames ==
  {"Service", "Mid", "Base", "Keeper", "Gen", "Dto", "SubDto", "Outer.Inner", "Outer.Color", "Deep.Mid.Leaf", "Lit$eral"}

MCNames ==
  ClassNames \cup DOMAIN Dollars \cup {"Un.known", "Lit.eral", "Object", "Enum", "String", "Int", "BigDecimal",
    "List", "Map", "T", "U", "X"}

MCUndollar == [n \in MCNames |-> IF n \in DOMAIN Dollars THEN Dollars[n] ELSE None]

Class(kind, super, interfaces) ==
  [kind |-> kind, super |-> super, interfaces |-> interfaces, params |-> <<>>, fields |-> <<>>,
   methods |-> <<>>, binary |-> None, constants |-> <<>>]

Method(name, types, erased) == [name |-> name, params |-> types, erased |-> erased, own |-> <<>>]

Field(type) == [type |-> type, erased |-> type]

MCClasses == [c \in ClassNames |->
  CASE c = "Service" ->
         [Class("interface", <<>>, <<TypeSpec("Mid", <<S("Dto")>>, 0), TypeSpec("Keeper", <<S("Dto")>>, 0)>>) EXCEPT
            !.binary = c,
            !.methods = <<Method("find", <<S("Dto")>>, <<S("Dto")>>),
                          Method("find", <<S("Outer.Inner")>>, <<S("Outer.Inner")>>),
                          Method("paint", <<S("Outer.Color")>>, <<S("Outer.Color")>>),
                          Method("price", <<S("BigDecimal"), S("Object")>>, <<S("BigDecimal"), S("Object")>>)>>]
    [] c = "Mid" ->
         [Class("interface", <<>>, <<TypeSpec("Base", <<S("Object")>>, 0)>>) EXCEPT !.binary = c, !.params = <<"U">>,
            !.methods = <<Method("find", <<S("U")>>, <<S("Object")>>),
                          [Method("put", <<S("X")>>, <<S("Outer.Inner")>>) EXCEPT !.own = <<"X">>]>>]
    [] c = "Base" ->
         [Class("interface", <<>>, <<>>) EXCEPT !.binary = c, !.params = <<"T">>,
            !.methods = <<Method("log", <<S("T")>>, <<S("Object")>>)>>]
    [] c = "Keeper" ->
         [Class("interface", <<>>, <<>>) EXCEPT !.binary = c, !.params = <<"T">>,
            !.methods = <<Method("save", <<TypeSpec("T", <<>>, 1)>>, <<TypeSpec("Object", <<>>, 1)>>),
                          Method("all", <<TypeSpec("List", <<S("T")>>, 0), TypeSpec("Map", <<S("String"), S("Outer.Inner")>>, 0)>>,
                                        <<S("List"), S("Map")>>)>>]
    [] c = "Gen" ->
         [Class("class", <<>>, <<>>) EXCEPT !.binary = c, !.params = <<"T">>,
            !.fields = "item" :> [type |-> S("T"), erased |-> S("Object")]]
    [] c = "Dto" ->
         [Class("class", <<TypeSpec("Gen", <<S("Outer.Inner")>>, 0)>>, <<>>) EXCEPT !.binary = c,
            !.fields = ("inner" :> Field(S("Outer.Inner")) @@ "color" :> Field(S("Outer.Color")))]
    [] c = "SubDto" ->
         [Class("class", <<S("Dto")>>, <<>>) EXCEPT !.binary = c,
            !.fields = ("any" :> Field(S("Object")) @@ "color" :> Field(S("Deep.Mid.Leaf")))]
    [] c = "Outer.Inner" ->
         [Class("class", <<>>, <<>>) EXCEPT !.binary = "Outer$Inner",
            !.fields = ("n" :> Field(S("Int")) @@ "next" :> Field(S("Outer.Inner")))]
    [] c = "Outer.Color" -> [Class("enum", <<>>, <<>>) EXCEPT !.binary = "Outer$Color", !.constants = <<"red">>]
    [] c = "Deep.Mid.Leaf" ->
         [Class("class", <<S("Outer.Inner")>>, <<>>) EXCEPT !.binary = "Deep$Mid$Leaf", !.fields = "n" :> Field(S("Int"))]
    [] c = "Lit$eral" -> [Class("class", <<S("Dto")>>, <<>>) EXCEPT !.binary = c, !.fields = "n" :> Field(S("Int"))]]

MCBuiltin ==
  "String" :> "passthrough" @@ "Int" :> "passthrough" @@ "BigDecimal" :> "passthrough" @@ "Enum" :> "passthrough"
    @@ "List" :> "container" @@ "Map" :> "container"

MCStrings == {"red", "0", "text"}

MCScalars == MCStrings \cup {"1", "1e10", "true"}

MCFits == "Int" :> {"0", "1"} @@ "BigDecimal" :> {"0", "1", "1e10", "red", "text"}

MCPositions == <<"0", "1">>

O(type, fields) ==
  FoldSet(LAMBDA f, g : Under(f, fields[f]) @@ g,
          Leaf(IF type = None THEN NodeOf("object") ELSE Typed(type)), DOMAIN fields)

V(s) == Leaf(Text(s))

L(items) == Merged([i \in DOMAIN items |-> Under(MCPositions[i], items[i])])

(* Some hold an object where a number belongs. *)
NoFields == [f \in {} |-> None]

Misplaced ==
  {O(t, "next" :> O(u, NoFields)) : t \in {"Outer.Inner", "Outer$Inner", "Deep$Mid.Leaf"}, u \in {"Outer.Inner", "Dto"}}

Inners ==
  {O(t, "n" :> n) : t \in {None, "Outer$Inner", "Outer.Inner", "Deep$Mid$Leaf", "Deep$Mid.Leaf", "Dto", "Un$known"},
                    n \in {V("1"), V("1e10")}}
  \cup {O("Outer$Inner", "n" :> n) : n \in Misplaced}
  \cup {O(t, "next" :> O("Un$known", NoFields)) : t \in {"Outer$Inner", "Int", "Outer.Color"}}

Colors ==
  {V("red"), V("1"), O("Outer$Color", "name" :> V("red")), O("Outer.Color", "name" :> V("red")),
   O("Outer.Color", "name" :> O("Outer.Color", "name" :> V("red"))), O("Dto", "name" :> V("red"))}

(* More names with dollars than the budget allows for, in any order: the   *)
(* fields of the last one are not known.                                   *)
Spenders ==
  LET next(t, u) == O(t, "next" :> O(u, NoFields))
  IN {O("Un$known",
        "a" :> next("Deep$Mid$Leaf", "Outer.Inner") @@ "b" :> next("Deep$Mid.Leaf", "Outer.Inner")
          @@ "c" :> next("Outer$Inner", u) @@ "d" :> next("Un$known", "Outer.Color")) :
        u \in {"Dto", "Outer$Inner", "Outer.Inner"}}

Dtos ==
  {O(t, f :> i @@ "color" :> V("red")) : t \in {None, "SubDto"}, f \in {"inner", "item"}, i \in Inners}
  \cup {O(t, "inner" :> O(None, "n" :> V("1")) @@ "color" :> c) : t \in {None, "SubDto"}, c \in Colors}
  \cup {O("SubDto", "any" :> i @@ "extra" :> L(<<i, V("true")>>)) : i \in Inners}
  \cup {O("SubDto", "inner" :> i @@ "color" :> O("Deep$Mid$Leaf", "next" :> i)) : i \in Inners}
  \cup {O("Gen", "item" :> i) : i \in Inners}
  \cup {O("Lit$eral", "n" :> V("1")), O(None, "inner" :> Leaf(NodeOf("null"))), V("text"), L(<<>>)}

Call(method, types, source, value, text) ==
  [trusted |-> FALSE, service |-> "Service", method |-> method, paramTypes |-> types, source |-> source,
   args |-> value, text |-> text]

MCRequests ==
  {Call("find", types, "user", d, FALSE) :
     types \in {<<S("Dto")>>, <<S("SubDto")>>, <<S("Deep.Mid.Leaf")>>, <<S("String")>>, <<>>}, d \in Dtos}
  \cup {Call("save", <<>>, "user", a, t) : a \in {L(<<d>>) : d \in Dtos} \cup {L(<<L(<<d, d>>)>>) : d \in Dtos}, t \in BOOLEAN}
  \cup {Call("all", <<>>, "user", L(<<L(<<d>>), O(None, "k" :> i)>>), t) :
          d \in {O(None, "inner" :> O("Outer$Inner", "n" :> V("0"))), V("text")}, i \in Inners, t \in BOOLEAN}
  \cup {Call("paint", <<>>, "user", c, FALSE) : c \in Colors}
  \cup {Call("price", <<>>, "user", L(<<p, i>>), FALSE) :
          p \in {V("1"), V("true"), O("BigDecimal", "value" :> V("1")), O("Dto", "value" :> V("1"))},
          i \in Inners \cup {L(<<i, O("Un$known", "any" :> i)>>) : i \in Inners}}
  \cup {Call("log", <<>>, "user", L(<<d>>), FALSE) : d \in Dtos \cup Inners \cup Colors \cup Spenders}
  \cup {Call(m, <<>>, s, None, FALSE) : m \in {"save", "all", "price", "paint", "put", "log", "missing"}, s \in {"skeleton", "filled"}}
  \cup {Call("find", <<S(t)>>, s, None, FALSE) : t \in {"Dto", "Outer.Inner"}, s \in {"skeleton", "filled"}}
  \cup {[Call("find", types, s, L(<<V("1")>>), t) EXCEPT !.trusted = TRUE] :
          types \in {<<>>, <<S("Dto")>>, <<S("Dto"), S("Dto")>>}, s \in {"user", "skeleton"}, t \in BOOLEAN}

(* The skeletons alone, for the run on what happens when they come back. *)
MCSkeletonRequests == {q \in MCRequests : q.source = "filled"}

(* Objects of other classes where an enum is declared. *)
MCEnumRequests ==
  {Call("paint", <<>>, "user", O(t, "name" :> V("red")), FALSE) : t \in {"Outer.Color", "Outer$Color", "Dto"}}

(* A method of a generic interface that has a type parameter of its own. *)
MCGenericRequests ==
  {Call("put", <<>>, s, None, FALSE) : s \in {"skeleton", "filled"}} \cup {Call("find", <<S("Dto")>>, "skeleton", None, FALSE)}

MCMaxCandidates == 4
=============================================================================
