------------------------------ MODULE RuztaVariant ------------------------------
(***************************************************************************)
(* RuztaVariant: values.  Arrays and dictionaries are shared: the value is *)
(* a reference into the heap; a vector is copied.  So is a callable: what  *)
(* it is of is in the heap, at 0 if it is of nothing.  An operation that   *)
(* may be refused returns [ok, v, heap].                                   *)
(***************************************************************************)
EXTENDS Integers, Sequences, SequencesExt

Nil == [t |-> "null"]
Number(i) == [t |-> "int", i |-> i]
Bool(b) == [t |-> "bool", b |-> b]
Real(i) == [t |-> "float", i |-> i]   \* whole ones only
Vector(x, y) == [t |-> "vector", x |-> x, y |-> y]   \* of floats
Object == [t |-> "object"]   \* the instance the functions belong to
ScriptClass == [t |-> "object", of |-> "script"]   \* their script

Did(v, heap) == [ok |-> TRUE, v |-> v, heap |-> heap]
Invalid(heap) == [ok |-> FALSE, v |-> Nil, heap |-> heap]

NewArray(heap, elements) ==
    Did([t |-> "array", ref |-> Len(heap) + 1], Append(heap, [elements |-> elements]))
NewDictionary(heap, pairs) ==
    Did([t |-> "dictionary", ref |-> Len(heap) + 1], Append(heap, [pairs |-> pairs]))
NewCallable(heap, of) == Did([t |-> "callable", ref |-> Len(heap) + 1], Append(heap, of))

Numeric == {"int", "float"}
IsContainerValue(v) == v.t \in {"array", "dictionary"}
ElementsOf(heap, v) == heap[v.ref].elements
PairsOf(heap, v) == heap[v.ref].pairs
Size(heap, v) == IF v.t = "array" THEN Len(ElementsOf(heap, v)) ELSE Len(PairsOf(heap, v))

booleanize(heap, v) ==
    CASE v.t = "null" -> FALSE
      [] v.t = "bool" -> v.b
      [] v.t \in Numeric -> v.i # 0
      [] v.t = "vector" -> v.x # 0 \/ v.y # 0
      [] v.t = "object" -> TRUE
      [] v.t = "callable" -> v.ref # 0
      [] IsContainerValue(v) -> Size(heap, v) > 0
is_shared(v) == v.t \in {"array", "dictionary", "object"}

(* Containers are equal by what is in them, a callable to itself.  same: the
   pairs of containers known to be equal, of those that have nothing in them
   first, then of those with these in them, and so on. *)
SameValue(same, a, b) ==
    CASE {a.t, b.t} = Numeric -> a.i = b.i
      [] a.t = b.t /\ IsContainerValue(a) -> <<a.ref, b.ref>> \in same
      [] OTHER -> a = b
SameContents(same, a, b) ==
    CASE DOMAIN a = {"elements"} /\ DOMAIN b = {"elements"} ->
            /\ Len(a.elements) = Len(b.elements)
            /\ \A i \in DOMAIN a.elements : SameValue(same, a.elements[i], b.elements[i])
      [] DOMAIN a = {"pairs"} /\ DOMAIN b = {"pairs"} ->
            /\ Len(a.pairs) = Len(b.pairs)
            /\ \A i \in DOMAIN a.pairs : \E j \in DOMAIN b.pairs :
                  /\ SameValue(same, a.pairs[i].key, b.pairs[j].key)
                  /\ SameValue(same, a.pairs[i].value, b.pairs[j].value)
      [] OTHER -> FALSE
Equal(heap, a, b) ==
    LET pairs == (DOMAIN heap) \X (DOMAIN heap)
        known[depth \in Nat] ==
            LET within == known[depth - 1]
            IN  IF depth = 0 THEN {}
                ELSE {p \in pairs : SameContents(within, heap[p[1]], heap[p[2]])}
    IN  SameValue(known[Len(heap)], a, b)

PlaceOf(heap, pairs, key) ==   \* 0: not a key
    IF \E i \in DOMAIN pairs : Equal(heap, pairs[i].key, key)
    THEN CHOOSE i \in DOMAIN pairs : Equal(heap, pairs[i].key, key) ELSE 0
WithKey(heap, pairs, key, value) ==
    LET i == PlaceOf(heap, pairs, key)
    IN  IF i = 0 THEN Append(pairs, [key |-> key, value |-> value])
        ELSE [pairs EXCEPT ![i].value = value]

(***************************************************************************)
(* Operators on the types they are defined for.                            *)
(***************************************************************************)
Operators == {"+", "-", "*", "/", "%", "negate", "<", "<=", ">", ">=", "==", "!=", "and", "or", "not", "in"}
Quotient(a, b) ==   \* towards zero
    LET Size1(i) == IF i < 0 THEN -i ELSE i
        q == Size1(a) \div Size1(b)
    IN  IF (a < 0) = (b < 0) THEN q ELSE -q

Arithmetic(op, a, b) ==
    CASE op = "+" -> a + b [] op = "-" -> a - b [] op = "*" -> a * b
      [] op = "/" -> Quotient(a, b) [] op = "%" -> a - b * Quotient(a, b)
Compares(op, a, b) ==
    CASE op = "<" -> a < b [] op = "<=" -> a <= b [] op = ">" -> a > b [] op = ">=" -> a >= b

IsDefined(op, a, b) ==
    LET numbers == {a, b} \subseteq Numeric
    IN  CASE op = "+" -> numbers \/ (a = b /\ a \in {"array", "vector"})
          [] op = "-" -> numbers \/ (a = b /\ a = "vector")
          [] op \in {"*", "/", "<=", ">="} -> numbers
          [] op = "%" -> a = "int" /\ b = "int"
          [] op \in {"<", ">"} -> numbers \/ (a = b /\ a = "bool")
          [] op \in {"==", "!="} -> a = b \/ numbers \/ "null" \in {a, b}
          [] op \in {"and", "or"} -> {a, b} \subseteq Numeric \cup {"null", "bool", "object"}
          [] op = "not" -> a \in Numeric \cup {"null", "bool", "object", "array", "dictionary"}
          [] op = "negate" -> a \in Numeric \cup {"vector"}
          [] op = "in" -> b = "array" \/ b = "dictionary"
ReturnType(op, left, right) ==
    CASE op \notin {"+", "-", "*", "/", "%", "negate"} -> "bool"
      [] op # "negate" /\ {left, right} = Numeric -> "float"
      [] OTHER -> left

AsInt(v) == IF v.t = "bool" THEN (IF v.b THEN 1 ELSE 0) ELSE v.i
evaluate(heap, op, a, b) ==
    CASE ~IsDefined(op, a.t, b.t) -> Invalid(heap)
      [] IsDefined(op, a.t, b.t) /\ op \in {"/", "%"} /\ b.i = 0 -> Invalid(heap)
      [] OTHER ->
         (CASE op = "+" /\ a.t = "array" -> NewArray(heap, ElementsOf(heap, a) \o ElementsOf(heap, b))
            [] op = "+" /\ a.t = "vector" -> Did(Vector(a.x + b.x, a.y + b.y), heap)
            [] op = "-" /\ a.t = "vector" -> Did(Vector(a.x - b.x, a.y - b.y), heap)
            [] op \in {"+", "-", "*", "/", "%"} /\ a.t \in Numeric ->
                  LET i == Arithmetic(op, a.i, b.i)   \* scripts divide integers only
                  IN  Did(IF a.t = b.t /\ a.t = "int" THEN Number(i) ELSE Real(i), heap)
            [] op = "negate" -> Did(IF a.t = "vector" THEN Vector(-a.x, -a.y) ELSE [a EXCEPT !.i = -a.i], heap)
            [] op \in {"<", "<=", ">", ">="} -> Did(Bool(Compares(op, AsInt(a), AsInt(b))), heap)
            [] op = "==" -> Did(Bool(Equal(heap, a, b)), heap)
            [] op = "!=" -> Did(Bool(~Equal(heap, a, b)), heap)
            [] op = "and" -> Did(Bool(booleanize(heap, a) /\ booleanize(heap, b)), heap)
            [] op = "or" -> Did(Bool(booleanize(heap, a) \/ booleanize(heap, b)), heap)
            [] op = "not" -> Did(Bool(~booleanize(heap, a)), heap)
            [] op = "in" /\ b.t = "array" ->
                  Did(Bool(\E i \in 1..Size(heap, b) : Equal(heap, ElementsOf(heap, b)[i], a)), heap)
            [] op = "in" /\ b.t = "dictionary" -> Did(Bool(PlaceOf(heap, PairsOf(heap, b), a) # 0), heap))

(***************************************************************************)
(* Elements and members.  A negative index counts from the end.            *)
(***************************************************************************)
Index(heap, v, i) == IF i < 0 THEN i + Size(heap, v) + 1 ELSE i + 1
get_keyed(heap, base, key) ==
    LET i == Index(heap, base, key.i)
        place == PlaceOf(heap, PairsOf(heap, base), key)
    IN  CASE base.t = "array" /\ key.t = "int" ->
                IF i \in 1..Size(heap, base) THEN Did(ElementsOf(heap, base)[i], heap) ELSE Invalid(heap)
          [] base.t = "dictionary" ->
                IF place # 0 THEN Did(PairsOf(heap, base)[place].value, heap) ELSE Invalid(heap)
          [] OTHER -> Invalid(heap)

(* Of a dictionary known to be one: a key that is not there reads as null. *)
get_keyed_validated(heap, base, key) ==
    LET got == get_keyed(heap, base, key)
    IN  IF base.t = "dictionary" /\ ~got.ok THEN Did(Nil, heap) ELSE got

(* v: what base is after. *)
set_keyed(heap, base, key, value) ==
    LET i == Index(heap, base, key.i)
    IN  CASE base.t = "array" /\ key.t = "int" ->
                IF i \in 1..Size(heap, base)
                THEN Did(base, [heap EXCEPT ![base.ref].elements[i] = value]) ELSE Invalid(heap)
          [] base.t = "dictionary" ->
                Did(base, [heap EXCEPT ![base.ref].pairs = WithKey(heap, @, key, value)])
          [] OTHER -> Invalid(heap)

get_named(heap, base, name) ==
    CASE base.t = "vector" /\ name = "x" -> Did(Real(base.x), heap)
      [] base.t = "vector" /\ name = "y" -> Did(Real(base.y), heap)
      [] OTHER -> Invalid(heap)
set_named(heap, base, name, value) ==
    CASE base.t = "vector" /\ name = "x" /\ value.t \in Numeric -> Did([base EXCEPT !.x = value.i], heap)
      [] base.t = "vector" /\ name = "y" /\ value.t \in Numeric -> Did([base EXCEPT !.y = value.i], heap)
      [] OTHER -> Invalid(heap)

(***************************************************************************)
(* Iteration: the state of one is a place, of a dictionary's its key.      *)
(***************************************************************************)
IsIterable(v) == v.t \in Numeric \cup {"vector", "array", "dictionary"}
Lowest(v) == IF v.t = "vector" THEN v.x ELSE 0
Count(heap, v) ==
    CASE v.t \in Numeric -> v.i [] v.t = "vector" -> v.y - v.x [] OTHER -> Size(heap, v)
StateAt(heap, v, place) ==
    CASE v.t = "dictionary" -> PairsOf(heap, v)[place + 1].key
      [] v.t \in {"float", "vector"} -> Real(Lowest(v) + place)
      [] OTHER -> Number(place)
iter_get(heap, v, state) == IF v.t = "array" THEN ElementsOf(heap, v)[state.i + 1] ELSE state
NextPlace(heap, v, state) ==
    IF v.t = "dictionary" THEN PlaceOf(heap, PairsOf(heap, v), state) ELSE state.i - Lowest(v) + 1

(***************************************************************************)
(* Functions and methods of the library that scripts call.                 *)
(***************************************************************************)
TypeCode(tag) ==
    CASE tag = "null" -> 0 [] tag = "bool" -> 1 [] tag = "int" -> 2 [] tag = "float" -> 3
      [] tag = "string" -> 4
      [] tag = "vector" -> 5 [] tag = "string_name" -> 21 [] tag = "object" -> 24
      [] tag = "callable" -> 25
      [] tag = "dictionary" -> 27 [] tag = "array" -> 28

len(heap, v) == IF IsContainerValue(v) THEN Did(Number(Size(heap, v)), heap) ELSE Invalid(heap)
HasReturn(method) == method # "append"
call_method(heap, base, method, arguments) ==
    CASE base.t = "array" /\ method = "append" /\ Len(arguments) = 1 ->
            Did(Nil, [heap EXCEPT ![base.ref].elements = Append(@, arguments[1])])
      [] base.t = "array" /\ method = "has" /\ Len(arguments) = 1 ->
            Did(Bool(\E i \in 1..Size(heap, base) : Equal(heap, ElementsOf(heap, base)[i], arguments[1])), heap)
      [] base.t = "dictionary" /\ method = "has" /\ Len(arguments) = 1 ->
            Did(Bool(PlaceOf(heap, PairsOf(heap, base), arguments[1]) # 0), heap)
      [] IsContainerValue(base) /\ method = "size" /\ Len(arguments) = 0 ->
            Did(Number(Size(heap, base)), heap)
      [] OTHER -> Invalid(heap)

(* The value of another type: a number or a boolean for one another. *)
Scalar == Numeric \cup {"bool"}
can_convert_strict(from, to) == from # to /\ ({from, to} \subseteq Scalar \/ to = "null")
Converted(v, to) ==
    CASE to = "int" -> Number(AsInt(v)) [] to = "float" -> Real(AsInt(v)) [] to = "bool" -> Bool(AsInt(v) # 0)
Default(type) ==
    CASE type = "bool" -> Bool(FALSE) [] type = "int" -> Number(0) [] type = "float" -> Real(0)
      [] type = "vector" -> Vector(0, 0) [] type = "callable" -> [t |-> "callable", ref |-> 0] [] OTHER -> Nil
Empty(heap, type) ==
    CASE type = "array" -> NewArray(heap, <<>>)
      [] type = "dictionary" -> NewDictionary(heap, <<>>)
      [] OTHER -> Did(Default(type), heap)

(* Made from values: of the type itself, of a scalar, a vector of two. *)
construct(heap, type, arguments) ==
    LET from == [i \in DOMAIN arguments |-> arguments[i].t]
    IN  CASE arguments = <<>> -> Empty(heap, type)
          [] Len(arguments) = 1 /\ from[1] = type -> Did(arguments[1], heap)
          [] Len(arguments) = 1 /\ type \in Scalar /\ from[1] \in Scalar \ {type} ->
                Did(Converted(arguments[1], type), heap)
          [] Len(arguments) = 2 /\ type = "vector" /\ {from[1], from[2]} \subseteq Scalar ->
                Did(Vector(AsInt(arguments[1]), AsInt(arguments[2])), heap)
          [] OTHER -> Invalid(heap)

(* The types of the arguments each constructor of a type takes. *)
Constructors(type) ==
    {<<>>} \cup (CASE type \in Scalar -> {<<from>> : from \in Scalar}
                  [] type = "vector" -> {<<"vector">>, <<"float", "float">>}
                  [] OTHER -> {<<type>>})

(* The members of a type, and the arguments and result of its methods: of
   one that takes any number there is no telling what it is given. *)
MemberType(type, name) == IF type = "vector" /\ name \in {"x", "y"} THEN "float" ELSE "variant"
Method(type, name) ==
    CASE type \in {"array", "dictionary"} /\ name = "size" ->
            [found |-> TRUE, arguments |-> <<>>, vararg |-> FALSE, returns |-> "int"]
      [] type = "array" /\ name = "append" ->
            [found |-> TRUE, arguments |-> <<"variant">>, vararg |-> FALSE, returns |-> "null"]
      [] type \in {"array", "dictionary"} /\ name = "has" ->
            [found |-> TRUE, arguments |-> <<"variant">>, vararg |-> FALSE, returns |-> "bool"]
      [] type = "callable" /\ name = "call" ->
            [found |-> TRUE, arguments |-> <<>>, vararg |-> TRUE, returns |-> "variant"]
      [] OTHER -> [found |-> FALSE, arguments |-> <<>>, vararg |-> FALSE, returns |-> "variant"]

(* A value with what it refers to, as deep as the heap goes. *)
ShownWith(contents, v) ==
    CASE IsContainerValue(v) -> contents[v.ref]
      [] v.t = "callable" -> [t |-> "callable"]
      [] OTHER -> v
Shown(heap, v) ==
    LET ShownOf(contents, r) ==
            CASE DOMAIN heap[r] = {"elements"} ->
                    [t |-> "array",
                     elements |-> [i \in DOMAIN heap[r].elements |-> ShownWith(contents, heap[r].elements[i])]]
              [] DOMAIN heap[r] = {"pairs"} ->
                    [t |-> "dictionary",
                     pairs |-> [i \in DOMAIN heap[r].pairs |->
                                   [key |-> ShownWith(contents, heap[r].pairs[i].key),
                                    value |-> ShownWith(contents, heap[r].pairs[i].value)]]]
              [] OTHER -> [t |-> "callable"]
        shown[depth \in Nat] ==
            LET within == shown[depth - 1]
            IN  [r \in DOMAIN heap |-> IF depth = 0 THEN [t |-> "..."] ELSE ShownOf(within, r)]
    IN  ShownWith(shown[Len(heap)], v)
=============================================================================
