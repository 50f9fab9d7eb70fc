------------------------------ MODULE RuztaScripts ------------------------------
(***************************************************************************)
(* RuztaScripts: the scripts that are parsed, compiled and run.  Each one  *)
(* is about a part of the compiler where slots, temporaries, jumps or      *)
(* shared values could be mixed up.                                        *)
(***************************************************************************)
EXTENDS RuztaScriptTrees

a == Identifier("a")
b == Identifier("b")
c == Identifier("c")
i == Identifier("i")
x == Identifier("x")
y == Identifier("y")
Zero == Literal("0")
One == Literal("1")
Two == Literal("2")
Three == Literal("3")
True == Literal("true")
Nothing == Literal("null")
Out(values) == Call("print", values)
Of(base, name, arguments) == CallOf(Attribute(base, name), arguments)
Vector2(p, q) == Call("Vector2", <<p, q>>)
Par(name) == Parameter(name, Null)
Main(statements) == Function("main", <<>>, statements)
F(parameters, statements) == Function("f", parameters, statements)
G(parameters, statements) == Function("g", parameters, statements)

(* Operators on values known only when they run, and on known ones. *)
OperatorUses == {
    <<Out(<<Binary(x, "+", Binary(y, "*", x)), Binary(Binary(x, "-", y), "-", x)>>)>>,
    <<Out(<<Unary("not", x), Binary(x, "/", y), Binary(Unary("-", x), "%", y)>>)>>,
    <<Return(Binary(Binary(Binary(x, "<", y), "and", Binary(y, ">", x)), "or", Binary(x, "==", y)))>>,
    <<Out(<<Ternary(Binary(x, "<", y), Unary("not", x), Array(<<y>>)),
            Ternary(x, Binary(x, ">=", y), Binary(x, "<=", y))>>)>>,
    <<Out(<<Binary(Array(<<x>>), "+", Array(<<One, x>>)), Dictionary(<<Pair(One, x)>>)>>)>>,
    <<Out(<<Binary(One, "in", Array(<<x, One>>)), Binary(x, "!=", Nothing),
            Unary("not", Array(<<x>>)), Is(x, "bool")>>)>>,
    <<Out(<<Binary(Is(x, "int"), "or", Binary(Is(x, "bool"), "and", x)),
            Binary(Array(<<x>>), "==", Array(<<x>>))>>)>>,
    <<Out(<<Subscript(Array(<<x, Two>>), One), Subscript(Dictionary(<<Pair(x, Two)>>), x),
            Subscript(Dictionary(<<Pair(One, x)>>), One)>>)>>,
    <<Set(Subscript(Dictionary(<<Pair(One, x)>>), x), "=", Two), AssertThat(x),
      Return(Array(<<Call("typeof", <<x>>), Call("len", <<Array(<<x>>)>>)>>))>> }
OperatorScripts == {
    Script(<<Main(<<Variable("x", Three), Variable("y", Two)>> \o use)>>) : use \in OperatorUses}

(* One error a function: it gives null and its caller goes on. *)
Fault(statements) == Script(<<
    F(<<Par("a"), Par("b")>>, <<Out(<<a>>)>> \o statements \o <<Out(<<b>>), Return(b)>>),
    Main(<<
        Variable("x", Call("f", <<Two, Zero>>)),
        Out(<<x>>),
        Return(Call("f", <<Array(<<x>>), Array(<<One>>)>>))>>) >>)
Faults == {
    Fault(<<Variable("c", Array(<<a, Binary(a, "/", b)>>)), Out(<<c>>)>>),
    Fault(<<Out(<<Ternary(Subscript(Array(<<a>>), b), a, One)>>)>>),
    Fault(<<AssertThat(Binary(a, "==", b)), Out(<<a>>)>>),
    Fault(<<For("i", Call("range", <<a>>), <<Out(<<i>>)>>)>>),
    Fault(<<For("i", Unary("not", a), <<Out(<<i>>)>>)>>),
    Fault(<<Out(<<Array(<<a, Of(a, "append", <<b>>)>>)>>)>>),
    Fault(<<Variable("c", Plain("self")), Out(<<One, Of(c, "g", <<a>>)>>)>>),
    Fault(<<Out(<<One, Of(Subscript(Array(<<Plain("self")>>), Zero), "f", <<a>>)>>)>>),
    Fault(<<Set(Subscript(a, b), "=", One)>>),
    Fault(<<Set(Attribute(a, "x"), "=", One)>>),
    Fault(<<Variable("c", Call("Vector2", <<a, b>>)), Set(Attribute(c, "x"), "=", a), Out(<<c>>)>>),
    Fault(<<Out(<<Call("len", <<a>>), Attribute(a, "y")>>)>>) }

(* Calls within calls, to the limit and over it. *)
Recursion == Script(<<
    F(<<Par("a")>>, <<
        If(Binary(a, "==", Zero), <<Return(Zero)>>),
        Variable("x", Binary(One, "+", Call("f", <<Binary(a, "-", One)>>))),
        Return(x)>>),
    Main(<<Out(<<Call("f", <<Two>>)>>), Variable("x", Call("f", <<Three>>)), Out(<<x>>),
           Call("f", <<One>>), Return(Binary(x, "==", Nothing))>>) >>)

(* Defaults are evaluated when they are wanted, from those before. *)
Defaults == Script(<<
    F(<<Par("a"), Parameter("b", Array(<<a>>)), Parameter("c", Binary(b, "+", Array(<<b>>)))>>, <<
        Of(b, "append", <<Two>>),
        Return(Array(<<a, b, c>>))>>),
    Main(<<
        Out(<<Call("f", <<One>>), Call("f", <<One, Array(<<>>)>>),
              Call("f", <<One, Array(<<Two>>), Three>>)>>),
        Return(Call("f", <<Call("f", <<Zero>>)>>))>>) >>)

(* Temporaries within temporaries: arguments, elements and conditions. *)
TemporaryUses == {
    <<Variable("y", Array(<<Subscript(Call("f", <<x>>), Zero),
                              Dictionary(<<Pair(One, Call("f", <<Two>>))>>)>>)),
      Out(<<Subscript(Subscript(Subscript(y, One), One), Zero)>>)>>,
    <<Out(<<Ternary(Call("f", <<x>>), Subscript(Call("f", <<Three>>), Zero), Zero), Call("f", <<One>>)>>)>>,
    <<IfElse(Binary(Call("len", <<Call("f", <<x>>)>>), ">", Two), <<Out(<<One>>)>>,
             <<Out(<<Call("f", <<Binary(Call("f", <<One>>), "==", Call("f", <<One>>))>>)>>)>>)>>,
    <<Out(<<Binary(Call("f", <<x>>), "and",
                   Binary(Subscript(Call("f", <<Zero>>), One), "or", Subscript(Call("f", <<x>>), Zero)))>>)>>,
    <<Out(<<Subscript(Call("f", <<x>>), Subscript(Call("f", <<x>>), Zero))>>),
      Return(Of(Binary(Call("f", <<x>>), "+", Call("f", <<Zero>>)), "size", <<>>))>> }
TemporaryScripts == {
    Script(<<F(<<Par("a")>>, <<Return(Array(<<a, a>>))>>), Main(<<Variable("x", One)>> \o use)>>) :
        use \in TemporaryUses}

(* Loops over numbers, in each way to start, leave and go on. *)
Ranges == Script(<<
    F(<<Par("a"), Par("b")>>, <<
        For("i", Call("range", <<a>>), <<Out(<<i>>), Set(i, "+=", Two)>>),
        For("i", Call("range", <<Binary(b, "+", One), Zero, Literal("-1")>>), <<
            If(Binary(i, ">", b), <<Plain("continue")>>),
            For("x", Call("range", <<Zero, b>>), <<
                If(Binary(x, "==", i), <<Plain("break")>>),
                Out(<<i, x>>)>>)>>)>>),
    Main(<<Call("f", <<Two, Two>>), Call("f", <<True, Zero>>), For("i", Two, <<Out(<<i>>)>>)>>) >>)

(* Loops over containers, one of which grows. *)
Growing == Script(<<
    F(<<Par("a")>>, <<
        For("i", a, <<
            If(Binary(i, "<", Two), <<Of(a, "append", <<Binary(i, "+", One)>>)>>),
            Out(<<i>>)>>),
        Return(a)>>),
    Main(<<Return(Call("f", <<Array(<<Zero, Three>>)>>))>>) >>)
LoopUses == {
    <<For("i", Dictionary(<<Pair(One, Two), Pair(Three, One)>>), <<Out(<<i, x>>), Set(x, "+=", i)>>)>>,
    <<For("i", Array(<<Two, One>>), <<For("y", i, <<If(y, <<Plain("break")>>), Out(<<i, y>>)>>)>>)>>,
    <<While(Binary(x, "<", Three), <<
        Set(x, "+=", One),
        If(Binary(x, "==", Two), <<Plain("continue")>>),
        Variable("y", Array(<<x>>)),
        While(y, <<Out(<<y>>), Plain("break")>>)>>),
      Return(x)>> }
LoopScripts == {Script(<<Main(<<Variable("x", Zero)>> \o use)>>) : use \in LoopUses} \cup {Growing}

(* A slot that another variable had, and one that the same variable had an
   iteration ago. *)
Slots == Script(<<
    F(<<Par("a")>>, <<
        For("i", Call("range", <<Two>>), <<
            Variable("x", Null), Variable("y", i),
            Out(<<x, y>>),
            IfElse(y, <<Variable("c", Null), Out(<<c>>)>>, <<Variable("c", Three), Out(<<c>>)>>),
            Set(x, "=", a)>>),
        If(a, <<Variable("y", Null), Out(<<y>>), Set(y, "=", Two)>>),
        If(a, <<Variable("x", Null), Out(<<x>>)>>),
        Variable("b", Null),
        Return(b)>>),
    Main(<<Out(<<Call("f", <<One>>)>>), Return(Call("f", <<Zero>>))>>) >>)

(* A part of a part is set, in a value that is copied or one that is
   shared. *)
ChainUses == {
    <<Set(Attribute(Subscript(c, Zero), "x"), "=", Three), Set(Attribute(x, "y"), "-=", Two)>>,
    <<Set(Attribute(Subscript(Subscript(c, One), One), "y"), "+=", Subscript(Array(<<Two>>), Zero))>>,
    <<Set(Subscript(Subscript(c, One), Zero), "-=", Subscript(c, Zero)), Out(<<c>>)>>,
    <<Set(Subscript(c, Zero), "=", x), Set(Attribute(Subscript(y, Zero), "y"), "=", Zero)>>,
    <<Set(Attribute(Subscript(c, One), "y"), "=", Zero)>>,
    <<Set(Attribute(Subscript(Call("f", <<c>>), Zero), "y"), "=", Three)>> }
ChainScripts == {
    Script(<<
        F(<<Par("a")>>, <<Return(a)>>),
        G(<<Par("x"), Par("y"), Par("c")>>, use),
        Main(<<
            Variable("x", Vector2(One, Two)),
            Variable("y", Array(<<x, Array(<<x, x>>)>>)),
            Call("g", <<x, y, y>>),
            Return(Array(<<x, y>>))>>)>>) : use \in ChainUses}

(* Each kind of pattern, alternatives, guards and names bound. *)
MatchUses == {
    <<Branch(<<Value(One), Value(Literal("-1"))>>, Null, <<Return(One)>>),
      Branch(<<Value(b)>>, Null, <<Return(Two)>>)>>,
    <<Branch(<<ArrayOf(<<Value(One), ArrayOf(<<Bind("c"), Pattern("wildcard")>>)>>)>>,
             Binary(c, ">", b), <<Return(c)>>),
      Branch(<<ArrayOf(<<Bind("c"), Pattern("rest")>>)>>, Null, <<Out(<<c>>)>>)>>,
    <<Branch(<<DictionaryOf(<<[key |-> One, value |-> Value(Two)], [key |-> Two, value |-> Null]>>),
               DictionaryOf(<<[key |-> Binary(One, "+", One), value |-> Pattern("wildcard")],
                              [key |-> Null, value |-> Pattern("rest")]>>)>>,
             Null, <<Variable("x", Null), Out(<<x>>), Return(Three)>>)>>,
    <<Branch(<<Bind("c")>>, Binary(c, "==", b), <<Variable("x", c), Return(x)>>),
      Branch(<<Pattern("wildcard")>>, Null, <<Variable("y", a), Out(<<y>>)>>)>> }
Matched == {
    Array(<<One, Two, True>>),
    Array(<<Array(<<One, Array(<<Three, Zero>>)>>), Array(<<One, Array(<<One, Zero>>)>>)>>),
    Array(<<Array(<<One, Array(<<Three>>)>>), Array(<<>>), Array(<<Zero, Zero, Zero>>)>>),
    Array(<<Dictionary(<<Pair(One, Two), Pair(Two, Two)>>), Dictionary(<<Pair(Three, One), Pair(Two, One)>>)>>),
    Array(<<Dictionary(<<Pair(One, One), Pair(Zero, Two)>>), Nothing>>) }
MatchScripts == {
    Script(<<
        F(<<Par("a"), Par("b")>>, <<Match(a, branches), Return(Zero)>>),
        Main(<<For("i", values, <<Out(<<Call("f", <<i, Two>>)>>)>>)>>)>>) :
        branches \in MatchUses, values \in Matched}

RunScripts == {Recursion, Defaults, Ranges, Slots} \cup OperatorScripts \cup TemporaryScripts
              \cup LoopScripts \cup ChainScripts \cup MatchScripts \cup Faults

(* A variable of an elif in a loop, printed right after it is declared. *)
ElifInLoop == {
    Script(<<Main(<<
        For("i", Call("range", <<Three>>), <<
            IfElse(Binary(i, "==", Zero), <<Plain("pass")>>, <<
                If(Binary(i, ">", Zero), <<
                    Variable("x", Null), Out(<<x>>), Set(x, "=", value), Plain("continue")>>)>>)>>)>>)>>) :
    value \in {Nothing, i, Array(<<i>>)}}

(***************************************************************************)
(* Scripts with types.  In the sure ones every value has one from its      *)
(* declaration on; in the others a type may be missing, or the value be    *)
(* one whose type is found only when the script runs.                      *)
(***************************************************************************)
Given == {"int", "bool", "float", "Array", ":="}
With(n, type) == CASE type = "" -> n [] type = ":=" -> Inferred(n) [] OTHER -> Typed(n, type)
SureValues == {Two, True, Array(<<One>>)}
Found(v) == Subscript(Array(<<v>>), Zero)
Uses(v) == {
    v, Unary("-", v), Unary("not", v), Binary(v, "+", One), Binary(v, "<", v), Binary(v, "==", v),
    Array(<<v>>), Cast(v, "float"), Call("int", <<v>>)}

(* A variable is the other's value, converted, or what an operation on it
   gives. *)
Declares(first, value, second, use) ==
    Script(<<Main(<<
        With(Variable("x", value), first), With(Variable("y", use), second),
        Out(<<x, y, Call("typeof", <<y>>)>>)>>)>>)
(* A variable is assigned to again, or combined with another. *)
Assigns(first, value, second, other, op) ==
    Script(<<Main(<<
        With(Variable("x", value), first), With(Variable("y", other), second),
        Set(x, op, y), Out(<<x, Binary(x, "==", Nothing)>>)>>)>>)
(* A value goes through a parameter, a default and what is returned. *)
Passes(parameter, default, returned, value, called) ==
    LET f == F(<<With(Par("a"), parameter), With(Parameter("b", a), default)>>, <<Return(b)>>)
    IN  Script(<<
            IF returned = "" THEN f ELSE Returns(f, returned),
            Main(<<With(Variable("x", value), IF called = "f" THEN ":=" ELSE ""),
                   Out(<<IF called = "f" THEN Call("f", <<x>>) ELSE Of(Found(Plain("self")), "f", <<x>>)>>),
                   Return(x)>>)>>)
(* A loop over a value of a type. *)
Loops(type, value, variable) ==
    Script(<<Main(<<
        With(Variable("x", value), type),
        With(For("i", x, <<Out(<<i>>)>>), variable), Return(x)>>)>>)

SureScripts ==
    {Declares(first, value, second, use) :
        first \in Given, value \in SureValues, second \in {"int", "Array", ":="}, use \in Uses(x)}
    \cup {Assigns(first, value, ":=", other, op) :
             first \in Given, value \in SureValues, other \in SureValues, op \in {"=", "+=", "-="}}
    \cup {Passes(parameter, default, returned, value, "f") :
             parameter \in Given \ {":="}, default \in Given \ {":="}, returned \in Given \ {":="},
             value \in SureValues}
UnsureScripts ==
    {Declares(first, value, second, use) :
        first \in {"int", "Array", ""}, value \in {Found(True), Found(Array(<<One>>))},
        second \in {"int", ""}, use \in Uses(x)}
    \cup {Assigns(first, value, "", other, op) :
             first \in Given \cup {""}, value \in SureValues,
             other \in {Two, Found(True), Found(Array(<<>>))}, op \in {"=", "+="}}
    \cup {Passes(parameter, default, returned, value, "self") :
             parameter \in {"int", ""}, default \in {"bool", "Array", ""}, returned \in {"float", "Array", ""},
             value \in SureValues}
    \cup {Loops(type, value, variable) :
             type \in Given \cup {""}, value \in SureValues, variable \in {"int", "bool", "Array", ""}}

(* Types of methods, members, elements and results, of constants and of
   what functions give that say nothing, or say that they give nothing. *)
Stated(type, name, value) == With(Variable(name, value), type)
TypedUses == {
    <<Stated(":=", "a", Array(<<One>>)), Of(a, "append", <<Two>>), Stated(":=", "b", Of(a, "size", <<>>)),
      Out(<<Binary(b, "+", One), Of(a, "has", <<b>>), Of(a, "has", <<Three>>)>>)>>,
    <<Stated(":=", "a", Vector2(One, True)), Set(Attribute(a, "x"), "=", Two), Set(Attribute(a, "y"), "+=", x),
      Stated("int", "b", Attribute(a, "x")), Out(<<a, b, Binary(a, "-", a), Unary("-", a)>>)>>,
    <<Stated(":=", "a", Array(<<Vector2(One, One)>>)), Set(Attribute(Subscript(a, Zero), "x"), "=", x),
      Stated("int", "b", Subscript(a, Zero)), Out(<<b>>)>>,
    <<Stated(":=", "a", Dictionary(<<Pair(One, Two)>>)), Set(Subscript(a, Two), "=", x),
      Out(<<a, Of(a, "has", <<Two>>), Of(a, "size", <<>>), Subscript(a, Two), x>>)>>,
    <<Stated("Dictionary", "a", Null), Stated("Vector2", "b", Null), Stated("bool", "c", Null), Stated("Array", "i", Null),
      Out(<<a, b, c, i, Call("bool", <<>>), Call("Array", <<i>>), Call("Vector2", <<b>>)>>)>>,
    <<Constant("a", Binary(One, "+", Two)), With(Constant("b", Literal("-1")), "float"), With(Constant("c", True), "int"),
      Out(<<a, b, c, Binary(a, "*", b), Is(b, "float"), Is(c, "int"), Ternary(a, c, b)>>),
      Stated(":=", "i", Binary(b, "+", c)), Out(<<i>>)>>,
    <<Stated("Array", "a", Call("f", <<x>>)), Stated("bool", "b", Call("f", <<One>>)), Out(<<a, b>>)>>,
    <<Stated("int", "a", Call("f", <<One>>)), Out(<<a, x>>)>>,
    <<Call("g", <<x>>), Stated("bool", "a", Binary(Call("f", <<x>>), "==", Array(<<x>>))), Out(<<a>>)>>,
    <<Out(<<Call("g", <<x>>)>>)>>,
    <<For("i", Two, <<Stated("bool", "a", i), Stated(":=", "b", Binary(i, "<", x)), Out(<<a, b>>)>>)>>,
    <<With(For("i", Call("range", <<One, x>>), <<Out(<<i>>)>>), "float")>>,
    <<Stated("Vector2", "a", Vector2(Literal("-1"), Two)), With(For("i", a, <<Out(<<i>>)>>), "int"),
      For("i", Vector2(Two, One), <<Out(<<i>>)>>), For("i", Array(<<a, Dictionary(<<>>)>>), <<For("y", i, <<Out(<<y>>)>>)>>)>>,
    <<Stated("Dictionary", "a", Dictionary(<<Pair(One, Two)>>)),
      For("i", a, <<If(Binary(i, "<", Three), <<Set(Subscript(a, Binary(i, "+", One)), "=", i)>>), Out(<<i, a>>)>>),
      For("i", Dictionary(<<>>), <<Out(<<i>>)>>)>>,
    <<Stated("int", "b", Two), For("i", b, <<Set(b, "=", Zero), Out(<<i>>)>>), For("i", b, <<Out(<<i>>)>>),
      For("i", Call("float", <<x>>), <<Set(i, "+=", b), Out(<<i>>), Set(i, "=", x)>>), For("i", Unary("-", x), <<Out(<<i>>)>>)>>,
    <<Stated(":=", "a", Zero), While(Binary(a, "<", x), <<Set(a, "+=", True), Set(a, "=", Call("float", <<a>>)), Out(<<a>>)>>)>>,
    <<Stated(":=", "a", One), Match(a, <<Branch(<<Bind("b")>>, Binary(b, "==", x), <<Return(One)>>),
                                         Branch(<<Bind("b")>>, Null, <<Stated("float", "c", b), Out(<<c>>)>>)>>)>>,
    <<Stated("int", "a", Is(x, "int")), IfElse(a, <<Stated("bool", "b", Null), Out(<<b>>)>>, <<Stated("int", "b", Null), Out(<<b>>)>>)>> }
TypedScripts == {
    Script(<<
        F(<<Par("a")>>, <<IfElse(Binary(a, "==", One), <<Return(True)>>, <<Return(Array(<<a>>))>>)>>),
        Returns(G(<<With(Par("b"), "int")>>, <<If(b, <<Return(Null)>>), Return(Out(<<b>>))>>), "void"),
        Main(<<Variable("x", Two)>> \o use)>>) : use \in TypedUses}

(***************************************************************************)
(* Scripts with variables of their own.                                    *)
(***************************************************************************)
Own(name) == Attribute(Plain("self"), name)
StaticIf(n, static) == WithStatic(n, static)
(* A variable got and set as it is, through accessors in a block below it, *)
(* or through functions that have other things to do.                      *)
Accesses == {"direct", "inline", "setter", "getter", "named"}
Accessed(n, how) ==
    LET v == Identifier(n.name)
        setter == Setter("a", <<Out(<<a, v>>), Set(v, "=", a)>>)
        getter == Getter(<<Return(v)>>)
        named == <<StaticIf(F(<<[Par("b") EXCEPT !.specifier = n.specifier]>>, <<Out(<<b>>), Set(v, "=", b)>>), n.static),
                   StaticIf(G(<<>>, <<Return(v)>>), n.static)>>
    IN  CASE how = "direct" -> <<n>>
          [] how = "inline" -> <<Property(n, setter, getter)>>
          [] how = "setter" -> <<Property(n, setter, Null)>>
          [] how = "getter" -> <<Property(n, Null, getter)>>
          [] how = "named" -> <<Setget(n, Identifier("f"), Identifier("g"))>> \o named

(* Used by its name, by self, and from another function. *)
FieldUses == {
    <<Set(x, "=", Three), Out(<<x>>), Set(x, "+=", One), Variable("y", x), Set(x, "-=", y), Out(<<x, y>>)>>,
    <<Set(Own("x"), "=", True), Out(<<Own("x")>>), Set(Own("x"), "+=", Two), Out(<<Own("x"), x>>)>>,
    <<Call("has", <<Two>>), Out(<<x>>), Of(Plain("self"), "has", <<Own("x")>>), Return(x)>> }
Fields(type, value, how, static, use) ==
    Script(Accessed(StaticIf(With(Variable("x", value), type), static), how)
           \o <<StaticIf(Function("has", <<Par("b")>>, <<Set(x, "=", b), Out(<<b, x>>)>>), static), Main(use)>>)
FieldScripts ==
    {Fields(type, Two, how, static, use) :
        type \in {"", "float"}, how \in Accesses, static \in BOOLEAN, use \in FieldUses}

(* A part of a variable is set, of a value that is copied or shared. *)
PartUses == {
    <<Set(Attribute(x, "y"), "=", Three), Set(Attribute(x, "x"), "+=", One), Variable("y", x),
      Set(Attribute(y, "x"), "=", Zero), Out(<<x, y>>)>>,
    <<Set(Attribute(Own("x"), "y"), "=", Three), Set(Attribute(Own("x"), "y"), "-=", One), Out(<<x>>)>>,
    <<Variable("y", Array(<<x>>)), Set(Attribute(Subscript(y, Zero), "x"), "=", Zero), Out(<<y, x>>),
      Set(x, "=", Subscript(y, Zero)), Return(x)>> }
SharedUses == {
    <<Set(Subscript(x, Zero), "=", Three), Set(Subscript(Own("x"), Zero), "+=", One), Out(<<x>>)>>,
    <<Set(x, "=", Array(<<Vector2(One, One)>>)), Set(Attribute(Subscript(x, Zero), "y"), "=", Two), Out(<<x>>),
      Set(Attribute(Subscript(Own("x"), Zero), "x"), "+=", Two), Out(<<Own("x")>>)>> }
PartScripts ==
    {Fields(type, Vector2(One, Two), how, static, use) :
        type \in {"", "Vector2"}, how \in Accesses, static \in BOOLEAN, use \in PartUses}
    \cup {Fields(type, Array(<<Two>>), how, static, use) :
        type \in {"", "Array"}, how \in {"direct", "inline", "named"}, static \in BOOLEAN, use \in SharedUses}

(* The order of initializers, of _init and _static_init, and what a name
   stands for that is asked for before its turn. *)
Creates == Function("_init", <<>>, <<Set(x, "+=", One), Out(<<x, y>>)>>)
StaticInit == Static(Function("_static_init", <<>>, <<Set(c, "=", Binary(c, "+", Two)), Out(<<c>>)>>))
MemberUses == {
    <<Variable("x", One), Variable("y", Binary(x, "+", Two)), Creates>>,
    <<Variable("y", x), Variable("x", Two), Creates>>,
    <<Stated("int", "y", x), Stated("float", "x", Two), Creates>>,
    <<Stated("Array", "x", Null), Variable("y", Array(<<x, x>>)), Main(<<Of(x, "append", <<One>>), Out(<<x, y>>)>>)>>,
    <<Stated("int", "a", Null), Variable("x", Binary(Two, "/", a)), Variable("y", One), Main(<<Out(<<x, y>>)>>)>>,
    <<Static(Variable("c", One)), Static(Stated("int", "b", Call("f", <<c>>))), StaticInit,
      Static(F(<<Par("a")>>, <<Out(<<a, b>>), Return(Binary(a, "+", c))>>)),
      Variable("x", Call("f", <<b>>)), Main(<<Out(<<b, c, x, Call("f", <<Two>>)>>)>>)>>,
    <<Static(Stated("Vector2", "c", Null)), Static(Stated("Array", "i", Null)), Static(Variable("a", Binary(i, "+", One))),
      Static(Variable("b", Two)), StaticInit, Main(<<Out(<<c, i, a, b>>)>>)>>,
    <<Constant("a", Binary(b, "+", One)), Constant("b", Two), Stated("int", "x", a), Main(<<Out(<<x, a, Own("a"), Own("b")>>)>>)>>,
    Values(<<<<"a", Two>>, <<"b", Null>>, <<"c", Binary(b, "*", b)>>, <<"i", Null>>>>)
    \o <<Constant("x", Binary(i, "+", One)), Stated("float", "y", b), Main(<<Out(<<a, b, c, i, x, y, Own("c")>>)>>)>>,
    <<Variable("x", Call("f", <<>>)), F(<<>>, <<Set(y, "=", Array(<<y>>)), Return(Two)>>), Variable("y", One), Creates>>,
    <<Stated("int", "x", Null), F(<<Parameter("a", x), Parameter("b", Call("g", <<>>))>>, <<Return(Array(<<a, b>>))>>),
      G(<<>>, <<Set(x, "+=", One), Return(x)>>), Main(<<Out(<<Call("f", <<>>), Call("f", <<Three>>), x>>)>>)>>,
    <<Variable("x", One), F(<<Par("x")>>, <<Set(x, "=", Two), Out(<<x, Own("x")>>)>>),
      Main(<<Call("f", <<Zero>>), Set(x, "+=", Two), For("x", x, <<Set(x, "*=", Two), Out(<<x>>)>>), Return(Own("x"))>>)>>,
    <<Variable("x", Two), Main(<<Out(<<Own("y")>>), Return(x)>>)>>,
    <<Variable("x", Two), Main(<<Variable("a", Plain("self")), Set(Attribute(a, "x"), "+=", One),
                                 Set(Attribute(a, "y"), "=", x), Return(Attribute(a, "x"))>>)>> }
HasMain(members) == \E j \in DOMAIN members : members[j].name = "main"
MemberScripts == {Script(IF HasMain(use) THEN use ELSE Append(use, Main(<<Out(<<x, y>>)>>))) : use \in MemberUses}

(* Asked for by what it is made of. *)
CircularUses == {
    <<Variable("x", y), Variable("y", x)>>,
    <<Constant("a", Binary(b, "+", One)), Constant("b", a)>>,
    <<Variable("x", Call("f", <<>>)), F(<<Parameter("a", x)>>, <<Return(a)>>)>>,
    Values(<<<<"a", b>>, <<"b", Null>>>>) }
CircularScripts == {Script(Append(use, Main(<<Return(Null)>>))) : use \in CircularUses}

(* Values of types through members and their accessors. *)
Holders(type, value, how, static, other) ==
    Script(Accessed(StaticIf(With(Variable("x", value), type), static), how)
           \o <<With(Variable("y", x), other),
                Main(<<Set(x, "=", y), Out(<<x, y>>), Set(y, "=", x), Out(<<Own("y")>>), Set(Own("x"), "=", y)>>)>>)
SureHolders ==
    {Holders(type, value, how, static, other) :
        type \in Given \ {":="}, value \in SureValues, how \in {"direct", "inline"}, static \in BOOLEAN,
        other \in {"int", "Array"}}
UnsureHolders ==
    {Holders(type, Found(value), how, FALSE, other) :
        type \in {"", "int", "Array"}, value \in SureValues, how \in {"direct", "named"}, other \in {"", "int"}}

(* By self in its own accessor, where that is meant to be called.          *)
OwnAccessors ==
    {Script(<<Property(Variable("x", One), Setter("a", set), Getter(get)), Main(<<Set(x, "=", Two), Return(x)>>)>>) :
        set \in {<<Set(Own("x"), "=", a)>>, <<If(a, <<Set(Own("x"), "+=", One)>>)>>},
        get \in {<<Return(x)>>, <<Return(Binary(Own("x"), "+", One))>>}}
    \cup {Script(<<Setget(Variable("x", One), Identifier("f"), Identifier("g")), F(<<Par("a")>>, <<Set(x, "=", a)>>),
                  G(<<>>, <<Return(Own("x"))>>), Main(<<Set(Own("x"), "=", Two), Return(x)>>)>>)}

(***************************************************************************)
(* Scripts with lambdas: what they take with them, what they keep of it    *)
(* from call to call, how they are called, and whether the instance is     *)
(* with them.                                                              *)
(***************************************************************************)
Run1(lambda, arguments) == Of(lambda, "call", arguments)
Let(name, parameters, statements) == Variable(name, Lambda(parameters, statements))
CaptureUses == {
    <<Let("c", <<Par("i")>>, <<Set(a, "+=", i), Return(Array(<<a, b, i>>))>>), Set(a, "=", Three),
      Out(<<Run1(c, <<One>>), Run1(c, <<Two>>), a>>)>>,
    <<Variable("y", Array(<<a>>)), Let("c", <<>>, <<Of(y, "append", <<One>>), Set(y, "=", Zero), Return(y)>>),
      Out(<<Run1(c, <<>>), y, Run1(c, <<>>)>>), Set(y, "=", Two), Out(<<Run1(c, <<>>), y>>)>>,
    <<Variable("y", Array(<<>>)), For("i", Two, <<Let("c", <<>>, <<Return(Binary(i, "+", b))>>), Of(y, "append", <<c>>)>>),
      For("i", y, <<Out(<<Run1(i, <<>>)>>)>>)>>,
    <<Let("c", <<Par("x")>>, <<Let("y", <<Par("i")>>, <<Return(Array(<<a, x, i>>))>>), Set(x, "=", Zero), Return(y)>>),
      Variable("y", Run1(c, <<One>>)), Set(a, "=", b), Out(<<Run1(y, <<Two>>), Run1(Run1(c, <<Three>>), <<b>>)>>)>>,
    <<Let("c", <<>>, <<If(a, <<Let("i", <<>>, <<Set(b, "=", a), Return(Array(<<b>>))>>), Return(Run1(i, <<>>))>>), Return(b)>>),
      Out(<<Run1(c, <<>>), b>>)>>,
    <<Let("c", <<Par("x"), Parameter("y", Binary(b, "+", x)), Parameter("i", Array(<<y>>))>>, <<Return(Array(<<x, y, i>>))>>),
      Out(<<Run1(c, <<a>>), Run1(c, <<a, One>>), Run1(c, <<a, One, Two>>)>>), Run1(c, <<>>)>>,
    <<Let("c", <<Par("x")>>, <<Out(<<x>>)>>), Run1(c, <<a>>), Run1(c, <<a, b>>)>>,
    <<Stated("int", "x", True), Variable("c", [type |-> "lambda", function |-> Returns(Function("", <<Typed(Par("y"), "float")>>, <<Set(x, "+=", y), Return(x)>>), "bool")]),
      Out(<<Run1(c, <<Two>>), Call("typeof", <<Run1(c, <<b>>)>>), Run1(c, <<Array(<<b>>)>>)>>)>>,
    <<Let("c", <<>>, <<Out(<<a>>), Return(Binary(One, "/", b))>>), Out(<<Run1(c, <<>>), Run1(c, <<>>)>>)>>,
    <<Stated("Callable", "c", Null), Out(<<Call("typeof", <<c>>), Unary("not", c)>>), Out(<<Run1(c, <<>>)>>)>>,
    <<Stated("Callable", "c", Lambda(<<>>, <<Return(a)>>)), Stated("bool", "y", c), Out(<<y>>)>>,
    <<Let("c", <<>>, <<Return(a)>>), Variable("y", c), Out(<<Binary(c, "==", y), Call("typeof", <<c>>), Ternary(y, One, Zero)>>),
      Let("i", <<>>, <<Return(a)>>), Out(<<Binary(c, "==", i), Is(i, "Callable")>>), Out(<<Run1(a, <<>>)>>)>>,
    <<Match(Array(<<a, b>>), <<Branch(<<ArrayOf(<<Bind("x"), Bind("y")>>)>>, Null, <<
          Let("c", <<>>, <<Return(Array(<<y, x>>))>>), Set(x, "=", Zero), Return(Run1(c, <<>>))>>)>>)>>,
    <<Let("c", <<Par("i")>>, <<Return(Call("print", <<i>>))>>), Return(Array(<<c, Run1(c, <<b>>)>>))>> }
Deepest == Script(<<
    F(<<Par("a"), Par("b")>>, <<If(Binary(b, "==", Zero), <<Return(Run1(a, <<Zero>>))>>),
        Let("c", <<Par("i")>>, <<Return(Binary(Run1(a, <<i>>), "+", b))>>), Return(Call("f", <<c, Binary(b, "-", One)>>))>>),
    Main(<<Let("c", <<Par("i")>>, <<Return(i)>>), Out(<<Call("f", <<c, Zero>>), Call("f", <<c, One>>), Call("f", <<c, Two>>)>>)>>)>>)
CaptureScripts == {Fault(use) : use \in CaptureUses} \cup {Deepest}

(* The instance is named in one, in one within it, or in neither. *)
Selves == {x, Own("x"), Call("g", <<>>), Plain("self"), Zero, y}
SelfLambdas(self, how) ==
    CASE how = "plain" -> <<Let("c", <<>>, <<Return(self)>>)>>
      [] how = "within" -> <<Let("c", <<>>, <<Let("i", <<>>, <<Return(self)>>), Return(Run1(i, <<>>))>>)>>
      [] how = "around" -> <<Let("c", <<Par("a")>>, <<Let("i", <<>>, <<Return(a)>>), If(a, <<Return(self)>>), Return(Run1(i, <<>>))>>)>>
      [] how = "set" -> <<Let("c", <<Par("a")>>, <<Set(self, "=", a), Out(<<self>>)>>)>>
SelfScripts ==
    {Script(<<
        Variable("x", One), Static(Variable("y", Two)), Static(G(<<>>, <<Return(Three)>>)),
        StaticIf(Function("has", <<>>, SelfLambdas(self, how)
            \o <<Out(<<Run1(c, IF how \in {"around", "set"} THEN <<Three>> ELSE <<>>), Call("typeof", <<c>>)>>), Return(y)>>), static),
        Main(<<Out(<<Call("has", <<>>)>>), Return(x)>>)>>) :
        self \in Selves, static \in BOOLEAN, how \in {"plain", "within", "around"}}
    \cup {Script(<<
        Variable("x", One), Static(Variable("y", Two)),
        Main(SelfLambdas(self, "set") \o <<Run1(c, <<Three>>), Return(Array(<<x, y>>))>>)>>) : self \in {x, Own("x"), y, Own("y")}}
LambdaMembers == {
    Script(<<Property(Variable("x", One), Setter("a", <<Let("b", <<>>, <<Set(Own("x"), "=", a)>>), If(a, <<Run1(b, <<>>)>>), Set(x, "=", a)>>), Getter(<<Return(x)>>)),
             Main(<<Set(x, "=", Two), Out(<<x>>), Set(x, "=", Zero), Return(x)>>)>>),
    Script(<<Let("x", <<Par("a")>>, <<Return(Array(<<a>>))>>), Static(Let("y", <<>>, <<Return(c)>>)), Static(Variable("c", Run1(y, <<>>))),
             Variable("i", Run1(x, <<c>>)), Main(<<Set(c, "=", One), Out(<<Run1(x, <<Two>>), Run1(y, <<>>), c, i>>)>>)>>),
    Script(<<Variable("i", Run1(Found(Lambda(<<>>, <<Return(Run1(Found(Lambda(<<>>, <<Return(c)>>)), <<>>))>>)), <<>>)), Static(Variable("c", Two)), Main(<<Return(i)>>)>>),
    Script(<<Property(Variable("x", One), Setter("a", <<Let("b", <<>>, <<Return(a)>>), Set(x, "=", Run1(b, <<>>))>>),
                      Getter(<<Let("b", <<Par("a")>>, <<Return(a)>>), Return(Run1(b, <<x>>))>>)),
             Main(<<Set(x, "=", Two), Return(x)>>)>>),
    Script(<<Variable("x", Null), Function("_init", <<>>, <<Let("a", <<>>, <<Return(Two)>>), Set(x, "=", a), If(x, <<Return(Null)>>)>>),
             Main(<<Return(Run1(x, <<>>))>>)>>) }
(* What a lambda does with the instance: as in the test of it; a variable
   with accessors is used in one, or a part of it set; static code calls it. *)
UsesSelf ==
    Script(<<Variable("x", One), G(<<>>, <<Out(<<Two>>)>>), Main(<<
        Let("a", <<>>, <<Out(<<x>>)>>), Run1(a, <<>>),
        Let("b", <<>>, <<Let("c", <<>>, <<Out(<<x>>)>>), Run1(c, <<>>)>>), Run1(b, <<>>),
        Let("c", <<>>, <<Call("g", <<>>)>>), Run1(c, <<>>),
        Let("i", <<>>, <<Return(Plain("self"))>>), Out(<<Binary(Run1(i, <<>>), "==", Plain("self"))>>)>>)>>)
SelfUses == {UsesSelf}
    \cup {Script(Accessed(With(Static(Variable("y", Two)), "int"), "inline") \o Accessed(With(Variable("x", One), "int"), how)
               \o <<Main(<<Let("c", <<>>, <<Variable("i", y), Set(i, "=", x), Set(y, "=", i), Set(x, "=", Three)>>),
                           Run1(c, <<>>), Return(Array(<<x, y>>))>>)>>) : how \in Accesses}
    \cup {Script(Accessed(Variable("x", Vector2(One, Two)), how)
               \o <<Static(Function("has", <<Par("a")>>, <<Return(Run1(a, <<Three>>))>>)),
                     Main(<<Let("c", <<Par("b")>>, <<Set(Attribute(x, "y"), "=", b), Return(Own("x"))>>),
                           Out(<<Call("has", <<c>>)>>), Return(x)>>)>>) : how \in Accesses}
(* With self, or a value returned, where there is none. *)
Refusals == {
    Script(<<Function("_init", <<>>, <<If(One, <<Return(One)>>)>>), Main(<<Return(Null)>>)>>),
    Script(<<Static(Function("_static_init", <<>>, <<Return(Zero)>>)), Main(<<Return(Null)>>)>>),
    Script(<<Variable("x", Two), Static(F(<<Parameter("a", Own("x"))>>, <<Return(a)>>)), Main(<<Return(x)>>)>>),
    Script(<<Static(Property(Variable("x", One), Setter("a", <<Set(x, "=", a)>>), Getter(<<Return(Plain("self"))>>))), Main(<<Return(x)>>)>>),
    Script(<<Static(Property(Variable("x", One), Setter("a", <<Set(Own("x"), "=", a)>>), Getter(<<Return(x)>>))), Main(<<Return(x)>>)>>) }
LambdaScripts == CaptureScripts \cup SelfScripts \cup SelfUses \cup LambdaMembers \cup Refusals

(***************************************************************************)
(* Scripts that are only read.                                             *)
(***************************************************************************)
BinaryOperators ==   \* of each precedence, both of two that are in one
    {"or", "and", "in", "<", "==", "|", "^", "&", "<<", "+", "-", "*", "%", "**"}
UnaryOperators == {"not", "-", "~"}
Pairs1 ==
    {Binary(Binary(a, one, b), other, c) : one \in BinaryOperators, other \in BinaryOperators}
    \cup {Binary(a, one, Binary(b, other, c)) : one \in BinaryOperators, other \in BinaryOperators}
    \cup {Unary(one, Binary(a, other, b)) : one \in UnaryOperators, other \in BinaryOperators}
    \cup {Binary(Unary(one, a), other, b) : one \in UnaryOperators, other \in BinaryOperators}
    \cup {Binary(a, other, Unary(one, b)) : one \in UnaryOperators, other \in BinaryOperators}
    \cup {Unary(one, Unary(other, a)) : one \in UnaryOperators, other \in UnaryOperators}
Operands1 == {Unary("not", a), Binary(a, "or", b), Ternary(a, b, c), Cast(a, "int"), Is(a, "int"),
              Await(Call("f", <<a>>)), Subscript(a, b), Attribute(a, "x"), Literal("-1")}
Nested ==
    {Ternary(e, a, b) : e \in Operands1} \cup {Ternary(a, e, b) : e \in Operands1}
    \cup {Ternary(a, b, e) : e \in Operands1}
    \cup {Cast(e, "int") : e \in Operands1} \cup {Is(e, "int") : e \in Operands1}
    \cup {Await(e) : e \in Operands1} \cup {Subscript(e, e) : e \in Operands1}
    \cup {Attribute(e, "y") : e \in Operands1} \cup {Of(e, "f", <<e, e>>) : e \in Operands1}
    \cup {Binary(e, "-", e) : e \in Operands1} \cup {Unary("-", e) : e \in Operands1}
    \cup {Array(<<e, e>>) : e \in Operands1} \cup {Dictionary(<<Pair(e, e), Pair(a, e)>>) : e \in Operands1}

(* An expression as an initializer of a member. *)
Alone(e) == Script(<<Variable("x", e)>>)
In(statements) == Script(<<F(<<Par("a")>>, statements)>>)

Adder == Lambda(<<Par("b")>>, <<Return(Binary(a, "+", b))>>)
Chooser == Lambda(<<>>, <<If(a, <<Plain("pass")>>), Return(b)>>)
(* On one line a lambda would take the statements after it. *)
Lambdas == {
    In(<<Variable("x", Adder), Return(x)>>),
    In(<<Call("f", <<Chooser, Adder, a>>), Plain("pass")>>),
    In(<<Return(Array(<<a, Chooser>>))>>),
    In(<<Return(Dictionary(<<Pair(One, Chooser)>>))>>),
    In(<<For("i", a, <<Out(<<Adder>>), Plain("continue")>>)>>),
    In(<<Variable("x", Lambda(<<>>, <<For("i", a, <<If(i, <<Plain("break")>>)>>)>>)), Plain("pass")>>),
    In(<<Variable("x", Call("f", <<Lambda(<<>>, <<Return(Call("g", <<Adder>>))>>)>>)), Return(x)>>) }
Blocks == {
    In(<<If(a, <<IfElse(b, <<Plain("pass"), Plain("pass")>>, <<If(a, <<Return(Null)>>)>>)>>), Plain("pass")>>),
    In(<<IfElse(a, <<While(b, <<Plain("break")>>)>>, <<For("i", b, <<Plain("continue")>>)>>)>>),
    In(<<AssertThat(a), Plain("breakpoint"), Plain("pass")>>),
    In(<<Match(a, <<
        Branch(<<Value(One), Value(Literal("-1"))>>, Null, <<Plain("pass"), Return(Null)>>),
        Branch(<<ArrayOf(<<Bind("x"), Pattern("rest")>>)>>, Binary(x, "in", b), <<Plain("pass")>>)>>),
        Return(Null)>>),
    In(<<Call("f", <<Lambda(<<>>, <<Return(a)>>), Lambda(<<>>, <<Return(b)>>)>>), Return(a)>>),
    In(<<Constant("c", Two), Set(Subscript(Attribute(a, "x"), One), "+=", c), Set(a, "=", Await(b))>>),
    Script(<<Constant("c", One), F(<<>>, <<Plain("pass")>>),
             [Class("C") EXCEPT !.members = <<Variable("y", Null), G(<<Par("a")>>, <<Return(a)>>)>>],
             Variable("x", Adder)>>),
    Script(<<Typed(Variable("x", One), "int"), Typed(Variable("y", Null), "bool"),
             Typed(Constant("c", Two), "int"), Static(Inferred(Variable("b", Array(<<One>>)))),
             Static(Returns(F(<<Typed(Par("a"), "int"), Typed(Parameter("b", One), "int"),
                                Inferred(Parameter("c", True))>>, <<
                 Typed(Variable("i", Null), "int"), Inferred(Variable("x", Two)),
                 Inferred(Constant("y", Three)),
                 Typed(For("main", a, <<Plain("pass")>>), "int"),
                 Return(Lambda(<<Typed(Par("len"), "bool")>>, <<Plain("pass")>>))>>), "void"))>>),
    Script(Values(<<<<"a", Null>>, <<"b", Binary(One, "+", Two)>>>>) \o Values(<<<<"c", Null>>>>) \o
           <<Enum("C", <<<<"a", One>>>>),
             Signal("x", <<>>), Signal("y", <<Par("a"), Typed(Par("b"), "int")>>),
             F(<<>>, <<Plain("pass")>>)>>),
    Script(<<Property(Variable("x", One), Setter("a", <<Plain("pass")>>), Null),
             Static(Property(Typed(Variable("y", Null), "int"), Setter("b", <<If(b, <<Plain("pass")>>)>>),
                             Getter(<<Return(One)>>))),
             Property(Inferred(Variable("a", Two)), Null, Getter(<<Return(Adder)>>)),
             Setget(Variable("b", Null), Identifier("f"), Null),
             Setget(Typed(Variable("c", One), "int"), Identifier("f"), Identifier("g")),
             [Class("C") EXCEPT !.members = <<Setget(Variable("i", Null), Null, Identifier("g"))>>]>>) }

(* What is broken off in all places. *)
(* Paths of nodes, next to operators that would go on with them. *)
Paths == {
    NodeAt(<<"a">>), NodeAt(<<"/", "a", "/", "class">>), NodeAt(<<"%", "a", "/", "'s'">>),
    GetNode(TRUE, <<"%", "'t'", "/", "%", "b">>) }
WrongPaths == {
    GetNode(TRUE, <<"a", "%", "b">>), GetNode(TRUE, <<"a", "/", "/", "b">>), GetNode(TRUE, <<"/">>),
    GetNode(TRUE, <<"1">>), GetNode(TRUE, <<"a", "/", "1">>), NodeAt(<<"%", "%", "a">>),
    NodeAt(<<"%", "/", "a">>) }
PathUses(e) == {
    Alone(e), Alone(Binary(e, "%", e)), Alone(Binary(Binary(a, "*", e), "/", b)), Alone(Binary(Unary("-", e), "%", e)),
    Alone(Binary(a, "-", Binary(e, "/", Two))), Alone(Attribute(Subscript(e, e), "x")), Alone(Of(e, "f", <<e, a>>)),
    Alone(Await(Ternary(e, e, e))), Alone(Array(<<Cast(e, "int"), Preload(Literal("'s'")), e>>)),
    In(<<Set(Attribute(e, "y"), "=", e), Variable("x", Preload(Binary(Literal("'s'"), "+", a))), Return(e)>>) }

(* Annotations of a script, of its members and statements, and of what they
   cannot be for. *)
Str == Literal("'s'")
Named1 == [Script(<<Variable("x", One)>>) EXCEPT !.name = "C"]
About(annotations, class) == [about |-> annotations] @@ class
Mark(name) == Annotation(name, <<>>)
Group1 == Annotation("@export_group", <<Str, Str>>)
AnnotatedScripts == {
    About(<<Mark("@tool"), Annotation("@icon", <<Str>>), Mark("@static_unload")>>,
          At("@abstract", <<>>, [Named1 EXCEPT !.extends = <<"a", "b">>])),
    About(<<Mark("@tool")>>, Script(<<At("@abstract", <<>>, [Class("C") EXCEPT !.extends = <<"a">>, !.members =
        <<At("@export", <<>>, Variable("y", Null))>>]), At("@abstract", <<>>, F(<<>>, <<Plain("pass")>>))>>)),
    At("@abstract", <<>>, Script(<<>>)),
    At("@warning_ignore", <<Str>>, At("@abstract", <<>>, Named1)),
    Script(<<Group1, At("@export_range", <<One, Binary(One, "+", Two), Str>>, Variable("x", One)), Group1,
             At("@onready", <<>>, At("@export", <<>>, Static(Typed(Variable("y", NodeAt(<<"a">>)), "int"))))>>),
    Script(<<At("@warning_ignore", <<Str, Str>>, Constant("c", One)),
             At("@warning_ignore", <<Str>>, Signal("x", <<>>)),
             At("@rpc", <<Str>>, At("@warning_ignore", <<Str>>, Static(F(<<>>, <<Plain("pass")>>))))>>),
    In(<<At("@warning_ignore", <<Str>>, Variable("x", One)), Str,
         If(a, <<At("@warning_ignore", <<Array(<<Str>>)>>, Set(x, "=", Two)), Plain("pass")>>),
         At("@warning_ignore", <<Str>>, Return(Lambda(<<>>, <<At("@warning_ignore", <<Str>>, Return(a))>>)))>>) }
WronglyAnnotated == {
    Script(<<At("@export", <<>>, Constant("c", One))>>), Script(<<At("@onready", <<>>, F(<<>>, <<Plain("pass")>>))>>),
    Script(<<Variable("x", One), At("@tool", <<>>, Variable("y", One))>>), Script(<<At("@rpc", <<>>, Variable("y", One))>>),
    Script(<<At("@abstract", <<>>, Signal("x", <<>>))>>), Script(<<At("@none", <<>>, Variable("y", One))>>),
    Script(<<At("@export_range", <<One>>, Variable("y", One))>>), Script(<<At("@onready", <<One>>, Variable("y", One))>>),
    Script(<<At("@warning_ignore", <<>>, Variable("y", One))>>),
    Script(<<At("@warning_ignore", <<Str>>, Enum("C", <<<<"a", Null>>>>))>>),
    Script(<<At("@export", <<>>, At("@rpc", <<>>, Variable("y", One)))>>),
    Script(<<At("@rpc", <<>>, At("@export", <<>>, Variable("y", One)))>>),
    Script(<<Mark("@export_group"), Variable("y", One)>>),
    In(<<At("@export", <<>>, Variable("x", One))>>), In(<<At("@tool", <<>>, Return(a))>>),
    About(<<Mark("@tool"), Mark("@tool")>>, Named1), About(<<Annotation("@icon", <<One>>)>>, Named1),
    About(<<Annotation("@icon", <<Str, Str>>)>>, Named1), At("@abstract", <<>>, At("@abstract", <<>>, Named1)),
    At("@abstract", <<>>, Script(<<Variable("x", One)>>)) }
WrongScripts == WronglyAnnotated \cup {Alone(e) : e \in WrongPaths} \cup {Alone(Preload(Null))}

Fragments == {
    Script(<<Group1, [Class("C") EXCEPT !.members = <<At("@export_range", <<One, NodeAt(<<"%", "a", "/", "b">>)>>,
             Variable("y", Null))>>], At("@rpc", <<>>, F(<<>>, <<At("@warning_ignore", <<Str>>, Return(Preload(Str)))>>))>>),
    In(<<For("i", a, <<If(Binary(i, "<", b), <<Plain("continue")>>), Out(<<i>>)>>)>>),
    In(<<Variable("x", Call("f", <<Lambda(<<>>, <<Plain("pass")>>), Array(<<a>>)>>)), Return(x)>>),
    In(<<Match(a, <<Branch(<<ArrayOf(<<Bind("x"), Pattern("rest")>>), Value(One)>>, b, <<Plain("pass")>>)>>)>>),
    Script(<<[Class("C") EXCEPT !.members = <<Variable("y", Subscript(a, One))>>],
             F(<<Parameter("a", Ternary(b, c, One))>>, <<Set(a, "=", Cast(b, "int")), Plain("pass")>>)>>),
    Script(<<Property(Typed(Variable("x", One), "int"), Setter("a", <<Plain("pass")>>), Getter(<<Return(One)>>)),
             Static(Setget(Inferred(Variable("y", One)), Identifier("f"), Identifier("g")))>>),
    Script(Values(<<<<"a", One>>, <<"b", Null>>>>) \o
           <<Enum("C", <<<<"a", Two>>>>), Signal("x", <<Typed(Par("a"), "int"), Par("b")>>),
             Static(Returns(F(<<Typed(Par("a"), "int")>>, <<Return(a)>>), "int"))>>) }
=====
