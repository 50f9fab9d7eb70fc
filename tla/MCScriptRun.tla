------------------------------ MODULE MCScriptRun ------------------------------
(***************************************************************************)
(* The stages of RuztaScriptRun and what is put through them.              *)
(***************************************************************************)
EXTENDS RuztaScriptRun, RuztaScripts, RuztaPrintedTrees

A == INSTANCE RuztaAnalyzer
C == INSTANCE RuztaCompiler
M == INSTANCE RuztaScriptMeaning

Case(script, layout, cut, entry) ==
    [script |-> script, layout |-> layout, cut |-> cut, entry |-> entry, typed |-> "no"]
Typed1(scripts, typed) == {[Case(script, "plain", 0, "main") EXCEPT !.typed = typed] : script \in scripts}

Read1(scripts, layouts) == {Case(script, layout, 0, "") : script \in scripts, layout \in layouts}
MCCases ==
    {Case(script, "plain", 0, "main") : script \in RunScripts \cup TypedScripts \cup FieldScripts \cup PartScripts \cup MemberScripts \cup CircularScripts \cup LambdaScripts}
    \cup Typed1(SureScripts \cup SureHolders, "fully") \cup Typed1(UnsureScripts \cup UnsureHolders \cup OwnAccessors, "partly")
    \cup Read1({Alone(e) : e \in Pairs1}, {"plain"})
    \cup Read1({Alone(e) : e \in Nested}, {"plain", "joined", "wrapped"})
    \cup Read1(Lambdas, Layouts \ {"terse"})
    \cup Read1(Blocks, Layouts)
    \cup Read1(UNION {PathUses(e) : e \in Paths}, {"plain", "joined", "wrapped", "airy"})
    \cup Read1(AnnotatedScripts, Layouts)
    \cup Read1(WrongScripts, {"plain"})
    \cup UNION {{Case(script, "plain", cut, "") : cut \in 1..Len(Source(script, "plain"))} :
                   script \in Fragments}

(* What only other programs are compiled to. *)
Called(op, count) ==
    [op |-> op, arguments |-> SubSeq(<<"a", "b", "c", "d">>, 1, count), base |-> "o", target |-> "t",
     function_name |-> "f", type |-> "y"]
TypedOf(op) ==
    [op |-> op, target |-> "t", source |-> "s", value |-> "v", type |-> "y", script_type |-> "script",
     builtin_type |-> "builtin", native_type |-> "native", key_script_type |-> "k1",
     key_builtin_type |-> "k2", key_native_type |-> "k3", value_script_type |-> "v1",
     value_builtin_type |-> "v2", value_native_type |-> "v3", arguments |-> <<"a", "b">>]
CalledOps ==
    <<"CALL_ASYNC", "CALL_METHOD_BIND", "CALL_METHOD_BIND_RET", "CALL_BUILTIN_STATIC",
      "CALL_NATIVE_STATIC", "CALL_NATIVE_STATIC_VALIDATED_RETURN",
      "CALL_NATIVE_STATIC_VALIDATED_NO_RETURN", "CALL_METHOD_BIND_VALIDATED_RETURN",
      "CALL_METHOD_BIND_VALIDATED_NO_RETURN", "CALL_UTILITY_VALIDATED", "CALL_BUILTIN_TYPE_VALIDATED", "CALL_SELF_BASE">>
TypedOps ==
    <<"TYPE_TEST_ARRAY", "TYPE_TEST_DICTIONARY", "TYPE_TEST_NATIVE", "TYPE_TEST_SCRIPT",
      "ASSIGN_TYPED_ARRAY", "ASSIGN_TYPED_DICTIONARY", "ASSIGN_TYPED_NATIVE",
      "ASSIGN_TYPED_SCRIPT", "CAST_TO_NATIVE", "CAST_TO_SCRIPT", "CONSTRUCT_TYPED_ARRAY",
      "CONSTRUCT_TYPED_DICTIONARY", "RETURN_TYPED_ARRAY", "RETURN_TYPED_DICTIONARY",
      "RETURN_TYPED_NATIVE", "RETURN_TYPED_SCRIPT">>
MCOtherCode ==
    FlattenSeq([n \in DOMAIN CalledOps |->
        <<Called(CalledOps[n], 0), Called(CalledOps[n], 1), Called(CalledOps[n], 3)>>])
    \o [n \in DOMAIN TypedOps |-> TypedOf(TypedOps[n])]
    \o <<[op |-> "SET_INDEXED_VALIDATED", target |-> "t", index |-> "i", source |-> "s"],
         [op |-> "SET_MEMBER", value |-> "v", name |-> "n"], [op |-> "GET_MEMBER", target |-> "t", name |-> "n"],
         [op |-> "AWAIT", operand |-> "o"], [op |-> "AWAIT_RESUME", target |-> "t"],
         [op |-> "STORE_GLOBAL", target |-> "t", at |-> 1],
         [op |-> "STORE_NAMED_GLOBAL", target |-> "t", name |-> "n"],
         [op |-> "BREAKPOINT"], [op |-> "END"]>>

MCSelfCases == {Case(UsesSelf, "plain", 0, "main")}
MCElifCases == {Case(script, "plain", 0, "main") : script \in ElifInLoop}

MCWrite(for) ==
    LET source == Source(for.script, for.layout)
    IN  SubSeq(source, 1, for.cut - 1) \o SubSeq(source, for.cut + 1, Len(source))
(* With self in what is static, or a value from a constructor. *)
Refused(script) ==
    LET Inside(n) == Nodes(n) \ UNION {Nodes(lambda.function) : lambda \in {l \in Nodes(n) : l.type = "lambda"}}
    IN  \E n \in Nodes(script) :
            /\ n.type = "function"
            /\ \/ n.static /\ \E e \in Nodes(n) : e.type = "self"
               \/ /\ n.name \in {"_init", "_static_init"}
                  /\ \E r \in Inside(n) : IF r.type = "return" THEN r.return_value # Null ELSE FALSE
MCReference(for) ==
    LET does == IF for.entry = "" THEN [result |-> Nil, log |-> <<>>]
                ELSE M!Meaning(for.script, for.entry, MAX_CALL_DEPTH)
    IN  [written |-> Source(for.script, "bracketed"), refused |-> for.script \in WrongScripts \/ Refused(for.script), said |-> SaidBy(for.script),
         result |-> does.result, log |-> does.log]

Outcome(r) ==
    [ok |-> r.p.errors = 0, tree |-> r.n,
     written |-> IF r.p.errors = 0 THEN Source(r.n, "bracketed") ELSE <<>>,
     past_end |-> r.p.past_end,
     left |-> Len(r.p.multiline_stack) + Len(r.p.tk.indent_stack_stack)]
(* The tree is also printed. *)
MCParse(source) ==
    LET r == parse(source)
        ok == r.p.errors = 0
    IN  [said |-> IF ok THEN SaidOf(r.n) ELSE <<>>, shown |-> ok => AllShownRight(r.n)] @@ Outcome(r)
MCParseExported(source) == LET r == parse_binary(parse_code_string(source)) IN Outcome(r)
MCAnalyze(class) == LET r == A!analyze(class) IN r
MCCompile(class) == LET functions == C!compile(class) IN functions
=============================================================================
