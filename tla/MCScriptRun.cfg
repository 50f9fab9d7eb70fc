SPECIFICATION Spec
CONSTANTS
    Names = {"C", "main", "f", "g", "a", "b", "c", "i", "x", "y", "print", "typeof", "len", "range", "Vector2", "append", "size", "int", "bool", "get", "set", "float", "Array", "Dictionary", "void", "has", "_init", "_static_init", "call", "Callable"}
    Numbers = {"0", "1", "2", "3"}
    Strings = {"'s'", "'t'"}
    AtWords = {"@tool", "@static_unload", "@icon", "@abstract", "@onready", "@export", "@export_range", "@export_group", "@warning_ignore", "@rpc", "@none"}
    TabSize = 4
    MAX_CALL_DEPTH = 4
    Cases <- MCCases
    Write <- MCWrite
    Reference <- MCReference
    Parse <- MCParse
    ParseExported <- MCParseExported
    Analyze <- MCAnalyze
    Compile <- MCCompile
    OtherCode <- MCOtherCode
INVARIANTS FramesOK TreeOfSource PrintTellsTree BinaryLikeText LayoutBalanced CodeSound ListingTrue TypedOperands ResultRight WellTyped RefusedWouldFail InstanceThere
PROPERTIES Terminates SettersGuard
