SPECIFICATION Spec
CONSTANTS
    Names = {"C", "main", "f", "g", "a", "b", "c", "i", "x", "y", "print", "typeof", "len", "range", "Vector2", "append", "size", "int", "bool"}
    Numbers = {"0", "1", "2", "3"}
    Strings = {"'s'", "'t'"}
    AtWords = {"@tool", "@static_unload", "@icon", "@abstract", "@onready", "@export", "@export_range", "@export_group", "@warning_ignore", "@rpc", "@none"}
    TabSize = 4
    MAX_CALL_DEPTH = 4
    Cases <- MCElifCases
    Write <- MCWrite
    Reference <- MCReference
    Parse <- MCParse
    ParseExported <- MCParseExported
    Analyze <- MCAnalyze
    Compile <- MCCompile
    OtherCode <- MCOtherCode
INVARIANT FreshOnEachIteration
