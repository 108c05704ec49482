SPECIFICATION Spec
CONSTANTS
    SuffixTags <- MCSuffixTags
    Sites <- MCSites
    FieldInputs <- MCFieldInputs
    FieldProgram <- MCFieldProgram
    NameInputs <- MCNameInputs
    NameProgram <- MCNameProgram
    Overloads <- MCOverloads
    CallSites <- MCCallSites
    CallLists <- MCCallLists
    RootFunction = "f"
    Settings <- MCSettings
    Searches <- MCSearches
    SearchedNames <- MCSearchedNames
    Words = {"int", "f", "g", "x"}
    HardWords = {"int"}
    HeaderSpan = 2
    Texts <- MCTexts
    SourceInputs <- MCSourceInputs
    SourceText <- MCSourceText
    CallTexts <- MCCallTexts
    Paths <- MCPaths
    Patterns <- MCPatterns
    FormsIn <- MCFormsIn
    Matches <- MCMatches
    ShadowFile = "b"
    UseKinds = {"local", "global", "cast", "call", "init", "tail", "grep"}
    Pairs = TRUE
INVARIANT CyclesTerminate
CHECK_DEADLOCK FALSE
