SPECIFICATION GenerationSpec
CONSTANTS
    Tokens <- MixedTokens
    Stops <- MixedStops
    Eos = Eos
    MaxTokens = 5
    None = None
    Answers <- ToolAnswers
    Parsers <- ToolParsers
    StringKeys = {"s"}
    KnownTools = {"get"}
CHECK_DEADLOCK FALSE
INVARIANTS
    TextExact
    NoStateLeft
    
