SPECIFICATION MCSpec
CONSTANTS
    p1 = p1
    p2 = p2
    p3 = p3
    Nil = Nil
    Prompts <- TwoPrompts
    BackgroundTokens = 3
    BlockingTokens = 5
    KeepRecent = 2
    Overhead = 0
    Native = TRUE
    HasCompactor = TRUE
    Policy = TRUE
    CompactorDoes = {"summary", "error"}
    MaxTurns = 2
    MaxAttempts = 1
    Tools = 2
    ToolsHang = TRUE
    UsageSkews = {0}
    Kinds = {"run"}
    Controls = {"abort", "clear", "compact"}
    MaxControls = 2
SYMMETRY PromptSymmetry
INVARIANTS
    TypeOK
    HistoryIntact
    ActivePromptKept
    WaiterHasTask
PROPERTIES
    DiscardedStaysDiscarded
CHECK_DEADLOCK FALSE
