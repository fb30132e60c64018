SPECIFICATION MCSpec
CONSTANTS
    p1 = p1
    p2 = p2
    p3 = p3
    Nil = Nil
    Prompts <- TwoPrompts
    BackgroundTokens = 8
    BlockingTokens = 9
    KeepRecent = 1
    Overhead = 0
    Native = TRUE
    HasCompactor = TRUE
    Policy = FALSE
    CompactorDoes = {"summary"}
    MaxTurns = 1
    MaxAttempts = 2
    Tools = 2
    ToolsHang = FALSE
    UsageSkews = {0}
    Kinds = {"run", "stream"}
    Controls = {"abort", "clear", "compact", "follow_up", "leave", "stop"}
    MaxControls = 1
SYMMETRY PromptSymmetry
INVARIANTS
    CallerHasTurn
    StreamClosedOnce
    AnsweredTurnKept
    ClearedStaysCleared
PROPERTIES
    ImplementsTurnService
    NoLateAdmission
    AbortedTurnFrozen
CHECK_DEADLOCK FALSE
