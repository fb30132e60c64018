SPECIFICATION MCFairSpec
CONSTANTS
    p1 = p1
    p2 = p2
    p3 = p3
    Nil = Nil
    Prompts <- TwoPrompts
    BackgroundTokens = 2
    BlockingTokens = 4
    KeepRecent = 1
    Overhead = 0
    Native = TRUE
    HasCompactor = TRUE
    Policy = TRUE
    CompactorDoes = {"summary", "error"}
    MaxTurns = 1
    MaxAttempts = 1
    Tools = 1
    ToolsHang = FALSE
    UsageSkews = {0}
    Kinds = {"run"}
    Controls = {"abort"}
    MaxControls = 1
PROPERTIES
    CallAnswered
    WorkerEnds
    WaiterReleased
CHECK_DEADLOCK FALSE
