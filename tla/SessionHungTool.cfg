SPECIFICATION FairSpec
CONSTANTS
    p1 = p1
    p2 = p2
    p3 = p3
    Nil = Nil
    Prompts <- TwoPrompts
    BackgroundTokens = 8
    BlockingTokens = 9
    KeepRecent = 1
    Overhead = 0
    Native = TRUE
    HasCompactor = FALSE
    Policy = FALSE
    CompactorDoes = {}
    MaxTurns = 1
    MaxAttempts = 1
    Tools = 1
    ToolsHang = TRUE
    UsageSkews = {0}
    Kinds = {"run"}
    Controls = {}
    MaxControls = 1
PROPERTIES
    HungToolEndsTurn
CHECK_DEADLOCK FALSE
