SPECIFICATION FairSpec
CONSTANTS
    CallIds = {a, b}
    MaxIterations = 3
    MaxBatch = 2
    MaxPrompts = 2
    None = None
INVARIANTS TranscriptSound RepliesBounded
PROPERTIES TurnEnds
