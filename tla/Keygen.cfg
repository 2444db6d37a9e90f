SPECIFICATION KeygenSpec
CONSTANTS
    small = small
    NoTag = NoTag
    Tags = {small}
    Intents <- MCIntents
    MaxRuns = 2
INVARIANTS
    KeygenTypeOK
    TreeComplete
    CidsServable
PROPERTY ShortIntentWritesNothing
CHECK_DEADLOCK FALSE
