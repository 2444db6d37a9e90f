SPECIFICATION FairSpec
CONSTANTS
    r1 = r1
    r2 = r2
    alice = alice
    bob = bob
    carol = carol
    n1 = n1
    n2 = n2
    NoRequest = NoRequest
    ZeroAddress = ZeroAddress
    Requests = {r1, r2}
    Batch <- MCBatch
    retry_send_threshold = 3
INVARIANTS
    RetryPaysOnce
    FulfilledUnlessOvertaken
PROPERTIES
    SendingEnds
CHECK_DEADLOCK FALSE
