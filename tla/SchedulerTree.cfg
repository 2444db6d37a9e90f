SPECIFICATION Spec
CONSTANTS
    three = three
    two = two
    one = one
    bad = bad
    empty = empty
    huge = huge
    vk = vk
    root = root
    zeroClaim = zeroClaim
    c0 = c0
    c1 = c1
    c2 = c2
    c3 = c3
    c4 = c4
    fake = fake
    NoRequest = NoRequest
    VKeys = {vk}
    Roots = {root}
    Claims = {zeroClaim, c0, c1, c2, c3, c4, fake}
    ZeroClaim = zeroClaim
    VK = vk
    Proven <- MCProven
    ClaimsOf <- MCClaimsOf
    RootIn <- MCRootIn
    Requests = {three, bad}
    INITIAL_DEPTH = 0
    MAX_DEPTH = 2
    EXTRA_ROUNDS = 1
    DISPATCHER_CONCURRENCY = 2
    retry_send_threshold = 2
INVARIANTS
    WitnessesFit
    SentProofCoversRequest
    SummaryComplete
CHECK_DEADLOCK FALSE
