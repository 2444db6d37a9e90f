SPECIFICATION Spec
CONSTANTS
    vk = vk
    vkOther = vkOther
    root = root
    rootOther = rootOther
    zeroClaim = zeroClaim
    c0 = c0
    c1 = c1
    c2 = c2
    c3 = c3
    c4 = c4
    fake = fake
    VKeys = {vk, vkOther}
    Roots = {root, rootOther}
    Claims = {zeroClaim, c0, c1, c2, c3, c4, fake}
    ZeroClaim = zeroClaim
    Proven <- MCProven
    INITIAL_DEPTH = 1
    MAX_DEPTH = 3
    LeafInputs <- MCLeafInputs
    MaxSnarks = 2
INVARIANTS
    SlotsProven
    SlotsInOrder
    ClaimRootIsTree
CHECK_DEADLOCK FALSE
