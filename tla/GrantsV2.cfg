SPECIFICATION Spec
CONSTANTS
    vk = vk
    vkOther = vkOther
    root = root
    rootFake = rootFake
    g0 = g0
    g1 = g1
    g2 = g2
    zero = zero
    self = self
    prover = prover
    alice = alice
    bob = bob
    n0 = n0
    n1 = n1
    n2 = n2
    VKeys = {vk, vkOther}
    VKEY_HASH = vk
    Roots = {root, rootFake}
    GenuineRoots = {root}
    Grants = {g0, g1, g2}
    Amount <- MCAmount
    Addresses = {zero, self, prover, alice, bob}
    ZeroAddress = zero
    Distributor = self
    PROVER = prover
    Nullifiers = {n0, n1, n2}
    Proven <- MCProven
    MaxSupply = 4
    LOG_MAX_NUM_CLAIMS = 2
    ZeroGrant = g0
    ZeroNullifier = n0
    RootProofs <- MCRootProofs
    ClaimCalls <- MCClaimCalls
INVARIANTS
    OneGrantPerNullifier
    NullifierIffPaid
    PaidOnlyIfCommitted
PROPERTIES
    ImplementsLedger
    HonestClaimPaid
