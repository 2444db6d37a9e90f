SPECIFICATION Spec
CONSTANTS
    vk = vk
    vkOther = vkOther
    root = root
    rootFake = rootFake
    g1 = g1
    g2 = g2
    zero = zero
    self = self
    prover = prover
    alice = alice
    bob = bob
    n1 = n1
    n2 = n2
    VKeys = {vk, vkOther}
    VKEY_HASH = vk
    Roots = {root, rootFake}
    GenuineRoots = {root}
    Grants = {g1, g2}
    Amount <- MCAmount
    Addresses = {zero, self, prover, alice, bob}
    ZeroAddress = zero
    Distributor = self
    PROVER = prover
    Nullifiers = {n1, n2}
    Proven <- MCProven
    MaxSupply = 4
    MAX_NUM_CLAIMS = 2
    Calls <- MCCalls
INVARIANTS
    OneGrantPerNullifier
    NullifierIffPaid
    AccountsMatchClaims
    FullBatchAccepted
PROPERTIES
    AllOrNothing
    ImplementsLedger
