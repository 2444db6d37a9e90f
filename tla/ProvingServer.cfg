SPECIFICATION Spec
CONSTANTS
    c1 = c1
    c2 = c2
    c3 = c3
    x = x
    evm = evm
    evmOther = evmOther
    snark = snark
    evmAgain = evmAgain
    load = load
    reset = reset
    Nobody = Nobody
    Absent = Absent
    Partial = Partial
    Circuits = {c1, c2, c3}
    Inputs = {x}
    Pinnings = {c1, c2}
    Keys = {c1, c2}
    Srs = {20, 21}
    CallOf <- MCCallOf
    K <- MCK
    Accepted <- MCAccepted
    Calls = {evm, evmAgain, evmOther, snark, load, reset}
    OutDir = TRUE
    MaxCrashes = 1
INVARIANTS
    TypeOK
    MutexHeldByProver
    AnswersAreOwn
    ProvedOnce
    NoCallStuck
CHECK_DEADLOCK FALSE
