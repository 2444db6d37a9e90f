SPECIFICATION FairSpec
CONSTANTS
    evm = evm
    leaf = leaf
    single = single
    wrapped = wrapped
    large = large
    short = short
    empty = empty
    shallow = shallow
    defaults = defaults
    c0 = c0
    c1 = c1
    c2 = c2
    Claims = {c0, c1, c2}
    Absent = Absent
    NoRequest = NoRequest
    Requests = {evm, leaf, single, large, wrapped, short, empty, shallow, defaults}
    Posted <- MCPosted
    Cids <- MCCids
    INITIAL_DEPTH = 1
    EXTRA_ROUNDS = 1
    OverflowChecks = FALSE
    Word = 256
INVARIANTS
    TypeOK
    AnswerCoversRange
    BadRangeProvesNothing
PROPERTIES
    ImplementsTaskGraph
    RequestsEnd
CHECK_DEADLOCK FALSE
