\* A node copy-constructs its header from its block and relays both.
CONSTANTS
    c1 = c1
    s1 = s1
    o1 = o1
    o2 = o2
    Cores <- MCCores
    Sigs <- MCSigs
    Outs <- MCOuts
    StakeTimes <- MCStakeTimes
    NullCore = NullCore
    NoSig = NoSig
    NullOut = NullOut

SPECIFICATION CopySpec
INVARIANT StakeAgrees
CHECK_DEADLOCK FALSE
