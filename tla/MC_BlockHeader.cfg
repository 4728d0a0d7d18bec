\* A node's block and header relayed to a peer, from every state of the cache.
CONSTANTS
    c1 = c1
    s1 = s1
    o1 = o1
    o2 = o2
    Cores <- MCCores
    Sigs <- MCSigs
    Outs <- MCOuts
    StakeTimes <- MCStakeTimes
    NullCore = NullCore
    NoSig = NoSig
    NullOut = NullOut

SPECIFICATION Spec

INVARIANT ReceivedCoherent
CHECK_DEADLOCK FALSE
