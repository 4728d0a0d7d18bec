\* Network selection and genesis grinding on every network, nBits and start.
CONSTANTS
    HashBits = 20
    NonceBits = 2
    TimeBits = 2
    Bits <- MCBits
    Compact <- MCCompact
    HeaderHash <- MCHeaderHash
    Chains <- MCChains

SPECIFICATION Spec
INVARIANT GenesisMeetsLimit
INVARIANT NetworksDistinct
PROPERTY GenesisReturns
CHECK_DEADLOCK FALSE
