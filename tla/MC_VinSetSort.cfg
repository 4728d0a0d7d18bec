\* sortOutPoints on every VinSet of up to three entries.
CONSTANTS
    NBytes = 2
    ByteBits = 1
    VoutBits = 8
    IndexBits = 16
    Hashes <- MCHashes
    Vouts <- MCVouts
    Amts <- MCAmts
    MaxLen = 3

SPECIFICATION FairSpec
INVARIANT TypeOK
PROPERTY SortRefinement
CHECK_DEADLOCK FALSE
