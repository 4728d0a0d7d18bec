\* A block of four transactions on a node with up to three crashes or failed UTXO commits.
CONSTANTS
    Sender = Sender
    Author = Author
    Null = Null
    A = A
    B = B
    C = C
    X = X
    Others <- MCOthers
    Txs <- BlockWithCallOfBTxs
    CreatedAddr <- MCCreatedAddr
    Preexisting <- PreexistingAB
    Amounts = {1}
    VMTargets <- PassTargets
    GasFee = 1
    MaxTransfers = 2
    NoAcc = NoAcc
    NoVins = NoVins
    Uncached = Uncached
    MaxFaults = 3

SPECIFICATION ChainFairSpec
CONSTRAINT VinsBounded
INVARIANT ChainTypeOK MemoryConsistent
PROPERTY ExecutionReturns
CHECK_DEADLOCK FALSE
