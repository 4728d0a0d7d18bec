\* Contracts sending value to a plain address.
CONSTANTS
    Sender = Sender
    Author = Author
    Null = Null
    A = A
    B = B
    C = C
    X = X
    Others <- MCOthers
    Txs <- BlockTxs
    CreatedAddr <- MCCreatedAddr
    Preexisting <- PreexistingAB
    Amounts = {1}
    VMTargets <- PassTargets
    GasFee = 1
    MaxTransfers = 2
    NoAcc = NoAcc
    NoVins = NoVins
    Uncached = Uncached

SPECIFICATION Spec
CONSTRAINT VinsBounded
INVARIANT C2COnlyToContracts
CHECK_DEADLOCK FALSE
