\* A deposit to a contract address ordered before the creation of that contract.
CONSTANTS
    Sender = Sender
    Author = Author
    Null = Null
    A = A
    B = B
    C = C
    X = X
    Others <- MCOthers
    Txs <- CreateAndFundTxs
    CreatedAddr <- MCCreatedAddr
    Preexisting <- NoPreexisting
    Amounts = {1}
    VMTargets <- PassTargets
    GasFee = 1
    MaxTransfers = 2
    NoAcc = NoAcc
    NoVins = NoVins
    Uncached = Uncached

SPECIFICATION Spec
CONSTRAINT VinsBounded
INVARIANT SentinelFirst
CHECK_DEADLOCK FALSE
