\* A version-2 call carrying value: its outer transfer is synthesized from the sender.
CONSTANTS
    Sender = Sender
    Author = Author
    Null = Null
    A = A
    B = B
    C = C
    X = X
    Others <- MCOthers
    Txs <- ValueCallTxs
    CreatedAddr <- MCCreatedAddr
    Preexisting <- PreexistingAB
    Amounts = {1}
    VMTargets <- PassTargets
    GasFee = 1
    MaxTransfers = 2
    NoAcc = NoAcc
    NoVins = NoVins
    Uncached = Uncached

SPECIFICATION Spec
CONSTRAINT VinsBounded
INVARIANT NeverFails
CHECK_DEADLOCK FALSE
