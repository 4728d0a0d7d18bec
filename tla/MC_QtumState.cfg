\* Executions of one block over two existing contracts and one new one.
CONSTANTS
    Sender = Sender
    Author = Author
    Null = Null
    A = A
    B = B
    C = C
    X = X
    Others <- MCOthers
    Txs <- BlockWithValueCallTxs
    CreatedAddr <- MCCreatedAddr
    Preexisting <- PreexistingAB
    Amounts = {1}
    VMTargets <- PassTargets
    GasFee = 1
    MaxTransfers = 2
    NoAcc = NoAcc
    NoVins = NoVins
    Uncached = Uncached

SPECIFICATION Spec
CONSTRAINT VinsBounded
INVARIANT TypeOK
INVARIANT EmittedBalanced
INVARIANT SentinelFirst
INVARIANT BalanceBacked
CHECK_DEADLOCK FALSE
