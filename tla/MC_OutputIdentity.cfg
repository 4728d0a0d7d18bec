\* Addresses and refund inputs of outputs with vouts up to 256.
CONSTANTS
    NBytes = 2
    ByteBits = 1
    VoutBits = 8
    IndexBits = 16
    Hashes <- MCHashes
    Vouts <- MCVouts
    Amts <- MCAmts
    MaxLen = 0

SPECIFICATION Spec
INVARIANT OutputIdentity
