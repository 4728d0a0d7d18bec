--------------------------- MODULE MC_ChainParams ---------------------------
(***************************************************************************)
(* Hashes as their top 20 bits, two-bit nonces and times.  Compact holds  *)
(* SetCompact of the genesis targets of main and testnet (0x1f00ffff) and  *)
(* of regtest (0x207fffff), and of a zero, a negative and an overflowing  *)
(* nBits, each target as its top 20 bits.  The header hashes put the only *)
(* hashes under the main target at times 2 and 3, so a grind that starts *)
(* at time 0 must wrap its nonce to succeed.                              *)
(***************************************************************************)
EXTENDS ChainParams, TLC

MCBits == {\h1f00ffff, \h207fffff, \h1d000000, \h04923456, \h23000001}

MCCompact ==
    (\h1f00ffff :> [target |-> 15, neg |-> FALSE, over |-> FALSE]) @@
    (\h207fffff :> [target |-> 524287, neg |-> FALSE, over |-> FALSE]) @@
    (\h1d000000 :> [target |-> 0, neg |-> FALSE, over |-> FALSE]) @@
    (\h04923456 :> [target |-> 0, neg |-> TRUE, over |-> FALSE]) @@
    (\h23000001 :> [target |-> 0, neg |-> FALSE, over |-> TRUE])

\* GetHash by <<nTime, nNonce>>, one row per time.
HashRows == << <<700, 40, 90000, 1000>>,
               <<600000, 33, 800, 21>>,
               <<50, 0, 77, 5000>>,
               <<16, 900, 3, 123456>> >>

MCHeaderHash == [p \in (0..3) \X (0..3) |-> HashRows[p[1] + 1][p[2] + 1]]

MCChains == {"main", "test", "regtest", "signet"}
=============================================================================
