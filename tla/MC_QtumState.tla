--------------------------- MODULE MC_QtumState ---------------------------
(***************************************************************************)
(* Blocks of transactions from one sender.  A and B are contracts, C a    *)
(* contract created in the block, X a plain address.                      *)
(***************************************************************************)
EXTENDS QtumState, TLC

CONSTANTS A, B, C, X

MCOthers == {A, B, C, X}

MCCreatedAddr == ("h0" :> A) @@ ("h1" :> B) @@ ("h2" :> C)

\* A and B were created in an earlier block; this block creates C, makes a
\* version-0 deposit to A and calls A with value.
BlockTxs ==
    { [hash |-> "h2", version |-> 2, value |-> 0, to |-> Null],
      [hash |-> "h3", version |-> 0, value |-> 2, to |-> A],
      [hash |-> "h4", version |-> 1, value |-> 1, to |-> A] }

\* The same block with a version-2 call carrying value to A.
BlockWithValueCallTxs ==
    BlockTxs \cup {[hash |-> "h6", version |-> 2, value |-> 1, to |-> A]}

\* The block with a call of B carrying no value as well.
BlockWithCallOfBTxs ==
    BlockTxs \cup {[hash |-> "h5", version |-> 2, value |-> 0, to |-> B]}

PreexistingAB == {"h0", "h1"}

\* Contracts send to each other, to a plain address and back to the sender.
PassTargets == {A, B, X, Sender}

\* A block that creates A and also carries a deposit and a call to A, in
\* whatever order the miner put them.
CreateAndFundTxs ==
    { [hash |-> "h0", version |-> 2, value |-> 0, to |-> Null],
      [hash |-> "h3", version |-> 0, value |-> 2, to |-> A],
      [hash |-> "h4", version |-> 1, value |-> 1, to |-> A] }
NoPreexisting == {}

\* A deposit followed by a version-2 call that carries value to A.
ValueCallTxs ==
    { [hash |-> "h3", version |-> 0, value |-> 2, to |-> A],
      [hash |-> "h6", version |-> 2, value |-> 1, to |-> A] }

\* Bound on the length of a cached VinSet: an excepted creation leaves its
\* sentinel in m_cache_utxo, so repeated Reverted executions grow it.
MaxVinLen == 4

VinsBounded == \A a \in Addr : utxoCache[a] = Uncached \/ Len(utxoCache[a]) <= MaxVinLen
=============================================================================
