---------------------------- MODULE MC_VinSetSort ----------------------------
(***************************************************************************)
(* VinSets of up to three entries over two one-bit bytes, so that entries *)
(* share amounts, bytes reverse (1 <-> 2) and keys wrap (3 + 1 = 0).      *)
(***************************************************************************)
EXTENDS VinSetSort

MCHashes == 0..3

MCVouts == {0, 1}

MCAmts == {0, 1}
=============================================================================
