--------------------------- MODULE MC_QtumOutputs ---------------------------
(***************************************************************************)
(* Two-byte txids and real vout widths.                                   *)
(***************************************************************************)
EXTENDS QtumOutputs

MCHashes == 0..3

\* Outputs 0, 1 and 256 of a transaction: 256 is the first index that does
\* not fit an unsigned char.
MCVouts == {0, 1, 256}

MCAmts == {0}
=============================================================================
