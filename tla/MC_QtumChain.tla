--------------------------- MODULE MC_QtumChain ---------------------------
(***************************************************************************)
(* The block of MC_QtumState processed by a node that may crash or hit a  *)
(* failing UTXO commit.                                                   *)
(***************************************************************************)
EXTENDS QtumChain, MC_QtumState
=============================================================================
