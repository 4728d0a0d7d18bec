--------------------------- MODULE MC_HeaderCopy ----------------------------
(***************************************************************************)
(* The instance of MC_BlockHeader with the node's header copy-constructed *)
(* from its block.                                                        *)
(***************************************************************************)
EXTENDS MC_BlockHeader, BlockHeaderCopy
=============================================================================
