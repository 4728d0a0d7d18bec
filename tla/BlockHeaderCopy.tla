-------------------------- MODULE BlockHeaderCopy ---------------------------
(***************************************************************************)
(* BlockHeader with the other way a node can make a CBlockHeader of its   *)
(* CBlock: copy construction (CBlockHeader hdr(blk), or blk passed by      *)
(* value where a CBlockHeader is expected).  CBlockHeader declares        *)
(* operator=, which takes the stake fields from the getters, but no copy  *)
(* constructor, so the compiler's implicit one copies every member as it  *)
(* is, the cached fStake, prevoutStake and nStakeTime included.            *)
(***************************************************************************)
EXTENDS BlockHeader

\* The implicit CBlockHeader(const CBlockHeader&) applied to a CBlock: the
\* object is sliced to a CBlockHeader and its members are copied.
HeaderCopy(b) == [b EXCEPT !.isBlock = FALSE, !.vtx = <<>>]

CopyHeader ==
    /\ hdr' = HeaderCopy(blk)
    /\ UNCHANGED <<blk, msgs, peerHdr, peerBlk>>

CopyNext == Next \/ CopyHeader

CopySpec == Init /\ [][CopyNext]_vars
=============================================================================
