----------------------------- MODULE BlockHeader -----------------------------
(***************************************************************************)
(* src/primitives/block.h: CBlockHeader and CBlock with Qtum's stake       *)
(* fields.  A header caches fStake, prevoutStake and nStakeTime; a CBlock   *)
(* with transactions derives them from vtx[1] instead (the virtual          *)
(* IsProofOfStake, PrevoutStake and StakeTime), and every serialization    *)
(* first refreshes the cache from those getters.  The hash serialization   *)
(* (SER_GETHASH) leaves out the signature and the stake fields.            *)
(*                                                                         *)
(* A node holds a CBlock and the CBlockHeader it takes from it; it sends   *)
(* both to a peer as a headers and a block message, and the peer reads     *)
(* them into a CBlockHeader and a CBlock or builds a CBlock from the       *)
(* header.  An object is a record; isBlock tells a CBlock (dynamic type)   *)
(* from a CBlockHeader.  core stands for the fields every serialization    *)
(* writes (nVersion, hashPrevBlock, nTime, nBits, nNonce and the two state *)
(* roots) with hashMerkleRoot, named by the transactions it commits to; a  *)
(* hash is named by its preimage.                                          *)
(***************************************************************************)
EXTENDS Naturals, Sequences

CONSTANTS
    Cores,      \* values of the header fields the hash covers
    Sigs,       \* block signatures (vchBlockSig)
    Outs,       \* outpoints a coinstake can spend
    StakeTimes, \* transaction times (nonzero)
    NullCore,   \* the header fields after SetNull
    NoSig,      \* the empty vchBlockSig
    NullOut     \* COutPoint() after SetNull

\* A transaction as the stake getters see it: vtx[1].IsCoinStake(),
\* vtx[1].vin[0].prevout and vtx[1].nTime.
Tx == [coinstake: BOOLEAN, prevout: Outs, nTime: StakeTimes]

\* vtx of a block as the miner builds it: a coinbase, then possibly a
\* coinstake or another transaction.
Coinbase(o, t) == [coinstake |-> FALSE, prevout |-> o, nTime |-> t]

Vtxs == {<<>>} \cup {<<Coinbase(o, t)>> : o \in Outs, t \in StakeTimes}
        \cup {<<Coinbase(o, t), x>> : o \in Outs, t \in StakeTimes, x \in Tx}

NoObj == [isBlock |-> FALSE, core |-> [id |-> NullCore, merkle |-> <<>>], sig |-> NoSig,
          fStake |-> FALSE, prevoutStake |-> NullOut, nStakeTime |-> 0, vtx |-> <<>>]

VARIABLES
    blk,      \* the node's CBlock
    hdr,      \* the node's CBlockHeader taken from blk, NoObj before
    msgs,     \* messages sent: [kind, bytes]
    peerHdr,  \* the peer's CBlockHeader, NoObj before
    peerBlk   \* the peer's CBlock, NoObj before

vars == <<blk, hdr, msgs, peerHdr, peerBlk>>

-----------------------------------------------------------------------------
\* CBlockHeader's virtual getters: the cached members.
HeaderIsProofOfStake(o) == o.fStake
HeaderPrevoutStake(o) == o.prevoutStake
HeaderStakeTime(o) == o.nStakeTime

\* CBlock's overrides: with no transactions, the cached members; else
\* from the coinstake vtx[1].
BlockIsProofOfStake(o) ==
    IF o.vtx = <<>> THEN o.fStake ELSE Len(o.vtx) > 1 /\ o.vtx[2].coinstake

BlockPrevoutStake(o) ==
    IF o.vtx = <<>> THEN o.prevoutStake
    ELSE IF BlockIsProofOfStake(o) THEN o.vtx[2].prevout ELSE NullOut

BlockStakeTime(o) ==
    IF o.vtx = <<>> THEN o.nStakeTime
    ELSE IF BlockIsProofOfStake(o) THEN o.vtx[2].nTime ELSE 0

\* A virtual call dispatches on the dynamic type of the object.
IsProofOfStake(o) == IF o.isBlock THEN BlockIsProofOfStake(o) ELSE HeaderIsProofOfStake(o)
PrevoutStake(o) == IF o.isBlock THEN BlockPrevoutStake(o) ELSE HeaderPrevoutStake(o)
StakeTime(o) == IF o.isBlock THEN BlockStakeTime(o) ELSE HeaderStakeTime(o)

\* Mutant: serialization writes the cached fields without refreshing them.
RefreshStale(o) == o

\* The first statements of SerializationOp: the cache takes the getters.
Refresh(o) ==
    [o EXCEPT !.fStake = IsProofOfStake(o), !.prevoutStake = PrevoutStake(o),
              !.nStakeTime = StakeTime(o)]

\* The bytes SerializationOp writes for type "hash" (SER_GETHASH) or
\* "network", and the object after it (its cache refreshed).
Written(o, type) ==
    LET s == Refresh(o)
    IN [obj   |-> s,
        bytes |-> <<s.core>>
                  \o (IF type = "hash" THEN <<>>
                      ELSE <<s.sig, s.fStake, s.prevoutStake, s.nStakeTime>>)
                  \o (IF o.isBlock /\ type # "hash" THEN <<s.vtx>> ELSE <<>>)]

\* CBlockHeader::GetHash: SerializeHash(*this), the header fields only.
GetHash(o) == Written(o, "hash").bytes

\* SerializationOp reading a network stream into a fresh object.
Read(bytes, isBlock) ==
    [isBlock |-> isBlock, core |-> bytes[1], sig |-> bytes[2], fStake |-> bytes[3],
     prevoutStake |-> bytes[4], nStakeTime |-> bytes[5],
     vtx |-> IF isBlock THEN bytes[6] ELSE <<>>]

\* CBlockHeader::SetNull, and CBlock::SetNull with vtx.clear().
SetNull(o) == [NoObj EXCEPT !.isBlock = o.isBlock]

\* CBlock::GetBlockHeader
GetBlockHeader(b) ==
    [isBlock |-> FALSE, core |-> b.core, sig |-> b.sig, fStake |-> IsProofOfStake(b),
     prevoutStake |-> PrevoutStake(b), nStakeTime |-> StakeTime(b), vtx |-> <<>>]

\* CBlock(const CBlockHeader&): SetNull, then CBlockHeader::operator=,
\* which copies the getters of the header.
BlockOfHeader(h) ==
    [isBlock |-> TRUE, core |-> h.core, sig |-> h.sig, fStake |-> IsProofOfStake(h),
     prevoutStake |-> PrevoutStake(h), nStakeTime |-> StakeTime(h), vtx |-> <<>>]

-----------------------------------------------------------------------------
\* The stake fields a cache can hold: SetNull's, or what a Refresh wrote
\* from a vtx whose second transaction was a coinstake.
StakeCaches ==
    {[fStake |-> FALSE, prevoutStake |-> NullOut, nStakeTime |-> 0]}
    \cup {[fStake |-> TRUE, prevoutStake |-> o, nStakeTime |-> t] : o \in Outs, t \in StakeTimes}

(***************************************************************************)
(* A CBlock as the node can hold it: built with CBlock() (SetNull), its    *)
(* cache refreshed by an earlier serialization, and vtx set afterwards, so *)
(* the cache may predate the transactions.  hashMerkleRoot is              *)
(* BlockMerkleRoot of vtx.                                                 *)
(***************************************************************************)
Blocks ==
    {[isBlock |-> TRUE, core |-> [id |-> c, merkle |-> v], sig |-> s, fStake |-> k.fStake,
      prevoutStake |-> k.prevoutStake, nStakeTime |-> k.nStakeTime, vtx |-> v] :
        c \in Cores, v \in Vtxs \ {<<>>}, s \in Sigs, k \in StakeCaches}

Init ==
    /\ blk \in Blocks
    /\ hdr = NoObj /\ msgs = {} /\ peerHdr = NoObj /\ peerBlk = NoObj

\* blk.GetHash(): the hash serialization refreshes the cache.
HashBlock ==
    /\ blk' = Written(blk, "hash").obj
    /\ UNCHANGED <<hdr, msgs, peerHdr, peerBlk>>

TakeHeader ==
    /\ hdr' = GetBlockHeader(blk)
    /\ UNCHANGED <<blk, msgs, peerHdr, peerBlk>>

ClearBlock ==
    /\ blk' = SetNull(blk)
    /\ UNCHANGED <<hdr, msgs, peerHdr, peerBlk>>

\* Serialize hdr into a headers message.
SendHeader ==
    /\ hdr # NoObj
    /\ LET w == Written(hdr, "network")
       IN hdr' = w.obj /\ msgs' = msgs \cup {[kind |-> "headers", bytes |-> w.bytes]}
    /\ UNCHANGED <<blk, peerHdr, peerBlk>>

\* Serialize blk into a block message.
SendBlock ==
    /\ LET w == Written(blk, "network")
       IN blk' = w.obj /\ msgs' = msgs \cup {[kind |-> "block", bytes |-> w.bytes]}
    /\ UNCHANGED <<hdr, peerHdr, peerBlk>>

\* The peer reads a message into a fresh CBlockHeader or CBlock.
Receive(m) ==
    /\ IF m.kind = "headers"
       THEN peerHdr' = Read(m.bytes, FALSE) /\ UNCHANGED peerBlk
       ELSE peerBlk' = Read(m.bytes, TRUE) /\ UNCHANGED peerHdr
    /\ UNCHANGED <<blk, hdr, msgs>>

\* The peer builds a CBlock from the header it holds.
BlockFromHeader ==
    /\ peerHdr # NoObj
    /\ peerBlk' = BlockOfHeader(peerHdr)
    /\ UNCHANGED <<blk, hdr, msgs, peerHdr>>

Next ==
    \/ HashBlock \/ TakeHeader \/ ClearBlock \/ SendHeader \/ SendBlock
    \/ \E m \in msgs : Receive(m)
    \/ BlockFromHeader

Spec == Init /\ [][Next]_vars

-----------------------------------------------------------------------------
(***************************************************************************)
(* A peer that holds a header and a block with the same hash sees the     *)
(* same proof of stake in both: whether it is a proof-of-stake block, the *)
(* staked outpoint and the stake time.  The hash does not cover these     *)
(* fields, so the header must take them from the block's transactions,   *)
(* whatever the block's own cache held when the header was taken.         *)
(***************************************************************************)
StakeAgrees ==
    (peerHdr # NoObj /\ peerBlk # NoObj /\ GetHash(peerHdr) = GetHash(peerBlk)) =>
        /\ IsProofOfStake(peerHdr) = IsProofOfStake(peerBlk)
        /\ PrevoutStake(peerHdr) = PrevoutStake(peerBlk)
        /\ StakeTime(peerHdr) = StakeTime(peerBlk)

(***************************************************************************)
(* A block read from a block message carries a stake cache that agrees    *)
(* with its transactions, so the members fStake, prevoutStake and         *)
(* nStakeTime (read directly by a copy of the block as a CBlockHeader)    *)
(* say what the getters say.                                              *)
(***************************************************************************)
ReceivedCoherent ==
    peerBlk.vtx # <<>> =>
        /\ peerBlk.fStake = IsProofOfStake(peerBlk)
        /\ peerBlk.prevoutStake = PrevoutStake(peerBlk)
        /\ peerBlk.nStakeTime = StakeTime(peerBlk)
=============================================================================
