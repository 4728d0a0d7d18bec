------------------------------ MODULE QtumCodec ------------------------------
(***************************************************************************)
(* The conversions the engine applies to outpoints: the u256 that         *)
(* sortOutPoints (src/evm/libethereum/State.cpp) compares a txid by, and   *)
(* createQtumAddress (SealEngine.h) and createP2PHTx (State.cpp), which    *)
(* derive a contract's address and a refund's input from a transaction    *)
(* output.  A txid is a uint256 given by its value, below 2^Width; Width = *)
(* NBytes * ByteBits is 256 in the code.  VinSetSort uses the tie key and  *)
(* QtumOutputs the identities derived from an output.                     *)
(***************************************************************************)
EXTENDS Naturals, Sequences, SequencesExt

CONSTANTS
    NBytes,     \* bytes of a hash (32 in the code)
    ByteBits,   \* bits of a byte (8 in the code)
    VoutBits,   \* bits of the vout parameter of createQtumAddress (8: unsigned char)
    IndexBits,  \* bits of COutPoint::n (32: uint32_t)
    Hashes,     \* txids
    Vouts,      \* output indexes, below 2^IndexBits
    Amts,       \* amounts
    MaxLen      \* longest VinSet sorted

Width == NBytes * ByteBits
ByteBase == 2^ByteBits

ASSUME /\ NBytes \in Nat \ {0} /\ ByteBits \in Nat \ {0} /\ VoutBits \in Nat \ {0}
       /\ IndexBits \in Nat \ {0} /\ Hashes \subseteq 0..(2^Width - 1)
       /\ \A v \in Vouts : v \in Nat /\ v < 2^IndexBits
       /\ Amts \subseteq Nat /\ MaxLen \in Nat

Entry == [hash: Hashes, n: Vouts, amt: Amts]

\* An outpoint is an output of a transaction: its txid and index.
Outpoints == Hashes \X Vouts

(***************************************************************************)
(* uintToh256 copies the 32 bytes of a uint256 (stored little-endian)     *)
(* into an h256, and dev::u256 of an h256 reads its bytes big-endian: the *)
(* composition reverses the byte order of a value.                       *)
(***************************************************************************)
ReverseBytes(x) ==
    FoldLeft(LAMBDA acc, k : acc * ByteBase + ((x \div ByteBase^k) % ByteBase),
             0, [k \in 1..NBytes |-> k - 1])

\* dev::u256(uintToh256(hash))
U256OfHash(h) == ReverseBytes(h)

(***************************************************************************)
(* createQtumAddress: RIPEMD160(SHA256(txid bytes ++ <<voutNumber>>)).    *)
(* The vout is passed as unsigned char, so only its low VoutBits bits     *)
(* enter the preimage.  The two hashes are taken as collision-free, so an *)
(* address is named by its preimage: two outputs get the same address     *)
(* exactly when their preimages agree.                                    *)
(***************************************************************************)
createQtumAddress(o) == <<o[1], o[2] % 2^VoutBits>>

\* createP2PHTx: the refund's single input, COutPoint(txid, uint32_t(voutNum))
\* with voutNum an unsigned char.
createP2PHTxInput(o) == <<o[1], o[2] % 2^VoutBits>>
=============================================================================
