----------------------------- MODULE ChainParams -----------------------------
(***************************************************************************)
(* src/chainparams.cpp: the parameters of the three networks, their       *)
(* selection (SelectParams, Params) and the development helper            *)
(* MakeItGenesis, which grinds nNonce, and nTime when nNonce wraps, until  *)
(* the genesis header's hash meets the target of its nBits.                *)
(*                                                                         *)
(* A network's parameters are a record holding the fields the properties  *)
(* compare; seeds, address prefixes, checkpoints, BIP34, majority and     *)
(* version-bits settings, pruning and the policy flags are left out.  A   *)
(* uint256 is abstracted to its top HashBits bits; GetHash of the header  *)
(* being ground is the table HeaderHash over (nTime, nNonce), the other  *)
(* fields being fixed during a grind, and arith_uint256::SetCompact (not in this repository) is the   *)
(* table Compact.  nTime and nNonce keep their wrap-around at NonceBits   *)
(* and TimeBits (32 and 32 in the code).                                  *)
(***************************************************************************)
EXTENDS Naturals

CONSTANTS
    HashBits,    \* bits of a hash kept by the model (256 in the code)
    NonceBits,   \* width of nNonce (32: uint32_t)
    TimeBits,    \* width of nTime (32: uint32_t)
    Bits,        \* compact targets (nBits) ground
    Compact,     \* SetCompact: nBits -> [target, neg, over], target scaled
    HeaderHash,  \* GetHash of the header as a function of <<nTime, nNonce>>
    Chains       \* network names given on the command line

Nonce == 0..(2^NonceBits - 1)
Time == 0..(2^TimeBits - 1)
HashVal == 0..(2^HashBits - 1)

ASSUME /\ HashBits \in Nat /\ NonceBits \in Nat \ {0} /\ TimeBits \in Nat \ {0}
       /\ Compact \in [Bits -> [target: HashVal, neg: BOOLEAN, over: BOOLEAN]]
       /\ HeaderHash \in [Time \X Nonce -> HashVal]

(***************************************************************************)
(* CMainParams, CTestNetParams and CRegTestParams.  powLimitZeros is the   *)
(* number of leading zero bits of consensus.powLimit, all ones after it.  *)
(* hashGenesisBlock is the value the constructor asserts GetHash() of its *)
(* genesis to be: past the assert, the two are equal.                     *)
(***************************************************************************)
MainParams ==
    [strNetworkID |-> "main", powLimitZeros |-> 16,
     pchMessageStart |-> <<\hf9, \hbe, \hb4, \hd9>>, nDefaultPort |-> 8889,
     genesis |-> [nTime |-> 1467160981, nNonce |-> 1575083623, nBits |-> \h1f00ffff],
     hashGenesisBlock |-> "000070346fef5d28de8be6d2d3a2a0c446111d2a937c0d29c469864a6f0cc24a"]

\* Mutant: the testnet constructor copied from main keeps main's message start.
TestNetParamsMainMagic ==
    [strNetworkID |-> "test", powLimitZeros |-> 16,
     pchMessageStart |-> <<\hf9, \hbe, \hb4, \hd9>>, nDefaultPort |-> 18889,
     genesis |-> [nTime |-> 1467160981, nNonce |-> 107231206, nBits |-> \h1f00ffff],
     hashGenesisBlock |-> "0000c8d2c661ccca5a74079ddcbf30ef580928ddd07f09dccf0c86eec7ef6b01"]

TestNetParams ==
    [strNetworkID |-> "test", powLimitZeros |-> 16,
     pchMessageStart |-> <<\h0b, \h11, \h09, \h07>>, nDefaultPort |-> 18889,
     genesis |-> [nTime |-> 1467160981, nNonce |-> 107231206, nBits |-> \h1f00ffff],
     hashGenesisBlock |-> "0000c8d2c661ccca5a74079ddcbf30ef580928ddd07f09dccf0c86eec7ef6b01"]

RegTestParams ==
    [strNetworkID |-> "regtest", powLimitZeros |-> 1,
     pchMessageStart |-> <<\hfa, \hbf, \hb5, \hda>>, nDefaultPort |-> 22889,
     genesis |-> [nTime |-> 1467160981, nNonce |-> 13, nBits |-> \h207fffff],
     hashGenesisBlock |-> "2c3e4a38307ca8610f31cdd77fce3ccd432328f64af94a1662af2ac7491c2ade"]

KnownChains == {"main", "test", "regtest"}

\* Params(chain): the parameters of a known chain; any other name throws.
Params(chain) ==
    CASE chain = "main"    -> MainParams
      [] chain = "test"    -> TestNetParams
      [] chain = "regtest" -> RegTestParams

\* consensus.powLimit in the model's hash space
PowLimit(p) == 2^(HashBits - p.powLimitZeros) - 1

VARIABLES
    pCurrentParams, \* the selected network, "none" before SelectParams
    block,          \* the header MakeItGenesis grinds
    pc              \* where the process is

vars == <<pCurrentParams, block, pc>>

\* Params(): assert(pCurrentParams), then the selected network's record.
\* Before SelectParams no CASE arm matches, and TLC stops as the assert would.
CurrentParams == Params(pCurrentParams)

NoBlock == [nTime |-> 0, nNonce |-> 0, nBits |-> 0]

Init == pCurrentParams = "none" /\ block = NoBlock /\ pc = "start"

\* SelectParams: SelectBaseParams and Params(network) throw on an unknown
\* name, and the caller (AppInit) reports it and exits.
SelectParams(network) ==
    /\ pc = "start"
    /\ IF network \in KnownChains
       THEN pCurrentParams' = network /\ pc' = "selected"
       ELSE pc' = "exited" /\ UNCHANGED pCurrentParams
    /\ UNCHANGED block

\* The header fields CreateGenesisBlock sets from its arguments; the
\* coinbase, merkle root and state roots are fixed for a grind.
CreateGenesisBlock(t, n, b) == [nTime |-> t, nNonce |-> n, nBits |-> b]

\* Mutant: the range check without its comparison with powLimit.
InRangeNoLimit(b, powLimit) ==
    ~Compact[b].neg /\ Compact[b].target # 0 /\ ~Compact[b].over

\* The range check of MakeItGenesis on SetCompact(nBits).
InRange(b, powLimit) ==
    /\ ~Compact[b].neg /\ Compact[b].target # 0 /\ ~Compact[b].over
    /\ Compact[b].target <= powLimit

(***************************************************************************)
(* MakeItGenesis(CreateGenesisBlock(t, n, b, 1, 50 * COIN),               *)
(* Params().GetConsensus().powLimit): returns false at once when the      *)
(* target is out of range, else enters its loop.                          *)
(***************************************************************************)
MakeItGenesis(t, n, b) ==
    /\ pc = "selected"
    /\ block' = CreateGenesisBlock(t, n, b)
    /\ pc' = IF InRange(b, PowLimit(CurrentParams)) THEN "grinding" ELSE "rejected"
    /\ UNCHANGED pCurrentParams

\* Mutant: the nonce wraps without moving nTime on.
NextNonceNoTimeBump(blk) == [blk EXCEPT !.nNonce = (@ + 1) % 2^NonceBits]

\* ++block.nNonce, and ++block.nTime when the nonce wraps to 0.
NextNonce(blk) ==
    LET n == (blk.nNonce + 1) % 2^NonceBits
    IN [blk EXCEPT !.nNonce = n, !.nTime = IF n = 0 THEN (@ + 1) % 2^TimeBits ELSE @]

\* One iteration of while (true): stop when GetHash() <= bnTarget.
Grind ==
    /\ pc = "grinding"
    /\ IF HeaderHash[block.nTime, block.nNonce] <= Compact[block.nBits].target
       THEN pc' = "found" /\ UNCHANGED block
       ELSE block' = NextNonce(block) /\ UNCHANGED pc
    /\ UNCHANGED pCurrentParams

Next ==
    \/ \E network \in Chains : SelectParams(network)
    \/ \E t \in Time, n \in Nonce, b \in Bits : MakeItGenesis(t, n, b)
    \/ Grind

\* The loop runs on one thread and blocks on nothing, so once entered it
\* keeps iterating.
Spec == Init /\ [][Next]_vars /\ WF_vars(Grind)

-----------------------------------------------------------------------------
\* Some header time and nonce meet the target of b.
Solvable(b) == \E t \in Time, n \in Nonce : HeaderHash[t, n] <= Compact[b].target

(***************************************************************************)
(* A header MakeItGenesis returns is a proof of work the selected network *)
(* accepts: its hash is within the target of its nBits and that target is *)
(* within the network's powLimit.                                         *)
(***************************************************************************)
GenesisMeetsLimit ==
    pc = "found" =>
        /\ HeaderHash[block.nTime, block.nNonce] <= Compact[block.nBits].target
        /\ Compact[block.nBits].target <= PowLimit(CurrentParams)

(***************************************************************************)
(* MakeItGenesis returns whenever some nTime and nNonce meet the target:  *)
(* the wrap of nNonce must move nTime on, or the loop revisits the same   *)
(* 2^32 headers forever.                                                  *)
(***************************************************************************)
GenesisReturns == (pc = "grinding" /\ Solvable(block.nBits)) ~> (pc = "found")

(***************************************************************************)
(* The selected network cannot be mistaken for another: its message       *)
(* start, default port and genesis block differ from those of every other *)
(* network, so a node never accepts a peer or a chain of another network. *)
(***************************************************************************)
NetworksDistinct ==
    pCurrentParams \in KnownChains =>
        \A other \in KnownChains \ {pCurrentParams} :
            LET p == CurrentParams
                q == Params(other)
            IN /\ p.pchMessageStart # q.pchMessageStart
               /\ p.nDefaultPort # q.nDefaultPort
               /\ p.hashGenesisBlock # q.hashGenesisBlock
=============================================================================
