------------------------------ MODULE VinSetSort ------------------------------
(***************************************************************************)
(* QtumState::sortOutPoints (src/evm/libethereum/State.cpp): the in-place *)
(* exchange sort of a VinSet, one step per iteration of its inner loop.   *)
(* An entry is an outpoint (txid as its uint256 value, vout n) with an    *)
(* amount.  The tie key u256(uintToh256(txid)) + n reads the txid's bytes *)
(* in the opposite order and wraps at 2^Width (2^256 in the code).        *)
(***************************************************************************)
EXTENDS QtumCodec

\* VinSets as the engine builds them: no outpoint occurs twice.
Inputs == {s \in SeqOf(Entry, MaxLen) :
              \A k, l \in 1..Len(s) :
                  k # l => <<s[k].hash, s[k].n>> # <<s[l].hash, s[l].n>>}

VARIABLES
    input,  \* the VinSet passed in
    vins,   \* the VinSet being sorted in place
    i,      \* outer loop index (1-based)
    j       \* inner loop index (1-based)

vars == <<input, vins, i, j>>

\* dev::u256(uintToh256(hash)) + dev::u256(n), modulo 2^Width
KeyOf(e) == (U256OfHash(e.hash) + e.n) % (2^Width)

Swap(s, k, l) == [s EXCEPT ![k] = s[l], ![l] = s[k]]

\* One pass of the inner loop body: swap on a smaller amount, then, on
\* equal amounts, swap on a smaller tie key.
CompareSwap(s, k, l) ==
    LET s1 == IF s[k].amt < s[l].amt THEN Swap(s, k, l) ELSE s
    IN IF s1[k].amt = s1[l].amt /\ KeyOf(s1[k]) < KeyOf(s1[l])
       THEN Swap(s1, k, l) ELSE s1

Init ==
    /\ input \in Inputs
    /\ vins = input
    /\ i = 1
    /\ j = 2

\* Mutant: the inner loop stops one entry short (j < vins.size() - 1).
InnerBoundShort(s) == Len(s) - 1

\* j < vins.size(), 1-based
InnerBound(s) == Len(s)

\* for (j = i + 1; j < vins.size(); j++) { ... }
InnerStep ==
    /\ i <= Len(vins) /\ j <= InnerBound(vins)
    /\ vins' = CompareSwap(vins, i, j)
    /\ j' = j + 1
    /\ UNCHANGED <<input, i>>

\* Mutant: the next row starts at j = i + 2, skipping the neighbour.
OuterStepSkip ==
    /\ i <= Len(vins) /\ j > InnerBound(vins)
    /\ i' = i + 1
    /\ j' = i + 3
    /\ UNCHANGED <<input, vins>>

\* for (i = 0; i < vins.size(); i++): the next row of the outer loop.
OuterStep ==
    /\ i <= Len(vins) /\ j > InnerBound(vins)
    /\ i' = i + 1
    /\ j' = i + 2
    /\ UNCHANGED <<input, vins>>

Next == InnerStep \/ OuterStep

Spec == Init /\ [][Next]_vars

\* The loops run on the caller's thread and wait for nothing.
FairSpec == Spec /\ WF_vars(Next)

Done == i > Len(vins)

-----------------------------------------------------------------------------
TypeOK ==
    /\ input \in Inputs
    /\ vins \in Seq(Entry) /\ Len(vins) = Len(input)
    /\ i \in 1..(MaxLen + 1) /\ j \in 2..(MaxLen + 2)

\* The order the code produces: larger amounts first, equal amounts by the
\* larger tie key first.
CodeBefore(a, b) == a.amt > b.amt \/ (a.amt = b.amt /\ KeyOf(a) >= KeyOf(b))

(***************************************************************************)
(* sortOutPoints implements SortedVinSet with the code's order: the VinSet *)
(* keeps the value passed in until the loops end, and then holds the same *)
(* entries with each one at least as large as every later one by amount,  *)
(* and on equal amounts by tie key; and the loops do end.  Each iteration *)
(* swaps in place, so one missed or misplaced swap shows as a wrong order *)
(* or a lost entry.                                                       *)
(***************************************************************************)
Abstract == INSTANCE SortedVinSet
    WITH Before <- CodeBefore, out <- IF Done THEN vins ELSE input, returned <- Done

SortRefinement == Abstract!Spec

(***************************************************************************)
(* The order spec.md section 4 gives for sort_outpoints: amount          *)
(* descending, ties by u256(txid) + vout ascending.  Once the loops end,  *)
(* the VinSet is sorted in that order, so coin selection spends the       *)
(* outpoints the spec says it spends.                                     *)
(***************************************************************************)
SpecBefore(a, b) == a.amt > b.amt \/ (a.amt = b.amt /\ KeyOf(a) <= KeyOf(b))

=============================================================================
