---------------------------- MODULE SortedVinSet ----------------------------
(***************************************************************************)
(* What QtumState::sortOutPoints promises its caller, in one step: it     *)
(* returns, and the VinSet it leaves holds exactly the entries it was      *)
(* given, reordered so that every entry is Before each later one.  Which   *)
(* of several equally ranked orders comes out is left open.  VinSetSort,   *)
(* the loop itself, is shown to implement this specification.              *)
(***************************************************************************)
EXTENDS Sequences, SequencesExt, TLC

CONSTANTS
    Inputs,      \* the VinSets a caller may pass
    Before(_, _) \* the order promised: Before(a, b) when a may precede b

VARIABLES
    input,    \* the VinSet passed in
    out,      \* the VinSet as the caller sees it
    returned  \* whether the call has returned

avars == <<input, out, returned>>

\* Every sequence holding the entries of s, each as often as in s.
Reorderings(s) == {[k \in 1..Len(s) |-> s[f[k]]] : f \in Permutations(1..Len(s))}

\* An empty VinSet is returned as it is, with no loop iteration.
Init ==
    /\ input \in Inputs
    /\ out = input
    /\ returned = (input = <<>>)

Sort ==
    /\ ~returned
    /\ out' \in {s \in Reorderings(input) : IsSorted(s, Before)}
    /\ returned' = TRUE
    /\ UNCHANGED input

\* The call runs on the caller's thread and waits for nothing.
Spec == Init /\ [][Sort]_avars /\ WF_avars(Sort)
=============================================================================
