--------------------------- MODULE MC_BlockHeader ---------------------------
(***************************************************************************)
(* One value of the hashed header fields, one signature, two outpoints   *)
(* and two stake times: enough for a coinstake whose outpoint and time    *)
(* differ from those the cache holds.                                     *)
(***************************************************************************)
EXTENDS BlockHeader

CONSTANTS c1, s1, o1, o2

MCCores == {c1}
MCSigs == {s1}
MCOuts == {o1, o2}
MCStakeTimes == {1, 2}
=============================================================================
