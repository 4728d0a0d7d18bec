----------------------------- MODULE QtumOutputs -----------------------------
(***************************************************************************)
(* What QtumState::execute derives from the output of a contract          *)
(* transaction: the address of the contract it creates (createQtumAddress *)
(* at State.cpp line 724) and, when the execution excepts, the input of   *)
(* the refund that returns its value (createP2PHTx at line 809).  Each    *)
(* output is checked in its initial state.                                *)
(***************************************************************************)
EXTENDS QtumCodec

VARIABLE out   \* an output of a contract transaction: <<txid, vout>>

Init == out \in Outpoints

Next == UNCHANGED out

Spec == Init /\ [][Next]_out

-----------------------------------------------------------------------------
(***************************************************************************)
(* An output is identified by what execute derives from it: no other       *)
(* output creates a contract at its address (spec section 4.D step 4:     *)
(* RIPEMD160(SHA256(txid || vout_number))), and the refund of an excepted  *)
(* execution spends this very output, the one that carried the value.     *)
(***************************************************************************)
OutputIdentity ==
    /\ \A o \in Outpoints : o # out => createQtumAddress(o) # createQtumAddress(out)
    /\ createP2PHTxInput(out) = out
=============================================================================
