--------------------------- MODULE AdapterContract ---------------------------
(***************************************************************************)
(* What an adapter to a browser wallet promises the SDK, whichever wallet  *)
(* it is and however it words its answers: the adapter speaks for the      *)
(* account that was selected when it connected, for good; a signature that *)
(* sign() returns is whole -- of that account when the wallet is told who  *)
(* signs, of whoever is selected by then when it is not.  MetaMask's and   *)
(* Taproot's adapters may also pass on 64 bytes that are no signature.     *)
(***************************************************************************)
EXTENDS Integers

CONSTANT Keys

VARIABLES
  selected,   \* the account the wallet's user has selected
  holder,     \* the wallet and the key the adapter speaks for
  answer      \* what the last sign() came to

adapterVars == <<selected, holder, answer>>

Unconnected == [wallet |-> "none"]
NoSignature == [what |-> "nothing"]
OtherBytes == [what |-> "no signature"]

(* MetaMask is told which address signs. *)
SignedBy == IF holder.wallet = "MetaMask" THEN holder.key ELSE selected

AdapterInit ==
  /\ selected \in Keys
  /\ holder = Unconnected
  /\ answer = NoSignature

Select ==
  /\ selected' \in Keys
  /\ UNCHANGED <<holder, answer>>

Connect ==
  /\ holder = Unconnected
  /\ \E w \in {"MetaMask", "Phantom", "Taproot"} :
       holder' = [wallet |-> w, key |-> selected]
  /\ UNCHANGED <<selected, answer>>

Sign ==
  /\ holder # Unconnected
  /\ answer' = [what |-> "signature", len |-> 64, key |-> SignedBy]
  /\ UNCHANGED <<selected, holder>>

Mislead ==
  /\ holder # Unconnected /\ holder.wallet # "Phantom"
  /\ answer' = OtherBytes
  /\ UNCHANGED <<selected, holder>>

Fail ==
  /\ answer' = NoSignature
  /\ UNCHANGED <<selected, holder>>

AdapterNext == Select \/ Connect \/ Sign \/ Mislead \/ Fail

AdapterSpec == AdapterInit /\ [][AdapterNext]_adapterVars

=============================================================================
