------------------------------ MODULE FillBook ------------------------------
(***************************************************************************)
(* What the account ledger of src/src/engine.rs promises about the fills   *)
(* of this account, restarts included: a fill that was noted stays noted,  *)
(* one that was settled stays settled, settling closes all that is open at *)
(* once, and after a fill failed nothing is settled any more.              *)
(***************************************************************************)
CONSTANT Trades

VARIABLES
  noted,    \* fills the engine has durably recorded
  settled,  \* fills found in the account's balances
  failed    \* fills the venue reported as failed

vars == <<noted, settled, failed>>

Init == noted = {} /\ settled = {} /\ failed = {}

(* Fills become known, of which some turn out to have failed.               *)
Note(S, F) ==
  /\ noted' = noted \cup S \cup F /\ failed' = failed \cup F
  /\ UNCHANGED settled

(* The balances prove every fill noted so far, the news of this moment      *)
(* included.                                                                *)
Settle(S) ==
  /\ failed = {}
  /\ noted' = noted \cup S /\ settled' = noted'
  /\ UNCHANGED failed

Next == \E S \in SUBSET Trades : Settle(S) \/ \E F \in SUBSET Trades : Note(S, F)

Spec == Init /\ [][Next]_vars
=============================================================================
