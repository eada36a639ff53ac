-------------------------- MODULE MCAccountLedger --------------------------
(* Finite instances of AccountLedger for TLC.                              *)
EXTENDS AccountLedger

CONSTANTS t1, t2, t3, o1, o2

(* Two fills of one order: one with a fee, whose notional the venue rounds  *)
(* down where the engine rounds up, and one exact and without a fee.        *)
TwoFills ==
  [t \in {t1, t2} |->
    IF t = t1
    THEN [order |-> o1, side |-> "buy", price |-> 2, size |-> 6, rate |-> 9, paid |-> 1, fee |-> 2]
    ELSE [order |-> o1, side |-> "buy", price |-> 5, size |-> 2, rate |-> 0, paid |-> 1, fee |-> 0]]

=============================================================================
