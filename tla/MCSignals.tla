----------------------------- MODULE MCSignals -----------------------------
(***************************************************************************)
(* The parts that decide whether an order may be sent at all and share no  *)
(* state with each other: what wallets do, what external prices say, the   *)
(* compliance latch and the rate limiters. One run checks them: the        *)
(* initial state chooses which of them moves, so that the state spaces are *)
(* added and not multiplied.                                               *)
(***************************************************************************)
EXTENDS WalletWatch, ExternalFeed, ComplianceLatch, RateLimiter

VARIABLE part

TwoWallets == <<"w1", "w2">>
RefusedTrades == {<<"w2", 1>>}
TradeBounds == [w \in {"w1", "w2"} |-> IF w = "w1" THEN 7 ELSE 1]

vars == <<part, watchVars, quoteVars, latchVars, rateVars>>

Parts == {"wallets", "quotes", "latch", "rate"}
(* Parts that do not move start in one state.                               *)
Settled ==
  /\ part # "wallets" => listed = [w \in WalletSet |-> 0]
  /\ part # "latch" => mode = "paper" /\ about = "prohibited"

Init == part \in Parts /\ WatchInit /\ QuoteInit /\ LatchInit /\ RateInit /\ Settled

Wallets == part = "wallets" /\ WatchNext /\ UNCHANGED <<part, quoteVars, latchVars, rateVars>>
Quotes  == part = "quotes" /\ QuoteNext /\ UNCHANGED <<part, watchVars, latchVars, rateVars>>
Latches == part = "latch" /\ LatchNext /\ UNCHANGED <<part, watchVars, quoteVars, rateVars>>
Rates   == part = "rate" /\ RateNext /\ UNCHANGED <<part, watchVars, quoteVars, latchVars>>

(* The task and the loop go on, and requests fail only so often.            *)
Still == part = "wallets" /\ UNCHANGED <<part, quoteVars, latchVars, rateVars>>
TaskSteps == Still /\ (Report \/ StartCycle \/ EndCycle)
Sends     == Still /\ SendToLoop
Handles   == Still /\ HandleWalletMessage
Answered  == Still /\ \E w \in WalletSet : Fetches(w)
Fairness  == WF_vars(TaskSteps) /\ WF_vars(Sends) /\ WF_vars(Handles) /\ WF_vars(Answered)

Spec == Init /\ [][Wallets \/ Quotes \/ Latches \/ Rates]_vars /\ Fairness
=============================================================================
