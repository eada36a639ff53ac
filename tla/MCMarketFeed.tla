---------------------------- MODULE MCMarketFeed ----------------------------
(* Finite instances of MarketFeed for TLC. *)
EXTENDS MarketFeed
=============================================================================
