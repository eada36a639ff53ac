--------------------------- MODULE MCPaperEngine ----------------------------
(* Finite instances of PaperEngine for TLC. *)
EXTENDS PaperEngine, TLC

LevelOf(price, size) == [price |-> price, size |-> size]
TopOf(bid, ask, size) ==
  [bids |-> <<LevelOf(bid, size)>>, asks |-> <<LevelOf(ask, size)>>]

TwoBids == [bids |-> <<LevelOf(2, 5), LevelOf(1, 5)>>, asks |-> <<LevelOf(4, 5)>>]
SmallBooks == {TopOf(1, 3, 9), TwoBids}
SmallTrades ==
  {LevelOf(2, 5) @@ [side |-> "sell"], LevelOf(3, 9) @@ [side |-> "buy"]}
ExactBooks == {TopOf(1, 4, 4)}
ExactTrades == {LevelOf(2, 2) @@ [side |-> "sell"]}

=============================================================================
