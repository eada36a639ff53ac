---------------------------- MODULE PaperEngine -----------------------------
(***************************************************************************)
(* Paper trading: the matching engine of src/src/paper.rs and the handlers *)
(* of src/src/engine.rs that drive it.  Every handler works on a clone of  *)
(* the engine, appends the clone to the journal and adopts it; an append   *)
(* that fails, or a check that breaks, ends the runtime, which cancels all *)
(* orders and can be started again.                                        *)
(*                                                                         *)
(* Money, prices and sizes are fixed-point numbers with One units to 1,    *)
(* so that every rounding of the code happens here too.  Time is what the  *)
(* code asks of it: which orders are past their time to live, which have   *)
(* examined the current book version, which the latest trade is too old    *)
(* for.  The journal is the store that module Journal implements: what a   *)
(* restart finds is the last state acknowledged, or one in flight.         *)
(***************************************************************************)
EXTENDS Integers, FiniteSets, Sequences, Folds, Functions

CONSTANTS
  Assets,        \* configured assets
  Ids,           \* client order ids, in the order the engine iterates them
  One,           \* fixed.rs SCALE
  StartingCash, FeeRate, Participation,   \* paper settings, in units
  Tick, MinSpread, MinOrder,              \* of the markets and the strategy
  Sizes,         \* bound: order sizes
  Books,         \* bound: [bids, asks], sequences of levels, best first
  Trades,        \* bound: [price, size, side of the aggressor]
  MaxOrders,     \* bound: orders submitted
  WriteFails     \* whether an append may fail

Level == [price : Nat, size : Nat]

ASSUME PaperAssumption ==
  /\ Ids \subseteq Nat /\ IsFiniteSet(Ids) /\ IsFiniteSet(Assets)
  /\ One \in Nat \ {0} /\ StartingCash \in Nat \ {0}
  /\ FeeRate \in 0..One /\ Participation \in 1..One
  /\ Tick \in Nat /\ MinSpread \in Nat /\ MinOrder \in Nat \ {0}
  /\ Sizes \subseteq Nat /\ MaxOrders \in Nat
  /\ \A b \in Books : b.bids \in Seq(Level) /\ b.asks \in Seq(Level)
  /\ \A t \in Trades : t.price \in Nat /\ t.size \in Nat /\ t.side \in {"buy", "sell"}
  /\ WriteFails \in BOOLEAN

VARIABLES
  engine,     \* the PaperEngine in memory
  durable,    \* the one a restart would find
  poisoned,   \* Journal::is_poisoned
  book,       \* last book of each asset, and whether it is tradeable
  due,        \* orders past their time to live
  turn,       \* assets whose event is handled but for the strategy
  paused,     \* the operator's pause
  outcome,    \* "running", or why the runtime ended
  submitted   \* orders submitted so far

vars == <<engine, durable, poisoned, book, due, turn, paused, outcome, submitted>>

Order == [asset : Assets, side : {"buy", "sell"}, strategy : {"maker", "copy"},
          price : 1..(One - 1), remaining : Nat \ {0},
          examined : BOOLEAN, traded : BOOLEAN]

TypeOK ==
  /\ \A e \in {engine, durable} :
       /\ e.cash \in Nat /\ e.realized \in Int
       /\ e.held \in [Assets -> Nat] /\ e.average \in [Assets -> 0..One]
       /\ DOMAIN e.orders \subseteq Ids
       /\ \A o \in DOMAIN e.orders : e.orders[o] \in Order
       /\ e.taken \in [Assets -> [buy : Nat, sell : Nat]]
  /\ poisoned \in BOOLEAN /\ paused \in BOOLEAN
  /\ \A a \in Assets : book[a].tradeable \in BOOLEAN
  /\ due \subseteq Ids /\ turn \subseteq Assets
  /\ outcome \in {"running", "shutdown", "journal", "fill", "state", "reserve"}
  /\ submitted \in 0..MaxOrders

-----------------------------------------------------------------------------
(* Fixed-point arithmetic: products are cut, money owed is rounded up.      *)
Mul(x, y)     == (x * y) \div One
MulCeil(x, y) == (x * y + One - 1) \div One
Div(x, y)     == (x * One) \div y
Fee(notional) == MulCeil(notional, FeeRate)
Least(x, y)   == IF x < y THEN x ELSE y

Participating(size) == Mul(size, Participation)

NewEngine ==
  [cash |-> StartingCash, realized |-> 0,
   held |-> [a \in Assets |-> 0], average |-> [a \in Assets |-> 0],
   orders |-> <<>>,
   \* history: what fills have taken from the current version of each book
   taken |-> [a \in Assets |-> [buy |-> 0, sell |-> 0]]]

Open(e, a, side) ==
  {o \in DOMAIN e.orders : e.orders[o].asset = a /\ e.orders[o].side = side}

BuyReserve(price, size) == LET n == MulCeil(price, size) IN n + Fee(n)
Reserves(e) == [o \in DOMAIN e.orders |-> BuyReserve(e.orders[o].price, e.orders[o].remaining)]
Reserved(e) == SumFunctionOnSet(Reserves(e), UNION {Open(e, a, "buy") : a \in Assets})
AvailableCash(e) == e.cash - Reserved(e)

Remaining(e) == [o \in DOMAIN e.orders |-> e.orders[o].remaining]
ReservedPosition(e, a) == SumFunctionOnSet(Remaining(e), Open(e, a, "sell"))
AvailablePosition(e, a) == e.held[a] - ReservedPosition(e, a)
ReserveBroken(e) == AvailableCash(e) < 0

(* validate_state, run before every append. *)
StateValid(e) == e.cash >= 0 /\ \A a \in Assets : e.average[a] <= One

Without(e, ids) == [e EXCEPT !.orders = [o \in DOMAIN e.orders \ ids |-> e.orders[o]]]
CancelAll(e) == [e EXCEPT !.orders = <<>>]
WithOrder(e, o, order) ==
  [e EXCEPT !.orders =
     [p \in DOMAIN e.orders \cup {o} |-> IF p = o THEN order ELSE e.orders[p]]]
Examined(e, ids, yes) ==
  [e EXCEPT !.orders = [o \in DOMAIN e.orders |->
     IF o \in ids THEN [e.orders[o] EXCEPT !.examined = yes] ELSE e.orders[o]]]

-----------------------------------------------------------------------------
(* apply_fill_at_price: {} if it is refused.                                *)
MutBought(e, a, quantity, price, cost, fee) ==
  LET size == e.held[a] + quantity
      paid == Mul(e.average[a], e.held[a]) + Mul(price, quantity) + fee
  IN [e EXCEPT !.cash = @ - cost,
               !.held[a] = size, !.average[a] = Div(paid, size)]
Bought(e, a, quantity, price, cost, fee) ==
  LET size == e.held[a] + quantity
      paid == Mul(e.average[a], e.held[a]) + Mul(price, quantity) + fee
  IN [e EXCEPT !.cash = @ - cost - fee,
               !.held[a] = size, !.average[a] = Div(paid, size)]

Sold(e, a, quantity, notional, fee) ==
  LET proceeds == notional - fee
      left     == e.held[a] - quantity
  IN [e EXCEPT !.cash = @ + proceeds,
               !.realized = @ + proceeds - Mul(e.average[a], quantity),
               !.held[a] = left, !.average[a] = IF left = 0 THEN 0 ELSE @]

Fill(e, a, side, quantity, price) ==
  LET notional == MulCeil(price, quantity)
      fee      == Fee(notional)
  IN IF side = "buy"
     THEN IF notional + fee > e.cash THEN {}
          ELSE {Bought(e, a, quantity, price, notional, fee)}
     ELSE IF quantity > e.held[a] THEN {}
          ELSE {Sold(e, a, quantity, notional, fee)}

(* The fills carried out in turn, or {} if one is refused. *)
Last(fills, S) == CHOOSE x \in S : \A y \in S : fills[y].turn <= fills[x].turn
Carried(e, fills) ==
  MapThenFoldSet(
    LAMBDA x, done : UNION {Fill(f, x.asset, x.side, x.quantity, x.price) : f \in done},
    {e}, LAMBDA x : fills[x], LAMBDA S : Last(fills, S), DOMAIN fills)

(* A plan says how much each of some orders gets. An order that is filled   *)
(* is pruned by the commit.                                                 *)
MutRest(orders, plan) ==
  [o \in DOMAIN orders |->
     IF o \in DOMAIN plan THEN [orders[o] EXCEPT !.remaining = @ - plan[o]] ELSE orders[o]]
Rest(orders, plan) ==
  [o \in {p \in DOMAIN orders : p \in DOMAIN plan => plan[p] < orders[p].remaining} |->
     IF o \in DOMAIN plan THEN [orders[o] EXCEPT !.remaining = @ - plan[o]] ELSE orders[o]]
Reduced(e, plan) == [e EXCEPT !.orders = Rest(e.orders, plan)]

FillsOf(e, plan) ==
  [o \in {p \in DOMAIN plan : plan[p] > 0} |->
     [turn |-> o, asset |-> e.orders[o].asset, side |-> e.orders[o].side,
      price |-> e.orders[o].price, quantity |-> plan[o]]]
Filled(e, plan) == {Reduced(f, plan) : f \in Carried(e, FillsOf(e, plan))}

(* Orders in turn take what those of their side before them have left.      *)
Share(want, left) == IF left > 0 THEN Least(want, left) ELSE 0
Before(e, ids, o) == {p \in ids : p < o /\ e.orders[p].side = e.orders[o].side}
Left(e, ids, liquidity, o) ==
  liquidity[e.orders[o].side] - SumFunctionOnSet(Remaining(e), Before(e, ids, o))
Plan(e, ids, liquidity) ==
  [o \in ids |-> Share(e.orders[o].remaining, Left(e, ids, liquidity, o))]

-----------------------------------------------------------------------------
TopSize(levels) == IF levels = <<>> THEN 0 ELSE levels[1].size
Crosses(order, b) ==
  IF order.side = "buy" THEN b.asks # <<>> /\ b.asks[1].price <= order.price
                        ELSE b.bids # <<>> /\ b.bids[1].price >= order.price

MutExamines(e, o) == e.orders[o].remaining > 0
Examines(e, o) == ~e.orders[o].examined

(* process_book_with_cancellations. *)
Looking(e, a, b) ==
  IF b.tradeable
  THEN {o \in (Open(e, a, "buy") \cup Open(e, a, "sell")) \ due : Examines(e, o)} ELSE {}
Crossed(e, a, b) == {o \in Looking(e, a, b) : Crosses(e.orders[o], b)}
Seen(e, a, b) ==
  Without(Examined(e, Looking(e, a, b), TRUE),
          (Open(e, a, "buy") \cup Open(e, a, "sell")) \cap due)
Grants(b) ==
  [buy |-> Participating(TopSize(b.asks)), sell |-> Participating(TopSize(b.bids))]

BookProcessed(e, a, b) ==
  LET plan == Plan(e, Crossed(e, a, b), Grants(b))
      amount(side) == SumFunctionOnSet(plan, Crossed(e, a, b) \cap Open(e, a, side))
  IN {[f EXCEPT !.taken[a].buy = @ + amount("buy"), !.taken[a].sell = @ + amount("sell")]
        : f \in Filled(Seen(e, a, b), plan)}

(* process_trade: the resting side fills if the trade went through its      *)
(* price; an order that finds no liquidity left is not marked.              *)
Resting(t) == IF t.side = "buy" THEN "sell" ELSE "buy"
Waiting(e, a, t) == {o \in Open(e, a, Resting(t)) \ due : ~e.orders[o].traded}
Through(e, a, t) ==
  {o \in Waiting(e, a, t) : IF Resting(t) = "buy" THEN t.price <= e.orders[o].price
                                                 ELSE t.price >= e.orders[o].price}
TradeProcessed(e, a, t) ==
  LET through   == Through(e, a, t)
      liquidity == [s \in {Resting(t)} |-> Participating(t.size)]
      marked    == {o \in Waiting(e, a, t) : Left(e, through, liquidity, o) > 0}
  IN Filled([e EXCEPT !.orders = [o \in DOMAIN e.orders |->
               IF o \in marked THEN [e.orders[o] EXCEPT !.traded = TRUE] ELSE e.orders[o]]],
            Plan(e, through, liquidity))

(* flatten_in_place: for each asset the bids within the slippage (all of    *)
(* them here), each in proportion, if the whole reaches the minimum order.  *)
Clips(e, a) ==
  LET share == [i \in DOMAIN book[a].bids |-> Participating(book[a].bids[i].size)]
  IN [i \in DOMAIN share |->
        Share(share[i], e.held[a] - SumFunctionOnSet(share, 1..(i - 1)))]
FlattenFills(e) ==
  LET large == {a \in Assets : SumFunction(Clips(e, a)) >= MinOrder}
      clips == UNION {{<<a, i>> : i \in {j \in DOMAIN Clips(e, a) : Clips(e, a)[j] > 0}} : a \in large}
  IN [c \in clips |->
        [turn |-> c[2], asset |-> c[1], side |-> "sell",
         price |-> book[c[1]].bids[c[2]].price, quantity |-> Clips(e, c[1])[c[2]]]]
FlattenedAll(e) == Carried(CancelAll(e), FlattenFills(e))

-----------------------------------------------------------------------------
(* Orders look at a new book version, or at a new trade, for the first      *)
(* time; those submitted after the trade's own time never do.               *)
Unexamined(e, a) ==
  [Examined(e, Open(e, a, "buy") \cup Open(e, a, "sell"), FALSE) EXCEPT
            !.taken[a] = [buy |-> 0, sell |-> 0]]
Untraded(e, a, young) ==
  [e EXCEPT !.orders = [o \in DOMAIN e.orders |->
     IF e.orders[o].asset = a THEN [e.orders[o] EXCEPT !.traded = o \in young] ELSE e.orders[o]]]

(* What a restart may find once the runtime has ended on an error: it       *)
(* cancels all orders, unless the journal refuses that append too.          *)
Stopped(why, found) ==
  /\ outcome' = why /\ turn' = {}
  /\ durable' \in found \cup IF poisoned \/ why = "journal" THEN {}
                              ELSE {CancelAll(e) : e \in found}
  /\ engine' \in found /\ poisoned' = FALSE

(* commit_paper_transition of a handler: current and found are engine and   *)
(* durable as the event makes them look, staged is at most one engine.      *)
Commit(current, found, staged) ==
  \/ staged = {} /\ Stopped("fill", {found})
  \/ /\ staged = {current}
     /\ engine' = current /\ durable' = found
     /\ UNCHANGED <<poisoned, outcome>>
  \/ \E s \in staged \ {current} :
       \/ ~StateValid(s) /\ Stopped("state", {found})
       \/ /\ StateValid(s) /\ ~poisoned
          /\ engine' = s /\ durable' = s
          /\ UNCHANGED <<poisoned, outcome>>
       \/ /\ StateValid(s) /\ (WriteFails \/ poisoned)
          /\ Stopped("journal", IF poisoned THEN {found} ELSE {found, s})

(* The same of an operator command: its failure is the operator's answer.   *)
Command(staged) ==
  \E s \in staged :
       \/ /\ StateValid(s) /\ ~poisoned
          /\ engine' = s /\ durable' = s /\ UNCHANGED poisoned
       \/ /\ StateValid(s) /\ WriteFails /\ ~poisoned
          /\ durable' \in {durable, s} /\ poisoned' = TRUE /\ UNCHANGED engine

Up    == outcome = "running"
Ready == Up /\ turn = {}

Init ==
  /\ engine = NewEngine /\ durable = NewEngine
  /\ poisoned = FALSE /\ due = {} /\ turn = {} /\ submitted = 0
  /\ paused \in BOOLEAN /\ outcome = "running"
  /\ book = [a \in Assets |-> [bids |-> <<>>, asks |-> <<>>, tradeable |-> FALSE]]

-----------------------------------------------------------------------------
(* handle_market_message, for one asset of an event: the book, the orders   *)
(* it fills, the commit; then the strategy has its turn.                    *)

BookEvent(a, b, again) ==
  LET next == [bids |-> b.bids, asks |-> b.asks,
               tradeable |-> b.bids # <<>> /\ b.asks # <<>>]
      current == IF again THEN engine ELSE Unexamined(engine, a)
      found   == IF again THEN durable ELSE Unexamined(durable, a)
  IN /\ Ready
     /\ again => b.bids = book[a].bids /\ b.asks = book[a].asks
     /\ book' = [book EXCEPT ![a] = next]
     /\ Commit(current, found, BookProcessed(current, a, next))
     /\ turn' = IF outcome' = "running" THEN {a} ELSE {}
     /\ UNCHANGED <<due, paused, submitted>>

TradeEvent(a, t, again, young) ==
  LET current == IF again THEN engine ELSE Untraded(engine, a, young)
      found   == IF again THEN durable ELSE Untraded(durable, a, young)
  IN /\ Ready
     /\ Commit(current, found, TradeProcessed(current, a, t))
     /\ turn' = IF outcome' = "running" THEN {a} ELSE {}
     /\ UNCHANGED <<book, due, paused, submitted>>

(* An event the book refuses, a tick size change or a resolved market: the  *)
(* asset's orders are cancelled and the strategy has no turn.               *)
Invalidate(a) ==
  /\ Ready
  /\ book' = [book EXCEPT ![a].tradeable = FALSE]
  /\ Commit(engine, durable,
            {Without(engine, Open(engine, a, "buy") \cup Open(engine, a, "sell"))})
  /\ UNCHANGED <<due, turn, paused, submitted>>

Disconnected ==
  /\ Ready
  /\ book' = [a \in Assets |-> [book[a] EXCEPT !.tradeable = FALSE]]
  /\ UNCHANGED <<engine, durable, poisoned, due, turn, paused, outcome, submitted>>

-----------------------------------------------------------------------------
MutCrossesOwn(e, a, side, price) == FALSE
CrossesOwn(e, a, side, price) ==
  IF side = "buy" THEN \E o \in Open(e, a, "sell") : price >= e.orders[o].price
                  ELSE \E o \in Open(e, a, "buy") : price <= e.orders[o].price

MutCovered(e, a, side, price, size) ==
  IF side = "buy" THEN BuyReserve(price, size) <= AvailableCash(e)
                  ELSE size <= e.held[a]
Covered(e, a, side, price, size) ==
  IF side = "buy" THEN BuyReserve(price, size) <= AvailableCash(e)
                  ELSE size <= AvailablePosition(e, a)

(* check_order, as far as the state of this module decides it. *)
Admissible(a, side, price, size) ==
  /\ book[a].tradeable
  /\ book[a].bids # <<>> /\ book[a].asks # <<>>
  /\ size >= MinOrder /\ price \in 1..(One - 1)
  /\ IF side = "buy" THEN price < book[a].asks[1].price
                     ELSE price > book[a].bids[1].price
  /\ ~CrossesOwn(engine, a, side, price)
  /\ Covered(engine, a, side, price, size)

(* submit_paper_intent; risk_state fails if the reserves are broken. *)
SubmitIntent(a, side, price, size, strategy) ==
  \/ ReserveBroken(engine) /\ Stopped("reserve", {durable}) /\ UNCHANGED <<due, submitted>>
  \/ /\ ~ReserveBroken(engine)
     /\ submitted < MaxOrders /\ submitted' = submitted + 1
     /\ Admissible(a, side, price, size)
     /\ \E o \in Ids \ (DOMAIN engine.orders \cup DOMAIN durable.orders) :
          LET order == [asset |-> a, side |-> side, strategy |-> strategy,
                        price |-> price, remaining |-> size,
                        examined |-> FALSE, traded |-> TRUE]
          IN /\ due' = due \ {o}
             /\ Commit(engine, durable,
                       {WithOrder(engine, o, order)})

(* ConservativeMaker.on_book one tick above the best bid. *)
Quote(a) ==
  /\ Up /\ a \in turn /\ ~paused
  /\ \A o \in DOMAIN engine.orders :
       ~(engine.orders[o].asset = a /\ engine.orders[o].strategy = "maker")
  /\ book[a].bids # <<>> /\ book[a].asks # <<>>
  /\ book[a].asks[1].price - book[a].bids[1].price >= MinSpread
  /\ turn' = {}
  /\ \E size \in Sizes :
       SubmitIntent(a, "buy", book[a].bids[1].price + Tick, size, "maker")
  /\ UNCHANGED <<book, paused>>

(* Paused, no spread, an open order, a closed gate, a full rate limiter. *)
NoQuote ==
  /\ Up /\ turn # {} /\ turn' = {}
  /\ UNCHANGED <<engine, durable, poisoned, book, due, paused, outcome, submitted>>

(* handle_wallet_message: wallet_copy_intent stays inside the spread. *)
Copy(a, side, size) ==
  /\ Ready /\ ~paused
  /\ book[a].bids # <<>> /\ book[a].asks # <<>>
  /\ book[a].bids[1].price + Tick < book[a].asks[1].price
  /\ SubmitIntent(a, side, IF side = "buy" THEN book[a].bids[1].price + Tick
                                          ELSE book[a].asks[1].price - Tick,
                  size, "copy")
  /\ turn' = {}
  /\ UNCHANGED <<book, paused>>

-----------------------------------------------------------------------------
OrderDue(o) ==
  /\ o \in DOMAIN engine.orders \ due
  /\ due' = due \cup {o}
  /\ UNCHANGED <<engine, durable, poisoned, book, turn, paused, outcome, submitted>>

(* maintain_runtime: cancel what is due, then the snapshot, which fails if  *)
(* the reserves are broken.                                                 *)
Maintain ==
  LET staged == Without(engine, due)
  IN /\ Ready
     /\ IF ReserveBroken(staged) /\ ~poisoned
        THEN Stopped("reserve", {staged})
        ELSE Commit(engine, durable, {staged})
     /\ turn' = {}
     /\ UNCHANGED <<book, due, paused, submitted>>

(* cancel_all_paper_for_compliance. *)
ComplianceCancels ==
  /\ Ready
  /\ Commit(engine, durable, {CancelAll(engine)})
  /\ paused' = TRUE
  /\ UNCHANGED <<book, due, turn, submitted>>

(* handle_operator_command. *)
Pause ==
  /\ Ready /\ paused' = ~paused
  /\ UNCHANGED <<engine, durable, poisoned, book, due, turn, outcome, submitted>>

CancelOrders ==
  /\ Ready
  /\ Command({CancelAll(engine), Without(engine, due)} \ {engine})
  /\ UNCHANGED <<book, due, turn, paused, outcome, submitted>>

Flatten ==
  /\ Ready
  /\ \A a \in Assets : engine.held[a] > 0 => book[a].tradeable /\ book[a].bids # <<>>
  /\ Command(FlattenedAll(engine))
  /\ UNCHANGED <<book, due, turn, paused, outcome, submitted>>

(* The end of the process: ordered, or at any time. *)
Shutdown ==
  /\ Ready
  /\ Stopped("shutdown", {engine})
  /\ UNCHANGED <<book, due, paused, submitted>>

(* recover_paper_engine; the books wait for their first snapshot. *)
Restart ==
  /\ ~Up
  /\ StateValid(durable)
  /\ engine' = durable /\ UNCHANGED durable
  /\ outcome' = "running" /\ paused' \in BOOLEAN
  /\ book' = [a \in Assets |-> [book[a] EXCEPT !.tradeable = FALSE]]
  /\ UNCHANGED <<poisoned, due, turn, submitted>>

Next ==
  \/ \E a \in Assets :
       \/ \E b \in Books, again \in BOOLEAN : BookEvent(a, b, again)
       \/ \E t \in Trades, again \in BOOLEAN, young \in SUBSET DOMAIN engine.orders :
            TradeEvent(a, t, again, young)
       \/ Invalidate(a) \/ Quote(a)
       \/ \E side \in {"buy", "sell"}, size \in Sizes : Copy(a, side, size)
  \/ \E o \in Ids : OrderDue(o)
  \/ Disconnected \/ NoQuote \/ Maintain \/ ComplianceCancels
  \/ Pause \/ CancelOrders \/ Flatten \/ Shutdown \/ Restart

Spec == Init /\ [][Next]_vars

-----------------------------------------------------------------------------
(* available_position: whatever fills, copies and cancels interleave, open  *)
(* sells never promise more than is held.                                   *)
PositionReserved == \A a \in Assets : AvailablePosition(engine, a) >= 0

(* No sequence of fills makes the open buys promise more cash than there is *)
(* (paper_reserved_cash_invariant_broken), or an order unable to pay: the   *)
(* runtime never ends for either.                                           *)
RunsWithinReserve == outcome \notin {"reserve", "fill"}

(* Fills take from a version of a book no more than the share of its top    *)
(* that the simulation grants, however often the version arrives.           *)
LiquidityOnce ==
  \A a \in Assets :
    /\ engine.taken[a].buy <= Participating(TopSize(book[a].asks))
    /\ engine.taken[a].sell <= Participating(TopSize(book[a].bids))

(* has_self_trade: own orders, of whatever strategy and whenever submitted, *)
(* never cross each other.                                                  *)
NoSelfCross ==
  \A a \in Assets : \A b \in Open(engine, a, "buy"), s \in Open(engine, a, "sell") :
    engine.orders[b].price < engine.orders[s].price

(* Cash and positions at cost never exceed what the reported profit says.   *)
EquityReported ==
  engine.cash + SumFunctionOnSet([a \in Assets |-> Mul(engine.average[a], engine.held[a])], Assets)
    <= StartingCash + engine.realized

=============================================================================
