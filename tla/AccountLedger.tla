--------------------------- MODULE AccountLedger ---------------------------
(***************************************************************************)
(* The account ledger of the live engine (src/src/engine.rs): how fills    *)
(* become known (user stream, reconnect, periodic audit, start-up), how    *)
(* they are journaled with the account they are to be compared with, how   *)
(* stable reads of the balances settle them, and the high-water mark of    *)
(* the equity that losses are measured from.                               *)
(*                                                                         *)
(* An account is the set of fills that show in its positions and the set   *)
(* that show in its cash; the engine compares only the numbers they make.  *)
(* The account trades one asset. The journal is kept as what               *)
(* recover_account_ledger makes of its records: the baseline of the first  *)
(* record of each trade and order, the latest status, the settled trades.  *)
(***************************************************************************)
EXTENDS Integers, Sequences, FiniteSets, Functions

CONSTANTS
  Trades,         \* fills of this account's orders
  Fill,           \* the terms of each: order, side, price, size, fee rate; what is paid and charged
  One,            \* a price of 1, and a size of 1, in units (SCALE)
  RateUnit,       \* a fee rate of 1 (10 000 basis points)
  Quantum,        \* the precision of fees in units (five decimals)
  StartCash, StartSize, Mark,  \* the account before the first fill; the price it is valued at
  QueueCapacity,  \* bound: messages of the user stream on their way to the loop
  Course,         \* bound: the statuses the venue gives to fills
  Faults          \* any of "crash", "late"

Statuses == {"matched", "retrying", "mined", "confirmed", "failed", "unheard-of"}

Orders == {Fill[t].order : t \in Trades}

Mul(x, y)     == (x * y) \div One
MulCeil(x, y) == (x * y + One - 1) \div One

(* The fees the venue may charge: rounded to its precision, either way.     *)
VenueFees ==
  LET scale == One * One * RateUnit
      exact(t) == Fill[t].size * Fill[t].price * (One - Fill[t].price) * Fill[t].rate
  IN [t \in Trades |-> {f \in 0..Fill[t].size : f % Quantum = 0 /\ exact(t) - f * scale \in
        (1 - Quantum * scale)..(Quantum * scale - 1)}]

(* The venue pays a notional of fewer digits than the product has: rounded  *)
(* either way.                                                              *)
VenuePays ==
  [t \in Trades |-> {Mul(Fill[t].price, Fill[t].size), MulCeil(Fill[t].price, Fill[t].size)}]

ASSUME LedgerAssumption ==
  /\ IsFiniteSet(Trades)
  /\ One \in Nat \ {0} /\ RateUnit \in Nat \ {0} /\ Quantum \in Nat \ {0}
  /\ StartCash \in Nat /\ StartSize \in Nat /\ Mark \in Nat
  /\ \A t \in Trades :
       /\ Fill[t].side \in {"buy", "sell"} /\ Fill[t].price \in 1..(One - 1)
       /\ Fill[t].size \in Nat \ {0} /\ Fill[t].rate \in 0..RateUnit
       /\ Fill[t].paid \in VenuePays[t] /\ Fill[t].fee \in VenueFees[t]
  /\ QueueCapacity \in Nat \ {0}
  /\ Course \subseteq Statuses

VARIABLES
  standing,   \* venue: status of each fill, "none" before it happens
  listed,     \* venue: fills in the trade history
  shown,      \* venue: fills in the positions and in the cash
  queue,      \* messages of the user stream
  up,         \* the run loop is running
  ledger,     \* trade_ledger: latest status of each trade
  settled,    \* trades whose entry is reconciled
  pending,    \* pending_account_reconciliation: no trade and no order if there is none
  account,    \* last_account_snapshot
  latched,    \* safety_latched
  reading,    \* the half of a double read that has returned
  journal,    \* account mutations and reconciliations, durable
  highWater,  \* the daily risk baseline's file
  peak        \* history: the highest equity a reading has shown

venueVars  == <<standing, listed, shown>>
memoryVars == <<ledger, settled, pending, account, latched>>
vars == <<venueVars, queue, up, memoryVars, reading, journal, highWater, peak>>

Active(s) == s \in {"matched", "retrying", "mined", "confirmed"}
Rank ==
  [s \in Statuses |-> CASE s = "matched" -> 0 [] s = "retrying" -> 1 [] s = "mined" -> 2
                        [] s = "confirmed" -> 3 [] s = "failed" -> 4 [] OTHER -> 5]
Latest(old, new) == IF old = "none" \/ Rank[new] >= Rank[old] THEN new ELSE old

Account == [positions : SUBSET Trades, cash : SUBSET Trades]
NoAccount == [positions |-> {}, cash |-> {}]
NoPending == [baseline |-> NoAccount, trades |-> {}, unresolved |-> {}]
IsOpen(p) == p.trades \cup p.unresolved # {}

(* The numbers of an account.                                               *)
Signed(t, x) == IF Fill[t].side = "buy" THEN x ELSE -x
Sizes == [t \in Trades |-> Signed(t, Fill[t].size)]
Paid  == [t \in Trades |-> Signed(t, Fill[t].paid) + Fill[t].fee]
Size(a) == StartSize + SumFunctionOnSet(Sizes, a.positions)
Cash(a) == StartCash - SumFunctionOnSet(Paid, a.cash)
Equity(a) == Cash(a) + Mul(Size(a), Mark)
SameNumbers(a, b) == Size(a) = Size(b) /\ Cash(a) = Cash(b)

-----------------------------------------------------------------------------
(* Types.                                                                   *)
Notice == [kind : {"trade"}, trade : Trades, status : Statuses]
          \cup [kind : {"order"}, order : Orders] \cup [kind : {"connected"}]
History == [Trades -> Statuses \cup {"none"}]
NoHistory == [t \in Trades |-> "none"]
NoReading == [of |-> "nothing"]
Reading ==
  {NoReading} \cup [of : {"account"}, account : Account]
  \cup [of : {"history", "startup"}, history : History]
Journal ==
  [status : History, trade : [Trades -> Account], ordered : SUBSET Orders,
   order : [Orders -> Account], settled : SUBSET Trades]

TypeOK ==
  /\ standing \in History /\ listed \subseteq Trades /\ shown \in Account
  /\ queue \in Seq(Notice) /\ Len(queue) <= QueueCapacity
  /\ up \in BOOLEAN /\ reading \in Reading
  /\ ledger \in History /\ settled \subseteq Trades /\ latched \in BOOLEAN
  /\ pending \in [baseline : Account, trades : SUBSET Trades, unresolved : SUBSET Orders]
  /\ \A t \in pending.trades : ledger[t] # "none" /\ t \notin settled
  /\ account \in Account /\ journal \in Journal
  /\ highWater \in Int /\ peak \in Int

Init ==
  /\ standing = NoHistory /\ listed = {} /\ shown = NoAccount
  /\ queue = <<>> /\ up = FALSE /\ reading = NoReading
  /\ ledger = NoHistory /\ settled = {} /\ pending = NoPending
  /\ account = NoAccount /\ latched = FALSE
  /\ journal = [status |-> NoHistory, trade |-> [t \in Trades |-> NoAccount], ordered |-> {},
                order |-> [o \in Orders |-> NoAccount], settled |-> {}]
  /\ highWater = 0 /\ peak = 0

-----------------------------------------------------------------------------
(* The venue. Positions, cash and trade history show a fill independently   *)
(* of each other; one that fails was never settled.                         *)
Executes(t) ==
  /\ standing[t] = "none" /\ standing' = [standing EXCEPT ![t] = "matched"]
  /\ UNCHANGED <<listed, shown>>

Advances(t, s) ==
  /\ standing[t] # "none" /\ Rank[s] > Rank[standing[t]]
  /\ ~Active(s) => t \notin shown.positions \cup shown.cash
  /\ standing' = [standing EXCEPT ![t] = s]
  /\ UNCHANGED <<listed, shown>>

Lists(t) ==
  /\ standing[t] # "none" /\ t \notin listed /\ listed' = listed \cup {t}
  /\ UNCHANGED <<standing, shown>>

Appears(t) ==
  /\ standing[t] # "none" /\ Active(standing[t])
  /\ \/ t \notin shown.positions /\ shown' = [shown EXCEPT !.positions = @ \cup {t}]
     \/ t \notin shown.cash /\ shown' = [shown EXCEPT !.cash = @ \cup {t}]
  /\ UNCHANGED <<standing, listed>>

VenueActs ==
  /\ \E t \in Trades : Executes(t) \/ Lists(t) \/ Appears(t) \/ \E s \in Course : Advances(t, s)
  /\ UNCHANGED <<queue, up, memoryVars, reading, journal, highWater, peak>>

(* The user stream: a trade may be announced again and late, or never.      *)
Announces(n) ==
  /\ up /\ Len(queue) < QueueCapacity
  /\ queue' = Append(queue, n)
  /\ UNCHANGED <<venueVars, up, memoryVars, reading, journal, highWater, peak>>

StreamSends ==
  \/ \E t \in Trades, s \in Course :
       /\ standing[t] # "none" /\ Rank[s] <= Rank[standing[t]]
       /\ "late" \in Faults \/ s = standing[t]
       /\ Announces([kind |-> "trade", trade |-> t, status |-> s])
  \/ \E t \in Trades :
       standing[t] # "none" /\ Announces([kind |-> "order", order |-> Fill[t].order])
  \/ Announces([kind |-> "connected"])

-----------------------------------------------------------------------------
(* Recording news of fills, in the journal first and then in memory.        *)
TradeHistory == [t \in Trades |-> IF t \in listed THEN standing[t] ELSE "none"]
OrdersOf(S) == {Fill[t].order : t \in S}
KnownOrders(h) == OrdersOf({t \in Trades : h[t] # "none"})

(* What further changes are to be compared with.                            *)
Baseline == IF IsOpen(pending) THEN pending.baseline ELSE account

(* The trades of a history that say something new to a ledger.              *)
MutNews(h, known) ==
  {t \in Trades : h[t] # "none" /\ known[t] # "none" /\ Latest(known[t], h[t]) # known[t]}
News(h, known) ==
  {t \in Trades : h[t] # "none" /\ (known[t] = "none" \/ Latest(known[t], h[t]) # known[t])}

Noted(known, S, h) == [t \in Trades |-> IF t \in S THEN Latest(known[t], h[t]) ELSE known[t]]

Journaled(j, S, h, base) ==
  [j EXCEPT !.status = Noted(j.status, S, h),
            !.trade = [t \in Trades |-> IF t \in S /\ j.status[t] = "none" THEN base ELSE @[t]]]

MutOpenedBy(S, h) ==
  LET new == {t \in S : Active(h[t])} IN
  IF new = {} THEN pending
  ELSE [baseline |-> Baseline, trades |-> pending.trades \cup new,
        unresolved |-> pending.unresolved \ OrdersOf(new)]
OpenedBy(S, h) ==
  LET new == {t \in S : Active(h[t])} \ settled IN
  IF new = {} THEN pending
  ELSE [baseline |-> Baseline, trades |-> pending.trades \cup new,
        unresolved |-> pending.unresolved \ OrdersOf(new)]

FailedIn(S, h) == \E t \in S : ~Active(h[t])

-----------------------------------------------------------------------------
(* The proof that balances show every open fill.                            *)
FeeBase(t, times(_, _)) ==
  times(times(Fill[t].size, Fill[t].price), One - Fill[t].price)
FeeLow ==
  [t \in Trades |-> IF Fill[t].rate = 0 THEN 0
                    ELSE (((FeeBase(t, Mul) * Fill[t].rate) \div RateUnit) \div Quantum) * Quantum]
CeilDiv(x, y) == (x + y - 1) \div y
MutFeeHigh ==
  [t \in Trades |-> IF Fill[t].rate = 0 THEN 0
                    ELSE CeilDiv((FeeBase(t, Mul) * Fill[t].rate) \div RateUnit, Quantum) * Quantum]
FeeHigh ==
  [t \in Trades |-> IF Fill[t].rate = 0 THEN 0
                    ELSE CeilDiv(CeilDiv(FeeBase(t, MulCeil) * Fill[t].rate, RateUnit), Quantum) * Quantum]

Proven(p, h) == {t \in p.trades : h[t] # "none" /\ Active(h[t])}

(* What a notional gains when it is rounded up instead of down.             *)
Rounded ==
  [t \in Trades |-> MulCeil(Fill[t].price, Fill[t].size) - Mul(Fill[t].price, Fill[t].size)]
Costs == [t \in Trades |-> Signed(t, MulCeil(Fill[t].price, Fill[t].size))]
MutReconciled(p, a, proven, cash) ==
  p.trades # {} /\ p.unresolved = {} /\ p.trades \subseteq proven
Reconciled(p, a, proven, cash) ==
  LET size == Size(p.baseline) + SumFunctionOnSet(Sizes, p.trades)
      free == Cash(p.baseline) - SumFunctionOnSet(Costs, p.trades)
  IN /\ p.trades # {} /\ p.unresolved = {}
     /\ size >= 0 /\ Size(a) = size
     /\ p.trades \subseteq proven
     /\ cash >= free - SumFunctionOnSet(FeeHigh, proven)
     /\ cash <= free - SumFunctionOnSet(FeeLow, proven)

(* apply_equity_high_water: a new day does not lower the mark.              *)
MutHighWater(a, date_changed) ==
  IF ~date_changed /\ Equity(a) <= highWater THEN highWater ELSE Equity(a)
HighWater(a, date_changed) ==
  IF ~date_changed /\ Equity(a) <= highWater THEN highWater
  ELSE IF highWater > Equity(a) THEN highWater ELSE Equity(a)
Observes(a) ==
  /\ \E date_changed \in BOOLEAN : highWater' = HighWater(a, date_changed)
  /\ peak' = IF Equity(a) > peak THEN Equity(a) ELSE peak

-----------------------------------------------------------------------------
(* handle_user_message                                                      *)
TakeTrade ==
  /\ up /\ reading = NoReading /\ queue # <<>> /\ Head(queue).kind = "trade"
  /\ LET S == {Head(queue).trade}
         h == [t \in Trades |-> IF t \in S THEN Head(queue).status ELSE "none"]
     IN /\ journal' = Journaled(journal, S, h, Baseline)
        /\ ledger' = Noted(ledger, S, h)
        /\ pending' = OpenedBy(S, h)
        /\ latched' = (latched \/ FailedIn(S, h))
  /\ queue' = Tail(queue)
  /\ UNCHANGED <<venueVars, up, settled, account, reading, highWater, peak>>

(* An order notice opens a reconciliation unless a trade names the order.   *)
TakeOrder ==
  /\ up /\ reading = NoReading /\ queue # <<>> /\ Head(queue).kind = "order"
  /\ LET o == Head(queue).order IN
     /\ journal' = [journal EXCEPT !.ordered = @ \cup {o},
                      !.order[o] = IF o \in journal.ordered THEN @ ELSE Baseline]
     /\ pending' = IF o \in KnownOrders(ledger) THEN pending
                   ELSE [pending EXCEPT !.baseline = Baseline, !.unresolved = @ \cup {o}]
  /\ queue' = Tail(queue)
  /\ UNCHANGED <<venueVars, up, ledger, settled, account, latched, reading, highWater, peak>>

(* The stream is up again: its trade history is read, unless an event       *)
(* follows already or the read fails, which latches.                        *)
TakeConnected ==
  /\ up /\ reading = NoReading /\ queue # <<>> /\ Head(queue).kind = "connected"
  /\ queue' = Tail(queue)
  /\ \/ /\ Tail(queue) = <<>>
        /\ LET h == TradeHistory
               S == News(h, ledger)
           IN /\ journal' = Journaled(journal, S, h, Baseline)
              /\ ledger' = Noted(ledger, S, h)
              /\ pending' = OpenedBy(S, h)
              /\ latched' = (latched \/ FailedIn(S, h))
     \/ latched' = TRUE /\ UNCHANGED <<journal, ledger, pending>>
  /\ UNCHANGED <<venueVars, up, settled, account, reading, highWater, peak>>

-----------------------------------------------------------------------------
(* maintain_live_account_reconciliation: account and trade history are read *)
(* side by side, so either may be the older one. Whatever the stream        *)
(* announces meanwhile voids them.                                          *)
(* Two reads in a row that agree: balance and positions of one instant.     *)
AccountRead == shown

Audits == reading.of \in {"account", "history"}

AuditReads ==
  /\ up /\ reading = NoReading /\ queue = <<>>
  /\ \/ reading' = [of |-> "account", account |-> AccountRead]
     \/ reading' = [of |-> "history", history |-> TradeHistory]
  /\ UNCHANGED <<venueVars, queue, up, memoryVars, journal, highWater, peak>>

AuditVoid ==
  /\ Audits /\ reading' = NoReading
  /\ UNCHANGED <<venueVars, queue, up, memoryVars, journal, highWater, peak>>

Settles(p, a) ==
  /\ account' = a /\ settled' = settled \cup p.trades /\ pending' = NoPending

AuditApplies ==
  /\ Audits /\ queue = <<>> /\ reading' = NoReading
  /\ LET a == IF reading.of = "account" THEN reading.account ELSE AccountRead
         h == IF reading.of = "history" THEN reading.history ELSE TradeHistory
         S == News(h, ledger)
         p == OpenedBy(S, h)
         noted == Journaled(journal, S, h, Baseline)
     IN /\ ledger' = Noted(ledger, S, h)
        /\ latched' = (latched \/ FailedIn(S, h))
        /\ \/ /\ latched'
              /\ pending' = p /\ journal' = noted
              /\ UNCHANGED <<account, settled, highWater, peak>>
           \/ /\ ~latched' /\ Observes(a)
              /\ \/ ~IsOpen(p) /\ account' = a /\ pending' = p /\ settled' = settled /\ journal' = noted
                 \/ /\ IsOpen(p) /\ Reconciled(p, a, Proven(p, h), Cash(a))
                    /\ Settles(p, a) /\ journal' = [noted EXCEPT !.settled = @ \cup p.trades]
                 \/ /\ IsOpen(p) /\ ~Reconciled(p, a, Proven(p, h), Cash(a))
                    /\ pending' = p /\ journal' = noted /\ UNCHANGED <<account, settled>>
  /\ UNCHANGED <<venueVars, queue, up>>

(* A crash between two records of one reading.                              *)
AuditDies ==
  /\ "crash" \in Faults /\ Audits /\ queue = <<>>
  /\ LET h == IF reading.of = "history" THEN reading.history ELSE TradeHistory
     IN \E S \in SUBSET News(h, ledger) :
          S # {} /\ journal' = Journaled(journal, S, h, Baseline)
  /\ up' = FALSE /\ reading' = NoReading
  /\ ledger' = NoHistory /\ settled' = {} /\ pending' = NoPending /\ account' = NoAccount
  /\ latched' = FALSE /\ UNCHANGED <<venueVars, queue, highWater, peak>>

(* The account part of submit_live_intent: its own proof of the open trades *)
(* is empty, so that nothing open can be settled here.                      *)
Submits ==
  /\ up /\ reading = NoReading /\ queue = <<>>
  /\ Observes(AccountRead)
  /\ \/ IsOpen(pending) /\ ~Reconciled(pending, AccountRead, {}, Cash(AccountRead)) /\ UNCHANGED account
     \/ ~IsOpen(pending) /\ account' = AccountRead
  /\ UNCHANGED <<venueVars, queue, up, ledger, settled, pending, latched, reading, journal>>

-----------------------------------------------------------------------------
(* The end of a process and the start of the next.                          *)
Crash ==
  /\ "crash" \in Faults /\ (up \/ reading # NoReading)
  /\ up' = FALSE /\ queue' = <<>> /\ reading' = NoReading
  /\ ledger' = NoHistory /\ settled' = {} /\ pending' = NoPending /\ account' = NoAccount
  /\ latched' = FALSE
  /\ UNCHANGED <<venueVars, journal, highWater, peak>>

(* recover_account_ledger                                                   *)
Noticed(j) == {t \in Trades : j.status[t] # "none"}
OpenTrades(j) == {t \in Noticed(j) : Active(j.status[t])} \ j.settled
MutOpenOrders(j) == j.ordered \ OrdersOf(OpenTrades(j))
OpenOrders(j) == j.ordered \ OrdersOf(Noticed(j))
OpenBaselines(j) == {j.trade[t] : t \in OpenTrades(j)} \cup {j.order[o] : o \in OpenOrders(j)}
Conflicting(j) == \E a, b \in OpenBaselines(j) : ~SameNumbers(a, b)
MutRecoveredLatch(j) == FALSE
RecoveredLatch(j) == \E t \in Noticed(j) : ~Active(j.status[t])
RecoveredPending(j) ==
  IF OpenBaselines(j) = {} THEN NoPending
  ELSE [baseline |-> CHOOSE a \in OpenBaselines(j) : TRUE,
        trades |-> OpenTrades(j), unresolved |-> OpenOrders(j)]

(* initialize_live_runtime: the trade history is read before the account.   *)
StartReads ==
  /\ ~up /\ reading = NoReading
  /\ reading' = [of |-> "startup", history |-> TradeHistory]
  /\ UNCHANGED <<venueVars, queue, up, memoryVars, journal, highWater, peak>>

StartBase ==
  IF OpenBaselines(journal) = {} THEN AccountRead ELSE RecoveredPending(journal).baseline

StartApplies ==
  /\ reading.of = "startup" /\ reading' = NoReading /\ Observes(AccountRead)
  /\ LET h == reading.history
         j == Journaled(journal, News(h, journal.status), h, StartBase)
         p == RecoveredPending(j)
         refused == \/ Conflicting(journal) \/ Conflicting(j) \/ RecoveredLatch(j)
                    \/ IsOpen(p) /\ ~Reconciled(p, AccountRead, Proven(p, h), Cash(AccountRead))
     IN \/ /\ refused /\ journal' = IF Conflicting(journal) THEN journal ELSE j
           /\ UNCHANGED <<up, memoryVars>>
        \/ /\ ~refused /\ journal' = [j EXCEPT !.settled = @ \cup p.trades]
           /\ up' = TRUE /\ ledger' = j.status /\ latched' = FALSE
           /\ account' = AccountRead /\ settled' = journal'.settled /\ pending' = NoPending
  /\ UNCHANGED <<venueVars, queue>>

(* A crash between two of the records that a start appends.                 *)
StartDies ==
  /\ "crash" \in Faults /\ reading.of = "startup" /\ reading' = NoReading
  /\ Observes(AccountRead)
  /\ \E S \in SUBSET News(reading.history, journal.status) :
       /\ Conflicting(journal) => S = {}
       /\ journal' = Journaled(journal, S, reading.history, StartBase)
  /\ UNCHANGED <<venueVars, queue, up, memoryVars>>

Next ==
  \/ VenueActs \/ StreamSends
  \/ TakeTrade \/ TakeOrder \/ TakeConnected
  \/ AuditReads \/ AuditVoid \/ AuditApplies \/ AuditDies \/ Submits
  \/ Crash \/ StartReads \/ StartApplies \/ StartDies

Spec == Init /\ [][Next]_vars

-----------------------------------------------------------------------------
(* What a restart would recover is what the process holds: the same open    *)
(* trades and orders with one and the same baseline, and a failed trade is  *)
(* never forgotten (recover_account_ledger against                          *)
(* record_pending_account_event, through every mixture of news and crashes).*)
RestartRecovers ==
  /\ ~Conflicting(journal)
  /\ up => /\ ledger = journal.status /\ settled = journal.settled
           /\ RecoveredLatch(journal) => latched
           /\ latched \/ LET p == RecoveredPending(journal) IN
                /\ pending.trades = p.trades /\ pending.unresolved = p.unresolved
                /\ SameNumbers(pending.baseline, p.baseline)

(* When nothing is open, the account the next order is judged by has every  *)
(* recorded fill in its positions and in its cash, whichever of the four    *)
(* paths brought the news and however far the reads lag behind each other:  *)
(* its numbers are those of some set of fills that includes them all, the   *)
(* cash up to the width of their fee envelopes and the rounding of their    *)
(* notionals. Only where no settlement is mistaken: a start that finds      *)
(* fills which cancel out to nothing, all of them unknown, settles them by  *)
(* an account that need not show them.                                      *)
AccountShowsRecorded ==
  up /\ ~latched /\ ~IsOpen(pending) =>
    LET recorded == {t \in Trades : ledger[t] # "none"}
        possible == {S \in SUBSET {t \in Trades : standing[t] # "none"} : recorded \subseteq S}
        slack == SumFunctionOnSet(FeeHigh, recorded) - SumFunctionOnSet(FeeLow, recorded)
                 + SumFunctionOnSet(Rounded, recorded)
    IN /\ \E S \in possible : Size(account) = Size([account EXCEPT !.positions = S])
       /\ \E S \in possible :
            Cash(account) - Cash([account EXCEPT !.cash = S]) \in -slack..slack

(* The proof rejects a true account by no more than the notionals lose to   *)
(* rounding: whatever fees the venue may charge for the open fills, and     *)
(* whichever way it rounds what it pays, the balances that show the         *)
(* baseline and these fills (never fewer tokens than none) settle them, or  *)
(* would with as many units more or less as were rounded down. The engine   *)
(* rounds every notional up (pending_account_reconciled), so that nothing   *)
(* is missing where the venue does (authoritative_trade_fee_bounds).        *)
ProofComplete ==
  pending.trades # {} /\ pending.unresolved = {}
    /\ pending.trades \cap (pending.baseline.positions \cup pending.baseline.cash) = {} =>
    LET P == pending.trades
        a == [pending.baseline EXCEPT !.positions = @ \cup P]
        Choices(of) == {f \in [P -> UNION {of[t] : t \in P}] : \A t \in P : f[t] \in of[t]}
    IN Size(a) >= 0 =>
       \A pays \in Choices(VenuePays), fee \in Choices(VenueFees) :
         LET charged == [t \in P |-> Signed(t, pays[t]) + fee[t]]
             lost == SumFunctionOnSet([t \in P |-> MulCeil(Fill[t].price, Fill[t].size) - pays[t]], P)
             left == Cash(pending.baseline) - SumFunctionOnSet(charged, P)
         IN \E d \in -lost..lost : Reconciled(pending, a, P, left + d)

(* No restart and no change of date lowers the equity that losses are       *)
(* measured from below what any reading has shown, and no path adopts an    *)
(* account without raising it to that account's.                            *)
LossKept == highWater >= peak /\ (up => highWater >= Equity(account))

(* The durable ledger keeps the promise of FillBook.                        *)
Failures(j) == {t \in Noticed(j) : ~Active(j.status[t])}
Book == INSTANCE FillBook WITH
  noted <- Noticed(journal), settled <- journal.settled, failed <- Failures(journal)
BookImplemented == Book!Spec

(* A fill that is compared with a baseline that already shows it.           *)
Absorbed ==
  \E t \in OpenTrades(journal) \cup {t \in Trades : Fill[t].order \in OpenOrders(journal)},
     a \in OpenBaselines(journal) : t \in a.positions \cup a.cash

Fairness ==
  /\ \A t \in Trades : WF_vars(VenueActs /\ (Lists(t) \/ Appears(t)))
  /\ LET Takes == TakeTrade \/ TakeOrder \/ TakeConnected
     IN WF_vars(Takes) /\ SF_vars(Takes /\ queue' = <<>>)
  /\ SF_vars(AuditReads) /\ WF_vars(AuditVoid \/ AuditApplies) /\ SF_vars(AuditApplies)
  /\ WF_vars(StartReads) /\ SF_vars(StartApplies)
FairSpec == Spec /\ Fairness

(* An open fill is settled, unless the engine is latched or the baseline it *)
(* is compared with already had it. For fills whose payments their          *)
(* envelopes admit: one that is rounded away from the engine's notional by  *)
(* more than its fee is never settled by a true account.                    *)
PendingSettles ==
  OpenBaselines(journal) # {} ~>
    (OpenBaselines(journal) = {} \/ latched \/ RecoveredLatch(journal) \/ Absorbed)

=============================================================================
