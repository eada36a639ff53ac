# Verification of polymarket-watch-rust

TLA+ models of the trading bot in `src/src/` (crate `polymarket-watch-rust`),
the TLC instances that check them, and theorems about them checked by TLAPS.
Paths such as `engine.rs:1227` are relative to `src/src/`; `README.md:61` and
`architecture.md` are the repository's own documents.

Contents: 1 the system and its components, 2 the modules and how they
correspond to the code, 3 what each run checks, 4 fairness, 5 disagreements
found, 6 what is proved, 7 abstractions and limits, 8 plan.

## 1. The system

One process, one event loop (`engine.rs:676`, a biased `tokio::select!`) that
owns all mutable trading state. Around it run tasks that talk to it only over
bounded channels, atomics and one-shot answers:

| component | state | operations | interacts with |
|---|---|---|---|
| live engine (`engine.rs`, `execution.rs`, `heartbeat.rs`) | pause, latch, submission flag, certainty of the own-order cache, tracked orders, pending fills, processed account revision | market event, submission (account read, write-ahead, post, record), cancel (batch, emergency), user event, resynchronization, audit, heartbeat, compliance verdict, operator commands, start-up, cleanup | venue over REST; journal; user stream; market feed |
| user stream (`user_ws.rs`) | session, shared account revision (`AtomicU64`), one message about to be sent | connect, disconnect, order and trade notices | sends to the loop; the submission path reads the revision |
| order journal (`journal.rs`) | file, checkpoint, sequence and hash, poison flag | open, verify, append, rollback, checkpoint, compact, sync | called by every engine handler; the file system underneath |
| paper engine (`paper.rs`, `fixed.rs`, `signal.rs`, `risk.rs`) | cash, positions, average prices, open orders, liquidity consumed per book version | book and trade processing, submit, cancel, time-outs, flatten, snapshot | cloned, journaled and adopted by the loop's handlers |
| market feed and books (`market_ws.rs`, `book.rs`, `types.rs`) | session, frames read ahead, the unacknowledged batch; books; assets under repair | connect, read ahead, send batch, await answer; apply snapshot, delta, tick size, resolution | loop answers each batch with the assets it leaves unresolved |
| start-up and recovery (`reconcile.rs`, `engine.rs`) | journal records | resolve every attempt left in flight against the venue, or refuse | journal, venue |
| account ledger (`engine.rs`) | status of each trade, the open fills and the baseline they are compared with, the last account, the high-water mark | note, journal, prove, settle, recover | journal, user stream, audit |
| risk checks (`risk.rs`) | none | `check_order`, `check_cancel` | called before every submission |
| compliance guard (`compliance.rs`) | verdict; persistent latch file with a lock | fetch, latch, cancel what is open | its task sends verdicts to the loop |
| catalog discovery (`discovery.rs`) | markets and tick sizes | periodic refresh | installs books and their tick sizes |
| wallet watch (`wallet_watch.rs`) | bounded set of seen trades | poll, page, deduplicate | sends copy intents to the loop |
| external prices (`external_feeds.rs`) | last sequence, last quote | gap and staleness checks | gate of the strategy |
| rate limiter (`rate_limit.rs`) | time stamps | acquire | gate of submission |
| readiness, protocol checks (`readiness.rs`, `runtime.rs`, `matching_engine.rs`) | flags | set once; `market_parameters_verified` changes | gates of submission |
| console and operator HTTP (`gui.rs`, `state.rs`) | rendering, sessions, command queue | commands | sends commands to the loop |
| configuration, secrets, latency, behaviour estimate | none that other parts change | parse, measure | read by the others |

What is hard here: handlers that await the venue while the user stream moves
on; requests whose answer is lost although they took effect; notices that are
lost or repeated; a crash between any two durable steps; flags read before an
await and used after it; rounding that is done in parts; a feed, an event loop
and a catalog task that must agree on which book is valid.

What makes each component correct:

- live engine: nothing live at the venue is unknown to both memory and journal;
  nothing is submitted over account news that is known but not processed; a
  latch is final and reached by every failure that calls for it; lost notices
  and lost sessions are made up for.
- user stream: messages reach the loop in the order of the revisions announced.
- journal: after a restart the acknowledged state, or the one in flight, and
  nothing else; never unreadable through its own writes.
- paper engine: fills, copies, quotes and cancels in any order never promise
  cash or shares twice, never take liquidity twice, never cross themselves.
- market feed: a tradeable book is the venue's; a refused event leads to a new
  snapshot; neither side waits for an answer the other will not give.
- account ledger: a fill that was noted is open against one and the same account
  until the balances prove it, restarts included; no order passes before the
  account shows every recorded fill; a true account is never refused for ever
  (section 5 has the fills of which that is not so).
- compliance guard: what was latched stays latched, and no order is placed
  under a latched file, whatever write fails or crash comes in between.
- wallet watch: no trade is reported twice, none between two reported ones is
  missed, and each is reported in the end.
- external prices: while the strategy's gate is open no message of the venue is
  missing behind a price it sees, and no price gives way to an older one.
- rate limiter: no window of time lets more requests through than the limit.

`PROJECT.json` lists every hazard with its line and the properties that cover
it.

## 2. Modules

| module | models | composed of |
|---|---|---|
| `OrderLife` | what the live engine promises about an order and its records | |
| `LiveEngine` | live engine, user stream, start-up and recovery, operator and maintenance paths, with the venue as environment | `Life == INSTANCE OrderLife WITH place <- Place, written <- jwal, ...` |
| `LiveEngineProofs` | theorems about `LiveEngine`, its refinement of `OrderLife` among them | extends `LiveEngine`, `TLAPS` |
| `JournalStore` | what the journal promises: a store of one state | |
| `Journal` | `journal.rs` on a file system with volatile caches | `Store == INSTANCE JournalStore WITH cell <- Found` |
| `JournalProofs` | theorems about `Journal`, its refinement of `JournalStore` among them | extends `Journal`, `SequenceTheorems`, `TLAPS` |
| `PaperEngine` | `paper.rs` and the handlers that drive it | the store of `JournalStore` as its `durable` state |
| `PaperEngineProofs` | theorems about `PaperEngine` | extends `PaperEngine`, `SumTheorems` |
| `MarketFeed` | `market_ws.rs`, the books, the catalog task and their channel | |
| `MarketFeedProofs` | theorems about `MarketFeed` | extends `MarketFeed`, `SequenceTheorems`, `SumTheorems` |
| `FillBook` | what the account ledger promises about fills | |
| `AccountLedger` | how fills become known, journaled, proved by the balances and settled | `Book == INSTANCE FillBook WITH noted <- ..., failed <- ...` |
| `AccountLedgerProofs` | theorems about `AccountLedger`, its refinement of `FillBook` among them | extends `AccountLedger`, `SumTheorems`, `SequenceTheorems`, `TLAPS` |
| `WalletWatch` | `wallet_watch.rs`, its channel and the loop's side of it | |
| `WalletWatchProofs` | theorems about `WalletWatch` | extends `WalletWatch`, `SequenceTheorems`, `FiniteSetTheorems`, `TLAPS` |
| `ExternalFeed` | `external_feeds.rs`, its channel, the loop's cache and gate | |
| `ComplianceLatch` | the latch file of `compliance.rs` and the orders the loop holds under it | |
| `RateLimiter` | `rate_limit.rs` under a wall clock that is set back | |
| `GuardProofs` | theorems about the three guards of submission | extends `ComplianceLatch`, `RateLimiter`, `ExternalFeed`, `FiniteSetTheorems`, `SequenceTheorems`, `TLAPS` |
| `SumTheorems` | sums over finite sets as the models fold them: one element more, bounds, comparison | extends `Functions`, `FiniteSetTheorems`, `WellFoundedInduction`, `TLAPS` |
| `MCLiveEngine`, `MCJournal`, `MCPaperEngine`, `MCMarketFeed`, `MCAccountLedger` | finite constants | extend the above |
| `MCSignals` | finite constants, and one run for four parts | extends `WalletWatch`, `ExternalFeed`, `ComplianceLatch`, `RateLimiter` |

### LiveEngine and OrderLife

The code's loop is sequential: a handler that does not await is one action.
One that awaits while the venue or the user-feed task may move is cut there,
and `pc` says where it stands: `"risk"` (account read, `engine.rs:2465`),
`"wal"` (write-ahead done, guards to be checked again,
`execution.rs:1163`), `"post"` (request out), `"connected"` (account read after
a reconnect), `"audit"` (periodic account read), `"startup"`.

| variables | code |
|---|---|
| `venue`, `wire` | the exchange: state of each order, notices not yet carried |
| `session`, `accountRevision`, `outgoing`, `queue` | user-feed task, its atomic revision, its channel |
| `pc`, `todo`, `cur`, `expected`, `snap` | locals of the handler that is awaiting |
| `paused`, `enabled` | `RuntimeState::paused`, `live_submission_enabled` |
| `latched`, `certain`, `processed`, `tracked`, `owned` | `LiveRuntime`: `safety_latched`, the own-order cache, `processed_account_revision`, `order_clients`, `owned_order_ids` |
| `hbFailures`, `eligible`, `catalogOk` | heartbeat, compliance, readiness gates |
| `jwal`, `jmap`, `jterm`, `clip`, `bad` | what recovery reads from the journal: attempts written ahead, identified, terminal; state of each fill; failed trades |
| `poisoned` | `Journal::is_poisoned` |

Submission is `MarketEvent`, then per asset `BeginIntent`, `WriteAhead` or
`WriteAheadFails`, `PostOrder` or `RejectBeforeSubmit`, `SubmitAnswered` (or
`SkipAsset`, `DiscardIntent`). The venue may accept, refuse, fill, cancel or
fail an order at any time, the awaits included. Cancels have two forms, as in
the code: the batch whose every answer was confirmed and journaled
(`CancelConfirmed`), and the account-wide emergency cancel after any
uncertainty, of which any part may take effect and any part of that be
journaled (`EmergencyCancel`). `Cleanup` is the end of a run loop, `Crash` the
end of a process; `StartupRead` and `StartupSucceeds`/`StartupRefused` are the
next one.

`OrderLife` is the promise about an order: it is sent once, after its attempt
was written ahead and before the attempt is closed; it is named only once it
was sent and closed only while it is not live; its fill is recorded in order
(order notice, trade, settled) and never before there is one, its failure on
chain never before it failed. Its state is what the venue has and what the
journal says (`jwal`, `jmap`, `jterm`, `clip`, `bad`), nothing of memory, so that
the refinement (`LifeKept`) says that no lost answer, failed append, crash or
start-up takes a record back, makes one untrue or sends an order again.

### Journal and JournalStore

A record is the engine state it commits; a log stands for the hash of its last
record, since each hash covers its predecessor. `disk` is what is synced,
`cache` what the running system sees, `dirs` the directory as synced followed
by its unsynced changes. `append_event` is `BeginWrite`, `FinishWrite`,
`SyncRecord` (the commit point), `ReturnFromAppend` (checkpoint and adoption by
`commit_paper_transition`), with `PreflightFails` and `AppendFails` (rollback,
which may itself fail); compaction is `CompactionStarts`, `CompactionSyncs`,
`CompactionRenames`, `CompactionEnds` and `CompactionDeferred`; `Kill` loses the
process, `PowerLoss` also whatever was not synced, in any combination the order
of directory changes allows.

`JournalStore` is the promise: a cell that holds the acknowledged state, with
at most one state in flight; while one is, a restart finds the old state, the
new one or a journal that refuses to open. `Journal` implements it under the
mapping `cell <- Found` (what a restart would find now).

### PaperEngine

`engine` is the in-memory engine, `durable` what a restart would find. Each
handler is one action: it computes the staged engine by the code's own
fixed-point arithmetic (`Mul`, `MulCeil`, `Div`, after `fixed.rs` with `One` units to
1), and `Commit` appends and adopts it, fails, or stops the runtime as
`commit_paper_transition` does. `turn` separates the book or trade processing
of a market event from the strategy's turn after it. Orders record whether they
have examined the current book version and the latest trade.

### MarketFeed

`session`, `pending` and `awaiting` are the feed task's; `channel` the bounded
channel; `ack` the one-shot answer; `books`, `repairing` and `installed` the
loop's; `catalog` a refresh read but not yet installed. A batch is handled in
one action: `Batch` is a function that recurs over its events, each of them
`Handled` and `Applied` on what the events before it have left, because
`handle_market_message` does not give way between the events of a batch. A
book's levels are abstracted to whether they are what the venue had: `session`
of the snapshot they come from, and `spoilt` if an event of it was missed. A
market may have no bid or no ask (`oneSided`, which `VenueTurns` changes with a
delta): its snapshot (`"half"`) is taken but leaves the book untradeable, without
an error (`market_ws.rs:449`), and deltas are refused until a whole one comes. A
book that is not tradeable is one that the loop has given up (`Locked`).

### AccountLedger and FillBook

The venue gives each fill a status, lists it in the trade history and shows it
in the positions and in the cash, each at a time of its own (`VenueActs`). The
engine hears of it from a trade notice (`TakeTrade`), an order notice
(`TakeOrder`), the read after a reconnect (`TakeConnected`), the audit
(`AuditReads`, then `AuditApplies`, or `AuditVoid` when the stream has moved
on) or the read at start-up (`StartReads`, `StartApplies`). A crash may come
between any two records that an audit or a start-up appends (`AuditDies`,
`StartDies`). A fill is paid by the venue as it rounds (`Fill[t].paid`, one of
`VenuePays[t]`: price times size rounded down or up), while the engine always
rounds the notional up (`MulCeil`, `engine.rs:4268`). Each of the paths ends
in the same operators: `News` (what the history shows that the ledger has not),
`Journaled` and `OpenedBy` (`record_pending_account_event`: the first news of a
fill opens it against the `Baseline`), `Reconciled` and `Settles` (the
balances differ from the baseline by exactly the proven fills, with fees
between `FeeLow` and `FeeHigh`), `HighWater`. `recover_account_ledger` is the
group `Noticed` to `RecoveredPending`, evaluated over the journal; `Crash`
leaves nothing but the journal and the file of the high-water mark.

| variables | code |
|---|---|
| `standing`, `listed`, `shown` | the venue |
| `ledger`, `settled` | `trade_ledger` and its reconciled entries |
| `pending` | `pending_account_reconciliation`: baseline, trades, unresolved orders |
| `account`, `latched` | `last_account_snapshot`, `safety_latched` |
| `reading` | the half of a double read that has returned |
| `journal`, `highWater` | account records of the journal, file of the daily baseline |

`FillBook` is the promise: fills are noted, settled all at once, and never
settled after one has failed. What is noted, settled and failed is read from the
journal alone, so the refinement says that restarts, late notices and audits
take nothing back. This module is the detail behind `clip` of `LiveEngine`,
where a fill is only known, pending or settled.

### WalletWatch

A cycle goes through the wallets (`StartCycle`, `EndCycle`); for each it
fetches pages by offset until one overlaps the remembered trades, ends the list
or reaches the page limit (`Fetches`: `Warm`, `FetchFails`, `FetchMore`, `Window`,
`Gap`), and reports what is new one by one (`Report`). The list grows between
two requests, which shifts every later page. `Remember` forgets the oldest keys
beyond `MaxSeen`. `SendToLoop` and `HandleWalletMessage` are the channel.

### ExternalFeed

A ticker message carries the prices of some symbols; the socket loses, repeats
and delays it (`WireFails`). `ReadMessage` is the check of its sequence number,
`HandOver` the awaits of one quote after another (`sending`, in any order) into a
bounded channel, `HandleQuote` the loop's cache, `GateReady` the gate that reads
it by age and gap flag. `published` and the field `first` of a quote are history:
which symbols each message of the venue carried, and whether the quote's message
was the first of its session, of which nothing earlier could be missed.

### ComplianceLatch

`Observe` takes an observation that calls for a flag; `Latch` writes and syncs
it before guard and verdict change, `LatchFails` is a write that fails before or
after the rename, `CancelForCompliance` and `CleanUp` cancel what is open, `ReplaceVerdict`
is the geographic check that builds a new verdict, `Resume` the operator,
`Crash` the end of the process with or without what was not synced.
`PlaceOrder` stands for the engine, whose gate is `check_compliance`.

### RateLimiter

`TryAcquire`, `RetryAfter` and the eviction both begin with; `instant` is true
time, and the wall clock the code passes in is behind it by `setBack`, which
may grow between any two calls.

## 3. Runs

Passing runs:

| run | instance | checks |
|---|---|---|
| `live_faults` | 1 asset, 1 order, 2 revisions per process, channel of 1, 2 heartbeat failures, every fault | `TypeOK`, which has every tracked order among the owned ones, so that its fills are not taken for another account's; `LatchedLocked`: no handler ends with a latched engine enabled; `FeedInOrder`: announced and processed revisions differ by exactly the messages in flight; `LiveOrdersRecoverable`, `NothingUntracked`: what is live at the venue is in the journal, and, while unlatched, tracked; `PostsOnlyCaughtUp`: an order is posted only over a fully processed feed and no pending fill; `LifeKept`: the refinement of `OrderLife` |
| `live_pair` | 2 orders for 1 asset, crashes and ambiguous answers | `OneOrderPerAsset` |
| `live_fair` | 1 order; crashes, losses, failed trades, ambiguous answers; `FairSpec` | `DisconnectCancels`, `LatchPauses`, `AuditClosesGaps` |
| `journal_crash` | 2 inodes, 5 states, compaction at 2 records, kills, power losses, failing writes, syncs and directory updates | `TypeOK`; `CheckpointBehind`: no checkpoint a restart may find is ahead of its synced log; `StaysReadable`; `StoreImplemented`: the refinement |
| `paper_engine` | 1 asset, 3 orders under 2 identities, 2 books, 2 trades, failing appends, restarts | `TypeOK`; `PositionReserved`; `LiquidityOnce`; `NoSelfCross`; `EquityReported` |
| `market_active` | 1 asset, channel of 2, backlog of 1, 1 frame of up to 2 events on the wire, 1 change of the market (a tick size, a resolution, a side that empties or fills; it may start one-sided), 1 fault; `ActiveSpec` | `TypeOK`; `SoundBook`: a tradeable book missed nothing and its session is up, or its end is on the way; `OneBatch`; `BookRecovers` |
| `account_fills` | 2 fills of one order, one with a fee and a notional the venue rounds down, one exact and without a fee, crashes, late and repeated notices | `TypeOK`; `RestartRecovers`: what is open in memory is what a restart would open, against the same account; `AccountShowsRecorded`: no order passes before the account shows every recorded fill; `ProofComplete`: an account that shows the open fills is refused by no more than their notionals lose to rounding; `LossKept`: the equity losses are measured from is never lowered, nor an account adopted above it; `BookImplemented`: the refinement of `FillBook` |
| `account_settles` | 1 fill, the same faults; `FairSpec` | `PendingSettles` |
| `signals` | 2 wallets of 7 trades and 1, pages of 2; 2 symbols, 3 messages, 1 fault of the wire; 2 orders, 2 crashes; limit 2 in a window of 3, clock set back by 2 | `NeverReplays`, `NoneMissed`, `TradesAreSeen`; `GateWhole`: while the gate is open, every quote of the message before the one a price came from was seen, `NeverBack`; `LatchHeld`, `NoOrderUnderLatch`; `RateBounded`, `RetryHonest` |

Runs with an expected violation are those of section 5: `live_disabled`,
`journal_newline`, `paper_reserve`.

Why the bounds are enough:

- one order suffices for what concerns the life of an order (its states, its
  notices, its journal records and its fills); two are used where orders meet
  (`live_pair`). Two revisions and a channel of
  one let a message be in the atomic only, in the task, in the channel and in
  the loop's hand, and a second one behind it; the counters start again with
  each process. Two heartbeat failures tell the tolerated failure from the last
  one; the code counts on without a cap, the model one failure beyond the limit
  (`MaxFailuresCounted`).
- five journal states with compaction at two records give two compactions with
  appends before, between and after; two inodes are what one log and its
  replacement need.
- in the paper run a unit of 5, prices of 1 to 4 units, a participation of 3/5,
  sizes 5 and 9 and a fee of 1/5 make every product round, in both directions;
  three orders allow a maker, a copy and one more after a fill.
- in the market run a backlog of 1 overflows with the second frame, a channel
  of 2 fills up with a batch and the end of a session, and a frame of two
  events is where an invalid event and its repair come together. Session
  numbers are reused once nothing of their session is left in the channel; two
  are enough for a channel of two (with too few, `BookRecovers` would fail). The
  code's channel holds 2 048 messages: `OneTurn` of section 6 is for any.
- in the ledger run two fills of one order let one be settled, or its notice
  late, while the other is open; they differ in price and size so that no sum
  of part of them looks like another; one carries a fee that is rounded and a
  notional (12 tenths) of which the venue pays 1 and the engine expects 2, the
  other is exact and has no fee, so that its envelope admits one amount. A
  fill matches and may fail; the statuses in between are treated alike. One
  message of the stream in flight is enough, as the loop is cut where it awaits.
- the four parts of `signals` share no state: the initial state chooses which
  of them moves, so that their state spaces are added. Pages of 2, three of
  them and 4 remembered keys keep the order of 500, 21 and 10 000 in the code
  (the memory is shorter than the longest window and longer than a page); 7
  trades overflow both, and a refused trade ends the task, which is why
  deadlock is not checked there. A limit of 2 with a window of 3 in 8 units of
  time lets windows end, overlap and be cut by the set-back of the clock.

Every property of a passing run has a mutant in `PROJECT.json`, a plausible bug
(a dropped recheck, a missing reset, an off-by-one) under which it fails: the
operators named `Mut...`, which nothing else uses.

Deadlock is checked in every run but `signals`; the only bounds are the ones the constants
name (`bound:` in their comments).

## 4. Fairness

`LiveEngine!Fairness`:

- `WF(AwaitStep)`: every await ends, because every request of `execution.rs` and
  `engine.rs` runs under a deadline; the assets of an event are finitely many.
- `WF(FeedSends)`: the feed task is scheduled; `send().await` returns when the
  channel has room.
- `SF(TakeMessage)`: the select is biased and serves the market channel first,
  so that a message is not taken continuously. It is taken at some time because
  the market task has at most one unacknowledged batch (`OneBatch` of
  `MarketFeed`) and so cannot refill its channel before the loop went round.
- `SF(AuditRead)`: the maintenance timer recurs and its reads do not fail
  forever. `AuditClosesGaps` says nothing of a venue that never answers.

No fairness is put on the venue, on notices, on operators, on crashes or on
the user stream coming back.

`MarketFeed!ActiveSpec`: weak fairness of the feed task as a whole (whichever of
a frame and an answer it takes first), of the loop and of the catalog task, each
one condition, and strong fairness of changes of each book at the venue. The
last is an assumption about the market, not about the code; section 5 says
what happens without it. That markets have both sides is not assumed:
`BookRecovers` claims a tradeable book of those that have.

`AccountLedger!Fairness`: the venue lists and shows in the end what it has
matched; the loop takes its messages and again and again catches up with the
stream (the audit is void while it has not); a read that is retried succeeds at
some time. Orders, crashes and the course of a fill are free.

`MCSignals!Fairness`, for the wallet task only: the task and the loop go on and
requests fail finitely often (`MaxFailedFetches`). The other three parts have
safety properties alone.

## 5. Disagreements between code and documents

Each is a run with an expected violation; `PROJECT.json` "findings" has the
quotations.

1. `live_disabled` (`engine.rs:3137`): an audit that cannot read the account
   clears `live_submission_enabled`; a strategy that is already resumed goes on
   submitting, for submission never reads that flag.
2. `journal_newline` (`journal.rs:582`): a record that lost only its line end
   verifies; the next acknowledged append lands on the same line, and the
   journal no longer opens.
3. `paper_reserve` (`paper.rs:750`): reserve and fill round up separately, so a
   partial fill of an order that reserves all cash breaks
   `paper_reserved_cash_invariant_broken` and ends the runtime. `ReserveDrifts`
   of section 6 bounds what is missing: three smallest units of money for each
   open buy a step fills in part.

Further observations, made while modelling and not kept as runs:

- live engine: the pause flag is read once per market event (`engine.rs:1227`),
  so an ambiguous submit of the first asset pauses the strategy while the
  remaining assets of the event are still submitted. Start-up marks the own
  orders certain (`engine.rs:464`), so that a verdict and a resume let orders
  out before the user stream was ever synchronized (`README.md:57-59`).
- market: a catalog installed after the first snapshot, or one that changes a
  tick size, leaves a book locked that nothing marks for repair
  (`engine.rs:3251`); it stays so until the venue happens to send an event. A
  market whose snapshot lacks bids or asks has no tradeable book, and as deltas of
  such a book are refused, each one of them ends the session for all assets.
- account ledger: the engine expects every notional rounded up
  (`engine.rs:4268`). A fill without a fee that the venue pays rounded down is
  one unit off an envelope of one amount, so the true account is refused at every
  audit and the lock stays (`RoundingRefused` of section 6); with a fee of a unit
  or more the envelope may cover it, as that of `account_settles` does. A fill
  that the baseline already contained never reconciles
  (`Absorbed`); an order notice for an order a trade has named does not lock; a
  cold start that finds a trade the stream missed stays locked. One that finds a
  whole zero-net batch without fees (a buy and a sell of the same size and
  price) does not: its baseline is the account it has just read
  (`engine.rs:3114`), against which such a batch is proved at once, though that
  account may show one of the two alone. `README.md:85-88` has such a start
  locked, and `README.md:79-81` has the proof tell such a batch from none.
- wallet watch: the feed is published as connected again while another wallet
  still fails; two trades with equal keys are one; one refused trade ends the task, and nothing starts
  it again; trades the venue indexes late are taken for known.
- compliance latch: between the write of the latch and the cancellation a crash
  leaves recovered paper orders that may still fill until they expire
  (`README.md:99-102`); an observation whose write failed is lost after the
  next warm-up of the wallet task.
- external prices: the gap flag is set only on the quotes of the message after
  the gap. A symbol that was quoted in the lost message alone keeps its old quote
  unflagged until it is too old, so that the gate opens over it once the flagged
  quotes are replaced; `GateWhole` speaks of the message just before a price and
  cannot say more. A silent connection has no read timeout and shows only by age.
- rate limiter: after a backward step of the clock a full limiter refuses
  orders and cancels until the clock has caught up; a limit of 0, which the
  configuration refuses, would tell the caller to retry at once.
- paper and journal: trades have no identity but their time stamp; a compaction
  whose rename takes effect but whose directory sync fails may be undone by a
  later power loss (the fault `"rename"` of `Journal`, which no run enables:
  with it `StoreImplemented` fails); with a high fee share an average price can
  exceed 1, and `validate_state` then refuses every append.

## 6. Proofs

Every invariant and action property of the passing runs and the three
refinements are theorems, for every value of the constants that the named
assumptions of their module allow; one of them, `AccountShowsRecorded`, needs a
premise more, for it is not true of all fills. Theorems of one module share
their lemmas; each invariant below was first checked by TLC on the run of its
module.

`LiveEngineProofs`, for any sets of assets and orders, any bounds and any set of
faults, from `OrderAssumption` and `BoundAssumption`:

- `TypeCorrect`: `Spec => []TypeOK`. Initial states, then one lemma per group
  of actions (venue, feed, submission, user events, audit, maintenance,
  operator, lifecycle), which rest on lemmas about the shared sub-steps
  (`EmergencyCancel`, `CancelTracked`, `FailReconnect`, taking a message).
- `LatchSafety`: `Spec => []LatchedLocked`. Inductive together with `TypeOK`: a
  handler that latches clears the flag in the same step, and each of the three
  that set it (verdict, audit, resynchronization) does so only unlatched.
- `FeedOrder`: `Spec => []FeedInOrder`. Not inductive by itself: a handler that
  awaits finishes by copying the revision it took at its start into
  `processed`. The strengthening is `FeedInv`, that is `TypeOK`, `FeedInOrder`
  and `AwaitsInOrder`, which says of each await what `expected` is relative to
  `processed`, and that no fill is pending once the write-ahead is done.
- `PostsCaughtUp`: `Spec => PostsOnlyCaughtUp`, an action property. The lemma
  `OnlyPostOrderPosts` shows that no other step brings an order to the venue;
  the second check of `PostOrder` gives `accountRevision = processed`, and
  `FeedOrder` turns that into an empty channel and an empty hand.
- `LiveRecoverability`: `Spec => []LiveOrdersRecoverable`. `RecoveryInv` adds
  where a submission stands with its records (`WrittenAhead`: nothing is at the
  venue that was not written ahead, and nothing is closed before it was opened)
  and that no notice, on the wire, in the task or in the channel, tells an order
  closed that is not (`NoticesTrue`): on notices the engine writes its terminal
  records.
- `Tracking`: `Spec => []NothingUntracked`. `TrackedInv` adds `ViewTrue`: what a
  handler read of the venue before its await may be old, but of an order that
  was over then nothing has changed since.
- `OneOrder`: `Spec => []OneOrderPerAsset`. The duplicate check sees open orders
  only, so `AssetInv` says where an order of unknown fate can be: in the
  submission in hand, or left behind by one that ended in a latch and a pause,
  for an asset the event in hand does not offer again (`InflightPlaced`,
  `OfferedOnce`, `DuplicateChecked`).
- `LifeRefined`: `Spec => LifeKept`, the refinement. `LifeInv` adds to the two
  invariants about records and views that a fill is on record only when there
  is one at the venue (`FillsTrue`). A step is then looked at in parts: what it
  does to each order at the venue (`Progress`), to the record of each fill
  (`FillRecorded`) and to the sets of attempts named and closed; a write-ahead
  and a post map to `Write` and `Send`, all the rest to `Follow`, and start-up,
  which recovers many orders at once, is why `Follow` moves several.

`JournalProofs`, for any set of files, any number of states and any compaction
threshold, from `JournalAssumption`:

- `JournalTypes`: `Spec => []TypeOK`, for any set of faults.
- `CheckpointSafety`: `Spec => []CheckpointBehind`, and `Readability`:
  `Spec => []StaysReadable`, for any set of faults without `"newline"` (run
  `journal_newline` shows why it must be left out). Neither is inductive: what
  is synced says nothing of what a later sync will make of it. The
  strengthening is `Durable`: what is seen of a file extends what is synced of
  it (`CacheAhead`), the process knows the log of the file the directory names
  (`InPlace`), and outside an append that file ends in a line and is synced
  (`Synced`). No step but an append's own touches a file the directory names,
  so a checkpoint stays a prefix of it.
- `Refinement`: `Spec => StoreImplemented`, for any set of faults without
  `"newline"` and `"rename"` (with either of them and power losses it is false). The invariant `Refines` adds
  to `Durable` what the engine was told (`Told`): every entry of the directory
  that a power loss may leave holds the acknowledged state and nothing behind
  it when nothing is in flight (`Settled`), that state or the one in flight
  otherwise (`Unsettled`). `FoundFacts` turns it into what a restart finds, and
  each step is a step of `JournalStore` or leaves its variables alone.

The faults enter the theorems as assumptions on a constant, so one proof covers
every instance of the runs and every mixture of faults none of them enables.

`PaperEngineProofs`, for any finite sets of assets and order identities, any
books, trades and sizes, any fee rate, participation and unit of the
fixed-point numbers, from `PaperAssumption`: `PaperTypes`, `SharesReserved`,
`NoSelfTrade`, `BookShare` and `ProfitBacked`, that is `[]TypeOK`,
`[]PositionReserved`, `[]NoSelfCross`, `[]LiquidityOnce` and
`[]EquityReported`. They share the invariant `PaperInv`: the engine in memory
and the one a restart would find are both

- `Sound`, whatever the books show: sells promise no more than is held
  (`Promised`), buys lie below sells (`Apart`), and cash and the cost of the
  positions come to no more than the starting cash and the realized profit
  (`Backed`), which needs that each of the code's two roundings of a fill goes
  against the account (`MulOfParts`, `AtAverage`);
- `Granted`: of the shown book the fills took no more than the participation
  grants, and where they took any, every open order that crosses it has looked
  at this book or is about to. Without the second half, the first is not
  inductive: an order that did not look could take the same levels again;
- `Averaged`: no average price is above 1.

`ReserveDrifts` is the other side of `paper_reserve`: while the runtime is up, no
step takes the available cash (cash less what open buys reserve) below what was
missing before and three smallest units for each open buy the step fills in
part. So the reserve is broken by rounding alone: admission, cancels, full
fills, sells, copies and flattening take nothing that is not there. The two
parts of a reserved amount, filled and rest, are rounded up separately, for
notional and for fee (`ReserveOfParts`), which is where the three units come
from. TLC finds one unit too few on the instance of `paper_reserve`, and all
three are used: at a unit of 10, a fee of 3 and a price of 9, an order of 14
reserves 13 + 4, its two halves of 7 cost 7 + 3 each.

What one event fills is a fold over orders. It is unfolded one fill at a time
(`CarriedFacts`) by taking a smallest set of orders for which the claim fails,
which replaces the induction the provers lack, and `SharedOut` bounds what the
orders of one side are allotted together. `ReducedReserve` is the arithmetic of
what is reserved: sells had reserved what they still reserve and what the fills
sold, no more and no less.

`MarketFeedProofs`, for any finite set of assets, any backlog, capacity of the
channel and session numbers, from `FeedAssumption`:

- `OneTurn`: `Spec => []OneBatch`. The strengthening `TurnInv` also says what
  holds between two batches: while the session is up, exactly one batch of it is
  on its way if one is awaited and unanswered, and otherwise none; a new
  session's number is that of no message still in the channel.
- `FeedTypes`: `Spec => []TypeOK`. The lemma `BatchStays` carries it through a
  batch of any length.
- `BooksSound`: `Spec => []SoundBook`. `FeedInv` is about the traces of a
  session, a tradeable book or a batch in the channel: the news of its end lies
  behind the last of them unless it is up (`Over`), and before the first trace
  of any other session that lies behind one of its own (`Apart`). So a loop that
  works the channel off in order never applies an event of a later session to a
  book of an earlier one.

`AccountLedgerProofs`, for any finite set of fills with any terms, any bounds
and any faults, from `LedgerAssumption`:

- `RecoverySafety`: `Spec => []RestartRecovers`, and `BookRefinement`:
  `Spec => BookImplemented`. The invariant `LedgerInv` is that the journal is
  consistent (all that is open in it shares one baseline, and the settled
  trades are noted), that memory fits it, and, while the process is up, that
  every fill open in the journal is pending in memory against that very
  baseline; unlatched, nothing else is.
- `AccountAdvances`: while the process is up, no step replaces the account in use
  by an older one, in positions or in cash, whichever of the audit, its two
  halves and the submission read it. `ReadInv` orders the accounts there are:
  in use, half read, shown by the venue.
- `ShownUnlessMistaken`: `Spec /\ [][SettlesShown]_vars => []AccountShowsRecorded`.
  The proof of the balances compares amounts, so a fill that is not shown yet
  passes for shown when another change of the same size and cost is. The theorem
  says that this is the only way: if every settlement takes place on an account
  that shows what it settles, then no lag, late notice, audit or crash lets an
  order past before the account shows every recorded fill.
- `ShownWhenTold`: `Distinguishable => (Spec => []AccountShowsRecorded)`. The
  premise is about the constants alone: a set of fills has the size of another,
  or a cash change within the other's fee envelope, only if it contains it.
  Then every settlement is on an account that shows it: `BaseInv` keeps each
  account that is compared with older than the one it is compared to, and
  `Determined` reads the fills off the amounts. The
  premise cannot be dropped (see the zero-net batch of section 5). TLC has
  checked that fills exist that meet it; the one of `account_settles` does,
  the two of `account_fills` do in their sizes but not in their cash, and the
  property is true of them all the same.
- `EnvelopeComplete`: `Spec => []ProofComplete`, for any prices and sizes: for
  whatever fees the venue charges for the open fills and whichever way it rounds
  each notional, the account that shows them settles them, or one that differs
  from it by no more units than notionals were rounded down (none, if they were
  exact or rounded up). The fee the venue took of a fill
  lies between `FeeLow` and `FeeHigh` of it through every rounding in between,
  and sums of what lies between bounds lie between the sums of the bounds.
- `RoundingRefused`: the distance is really met. A lone fill without a fee whose
  notional is not a whole number of units and is paid rounded down is settled
  by no account that shows it truly, whatever the history proves.
- `MarkKept`: `Spec => []LossKept`. `Marked`: the mark, which a crash
  leaves in its file, is never below the peak of the equities observed so far,
  and each path that adopts an account has it observed in the same step.
- `LedgerTypes`: `Spec => []TypeOK`. `Counted` says that the fills pending are
  noted and unsettled and the queue is within its capacity, which the types of
  the ledger and of what a restart opens rest on.

`WalletWatchProofs`, for any wallets, page size, page limit, memory and time
stamps, from `WatchAssumption`: `Once`: `WatchSpec => []NeverReplays`, and
`NoHole`: `WatchSpec => []NoneMissed`. The invariant `WatchInv` says of each
wallet that there is a newest trade `top` such that all up to it are handed
over, passed over or in the batch, and of a batch that what the task does not
remember of it is new (`Held`); and that the pages read so far in a cycle hold
nothing up to `top` and everything from some trade to the newest of them, and
that the next page joins them whatever the list has grown by (`Reaches`). A
window is complete when it joins `top` or meets what is remembered. That it
never holds a trade that was reported and forgotten is `NotForgotten`: with
room for a page and for the trades of one second, the key that is dropped is
neither on the last page below `top` nor of the second being reported. The
assumption behind it, `MaxSeen >= PageSize + PerSecond`, reads in the code: a
wallet makes at most 9 500 trades in one second.

`GuardProofs`:

- for any number of orders and crashes, `LatchTypes`, `LatchStays` and
  `NoneUnderLatch` (an action property) of `ComplianceLatch`, from `LatchInv`:
  file, guard and verdict agree in every stage in which the loop still trusts
  its guard, and file and synced file hold all that was reported as latched;
- for any limit, window and set-back of the clock, `WindowBound`:
  `RateSpec => []RateBounded`, and `HonestWait`: `RateSpec => []RetryHonest`. The
  invariant `RateInv`: the stamps kept are those of the last requests let
  through, each behind its true time by no more than the clock was set back,
  and the requests whose stamps are dropped are a window old in true time. So
  when one more is let through, the requests of any window that reaches up to
  it are among those whose stamps are kept. That a set of positions has a least
  element, which eviction rests on, is carried along as a part of the
  invariant;
- for any finite set of symbols and any faults of the wire, `NoStepBack`:
  `QuoteSpec => NeverBack`, and `NoneSkipped`: `QuoteSpec => []GateWhole`. The
  invariant `QuoteInv`: quotes wait in the order of their changes behind the
  cached ones, the message being handed over is the last one read, and a
  session that has read none has only newer ones on its wire. `WholeInv` adds
  that a message is on the wire as it was published, and of every quote without
  a gap flag, wherever it waits, that the quotes of the message before it are
  cached, in the channel ahead of it or have given way to newer ones; the
  first message of a session and one behind a gap are where nothing is claimed.

`SumTheorems` has what the proofs about `PaperEngine` and `AccountLedger` need
of sums over finite sets (`SumFunctionOnSet`): its value with one element more,
that it is an integer, that it is bounded where its terms are. It is proved from
the library's definition, with a smallest counterexample in the place of
induction.

`LatchTypes` is kept as a theorem only; `LatchInv` builds on it.

Only model-checked: liveness (`DisconnectCancels`, `LatchPauses`,
`AuditClosesGaps`, `BookRecovers`, `PendingSettles`, `TradesAreSeen`), which
needs ENABLED and is out of the prover's reach, and the violations of section 5,
which are single behaviours.

## 7. Abstractions and what is not modelled

- An order of `LiveEngine` is filled whole, by one trade. Prices, sizes,
  exposure and loss limits do not appear; a risk gate may refuse at any time
  (`DiscardIntent`). Client and exchange identity of an order are one value,
  known to the engine once returned.
- `authoritative_pending_trade_proof` is one question in `LiveEngine`, whether two
  stable reads show the fill; its fees and balance deltas are in `AccountLedger`.
- In `AccountLedger` the account trades one asset, the venue pays each notional
  rounded down or up (which, is a constant of the fill; `PendingSettles` is for
  fills whose payment its envelope admits), and the two reads of a stable read
  are one instant. The journal is kept as what recovery makes of it. Every order belongs to this
  account. Left out: a trade that comes again with other terms, records the
  journal refuses (`LiveEngine` has them), an equity of zero or less.
- In `WalletWatch` keys are unique and the venue lists a trade at once and in
  order. In `ExternalFeed` the plausibility checks of bid and ask are left out.
  In `RateLimiter` the clock is only set back: a step forward makes stamps
  expire early, and the code offers nothing against that.
- The hash chain of the journal is taken to be collision-free; only one process
  writes (the lock of `compliance.rs`).
- `PaperEngine` omits the overflow errors of `fixed.rs` (amounts are far from
  the limits of `i128`) and the limits of `risk.rs` that do not depend on the engine's state.
- Levels of books, wording, logs, metrics, HTTP rendering, parsing, signing and
  authentication are left out. Configuration appears as CONSTANTS.
- Not modelled at all: `matching_engine.rs`, `behavior.rs`, `latency.rs`,
  `config.rs`, `secrets.rs`, `main.rs`, the console's assets. They are read once,
  measure, or are pure functions whose results other parts take as one limit more. `PROJECT.json` gives the reason for each.

Known limits that are not violations of anything the repository states: a
starving user stream if a batch were never acknowledged; the daily loss is measured from the
starting cash; flatten on an unchanged book uses its bids again; a torn tail
ends the runtime at the next start.

## 8. Plan

Done: every component whose state changes while the loop runs has a module or is
part of one; section 6 has the theorems.

Next:

- A second trade with the time stamp of the first (`engine.rs:1166`) in
  `PaperEngine`, whose trades have no identity yet.

Considered and left out: the limits of `risk.rs` on exposure and daily loss as
part of `PaperEngine`. They compare the staged order with a limit and change
nothing, and no other action keeps to them (a price that moves takes exposure
past its limit without an order), so a property of them would restate the
comparison.
