---------------------------- MODULE WalletWatch ----------------------------
(***************************************************************************)
(* The task that polls the trades of the watched wallets                   *)
(* (src/src/wallet_watch.rs), its channel to the event loop, and what the  *)
(* loop makes of its messages (handle_wallet_message of src/src/engine.rs).*)
(*                                                                         *)
(* The venue lists a wallet's trades newest first and pages the list by    *)
(* offset, so a trade that arrives between two requests shifts every page. *)
(* A trade is the number of its arrival; its key is unique.                *)
(***************************************************************************)
EXTENDS Naturals, Sequences, FiniteSets, SequencesExt

CONSTANTS
  Watched,          \* the wallets in the order of a cycle
  PageSize,         \* TRADE_PAGE_SIZE
  MaxPages,         \* pages up to MAX_TRADE_OFFSET
  MaxSeen,          \* MAX_SEEN_TRADES_PER_WALLET
  WatchCapacity,    \* capacity of the channel to the event loop
  Malformed,        \* trades convert_trade refuses
  PerSecond,        \* trades of a wallet with the same time stamp
  MaxTrades,        \* bound: trades of each wallet
  MaxFailedFetches  \* bound: requests that fail or time out

ASSUME WatchAssumption ==
  /\ PageSize \in Nat \ {0} /\ MaxPages \in Nat \ {0} /\ PerSecond \in Nat \ {0}
  /\ MaxSeen \in Nat /\ MaxSeen >= PageSize + PerSecond  \* 10 000 keys, pages of 500

VARIABLES
  listed,         \* how many trades the venue lists for each wallet
  failedFetches,
  watch,          \* the task: running, in a cycle, connected, cycle healthy
  todo,           \* wallets left in this cycle
  page,           \* pages of the first of them read so far
  collected,      \* trades read from those pages
  batch,          \* trades of a complete window that are still to be reported
  warmed, seen,   \* SeenTrades of each wallet, oldest first
  outbox,         \* messages the task is sending
  inbox,          \* the channel
  walletFeed,     \* status of the feed the loop publishes
  observed,       \* trades the loop has taken, of each wallet
  skipped         \* auxiliary: trades a warm-up has passed over

taskVars  == <<todo, page, collected, batch, warmed, seen, skipped>>
watchVars == <<listed, failedFetches, watch, taskVars, outbox, inbox, walletFeed, observed>>

WalletSet == ToSet(Watched)

WatchInit ==
  /\ listed \in [WalletSet -> 0..1] /\ failedFetches = 0
  /\ watch = [running |-> TRUE, polling |-> FALSE, connected |-> FALSE, healthy |-> TRUE]
  /\ todo = <<>> /\ page = 0 /\ collected = {} /\ batch = <<>>
  /\ warmed = [w \in WalletSet |-> FALSE] /\ seen = [w \in WalletSet |-> <<>>]
  /\ outbox = <<>> /\ inbox = <<>> /\ walletFeed = "disconnected"
  /\ observed = [w \in WalletSet |-> <<>>] /\ skipped = [w \in WalletSet |-> {}]

-----------------------------------------------------------------------------
(* A page of the list; collected is in the list's order, newest first, and *)
(* the sort by time stamp is stable.                                       *)
PageOf(w, k) == {i \in 1..listed[w] : (listed[w] - i) \div PageSize = k}
Second(i)    == i \div PerSecond
Before(i, j) == Second(i) < Second(j) \/ (Second(i) = Second(j) /\ i > j)
ByTimestamp(S) ==
  [k \in 1..Cardinality(S) |->
    CHOOSE i \in S : Cardinality({j \in S : Before(j, i)}) = k - 1]

(* SeenTrades::remember: the oldest keys are forgotten beyond the limit.    *)
MutRemember(known, i) ==
  IF i \in ToSet(known) THEN known ELSE <<i>>
Remember(known, i) ==
  LET grown == Append(known, i) IN
  IF i \in ToSet(known) THEN known
  ELSE IF Len(grown) > MaxSeen THEN Tail(grown) ELSE grown

Overlaps(w, S)   == S \cap ToSet(seen[w]) # {}
MutComplete(w, S) == Overlaps(w, S) \/ Cardinality(S) < PageSize \/ page + 1 >= MaxPages
Complete(w, S)   == Overlaps(w, S) \/ (seen[w] = <<>> /\ Cardinality(S) < PageSize)
Exhausted(S)     == Cardinality(S) < PageSize \/ page + 1 >= MaxPages
MutResetForRewarm(w) == UNCHANGED <<warmed, seen>>
ResetForRewarm(w) == warmed' = [warmed EXCEPT ![w] = FALSE] /\ seen' = [seen EXCEPT ![w] = <<>>]

Msg(type) == [type |-> type]
Handed(w) ==
  ToSet(observed[w]) \cup {m.trade[2] : m \in {n \in ToSet(inbox \o outbox) :
                                                n.type = "trade" /\ n.trade[1] = w}}

-----------------------------------------------------------------------------
(* A trade of a watched wallet appears at the venue.                        *)
Trades(w) ==
  /\ listed[w] < MaxTrades[w] /\ listed' = [listed EXCEPT ![w] = @ + 1]
  /\ UNCHANGED <<failedFetches, watch, taskVars, outbox, inbox, walletFeed, observed>>

Idle       == watch.running /\ outbox = <<>> /\ batch = <<>>
Ready(w)   == Idle /\ todo # <<>> /\ w = Head(todo)
NextWallet == page' = 0 /\ collected' = {} /\ todo' = Tail(todo)

(* The ticker starts a cycle over all wallets.                              *)
StartCycle ==
  /\ Idle /\ ~watch.polling
  /\ watch' = [watch EXCEPT !.polling = TRUE, !.healthy = TRUE]
  /\ todo' = Watched
  /\ UNCHANGED <<listed, failedFetches, page, collected, batch, warmed, seen, skipped, outbox,
                 inbox, walletFeed, observed>>

(* The first page of a wallet that is not warmed is only remembered.        *)
Warm(w) ==
  /\ Ready(w) /\ ~warmed[w]
  /\ warmed' = [warmed EXCEPT ![w] = TRUE]
  /\ seen' = [seen EXCEPT ![w] = ByTimestamp(PageOf(w, 0))]
  /\ skipped' = [skipped EXCEPT ![w] = @ \cup ((1..listed[w]) \ Handed(w))]
  /\ outbox' = <<Msg("warmed")>> /\ NextWallet
  /\ UNCHANGED <<listed, failedFetches, watch, batch, inbox, walletFeed, observed>>

MarkDisconnected ==
  /\ watch' = [watch EXCEPT !.healthy = FALSE, !.connected = FALSE]
  /\ outbox' = <<Msg("disconnected")>>

(* A request fails or times out: what the wallet's pages gave is dropped.   *)
FetchFails(w) ==
  /\ Ready(w) /\ failedFetches < MaxFailedFetches /\ failedFetches' = failedFetches + 1
  /\ MarkDisconnected /\ NextWallet
  /\ UNCHANGED <<listed, batch, warmed, seen, skipped, inbox, walletFeed, observed>>

(* One more page of a warmed wallet, which neither overlaps what is known   *)
(* nor ends the list.                                                       *)
FetchMore(w) ==
  LET P == PageOf(w, page) IN
  /\ Ready(w) /\ warmed[w] /\ ~Complete(w, P) /\ ~Exhausted(P)
  /\ page' = page + 1 /\ collected' = collected \cup P
  /\ UNCHANGED <<listed, failedFetches, watch, todo, batch, warmed, seen, skipped, outbox,
                 inbox, walletFeed, observed>>

(* The window is complete: its trades are gone through, oldest first.      *)
Window(w) ==
  LET P == PageOf(w, page)
      S == ByTimestamp(collected \cup P)
  IN
  /\ Ready(w) /\ warmed[w] /\ Complete(w, P)
  /\ batch' = [k \in DOMAIN S |-> <<w, S[k]>>] /\ NextWallet
  /\ UNCHANGED <<listed, failedFetches, watch, warmed, seen, skipped, outbox, inbox, walletFeed,
                 observed>>

(* A trade of the window: one that is known is passed by, one that cannot   *)
(* be converted ends the task, any other is remembered and sent.            *)
Report ==
  LET w == Head(batch)[1]
      i == Head(batch)[2]
  IN
  /\ watch.running /\ outbox = <<>> /\ batch # <<>>
  /\ \/ /\ i \in ToSet(seen[w])
        /\ batch' = Tail(batch) /\ UNCHANGED <<watch, seen, outbox>>
     \/ /\ i \notin ToSet(seen[w]) /\ <<w, i>> \notin Malformed
        /\ batch' = Tail(batch) /\ seen' = [seen EXCEPT ![w] = Remember(@, i)]
        /\ outbox' = <<[type |-> "trade", trade |-> <<w, i>>]>>
        /\ UNCHANGED watch
     \/ /\ i \notin ToSet(seen[w]) /\ <<w, i>> \in Malformed
        /\ watch' = [watch EXCEPT !.running = FALSE] /\ outbox' = <<Msg("disconnected")>>
        /\ UNCHANGED <<batch, seen>>
  /\ UNCHANGED <<listed, failedFetches, todo, page, collected, warmed, skipped, inbox, walletFeed,
                 observed>>

(* No page overlaps what is known: the wallet has to be warmed again.       *)
Gap(w) ==
  LET P == PageOf(w, page) IN
  /\ Ready(w) /\ warmed[w] /\ ~Complete(w, P) /\ Exhausted(P)
  /\ ResetForRewarm(w) /\ MarkDisconnected /\ NextWallet
  /\ UNCHANGED <<listed, failedFetches, batch, skipped, inbox, walletFeed, observed>>

EndCycle ==
  /\ Idle /\ watch.polling /\ todo = <<>>
  /\ watch' = [watch EXCEPT !.polling = FALSE, !.connected = @ \/ watch.healthy]
  /\ outbox' = IF watch.healthy /\ ~watch.connected THEN <<Msg("connected")>> ELSE <<>>
  /\ UNCHANGED <<listed, failedFetches, taskVars, inbox, walletFeed, observed>>

(* The bounded channel: a send waits while it is full.                      *)
SendToLoop ==
  /\ outbox # <<>> /\ Len(inbox) < WatchCapacity
  /\ inbox' = Append(inbox, Head(outbox)) /\ outbox' = Tail(outbox)
  /\ UNCHANGED <<listed, failedFetches, watch, taskVars, walletFeed, observed>>

(* The loop handles a message: any but a disconnection counts as contact.   *)
HandleWalletMessage ==
  /\ inbox # <<>> /\ inbox' = Tail(inbox)
  /\ LET m == Head(inbox) IN
     /\ walletFeed' = IF m.type = "disconnected" THEN "degraded" ELSE "connected"
     /\ observed' = IF m.type = "trade" THEN [observed EXCEPT ![m.trade[1]] = Append(@, m.trade[2])]
                    ELSE observed
  /\ UNCHANGED <<listed, failedFetches, watch, taskVars, outbox>>

Fetches(w) == Warm(w) \/ FetchMore(w) \/ Window(w) \/ Gap(w)

WatchNext ==
  \/ \E w \in WalletSet : Trades(w) \/ FetchFails(w) \/ Warm(w) \/ FetchMore(w) \/ Window(w) \/ Gap(w)
  \/ StartCycle \/ Report \/ EndCycle \/ SendToLoop \/ HandleWalletMessage

WatchSpec == WatchInit /\ [][WatchNext]_watchVars

-----------------------------------------------------------------------------
(* A trade reaches the loop once at most, and never one that a warm-up has  *)
(* passed over: the keys the task remembers cover every page it reads, also *)
(* when the list grows between two pages and old keys are forgotten.        *)
NeverReplays ==
  \A w \in WalletSet : IsInjective(observed[w]) /\ ToSet(observed[w]) \cap skipped[w] = {}

(* Nothing is lost between two reported trades: the trades handed over or   *)
(* passed over have no hole, so a window that misses one is never taken for *)
(* complete.                                                                *)
NoneMissed ==
  watch.running /\ batch = <<>> =>
    \A w \in WalletSet : LET known == Handed(w) \cup skipped[w] IN known = 1..Cardinality(known)

(* Once no more trades appear, every one of them is reported or passed over *)
(* in the end, unless one that cannot be converted has ended the task: no   *)
(* gap, failed request or rewarming leaves a wallet behind for ever.        *)
TradesAreSeen ==
  \A w \in WalletSet :
    <>[](watch.running => 1..listed[w] \subseteq ToSet(observed[w]) \cup skipped[w])
=============================================================================
