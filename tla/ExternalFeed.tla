---------------------------- MODULE ExternalFeed ----------------------------
(***************************************************************************)
(* The external price feed (src/src/external_feeds.rs), its channel to the *)
(* event loop, the cache the loop keeps and the gate it opens for the      *)
(* strategy (handle_external_message and external_gate_ready of            *)
(* src/src/engine.rs). A price is the number of its change at the venue.   *)
(***************************************************************************)
EXTENDS Naturals, Sequences

CONSTANTS
  Symbols,
  MaxAge,         \* external_stale_ms
  QuoteCapacity,  \* capacity of the channel to the event loop
  MaxClock,       \* bound: time
  MaxFrames,      \* bound: ticker messages of the venue
  MaxOnWire,      \* bound: messages on the socket
  MaxWireFaults   \* bound: messages lost or repeated, sessions broken

ASSUME QuoteAssumption ==
  /\ MaxAge \in Nat /\ QuoteCapacity \in Nat \ {0} /\ MaxOnWire \in Nat \ {0}

VARIABLES
  clock,
  published,   \* the symbols of each ticker message the venue has sent
  wire,        \* the messages on the socket
  feed,        \* the connection: up, and the last ticker sequence of it
  sending,     \* quotes of the last message the feed task has yet to hand over
  quotes,      \* the channel
  cache,       \* ExternalFeatureCache: the quote of a symbol, or none
  wireFaults

quoteVars == <<clock, published, wire, feed, sending, quotes, cache, wireFaults>>

frames == Len(published)

(* first is history: it tells the quotes of the first message of a session. *)
NoQuote == [change |-> 0, sentAt |-> 0, receivedAt |-> 0, gap |-> TRUE, first |-> TRUE]

QuoteInit ==
  /\ clock = 1 /\ published = <<>> /\ wire = <<>>
  /\ feed = [up |-> FALSE, last |-> 0] /\ sending = {} /\ quotes = <<>>
  /\ cache = [s \in Symbols |-> NoQuote] /\ wireFaults = 0

-----------------------------------------------------------------------------
(* The venue quotes some symbols in one ticker message.                     *)
VenueQuotes(S) ==
  /\ frames < MaxFrames /\ published' = Append(published, S)
  /\ wire' = IF feed.up /\ Len(wire) < MaxOnWire
             THEN Append(wire, [number |-> frames + 1, sentAt |-> clock, symbols |-> S])
             ELSE wire
  /\ UNCHANGED <<clock, feed, sending, quotes, cache, wireFaults>>

(* A message is lost, or comes again after the ones behind it.              *)
WireFails ==
  /\ wire # <<>> /\ wireFaults < MaxWireFaults /\ wireFaults' = wireFaults + 1
  /\ wire' \in {Tail(wire), Append(wire, Head(wire))}
  /\ UNCHANGED <<clock, published, feed, sending, quotes, cache>>

ConnectFeed ==
  /\ ~feed.up /\ sending = {} /\ feed' = [up |-> TRUE, last |-> 0]
  /\ UNCHANGED <<clock, published, wire, sending, quotes, cache, wireFaults>>

(* The session ends: the quotes of its last message may be handed over in   *)
(* part (one of them cannot be parsed); the cache stays as it is.           *)
FeedBreaks ==
  /\ feed.up /\ wireFaults < MaxWireFaults /\ wireFaults' = wireFaults + 1
  /\ feed' = [up |-> FALSE, last |-> 0] /\ wire' = <<>> /\ sending' = {}
  /\ UNCHANGED <<clock, published, quotes, cache>>

(* A ticker message is read: one that is not newer is passed by, a jump in  *)
(* the sequence is noted in the quotes of this message, and these are       *)
(* handed over one by one, in whatever order the message has them.          *)
MutStale(m) == feed.last # 0 /\ m.number = feed.last
Stale(m)    == feed.last # 0 /\ m.number <= feed.last
MutAfterGap(m) == feed.last # 0 /\ m.number > feed.last + 2
AfterGap(m)    == feed.last # 0 /\ m.number > feed.last + 1
Quoted(m) ==
  {[symbol |-> s,
    quote  |-> [change |-> m.number, sentAt |-> m.sentAt, receivedAt |-> clock,
                gap |-> AfterGap(m), first |-> feed.last = 0]] : s \in m.symbols}

ReadMessage ==
  LET m == Head(wire) IN
  /\ feed.up /\ sending = {} /\ wire # <<>> /\ wire' = Tail(wire)
  /\ \/ Stale(m) /\ UNCHANGED <<feed, sending>>
     \/ ~Stale(m) /\ feed' = [feed EXCEPT !.last = m.number] /\ sending' = Quoted(m)
  /\ UNCHANGED <<clock, published, quotes, cache, wireFaults>>

HandOver(q) ==
  /\ Len(quotes) < QuoteCapacity
  /\ quotes' = Append(quotes, q) /\ sending' = sending \ {q}
  /\ UNCHANGED <<clock, published, wire, feed, cache, wireFaults>>

HandleQuote ==
  /\ quotes # <<>> /\ quotes' = Tail(quotes)
  /\ cache' = [cache EXCEPT ![Head(quotes).symbol] = Head(quotes).quote]
  /\ UNCHANGED <<clock, published, wire, feed, sending, wireFaults>>

ClockTicks ==
  /\ clock < MaxClock /\ clock' = clock + 1
  /\ UNCHANGED <<published, wire, feed, sending, quotes, cache, wireFaults>>

QuoteNext ==
  \/ \E S \in SUBSET Symbols \ {{}} : VenueQuotes(S)
  \/ WireFails \/ ConnectFeed \/ FeedBreaks \/ ReadMessage
  \/ \E q \in sending : HandOver(q)
  \/ HandleQuote \/ ClockTicks

QuoteSpec == QuoteInit /\ [][QuoteNext]_quoteVars

-----------------------------------------------------------------------------
(* fresh_quote, and the gate over all symbols.                              *)
FreshQuote(q) ==
  /\ q.receivedAt <= clock /\ clock - q.receivedAt <= MaxAge
  /\ q.sentAt > 0 /\ q.sentAt <= q.receivedAt /\ q.receivedAt - q.sentAt <= MaxAge
  /\ ~q.gap
GateReady == \A s \in Symbols : FreshQuote(cache[s])

(* While the gate is open the strategy never sees a quote whose message     *)
(* followed one it has not seen the whole of: unless the quote's message    *)
(* was the first its session read, every quote of the message the venue     *)
(* sent before is cached, or a newer one of the same symbol.                *)
Follows(q, t) == q.change > 1 /\ ~q.first /\ t \in published[q.change - 1]
GateWhole ==
  GateReady => \A s, t \in Symbols :
    Follows(cache[s], t) => cache[t].change >= cache[s].change - 1

(* A cached quote never gives way to an older one, whatever was repeated or *)
(* overtaken on the way, within a session and from one to the next.         *)
NeverBack == [][\A s \in Symbols : cache'[s].change >= cache[s].change]_quoteVars
=============================================================================
