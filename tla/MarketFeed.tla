----------------------------- MODULE MarketFeed -----------------------------
(***************************************************************************)
(* Order books kept from the market stream: the feed task of               *)
(* src/src/market_ws.rs, its channel to the event loop of                  *)
(* src/src/engine.rs, the books the loop keeps, and the catalog task that  *)
(* refreshes their tick sizes over REST.                                   *)
(*                                                                         *)
(* A book's levels are abstracted to whether they are those the venue had  *)
(* after the same events: a copy belongs to the session whose snapshot it  *)
(* was built from, and is spoilt by an event of that session it missed.    *)
(***************************************************************************)
EXTENDS Naturals, FiniteSets, Sequences, SequencesExt

CONSTANTS
  Assets,
  MaxPending,  \* MAX_PENDING_MARKET_BATCHES
  Capacity,    \* CHANNEL_CAPACITY of the channel to the event loop
  Sessions,    \* numbers that tell sessions apart
  MaxWire,     \* bound: frames on the socket
  MaxBatch,    \* bound: events in a frame
  MaxTicks,    \* bound: tick size changes, resolutions, sides that empty or fill
  MaxFaults    \* bound: lost or refused connections, refused events

ASSUME FeedAssumption ==
  /\ MaxPending \in Nat /\ Capacity \in Nat \ {0}
  /\ MaxWire \in Nat \ {0} /\ MaxBatch \in Nat \ {0}
  /\ MaxTicks \in Nat /\ MaxFaults \in Nat
  /\ 0 \in Sessions /\ IsFiniteSet(Assets)

VARIABLES
  venueTick,  \* tick size of each asset at the venue
  resolved,   \* assets whose market is resolved
  oneSided,   \* assets whose book at the venue has no bid or no ask
  wire,       \* frames on the socket of the current session
  session,    \* the last session's number, and whether it is up
  pending,    \* frames read while a batch is unacknowledged
  awaiting,   \* a batch is unacknowledged
  ack,        \* the answer to it: at most one set of unresolved assets
  channel,    \* messages to the event loop
  books,      \* the books of the event loop
  installed,  \* a catalog is installed: before that there are no books
  repairing,  \* repairing_books
  catalog,    \* tick sizes a refresh has read and not installed: at most one
  ticks, faults

venueVars  == <<venueTick, resolved, oneSided, wire>>
feedVars   == <<session, pending, awaiting>>
engineVars == <<books, installed, repairing>>
vars == <<venueVars, feedVars, ack, channel, engineVars, catalog, ticks, faults>>

Ticks    == {0, 1}
Event == [kind : {"book", "half", "delta", "resolved", "refused"}, asset : Assets, tick : Ticks]
         \cup [kind : {"tick"}, asset : Assets, tick : Ticks, old : Ticks]
Message == [type : {"connected", "disconnected"}, session : Sessions]
           \cup [type : {"events"}, session : Sessions, events : Seq(Event)]

TypeOK ==
  /\ venueTick \in [Assets -> Ticks] /\ resolved \subseteq Assets
  /\ oneSided \subseteq Assets /\ wire \in Seq(Seq(Event))
  /\ session \in [number : Sessions, up : BOOLEAN]
  /\ pending \in Seq(Seq(Event)) /\ Len(pending) <= MaxPending
  /\ awaiting \in BOOLEAN /\ ack \subseteq SUBSET Assets
  /\ channel \in Seq(Message) /\ Len(channel) <= Capacity
  /\ books \in [Assets -> [tick : Ticks, tradeable : BOOLEAN,
                           session : Sessions, spoilt : BOOLEAN]]
  /\ installed \in BOOLEAN /\ repairing \subseteq Assets /\ catalog \subseteq [Assets -> Ticks]
  /\ ticks \in 0..MaxTicks /\ faults \in 0..MaxFaults

Init ==
  /\ venueTick = [a \in Assets |-> 0] /\ resolved = {} /\ oneSided \in SUBSET Assets
  /\ wire = <<>>
  /\ session = [number |-> 0, up |-> FALSE]
  /\ pending = <<>> /\ awaiting = FALSE /\ ack = {} /\ channel = <<>>
  /\ books = [a \in Assets |-> [tick |-> 0, tradeable |-> FALSE,
                                session |-> 0, spoilt |-> FALSE]]
  /\ installed \in BOOLEAN  \* live mode starts with a catalog, paper mode without
  /\ repairing = {} /\ catalog = {} /\ ticks = 0 /\ faults = 0

-----------------------------------------------------------------------------
(* apply_market_event and the loop over the events of a batch.              *)

(* Levels of one tick size may or may not be aligned to the other.          *)
Aligned(tick, e) == IF tick = e.tick THEN {TRUE} ELSE {TRUE, FALSE}

(* A copy that is not tradeable is given up: no delta is applied to it, and *)
(* only a snapshot makes it tradeable again.                                *)
Locked(b) == [b EXCEPT !.tradeable = FALSE, !.session = 0, !.spoilt = FALSE]

AppliesDelta(b) == b.tradeable

(* What an event of session n makes of its book, and whether it is refused. *)
(* A snapshot without bids or without asks is taken, but not tradeable; a   *)
(* delta that takes the last of them leaves its book tradeable.             *)
Applied(b, e, n) ==
  CASE e.kind \in {"book", "half"} ->
         {IF ~ok THEN [book |-> Locked(b), refused |-> TRUE]
          ELSE IF e.kind = "half" THEN [book |-> Locked(b), refused |-> FALSE]
          ELSE [book |-> [b EXCEPT !.tradeable = TRUE, !.session = n, !.spoilt = FALSE],
                refused |-> FALSE]
            : ok \in Aligned(b.tick, e)}
    [] e.kind = "delta" ->
         {IF ok /\ AppliesDelta(b)
          THEN [book |-> [b EXCEPT !.spoilt = @ \/ b.session # n], refused |-> FALSE]
          ELSE [book |-> Locked(b), refused |-> TRUE]
            : ok \in Aligned(b.tick, e)}
    [] e.kind = "tick" ->
         {[book |-> [Locked(b) EXCEPT !.tick = IF @ = e.old THEN e.tick ELSE @],
           refused |-> TRUE]}
    [] e.kind = "resolved" -> {[book |-> Locked(b), refused |-> FALSE]}
    [] OTHER -> {[book |-> Locked(b), refused |-> TRUE]}

(* One event: a refused one marks the asset for repair, a valid book or the *)
(* resolution of the market clears the mark.                                *)
Cleared(s, a) == [s EXCEPT !.repairing = @ \ {a}, !.invalid = @ \ {a}]
Marked(s, a) == [s EXCEPT !.repairing = @ \cup {a}, !.invalid = @ \cup {a}]

Handled(s, e, n) ==
  {LET t == [s EXCEPT !.books[e.asset] = r.book]
   IN IF r.refused THEN Marked(t, e.asset)
      ELSE IF e.kind \in {"book", "resolved"} THEN Cleared(t, e.asset) ELSE t
     : r \in Applied(s.books[e.asset], e, n)}

(* The batch: the outcomes it may have, event after event, and the assets   *)
(* it leaves unresolved.                                                    *)
Start == [books |-> books, repairing |-> repairing, invalid |-> {}]
HandledAll(before, e, n) == UNION {Handled(s, e, n) : s \in before}
Batch(events, n) ==
  LET after[i \in 0..Len(events)] ==
        IF i = 0 \/ ~installed THEN {Start} ELSE HandledAll(after[i - 1], events[i], n)
  IN after[Len(events)]

MutUnresolved(s) == s.invalid \ repairing
Unresolved(s) == s.invalid \cap s.repairing

MutAllLocked == books
AllLocked == [a \in Assets |-> Locked(books[a])]

-----------------------------------------------------------------------------
(* The venue.  Frames are lost when the session ends, never within it.      *)

Emit(e) ==
  /\ session.up
  /\ \/ /\ Len(wire) < MaxWire
        /\ wire' = Append(wire, <<e>>)
     \/ /\ wire # <<>> /\ Len(Last(wire)) < MaxBatch
        /\ wire' = [wire EXCEPT ![Len(wire)] = Append(@, e)]

SnapshotOf(a) ==
  [kind |-> IF a \in oneSided THEN "half" ELSE "book", asset |-> a, tick |-> venueTick[a]]
Delta(a) == [kind |-> "delta", asset |-> a, tick |-> venueTick[a]]

VenueChanges(a) ==
  /\ Emit(SnapshotOf(a)) \/ Emit(Delta(a))
  /\ UNCHANGED <<venueTick, resolved, oneSided, feedVars, ack, channel, engineVars, catalog, ticks, faults>>

VenueTickChanges(a) ==
  /\ ticks < MaxTicks /\ ticks' = ticks + 1
  /\ venueTick' = [venueTick EXCEPT ![a] = 1 - @]
  /\ \/ Emit([kind |-> "tick", asset |-> a, old |-> venueTick[a],
              tick |-> 1 - venueTick[a]])
     \/ ~session.up /\ UNCHANGED wire
  /\ UNCHANGED <<resolved, oneSided, feedVars, ack, channel, engineVars, catalog, faults>>

VenueTurns(a) ==
  /\ ticks < MaxTicks /\ ticks' = ticks + 1
  /\ oneSided' = SymDiff(oneSided, {a})
  /\ Emit(Delta(a)) \/ (~session.up /\ UNCHANGED wire)
  /\ UNCHANGED <<venueTick, resolved, feedVars, ack, channel, engineVars, catalog, faults>>

VenueResolves(a) ==
  /\ a \notin resolved /\ resolved' = resolved \cup {a}
  /\ ticks < MaxTicks /\ ticks' = ticks + 1
  /\ Emit([kind |-> "resolved", asset |-> a, tick |-> venueTick[a]])
  /\ UNCHANGED <<venueTick, oneSided, feedVars, ack, channel, engineVars, catalog, faults>>

(* An event that validation refuses: no hash, a crossed or diverged top,    *)
(* an event out of order.                                                   *)
VenueErrs(a) ==
  /\ faults < MaxFaults /\ faults' = faults + 1
  /\ Emit([kind |-> "refused", asset |-> a, tick |-> venueTick[a]])
  /\ UNCHANGED <<venueTick, resolved, oneSided, feedVars, ack, channel, engineVars, catalog, ticks>>

-----------------------------------------------------------------------------
(* The feed task: run_market_feed, run_connected_market_session and         *)
(* await_market_batch_completion.                                           *)

Snapshot == SetToSeq({SnapshotOf(a) : a \in Assets})

(* sender.send(message).await: it waits while the channel is full. *)
Post(message) == Len(channel) < Capacity /\ channel' = Append(channel, message)

(* A number of no session that anything is left of.                         *)
Unused(n) == n # session.number /\ \A i \in DOMAIN channel : channel[i].session # n

Connect ==
  /\ ~session.up
  /\ \E n \in Sessions :
       /\ Unused(n) /\ session' = [number |-> n, up |-> TRUE]
       /\ Post([type |-> "connected", session |-> n])
  /\ wire' = <<Snapshot>>
  /\ UNCHANGED <<venueTick, resolved, oneSided, pending, awaiting, ack, engineVars, catalog, ticks, faults>>

ConnectFails ==
  /\ ~session.up /\ faults < MaxFaults /\ faults' = faults + 1
  /\ Post([type |-> "disconnected", session |-> session.number])
  /\ UNCHANGED <<venueVars, feedVars, ack, engineVars, catalog, ticks>>

Send(frame) ==
  /\ Post([type |-> "events", session |-> session.number, events |-> frame])
  /\ awaiting' = TRUE /\ ack' = {}

MutSessionEnds ==
  /\ session' = [session EXCEPT !.up = FALSE]
  /\ wire' = <<>> /\ pending' = <<>> /\ ack' = {} /\ UNCHANGED awaiting
  /\ Post([type |-> "disconnected", session |-> session.number])
SessionEnds ==
  /\ session' = [session EXCEPT !.up = FALSE]
  /\ wire' = <<>> /\ pending' = <<>> /\ awaiting' = FALSE /\ ack' = {}
  /\ Post([type |-> "disconnected", session |-> session.number])

SendBatch ==
  /\ session.up /\ ~awaiting
  /\ \/ pending # <<>> /\ Send(Head(pending)) /\ pending' = Tail(pending)
        /\ UNCHANGED wire
     \/ pending = <<>> /\ wire # <<>> /\ Send(Head(wire)) /\ wire' = Tail(wire)
        /\ UNCHANGED pending
  /\ UNCHANGED <<venueTick, resolved, oneSided, session, engineVars, catalog, ticks, faults>>

MutHasRoom == Len(pending) <= MaxPending
HasRoom == Len(pending) < MaxPending

ReadAhead ==
  /\ session.up /\ awaiting /\ wire # <<>>
  /\ \/ /\ HasRoom
        /\ pending' = Append(pending, Head(wire)) /\ wire' = Tail(wire)
        /\ UNCHANGED <<session, awaiting, ack, channel>>
     \/ ~HasRoom /\ SessionEnds
  /\ UNCHANGED <<venueTick, resolved, oneSided, engineVars, catalog, ticks, faults>>

BatchCompletes ==
  /\ session.up /\ awaiting /\ ack # {}
  /\ \/ /\ ack = {{}}
        /\ awaiting' = FALSE /\ ack' = {}
        /\ UNCHANGED <<session, wire, pending, channel>>
     \/ ack # {{}} /\ SessionEnds
  /\ UNCHANGED <<venueTick, resolved, oneSided, engineVars, catalog, ticks, faults>>

(* The socket closes, fails, or is silent for three ping intervals. *)
ConnectionLost ==
  /\ session.up /\ faults < MaxFaults /\ faults' = faults + 1
  /\ SessionEnds
  /\ UNCHANGED <<venueTick, resolved, oneSided, engineVars, catalog, ticks>>

-----------------------------------------------------------------------------
(* handle_market_message.  The answer reaches the feed task only if it      *)
(* still waits for this batch.                                              *)
HandleMessage ==
  /\ channel # <<>> /\ channel' = Tail(channel)
  /\ LET m == Head(channel)
     IN \/ m.type = "connected" /\ UNCHANGED <<engineVars, ack>>
        \/ m.type = "disconnected" /\ books' = AllLocked
           /\ UNCHANGED <<installed, repairing, ack>>
        \/ /\ m.type = "events"
           /\ \E s \in Batch(m.events, m.session) :
                /\ books' = s.books /\ repairing' = s.repairing /\ UNCHANGED installed
                /\ ack' = IF awaiting /\ session.number = m.session
                          THEN {Unresolved(s)} ELSE ack
  /\ UNCHANGED <<venueVars, feedVars, catalog, ticks, faults>>

(* spawn_catalog_task and install_catalog. *)
CatalogRead ==
  /\ catalog = {} /\ catalog' = {venueTick}
  /\ UNCHANGED <<venueVars, feedVars, ack, channel, engineVars, ticks, faults>>

InstallCatalog ==
  /\ catalog # {} /\ catalog' = {} /\ installed' = TRUE
  /\ \E c \in catalog :
       books' = [a \in Assets |->
                   IF books[a].tick = c[a] THEN books[a]
                   ELSE [Locked(books[a]) EXCEPT !.tick = c[a]]]
  /\ UNCHANGED <<venueVars, feedVars, ack, channel, repairing, ticks, faults>>

Next ==
  \/ \E a \in Assets : \/ VenueChanges(a) \/ VenueTickChanges(a) \/ VenueTurns(a)
                     \/ VenueResolves(a) \/ VenueErrs(a)
  \/ Connect \/ ConnectFails \/ SendBatch \/ ReadAhead \/ BatchCompletes
  \/ ConnectionLost \/ HandleMessage \/ CatalogRead \/ InstallCatalog

Spec == Init /\ [][Next]_vars

(* The feed task runs (whichever of frame and answer it takes first), the   *)
(* event loop serves its channels, the catalog task ticks every minute, and *)
(* in an active market every book goes on changing.                         *)
ActiveSpec ==
  /\ Spec
  /\ WF_vars(Connect \/ SendBatch \/ ReadAhead \/ BatchCompletes)
  /\ WF_vars(HandleMessage) /\ WF_vars(CatalogRead \/ InstallCatalog)
  /\ \A a \in Assets : SF_vars(VenueChanges(a))

-----------------------------------------------------------------------------
(* A tradeable book is one the venue had: no event of the session of its    *)
(* snapshot was missed, and that session is the one that is up, or the news *)
(* of its end is on its way.                                                *)
SoundBook ==
  \A a \in Assets : books[a].tradeable =>
    /\ ~books[a].spoilt
    /\ \/ session.up /\ session.number = books[a].session
       \/ \E i \in DOMAIN channel :
            channel[i].type = "disconnected" /\ channel[i].session = books[a].session

(* No batch is left unacknowledged by both sides, and none is sent before   *)
(* the last is acknowledged.                                                *)
Outstanding ==
  {i \in DOMAIN channel : channel[i].type = "events" /\ channel[i].session = session.number}
OneBatch ==
  session.up /\ awaiting =>
    \/ ack # {} /\ Outstanding = {}
    \/ ack = {} /\ \E i \in DOMAIN channel : Outstanding = {i}

(* However feed, engine and catalog interleave, a book whose market is not  *)
(* resolved and has two sides becomes tradeable again and again: an         *)
(* invalidation that no later event of its batch repairs forces a           *)
(* resubscription, and so does the first delta after a snapshot that had    *)
(* one side only, once the other is there.                                  *)
BookRecovers == \A a \in Assets : []<>(books[a].tradeable \/ a \in resolved \/ a \in oneSided)
=============================================================================
