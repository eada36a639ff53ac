----------------------------- MODULE LiveEngine -----------------------------
(***************************************************************************)
(* The live-trading runtime of src/src/engine.rs and its execution router  *)
(* (src/src/execution.rs): one actor that takes market, user-feed,         *)
(* operator, compliance, catalog and timer messages one at a time, and     *)
(* that awaits the venue in the middle of some of its handlers.            *)
(*                                                                         *)
(* What runs concurrently with the actor:                                  *)
(*   - the user-feed task (src/src/user_ws.rs), which bumps the shared     *)
(*     account revision and then sends the event on a FIFO channel;        *)
(*   - the venue, which accepts, refuses, fills and cancels orders, whose  *)
(*     answers may be lost or late, and whose notices may be lost,         *)
(*     repeated or reordered;                                              *)
(*   - a crash, which leaves only the venue and the journal behind.        *)
(*                                                                         *)
(* A handler is one action, or several joined by pc when it awaits.        *)
(* Abstractions: an order is filled whole, by one trade; the journal is    *)
(* kept as what recovery asks of it (which attempts were written ahead,    *)
(* which have an exchange identity, which have a terminal record, and the  *)
(* account mutations); the client and the exchange identity of an order    *)
(* are one model value, known to the engine only once it was returned.     *)
(***************************************************************************)
EXTENDS Naturals, Sequences, FiniteSets

CONSTANTS
  Assets,               \* configured outcome tokens
  Orders,               \* client order identities (a fresh UUID each)
  AssetOf,              \* the asset an order is for
  NoOrder,              \* not an order
  MaxRevision,          \* bound on the feed messages of one process
  QueueCapacity,        \* capacity of the user-feed channel
  MaxHeartbeatFailures, \* HeartbeatState::max_failures
  Faults                \* bound: which things go wrong in an instance

ASSUME OrderAssumption ==
  /\ AssetOf \in [Orders -> Assets]
  /\ NoOrder \notin Orders

ASSUME BoundAssumption ==
  /\ MaxRevision \in Nat
  /\ QueueCapacity \in Nat \ {0}
  /\ MaxHeartbeatFailures \in Nat \ {0}
  /\ Faults \subseteq {"crash", "loss", "trade", "answer", "journal", "gate"}

VARIABLES
  \* the venue and its undelivered notices
  venue,            \* the state of each order at the venue
  wire,             \* notices the user stream has yet to carry
  \* the user-feed task
  session,          \* is the authenticated stream up?
  accountRevision,  \* the shared AtomicU64
  outgoing,         \* message whose revision is bumped but which is not sent
  queue,            \* the mpsc channel to the engine
  \* the engine actor
  proc,             \* "running", "degraded" (start-up refused) or "down"
  pc,               \* the await at which the current handler stands
  todo,             \* assets the current market event has yet to offer
  cur,              \* order being submitted
  expected,         \* revision the current handler took at its start
  snap,             \* remote view read by the current handler
  paused, enabled,  \* RuntimeState: paused, live_submission_enabled
  latched,          \* LiveRuntime::safety_latched
  certain,          \* OwnOrderCacheState::certain
  processed,        \* LiveRuntime::processed_account_revision
  tracked,          \* keys of LiveRuntime::order_clients
  owned,            \* LiveRuntime::owned_order_ids
  hbFailures, eligible, catalogOk,  \* heartbeat, compliance, readiness
  \* durable: the journal
  jwal, jmap, jterm,  \* attempts: written ahead, identified, terminal
  clip, bad,          \* account mutations: state of each fill, failed fills
  poisoned            \* Journal::poisoned (volatile)

venueVars   == <<venue, wire>>
feedVars    == <<session, accountRevision, outgoing, queue>>
handlerVars == <<pc, todo, cur, expected, snap>>
flagVars    == <<paused, enabled, latched, certain>>
gateVars    == <<hbFailures, eligible, catalogOk>>
attemptVars == <<jwal, jmap, jterm>>
ledgerVars  == <<clip, bad>>
vars == <<venueVars, feedVars, proc, handlerVars, flagVars, processed,
          tracked, owned, gateVars, attemptVars, ledgerVars, poisoned>>

-----------------------------------------------------------------------------
VenueStatus == {"none", "inflight", "open", "filled", "failed",
                "cancelled", "refused"}
NoticeKind  == {"matched", "trade", "failed", "cancelled"}
Notice      == [kind : NoticeKind, order : Orders]
Message     == [kind : {"connected", "disconnected"}, order : {NoOrder}, revision : Nat]
               \cup [kind : NoticeKind, order : Orders, revision : Nat]
ClipStatus  == {"none", "order", "trade", "settled"}
Locus       == {"idle", "risk", "wal", "post", "connected", "audit", "startup"}

(* What a REST read shows of an order: open, or in the trade history with  *)
(* an active or a failed trade, or neither.                                *)
ViewStatus == {"gone", "open", "filled", "failed"}
View == [o \in Orders |->
           IF venue[o] \in {"open", "filled", "failed"} THEN venue[o] ELSE "gone"]
Blank == [o \in Orders |-> "gone"]

OpenAtVenue == {o \in Orders : venue[o] = "open"}

(* pending_account_reconciliation is Some exactly when this set is not     *)
(* empty: fills seen by an order event only ("order") or by a trade.       *)
Pending == {o \in Orders : clip[o] \in {"order", "trade"}}

(* known_trade_order_ids *)
Known == bad \cup {o \in Orders : clip[o] \in {"trade", "settled"}}

HeartbeatHealthy == hbFailures < MaxHeartbeatFailures
MaxFailuresCounted == MaxHeartbeatFailures + 1  \* bound: heartbeat failures in a row
GatesOpen == HeartbeatHealthy /\ eligible /\ catalogOk

Idle == proc = "running" /\ pc = "idle" /\ todo = {}

VenueTyped == venue \in [Orders -> VenueStatus] /\ wire \subseteq Notice

FeedTyped ==
  /\ session \in {"down", "up"}
  /\ accountRevision \in Nat
  /\ outgoing \in Seq(Message)
  /\ queue \in Seq(Message)

HandlerTyped ==
  /\ proc \in {"running", "degraded", "down"}
  /\ pc \in Locus
  /\ todo \subseteq Assets
  /\ cur \in Orders \cup {NoOrder}
  /\ expected \in Nat
  /\ snap \in [Orders -> ViewStatus]
  /\ pc \in {"risk", "wal", "post"} => cur \in Orders

FlagTyped ==
  /\ paused \in BOOLEAN /\ enabled \in BOOLEAN
  /\ latched \in BOOLEAN /\ certain \in BOOLEAN
  /\ eligible \in BOOLEAN /\ catalogOk \in BOOLEAN /\ poisoned \in BOOLEAN

EngineTyped ==
  /\ processed \in Nat
  /\ tracked \subseteq Orders /\ owned \subseteq Orders
  /\ hbFailures \in 0..MaxFailuresCounted

JournalTyped ==
  /\ jwal \subseteq Orders /\ jmap \subseteq Orders /\ jterm \subseteq Orders
  /\ clip \in [Orders -> ClipStatus]
  /\ bad \subseteq Orders

(* The engine looks trades up by owned_order_ids: an order it tracks must   *)
(* be among them, or its fills would pass for another account's.            *)
TypeOK ==
  /\ VenueTyped /\ FeedTyped /\ HandlerTyped
  /\ FlagTyped /\ EngineTyped /\ JournalTyped
  /\ tracked \subseteq owned

Init ==
  /\ venue = [o \in Orders |-> "none"]
  /\ wire = {}
  /\ session = "down" /\ accountRevision = 0
  /\ outgoing = <<>> /\ queue = <<>>
  /\ proc = "down" /\ pc = "idle" /\ todo = {}
  /\ cur = NoOrder /\ expected = 0 /\ snap = Blank
  /\ paused = TRUE /\ enabled = FALSE /\ latched = FALSE /\ certain = FALSE
  /\ processed = 0 /\ tracked = {} /\ owned = {}
  /\ hbFailures = 0 /\ eligible = TRUE /\ catalogOk = TRUE
  /\ jwal = {} /\ jmap = {} /\ jterm = {}
  /\ clip = [o \in Orders |-> "none"] /\ bad = {}
  /\ poisoned = FALSE

-----------------------------------------------------------------------------
(* The venue.  It may act at any time, the awaits of the engine included.  *)

Becomes(o, status, kinds) ==
  /\ venue' = [venue EXCEPT ![o] = status]
  /\ wire' = wire \cup {[kind |-> k, order |-> o] : k \in kinds}
  /\ UNCHANGED <<feedVars, proc, handlerVars, flagVars, processed, tracked,
                 owned, gateVars, attemptVars, ledgerVars, poisoned>>

VenueAccepts(o) == venue[o] = "inflight" /\ Becomes(o, "open", {})

(* Rejected, or never arrived. *)
VenueRefuses(o) == venue[o] = "inflight" /\ Becomes(o, "refused", {})

VenueFills(o) == venue[o] = "open" /\ Becomes(o, "filled", {"matched", "trade"})

(* The trade fails on chain after it was matched. *)
VenueTradeFails(o) ==
  "trade" \in Faults /\ venue[o] = "filled" /\ Becomes(o, "failed", {"failed"})

(* Expiry, or the heartbeat dead-man. *)
VenueCancels(o) == venue[o] = "open" /\ Becomes(o, "cancelled", {"cancelled"})

-----------------------------------------------------------------------------
(* The user-feed task: the revision is bumped first, the message sent      *)
(* afterwards, one message at a time.                                      *)

feedFrame == <<venue, proc, handlerVars, flagVars, processed, tracked, owned,
               gateVars, attemptVars, ledgerVars, poisoned>>

Bump(kind, order) ==
  /\ proc = "running"
  /\ outgoing = <<>>
  /\ accountRevision < MaxRevision
  /\ accountRevision' = accountRevision + 1
  /\ outgoing' = <<[kind |-> kind, order |-> order,
                    revision |-> accountRevision + 1]>>

FeedConnects ==
  /\ session = "down"
  /\ Bump("connected", NoOrder)
  /\ session' = "up"
  /\ UNCHANGED <<feedFrame, queue, wire>>

(* The stream ended, or an attempt to connect failed. *)
FeedDisconnects ==
  /\ Bump("disconnected", NoOrder)
  /\ session' = "down"
  /\ UNCHANGED <<feedFrame, queue, wire>>

(* Trade notices repeat as the trade's status advances. *)
FeedReceives(n) ==
  /\ session = "up"
  /\ Bump(n.kind, n.order)
  /\ \/ wire' = wire \ {n}
     \/ "loss" \in Faults /\ n.kind = "trade" /\ wire' = wire
  /\ UNCHANGED <<feedFrame, queue, session>>

FeedSends ==
  /\ outgoing # <<>>
  /\ Len(queue) < QueueCapacity
  /\ queue' = Append(queue, Head(outgoing))
  /\ outgoing' = <<>>
  /\ UNCHANGED <<feedFrame, wire, session, accountRevision>>

(* A notice is lost: the stream was down, or silently dropped it. *)
FeedLoses(n) ==
  /\ "loss" \in Faults
  /\ wire' = wire \ {n}
  /\ UNCHANGED <<feedFrame, feedVars>>

-----------------------------------------------------------------------------
(* Cancelling.  Venue requests are synchronous for the engine; what the    *)
(* venue did and what its answer said may differ.                          *)

VenueCancelled(S) ==
  /\ venue' = [o \in Orders |-> IF o \in S THEN "cancelled" ELSE venue[o]]
  /\ wire' = wire \cup {[kind |-> "cancelled", order |-> o] : o \in S}

(* Every requested order was cancelled, reported and journaled. *)
CancelConfirmed(ids) ==
  /\ ids \subseteq OpenAtVenue
  /\ ids = {} \/ ~poisoned
  /\ VenueCancelled(ids)
  /\ jterm' = jterm \cup ids
  /\ tracked' = tracked \ ids
  /\ UNCHANGED poisoned

(* The account-wide cancel, sent when the state of orders is uncertain: any *)
(* of the open orders may end up cancelled, any of those reported and       *)
(* journaled, and only an order the engine knows gets a terminal record of  *)
(* its own attempt.  known, term and broken are order_clients, the terminal *)
(* records and the poison flag as the handler has left them.                *)
MutAttributable(killed, known) == known
Attributable(killed, known) == killed \cap known

EmergencyCancel(known, term, broken) ==
  \E killed \in SUBSET OpenAtVenue :
    \E noted \in SUBSET Attributable(killed, known) :
      /\ broken => noted = {}
      /\ VenueCancelled(killed)
      /\ jterm' = term \cup noted
      /\ tracked' = known \ noted
      /\ poisoned' \in IF killed = {} THEN {broken}
                      ELSE {broken, broken \/ "journal" \in Faults}

(* cancel_tracked_live_orders and, when it fails (partial answer, identity  *)
(* mismatch, transport or journal error), latch_cancel_uncertainty.         *)
MutCancelTracked(ids, ok) ==
  /\ IF ok THEN CancelConfirmed(ids)
           ELSE ids # {} /\ EmergencyCancel(tracked, jterm, poisoned)
  /\ UNCHANGED latched
CancelTracked(ids, ok) ==
  /\ IF ok THEN CancelConfirmed(ids)
           ELSE ids # {} /\ EmergencyCancel(tracked, jterm, poisoned)
  /\ latched' = (latched \/ ~ok)

(* Submission disabled, strategy paused, latch set. *)
MutLockOut == latched' = TRUE /\ enabled' = FALSE /\ UNCHANGED paused
LockOut == latched' = TRUE /\ enabled' = FALSE /\ paused' = TRUE

(* The handler returns to the event loop. *)
Return == pc' = "idle" /\ cur' = NoOrder /\ expected' = 0 /\ snap' = Blank

-----------------------------------------------------------------------------
(* Market events and the submission path.  The pause flag is read once per  *)
(* event; the assets of the event are then offered one after the other.     *)

MarketEvent(S) ==
  /\ Idle /\ ~paused /\ S # {}
  /\ todo' = S
  /\ UNCHANGED <<venueVars, feedVars, proc, pc, cur, expected, snap, flagVars,
                 processed, tracked, owned, gateVars, attemptVars, ledgerVars,
                 poisoned>>

(* No intent: the strategy has none, the rate limiter refuses it, or an     *)
(* account event is queued but not yet processed.                           *)
SkipAsset(a) ==
  /\ proc = "running" /\ pc = "idle" /\ a \in todo
  /\ todo' = todo \ {a}
  /\ UNCHANGED <<venueVars, feedVars, proc, pc, cur, expected, snap, flagVars,
                 processed, tracked, owned, gateVars, attemptVars, ledgerVars,
                 poisoned>>

(* The intent passes the revision check and reads the account. *)
BeginIntent(o) ==
  /\ proc = "running" /\ pc = "idle" /\ AssetOf[o] \in todo
  /\ o \notin jwal
  /\ accountRevision = processed
  /\ todo' = todo \ {AssetOf[o]}
  /\ pc' = "risk" /\ cur' = o /\ expected' = accountRevision /\ snap' = View
  /\ UNCHANGED <<venueVars, feedVars, proc, flagVars, processed, tracked, owned,
                 gateVars, attemptVars, ledgerVars, poisoned>>

(* The snapshot failed, the revision moved, fills await reconciliation, an  *)
(* order for the asset rests, or a risk gate (which also reads the clock)   *)
(* refuses.                                                                 *)
DiscardIntent ==
  /\ pc = "risk"
  /\ Return
  /\ UNCHANGED <<venueVars, feedVars, proc, todo, flagVars, processed, tracked,
                 owned, gateVars, attemptVars, ledgerVars, poisoned>>

MutIntentAdmissible == accountRevision = expected /\ Pending = {} /\ GatesOpen
IntentAdmissible ==
  /\ accountRevision = expected
  /\ Pending = {}
  /\ \A o \in Orders : snap[o] = "open" => AssetOf[o] # AssetOf[cur]
  /\ GatesOpen

WriteAhead ==
  /\ pc = "risk" /\ IntentAdmissible /\ ~poisoned
  /\ jwal' = jwal \cup {cur}
  /\ pc' = "wal"
  /\ UNCHANGED <<venueVars, feedVars, proc, todo, cur, expected, snap, flagVars,
                 processed, tracked, owned, gateVars, jmap, jterm, ledgerVars,
                 poisoned>>

(* The append fails; the record may still be on disk if it could not be     *)
(* rolled back.                                                             *)
WriteAheadFails ==
  /\ "journal" \in Faults
  /\ pc = "risk" /\ IntentAdmissible
  /\ jwal' \in IF poisoned THEN {jwal} ELSE {jwal, jwal \cup {cur}}
  /\ poisoned' = TRUE
  /\ LockOut /\ Return
  /\ UNCHANGED <<venueVars, feedVars, proc, todo, certain, processed, tracked,
                 owned, gateVars, jmap, jterm, ledgerVars>>

(* The gates are evaluated again after the write-ahead record is durable. *)
MutStillAdmissible == GatesOpen
StillAdmissible == accountRevision = expected /\ GatesOpen

PostOrder ==
  /\ pc = "wal" /\ StillAdmissible
  /\ venue' = [venue EXCEPT ![cur] = "inflight"]
  /\ pc' = "post"
  /\ UNCHANGED <<wire, feedVars, proc, todo, cur, expected, snap, flagVars,
                 processed, tracked, owned, gateVars, attemptVars, ledgerVars,
                 poisoned>>

RejectBeforeSubmit ==
  /\ pc = "wal"
  /\ \/ jterm' = jterm \cup {cur} /\ UNCHANGED <<paused, enabled, latched, poisoned>>
     \/ "journal" \in Faults /\ LockOut /\ poisoned' = TRUE /\ UNCHANGED jterm
  /\ Return
  /\ UNCHANGED <<venueVars, feedVars, proc, todo, certain, processed, tracked,
                 owned, gateVars, jwal, jmap, ledgerVars>>

(* Answers of the venue, as LiveExecution::submit reads them: a rejection,  *)
(* an acknowledgement, a status that is already terminal, an inconsistent   *)
(* answer that carries an order id, and no usable identity at all (success  *)
(* with an empty id, a transport error, a time-out).                        *)
Answers == {"rejected", "ack", "terminal"}
             \cup IF "answer" \in Faults THEN {"unknown", "none"} ELSE {}

AnswerPossible(answer, status) ==
  CASE answer = "rejected" -> status = "refused"
    [] answer = "ack"      -> status \in {"open", "filled", "failed", "cancelled"}
    [] answer = "terminal" -> status \in {"filled", "failed", "cancelled"}
    [] answer = "unknown"  -> status # "inflight"
    [] answer = "none"     -> TRUE

Identified(answer) == answer \in {"ack", "terminal", "unknown"}

(* An order the venue has given an identity is owned from then on, after a  *)
(* definite answer and after an ambiguous one (two places in the code).     *)
MutOwnedAfter(answer) == IF answer \in {"ack", "terminal"} THEN owned \cup {cur} ELSE owned
OwnedAfter(answer) == IF Identified(answer) THEN owned \cup {cur} ELSE owned

(* The lifecycle record is appended whatever the answer; the submission is  *)
(* ambiguous, and handle_ambiguous_live_submission runs, unless the answer  *)
(* is definite, the revision stood still and the record is durable.         *)
SubmitAnswered ==
  /\ pc = "post"
  /\ \E answer \in Answers, durable \in {TRUE, "journal" \notin Faults} :
       LET known == IF Identified(answer) THEN tracked \cup {cur} ELSE tracked
           term  == IF durable /\ answer \in {"rejected", "terminal"}
                    THEN jterm \cup {cur} ELSE jterm
           definite == answer \in {"rejected", "ack", "terminal"}
       IN /\ AnswerPossible(answer, venue[cur])
          /\ owned' = OwnedAfter(answer)
          /\ jmap' = IF durable /\ Identified(answer) THEN jmap \cup {cur} ELSE jmap
          /\ IF definite /\ durable /\ accountRevision = expected
             THEN /\ tracked' = known /\ jterm' = term
                  /\ UNCHANGED <<venueVars, paused, enabled, latched, poisoned>>
             ELSE LockOut /\ EmergencyCancel(known, term, ~durable)
  /\ Return
  /\ UNCHANGED <<feedVars, proc, todo, certain, processed, gateVars, jwal,
                 ledgerVars>>

-----------------------------------------------------------------------------
(* Fills read from the authoritative trade history.  Only orders the engine *)
(* owns, or whose fill it already waits for, are looked up.                 *)

MutUnseen == {o \in Orders : clip[o] = "order" /\ snap[o] = "filled" /\ o \notin Known}
MutSeenAgain ==
  {o \in owned \cup {p \in Orders : clip[p] = "order"} :
     snap[o] = "filled" \/ (snap[o] = "failed" /\ o \notin bad)}
Unseen ==
  {o \in owned \cup {p \in Orders : clip[p] = "order"} :
     \/ snap[o] = "filled" /\ o \notin Known
     \/ snap[o] = "failed" /\ o \notin bad}

Ingest(S) ==
  /\ clip' = [o \in Orders |->
                IF o \in S /\ snap[o] = "filled" THEN "trade" ELSE clip[o]]
  /\ bad' = bad \cup {o \in S : snap[o] = "failed"}
  /\ owned' = owned \cup S

(* The revision a message acknowledges. *)
MutRevisionOf(message) == accountRevision
RevisionOf(message) == message.revision

(* fail_user_reconnect: lock out, forget certainty, cancel account-wide.    *)
FailReconnect(revision, broken) ==
  /\ LockOut /\ certain' = FALSE
  /\ processed' = revision
  /\ EmergencyCancel(tracked, jterm, broken)

(* Some of the unseen fills are journaled before an append fails. *)
IngestFails(revision) ==
  /\ "journal" \in Faults
  /\ \E S \in SUBSET Unseen :
       /\ S # Unseen /\ (poisoned => S = {})
       /\ Ingest(S)
  /\ FailReconnect(revision, TRUE)

-----------------------------------------------------------------------------
(* Messages of the user feed. *)

Received(kinds) ==
  /\ Idle /\ queue # <<>> /\ Head(queue).kind \in kinds
  /\ queue' = Tail(queue)

(* The stream is back: read the open orders and the trades... *)
TakeConnected ==
  /\ Received({"connected"})
  /\ pc' = "connected" /\ expected' = RevisionOf(Head(queue)) /\ snap' = View
  /\ UNCHANGED <<venueVars, session, accountRevision, outgoing, proc, todo, cur,
                 flagVars, processed, tracked, owned, gateVars, attemptVars,
                 ledgerVars, poisoned>>

(* ...which may fail. *)
ResnapshotFails ==
  /\ Received({"connected"})
  /\ FailReconnect(RevisionOf(Head(queue)), poisoned)
  /\ UNCHANGED <<session, accountRevision, outgoing, proc, handlerVars, owned,
                 gateVars, jwal, jmap, ledgerVars>>

(* validate_reconnect_snapshot, after the revision check. *)
ResnapshotValid ==
  /\ accountRevision = expected
  /\ {o \in Orders : snap[o] = "open"} \subseteq tracked
  /\ \A o \in tracked : snap[o] # "gone"

Resynchronized ==
  /\ Ingest(Unseen)
  /\ Unseen = {} \/ ~poisoned
  /\ IF latched \/ bad' # bad
     THEN FailReconnect(expected, poisoned)
     ELSE /\ tracked' = {o \in tracked : snap[o] = "open"}
          /\ certain' = TRUE /\ processed' = expected
          /\ enabled' \in {FALSE, GatesOpen /\ Pending' = {}}
          /\ UNCHANGED <<venueVars, jterm, paused, latched, poisoned>>

FinishConnected ==
  /\ pc = "connected"
  /\ \/ ResnapshotValid /\ (Resynchronized \/ IngestFails(expected))
     \/ ~ResnapshotValid /\ FailReconnect(expected, poisoned)
                         /\ UNCHANGED <<owned, ledgerVars>>
  /\ Return
  /\ UNCHANGED <<feedVars, proc, todo, gateVars, jwal, jmap>>

(* The stream is gone: pause, and cancel every tracked order. *)
TakeDisconnected ==
  /\ Received({"disconnected"})
  /\ processed' = RevisionOf(Head(queue))
  /\ certain' = FALSE /\ enabled' = FALSE /\ paused' = TRUE
  /\ \E ok \in BOOLEAN : CancelTracked(tracked, ok)
  /\ UNCHANGED <<session, accountRevision, outgoing, proc, handlerVars, owned,
                 gateVars, jwal, jmap, ledgerVars>>

(* journal_user_event, record_pending_account_event and the removal of a    *)
(* terminal order, by kind of event.                                        *)
EventEffect(kind, o) ==
  LET closes == kind \in {"matched", "cancelled"} /\ o \in tracked
  IN /\ jterm' = IF closes THEN jterm \cup {o} ELSE jterm
     /\ tracked' = IF closes THEN tracked \ {o} ELSE tracked
     /\ clip' = [clip EXCEPT ![o] =
                   IF kind = "matched" /\ o \notin Known THEN "order"
                   ELSE IF kind = "trade" /\ @ # "settled" THEN "trade"
                   ELSE @]
     /\ bad' = IF kind = "failed" THEN bad \cup {o} ELSE bad
     /\ owned' = IF kind \in {"trade", "failed"} THEN owned \cup {o} ELSE owned
     /\ latched' = (latched \/ kind = "failed")

MutAccountChanges(kind, o) ==
  \/ kind = "matched" /\ o \notin Known
  \/ kind = "trade" /\ clip[o] # "settled"
AccountChanges(kind, o) ==
  \/ kind = "failed"
  \/ kind = "matched" /\ o \notin Known
  \/ kind = "trade" /\ clip[o] # "settled"

Appends(kind, o) ==
  kind # "cancelled" \/ o \in tracked

TakeEvent ==
  /\ Received(NoticeKind)
  /\ LET message == Head(queue)
     IN /\ Appends(message.kind, message.order) => ~poisoned
        /\ EventEffect(message.kind, message.order)
        /\ enabled' = (enabled /\ ~AccountChanges(message.kind, message.order))
        /\ processed' = RevisionOf(message)
  /\ UNCHANGED <<venueVars, session, accountRevision, outgoing, proc,
                 handlerVars, paused, certain, gateVars, jwal, jmap, poisoned>>

-----------------------------------------------------------------------------
(* The periodic audit of account and trades. *)

AuditRead ==
  /\ Idle /\ accountRevision = processed
  /\ pc' = "audit" /\ expected' = accountRevision /\ snap' = View
  /\ UNCHANGED <<venueVars, feedVars, proc, todo, cur, flagVars, processed,
                 tracked, owned, gateVars, attemptVars, ledgerVars, poisoned>>

AuditReadFails ==
  /\ Idle /\ accountRevision = processed
  /\ enabled' = FALSE
  /\ UNCHANGED <<venueVars, feedVars, proc, handlerVars, paused, latched,
                 certain, processed, tracked, owned, gateVars, attemptVars,
                 ledgerVars, poisoned>>

(* The revision moved while the audit was reading. *)
AuditAbandoned ==
  /\ pc = "audit" /\ accountRevision # expected
  /\ Return
  /\ UNCHANGED <<venueVars, feedVars, proc, todo, flagVars, processed, tracked,
                 owned, gateVars, attemptVars, ledgerVars, poisoned>>

(* All pending fills must be in the trade history; whether the holdings     *)
(* already show them is the Data API's choice.                              *)
Provable(fills) ==
  \A o \in Orders : fills[o] \in {"order", "trade"} =>
                      fills[o] = "trade" /\ snap[o] = "filled"

SettleAll(fills) ==
  [o \in Orders |-> IF fills[o] = "trade" THEN "settled" ELSE fills[o]]

PendingIn(fills) == {o \in Orders : fills[o] \in {"order", "trade"}}

(* The fills the engine knows once the unseen ones are ingested. *)
WithUnseen ==
  [o \in Orders |-> IF o \in Unseen /\ snap[o] = "filled" THEN "trade" ELSE clip[o]]

Audited ==
  /\ Unseen = {} \/ ~poisoned
  /\ bad' = bad \cup {o \in Unseen : snap[o] = "failed"}
  /\ owned' = owned \cup Unseen
  /\ LET fills == WithUnseen
         safe == GatesOpen /\ certain
     IN IF latched \/ bad' # bad
        THEN clip' = fills /\ FailReconnect(expected, poisoned)
        ELSE /\ \/ PendingIn(fills) = {} /\ clip' = fills /\ enabled' \in {FALSE, safe}
                \/ PendingIn(fills) # {} /\ clip' = fills /\ UNCHANGED enabled
                \/ /\ PendingIn(fills) # {} /\ Provable(fills) /\ ~poisoned
                   /\ clip' = SettleAll(fills) /\ enabled' \in {FALSE, safe}
             /\ UNCHANGED <<venueVars, jterm, tracked, paused, latched, certain,
                            processed, poisoned>>

FinishAudit ==
  /\ pc = "audit" /\ accountRevision = expected
  /\ Audited \/ IngestFails(expected)
  /\ Return
  /\ UNCHANGED <<feedVars, proc, todo, gateVars, jwal, jmap>>

-----------------------------------------------------------------------------
(* Heartbeat, compliance, catalog, market feed, time-to-live and operator.  *)

PauseAndCancel(ok) ==
  /\ enabled' = FALSE /\ paused' = TRUE
  /\ CancelTracked(tracked, ok)
  /\ certain' = (certain /\ ok)

otherVars == <<feedVars, proc, handlerVars, processed, owned, jwal, jmap, ledgerVars>>

HeartbeatSucceeds ==
  /\ Idle
  /\ hbFailures' = 0
  /\ UNCHANGED <<otherVars, venueVars, flagVars, tracked, jterm, poisoned,
                 eligible, catalogOk>>

(* record_failure; each failure from max_failures on cancels again. *)
HeartbeatFails ==
  /\ Idle /\ "gate" \in Faults
  /\ hbFailures < MaxFailuresCounted /\ hbFailures' = hbFailures + 1
  /\ IF hbFailures' < MaxHeartbeatFailures
     THEN UNCHANGED <<venueVars, flagVars, tracked, jterm, poisoned>>
     ELSE \E ok \in BOOLEAN : PauseAndCancel(ok)
  /\ UNCHANGED <<otherVars, eligible, catalogOk>>

(* enforce_live_compliance after a verdict; the market parameters are not   *)
(* part of its test.                                                        *)
ComplianceRestored ==
  /\ Idle
  /\ eligible' = TRUE
  /\ enabled' = (\/ HeartbeatHealthy /\ certain /\ ~latched /\ Pending = {}
                 \/ enabled)
  /\ UNCHANGED <<otherVars, venueVars, paused, latched, certain, tracked, jterm,
                 poisoned, hbFailures, catalogOk>>

ComplianceRevoked ==
  /\ Idle /\ "gate" \in Faults
  /\ eligible' = FALSE
  /\ \E ok \in BOOLEAN : PauseAndCancel(ok)
  /\ UNCHANGED <<otherVars, hbFailures, catalogOk>>

CatalogRefreshed ==
  /\ Idle
  /\ catalogOk' = TRUE
  /\ UNCHANGED <<otherVars, venueVars, flagVars, tracked, jterm, poisoned,
                 hbFailures, eligible>>

CatalogFails ==
  /\ Idle /\ "gate" \in Faults
  /\ catalogOk' = FALSE
  /\ \E ok \in BOOLEAN : PauseAndCancel(ok)
  /\ UNCHANGED <<otherVars, hbFailures, eligible>>

MarketDisconnected ==
  /\ Idle
  /\ \E ok \in BOOLEAN : PauseAndCancel(ok)
  /\ UNCHANGED <<otherVars, gateVars>>

(* Cancel some tracked orders; only a failure touches the flags. *)
CancelOrLatch(ids) ==
  /\ Idle
  /\ \/ CancelTracked(ids, TRUE) /\ UNCHANGED <<paused, enabled, certain>>
     \/ /\ CancelTracked(ids, FALSE)
        /\ enabled' = FALSE /\ paused' = TRUE /\ certain' = FALSE
  /\ UNCHANGED <<otherVars, gateVars>>

(* Orders past their time-to-live; which ones is up to the clock. *)
TtlExpires == \E ids \in SUBSET tracked \ {{}} : CancelOrLatch(ids)

MarketInvalid(a) ==
  LET ids == {o \in tracked : AssetOf[o] = a}
  IN ids # {} /\ CancelOrLatch(ids)

OperatorCancelsAll == tracked # {} /\ CancelOrLatch(tracked)

OperatorPauses ==
  /\ Idle
  /\ paused' = TRUE
  /\ UNCHANGED <<otherVars, venueVars, enabled, latched, certain, tracked,
                 jterm, poisoned, gateVars>>

OperatorResumes ==
  /\ Idle /\ ~latched /\ enabled
  /\ paused' = FALSE
  /\ UNCHANGED <<otherVars, venueVars, enabled, latched, certain, tracked,
                 jterm, poisoned, gateVars>>

-----------------------------------------------------------------------------
(* The end of a process and the start of the next one. *)

(* What a process loses; the next one starts from it. *)
VolatileLost ==
  /\ session' = "down" /\ accountRevision' = 0
  /\ outgoing' = <<>> /\ queue' = <<>>
  /\ todo' = {} /\ Return
  /\ paused' = TRUE /\ enabled' = FALSE /\ latched' = FALSE /\ certain' = FALSE
  /\ processed' = 0 /\ tracked' = {} /\ owned' = {}
  /\ hbFailures' = 0 /\ eligible' = TRUE /\ catalogOk' = TRUE
  /\ poisoned' = FALSE

Crash ==
  /\ "crash" \in Faults
  /\ proc # "down" \/ pc = "startup"
  /\ proc' = "down"
  /\ VolatileLost
  /\ UNCHANGED <<venueVars, attemptVars, ledgerVars>>

(* The run loop has ended: cancel what is tracked, as far as it goes. *)
Cleanup(broken) ==
  /\ proc' = "down"
  /\ \E killed \in SUBSET (OpenAtVenue \cap tracked) :
       \E noted \in SUBSET killed :
         /\ broken => noted = {}
         /\ VenueCancelled(killed)
         /\ jterm' = jterm \cup noted
  /\ VolatileLost
  /\ UNCHANGED <<jwal, jmap>>

(* Shutdown, or an error a handler does not handle. *)
Stop ==
  /\ "crash" \in Faults
  /\ proc = "running" /\ pc \in {"idle", "risk"}
  /\ Cleanup(poisoned)
  /\ UNCHANGED ledgerVars

(* A user event that cannot be journaled ends the run loop; its account     *)
(* mutation may have become durable.                                        *)
StopOnEvent ==
  /\ "journal" \in Faults
  /\ Received(NoticeKind)
  /\ LET message == Head(queue)
     IN /\ Appends(message.kind, message.order)
        /\ \/ UNCHANGED ledgerVars
           \/ /\ ~poisoned /\ message.kind # "cancelled"
              /\ clip' = [clip EXCEPT ![message.order] =
                            IF message.kind = "matched" /\ message.order \notin Known
                            THEN "order"
                            ELSE IF message.kind = "trade" /\ @ # "settled"
                            THEN "trade" ELSE @]
              /\ bad' = IF message.kind = "failed" THEN bad \cup {message.order} ELSE bad
  /\ Cleanup(TRUE)

(* An audit that has ingested its trades but cannot write the day's risk    *)
(* baseline, or the reconciliation record, ends the run loop too.           *)
StopInAudit ==
  /\ pc = "audit" /\ accountRevision = expected /\ ~latched
  /\ Unseen = {} \/ ~poisoned
  /\ \A o \in Unseen : snap[o] = "filled"
  /\ \/ "crash" \in Faults /\ clip' = WithUnseen /\ Cleanup(poisoned)
     \/ /\ "journal" \in Faults
        /\ PendingIn(WithUnseen) # {} /\ Provable(WithUnseen)
        /\ clip' \in {WithUnseen} \cup IF poisoned THEN {} ELSE {SettleAll(WithUnseen)}
        /\ Cleanup(TRUE)
  /\ UNCHANGED bad

StartupRead ==
  /\ proc = "down" /\ pc = "idle"
  /\ pc' = "startup" /\ snap' = View
  /\ UNCHANGED <<venueVars, feedVars, proc, todo, cur, expected, flagVars,
                 processed, tracked, owned, gateVars, attemptVars, ledgerVars,
                 poisoned>>

(* Attempts with an exchange identity and no terminal record. *)
Unresolved == (jwal \ jterm) \cap jmap

(* journal_authoritative_terminal_orders: an answer for each unresolved     *)
(* attempt, and a terminal record for those that are over.                  *)
StatusKnown == \A o \in Unresolved : venue[o] \notin {"inflight", "refused"}
Over ==
  {o \in Unresolved :
     \/ venue[o] = "cancelled"
     \/ venue[o] \in {"filled", "failed"} /\ snap[o] \in {"filled", "failed"}}

(* recover_after_crash_records and recover_open_order_mappings_records:     *)
(* every attempt still in flight is found at the venue under the identity   *)
(* the journal holds, and every open order is such an attempt.              *)
MutRecovered(terminal) ==
  \A o \in Orders : snap[o] = "open" => o \in (jwal \ terminal) \cap jmap
Recovered(terminal) ==
  LET inFlight == jwal \ terminal
  IN /\ \A o \in inFlight : o \in jmap /\ snap[o] # "gone"
     /\ \A o \in Orders : snap[o] = "open" => o \in inFlight

StartupSucceeds ==
  /\ proc = "down" /\ pc = "startup"
  /\ StatusKnown
  /\ jterm' = jterm \cup Over
  /\ Recovered(jterm')
  /\ LET mine == jmap \cup Known
         missed == {o \in mine \cup {p \in Orders : clip[p] = "order"} :
                      snap[o] = "filled" /\ o \notin Known}
         fills == [o \in Orders |-> IF o \in missed THEN "trade" ELSE clip[o]]
     IN /\ bad = {} /\ \A o \in mine : snap[o] # "failed"
        /\ \/ PendingIn(fills) = {} /\ clip' = fills
           \/ Pending # {} /\ Provable(fills) /\ clip' = SettleAll(fills)
        /\ owned' = mine \cup missed
  /\ tracked' = {o \in Orders : snap[o] = "open"}
  /\ proc' = "running" /\ certain' = TRUE
  /\ Return
  /\ UNCHANGED <<venueVars, feedVars, todo, paused, enabled, latched, processed,
                 gateVars, jwal, jmap, bad, poisoned>>

(* Any step of the start-up may fail; what it journaled stays. *)
StartupRefused ==
  /\ proc = "down" /\ pc = "startup"
  /\ \E closed \in SUBSET Over : jterm' = jterm \cup closed
  /\ \E S \in SUBSET {o \in jmap \cup Known \cup Pending :
                        \/ snap[o] = "filled" /\ o \notin Known
                        \/ snap[o] = "failed" /\ o \notin bad} :
       /\ jterm' # jterm \cup Over => S = {}
       /\ clip' = [o \in Orders |->
                     IF o \in S /\ snap[o] = "filled" THEN "trade" ELSE clip[o]]
       /\ bad' = bad \cup {o \in S : snap[o] = "failed"}
  /\ proc' = "degraded"
  /\ Return
  /\ UNCHANGED <<venueVars, feedVars, todo, flagVars, processed, tracked, owned,
                 gateVars, jwal, jmap, poisoned>>

-----------------------------------------------------------------------------
VenueStep ==
  \E o \in Orders : \/ VenueAccepts(o) \/ VenueRefuses(o) \/ VenueFills(o)
                    \/ VenueTradeFails(o) \/ VenueCancels(o)

FeedStep ==
  \/ FeedConnects \/ FeedDisconnects \/ FeedSends
  \/ \E n \in wire : FeedReceives(n) \/ FeedLoses(n)

SubmitStep ==
  \/ \E S \in SUBSET Assets : MarketEvent(S)
  \/ \E a \in Assets : SkipAsset(a)
  \/ \E o \in Orders : BeginIntent(o)
  \/ DiscardIntent \/ WriteAhead \/ WriteAheadFails
  \/ PostOrder \/ RejectBeforeSubmit \/ SubmitAnswered

UserStep ==
  \/ TakeConnected \/ ResnapshotFails \/ FinishConnected
  \/ TakeDisconnected \/ TakeEvent

AuditStep == AuditRead \/ AuditReadFails \/ AuditAbandoned \/ FinishAudit

MaintenanceStep ==
  \/ HeartbeatSucceeds \/ HeartbeatFails
  \/ ComplianceRestored \/ ComplianceRevoked
  \/ CatalogRefreshed \/ CatalogFails \/ MarketDisconnected
  \/ TtlExpires \/ \E a \in Assets : MarketInvalid(a)

OperatorStep == OperatorPauses \/ OperatorResumes \/ OperatorCancelsAll

LifecycleStep ==
  \/ Crash \/ Stop \/ StopOnEvent \/ StopInAudit
  \/ StartupRead \/ StartupSucceeds \/ StartupRefused

Next ==
  \/ VenueStep \/ FeedStep \/ SubmitStep \/ UserStep \/ AuditStep
  \/ MaintenanceStep \/ OperatorStep \/ LifecycleStep

Spec == Init /\ [][Next]_vars

(* What the scheduling justifies.  Every await ends, by an answer or by its *)
(* deadline, and the assets of an event run out.  A message of the user     *)
(* feed is taken at some time although the market channel has priority: the *)
(* market task waits for the acknowledgement of each batch, so its channel  *)
(* drains.  The maintenance tick recurs, and its reads do not fail forever. *)
AwaitStep ==
  \/ \E a \in Assets : SkipAsset(a)
  \/ DiscardIntent \/ WriteAhead \/ WriteAheadFails
  \/ PostOrder \/ RejectBeforeSubmit \/ SubmitAnswered
  \/ FinishConnected \/ AuditAbandoned \/ FinishAudit

TakeMessage == TakeConnected \/ ResnapshotFails \/ TakeDisconnected \/ TakeEvent

Fairness ==
  /\ WF_vars(AwaitStep)
  /\ WF_vars(FeedSends)
  /\ SF_vars(TakeMessage)
  /\ SF_vars(AuditRead)

FairSpec == Spec /\ Fairness

-----------------------------------------------------------------------------
(* Safety. *)

(* A latched engine is never enabled for live submission (the flag resume   *)
(* looks at, and the one the console shows): not by an audit, a compliance  *)
(* verdict or a resynchronization that ends after the latch was set.        *)
LatchedLocked == latched => ~enabled

InHand == IF pc = "connected" THEN 1 ELSE 0

(* The shared revision is ahead of the processed one by exactly the         *)
(* messages in the engine's hand, in the channel and about to be sent, and  *)
(* these arrive in revision order.                                          *)
FeedInOrder ==
  /\ accountRevision = processed + InHand + Len(queue) + Len(outgoing)
  /\ \A i \in 1..Len(queue) : queue[i].revision = processed + InHand + i
  /\ Len(outgoing) \in {0, 1}
  /\ outgoing # <<>> => outgoing[1].revision = accountRevision

(* Whatever is live at the venue has a write-ahead record and no terminal   *)
(* record: a crash at any point leaves start-up something to resolve.       *)
LiveOrdersRecoverable ==
  \A o \in Orders : venue[o] \in {"inflight", "open"} => o \in jwal \ jterm

(* While the engine is neither latched nor in the middle of this            *)
(* submission, it tracks every order live at the venue, and the journal has *)
(* an exchange identity for every attempt that is not terminal.             *)
NothingUntracked ==
  proc = "running" /\ ~latched =>
    /\ \A o \in Orders : venue[o] \in {"inflight", "open"} =>
          o \in tracked \/ (o = cur /\ pc = "post")
    /\ jwal \ jterm \subseteq jmap \cup (IF pc \in {"wal", "post"} THEN {cur} ELSE {})

(* Never two live orders for one asset: the strategy has one identity and   *)
(* the duplicate check reads the venue before it submits.                   *)
OneOrderPerAsset ==
  \A o, p \in Orders :
    /\ o # p /\ AssetOf[o] = AssetOf[p]
    => {venue[o], venue[p]} \cap {"none", "filled", "failed", "cancelled", "refused"} # {}

-----------------------------------------------------------------------------
(* What a step may never do. *)

Posts == \E o \in Orders : venue[o] = "none" /\ venue'[o] = "inflight"

(* An order reaches the venue only when every account event the feed has    *)
(* announced is processed and no fill awaits reconciliation, although the   *)
(* feed moves during the account read and the write-ahead.                  *)
CaughtUp ==
  accountRevision = processed /\ queue = <<>> /\ outgoing = <<>> /\ Pending = {}

PostsOnlyCaughtUp == [][Posts => CaughtUp]_vars

(* Whatever is lost, fails or restarts in between, the journal and the      *)
(* venue keep the promise of OrderLife about every order.                   *)
Place ==
  [o \in Orders |->
     CASE venue[o] = "none" -> "unsent"
       [] venue[o] \in {"inflight", "open"} -> "live"
       [] venue[o] \in {"refused", "cancelled"} -> "gone"
       [] OTHER -> venue[o]]
Life == INSTANCE OrderLife WITH
  place <- Place, written <- jwal, named <- jmap, closed <- jterm, fill <- clip, broken <- bad
LifeKept == Life!Spec

(* README.md:62-65: a reconciliation gap disables new live submissions.     *)
(* Submission does not look at live_submission_enabled.                     *)
NoPostWhileDisabled == [][Posts => enabled]_vars

-----------------------------------------------------------------------------
(* Liveness. *)

(* A lost stream pauses the strategy and either every order the engine      *)
(* tracked is cancelled or the engine is latched.                           *)
DisconnectCancels ==
  (queue # <<>> /\ Head(queue).kind = "disconnected") ~>
    (paused /\ (tracked = {} \/ latched)) \/ proc # "running"

(* A latch, also one set by a trade event that leaves the strategy running, *)
(* ends in a paused strategy.                                               *)
LatchPauses == latched ~> paused \/ proc # "running"

(* A fill of an order the engine owns becomes known although every notice   *)
(* of it may be lost.                                                       *)
AuditClosesGaps ==
  \A o \in Orders :
    (venue[o] = "filled" /\ o \in owned) ~>
       (o \in Known \/ venue[o] # "filled" \/ latched \/ proc # "running")

=============================================================================
