-------------------------- MODULE LiveEngineProofs --------------------------
(* Invariance proofs about LiveEngine, for every set of orders and assets   *)
(* and every bound.                                                         *)
EXTENDS LiveEngine, TLAPS

(* TypeOK without the relation between tracked and owned orders. *)
ShapeOK ==
  /\ VenueTyped /\ FeedTyped /\ HandlerTyped
  /\ FlagTyped /\ EngineTyped /\ JournalTyped

LEMMA ShapeInit == Init => ShapeOK
<1> SUFFICES ASSUME Init PROVE ShapeOK
  OBVIOUS
<1>1. VenueTyped
  BY DEF Init, VenueTyped, VenueStatus, Notice
<1>2. FeedTyped
  BY DEF Init, FeedTyped
<1>3. HandlerTyped
  BY DEF Init, HandlerTyped, Blank, Locus, ViewStatus
<1>4. FlagTyped
  BY DEF Init, FlagTyped
<1>5. EngineTyped
  BY BoundAssumption DEF Init, EngineTyped, MaxFailuresCounted
<1>6. JournalTyped
  BY DEF Init, JournalTyped, ClipStatus
<1> QED
  BY <1>1, <1>2, <1>3, <1>4, <1>5, <1>6 DEF ShapeOK

LEMMA VenueTypeStep == ShapeOK /\ VenueStep => ShapeOK'
<1> SUFFICES ASSUME ShapeOK, VenueStep PROVE ShapeOK'
  OBVIOUS
<1> USE DEF VenueStep, VenueAccepts, VenueRefuses, VenueFills, VenueTradeFails,
     VenueCancels, Becomes, ShapeOK
<1>1. VenueTyped'
  BY DEF VenueTyped, VenueStatus, Notice, NoticeKind
<1>2. FeedTyped'
  BY DEF FeedTyped, feedVars
<1>3. HandlerTyped'
  BY DEF HandlerTyped, handlerVars
<1>4. FlagTyped'
  BY DEF FlagTyped, flagVars, gateVars
<1>5. EngineTyped'
  BY DEF EngineTyped, gateVars
<1>6. JournalTyped'
  BY DEF JournalTyped, attemptVars, ledgerVars
<1> QED
  BY <1>1, <1>2, <1>3, <1>4, <1>5, <1>6 DEF ShapeOK

LEMMA FeedTypeStep == ShapeOK /\ FeedStep => ShapeOK'
<1> SUFFICES ASSUME ShapeOK, FeedStep PROVE ShapeOK'
  OBVIOUS
<1> USE DEF FeedStep, FeedConnects, FeedDisconnects, FeedReceives,
       FeedSends, FeedLoses, Bump, feedFrame, ShapeOK
<1>1. VenueTyped'
  BY DEF VenueTyped, feedVars
<1>2. FeedTyped'
  <2>0. ASSUME NEW kind, NEW order, Bump(kind, order),
               [kind |-> kind, order |-> order, revision |-> accountRevision + 1]
                 \in Message
        PROVE  accountRevision' \in Nat /\ outgoing' \in Seq(Message)
    BY <2>0 DEF FeedTyped
  <2>1. CASE FeedConnects \/ FeedDisconnects
    <3>1. \A k \in {"connected", "disconnected"} :
            [kind |-> k, order |-> NoOrder, revision |-> accountRevision + 1] \in Message
      BY DEF Message, FeedTyped
    <3>2. CASE FeedConnects
      BY <2>0, <3>1, <3>2 DEF FeedTyped
    <3>3. CASE FeedDisconnects
      BY <2>0, <3>1, <3>3 DEF FeedTyped
    <3> QED
      BY <2>1, <3>2, <3>3
  <2>2. ASSUME NEW n \in wire, FeedReceives(n) PROVE FeedTyped'
    <3>1. n.kind \in NoticeKind /\ n.order \in Orders
      BY DEF VenueTyped, Notice
    <3>2. [kind |-> n.kind, order |-> n.order, revision |-> accountRevision + 1]
            \in Message
      BY <3>1 DEF Message, FeedTyped
    <3> QED
      BY <2>0, <2>2, <3>2 DEF FeedTyped
  <2>3. CASE FeedSends
    BY <2>3 DEF FeedTyped
  <2>4. ASSUME NEW n \in wire, FeedLoses(n) PROVE FeedTyped'
    BY <2>4 DEF FeedTyped, feedVars
  <2> QED
    BY <2>1, <2>2, <2>3, <2>4
<1>3. HandlerTyped'
  BY DEF HandlerTyped, handlerVars
<1>4. FlagTyped'
  BY DEF FlagTyped, flagVars, gateVars
<1>5. EngineTyped'
  BY DEF EngineTyped, gateVars
<1>6. JournalTyped'
  BY DEF JournalTyped, attemptVars, ledgerVars
<1> QED
  BY <1>1, <1>2, <1>3, <1>4, <1>5, <1>6 DEF ShapeOK

-----------------------------------------------------------------------------
LEMMA VenueCancelledTyped ==
  ASSUME VenueTyped, NEW S, S \subseteq Orders, VenueCancelled(S)
  PROVE  VenueTyped'
BY DEF VenueTyped, VenueCancelled, VenueStatus, Notice, NoticeKind

LEMMA EmergencyCancelTyped ==
  ASSUME VenueTyped, NEW known, known \subseteq Orders, NEW term,
         term \subseteq Orders, NEW broken \in BOOLEAN,
         EmergencyCancel(known, term, broken)
  PROVE  /\ VenueTyped'
         /\ jterm' \subseteq Orders /\ tracked' \subseteq Orders
         /\ poisoned' \in BOOLEAN
<1> PICK killed \in SUBSET OpenAtVenue :
      \E noted \in SUBSET Attributable(killed, known) :
        /\ VenueCancelled(killed)
        /\ jterm' = term \cup noted
        /\ tracked' = known \ noted
        /\ poisoned' \in {broken, broken \/ "journal" \in Faults}
  BY DEF EmergencyCancel
<1>1. VenueTyped'
  BY VenueCancelledTyped DEF OpenAtVenue
<1> QED
  BY <1>1 DEF OpenAtVenue, Attributable

LEMMA CancelTrackedTyped ==
  ASSUME ShapeOK, NEW ids, ids \subseteq Orders, NEW ok \in BOOLEAN,
         CancelTracked(ids, ok)
  PROVE  /\ VenueTyped'
         /\ jterm' \subseteq Orders /\ tracked' \subseteq Orders
         /\ poisoned' \in BOOLEAN /\ latched' \in BOOLEAN
<1> USE DEF ShapeOK
<1>1. CASE ok
  <2>1. VenueTyped'
    BY <1>1, VenueCancelledTyped DEF CancelTracked, CancelConfirmed
  <2> QED
    BY <1>1, <2>1 DEF CancelTracked, CancelConfirmed, JournalTyped, EngineTyped, FlagTyped
<1>2. CASE ~ok
  <2>1. EmergencyCancel(tracked, jterm, poisoned)
    BY <1>2 DEF CancelTracked
  <2> QED
    BY <1>2, <2>1, EmergencyCancelTyped
    DEF CancelTracked, JournalTyped, EngineTyped, FlagTyped
<1> QED
  BY <1>1, <1>2

LEMMA FailReconnectTyped ==
  ASSUME ShapeOK, NEW revision \in Nat, NEW broken \in BOOLEAN,
         FailReconnect(revision, broken)
  PROVE  /\ VenueTyped'
         /\ jterm' \subseteq Orders /\ tracked' \subseteq Orders
         /\ poisoned' \in BOOLEAN /\ latched' \in BOOLEAN /\ enabled' \in BOOLEAN
         /\ paused' \in BOOLEAN /\ certain' \in BOOLEAN /\ processed' \in Nat
<1>1. EmergencyCancel(tracked, jterm, broken)
  BY DEF FailReconnect
<1> QED
  BY <1>1, EmergencyCancelTyped
  DEF FailReconnect, LockOut, ShapeOK, EngineTyped, JournalTyped

-----------------------------------------------------------------------------
LEMMA SubmitTypeStep == ShapeOK /\ SubmitStep => ShapeOK'
<1> SUFFICES ASSUME ShapeOK, SubmitStep PROVE ShapeOK'
  OBVIOUS
<1> USE DEF ShapeOK, venueVars, feedVars, flagVars, gateVars, attemptVars, ledgerVars
<1>0. Blank \in [Orders -> ViewStatus] /\ View \in [Orders -> ViewStatus]
  BY DEF Blank, View, ViewStatus
<1>1. ASSUME NEW S \in SUBSET Assets, MarketEvent(S) PROVE ShapeOK'
  BY <1>1 DEF MarketEvent, VenueTyped, FeedTyped, HandlerTyped, FlagTyped,
     EngineTyped, JournalTyped
<1>2. ASSUME NEW a \in Assets, SkipAsset(a) PROVE ShapeOK'
  BY <1>2 DEF SkipAsset, VenueTyped, FeedTyped, HandlerTyped, FlagTyped,
     EngineTyped, JournalTyped
<1>3. ASSUME NEW o \in Orders, BeginIntent(o) PROVE ShapeOK'
  BY <1>0, <1>3 DEF BeginIntent, VenueTyped, FeedTyped, HandlerTyped, FlagTyped,
     EngineTyped, JournalTyped, Locus
<1>4. CASE DiscardIntent
  BY <1>0, <1>4 DEF DiscardIntent, Return, VenueTyped, FeedTyped, HandlerTyped,
     FlagTyped, EngineTyped, JournalTyped, Locus
<1>5. CASE WriteAhead
  BY <1>5 DEF WriteAhead, VenueTyped, FeedTyped, HandlerTyped, FlagTyped,
     EngineTyped, JournalTyped, Locus
<1>6. CASE WriteAheadFails
  BY <1>0, <1>6 DEF WriteAheadFails, LockOut, Return, VenueTyped, FeedTyped,
     HandlerTyped, FlagTyped, EngineTyped, JournalTyped, Locus
<1>7. CASE PostOrder
  BY <1>7 DEF PostOrder, VenueTyped, VenueStatus, FeedTyped, HandlerTyped,
     FlagTyped, EngineTyped, JournalTyped, Locus
<1>8. CASE RejectBeforeSubmit
  BY <1>0, <1>8 DEF RejectBeforeSubmit, LockOut, Return, VenueTyped, FeedTyped,
     HandlerTyped, FlagTyped, EngineTyped, JournalTyped, Locus
<1>9. CASE SubmitAnswered
  <2>1. cur \in Orders
    BY <1>9 DEF SubmitAnswered, HandlerTyped
  <2>2. HandlerTyped' /\ FeedTyped'
    BY <1>0, <1>9 DEF SubmitAnswered, Return, HandlerTyped, Locus, FeedTyped
  <2>3. PICK answer \in Answers, durable \in {TRUE, "journal" \notin Faults} :
          LET known == IF Identified(answer) THEN tracked \cup {cur} ELSE tracked
              term  == IF durable /\ answer \in {"rejected", "terminal"}
                       THEN jterm \cup {cur} ELSE jterm
          IN /\ owned' = OwnedAfter(answer)
             /\ jmap' = IF durable /\ Identified(answer) THEN jmap \cup {cur} ELSE jmap
             /\ \/ /\ tracked' = known /\ jterm' = term
                   /\ UNCHANGED <<venueVars, paused, enabled, latched, poisoned>>
                \/ LockOut /\ EmergencyCancel(known, term, ~durable)
    BY <1>9 DEF SubmitAnswered
  <2>4. owned' \subseteq Orders /\ jmap' \subseteq Orders
    BY <2>1, <2>3 DEF OwnedAfter, EngineTyped, JournalTyped
  <2>5. /\ VenueTyped' /\ jterm' \subseteq Orders /\ tracked' \subseteq Orders
        /\ poisoned' \in BOOLEAN
    BY <2>1, <2>3, EmergencyCancelTyped
    DEF VenueTyped, EngineTyped, JournalTyped, FlagTyped
  <2>6. latched' \in BOOLEAN /\ enabled' \in BOOLEAN /\ paused' \in BOOLEAN
    BY <2>3 DEF LockOut, FlagTyped
  <2> QED
    BY <1>9, <2>2, <2>4, <2>5, <2>6
    DEF SubmitAnswered, EngineTyped, JournalTyped, FlagTyped
<1> QED
  BY <1>1, <1>2, <1>3, <1>4, <1>5, <1>6, <1>7, <1>8, <1>9 DEF SubmitStep

-----------------------------------------------------------------------------
LEMMA HeadTyped ==
  ASSUME FeedTyped, queue # <<>>
  PROVE  /\ Head(queue) \in Message /\ Tail(queue) \in Seq(Message)
         /\ Head(queue).revision \in Nat
<1>1. Head(queue) \in Message /\ Tail(queue) \in Seq(Message)
  BY DEF FeedTyped
<1> QED
  BY <1>1 DEF Message

LEMMA ReceivedTyped ==
  ASSUME FeedTyped, NEW kinds, Received(kinds),
         UNCHANGED <<session, accountRevision, outgoing>>
  PROVE  FeedTyped' /\ RevisionOf(Head(queue)) \in Nat /\ Head(queue) \in Message
BY HeadTyped DEF Received, FeedTyped, RevisionOf

LEMMA IngestTyped ==
  ASSUME ShapeOK, NEW S, S \subseteq Orders, Ingest(S)
  PROVE  /\ clip' \in [Orders -> ClipStatus]
         /\ bad' \subseteq Orders /\ owned' \subseteq Orders
BY DEF ShapeOK, Ingest, JournalTyped, EngineTyped, ClipStatus

LEMMA UnseenTyped == ASSUME ShapeOK PROVE Unseen \subseteq Orders
BY DEF ShapeOK, Unseen, EngineTyped

LEMMA IngestFailsTyped ==
  ASSUME ShapeOK, NEW revision \in Nat, IngestFails(revision)
  PROVE  /\ clip' \in [Orders -> ClipStatus]
         /\ bad' \subseteq Orders /\ owned' \subseteq Orders
         /\ FailReconnect(revision, TRUE)
<1>1. PICK S \in SUBSET Unseen : Ingest(S)
  BY DEF IngestFails
<1> QED
  BY <1>1, IngestTyped, UnseenTyped DEF IngestFails

LEMMA UserTypeStep == ShapeOK /\ UserStep => ShapeOK'
<1> SUFFICES ASSUME ShapeOK, UserStep PROVE ShapeOK'
  OBVIOUS
<1> USE DEF ShapeOK, venueVars, feedVars, handlerVars, flagVars, gateVars,
            attemptVars, ledgerVars
<1>0. Blank \in [Orders -> ViewStatus] /\ View \in [Orders -> ViewStatus]
  BY DEF Blank, View, ViewStatus
<1>1. CASE TakeConnected
  <2>1. FeedTyped' /\ RevisionOf(Head(queue)) \in Nat
    BY <1>1, ReceivedTyped DEF TakeConnected
  <2> QED
    BY <1>0, <1>1, <2>1 DEF TakeConnected, VenueTyped, HandlerTyped, FlagTyped,
       EngineTyped, JournalTyped, Locus
<1>2. CASE ResnapshotFails
  <2>1. FeedTyped' /\ RevisionOf(Head(queue)) \in Nat
    BY <1>2, ReceivedTyped DEF ResnapshotFails
  <2>2. poisoned \in BOOLEAN
    BY DEF FlagTyped
  <2> QED
    BY <1>2, <2>1, <2>2, FailReconnectTyped
    DEF ResnapshotFails, HandlerTyped, FlagTyped, EngineTyped, JournalTyped
<1>3. CASE FinishConnected
  <2>1. HandlerTyped' /\ FeedTyped'
    BY <1>0, <1>3 DEF FinishConnected, Return, HandlerTyped, Locus, FeedTyped
  <2>2. expected \in Nat /\ poisoned \in BOOLEAN
    BY DEF HandlerTyped, FlagTyped
  <2>3. CASE FailReconnect(expected, poisoned) /\ UNCHANGED <<owned, ledgerVars>>
    BY <1>3, <2>1, <2>2, <2>3, FailReconnectTyped
    DEF FinishConnected, FlagTyped, EngineTyped, JournalTyped
  <2>4. CASE IngestFails(expected)
    BY <1>3, <2>1, <2>2, <2>4, FailReconnectTyped, IngestFailsTyped
    DEF FinishConnected, FlagTyped, EngineTyped, JournalTyped
  <2>5. CASE Resynchronized
    <3>1. /\ clip' \in [Orders -> ClipStatus]
          /\ bad' \subseteq Orders /\ owned' \subseteq Orders
      BY <2>5, IngestTyped, UnseenTyped DEF Resynchronized
    <3>2. CASE FailReconnect(expected, poisoned)
      BY <1>3, <2>1, <2>2, <3>1, <3>2, FailReconnectTyped
      DEF FinishConnected, FlagTyped, EngineTyped, JournalTyped
    <3>3. CASE ~(latched \/ bad' # bad)
      <4>1. /\ tracked' \subseteq Orders /\ processed' \in Nat
            /\ VenueTyped' /\ jterm' \subseteq Orders
        BY <2>2, <2>5, <3>3 DEF Resynchronized, EngineTyped, VenueTyped, JournalTyped
      <4>2. enabled' \in BOOLEAN /\ certain' \in BOOLEAN
        BY <2>5, <3>3 DEF Resynchronized, GatesOpen
      <4>3. paused' \in BOOLEAN /\ latched' \in BOOLEAN /\ poisoned' \in BOOLEAN
        BY <2>5, <3>3 DEF Resynchronized, FlagTyped
      <4> QED
        BY <1>3, <2>1, <3>1, <4>1, <4>2, <4>3
        DEF FinishConnected, FlagTyped, EngineTyped, JournalTyped
    <3> QED
      BY <2>5, <3>2, <3>3 DEF Resynchronized
  <2> QED
    BY <1>3, <2>3, <2>4, <2>5 DEF FinishConnected
<1>4. CASE TakeDisconnected
  <2>1. FeedTyped' /\ RevisionOf(Head(queue)) \in Nat
    BY <1>4, ReceivedTyped DEF TakeDisconnected
  <2>2. PICK ok \in BOOLEAN : CancelTracked(tracked, ok)
    BY <1>4 DEF TakeDisconnected
  <2>3. tracked \subseteq Orders
    BY DEF EngineTyped
  <2> QED
    BY <1>4, <2>1, <2>2, <2>3, CancelTrackedTyped
    DEF TakeDisconnected, HandlerTyped, FlagTyped, EngineTyped, JournalTyped
<1>5. CASE TakeEvent
  <2> DEFINE message == Head(queue)
  <2>1. FeedTyped' /\ RevisionOf(message) \in Nat /\ message \in Message
    BY <1>5, ReceivedTyped DEF TakeEvent
  <2>2. message.kind \in NoticeKind /\ EventEffect(message.kind, message.order)
    BY <1>5 DEF TakeEvent, Received
  <2>3. message.order \in Orders
    BY <2>1, <2>2 DEF Message, NoticeKind
  <2>4. /\ jterm' \subseteq Orders /\ tracked' \subseteq Orders
        /\ bad' \subseteq Orders /\ owned' \subseteq Orders
    BY <2>2, <2>3 DEF EventEffect, EngineTyped, JournalTyped
  <2>5. clip' \in [Orders -> ClipStatus]
    BY <2>2, <2>3 DEF EventEffect, JournalTyped, ClipStatus
  <2>6. latched' \in BOOLEAN /\ enabled' \in BOOLEAN
    BY <1>5, <2>2 DEF EventEffect, TakeEvent
  <2> QED
    BY <1>5, <2>1, <2>4, <2>5, <2>6
    DEF TakeEvent, VenueTyped, HandlerTyped, FlagTyped, EngineTyped, JournalTyped
<1> QED
  BY <1>1, <1>2, <1>3, <1>4, <1>5 DEF UserStep

-----------------------------------------------------------------------------
LEMMA AuditTypeStep == ShapeOK /\ AuditStep => ShapeOK'
<1> SUFFICES ASSUME ShapeOK, AuditStep PROVE ShapeOK'
  OBVIOUS
<1> USE DEF ShapeOK, venueVars, feedVars, handlerVars, flagVars, gateVars,
            attemptVars, ledgerVars
<1>0. Blank \in [Orders -> ViewStatus] /\ View \in [Orders -> ViewStatus]
  BY DEF Blank, View, ViewStatus
<1>1. CASE AuditRead
  BY <1>0, <1>1 DEF AuditRead, VenueTyped, FeedTyped, HandlerTyped, FlagTyped,
     EngineTyped, JournalTyped, Locus
<1>2. CASE AuditReadFails
  BY <1>2 DEF AuditReadFails, VenueTyped, FeedTyped, HandlerTyped, FlagTyped,
     EngineTyped, JournalTyped
<1>3. CASE AuditAbandoned
  BY <1>0, <1>3 DEF AuditAbandoned, Return, VenueTyped, FeedTyped, HandlerTyped,
     FlagTyped, EngineTyped, JournalTyped, Locus
<1>4. CASE FinishAudit
  <2>1. HandlerTyped' /\ FeedTyped'
    BY <1>0, <1>4 DEF FinishAudit, Return, HandlerTyped, Locus, FeedTyped
  <2>2. expected \in Nat /\ poisoned \in BOOLEAN
    BY DEF HandlerTyped, FlagTyped
  <2>3. CASE IngestFails(expected)
    BY <1>4, <2>1, <2>2, <2>3, FailReconnectTyped, IngestFailsTyped
    DEF FinishAudit, FlagTyped, EngineTyped, JournalTyped
  <2>4. CASE Audited
    <3> DEFINE fills == WithUnseen
    <3>1. fills \in [Orders -> ClipStatus]
      BY DEF WithUnseen, JournalTyped, ClipStatus
    <3>2. SettleAll(fills) \in [Orders -> ClipStatus]
      BY <3>1 DEF SettleAll, ClipStatus
    <3>3. bad' \subseteq Orders /\ owned' \subseteq Orders
      BY <2>4, UnseenTyped DEF Audited, EngineTyped, JournalTyped
    <3>4. clip' \in {fills, SettleAll(fills)}
      BY <2>4 DEF Audited
    <3> HIDE DEF fills
    <3>5. clip' \in [Orders -> ClipStatus]
      BY <3>1, <3>2, <3>4
    <3>6. CASE FailReconnect(expected, poisoned)
      BY <1>4, <2>1, <2>2, <3>3, <3>5, <3>6, FailReconnectTyped
      DEF FinishAudit, FlagTyped, EngineTyped, JournalTyped
    <3>7. CASE ~(latched \/ bad' # bad)
      <4>1. /\ UNCHANGED <<venueVars, jterm, tracked, paused, latched, certain,
                           processed, poisoned>>
            /\ enabled' \in {FALSE, GatesOpen /\ certain, enabled}
        BY <2>4, <3>7 DEF Audited
      <4>2. enabled' \in BOOLEAN
        BY <4>1 DEF FlagTyped
      <4> QED
        BY <1>4, <2>1, <3>3, <3>5, <4>1, <4>2
        DEF FinishAudit, VenueTyped, FlagTyped, EngineTyped, JournalTyped
    <3> QED
      BY <2>4, <3>6, <3>7 DEF Audited
  <2> QED
    BY <1>4, <2>3, <2>4 DEF FinishAudit
<1> QED
  BY <1>1, <1>2, <1>3, <1>4 DEF AuditStep

-----------------------------------------------------------------------------
LEMMA PauseAndCancelTyped ==
  ASSUME ShapeOK, NEW ok \in BOOLEAN, PauseAndCancel(ok)
  PROVE  /\ VenueTyped'
         /\ jterm' \subseteq Orders /\ tracked' \subseteq Orders
         /\ poisoned' \in BOOLEAN /\ latched' \in BOOLEAN /\ enabled' \in BOOLEAN
         /\ paused' \in BOOLEAN /\ certain' \in BOOLEAN
<1>1. tracked \subseteq Orders
  BY DEF ShapeOK, EngineTyped
<1>2. CancelTracked(tracked, ok)
  BY DEF PauseAndCancel
<1>3. enabled' \in BOOLEAN /\ paused' \in BOOLEAN /\ certain' \in BOOLEAN
  BY DEF PauseAndCancel
<1> QED
  BY <1>1, <1>2, <1>3, CancelTrackedTyped

LEMMA OtherTyped ==
  ASSUME ShapeOK, UNCHANGED otherVars
  PROVE  /\ FeedTyped' /\ HandlerTyped'
         /\ processed' \in Nat /\ owned' \subseteq Orders
         /\ jwal' \subseteq Orders /\ jmap' \subseteq Orders
         /\ clip' \in [Orders -> ClipStatus] /\ bad' \subseteq Orders
BY DEF ShapeOK, otherVars, feedVars, handlerVars, ledgerVars, FeedTyped,
   HandlerTyped, EngineTyped, JournalTyped

LEMMA CancelOrLatchTyped ==
  ASSUME ShapeOK, NEW ids, ids \subseteq tracked, CancelOrLatch(ids)
  PROVE  ShapeOK'
<1>1. ids \subseteq Orders
  BY DEF ShapeOK, EngineTyped
<1>2. UNCHANGED otherVars /\ UNCHANGED gateVars
  BY DEF CancelOrLatch
<1>3. PICK ok \in BOOLEAN : CancelTracked(ids, ok)
  BY DEF CancelOrLatch
<1>4. paused' \in BOOLEAN /\ enabled' \in BOOLEAN /\ certain' \in BOOLEAN
  BY DEF CancelOrLatch, ShapeOK, FlagTyped
<1> QED
  BY <1>1, <1>2, <1>3, <1>4, CancelTrackedTyped, OtherTyped
  DEF ShapeOK, gateVars, FlagTyped, EngineTyped, JournalTyped

LEMMA MaintenanceTypeStep == ShapeOK /\ (MaintenanceStep \/ OperatorStep) => ShapeOK'
<1> SUFFICES ASSUME ShapeOK, MaintenanceStep \/ OperatorStep PROVE ShapeOK'
  OBVIOUS
<1>1. CASE HeartbeatSucceeds
  BY <1>1, OtherTyped, BoundAssumption
  DEF HeartbeatSucceeds, ShapeOK, venueVars, flagVars, VenueTyped,
     FlagTyped, EngineTyped, MaxFailuresCounted, JournalTyped
<1>2. CASE HeartbeatFails
  <2>1. hbFailures' \in 0..MaxFailuresCounted
    BY <1>2, BoundAssumption DEF HeartbeatFails, MaxFailuresCounted,
       ShapeOK, EngineTyped
  <2>2. UNCHANGED otherVars /\ UNCHANGED <<eligible, catalogOk>>
    BY <1>2 DEF HeartbeatFails
  <2>3. CASE UNCHANGED <<venueVars, flagVars, tracked, jterm, poisoned>>
    BY <2>1, <2>2, <2>3, OtherTyped DEF ShapeOK, venueVars, flagVars,
       VenueTyped, FlagTyped, EngineTyped, JournalTyped
  <2>4. ASSUME NEW ok \in BOOLEAN, PauseAndCancel(ok) PROVE ShapeOK'
    BY <2>1, <2>2, <2>4, OtherTyped, PauseAndCancelTyped
    DEF ShapeOK, FlagTyped, EngineTyped, JournalTyped
  <2> QED
    BY <1>2, <2>3, <2>4 DEF HeartbeatFails
<1>3. CASE ComplianceRestored
  <2>1. enabled' \in BOOLEAN /\ eligible' \in BOOLEAN
    BY <1>3 DEF ComplianceRestored
  <2> QED
    BY <1>3, <2>1, OtherTyped DEF ComplianceRestored, ShapeOK, venueVars,
       VenueTyped, FlagTyped, EngineTyped, JournalTyped
<1>4. ASSUME NEW ok \in BOOLEAN, PauseAndCancel(ok), UNCHANGED otherVars,
             UNCHANGED hbFailures,
             eligible' \in {FALSE, eligible}, catalogOk' \in {FALSE, catalogOk}
      PROVE  ShapeOK'
  BY <1>4, OtherTyped, PauseAndCancelTyped
  DEF ShapeOK, FlagTyped, EngineTyped, JournalTyped
<1>5. CASE ComplianceRevoked
  BY <1>4, <1>5 DEF ComplianceRevoked
<1>6. CASE CatalogRefreshed
  BY <1>6, OtherTyped DEF CatalogRefreshed, ShapeOK, venueVars, flagVars,
     VenueTyped, FlagTyped, EngineTyped, JournalTyped
<1>7. CASE CatalogFails
  BY <1>4, <1>7 DEF CatalogFails
<1>8. CASE MarketDisconnected
  BY <1>4, <1>8 DEF MarketDisconnected, gateVars
<1>9. CASE TtlExpires
  BY <1>9, CancelOrLatchTyped DEF TtlExpires
<1>10. ASSUME NEW a \in Assets, MarketInvalid(a) PROVE ShapeOK'
  BY <1>10, CancelOrLatchTyped DEF MarketInvalid
<1>11. CASE OperatorCancelsAll
  BY <1>11, CancelOrLatchTyped DEF OperatorCancelsAll
<1>12. CASE OperatorPauses \/ OperatorResumes
  BY <1>12, OtherTyped DEF OperatorPauses, OperatorResumes, ShapeOK, venueVars,
     gateVars, VenueTyped, FlagTyped, EngineTyped, JournalTyped
<1> QED
  BY <1>1, <1>2, <1>3, <1>5, <1>6, <1>7, <1>8, <1>9, <1>10, <1>11, <1>12
  DEF MaintenanceStep, OperatorStep

-----------------------------------------------------------------------------
LEMMA VolatileLostTyped ==
  ASSUME ShapeOK, VolatileLost, proc' = "down"
  PROVE  FeedTyped' /\ HandlerTyped' /\ FlagTyped' /\ EngineTyped'
<1>1. FeedTyped'
  BY DEF VolatileLost, FeedTyped
<1>2. HandlerTyped'
  BY DEF VolatileLost, Return, HandlerTyped, Locus, Blank, ViewStatus
<1>3. FlagTyped'
  BY DEF VolatileLost, FlagTyped
<1>4. EngineTyped'
  BY BoundAssumption DEF MaxFailuresCounted, VolatileLost, EngineTyped
<1> QED
  BY <1>1, <1>2, <1>3, <1>4

LEMMA CleanupTyped ==
  ASSUME ShapeOK, NEW broken \in BOOLEAN, Cleanup(broken),
         clip' \in [Orders -> ClipStatus], bad' \subseteq Orders
  PROVE  ShapeOK'
<1>1. PICK killed \in SUBSET (OpenAtVenue \cap tracked) :
        \E noted \in SUBSET killed :
          VenueCancelled(killed) /\ jterm' = jterm \cup noted
  BY DEF Cleanup
<1>2. VenueTyped'
  BY <1>1, VenueCancelledTyped DEF ShapeOK, OpenAtVenue
<1>3. JournalTyped'
  BY <1>1 DEF Cleanup, OpenAtVenue, ShapeOK, JournalTyped
<1> QED
  BY <1>2, <1>3, VolatileLostTyped DEF Cleanup, ShapeOK

LEMMA LifecycleTypeStep == ShapeOK /\ LifecycleStep => ShapeOK'
<1> SUFFICES ASSUME ShapeOK, LifecycleStep PROVE ShapeOK'
  OBVIOUS
<1>0. Blank \in [Orders -> ViewStatus] /\ View \in [Orders -> ViewStatus]
  BY DEF Blank, View, ViewStatus
<1>1. CASE Crash
  BY <1>1, VolatileLostTyped
  DEF Crash, ShapeOK, venueVars, attemptVars, ledgerVars, VenueTyped, JournalTyped
<1>2. CASE Stop
  <2>1. poisoned \in BOOLEAN
    BY DEF ShapeOK, FlagTyped
  <2> QED
    BY <1>2, <2>1, CleanupTyped DEF Stop, ledgerVars, ShapeOK, JournalTyped
<1>3. CASE StopOnEvent
  <2>1. Head(queue) \in Message /\ Head(queue).kind \in NoticeKind
    BY <1>3, HeadTyped DEF StopOnEvent, Received, ShapeOK
  <2>2. Head(queue).order \in Orders
    BY <2>1 DEF Message, NoticeKind
  <2>3. clip' \in [Orders -> ClipStatus] /\ bad' \subseteq Orders
    BY <1>3, <2>2 DEF StopOnEvent, ShapeOK, JournalTyped, ClipStatus, ledgerVars
  <2> QED
    BY <1>3, <2>3, CleanupTyped DEF StopOnEvent
<1>4. CASE StopInAudit
  <2>1. WithUnseen \in [Orders -> ClipStatus]
    BY DEF WithUnseen, ShapeOK, JournalTyped, ClipStatus
  <2>2. SettleAll(WithUnseen) \in [Orders -> ClipStatus]
    BY <2>1 DEF SettleAll, ClipStatus
  <2>3. clip' \in [Orders -> ClipStatus] /\ bad' \subseteq Orders
    BY <1>4, <2>1, <2>2 DEF StopInAudit, ShapeOK, JournalTyped
  <2>4. PICK broken \in BOOLEAN : Cleanup(broken)
    BY <1>4 DEF StopInAudit, ShapeOK, FlagTyped
  <2> QED
    BY <2>3, <2>4, CleanupTyped
<1>5. CASE StartupRead
  BY <1>0, <1>5 DEF StartupRead, ShapeOK, venueVars, feedVars, flagVars, gateVars,
     attemptVars, ledgerVars, VenueTyped, FeedTyped, HandlerTyped, FlagTyped,
     EngineTyped, JournalTyped, Locus
<1>6. CASE StartupSucceeds
  <2> DEFINE mine == jmap \cup Known
             missed == {o \in mine \cup {p \in Orders : clip[p] = "order"} :
                          snap[o] = "filled" /\ o \notin Known}
             fills == [o \in Orders |-> IF o \in missed THEN "trade" ELSE clip[o]]
  <2>1. Over \subseteq Orders /\ mine \subseteq Orders /\ missed \subseteq Orders
    BY DEF Over, Unresolved, Known, ShapeOK, JournalTyped
  <2>2. fills \in [Orders -> ClipStatus]
    BY DEF ShapeOK, JournalTyped, ClipStatus
  <2>3. SettleAll(fills) \in [Orders -> ClipStatus]
    BY <2>2 DEF SettleAll, ClipStatus
  <2>4. clip' \in {fills, SettleAll(fills)} /\ owned' = mine \cup missed
    BY <1>6 DEF StartupSucceeds
  <2>5. JournalTyped'
    BY <1>6, <2>1, <2>2, <2>3, <2>4 DEF StartupSucceeds, ShapeOK, JournalTyped
  <2>6. HandlerTyped' /\ FeedTyped' /\ VenueTyped'
    BY <1>0, <1>6 DEF StartupSucceeds, Return, ShapeOK, HandlerTyped, Locus,
       FeedTyped, VenueTyped, venueVars, feedVars
  <2>7. FlagTyped' /\ EngineTyped'
    BY <1>6, <2>1, <2>4 DEF StartupSucceeds, ShapeOK, FlagTyped, EngineTyped, gateVars
  <2> QED
    BY <2>5, <2>6, <2>7 DEF ShapeOK
<1>7. CASE StartupRefused
  <2>1. JournalTyped'
    BY <1>7 DEF StartupRefused, Over, Unresolved, ShapeOK, JournalTyped, ClipStatus,
       Known, Pending
  <2>2. HandlerTyped' /\ FeedTyped' /\ VenueTyped'
    BY <1>0, <1>7 DEF StartupRefused, Return, ShapeOK, HandlerTyped, Locus,
       FeedTyped, VenueTyped, venueVars, feedVars
  <2>3. FlagTyped' /\ EngineTyped'
    BY <1>7 DEF StartupRefused, ShapeOK, FlagTyped, EngineTyped, gateVars, flagVars
  <2> QED
    BY <2>1, <2>2, <2>3 DEF ShapeOK
<1> QED
  BY <1>1, <1>2, <1>3, <1>4, <1>5, <1>6, <1>7 DEF LifecycleStep

-----------------------------------------------------------------------------
LEMMA TypeInit == Init => TypeOK
BY ShapeInit DEF ShapeOK, TypeOK, Init

LEMMA TypeShape == TypeOK => ShapeOK
BY DEF ShapeOK, TypeOK

(* What is tracked stays owned: the cancels only forget orders, an answer   *)
(* that identifies an order makes it owned before it is tracked, and the    *)
(* open orders a start-up finds are identified ones.                        *)
LEMMA EmergencyForgets ==
  ASSUME NEW known, NEW term, NEW broken, EmergencyCancel(known, term, broken)
  PROVE  tracked' \subseteq known
BY DEF EmergencyCancel

LEMMA CancelForgets ==
  ASSUME NEW ids, NEW ok \in BOOLEAN, CancelTracked(ids, ok)
  PROVE  tracked' \subseteq tracked
BY EmergencyForgets DEF CancelTracked, CancelConfirmed

LEMMA OwnedStep ==
  ASSUME ShapeOK, tracked \subseteq owned, [Next]_vars
  PROVE  tracked' \subseteq owned'
<1>0. ASSUME NEW revision, NEW broken, FailReconnect(revision, broken)
      PROVE  tracked' \subseteq tracked
  BY <1>0, EmergencyForgets DEF FailReconnect
<1>1. CASE UNCHANGED vars
  BY <1>1 DEF vars
<1>2. CASE VenueStep \/ FeedStep
  BY <1>2 DEF VenueStep, VenueAccepts, VenueRefuses, VenueFills, VenueTradeFails,
     VenueCancels, Becomes, FeedStep, FeedConnects, FeedDisconnects, FeedReceives,
     FeedSends, FeedLoses, feedFrame
<1>3. CASE SubmitStep
  <2>1. CASE SubmitAnswered
    <3>1. PICK answer \in Answers, durable \in {TRUE, "journal" \notin Faults} :
            LET known == IF Identified(answer) THEN tracked \cup {cur} ELSE tracked
                term  == IF durable /\ answer \in {"rejected", "terminal"}
                         THEN jterm \cup {cur} ELSE jterm
            IN /\ owned' = OwnedAfter(answer)
               /\ \/ tracked' = known
                  \/ EmergencyCancel(known, term, ~durable)
      BY <2>1 DEF SubmitAnswered
    <3> QED
      BY <3>1, EmergencyForgets DEF OwnedAfter
  <2> QED
    BY <1>3, <2>1 DEF SubmitStep, MarketEvent, SkipAsset, BeginIntent, DiscardIntent,
       WriteAhead, WriteAheadFails, PostOrder, RejectBeforeSubmit
<1>4. CASE UserStep
  <2>1. CASE TakeConnected
    BY <2>1 DEF TakeConnected
  <2>2. CASE ResnapshotFails
    BY <1>0, <2>2 DEF ResnapshotFails
  <2>3. CASE FinishConnected
    BY <1>0, <2>3 DEF FinishConnected, Resynchronized, IngestFails, Ingest
  <2>4. CASE TakeDisconnected
    BY <2>4, CancelForgets DEF TakeDisconnected
  <2>5. CASE TakeEvent
    BY <2>5 DEF TakeEvent, EventEffect
  <2> QED
    BY <1>4, <2>1, <2>2, <2>3, <2>4, <2>5 DEF UserStep
<1>5. CASE AuditStep
  BY <1>0, <1>5 DEF AuditStep, AuditRead, AuditReadFails, AuditAbandoned, FinishAudit,
     Audited, IngestFails, Ingest
<1>6. CASE MaintenanceStep \/ OperatorStep
  <2> SUFFICES UNCHANGED owned /\ tracked' \subseteq tracked
    OBVIOUS
  <2>1. ASSUME NEW ids, CancelOrLatch(ids)
        PROVE  UNCHANGED owned /\ tracked' \subseteq tracked
    BY <2>1, CancelForgets DEF CancelOrLatch, otherVars
  <2>2. ASSUME NEW ok \in BOOLEAN, PauseAndCancel(ok) PROVE tracked' \subseteq tracked
    BY <2>2, CancelForgets DEF PauseAndCancel
  <2>3. CASE HeartbeatSucceeds \/ HeartbeatFails \/ ComplianceRestored
             \/ ComplianceRevoked \/ CatalogRefreshed \/ CatalogFails \/ MarketDisconnected
    BY <2>2, <2>3 DEF HeartbeatSucceeds, HeartbeatFails, ComplianceRestored,
       ComplianceRevoked, CatalogRefreshed, CatalogFails, MarketDisconnected, otherVars
  <2>4. CASE OperatorPauses \/ OperatorResumes
    BY <2>4 DEF OperatorPauses, OperatorResumes, otherVars
  <2> QED
    BY <1>6, <2>1, <2>3, <2>4
    DEF MaintenanceStep, OperatorStep, TtlExpires, MarketInvalid, OperatorCancelsAll
<1>7. CASE LifecycleStep
  <2>1. CASE StartupSucceeds
    <3>1. Recovered(jterm') /\ tracked' = {o \in Orders : snap[o] = "open"}
          /\ jmap \subseteq owned'
      BY <2>1 DEF StartupSucceeds
    <3>2. \A o \in Orders : snap[o] = "open" => o \in jmap
      BY <3>1 DEF Recovered, ShapeOK, JournalTyped
    <3> QED
      BY <3>1, <3>2
  <2> QED
    BY <1>7, <2>1 DEF LifecycleStep, Crash, Stop, StopOnEvent, StopInAudit, Cleanup,
       VolatileLost, StartupRead, StartupRefused
<1> QED
  BY <1>1, <1>2, <1>3, <1>4, <1>5, <1>6, <1>7 DEF Next

(* Every variable of the live engine keeps its type. *)
THEOREM TypeCorrect == Spec => []TypeOK
<1>1. ShapeOK /\ UNCHANGED vars => ShapeOK'
  BY DEF ShapeOK, vars, venueVars, feedVars, handlerVars, flagVars, gateVars,
     attemptVars, ledgerVars, VenueTyped, FeedTyped, HandlerTyped, FlagTyped,
     EngineTyped, JournalTyped
<1>2. ShapeOK /\ [Next]_vars => ShapeOK'
  BY <1>1, VenueTypeStep, FeedTypeStep, SubmitTypeStep, UserTypeStep,
     AuditTypeStep, MaintenanceTypeStep, LifecycleTypeStep DEF Next
<1>3. TypeOK <=> ShapeOK /\ tracked \subseteq owned
  BY DEF TypeOK, ShapeOK
<1>4. Init => TypeOK
  BY TypeInit
<1>5. TypeOK /\ [Next]_vars => TypeOK'
  <2>1. ShapeOK' /\ (tracked \subseteq owned)' => TypeOK'
    BY DEF TypeOK, ShapeOK
  <2> QED
    BY <1>2, <1>3, <2>1, OwnedStep
<1> QED
  BY <1>4, <1>5, PTL DEF Spec

-----------------------------------------------------------------------------
(* The latch and the flag.  Inductive once the flags are known to be        *)
(* Boolean.                                                                 *)

LEMMA LatchStep == TypeOK /\ LatchedLocked /\ [Next]_vars => LatchedLocked'
<1> SUFFICES ASSUME TypeOK, LatchedLocked, [Next]_vars PROVE LatchedLocked'
  OBVIOUS
<1> USE DEF LatchedLocked
<1>1. CASE UNCHANGED vars
  BY <1>1 DEF vars, flagVars
<1>2. CASE VenueStep \/ FeedStep
  BY <1>2 DEF VenueStep, VenueAccepts, VenueRefuses, VenueFills, VenueTradeFails,
     VenueCancels, Becomes, FeedStep, FeedConnects, FeedDisconnects, FeedReceives,
     FeedSends, FeedLoses, feedFrame, flagVars
<1>3. CASE SubmitStep
  BY <1>3 DEF SubmitStep, MarketEvent, SkipAsset, BeginIntent, DiscardIntent,
     WriteAhead, WriteAheadFails, PostOrder, RejectBeforeSubmit, SubmitAnswered,
     LockOut, flagVars
<1>4. CASE UserStep
  <2>1. CASE TakeConnected
    BY <2>1 DEF TakeConnected, flagVars
  <2>2. CASE ResnapshotFails
    BY <2>2 DEF ResnapshotFails, FailReconnect, LockOut
  <2>3. CASE FinishConnected
    BY <2>3 DEF FinishConnected, Resynchronized, IngestFails, FailReconnect, LockOut
  <2>4. CASE TakeDisconnected
    BY <2>4 DEF TakeDisconnected
  <2>5. CASE TakeEvent
    BY <2>5 DEF TakeEvent, EventEffect, AccountChanges
  <2> QED
    BY <1>4, <2>1, <2>2, <2>3, <2>4, <2>5 DEF UserStep
<1>5. CASE AuditStep
  BY <1>5 DEF AuditStep, AuditRead, AuditReadFails, AuditAbandoned, FinishAudit,
     Audited, IngestFails, FailReconnect, LockOut, flagVars
<1>6. CASE MaintenanceStep \/ OperatorStep
  <2>1. ASSUME NEW ids, CancelOrLatch(ids) PROVE LatchedLocked'
    BY <2>1 DEF CancelOrLatch, CancelTracked, TypeOK, FlagTyped
  <2>2. CASE HeartbeatSucceeds \/ HeartbeatFails
    BY <2>2 DEF HeartbeatSucceeds, HeartbeatFails, PauseAndCancel, flagVars
  <2>3. CASE ComplianceRestored
    BY <2>3 DEF ComplianceRestored
  <2>4. CASE ComplianceRevoked \/ CatalogFails \/ MarketDisconnected
    BY <2>4 DEF ComplianceRevoked, CatalogFails, MarketDisconnected, PauseAndCancel
  <2>5. CASE CatalogRefreshed
    BY <2>5 DEF CatalogRefreshed, flagVars
  <2>6. CASE OperatorPauses \/ OperatorResumes
    BY <2>6 DEF OperatorPauses, OperatorResumes
  <2> QED
    BY <1>6, <2>1, <2>2, <2>3, <2>4, <2>5, <2>6
    DEF MaintenanceStep, OperatorStep, TtlExpires, MarketInvalid, OperatorCancelsAll
<1>7. CASE LifecycleStep
  BY <1>7 DEF LifecycleStep, Crash, Stop, StopOnEvent, StopInAudit, Cleanup, VolatileLost,
     StartupRead, StartupSucceeds, StartupRefused, flagVars
<1> QED
  BY <1>1, <1>2, <1>3, <1>4, <1>5, <1>6, <1>7 DEF Next

(* A latched engine is never enabled for live submission. *)
THEOREM LatchSafety == Spec => []LatchedLocked
<1>1. Init => LatchedLocked
  BY DEF Init, LatchedLocked
<1> QED
  BY <1>1, LatchStep, TypeCorrect, PTL DEF Spec

-----------------------------------------------------------------------------
(* The feed and the handlers.  FeedInOrder alone is not inductive: it needs *)
(* the revision a handler took at its start, which the handler gives back   *)
(* when it ends.  The same facts tell what holds at the moment of a post.   *)

AwaitsInOrder ==
  /\ proc # "running" =>
       /\ accountRevision = 0 /\ processed = 0
       /\ queue = <<>> /\ outgoing = <<>>
       /\ pc \in {"idle", "startup"}
  /\ pc = "startup" => proc = "down"
  /\ pc = "connected" => expected = processed + 1
  /\ pc \in {"risk", "wal", "post", "audit"} => expected = processed
  /\ pc = "wal" => Pending = {}

FeedInv == TypeOK /\ FeedInOrder /\ AwaitsInOrder

(* What FeedInOrder and AwaitsInOrder look at. *)
orderVars == <<accountRevision, outgoing, queue, proc, pc, expected, processed, clip>>

LEMMA OrderFrame == FeedInv /\ UNCHANGED orderVars => FeedInOrder' /\ AwaitsInOrder'
BY DEF FeedInv, orderVars, FeedInOrder, AwaitsInOrder, InHand, Pending

(* A handler that took a message in one step, or ends, acknowledging the    *)
(* revision it took.                                                        *)
LEMMA ReceiveInOrder ==
  ASSUME FeedInv, NEW kinds, Received(kinds),
         UNCHANGED <<accountRevision, outgoing, proc>>,
         \/ processed' = RevisionOf(Head(queue)) /\ pc' = pc
         \/ /\ processed' = processed /\ pc' = "connected"
            /\ expected' = RevisionOf(Head(queue))
  PROVE  FeedInOrder' /\ AwaitsInOrder'
<1>1. /\ pc = "idle" /\ proc = "running" /\ queue # <<>> /\ queue' = Tail(queue)
      /\ InHand = 0
  BY DEF Received, Idle, InHand
<1>2. Head(queue).revision = processed + 1
  BY <1>1 DEF FeedInv, FeedInOrder, TypeOK, FeedTyped, EngineTyped
<1>3. processed' + InHand' = processed + 1
  BY <1>1, <1>2 DEF InHand, RevisionOf, FeedInv, TypeOK, EngineTyped
<1>4. Len(queue') = Len(queue) - 1 /\ \A i \in 1..Len(queue') : queue'[i] = queue[i + 1]
  BY <1>1 DEF FeedInv, TypeOK, FeedTyped
<1>5. Len(queue) \in Nat /\ Len(outgoing) \in Nat /\ processed \in Nat
  BY DEF FeedInv, TypeOK, FeedTyped, EngineTyped
<1>6. accountRevision' = processed' + InHand' + Len(queue') + Len(outgoing')
  BY <1>1, <1>3, <1>4, <1>5 DEF FeedInv, FeedInOrder
<1>7. \A i \in 1..Len(queue') : queue'[i].revision = processed' + InHand' + i
  <2> TAKE i \in 1..Len(queue')
  <2>1. i + 1 \in 1..Len(queue)
    BY <1>4, <1>5
  <2>2. queue[i + 1].revision = processed + InHand + (i + 1)
    BY <2>1 DEF FeedInv, FeedInOrder
  <2> QED
    BY <1>1, <1>3, <1>4, <1>5, <2>2
<1>8. FeedInOrder'
  BY <1>6, <1>7 DEF FeedInv, FeedInOrder
<1>9. AwaitsInOrder'
  BY <1>1, <1>2 DEF AwaitsInOrder, RevisionOf
<1> QED
  BY <1>8, <1>9

LEMMA EndInOrder ==
  ASSUME FeedInv, pc \in {"connected", "audit"}, pc' = "idle", proc' = proc,
         processed' = expected, UNCHANGED <<accountRevision, outgoing, queue>>
  PROVE  FeedInOrder' /\ AwaitsInOrder'
<1>1. processed' + InHand' = processed + InHand
  BY DEF FeedInv, AwaitsInOrder, InHand, TypeOK, EngineTyped
<1>2. FeedInOrder'
  BY <1>1 DEF FeedInv, FeedInOrder, TypeOK, EngineTyped, FeedTyped
<1>3. AwaitsInOrder'
  BY DEF FeedInv, AwaitsInOrder
<1> QED
  BY <1>2, <1>3

LEMMA LostInOrder == VolatileLost /\ proc' = "down" => FeedInOrder' /\ AwaitsInOrder'
BY DEF VolatileLost, Return, FeedInOrder, AwaitsInOrder, InHand

LEMMA FeedStepInOrder == FeedInv /\ FeedStep => FeedInOrder' /\ AwaitsInOrder'
<1> SUFFICES ASSUME FeedInv, FeedStep PROVE FeedInOrder' /\ AwaitsInOrder'
  OBVIOUS
<1> USE DEF FeedInv
<1>1. ASSUME NEW kind, NEW order, Bump(kind, order),
             UNCHANGED <<queue, proc, handlerVars, processed, clip>>
      PROVE  FeedInOrder' /\ AwaitsInOrder'
  <2>1. /\ Len(outgoing') = 1 /\ outgoing'[1].revision = accountRevision'
        /\ Len(outgoing) = 0 /\ accountRevision' = accountRevision + 1
    BY <1>1 DEF Bump
  <2>2. FeedInOrder'
    BY <1>1, <2>1 DEF FeedInOrder, InHand, handlerVars, TypeOK, FeedTyped, EngineTyped
  <2>3. AwaitsInOrder'
    BY <1>1 DEF Bump, AwaitsInOrder, handlerVars, Pending
  <2> QED
    BY <2>2, <2>3
<1>2. CASE FeedConnects
  BY <1>1, <1>2 DEF FeedConnects, feedFrame, ledgerVars
<1>3. CASE FeedDisconnects
  BY <1>1, <1>3 DEF FeedDisconnects, feedFrame, ledgerVars
<1>4. ASSUME NEW n \in wire, FeedReceives(n) PROVE FeedInOrder' /\ AwaitsInOrder'
  BY <1>1, <1>4 DEF FeedReceives, feedFrame, ledgerVars
<1>5. CASE FeedSends
  <2>1. /\ Len(outgoing) = 1 /\ Head(outgoing).revision = accountRevision
        /\ outgoing' = <<>> /\ queue' = Append(queue, Head(outgoing))
        /\ UNCHANGED <<accountRevision, proc, pc, expected, processed, clip>>
    BY <1>5 DEF FeedSends, FeedInOrder, feedFrame, handlerVars, ledgerVars, TypeOK, FeedTyped
  <2>2. /\ Len(queue') = Len(queue) + 1
        /\ \A i \in 1..Len(queue) : queue'[i] = queue[i]
        /\ queue'[Len(queue) + 1] = Head(outgoing)
    BY <2>1 DEF TypeOK, FeedTyped
  <2>3. accountRevision' = processed' + InHand' + Len(queue') + Len(outgoing')
    <3>1. InHand' = InHand /\ InHand \in Nat /\ Len(outgoing') = 0
      BY <2>1 DEF InHand
    <3>2. processed \in Nat /\ Len(queue) \in Nat
      BY DEF TypeOK, FeedTyped, EngineTyped
    <3>3. accountRevision = processed + InHand + Len(queue) + 1
      BY <2>1 DEF FeedInOrder
    <3> QED
      BY <2>1, <2>2, <3>1, <3>2, <3>3
  <2>4. ASSUME NEW i \in 1..Len(queue')
        PROVE  queue'[i].revision = processed' + InHand' + i
    <3>1. CASE i \in 1..Len(queue)
      BY <2>1, <2>2, <3>1 DEF FeedInOrder, InHand
    <3>2. CASE i = Len(queue) + 1
      <4>1. queue'[i].revision = accountRevision
        BY <2>1, <2>2, <3>2
      <4>2. accountRevision = processed + InHand + Len(queue) + 1
        BY <2>1 DEF FeedInOrder
      <4>3. processed \in Nat /\ InHand \in Nat /\ Len(queue) \in Nat
        BY DEF TypeOK, FeedTyped, EngineTyped, InHand
      <4>4. processed' + InHand' + i = processed + InHand + (Len(queue) + 1)
        BY <2>1, <3>2 DEF InHand
      <4> QED
        BY <4>1, <4>2, <4>3, <4>4
    <3> QED
      BY <2>2, <3>1, <3>2 DEF TypeOK, FeedTyped
  <2>5. FeedInOrder'
    BY <2>1, <2>3, <2>4 DEF FeedInOrder
  <2>6. AwaitsInOrder'
    BY <2>1 DEF AwaitsInOrder, Pending
  <2> QED
    BY <2>5, <2>6
<1>6. ASSUME NEW n \in wire, FeedLoses(n) PROVE FeedInOrder' /\ AwaitsInOrder'
  BY <1>6, OrderFrame DEF FeedLoses, feedFrame, feedVars, handlerVars, ledgerVars,
     orderVars
<1> QED
  BY <1>2, <1>3, <1>4, <1>5, <1>6 DEF FeedStep

LEMMA SubmitStepInOrder == FeedInv /\ SubmitStep => FeedInOrder' /\ AwaitsInOrder'
<1> SUFFICES ASSUME FeedInv, SubmitStep PROVE FeedInOrder' /\ AwaitsInOrder'
  OBVIOUS
<1> USE DEF FeedInv
<1>1. UNCHANGED <<accountRevision, outgoing, queue, processed, proc, clip>>
  BY DEF SubmitStep, MarketEvent, SkipAsset, BeginIntent, DiscardIntent,
     WriteAhead, WriteAheadFails, PostOrder, RejectBeforeSubmit, SubmitAnswered,
     feedVars, ledgerVars
<1>2. /\ pc \notin {"connected", "audit", "startup"} /\ pc' \in {"idle", "risk", "wal", "post"}
      /\ proc = "running" \/ pc \in {"risk", "wal", "post"}
  BY DEF SubmitStep, MarketEvent, SkipAsset, BeginIntent, DiscardIntent,
     WriteAhead, WriteAheadFails, PostOrder, RejectBeforeSubmit, SubmitAnswered,
     Idle, Return
<1>3. FeedInOrder'
  BY <1>1, <1>2 DEF FeedInOrder, InHand
<1>4. pc' \in {"risk", "wal", "post"} => expected' = processed'
  BY <1>1 DEF SubmitStep, MarketEvent, SkipAsset, BeginIntent, DiscardIntent,
     WriteAhead, WriteAheadFails, PostOrder, RejectBeforeSubmit, SubmitAnswered,
     Idle, Return, AwaitsInOrder
<1>5. pc' = "wal" => Pending' = {}
  BY <1>1 DEF SubmitStep, MarketEvent, SkipAsset, BeginIntent, DiscardIntent,
     WriteAhead, WriteAheadFails, PostOrder, RejectBeforeSubmit, SubmitAnswered,
     Idle, Return, IntentAdmissible, Pending
<1>6. AwaitsInOrder'
  BY <1>1, <1>2, <1>4, <1>5 DEF AwaitsInOrder
<1> QED
  BY <1>3, <1>6

LEMMA UserStepInOrder == FeedInv /\ UserStep => FeedInOrder' /\ AwaitsInOrder'
<1> SUFFICES ASSUME FeedInv, UserStep PROVE FeedInOrder' /\ AwaitsInOrder'
  OBVIOUS
<1>1. CASE TakeConnected
  BY <1>1, ReceiveInOrder DEF TakeConnected
<1>2. CASE ResnapshotFails
  BY <1>2, ReceiveInOrder DEF ResnapshotFails, FailReconnect, handlerVars
<1>3. CASE FinishConnected
  BY <1>3, EndInOrder DEF FinishConnected, Resynchronized, IngestFails,
     FailReconnect, Return, feedVars
<1>4. CASE TakeDisconnected
  BY <1>4, ReceiveInOrder DEF TakeDisconnected, handlerVars
<1>5. CASE TakeEvent
  BY <1>5, ReceiveInOrder DEF TakeEvent, handlerVars
<1> QED
  BY <1>1, <1>2, <1>3, <1>4, <1>5 DEF UserStep

LEMMA AuditStepInOrder == FeedInv /\ AuditStep => FeedInOrder' /\ AwaitsInOrder'
<1> SUFFICES ASSUME FeedInv, AuditStep PROVE FeedInOrder' /\ AwaitsInOrder'
  OBVIOUS
<1>1. CASE AuditRead
  BY <1>1 DEF AuditRead, Idle, FeedInv, FeedInOrder, AwaitsInOrder, InHand, feedVars
<1>2. CASE AuditReadFails
  BY <1>2, OrderFrame DEF AuditReadFails, feedVars, handlerVars, ledgerVars, orderVars
<1>3. CASE AuditAbandoned
  BY <1>3 DEF AuditAbandoned, Return, FeedInv, FeedInOrder, AwaitsInOrder, InHand, feedVars
<1>4. CASE FinishAudit
  <2>1. expected = processed
    BY <1>4 DEF FinishAudit, FeedInv, AwaitsInOrder
  <2>2. processed' = expected
    BY <1>4, <2>1 DEF FinishAudit, Audited, IngestFails, FailReconnect
  <2> QED
    BY <1>4, <2>2, EndInOrder DEF FinishAudit, Return, feedVars
<1> QED
  BY <1>1, <1>2, <1>3, <1>4 DEF AuditStep

LEMMA LifecycleStepInOrder == FeedInv /\ LifecycleStep => FeedInOrder' /\ AwaitsInOrder'
<1> SUFFICES ASSUME FeedInv, LifecycleStep PROVE FeedInOrder' /\ AwaitsInOrder'
  OBVIOUS
<1>1. CASE Crash \/ Stop \/ StopOnEvent \/ StopInAudit
  BY <1>1, LostInOrder DEF Crash, Stop, StopOnEvent, StopInAudit, Cleanup
<1>2. CASE StartupRead \/ StartupSucceeds \/ StartupRefused
  BY <1>2 DEF StartupRead, StartupSucceeds, StartupRefused, Return, FeedInv,
     FeedInOrder, AwaitsInOrder, InHand, feedVars
<1> QED
  BY <1>1, <1>2 DEF LifecycleStep

LEMMA FeedInvStep == FeedInv /\ TypeOK' /\ [Next]_vars => FeedInv'
<1> SUFFICES ASSUME FeedInv, TypeOK', [Next]_vars PROVE FeedInOrder' /\ AwaitsInOrder'
  BY DEF FeedInv
<1>1. CASE UNCHANGED vars
  BY <1>1, OrderFrame DEF vars, feedVars, handlerVars, ledgerVars, orderVars
<1>2. CASE VenueStep
  BY <1>2, OrderFrame DEF VenueStep, VenueAccepts, VenueRefuses, VenueFills,
     VenueTradeFails, VenueCancels, Becomes, feedVars, handlerVars, ledgerVars, orderVars
<1>3. CASE MaintenanceStep \/ OperatorStep
  <2>1. UNCHANGED otherVars
    BY <1>3 DEF MaintenanceStep, OperatorStep, HeartbeatSucceeds, HeartbeatFails,
       ComplianceRestored, ComplianceRevoked, CatalogRefreshed, CatalogFails,
       MarketDisconnected, TtlExpires, MarketInvalid, OperatorCancelsAll,
       OperatorPauses, OperatorResumes, CancelOrLatch
  <2> QED
    BY <2>1, OrderFrame DEF otherVars, feedVars, handlerVars, ledgerVars, orderVars
<1> QED
  BY <1>1, <1>2, <1>3, FeedStepInOrder, SubmitStepInOrder, UserStepInOrder,
     AuditStepInOrder, LifecycleStepInOrder DEF Next

LEMMA FeedInvariance == Spec => []FeedInv
<1>1. Init => FeedInv
  BY TypeInit DEF Init, FeedInv, FeedInOrder, AwaitsInOrder, InHand
<1> QED
  BY <1>1, FeedInvStep, TypeCorrect, PTL DEF Spec

(* Account events are processed in the order of their revisions, and none   *)
(* is skipped.                                                              *)
THEOREM FeedOrder == Spec => []FeedInOrder
BY FeedInvariance, PTL DEF FeedInv

(* Every other step leaves an order that is not at the venue off it.        *)
LEMMA OnlyPostOrderPosts ==
  ASSUME TypeOK, Next, Posts
  PROVE  PostOrder
<1> SUFFICES ASSUME ~PostOrder PROVE FALSE
  OBVIOUS
<1> PICK o \in Orders : venue[o] = "none" /\ venue'[o] = "inflight"
  BY DEF Posts
<1>1. venue \in [Orders -> VenueStatus]
  BY DEF TypeOK, VenueTyped
<1>2. venue' # venue
  OBVIOUS
<1>3. ASSUME NEW S, VenueCancelled(S) PROVE FALSE
  BY <1>3 DEF VenueCancelled
<1>4. ASSUME NEW known, NEW term, NEW broken, EmergencyCancel(known, term, broken)
      PROVE  FALSE
  BY <1>3, <1>4 DEF EmergencyCancel
<1>5. ASSUME NEW ids, NEW ok, CancelTracked(ids, ok) PROVE FALSE
  BY <1>3, <1>4, <1>5 DEF CancelTracked, CancelConfirmed
<1>6. ASSUME NEW revision, NEW broken, FailReconnect(revision, broken) PROVE FALSE
  BY <1>4, <1>6 DEF FailReconnect
<1>7. ASSUME VenueStep PROVE FALSE
  BY <1>1, <1>7 DEF VenueStep, VenueAccepts, VenueRefuses, VenueFills,
     VenueTradeFails, VenueCancels, Becomes
<1>8. ASSUME FeedStep PROVE FALSE
  BY <1>2, <1>8 DEF FeedStep, FeedConnects, FeedDisconnects, FeedReceives,
     FeedSends, FeedLoses, feedFrame
<1>9. ASSUME SubmitStep PROVE FALSE
  BY <1>2, <1>4, <1>9 DEF SubmitStep, MarketEvent, SkipAsset, BeginIntent,
     DiscardIntent, WriteAhead, WriteAheadFails, RejectBeforeSubmit,
     SubmitAnswered, venueVars
<1>10. ASSUME UserStep PROVE FALSE
  BY <1>2, <1>5, <1>6, <1>10 DEF UserStep, TakeConnected, ResnapshotFails,
     FinishConnected, Resynchronized, IngestFails, TakeDisconnected, TakeEvent, venueVars
<1>11. ASSUME AuditStep PROVE FALSE
  BY <1>2, <1>6, <1>11 DEF AuditStep, AuditRead, AuditReadFails, AuditAbandoned,
     FinishAudit, Audited, IngestFails, venueVars
<1>12. ASSUME MaintenanceStep \/ OperatorStep PROVE FALSE
  BY <1>2, <1>5, <1>12 DEF MaintenanceStep, OperatorStep, HeartbeatSucceeds,
     HeartbeatFails, ComplianceRestored, ComplianceRevoked, CatalogRefreshed,
     CatalogFails, MarketDisconnected, TtlExpires, MarketInvalid, CancelOrLatch,
     OperatorCancelsAll, OperatorPauses, OperatorResumes, PauseAndCancel, venueVars
<1>13. ASSUME LifecycleStep PROVE FALSE
  BY <1>2, <1>3, <1>13 DEF LifecycleStep, Crash, Stop, StopOnEvent, StopInAudit, Cleanup,
     StartupRead, StartupSucceeds, StartupRefused, venueVars
<1> QED
  BY <1>7, <1>8, <1>9, <1>10, <1>11, <1>12, <1>13 DEF Next

(* No order is posted over an announced account event that the engine has   *)
(* not processed, or over a fill that is not reconciled.                    *)
THEOREM PostsCaughtUp == Spec => PostsOnlyCaughtUp
<1>1. FeedInv /\ [Next]_vars => [Posts => CaughtUp]_vars
  <2> SUFFICES ASSUME FeedInv, Next, Posts PROVE CaughtUp
    BY DEF Posts
  <2>1. PostOrder
    BY OnlyPostOrderPosts DEF FeedInv
  <2>2. accountRevision = processed /\ Pending = {} /\ InHand = 0
    BY <2>1 DEF PostOrder, StillAdmissible, FeedInv, AwaitsInOrder, InHand
  <2>3. Len(queue) = 0 /\ Len(outgoing) = 0
    BY <2>2 DEF FeedInv, FeedInOrder, TypeOK, FeedTyped, EngineTyped
  <2> QED
    BY <2>2, <2>3 DEF CaughtUp, FeedInv, TypeOK, FeedTyped
<1> QED
  BY <1>1, FeedInvariance, PTL DEF Spec, PostsOnlyCaughtUp
-----------------------------------------------------------------------------
(* What a step may do to the orders at the venue and to the notices of      *)
(* them.  Everything below rests on this: only a post brings an order to    *)
(* the venue, the others take orders forward to their end.                  *)

Live  == {"inflight", "open"}
Ended == {"filled", "failed", "cancelled"}

(* A notice says what has become of its order.                              *)
Told(kind) ==
  IF kind \in {"matched", "trade"} THEN {"filled", "failed"}
  ELSE IF kind = "failed" THEN {"failed"} ELSE {"cancelled"}
Truthful(m) == m.kind \in NoticeKind => venue[m.order] \in Told(m.kind)

Forward ==
  \A o \in Orders : venue'[o] # venue[o] =>
    \/ venue[o] = "inflight" /\ venue'[o] \in {"open", "refused"}
    \/ venue[o] = "open" /\ venue'[o] \in {"filled", "cancelled"}
    \/ venue[o] = "filled" /\ venue'[o] = "failed"

StillTrue(m) == m.kind \in NoticeKind => venue'[m.order] \in Told(m.kind)

NewsTruthful == \A n \in wire' \ wire : n \in Notice /\ StillTrue(n)

Progress == Forward /\ NewsTruthful

(* The orders this step cancels. *)
Killed == {o \in Orders : venue[o] = "open" /\ venue'[o] = "cancelled"}

(* A cancellation that starts from the tracked orders known and the         *)
(* terminal records term drops and records only what it cancelled.          *)
CancelEffect(known, term) ==
  /\ Progress
  /\ term \subseteq jterm' /\ jterm' \subseteq term \cup Killed
  /\ tracked' \subseteq known /\ known \subseteq tracked' \cup Killed

LEMMA StillProgress == TypeOK /\ UNCHANGED venueVars => Progress
BY DEF venueVars, Progress, Forward, NewsTruthful

LEMMA VenueCancelledProgress ==
  ASSUME NEW S, TypeOK, S \subseteq OpenAtVenue, VenueCancelled(S)
  PROVE  Progress /\ S \subseteq Killed
<1>1. \A o \in Orders : venue'[o] = IF o \in S THEN "cancelled" ELSE venue[o]
  BY DEF VenueCancelled
<1>2. \A o \in S : o \in Orders /\ venue[o] = "open"
  BY DEF OpenAtVenue
<1>3. Forward /\ S \subseteq Killed
  BY <1>1, <1>2 DEF Forward, Killed
<1>4. NewsTruthful
  <2> SUFFICES ASSUME NEW n \in wire', n \notin wire
               PROVE  n \in Notice /\ venue'[n.order] \in Told(n.kind)
    BY DEF NewsTruthful, StillTrue
  <2>1. PICK o \in S : n = [kind |-> "cancelled", order |-> o]
    BY DEF VenueCancelled
  <2> QED
    BY <1>1, <1>2, <2>1 DEF Notice, NoticeKind, Told
<1> QED
  BY <1>3, <1>4 DEF Progress

LEMMA EmergencyEffect ==
  ASSUME NEW known, NEW term, NEW broken, TypeOK, EmergencyCancel(known, term, broken)
  PROVE  CancelEffect(known, term)
<1>1. PICK killed \in SUBSET OpenAtVenue :
        \E noted \in SUBSET Attributable(killed, known) :
          VenueCancelled(killed) /\ jterm' = term \cup noted /\ tracked' = known \ noted
  BY DEF EmergencyCancel
<1>2. Progress /\ killed \subseteq Killed
  BY <1>1, VenueCancelledProgress
<1> QED
  BY <1>1, <1>2 DEF CancelEffect, Attributable

(* What was asked to be cancelled is cancelled, or the engine is latched.   *)
LEMMA CancelTrackedEffect ==
  ASSUME NEW ids, NEW ok \in BOOLEAN, TypeOK, CancelTracked(ids, ok)
  PROVE  CancelEffect(tracked, jterm) /\ (latched => latched')
<1>1. CASE ok
  <2>1. /\ ids \subseteq OpenAtVenue /\ VenueCancelled(ids)
        /\ jterm' = jterm \cup ids /\ tracked' = tracked \ ids
    BY <1>1 DEF CancelTracked, CancelConfirmed
  <2>2. Progress /\ ids \subseteq Killed
    BY <2>1, VenueCancelledProgress
  <2> QED
    BY <2>1, <2>2 DEF CancelEffect, CancelTracked
<1>2. CASE ~ok
  BY <1>2, EmergencyEffect DEF CancelTracked
<1> QED
  BY <1>1, <1>2

LEMMA FailReconnectEffect ==
  ASSUME NEW revision, NEW broken, TypeOK, FailReconnect(revision, broken)
  PROVE  CancelEffect(tracked, jterm) /\ latched' /\ paused'
BY EmergencyEffect DEF FailReconnect, LockOut

LEMMA CleanupEffect ==
  ASSUME NEW broken, TypeOK, Cleanup(broken)
  PROVE  Progress /\ jterm' \subseteq jterm \cup Killed /\ proc' = "down"
<1>1. PICK killed \in SUBSET (OpenAtVenue \cap tracked) :
        \E noted \in SUBSET killed :
          VenueCancelled(killed) /\ jterm' = jterm \cup noted
  BY DEF Cleanup
<1>2. Progress /\ killed \subseteq Killed
  BY <1>1, VenueCancelledProgress
<1> QED
  BY <1>1, <1>2 DEF Cleanup

(* The venue's own steps. *)
LEMMA VenueStepProgress == TypeOK /\ VenueStep => Progress
<1> SUFFICES ASSUME NEW o \in Orders, TypeOK,
               \/ VenueAccepts(o) \/ VenueRefuses(o) \/ VenueFills(o)
               \/ VenueTradeFails(o) \/ VenueCancels(o)
             PROVE  Progress
  BY DEF VenueStep
<1>1. venue \in [Orders -> VenueStatus]
  BY DEF TypeOK, VenueTyped
<1>2. Forward
  BY <1>1 DEF VenueAccepts, VenueRefuses, VenueFills, VenueTradeFails, VenueCancels,
     Becomes, Forward
<1>3. NewsTruthful
  <2> SUFFICES ASSUME NEW n \in wire', n \notin wire
               PROVE  n \in Notice /\ StillTrue(n)
    BY DEF NewsTruthful
  <2>1. n \in Notice /\ n.order = o
    BY DEF VenueAccepts, VenueRefuses, VenueFills, VenueTradeFails, VenueCancels,
       Becomes, Notice, NoticeKind
  <2>2. venue'[o] \in Told(n.kind)
    BY <1>1 DEF VenueAccepts, VenueRefuses, VenueFills, VenueTradeFails, VenueCancels,
       Becomes, Told
  <2> QED
    BY <2>1, <2>2 DEF StillTrue
<1> QED
  BY <1>2, <1>3 DEF Progress

(* The outcome of a submission, as the handler leaves the records and the   *)
(* tracked orders before any account-wide cancel.                           *)
SubmitEffect ==
  \E known \in {tracked, tracked \cup {cur}},
     term \in {jterm, jterm \cup {cur}} :
    /\ term # jterm => venue[cur] \in {"refused"} \cup Ended
    /\ CancelEffect(known, term)
    /\ \/ latched' /\ paused'
       \/ /\ ~latched' => ~latched
          /\ UNCHANGED <<venue, latched, paused>>
          /\ \/ cur \in tracked' /\ cur \in jmap' /\ venue[cur] # "inflight"
             \/ cur \in jterm' /\ venue[cur] \in {"refused"} \cup Ended

LEMMA SubmitAnsweredEffect ==
  ASSUME TypeOK, SubmitAnswered
  PROVE  SubmitEffect /\ jmap \subseteq jmap' /\ proc' = proc /\ todo' = todo
<1>1. PICK answer \in Answers, durable \in {TRUE, "journal" \notin Faults} :
        LET known == IF Identified(answer) THEN tracked \cup {cur} ELSE tracked
            term  == IF durable /\ answer \in {"rejected", "terminal"}
                     THEN jterm \cup {cur} ELSE jterm
            definite == answer \in {"rejected", "ack", "terminal"}
        IN /\ AnswerPossible(answer, venue[cur])
           /\ owned' = OwnedAfter(answer)
           /\ jmap' = IF durable /\ Identified(answer) THEN jmap \cup {cur} ELSE jmap
           /\ IF definite /\ durable /\ accountRevision = expected
              THEN /\ tracked' = known /\ jterm' = term
                   /\ UNCHANGED <<venueVars, paused, enabled, latched, poisoned>>
              ELSE LockOut /\ EmergencyCancel(known, term, ~durable)
  BY DEF SubmitAnswered
<1> DEFINE known == IF Identified(answer) THEN tracked \cup {cur} ELSE tracked
           term  == IF durable /\ answer \in {"rejected", "terminal"}
                    THEN jterm \cup {cur} ELSE jterm
<1>2. /\ known \in {tracked, tracked \cup {cur}}
      /\ term \in {jterm, jterm \cup {cur}}
  OBVIOUS
<1>3. term # jterm => venue[cur] \in {"refused"} \cup Ended
  BY <1>1 DEF AnswerPossible, Ended
<1>4. jmap \subseteq jmap' /\ proc' = proc /\ todo' = todo
  BY <1>1 DEF SubmitAnswered
<1>5. CASE LockOut /\ EmergencyCancel(known, term, ~durable)
  <2>1. CancelEffect(known, term)
    BY <1>5, EmergencyEffect
  <2> HIDE DEF known, term
  <2> QED
    BY <1>2, <1>3, <1>4, <1>5, <2>1 DEF LockOut, SubmitEffect
<1>6. CASE /\ answer \in {"rejected", "ack", "terminal"} /\ durable
           /\ tracked' = known /\ jterm' = term
           /\ UNCHANGED <<venueVars, paused, enabled, latched, poisoned>>
  <2>1. CancelEffect(known, term)
    BY <1>6, StillProgress DEF CancelEffect
  <2>2. \/ cur \in tracked' /\ cur \in jmap' /\ venue[cur] # "inflight"
        \/ cur \in jterm' /\ venue[cur] \in {"refused"} \cup Ended
    BY <1>1, <1>6 DEF AnswerPossible, Ended, Identified
  <2>3. UNCHANGED <<venue, latched, paused>>
    BY <1>6 DEF venueVars
  <2> HIDE DEF known, term
  <2> QED
    BY <1>2, <1>3, <1>4, <2>1, <2>2, <2>3 DEF SubmitEffect
<1> QED
  BY <1>1, <1>4, <1>5, <1>6
(* Maintenance and the operator leave the orders alone or cancel tracked    *)
(* ones.                                                                    *)
LEMMA MaintenanceCancels ==
  ASSUME MaintenanceStep \/ OperatorStep
  PROVE  /\ UNCHANGED otherVars
         /\ \/ UNCHANGED <<venueVars, tracked, jterm, poisoned>> /\ UNCHANGED latched
            \/ \E ids : \E ok \in BOOLEAN : CancelTracked(ids, ok)
<1>1. ASSUME NEW ids, CancelOrLatch(ids)
      PROVE  UNCHANGED otherVars /\ \E ok \in BOOLEAN : CancelTracked(ids, ok)
  BY <1>1 DEF CancelOrLatch
<1>2. ASSUME NEW ok \in BOOLEAN, PauseAndCancel(ok)
      PROVE  CancelTracked(tracked, ok)
  BY <1>2 DEF PauseAndCancel
<1>3. CASE TtlExpires \/ (\E a \in Assets : MarketInvalid(a)) \/ OperatorCancelsAll
  BY <1>1, <1>3 DEF TtlExpires, MarketInvalid, OperatorCancelsAll
<1>4. CASE HeartbeatFails \/ ComplianceRevoked \/ CatalogFails \/ MarketDisconnected
  BY <1>2, <1>4 DEF HeartbeatFails, ComplianceRevoked, CatalogFails, MarketDisconnected,
     flagVars
<1>5. CASE \/ HeartbeatSucceeds \/ ComplianceRestored \/ CatalogRefreshed
           \/ OperatorPauses \/ OperatorResumes
  BY <1>5 DEF HeartbeatSucceeds, ComplianceRestored, CatalogRefreshed,
     OperatorPauses, OperatorResumes, flagVars
<1> QED
  BY <1>3, <1>4, <1>5 DEF MaintenanceStep, OperatorStep

LEMMA StepProgress ==
  ASSUME TypeOK, [Next]_vars, ~PostOrder
  PROVE  Progress
<1>1. CASE UNCHANGED vars
  BY <1>1, StillProgress DEF vars
<1>2. CASE FeedStep
  <2>1. venue' = venue /\ wire' \subseteq wire
    BY <1>2 DEF FeedStep, FeedConnects, FeedDisconnects, FeedReceives, FeedSends,
       FeedLoses, feedFrame
  <2> QED
    BY <2>1 DEF Progress, Forward, NewsTruthful
<1>3. CASE SubmitStep
  <2>1. CASE SubmitAnswered
    BY <2>1, SubmitAnsweredEffect DEF SubmitEffect, CancelEffect
  <2> QED
    BY <1>3, <2>1, StillProgress DEF SubmitStep, MarketEvent, SkipAsset, BeginIntent,
       DiscardIntent, WriteAhead, WriteAheadFails, RejectBeforeSubmit
<1>4. CASE UserStep
  BY <1>4, StillProgress, FailReconnectEffect, CancelTrackedEffect
  DEF UserStep, TakeConnected, ResnapshotFails, FinishConnected, Resynchronized,
      IngestFails, TakeDisconnected, TakeEvent, CancelEffect
<1>5. CASE AuditStep
  BY <1>5, StillProgress, FailReconnectEffect
  DEF AuditStep, AuditRead, AuditReadFails, AuditAbandoned, FinishAudit, Audited,
      IngestFails, CancelEffect
<1>6. CASE MaintenanceStep \/ OperatorStep
  BY <1>6, MaintenanceCancels, StillProgress, CancelTrackedEffect DEF CancelEffect
<1>7. CASE LifecycleStep
  BY <1>7, StillProgress, CleanupEffect
  DEF LifecycleStep, Crash, Stop, StopOnEvent, StopInAudit, StartupRead,
      StartupSucceeds, StartupRefused
<1> QED
  BY <1>1, <1>2, <1>3, <1>4, <1>5, <1>6, <1>7, VenueStepProgress DEF Next

(* The records of an attempt are made where its submission makes them.      *)
LEMMA SubmissionSteps ==
  ASSUME TypeOK, [Next]_vars, pc' \in {"risk", "wal", "post"}
  PROVE  \/ UNCHANGED <<pc, cur, todo, jwal, jterm, snap, proc>> /\ ~PostOrder
         \/ \E o \in Orders : BeginIntent(o)
         \/ WriteAhead
         \/ PostOrder
<1> SUFFICES ASSUME ~PostOrder, ~WriteAhead, \A o \in Orders : ~BeginIntent(o)
             PROVE  UNCHANGED <<pc, cur, todo, jwal, jterm, snap, proc>>
  OBVIOUS
<1>1. CASE UNCHANGED vars
  BY <1>1 DEF vars, handlerVars, attemptVars
<1>2. CASE VenueStep \/ FeedStep
  BY <1>2 DEF VenueStep, VenueAccepts, VenueRefuses, VenueFills, VenueTradeFails,
     VenueCancels, Becomes, FeedStep, FeedConnects, FeedDisconnects, FeedReceives,
     FeedSends, FeedLoses, feedFrame, handlerVars, attemptVars
<1>3. CASE SubmitStep
  BY <1>3 DEF SubmitStep, MarketEvent, Idle, SkipAsset, DiscardIntent, Return,
     WriteAheadFails, RejectBeforeSubmit, SubmitAnswered
<1>4. CASE UserStep
  BY <1>4 DEF UserStep, TakeConnected, ResnapshotFails, FinishConnected, Return,
     TakeDisconnected, TakeEvent, Received, Idle, handlerVars
<1>5. CASE AuditStep
  BY <1>5 DEF AuditStep, AuditRead, AuditReadFails, AuditAbandoned, FinishAudit,
     Return, Idle, handlerVars
<1>6. CASE MaintenanceStep \/ OperatorStep
  BY <1>6 DEF MaintenanceStep, OperatorStep, HeartbeatSucceeds, HeartbeatFails,
     ComplianceRestored, ComplianceRevoked, CatalogRefreshed, CatalogFails,
     MarketDisconnected, TtlExpires, MarketInvalid, CancelOrLatch,
     OperatorCancelsAll, OperatorPauses, OperatorResumes, otherVars, handlerVars, Idle
<1>7. CASE LifecycleStep
  BY <1>7 DEF LifecycleStep, Crash, Stop, StopOnEvent, StopInAudit, Cleanup,
     VolatileLost, Return, StartupRead, StartupSucceeds, StartupRefused
<1> QED
  BY <1>1, <1>2, <1>3, <1>4, <1>5, <1>6, <1>7 DEF Next

LEMMA AttemptsKept ==
  ASSUME TypeOK, [Next]_vars
  PROVE  /\ jwal \subseteq jwal' /\ jmap \subseteq jmap' /\ jterm \subseteq jterm'
         /\ WriteAhead \/ WriteAheadFails \/ jwal' = jwal
<1>1. CASE UNCHANGED vars
  BY <1>1 DEF vars, attemptVars
<1>2. CASE VenueStep \/ FeedStep
  BY <1>2 DEF VenueStep, VenueAccepts, VenueRefuses, VenueFills, VenueTradeFails,
     VenueCancels, Becomes, FeedStep, FeedConnects, FeedDisconnects, FeedReceives,
     FeedSends, FeedLoses, feedFrame, attemptVars
<1>3. CASE SubmitStep
  <2>1. CASE SubmitAnswered
    BY <2>1, SubmitAnsweredEffect DEF SubmitAnswered, SubmitEffect, CancelEffect
  <2> QED
    BY <1>3, <2>1 DEF SubmitStep, MarketEvent, SkipAsset, BeginIntent, DiscardIntent,
       WriteAhead, WriteAheadFails, PostOrder, RejectBeforeSubmit, attemptVars
<1>4. CASE UserStep
  BY <1>4, FailReconnectEffect, CancelTrackedEffect
  DEF UserStep, TakeConnected, ResnapshotFails, FinishConnected, Resynchronized,
      IngestFails, TakeDisconnected, TakeEvent, EventEffect, CancelEffect, attemptVars
<1>5. CASE AuditStep
  BY <1>5, FailReconnectEffect
  DEF AuditStep, AuditRead, AuditReadFails, AuditAbandoned, FinishAudit, Audited,
      IngestFails, CancelEffect, attemptVars
<1>6. CASE MaintenanceStep \/ OperatorStep
  <2>1. jwal' = jwal /\ jmap' = jmap /\ jterm \subseteq jterm'
    BY <1>6, MaintenanceCancels, CancelTrackedEffect DEF otherVars, CancelEffect
  <2> QED
    BY <2>1
<1>7. CASE LifecycleStep
  BY <1>7 DEF LifecycleStep, Crash, Stop, StopOnEvent, StopInAudit, Cleanup,
     StartupRead, StartupSucceeds, StartupRefused, attemptVars
<1> QED
  BY <1>1, <1>2, <1>3, <1>4, <1>5, <1>6, <1>7 DEF Next
-----------------------------------------------------------------------------
(* Recovery.  That live orders are recoverable is inductive once it is      *)
(* known where a submission stands with its records, and that the notices   *)
(* under way, on which the engine closes orders, are true.                  *)

NoticesTrue ==
  /\ \A n \in wire : Truthful(n)
  /\ \A i \in 1..Len(outgoing) : Truthful(outgoing[i])
  /\ \A i \in 1..Len(queue) : Truthful(queue[i])

WrittenAhead ==
  /\ \A o \in Orders : venue[o] # "none" => o \in jwal
  /\ jterm \subseteq jwal
  /\ pc = "risk" => cur \notin jwal
  /\ pc = "wal" => cur \in jwal \ jterm /\ venue[cur] = "none"
  /\ pc = "post" => venue[cur] # "none"

RecoveryInv == TypeOK /\ LiveOrdersRecoverable /\ WrittenAhead /\ NoticesTrue

ToldStays ==
  \A o \in Orders, kind \in NoticeKind : venue[o] \in Told(kind) => venue'[o] \in Told(kind)

LEMMA ToldForGood ==
  ASSUME TypeOK, WrittenAhead, [Next]_vars
  PROVE  ToldStays
<1>1. CASE PostOrder
  BY <1>1 DEF PostOrder, WrittenAhead, ToldStays, Told, TypeOK, VenueTyped
<1>2. CASE ~PostOrder
  BY <1>2, StepProgress DEF Progress, Forward, ToldStays, Told
<1> QED
  BY <1>1, <1>2

LEMMA StaysTrue ==
  ASSUME NEW m \in Notice \cup Message, ToldStays, Truthful(m)
  PROVE  StillTrue(m)
<1>1. m.kind \in NoticeKind => m.order \in Orders
  BY DEF Notice, Message, NoticeKind
<1> QED
  BY <1>1 DEF Truthful, StillTrue, ToldStays

(* All but the feed's own steps only take messages away. *)
LEMMA MessagesTaken ==
  ASSUME TypeOK, [Next]_vars, ~FeedStep
  PROVE  /\ outgoing' \in {outgoing, <<>>}
         /\ queue' \in {queue, <<>>} \/ (queue # <<>> /\ queue' = Tail(queue))
<1>1. CASE UNCHANGED vars
  BY <1>1 DEF vars, feedVars
<1>2. CASE VenueStep
  BY <1>2 DEF VenueStep, VenueAccepts, VenueRefuses, VenueFills, VenueTradeFails,
     VenueCancels, Becomes, feedVars
<1>3. CASE SubmitStep
  BY <1>3 DEF SubmitStep, MarketEvent, SkipAsset, BeginIntent, DiscardIntent,
     WriteAhead, WriteAheadFails, PostOrder, RejectBeforeSubmit, SubmitAnswered, feedVars
<1>4. CASE UserStep
  BY <1>4 DEF UserStep, TakeConnected, ResnapshotFails, FinishConnected,
     TakeDisconnected, TakeEvent, Received, feedVars
<1>5. CASE AuditStep
  BY <1>5 DEF AuditStep, AuditRead, AuditReadFails, AuditAbandoned, FinishAudit, feedVars
<1>6. CASE MaintenanceStep \/ OperatorStep
  BY <1>6, MaintenanceCancels DEF otherVars, feedVars
<1>7. CASE LifecycleStep
  BY <1>7 DEF LifecycleStep, Crash, Stop, StopOnEvent, StopInAudit, Cleanup,
     VolatileLost, StartupRead, StartupSucceeds, StartupRefused, feedVars
<1> QED
  BY <1>1, <1>2, <1>3, <1>4, <1>5, <1>6, <1>7 DEF Next

LEMMA NoticesStep ==
  ASSUME RecoveryInv, TypeOK', [Next]_vars
  PROVE  NoticesTrue'
<1>0. ToldStays
  BY ToldForGood DEF RecoveryInv
<1>1. \A i \in 1..Len(outgoing) : StillTrue(outgoing[i])
  <2> TAKE i \in 1..Len(outgoing)
  <2>1. outgoing[i] \in Message /\ Truthful(outgoing[i])
    BY DEF RecoveryInv, NoticesTrue, TypeOK, FeedTyped
  <2> QED
    BY <1>0, <2>1, StaysTrue
<1>2. \A i \in 1..Len(queue) : StillTrue(queue[i])
  <2> TAKE i \in 1..Len(queue)
  <2>1. queue[i] \in Message /\ Truthful(queue[i])
    BY DEF RecoveryInv, NoticesTrue, TypeOK, FeedTyped
  <2> QED
    BY <1>0, <2>1, StaysTrue
<1>3. \A n \in wire : StillTrue(n)
  BY <1>0, StaysTrue DEF RecoveryInv, NoticesTrue, TypeOK, VenueTyped
<1>4. \A n \in wire' : StillTrue(n)
  <2>1. CASE PostOrder
    BY <1>3, <2>1 DEF PostOrder
  <2>2. CASE ~PostOrder
    BY <1>3, <2>2, StepProgress DEF Progress, NewsTruthful, RecoveryInv
  <2> QED
    BY <2>1, <2>2
<1>5. outgoing \in Seq(Message) /\ queue \in Seq(Message)
  BY DEF RecoveryInv, TypeOK, FeedTyped
<1>6. /\ \A i \in 1..Len(outgoing') : StillTrue(outgoing'[i])
      /\ \A i \in 1..Len(queue') : StillTrue(queue'[i])
  <2>1. CASE ~FeedStep
    <3>1. \A i \in 1..Len(outgoing') : StillTrue(outgoing'[i])
      BY <1>1, <2>1, MessagesTaken DEF RecoveryInv
    <3>2. CASE queue' \in {queue, <<>>}
      BY <1>2, <3>1, <3>2
    <3>3. CASE queue # <<>> /\ queue' = Tail(queue)
      <4>1. /\ Len(queue') = Len(queue) - 1
            /\ \A i \in 1..Len(queue') : queue'[i] = queue[i + 1] /\ i + 1 \in 1..Len(queue)
        BY <1>5, <3>3
      <4> QED
        BY <1>2, <3>1, <4>1
    <3> QED
      BY <2>1, <3>2, <3>3, MessagesTaken DEF RecoveryInv
  <2>2. ASSUME NEW kind, NEW order, Bump(kind, order), queue' = queue,
               kind \in NoticeKind => venue'[order] \in Told(kind)
        PROVE  /\ \A i \in 1..Len(outgoing') : StillTrue(outgoing'[i])
               /\ \A i \in 1..Len(queue') : StillTrue(queue'[i])
    BY <1>2, <2>2 DEF Bump, StillTrue
  <2>3. CASE FeedConnects \/ FeedDisconnects
    BY <2>2, <2>3 DEF FeedConnects, FeedDisconnects, NoticeKind
  <2>4. ASSUME NEW n \in wire, FeedReceives(n)
        PROVE  Bump(n.kind, n.order) /\ queue' = queue
    BY <2>4 DEF FeedReceives
  <2>5. ASSUME NEW n \in wire, FeedLoses(n)
        PROVE  outgoing' = outgoing /\ queue' = queue
    BY <2>5 DEF FeedLoses, feedVars
  <2>6. CASE FeedSends
    <3>1. /\ outgoing' = <<>> /\ queue' = Append(queue, Head(outgoing))
          /\ Head(outgoing) = outgoing[1] /\ 1 \in 1..Len(outgoing)
      BY <1>5, <2>6 DEF FeedSends
    <3>2. /\ Len(queue') = Len(queue) + 1 /\ Len(queue) \in Nat
          /\ \A i \in 1..Len(queue) : queue'[i] = queue[i]
          /\ queue'[Len(queue) + 1] = Head(outgoing)
      BY <1>5, <3>1
    <3>3. StillTrue(Head(outgoing))
      BY <1>1, <3>1
    <3>4. ASSUME NEW i \in 1..Len(queue') PROVE StillTrue(queue'[i])
      <4>1. i \in 1..Len(queue) \/ i = Len(queue) + 1
        BY <3>2
      <4> QED
        BY <1>2, <3>2, <3>3, <4>1
    <3> QED
      BY <3>1, <3>4
  <2> QED
    BY <1>1, <1>2, <1>3, <2>1, <2>2, <2>3, <2>4, <2>5, <2>6 DEF FeedStep, StillTrue
<1> QED
  BY <1>4, <1>6 DEF NoticesTrue, Truthful, StillTrue
(* A terminal record is made of an attempt that was written ahead, and only *)
(* when its order is not at the venue, or no longer.                        *)
RecordsEarned == \A o \in jterm' \ jterm : o \in jwal /\ venue'[o] \notin Live

LEMMA CancelRecords ==
  ASSUME RecoveryInv, Progress, jterm' \subseteq jterm \cup Killed
  PROVE  RecordsEarned
BY DEF RecoveryInv, WrittenAhead, Killed, RecordsEarned, Live

LEMMA RecordsStep ==
  ASSUME RecoveryInv, [Next]_vars
  PROVE  RecordsEarned
<1>0. TypeOK
  BY DEF RecoveryInv
<1>1. ASSUME jterm' = jterm PROVE RecordsEarned
  BY <1>1 DEF RecordsEarned
<1>2. ASSUME CancelEffect(tracked, jterm) PROVE RecordsEarned
  BY <1>2, CancelRecords DEF CancelEffect
<1>3. ASSUME UNCHANGED vars \/ VenueStep \/ FeedStep PROVE RecordsEarned
  BY <1>1, <1>3 DEF vars, VenueStep, VenueAccepts, VenueRefuses, VenueFills,
     VenueTradeFails, VenueCancels, Becomes, FeedStep, FeedConnects, FeedDisconnects,
     FeedReceives, FeedSends, FeedLoses, feedFrame, attemptVars
<1>4. CASE SubmitStep
  <2>1. CASE RejectBeforeSubmit
    BY <2>1 DEF RejectBeforeSubmit, RecoveryInv, WrittenAhead, RecordsEarned, Live,
       venueVars
  <2>2. CASE SubmitAnswered
    <3>1. pc = "post" /\ cur \in Orders /\ cur \in jwal
      BY <2>2 DEF SubmitAnswered, RecoveryInv, TypeOK, HandlerTyped, WrittenAhead
    <3>2. PICK known \in {tracked, tracked \cup {cur}},
               term \in {jterm, jterm \cup {cur}} :
            /\ term # jterm => venue[cur] \in {"refused"} \cup Ended
            /\ CancelEffect(known, term)
      BY <1>0, <2>2, SubmitAnsweredEffect DEF SubmitEffect
    <3>3. jterm' \subseteq term \cup Killed /\ Forward
      BY <3>2 DEF CancelEffect, Progress
    <3>4. ASSUME NEW o \in jterm', o \notin jterm
          PROVE  o \in jwal /\ venue'[o] \notin Live
      <4>1. CASE o \in Killed
        BY <4>1 DEF Killed, Live, RecoveryInv, WrittenAhead
      <4>2. CASE o = cur /\ term # jterm
        BY <3>1, <3>2, <3>3, <4>2 DEF Forward, Live, Ended
      <4> QED
        BY <3>2, <3>3, <3>4, <4>1, <4>2
    <3> QED
      BY <3>4 DEF RecordsEarned
  <2> QED
    BY <1>1, <1>4, <2>1, <2>2 DEF SubmitStep, MarketEvent, SkipAsset, BeginIntent,
       DiscardIntent, WriteAhead, WriteAheadFails, PostOrder, attemptVars
<1>5. CASE UserStep
  <2>1. CASE TakeEvent
    <3> DEFINE message == Head(queue)
    <3>1. queue # <<>> /\ message.kind \in NoticeKind /\ EventEffect(message.kind, message.order)
          /\ UNCHANGED venueVars
      BY <2>1 DEF TakeEvent, Received
    <3>2. message = queue[1] /\ 1 \in 1..Len(queue) /\ message \in Message
      BY <1>0, <3>1, HeadTyped DEF TypeOK, FeedTyped
    <3>3. Truthful(message)
      BY <3>2 DEF RecoveryInv, NoticesTrue
    <3>4. message.order \in Orders
      BY <3>1, <3>2 DEF Message, NoticeKind
    <3>5. jterm' \subseteq jterm \cup
            IF message.kind \in {"matched", "cancelled"} THEN {message.order} ELSE {}
      BY <3>1 DEF EventEffect
    <3> HIDE DEF message
    <3> QED
      BY <3>1, <3>3, <3>4, <3>5 DEF RecordsEarned, Truthful, Told, Live, RecoveryInv,
         WrittenAhead, venueVars
  <2>2. CASE FinishConnected
    <3>1. jterm' = jterm \/ \E broken : FailReconnect(expected, broken)
      BY <2>2 DEF FinishConnected, Resynchronized, IngestFails
    <3> QED
      BY <1>0, <1>1, <1>2, <3>1, FailReconnectEffect
  <2>3. CASE TakeConnected \/ ResnapshotFails \/ TakeDisconnected
    BY <1>0, <1>1, <1>2, <2>3, FailReconnectEffect, CancelTrackedEffect
    DEF TakeConnected, ResnapshotFails, TakeDisconnected, attemptVars
  <2> QED
    BY <1>5, <2>1, <2>2, <2>3 DEF UserStep
<1>6. CASE AuditStep
  <2>1. CASE FinishAudit
    <3>1. jterm' = jterm \/ \E broken : FailReconnect(expected, broken)
      BY <2>1 DEF FinishAudit, Audited, IngestFails
    <3> QED
      BY <1>0, <1>1, <1>2, <3>1, FailReconnectEffect
  <2> QED
    BY <1>1, <1>6, <2>1 DEF AuditStep, AuditRead, AuditReadFails, AuditAbandoned, attemptVars
<1>7. CASE MaintenanceStep \/ OperatorStep
  BY <1>0, <1>1, <1>2, <1>7, MaintenanceCancels, CancelTrackedEffect
<1>8. CASE LifecycleStep
  <2>1. CASE Stop \/ StopOnEvent \/ StopInAudit
    BY <1>0, <2>1, CleanupEffect, CancelRecords DEF Stop, StopOnEvent, StopInAudit
  <2>2. CASE StartupSucceeds \/ StartupRefused
    <3>1. jterm' \subseteq jterm \cup Over /\ venue' = venue
      BY <2>2 DEF StartupSucceeds, StartupRefused, venueVars
    <3> QED
      BY <3>1 DEF RecordsEarned, Over, Unresolved, Live
  <2>3. CASE Crash \/ StartupRead
    BY <1>1, <2>3 DEF Crash, StartupRead, attemptVars
  <2> QED
    BY <1>8, <2>1, <2>2, <2>3 DEF LifecycleStep
<1> QED
  BY <1>3, <1>4, <1>5, <1>6, <1>7, <1>8 DEF Next

LEMMA RecoveryStep == RecoveryInv /\ TypeOK' /\ [Next]_vars => RecoveryInv'
<1> SUFFICES ASSUME RecoveryInv, TypeOK', [Next]_vars
             PROVE  LiveOrdersRecoverable' /\ WrittenAhead'
  BY NoticesStep DEF RecoveryInv
<1>0. /\ TypeOK /\ WrittenAhead /\ LiveOrdersRecoverable /\ RecordsEarned
      /\ jwal \subseteq jwal' /\ jterm \subseteq jterm'
      /\ cur \in Orders \cup {NoOrder}
  BY RecordsStep, AttemptsKept DEF RecoveryInv, TypeOK, HandlerTyped
<1>1. jterm' \subseteq jwal'
  BY <1>0 DEF RecordsEarned, WrittenAhead
<1>2. CASE PostOrder
  <2>1. /\ pc = "wal" /\ pc' = "post" /\ cur' = cur /\ UNCHANGED <<jwal, jterm>>
        /\ venue' = [venue EXCEPT ![cur] = "inflight"] /\ cur \in Orders
    BY <1>0, <1>2 DEF PostOrder, attemptVars, TypeOK, HandlerTyped
  <2>2. \A o \in Orders : venue'[o] = IF o = cur THEN "inflight" ELSE venue[o]
    BY <1>0, <2>1 DEF TypeOK, VenueTyped
  <2> QED
    BY <1>0, <1>1, <2>1, <2>2 DEF WrittenAhead, LiveOrdersRecoverable
<1>3. CASE ~PostOrder
  <2>1. Forward
    BY <1>0, <1>3, StepProgress DEF Progress
  <2>2. \A o \in Orders : /\ venue'[o] # "none" => venue[o] # "none"
                          /\ venue'[o] \in Live => venue[o] \in Live
                          /\ venue[o] # "none" => venue'[o] # "none"
    BY <2>1 DEF Forward, Live
  <2>3. LiveOrdersRecoverable'
    BY <1>0, <2>2 DEF LiveOrdersRecoverable, RecordsEarned, Live
  <2>4. \A o \in Orders : venue'[o] # "none" => o \in jwal'
    BY <1>0, <2>2 DEF WrittenAhead
  <2>5. pc' \in {"risk", "wal", "post"} =>
          /\ pc' = "risk" => cur' \notin jwal'
          /\ pc' = "wal" => cur' \in jwal' \ jterm' /\ venue'[cur'] = "none"
          /\ pc' = "post" => venue'[cur'] # "none"
    <3> SUFFICES ASSUME pc' \in {"risk", "wal", "post"}
                 PROVE  /\ pc' = "risk" => cur' \notin jwal'
                        /\ pc' = "wal" => cur' \in jwal' \ jterm' /\ venue'[cur'] = "none"
                        /\ pc' = "post" => venue'[cur'] # "none"
      OBVIOUS
    <3>1. CASE UNCHANGED <<pc, cur, todo, jwal, jterm, snap, proc>>
      BY <1>0, <2>2, <3>1 DEF WrittenAhead, TypeOK, HandlerTyped
    <3>2. ASSUME NEW o \in Orders, BeginIntent(o) PROVE pc' = "risk" /\ cur' \notin jwal'
      BY <3>2 DEF BeginIntent, attemptVars
    <3>3. CASE WriteAhead
      <4>1. /\ pc = "risk" /\ pc' = "wal" /\ cur' = cur /\ jterm' = jterm
            /\ jwal' = jwal \cup {cur} /\ venue' = venue /\ cur \in Orders
        BY <1>0, <3>3 DEF WriteAhead, venueVars, TypeOK, HandlerTyped
      <4> QED
        BY <1>0, <4>1 DEF WrittenAhead
    <3> QED
      BY <1>0, <1>3, <3>1, <3>2, <3>3, SubmissionSteps
  <2>6. WrittenAhead'
    BY <1>1, <2>4, <2>5 DEF WrittenAhead
  <2> QED
    BY <2>3, <2>6
<1> QED
  BY <1>2, <1>3

LEMMA RecoveryInvariance == Spec => []RecoveryInv
<1>1. Init => RecoveryInv
  <2> SUFFICES ASSUME Init PROVE LiveOrdersRecoverable /\ WrittenAhead /\ NoticesTrue
    BY TypeInit DEF RecoveryInv
  <2> QED
    BY DEF Init, LiveOrdersRecoverable, WrittenAhead, NoticesTrue
<1> QED
  BY <1>1, RecoveryStep, TypeCorrect, PTL DEF Spec

(* Whatever is live at the venue was written ahead and has no terminal      *)
(* record, at every point at which the process may die.                     *)
THEOREM LiveRecoverability == Spec => []LiveOrdersRecoverable
BY RecoveryInvariance, PTL DEF RecoveryInv
-----------------------------------------------------------------------------
(* Tracking.  A handler acts on what it read from the venue before; of an   *)
(* order that was over by then nothing has changed since.                   *)

ViewTrue ==
  \A o \in Orders :
    /\ snap[o] = "filled" => venue[o] \in {"filled", "failed"}
    /\ snap[o] = "failed" => venue[o] = "failed"

TrackedInv == RecoveryInv /\ ViewTrue /\ NothingUntracked

LEMMA SnapSteps ==
  ASSUME [Next]_vars
  PROVE  snap' \in {snap, Blank} \/ (snap' = View /\ venue' = venue)
<1>1. CASE UNCHANGED vars
  BY <1>1 DEF vars, handlerVars
<1>2. CASE VenueStep \/ FeedStep
  BY <1>2 DEF VenueStep, VenueAccepts, VenueRefuses, VenueFills, VenueTradeFails,
     VenueCancels, Becomes, FeedStep, FeedConnects, FeedDisconnects, FeedReceives,
     FeedSends, FeedLoses, feedFrame, handlerVars
<1>3. CASE SubmitStep
  BY <1>3 DEF SubmitStep, MarketEvent, SkipAsset, BeginIntent, DiscardIntent,
     WriteAhead, WriteAheadFails, PostOrder, RejectBeforeSubmit, SubmitAnswered,
     Return, venueVars
<1>4. CASE UserStep
  BY <1>4 DEF UserStep, TakeConnected, ResnapshotFails, FinishConnected, Return,
     TakeDisconnected, TakeEvent, venueVars, handlerVars
<1>5. CASE AuditStep
  BY <1>5 DEF AuditStep, AuditRead, AuditReadFails, AuditAbandoned, FinishAudit,
     Return, venueVars, handlerVars
<1>6. CASE MaintenanceStep \/ OperatorStep
  BY <1>6, MaintenanceCancels DEF otherVars, handlerVars
<1>7. CASE LifecycleStep
  BY <1>7 DEF LifecycleStep, Crash, Stop, StopOnEvent, StopInAudit, Cleanup,
     VolatileLost, Return, StartupRead, StartupSucceeds, StartupRefused, venueVars
<1> QED
  BY <1>1, <1>2, <1>3, <1>4, <1>5, <1>6, <1>7 DEF Next

LEMMA ViewStep ==
  ASSUME RecoveryInv, ViewTrue, [Next]_vars
  PROVE  ViewTrue'
<1>1. CASE snap' = Blank
  BY <1>1 DEF Blank, ViewTrue
<1>2. CASE snap' = View /\ venue' = venue
  BY <1>2 DEF View, ViewTrue
<1>3. CASE snap' = snap
  <2>1. \A o \in Orders : /\ venue[o] = "filled" => venue'[o] \in {"filled", "failed"}
                          /\ venue[o] = "failed" => venue'[o] = "failed"
    <3>1. CASE PostOrder
      BY <3>1 DEF PostOrder, RecoveryInv, WrittenAhead, TypeOK, VenueTyped
    <3>2. CASE ~PostOrder
      BY <3>2, StepProgress DEF RecoveryInv, Progress, Forward
    <3> QED
      BY <3>1, <3>2
  <2> QED
    BY <1>3, <2>1 DEF ViewTrue
<1> QED
  BY <1>1, <1>2, <1>3, SnapSteps

LEMMA AwaitsHeld ==
  ASSUME [Next]_vars, pc \in {"wal", "post"}, proc' = "running"
  PROVE  UNCHANGED <<pc, cur>> \/ PostOrder \/ RejectBeforeSubmit \/ SubmitAnswered
<1>1. CASE UNCHANGED vars
  BY <1>1 DEF vars, handlerVars
<1>2. CASE VenueStep \/ FeedStep
  BY <1>2 DEF VenueStep, VenueAccepts, VenueRefuses, VenueFills, VenueTradeFails,
     VenueCancels, Becomes, FeedStep, FeedConnects, FeedDisconnects, FeedReceives,
     FeedSends, FeedLoses, feedFrame, handlerVars
<1>3. CASE SubmitStep
  BY <1>3 DEF SubmitStep, MarketEvent, Idle, SkipAsset, BeginIntent, DiscardIntent,
     WriteAhead, WriteAheadFails
<1>4. CASE UserStep
  BY <1>4 DEF UserStep, TakeConnected, ResnapshotFails, FinishConnected,
     TakeDisconnected, TakeEvent, Received, Idle
<1>5. CASE AuditStep
  BY <1>5 DEF AuditStep, AuditRead, AuditReadFails, AuditAbandoned, FinishAudit, Idle
<1>6. CASE MaintenanceStep \/ OperatorStep
  BY <1>6, MaintenanceCancels DEF otherVars, handlerVars
<1>7. CASE LifecycleStep
  BY <1>7 DEF LifecycleStep, Crash, Stop, StopOnEvent, StopInAudit, Cleanup,
     StartupRead, StartupSucceeds, StartupRefused
<1> QED
  BY <1>1, <1>2, <1>3, <1>4, <1>5, <1>6, <1>7 DEF Next

(* Within one process a latch stays, and it is start-up that begins one.    *)
LEMMA LatchKept ==
  ASSUME TypeOK, [Next]_vars, proc' = "running", ~StartupSucceeds
  PROVE  proc = "running" /\ (latched => latched')
<1>1. CASE UNCHANGED vars
  BY <1>1 DEF vars, flagVars
<1>2. CASE VenueStep \/ FeedStep
  BY <1>2 DEF VenueStep, VenueAccepts, VenueRefuses, VenueFills, VenueTradeFails,
     VenueCancels, Becomes, FeedStep, FeedConnects, FeedDisconnects, FeedReceives,
     FeedSends, FeedLoses, feedFrame, flagVars
<1>3. CASE SubmitStep
  BY <1>3 DEF SubmitStep, MarketEvent, SkipAsset, BeginIntent, DiscardIntent,
     WriteAhead, WriteAheadFails, PostOrder, RejectBeforeSubmit, SubmitAnswered,
     LockOut, flagVars
<1>4. CASE UserStep
  <2>1. proc' = proc
    BY <1>4 DEF UserStep, TakeConnected, ResnapshotFails, FinishConnected,
       TakeDisconnected, TakeEvent
  <2>2. CASE TakeConnected
    BY <2>1, <2>2 DEF TakeConnected, flagVars
  <2>3. CASE ResnapshotFails
    BY <2>1, <2>3, FailReconnectEffect DEF ResnapshotFails
  <2>4. CASE FinishConnected
    <3>1. latched' = latched \/ \E broken : FailReconnect(expected, broken)
      BY <2>4 DEF FinishConnected, Resynchronized, IngestFails
    <3> QED
      BY <2>1, <3>1, FailReconnectEffect
  <2>5. CASE TakeDisconnected
    BY <2>1, <2>5, CancelTrackedEffect DEF TakeDisconnected
  <2>6. CASE TakeEvent
    BY <2>1, <2>6 DEF TakeEvent, EventEffect, TypeOK, FlagTyped
  <2> QED
    BY <1>4, <2>2, <2>3, <2>4, <2>5, <2>6 DEF UserStep
<1>5. CASE AuditStep
  <2>1. proc' = proc
    BY <1>5 DEF AuditStep, AuditRead, AuditReadFails, AuditAbandoned, FinishAudit
  <2>2. latched' = latched \/ \E broken : FailReconnect(expected, broken)
    BY <1>5 DEF AuditStep, AuditRead, AuditReadFails, AuditAbandoned, FinishAudit,
       Audited, IngestFails, flagVars
  <2> QED
    BY <2>1, <2>2, FailReconnectEffect
<1>6. CASE MaintenanceStep \/ OperatorStep
  BY <1>6, MaintenanceCancels, CancelTrackedEffect DEF otherVars
<1>7. CASE LifecycleStep
  BY <1>7 DEF LifecycleStep, Crash, Stop, StopOnEvent, StopInAudit, Cleanup,
     StartupRead, StartupRefused
<1> QED
  BY <1>1, <1>2, <1>3, <1>4, <1>5, <1>6, <1>7 DEF Next

(* An order is dropped only when it is over. *)
TrackedDropped == \A o \in tracked \ tracked' : venue'[o] \notin Live

LEMMA TrackedSteps ==
  ASSUME RecoveryInv, ViewTrue, [Next]_vars, proc' = "running", ~StartupSucceeds
  PROVE  TrackedDropped
<1>0. TypeOK /\ tracked \subseteq Orders
  BY DEF RecoveryInv, TypeOK, EngineTyped
<1>1. ASSUME tracked' = tracked PROVE TrackedDropped
  BY <1>1 DEF TrackedDropped
<1>2. ASSUME NEW known, NEW term, CancelEffect(known, term), tracked \subseteq known
      PROVE  TrackedDropped
  BY <1>2 DEF CancelEffect, TrackedDropped, Killed, Live
<1>3. CASE UNCHANGED vars \/ VenueStep \/ FeedStep
  BY <1>1, <1>3 DEF vars, VenueStep, VenueAccepts, VenueRefuses, VenueFills,
     VenueTradeFails, VenueCancels, Becomes, FeedStep, FeedConnects, FeedDisconnects,
     FeedReceives, FeedSends, FeedLoses, feedFrame
<1>4. CASE SubmitStep
  <2>1. CASE SubmitAnswered
    <3>1. PICK known, term : CancelEffect(known, term) /\ tracked \subseteq known
      BY <1>0, <2>1, SubmitAnsweredEffect DEF SubmitEffect
    <3> QED
      BY <1>2, <3>1
  <2> QED
    BY <1>1, <1>4, <2>1 DEF SubmitStep, MarketEvent, SkipAsset, BeginIntent,
       DiscardIntent, WriteAhead, WriteAheadFails, PostOrder, RejectBeforeSubmit
<1>5. CASE UserStep
  <2>1. CASE TakeEvent
    <3> DEFINE message == Head(queue)
    <3>1. queue # <<>> /\ message.kind \in NoticeKind /\ EventEffect(message.kind, message.order)
          /\ UNCHANGED venueVars
      BY <2>1 DEF TakeEvent, Received
    <3>2. message = queue[1] /\ 1 \in 1..Len(queue) /\ message \in Message
      BY <1>0, <3>1, HeadTyped DEF TypeOK, FeedTyped
    <3>3. Truthful(message)
      BY <3>2 DEF RecoveryInv, NoticesTrue
    <3>4. tracked \subseteq tracked' \cup
            IF message.kind \in {"matched", "cancelled"} THEN {message.order} ELSE {}
      BY <3>1 DEF EventEffect
    <3> HIDE DEF message
    <3> QED
      BY <3>1, <3>3, <3>4 DEF TrackedDropped, Truthful, Told, Live, venueVars
  <2>2. CASE FinishConnected
    <3>1. \/ \E broken : FailReconnect(expected, broken)
          \/ /\ ResnapshotValid /\ venue' = venue
             /\ tracked' = {o \in tracked : snap[o] = "open"}
      BY <2>2 DEF FinishConnected, Resynchronized, IngestFails, venueVars
    <3>2. CASE /\ ResnapshotValid /\ venue' = venue
               /\ tracked' = {o \in tracked : snap[o] = "open"}
      <4>1. \A o \in tracked : snap[o] \in {"open", "filled", "failed"}
        BY <1>0, <3>2 DEF ResnapshotValid, TypeOK, HandlerTyped, ViewStatus
      <4> QED
        BY <1>0, <3>2, <4>1 DEF TrackedDropped, ViewTrue, Live
    <3> QED
      BY <1>0, <1>2, <3>1, <3>2, FailReconnectEffect
  <2>3. CASE TakeConnected \/ ResnapshotFails \/ TakeDisconnected
    BY <1>0, <1>1, <1>2, <2>3, FailReconnectEffect, CancelTrackedEffect
    DEF TakeConnected, ResnapshotFails, TakeDisconnected
  <2> QED
    BY <1>5, <2>1, <2>2, <2>3 DEF UserStep
<1>6. CASE AuditStep
  <2>1. CASE FinishAudit
    <3>1. tracked' = tracked \/ \E broken : FailReconnect(expected, broken)
      BY <2>1 DEF FinishAudit, Audited, IngestFails
    <3> QED
      BY <1>0, <1>1, <1>2, <3>1, FailReconnectEffect
  <2> QED
    BY <1>1, <1>6, <2>1 DEF AuditStep, AuditRead, AuditReadFails, AuditAbandoned
<1>7. CASE MaintenanceStep \/ OperatorStep
  BY <1>0, <1>1, <1>2, <1>7, MaintenanceCancels, CancelTrackedEffect
<1>8. CASE LifecycleStep
  BY <1>8 DEF LifecycleStep, Crash, Stop, StopOnEvent, StopInAudit, Cleanup,
     StartupRead, StartupRefused
<1> QED
  BY <1>3, <1>4, <1>5, <1>6, <1>7, <1>8 DEF Next
(* What the engine tracks when it has started. *)
LEMMA StartupTracks ==
  ASSUME RecoveryInv, ViewTrue, StartupSucceeds
  PROVE  /\ \A o \in Orders : venue'[o] \in Live => venue'[o] = "open" /\ o \in tracked'
         /\ jwal' \ jterm' \subseteq jmap'
<1>1. /\ StatusKnown /\ jterm' = jterm \cup Over /\ Recovered(jterm')
      /\ tracked' = {o \in Orders : snap[o] = "open"}
      /\ venue' = venue /\ jwal' = jwal /\ jmap' = jmap
  BY DEF StartupSucceeds, venueVars
<1>2. jwal' \ jterm' \subseteq jmap'
  BY <1>1 DEF Recovered
<1>3. ASSUME NEW o \in Orders, venue[o] \in Live
      PROVE  venue[o] = "open" /\ o \in tracked'
  <2>1. o \in jwal \ jterm
    BY <1>3 DEF RecoveryInv, LiveOrdersRecoverable, Live
  <2>2. o \notin Over
    BY <1>3 DEF Over, Live
  <2>3. o \in jwal \ jterm' /\ o \in jmap /\ snap[o] # "gone"
    BY <1>1, <2>1, <2>2 DEF Recovered
  <2>4. o \in Unresolved
    BY <2>1, <2>3 DEF Unresolved
  <2>5. venue[o] = "open"
    BY <1>1, <1>3, <2>4 DEF StatusKnown, Live
  <2>6. snap[o] = "open"
    BY <2>3, <2>5 DEF ViewTrue, RecoveryInv, TypeOK, HandlerTyped, ViewStatus
  <2> QED
    BY <1>1, <2>5, <2>6
<1> QED
  BY <1>1, <1>2, <1>3

LEMMA TrackedStep == TrackedInv /\ [Next]_vars => NothingUntracked'
<1> SUFFICES ASSUME TrackedInv, [Next]_vars, proc' = "running", ~latched'
             PROVE  /\ \A o \in Orders : venue'[o] \in Live =>
                         o \in tracked' \/ (o = cur' /\ pc' = "post")
                    /\ jwal' \ jterm' \subseteq
                         jmap' \cup (IF pc' \in {"wal", "post"} THEN {cur'} ELSE {})
  BY DEF NothingUntracked, Live
<1>0. TypeOK /\ RecoveryInv /\ ViewTrue /\ NothingUntracked
  BY DEF TrackedInv, RecoveryInv
<1>1. CASE StartupSucceeds
  BY <1>0, <1>1, StartupTracks
<1>2. CASE ~StartupSucceeds
  <2>1. /\ \A o \in Orders : venue[o] \in Live => o \in tracked \/ (o = cur /\ pc = "post")
        /\ jwal \ jterm \subseteq jmap \cup (IF pc \in {"wal", "post"} THEN {cur} ELSE {})
    BY <1>0, <1>2, LatchKept DEF NothingUntracked, Live
  <2>2. TrackedDropped
    BY <1>0, <1>2, TrackedSteps
  <2>3. jwal \subseteq jwal' /\ jmap \subseteq jmap' /\ jterm \subseteq jterm'
    BY <1>0, AttemptsKept
  <2>4. CASE PostOrder
    <3>1. /\ pc = "wal" /\ pc' = "post" /\ cur' = cur
          /\ UNCHANGED <<tracked, jwal, jmap, jterm>>
          /\ \A o \in Orders : o = cur \/ venue'[o] = venue[o]
      BY <1>0, <2>4 DEF PostOrder, attemptVars, TypeOK, VenueTyped
    <3> QED
      BY <2>1, <3>1
  <2>5. CASE ~PostOrder
    <3>1. \A o \in Orders : venue'[o] \in Live => venue[o] \in Live
      BY <1>0, <2>5, StepProgress DEF Progress, Forward, Live
    <3>2. ASSUME NEW o \in Orders, venue'[o] \in Live, ~(o = cur /\ pc = "post")
          PROVE  o \in tracked'
      BY <2>1, <2>2, <3>1, <3>2 DEF TrackedDropped
    <3>3. CASE SubmitAnswered
      <4>1. /\ venue' = venue
            /\ \/ cur \in tracked' /\ cur \in jmap'
               \/ cur \in jterm' /\ venue[cur] \notin Live
        BY <1>0, <3>3, SubmitAnsweredEffect DEF SubmitEffect, Live, Ended
      <4>2. pc = "post" /\ pc' = "idle" /\ jwal' = jwal
        BY <3>3 DEF SubmitAnswered, Return
      <4> QED
        BY <2>1, <2>3, <3>2, <4>1, <4>2
    <3>4. CASE RejectBeforeSubmit
      <4>1. pc = "wal" /\ pc' = "idle" /\ jwal' = jwal /\ cur \in jterm'
        BY <3>4 DEF RejectBeforeSubmit, LockOut, Return
      <4> QED
        BY <2>1, <2>3, <3>2, <4>1
    <3>5. CASE WriteAhead
      <4>1. /\ pc = "risk" /\ pc' = "wal" /\ cur' = cur /\ jwal' = jwal \cup {cur}
        BY <3>5 DEF WriteAhead
      <4> QED
        BY <2>1, <2>3, <3>2, <4>1
    <3>6. CASE ~(SubmitAnswered \/ RejectBeforeSubmit \/ WriteAhead)
      <4>1. ~WriteAheadFails
        BY DEF WriteAheadFails, LockOut
      <4>2. jwal' = jwal
        BY <1>0, <3>6, <4>1, AttemptsKept
      <4>3. pc \in {"wal", "post"} => UNCHANGED <<pc, cur>>
        BY <2>5, <3>6, AwaitsHeld
      <4> QED
        BY <2>1, <2>3, <3>2, <4>2, <4>3
    <3> QED
      BY <3>3, <3>4, <3>5, <3>6
  <2> QED
    BY <2>4, <2>5
<1> QED
  BY <1>1, <1>2

LEMMA TrackedInvariance == Spec => []TrackedInv
<1>1. Init => ViewTrue /\ NothingUntracked
  BY DEF Init, ViewTrue, Blank, NothingUntracked
<1>2. TrackedInv /\ RecoveryInv' /\ [Next]_vars => TrackedInv'
  BY TrackedStep, ViewStep DEF TrackedInv
<1> QED
  BY <1>1, <1>2, RecoveryInvariance, PTL DEF Spec, TrackedInv

(* An engine that is not latched tracks whatever is live at the venue and   *)
(* has an identity for every open attempt, the submission in hand aside.    *)
THEOREM Tracking == Spec => []NothingUntracked
BY TrackedInvariance, PTL DEF TrackedInv

-----------------------------------------------------------------------------
(* One order per asset.  The duplicate check sees open orders only, so it   *)
(* rests on where an order may be whose fate at the venue is unknown: in    *)
(* the submission in hand, or left behind by one that ended in a latch and  *)
(* paused the strategy, for an asset the event in hand offers no more.      *)

Submitting == pc \in {"risk", "wal", "post"}

InflightPlaced ==
  \A o \in Orders : venue[o] = "inflight" /\ proc = "running" =>
    \/ pc = "post" /\ o = cur
    \/ /\ latched /\ paused /\ AssetOf[o] \notin todo
       /\ Submitting => AssetOf[cur] # AssetOf[o]

OfferedOnce == Submitting => proc = "running" /\ AssetOf[cur] \notin todo

DuplicateChecked ==
  \A o \in Orders : venue[o] = "open" /\ AssetOf[o] = AssetOf[cur] =>
    /\ pc = "risk" => snap[o] = "open"
    /\ pc # "wal"

AssetInv ==
  TrackedInv /\ OneOrderPerAsset /\ InflightPlaced /\ OfferedOnce /\ DuplicateChecked

(* The strategy stays paused under a latch. *)
LEMMA PauseKept ==
  ASSUME TypeOK, [Next]_vars, proc' = "running", latched, paused, ~StartupSucceeds
  PROVE  paused' /\ todo' \subseteq todo
<1>1. CASE UNCHANGED vars
  BY <1>1 DEF vars, flagVars, handlerVars
<1>2. CASE VenueStep \/ FeedStep
  BY <1>2 DEF VenueStep, VenueAccepts, VenueRefuses, VenueFills, VenueTradeFails,
     VenueCancels, Becomes, FeedStep, FeedConnects, FeedDisconnects, FeedReceives,
     FeedSends, FeedLoses, feedFrame, flagVars, handlerVars
<1>3. CASE SubmitStep
  <2>1. CASE SubmitAnswered
    BY <2>1, SubmitAnsweredEffect DEF SubmitEffect
  <2> QED
    BY <1>3, <2>1 DEF SubmitStep, MarketEvent, SkipAsset, BeginIntent, DiscardIntent,
       WriteAhead, WriteAheadFails, PostOrder, RejectBeforeSubmit, LockOut, flagVars
<1>4. CASE UserStep
  <2>1. todo' = todo
    BY <1>4 DEF UserStep, TakeConnected, ResnapshotFails, FinishConnected,
       TakeDisconnected, TakeEvent, handlerVars
  <2>2. (paused' = paused) \/ paused'
    BY <1>4 DEF UserStep, TakeConnected, ResnapshotFails, FinishConnected,
       Resynchronized, IngestFails, FailReconnect, LockOut, TakeDisconnected,
       TakeEvent, flagVars
  <2> QED
    BY <2>1, <2>2
<1>5. CASE AuditStep
  BY <1>5 DEF AuditStep, AuditRead, AuditReadFails, AuditAbandoned, FinishAudit,
     Audited, IngestFails, FailReconnect, LockOut, flagVars, handlerVars
<1>6. CASE MaintenanceStep \/ OperatorStep
  <2>1. todo' = todo
    BY <1>6, MaintenanceCancels DEF otherVars, handlerVars
  <2>2. (paused' = paused) \/ paused'
    BY <1>6 DEF MaintenanceStep, OperatorStep, HeartbeatSucceeds, HeartbeatFails,
       ComplianceRestored, ComplianceRevoked, CatalogRefreshed, CatalogFails,
       MarketDisconnected, TtlExpires, MarketInvalid, CancelOrLatch,
       OperatorCancelsAll, OperatorPauses, OperatorResumes, PauseAndCancel, flagVars
  <2> QED
    BY <2>1, <2>2
<1>7. CASE LifecycleStep
  BY <1>7 DEF LifecycleStep, Crash, Stop, StopOnEvent, StopInAudit, Cleanup,
     StartupRead, StartupRefused
<1> QED
  BY <1>1, <1>2, <1>3, <1>4, <1>5, <1>6, <1>7 DEF Next
(* No order at the venue, open or of unknown fate, is for the asset of the  *)
(* intent that is about to be posted.                                       *)
LEMMA NoRival ==
  ASSUME AssetInv, NEW o \in Orders, pc \in {"risk", "wal"},
         AssetOf[o] = AssetOf[cur], venue[o] \in Live
  PROVE  venue[o] = "open" /\ pc = "risk" /\ snap[o] = "open"
<1>1. proc = "running"
  BY DEF AssetInv, OfferedOnce, Submitting
<1>2. venue[o] # "inflight"
  BY <1>1 DEF AssetInv, InflightPlaced, Submitting
<1> QED
  BY <1>2 DEF AssetInv, DuplicateChecked, Live

LEMMA InflightStep == AssetInv /\ [Next]_vars => InflightPlaced'
<1> SUFFICES ASSUME AssetInv, [Next]_vars, NEW o \in Orders,
                    venue'[o] = "inflight", proc' = "running"
             PROVE  \/ pc' = "post" /\ o = cur'
                    \/ /\ latched' /\ paused' /\ AssetOf[o] \notin todo'
                       /\ Submitting' => AssetOf[cur'] # AssetOf[o]
  BY DEF InflightPlaced
<1>0. TypeOK /\ RecoveryInv /\ ViewTrue /\ InflightPlaced /\ OfferedOnce
  BY DEF AssetInv, TrackedInv, RecoveryInv
<1>1. CASE StartupSucceeds
  BY <1>0, <1>1, StartupTracks DEF Live
<1>2. CASE PostOrder
  <2>1. /\ pc = "wal" /\ pc' = "post" /\ UNCHANGED <<proc, cur, todo, latched, paused>>
        /\ o = cur \/ venue'[o] = venue[o]
    BY <1>0, <1>2 DEF PostOrder, flagVars, TypeOK, VenueTyped
  <2> QED
    BY <1>0, <2>1 DEF InflightPlaced, Submitting
<1>3. CASE ~PostOrder /\ ~StartupSucceeds
  <2>1. venue[o] = "inflight"
    BY <1>0, <1>3, StepProgress DEF Progress, Forward
  <2>2. proc = "running" /\ (latched => latched')
    BY <1>0, <1>3, LatchKept
  <2>3. CASE pc = "post" /\ o = cur
    <3>1. CASE UNCHANGED <<pc, cur>>
      BY <2>3, <3>1
    <3>2. CASE SubmitAnswered
      <4>1. latched' /\ paused' /\ todo' = todo
        BY <1>0, <2>1, <2>3, <3>2, SubmitAnsweredEffect DEF SubmitEffect, Ended
      <4>2. pc' = "idle"
        BY <3>2 DEF SubmitAnswered, Return
      <4> QED
        BY <1>0, <2>3, <4>1, <4>2 DEF OfferedOnce, Submitting
    <3>3. ~RejectBeforeSubmit
      BY <2>3 DEF RejectBeforeSubmit
    <3> QED
      BY <1>3, <2>3, <3>1, <3>2, <3>3, AwaitsHeld
  <2>4. CASE /\ latched /\ paused /\ AssetOf[o] \notin todo
             /\ Submitting => AssetOf[cur] # AssetOf[o]
    <3>1. latched' /\ paused' /\ AssetOf[o] \notin todo'
      BY <1>0, <1>3, <2>2, <2>4, PauseKept
    <3>2. ASSUME Submitting' PROVE AssetOf[cur'] # AssetOf[o]
      <4>1. CASE UNCHANGED <<pc, cur>>
        BY <2>4, <3>2, <4>1 DEF Submitting
      <4>2. ASSUME NEW p \in Orders, BeginIntent(p) PROVE AssetOf[cur'] # AssetOf[o]
        BY <2>4, <4>2 DEF BeginIntent
      <4>3. CASE WriteAhead
        BY <2>4, <4>3 DEF WriteAhead, Submitting
      <4> QED
        BY <1>0, <1>3, <3>2, <4>1, <4>2, <4>3, SubmissionSteps DEF Submitting
    <3> QED
      BY <3>1, <3>2
  <2> QED
    BY <1>0, <2>1, <2>2, <2>3, <2>4 DEF InflightPlaced
<1> QED
  BY <1>1, <1>2, <1>3

LEMMA OfferedStep == AssetInv /\ [Next]_vars => OfferedOnce'
<1> SUFFICES ASSUME AssetInv, [Next]_vars, pc' \in {"risk", "wal", "post"}
             PROVE  proc' = "running" /\ AssetOf[cur'] \notin todo'
  BY DEF OfferedOnce, Submitting
<1>0. TypeOK /\ OfferedOnce
  BY DEF AssetInv, TrackedInv, RecoveryInv
<1>1. CASE UNCHANGED <<pc, cur, todo, jwal, jterm, snap, proc>>
  BY <1>0, <1>1 DEF OfferedOnce, Submitting
<1>2. ASSUME NEW o \in Orders, BeginIntent(o)
      PROVE  proc' = "running" /\ AssetOf[cur'] \notin todo'
  BY <1>2 DEF BeginIntent
<1>3. CASE WriteAhead \/ PostOrder
  BY <1>0, <1>3 DEF WriteAhead, PostOrder, OfferedOnce, Submitting
<1> QED
  BY <1>0, <1>1, <1>2, <1>3, SubmissionSteps

LEMMA DuplicateStep == AssetInv /\ [Next]_vars => DuplicateChecked'
<1> SUFFICES ASSUME AssetInv, [Next]_vars, NEW o \in Orders, venue'[o] = "open",
                    AssetOf[o] = AssetOf[cur'], pc' \in {"risk", "wal"}
             PROVE  pc' = "risk" /\ snap'[o] = "open"
  BY DEF DuplicateChecked
<1>0. TypeOK
  BY DEF AssetInv, TrackedInv, RecoveryInv
<1>1. CASE UNCHANGED <<pc, cur, todo, jwal, jterm, snap, proc>> /\ ~PostOrder
  <2>1. venue[o] \in Live
    BY <1>0, <1>1, StepProgress DEF Progress, Forward, Live
  <2>2. pc = "risk" /\ snap[o] = "open"
    BY <1>1, <2>1, NoRival
  <2> QED
    BY <1>1, <2>2
<1>2. ASSUME NEW p \in Orders, BeginIntent(p) PROVE pc' = "risk" /\ snap'[o] = "open"
  BY <1>2 DEF BeginIntent, View, venueVars
<1>3. CASE WriteAhead
  <2>1. /\ pc = "risk" /\ cur' = cur /\ venue'[o] = venue[o]
        /\ \A p \in Orders : snap[p] = "open" => AssetOf[p] # AssetOf[cur]
    BY <1>3 DEF WriteAhead, IntentAdmissible, venueVars
  <2>2. snap[o] = "open"
    BY <2>1, NoRival DEF Live
  <2> QED
    BY <2>1, <2>2
<1>4. ~PostOrder
  BY DEF PostOrder
<1> QED
  BY <1>0, <1>1, <1>2, <1>3, <1>4, SubmissionSteps

LEMMA OneOrderStep == AssetInv /\ TypeOK' /\ [Next]_vars => OneOrderPerAsset'
<1> SUFFICES ASSUME AssetInv, TypeOK', [Next]_vars, NEW o \in Orders, NEW p \in Orders,
                    o # p, AssetOf[o] = AssetOf[p]
             PROVE  ~(venue'[o] \in Live /\ venue'[p] \in Live)
  BY DEF OneOrderPerAsset, Live, TypeOK, VenueTyped, VenueStatus
<1>0. TypeOK /\ ~(venue[o] \in Live /\ venue[p] \in Live)
  BY DEF AssetInv, TrackedInv, RecoveryInv, OneOrderPerAsset, Live
<1>1. CASE PostOrder
  <2>1. /\ pc = "wal"
        /\ venue'[o] = venue[o] \/ o = cur
        /\ venue'[p] = venue[p] \/ p = cur
    BY <1>0, <1>1 DEF PostOrder, TypeOK, VenueTyped
  <2> QED
    BY <1>0, <1>1, <2>1, NoRival DEF PostOrder
<1>2. CASE ~PostOrder
  BY <1>0, <1>2, StepProgress DEF Progress, Forward, Live
<1> QED
  BY <1>1, <1>2

LEMMA AssetInvariance == Spec => []AssetInv
<1>1. Init => OneOrderPerAsset /\ InflightPlaced /\ OfferedOnce /\ DuplicateChecked
  BY DEF Init, OneOrderPerAsset, InflightPlaced, OfferedOnce, DuplicateChecked, Submitting
<1>2. AssetInv /\ TypeOK' /\ TrackedInv' /\ [Next]_vars => AssetInv'
  BY OneOrderStep, InflightStep, OfferedStep, DuplicateStep DEF AssetInv
<1> QED
  BY <1>1, <1>2, TrackedInvariance, TypeCorrect, PTL DEF Spec, AssetInv

(* Never two live orders for one asset, whatever the venue did while an     *)
(* answer was lost.                                                         *)
THEOREM OneOrder == Spec => []OneOrderPerAsset
BY AssetInvariance, PTL DEF AssetInv
-----------------------------------------------------------------------------
(* The life of an order.  The engine records a fill or its failure on a     *)
(* notice or on a view, and settles what it has recorded: what is recorded  *)
(* of a fill is true because it was.                                        *)

FillsTrue == \A o \in Orders : clip[o] # "none" => venue[o] \in {"filled", "failed"}

LifeInv == RecoveryInv /\ ViewTrue /\ FillsTrue

FillsKept == \A o \in Orders : venue[o] \in {"filled", "failed"} => venue'[o] \in {"filled", "failed"}

(* What a step may do to the records of fills.                              *)
FillRecorded(o) ==
  \/ clip'[o] = clip[o]
  \/ Life!Later(clip'[o], clip[o]) /\ venue'[o] \in {"filled", "failed"}

FillsFollow ==
  /\ \A o \in Orders : FillRecorded(o)
  /\ bad \subseteq bad' /\ \A o \in bad' \ bad : venue'[o] = "failed"

LEMMA FillsStay ==
  ASSUME RecoveryInv, [Next]_vars
  PROVE  /\ FillsKept
         /\ \A o \in Orders : venue[o] = "failed" => venue'[o] = "failed"
<1>1. ToldStays
  BY ToldForGood DEF RecoveryInv
<1> QED
  BY <1>1 DEF ToldStays, Told, NoticeKind, FillsKept

(* From what is seen in the trade history.                                  *)
LEMMA IngestFollows ==
  ASSUME LifeInv, [Next]_vars, NEW S, S \subseteq Unseen, Ingest(S)
  PROVE  FillsFollow
<1>1. \A o \in S :
        o \in Orders /\ ((snap[o] = "filled" /\ o \notin Known) \/ snap[o] = "failed")
  BY UnseenTyped, TypeShape DEF LifeInv, RecoveryInv, Unseen
<1>2. \A o \in S : /\ snap[o] = "filled" => venue'[o] \in {"filled", "failed"}
                   /\ snap[o] = "failed" => venue'[o] = "failed"
  BY <1>1, FillsStay DEF LifeInv, ViewTrue, FillsKept
<1>3. clip \in [Orders -> ClipStatus]
  BY DEF LifeInv, RecoveryInv, TypeOK, JournalTyped
<1>4. ASSUME NEW o \in Orders PROVE FillRecorded(o)
  <2>1. clip'[o] = IF o \in S /\ snap[o] = "filled" THEN "trade" ELSE clip[o]
    BY <1>3 DEF Ingest
  <2>2. CASE o \in S /\ snap[o] = "filled"
    <3>1. clip[o] \in {"none", "order"}
      BY <1>1, <1>3, <2>2 DEF Known, ClipStatus
    <3> QED
      BY <1>2, <2>1, <2>2, <3>1 DEF FillRecorded, Life!Later
  <2> QED
    BY <2>1, <2>2 DEF FillRecorded
<1> QED
  BY <1>2, <1>4 DEF FillsFollow, Ingest

(* fills is the record with some trades added that were seen at the venue.  *)
TradesSeen(fills) ==
  \A o \in Orders :
    \/ fills[o] = clip[o]
    \/ fills[o] = "trade" /\ clip[o] \in {"none", "order"} /\ venue'[o] \in {"filled", "failed"}

(* A fill is settled once its trade is recorded.                            *)
LEMMA SettledFollows ==
  ASSUME LifeInv, [Next]_vars, NEW fills, TradesSeen(fills), clip' \in {fills, SettleAll(fills)}
  PROVE  \A o \in Orders : FillRecorded(o)
<1> SUFFICES ASSUME NEW o \in Orders PROVE FillRecorded(o)
  OBVIOUS
<1>1. clip[o] \in ClipStatus
  BY DEF LifeInv, RecoveryInv, TypeOK, JournalTyped
<1>2. clip[o] # "none" => venue'[o] \in {"filled", "failed"}
  BY FillsStay DEF LifeInv, FillsTrue, FillsKept
<1>3. \/ fills[o] = clip[o]
      \/ fills[o] = "trade" /\ clip[o] \in {"none", "order"} /\ venue'[o] \in {"filled", "failed"}
  BY DEF TradesSeen
<1>4. CASE clip' = fills
  BY <1>3, <1>4 DEF FillRecorded, Life!Later
<1>5. CASE clip' = SettleAll(fills)
  <2>1. clip'[o] = IF fills[o] = "trade" THEN "settled" ELSE fills[o]
    BY <1>5 DEF SettleAll
  <2> QED
    BY <1>1, <1>2, <1>3, <2>1 DEF FillRecorded, Life!Later, ClipStatus
<1> QED
  BY <1>4, <1>5

LEMMA UnseenFollows ==
  ASSUME LifeInv, [Next]_vars, clip' \in {WithUnseen, SettleAll(WithUnseen)}
  PROVE  \A o \in Orders : FillRecorded(o)
<1>1. clip \in [Orders -> ClipStatus]
  BY DEF LifeInv, RecoveryInv, TypeOK, JournalTyped
<1>2. ASSUME NEW o \in Orders, o \in Unseen, snap[o] = "filled"
      PROVE  clip[o] \in {"none", "order"} /\ venue'[o] \in {"filled", "failed"}
  <2>1. o \notin Known /\ venue[o] \in {"filled", "failed"}
    BY <1>2 DEF Unseen, LifeInv, ViewTrue
  <2>2. venue'[o] \in {"filled", "failed"}
    BY <2>1, FillsStay DEF LifeInv, FillsKept
  <2> QED
    BY <1>1, <2>1, <2>2 DEF Known, ClipStatus
<1>3. TradesSeen(WithUnseen)
  BY <1>2 DEF TradesSeen, WithUnseen
<1> QED
  BY <1>3, SettledFollows

(* From what an event tells.                                                *)
LEMMA EventFollows ==
  ASSUME LifeInv, [Next]_vars, Received(NoticeKind),
         clip' = [clip EXCEPT ![Head(queue).order] =
                    IF Head(queue).kind = "matched" /\ Head(queue).order \notin Known
                    THEN "order"
                    ELSE IF Head(queue).kind = "trade" /\ @ # "settled" THEN "trade" ELSE @],
         bad' = IF Head(queue).kind = "failed" THEN bad \cup {Head(queue).order} ELSE bad
  PROVE  FillsFollow
<1> DEFINE kind == Head(queue).kind
           told == Head(queue).order
<1>1. /\ Head(queue) = queue[1] /\ 1 \in 1..Len(queue) /\ Head(queue) \in Message
      /\ kind \in NoticeKind
  BY HeadTyped DEF LifeInv, RecoveryInv, TypeOK, FeedTyped, Received
<1>2. told \in Orders /\ venue[told] \in Told(kind)
  BY <1>1 DEF LifeInv, RecoveryInv, NoticesTrue, Truthful, Message, NoticeKind
<1>3. venue'[told] \in Told(kind)
  BY <1>1, <1>2, ToldForGood DEF LifeInv, RecoveryInv, ToldStays
<1>4. clip \in [Orders -> ClipStatus]
  BY DEF LifeInv, RecoveryInv, TypeOK, JournalTyped
<1>5. /\ clip' = [clip EXCEPT ![told] =
                    IF kind = "matched" /\ told \notin Known THEN "order"
                    ELSE IF kind = "trade" /\ clip[told] # "settled" THEN "trade"
                    ELSE clip[told]]
      /\ bad' = IF kind = "failed" THEN bad \cup {told} ELSE bad
  OBVIOUS
<1> HIDE DEF kind, told
<1>6. ASSUME NEW o \in Orders PROVE FillRecorded(o)
  <2>1. CASE o # told
    BY <1>4, <1>5, <2>1 DEF FillRecorded
  <2>2. CASE o = told /\ kind = "matched" /\ told \notin Known
    BY <1>3, <1>4, <1>5, <2>2 DEF FillRecorded, Life!Later, Told, Known, ClipStatus
  <2>3. CASE o = told /\ kind = "trade" /\ clip[told] # "settled"
    BY <1>3, <1>4, <1>5, <2>3 DEF FillRecorded, Life!Later, Told, ClipStatus
  <2> QED
    BY <1>4, <1>5, <2>1, <2>2, <2>3 DEF FillRecorded
<1>7. bad \subseteq bad' /\ \A o \in bad' \ bad : venue'[o] = "failed"
  BY <1>3, <1>5 DEF Told
<1> QED
  BY <1>6, <1>7 DEF FillsFollow

LEMMA LifecycleFollows == LifeInv /\ [Next]_vars /\ LifecycleStep => FillsFollow
<1> SUFFICES ASSUME LifeInv, [Next]_vars, LifecycleStep PROVE FillsFollow
  OBVIOUS
<1>0. clip \in [Orders -> ClipStatus]
  BY DEF LifeInv, RecoveryInv, TypeOK, JournalTyped
<1>1. ASSUME UNCHANGED ledgerVars PROVE FillsFollow
  BY <1>1 DEF ledgerVars, FillRecorded, FillsFollow
<1>2. CASE Crash \/ Stop \/ StartupRead
  BY <1>1, <1>2 DEF Crash, Stop, StartupRead
<1>3. CASE StopOnEvent
  BY <1>1, <1>3, EventFollows DEF StopOnEvent
<1>4. CASE StopInAudit
  <2>1. clip' \in {WithUnseen, SettleAll(WithUnseen)} /\ bad' = bad
    BY <1>4 DEF StopInAudit
  <2> QED
    BY <2>1, UnseenFollows DEF FillsFollow
<1>5. CASE StartupSucceeds
  <2> DEFINE missed == {o \in (jmap \cup Known) \cup {p \in Orders : clip[p] = "order"} :
                          snap[o] = "filled" /\ o \notin Known}
             fills == [o \in Orders |-> IF o \in missed THEN "trade" ELSE clip[o]]
  <2>1. /\ clip' \in {fills, SettleAll(fills)} /\ bad' = bad
        /\ \A o \in missed : snap[o] = "filled" /\ o \notin Known
    BY <1>5 DEF StartupSucceeds
  <2> HIDE DEF missed
  <2>2. ASSUME NEW o \in Orders, o \in missed
        PROVE  clip[o] \in {"none", "order"} /\ venue'[o] \in {"filled", "failed"}
    <3>1. venue'[o] \in {"filled", "failed"}
      BY <2>1, <2>2, FillsStay DEF LifeInv, ViewTrue, FillsKept
    <3> QED
      BY <1>0, <2>1, <2>2, <3>1 DEF Known, ClipStatus
  <2>3. TradesSeen(fills) /\ clip' \in {fills, SettleAll(fills)}
    BY <2>1, <2>2 DEF TradesSeen
  <2> QED
    BY <2>1, <2>3, SettledFollows DEF FillsFollow
<1>6. CASE StartupRefused
  <2>1. PICK S \in SUBSET {o \in jmap \cup Known \cup Pending :
                            \/ snap[o] = "filled" /\ o \notin Known
                            \/ snap[o] = "failed" /\ o \notin bad} :
          /\ clip' = [o \in Orders |-> IF o \in S /\ snap[o] = "filled" THEN "trade" ELSE clip[o]]
          /\ bad' = bad \cup {o \in S : snap[o] = "failed"}
    BY <1>6 DEF StartupRefused
  <2>2. S \subseteq Orders
    BY <2>1 DEF Known, Pending, LifeInv, RecoveryInv, TypeOK, JournalTyped
  <2>3. \A o \in S : /\ snap[o] = "filled" => venue'[o] \in {"filled", "failed"} /\ o \notin Known
                     /\ snap[o] = "failed" => venue'[o] = "failed"
    BY <2>1, <2>2, FillsStay DEF LifeInv, ViewTrue, FillsKept
  <2>4. TradesSeen([o \in Orders |-> IF o \in S /\ snap[o] = "filled" THEN "trade" ELSE clip[o]])
    BY <1>0, <2>3 DEF TradesSeen, Known, ClipStatus
  <2> QED
    BY <2>1, <2>3, <2>4, SettledFollows DEF FillsFollow
<1> QED
  BY <1>2, <1>3, <1>4, <1>5, <1>6 DEF LifecycleStep

LEMMA RecordsFollow == LifeInv /\ [Next]_vars => FillsFollow
<1> SUFFICES ASSUME LifeInv, [Next]_vars PROVE FillsFollow
  OBVIOUS
<1>1. ASSUME UNCHANGED ledgerVars PROVE FillsFollow
  BY <1>1 DEF ledgerVars, FillRecorded, FillsFollow
<1>2. CASE UNCHANGED vars \/ VenueStep \/ FeedStep
  BY <1>1, <1>2 DEF vars, VenueStep, VenueAccepts, VenueRefuses, VenueFills,
     VenueTradeFails, VenueCancels, Becomes, FeedStep, FeedConnects, FeedDisconnects,
     FeedReceives, FeedSends, FeedLoses, feedFrame
<1>3. CASE SubmitStep
  BY <1>1, <1>3 DEF SubmitStep, MarketEvent, SkipAsset, BeginIntent, DiscardIntent,
     WriteAhead, WriteAheadFails, PostOrder, RejectBeforeSubmit, SubmitAnswered
<1>4. CASE UserStep
  <2>1. CASE TakeEvent
    BY <2>1, EventFollows DEF TakeEvent, EventEffect
  <2>2. CASE FinishConnected
    BY <1>1, <2>2, IngestFollows DEF FinishConnected, Resynchronized, IngestFails
  <2>3. CASE TakeConnected \/ ResnapshotFails \/ TakeDisconnected
    BY <1>1, <2>3 DEF TakeConnected, ResnapshotFails, TakeDisconnected
  <2> QED
    BY <1>4, <2>1, <2>2, <2>3 DEF UserStep
<1>5. CASE AuditStep
  <2>1. ASSUME Audited PROVE FillsFollow
    <3>1. clip' \in {WithUnseen, SettleAll(WithUnseen)} /\ bad' = bad \cup {o \in Unseen : snap[o] = "failed"}
      BY <2>1 DEF Audited
    <3>2. \A o \in Unseen : o \in Orders /\ (snap[o] = "failed" => venue'[o] = "failed")
      BY UnseenTyped, TypeShape, FillsStay DEF LifeInv, RecoveryInv, ViewTrue
    <3> QED
      BY <3>1, <3>2, UnseenFollows DEF FillsFollow
  <2>2. CASE FinishAudit
    BY <2>1, <2>2, IngestFollows DEF FinishAudit, IngestFails
  <2> QED
    BY <1>1, <1>5, <2>2 DEF AuditStep, AuditRead, AuditReadFails, AuditAbandoned
<1>6. CASE MaintenanceStep \/ OperatorStep
  BY <1>1, <1>6, MaintenanceCancels DEF otherVars
<1> QED
  BY <1>2, <1>3, <1>4, <1>5, <1>6, LifecycleFollows DEF Next

LEMMA LifeInvariance == Spec => []LifeInv
<1>1. Init => LifeInv
  <2>1. Init => TypeOK
    BY TypeInit
  <2> QED
    BY <2>1 DEF Init, LifeInv, RecoveryInv, LiveOrdersRecoverable, WrittenAhead,
       NoticesTrue, ViewTrue, FillsTrue, Blank
<1>2. LifeInv /\ TypeOK' /\ [Next]_vars => LifeInv'
  <2> SUFFICES ASSUME LifeInv, TypeOK', [Next]_vars PROVE FillsTrue'
    BY RecoveryStep, ViewStep DEF LifeInv
  <2> SUFFICES ASSUME NEW o \in Orders, clip'[o] # "none"
               PROVE  venue'[o] \in {"filled", "failed"}
    BY DEF FillsTrue
  <2>1. FillRecorded(o)
    BY RecordsFollow DEF FillsFollow
  <2> QED
    BY <2>1, FillsStay DEF FillRecorded, LifeInv, FillsTrue, FillsKept
<1> QED
  BY <1>1, <1>2, TypeCorrect, PTL DEF Spec

(* An order gets its identity from the venue.                               *)
LEMMA NamedSent ==
  ASSUME RecoveryInv, [Next]_vars
  PROVE  \A o \in jmap' \ jmap : o \in Orders /\ venue'[o] # "none"
<1>1. CASE SubmitAnswered
  <2>1. cur \in Orders /\ venue[cur] # "none" /\ jmap' \subseteq jmap \cup {cur}
    BY <1>1 DEF SubmitAnswered, RecoveryInv, WrittenAhead, TypeOK, HandlerTyped
  <2>2. Forward
    BY <1>1, SubmitAnsweredEffect DEF SubmitEffect, CancelEffect, Progress, RecoveryInv
  <2> QED
    BY <2>1, <2>2 DEF Forward
<1>2. CASE ~SubmitAnswered
  <2>1. CASE UNCHANGED vars \/ VenueStep \/ FeedStep
    BY <2>1 DEF vars, attemptVars, VenueStep, VenueAccepts, VenueRefuses, VenueFills,
       VenueTradeFails, VenueCancels, Becomes, FeedStep, FeedConnects, FeedDisconnects,
       FeedReceives, FeedSends, FeedLoses, feedFrame
  <2>2. CASE SubmitStep
    BY <1>2, <2>2 DEF SubmitStep, MarketEvent, SkipAsset, BeginIntent, DiscardIntent,
       WriteAhead, WriteAheadFails, PostOrder, RejectBeforeSubmit, attemptVars
  <2>3. CASE UserStep \/ AuditStep
    BY <2>3 DEF UserStep, TakeConnected, ResnapshotFails, FinishConnected,
       TakeDisconnected, TakeEvent, AuditStep, AuditRead, AuditReadFails,
       AuditAbandoned, FinishAudit, attemptVars
  <2>4. CASE MaintenanceStep \/ OperatorStep
    BY <2>4, MaintenanceCancels DEF otherVars
  <2>5. CASE LifecycleStep
    BY <2>5 DEF LifecycleStep, Crash, Stop, StopOnEvent, StopInAudit, Cleanup,
       StartupRead, StartupSucceeds, StartupRefused, attemptVars
  <2> QED
    BY <2>1, <2>2, <2>3, <2>4, <2>5 DEF Next
<1> QED
  BY <1>1, <1>2

(* The places of OrderLife are the states of the venue that matter to it.   *)
PlaceOf(status) ==
  CASE status = "none" -> "unsent"
    [] status \in {"inflight", "open"} -> "live"
    [] status \in {"refused", "cancelled"} -> "gone"
    [] OTHER -> status

LEMMA Placed ==
  /\ Place = [o \in Orders |-> PlaceOf(venue[o])]
  /\ Place' = [o \in Orders |-> PlaceOf(venue'[o])]
BY DEF Place, PlaceOf

LEMMA Places ==
  ASSUME NEW status \in VenueStatus
  PROVE  /\ PlaceOf(status) = "unsent" <=> status = "none"
         /\ PlaceOf(status) = "live" <=> status \in Live
         /\ PlaceOf(status) = "gone" <=> status \in {"refused", "cancelled"}
         /\ PlaceOf(status) = "filled" <=> status = "filled"
         /\ PlaceOf(status) = "failed" <=> status = "failed"
BY DEF PlaceOf, VenueStatus, Live

LEMMA LifeInit == Init => Life!Init
<1> SUFFICES ASSUME Init PROVE Life!Init
  OBVIOUS
<1>1. Place = [o \in Orders |-> "unsent"]
  BY Placed DEF Init, PlaceOf
<1> QED
  BY <1>1 DEF Init, Life!Init

(* An attempt is written once: its identity is fresh.                       *)
LEMMA WriteLife ==
  ASSUME LifeInv, WriteAhead \/ WriteAheadFails
  PROVE  Life!Write(cur) \/ UNCHANGED Life!vars
<1>1. /\ cur \notin jwal /\ jwal' \in {jwal, jwal \cup {cur}}
      /\ UNCHANGED <<venue, jmap, jterm, clip, bad>>
  BY DEF WriteAhead, WriteAheadFails, venueVars, ledgerVars, LifeInv, RecoveryInv, WrittenAhead
<1>2. Place' = Place
  BY <1>1, Placed
<1> QED
  BY <1>1, <1>2 DEF Life!Write, Life!vars, Life!recordVars

LEMMA SendLife ==
  ASSUME LifeInv, PostOrder
  PROVE  cur \in Orders /\ Life!Send(cur)
<1>1. /\ cur \in Orders /\ cur \in jwal \ jterm /\ venue[cur] = "none"
      /\ UNCHANGED <<jwal, jmap, jterm, clip, bad>>
  BY DEF PostOrder, attemptVars, ledgerVars, LifeInv, RecoveryInv, WrittenAhead, TypeOK, HandlerTyped
<1>2. /\ venue \in [Orders -> VenueStatus] /\ venue' = [venue EXCEPT ![cur] = "inflight"]
  BY DEF PostOrder, LifeInv, RecoveryInv, TypeOK, VenueTyped
<1>3. Place[cur] = "unsent"
  BY <1>1, Placed DEF PlaceOf
<1>4. \A o \in Orders : Place'[o] = IF o = cur THEN "live" ELSE Place[o]
  BY <1>1, <1>2, Placed DEF PlaceOf
<1>5. Place' = [Place EXCEPT ![cur] = "live"]
  BY <1>4, Placed
<1> QED
  BY <1>1, <1>3, <1>5 DEF Life!Send, Life!recordVars

(* Everything else only follows what happens at the venue.                  *)
LEMMA FollowLife ==
  ASSUME LifeInv, TypeOK', [Next]_vars, ~PostOrder, jwal' = jwal
  PROVE  Life!Follow
<1>1. /\ venue \in [Orders -> VenueStatus] /\ venue' \in [Orders -> VenueStatus]
      /\ clip' \in [Orders -> ClipStatus] /\ bad' \subseteq Orders
  BY DEF LifeInv, RecoveryInv, TypeOK, VenueTyped, JournalTyped
<1>2. \A o \in Orders :
        /\ Place[o] = PlaceOf(venue[o]) /\ venue[o] \in VenueStatus
        /\ Place'[o] = PlaceOf(venue'[o]) /\ venue'[o] \in VenueStatus
  BY <1>1, Placed
<1>3. \A o \in Orders : Place'[o] = Place[o] \/ Life!Ends(o)
  <2> SUFFICES ASSUME NEW o \in Orders, venue'[o] # venue[o]
               PROVE  Place'[o] = Place[o] \/ Life!Ends(o)
    BY <1>2
  <2>1. \/ venue[o] = "inflight" /\ venue'[o] \in {"open", "refused"}
        \/ venue[o] = "open" /\ venue'[o] \in {"filled", "cancelled"}
        \/ venue[o] = "filled" /\ venue'[o] = "failed"
    BY StepProgress DEF LifeInv, RecoveryInv, Progress, Forward
  <2>2. CASE venue[o] = "inflight" /\ venue'[o] = "open"
    BY <1>2, <2>2 DEF PlaceOf
  <2>3. CASE \/ venue[o] = "inflight" /\ venue'[o] = "refused"
             \/ venue[o] = "open" /\ venue'[o] \in {"filled", "cancelled"}
    BY <1>2, <2>3, Places DEF Life!Ends, Live
  <2>4. CASE venue[o] = "filled" /\ venue'[o] = "failed"
    BY <1>2, <2>4, Places DEF Life!Ends
  <2> QED
    BY <2>1, <2>2, <2>3, <2>4
<1>4. \A o \in Orders : clip'[o] = clip[o] \/ Life!Advances(o)
  <2> SUFFICES ASSUME NEW o \in Orders PROVE clip'[o] = clip[o] \/ Life!Advances(o)
    OBVIOUS
  <2>1. FillRecorded(o)
    BY RecordsFollow DEF FillsFollow
  <2>2. venue'[o] \in {"filled", "failed"} => Place'[o] \in {"filled", "failed"}
    BY <1>2, Places
  <2> QED
    BY <2>1, <2>2 DEF FillRecorded, Life!Advances
<1>5. Life!Records(jmap', jmap, {o \in Orders : Place'[o] # "unsent"})
  <2>1. jmap \subseteq jmap'
    BY AttemptsKept DEF LifeInv, RecoveryInv
  <2>2. \A o \in jmap' \ jmap : o \in Orders /\ Place'[o] # "unsent"
    BY <1>2, NamedSent, Places DEF LifeInv
  <2> QED
    BY <2>1, <2>2 DEF Life!Records
<1>6. Life!Records(jterm', jterm, {o \in jwal : Place'[o] # "live"})
  <2>1. jterm \subseteq jterm' /\ jwal \subseteq Orders
    BY AttemptsKept DEF LifeInv, RecoveryInv, TypeOK, JournalTyped
  <2>2. \A o \in jterm' \ jterm : o \in jwal /\ Place'[o] # "live"
    BY <1>2, <2>1, RecordsStep, Places DEF LifeInv, RecordsEarned
  <2> QED
    BY <2>1, <2>2 DEF Life!Records
<1>7. Life!Records(bad', bad, {o \in Orders : Place'[o] = "failed"})
  <2>1. bad \subseteq bad' /\ \A o \in bad' \ bad : venue'[o] = "failed"
    BY RecordsFollow DEF FillsFollow
  <2>2. \A o \in bad' \ bad : o \in Orders /\ Place'[o] = "failed"
    BY <1>1, <1>2, <2>1, Places
  <2> QED
    BY <2>1, <2>2 DEF Life!Records
<1>8. Place' = [o \in Orders |-> Place'[o]] /\ clip' = [o \in Orders |-> clip'[o]]
  BY <1>1, Placed
<1> QED
  BY <1>3, <1>4, <1>5, <1>6, <1>7, <1>8 DEF Life!Follow

(* The engine, its journal and the venue implement the life of an order: an *)
(* order is sent once, between its write-ahead record and its terminal      *)
(* record, is closed only while it is not live, and its fill is recorded in *)
(* order and never before there is one, through every lost answer, failed   *)
(* append, crash and start-up.                                              *)
THEOREM LifeRefined == Spec => LifeKept
<1>1. LifeInv /\ TypeOK' /\ [Next]_vars => [Life!Next]_(Life!vars)
  <2> SUFFICES ASSUME LifeInv, TypeOK', [Next]_vars
               PROVE  Life!Next \/ UNCHANGED Life!vars
    BY DEF Life!vars
  <2>1. CASE WriteAhead \/ WriteAheadFails
    <3>1. cur \in Orders
      BY <2>1 DEF WriteAhead, WriteAheadFails, LifeInv, RecoveryInv, TypeOK, HandlerTyped
    <3> QED
      BY <2>1, <3>1, WriteLife DEF Life!Next
  <2>2. CASE PostOrder
    BY <2>2, SendLife DEF Life!Next
  <2>3. CASE ~PostOrder /\ ~WriteAhead /\ ~WriteAheadFails
    BY <2>3, AttemptsKept, FollowLife DEF Life!Next, LifeInv, RecoveryInv
  <2> QED
    BY <2>1, <2>2, <2>3
<1> QED
  BY <1>1, LifeInit, LifeInvariance, TypeCorrect, PTL DEF Spec, LifeKept, Life!Spec
=============================================================================
