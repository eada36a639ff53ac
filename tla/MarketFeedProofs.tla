-------------------------- MODULE MarketFeedProofs --------------------------
(***************************************************************************)
(* A theorem about MarketFeed for any assets, any backlog and any bounds:  *)
(* feed task and event loop always agree on whose turn it is. What a batch *)
(* does to the books is computed by a fold and stays with TLC.             *)
(***************************************************************************)
EXTENDS MarketFeed, SequenceTheorems, SumTheorems

(* A batch of the session the feed task is in.                              *)
Mine(m) == m.type = "events" /\ m.session = session.number

(* The channel holds messages of some kind.                                 *)
Typed ==
  /\ \E M : channel \in Seq(M)
  /\ Len(channel) <= Capacity
  /\ session \in [number : Sessions, up : BOOLEAN] /\ awaiting \in BOOLEAN

(* While the session is up, a batch of it is on its way when one is awaited *)
(* that is not answered, and otherwise none is.                             *)
TurnInv ==
  /\ Typed
  /\ session.up /\ awaiting /\ ack = {} =>
       \E i \in 1..Len(channel) : \A j \in 1..Len(channel) : Mine(channel[j]) <=> j = i
  /\ session.up /\ ~(awaiting /\ ack = {}) => \A i \in 1..Len(channel) : ~Mine(channel[i])
  /\ ~session.up => ~awaiting

-----------------------------------------------------------------------------
(* Posting and taking a message.                                            *)
LEMMA Posted ==
  ASSUME Typed, NEW m, Post(m)
  PROVE  /\ \E M : channel' \in Seq(M)
         /\ Len(channel') = Len(channel) + 1 /\ Len(channel') <= Capacity
         /\ Len(channel) \in Nat
         /\ channel'[Len(channel')] = m
         /\ \A i \in 1..Len(channel) : channel'[i] = channel[i]
<1>1. PICK M : channel \in Seq(M)
  BY DEF Typed
<1>2. channel \in Seq(M \cup {m}) /\ m \in M \cup {m}
  BY <1>1
<1>3. /\ channel' \in Seq(M \cup {m}) /\ Len(channel') = Len(channel) + 1
      /\ \A i \in 1..Len(channel) : channel'[i] = channel[i]
      /\ channel'[Len(channel) + 1] = m
  BY <1>2, AppendProperties DEF Post
<1>4. Len(channel) \in Nat /\ Len(channel) < Capacity /\ Capacity \in Nat
  BY <1>1, FeedAssumption DEF Post
<1> QED
  BY <1>3, <1>4

LEMMA Taken ==
  ASSUME Typed, channel # <<>>, channel' = Tail(channel)
  PROVE  /\ \E M : channel' \in Seq(M)
         /\ Len(channel) \in Nat /\ Len(channel) >= 1
         /\ Len(channel') = Len(channel) - 1 /\ Len(channel') <= Capacity
         /\ Head(channel) = channel[1]
         /\ \A i \in 1..Len(channel') : channel'[i] = channel[i + 1]
<1>1. PICK M : channel \in Seq(M)
  BY DEF Typed
<1>2. /\ Len(channel) \in Nat /\ Len(channel) >= 1
      /\ channel' \in Seq(M) /\ Len(channel') = Len(channel) - 1
      /\ \A i \in 1..Len(channel') : channel'[i] = channel[i + 1]
  BY <1>1, HeadTailProperties
<1>3. Head(channel) = channel[1]
  BY <1>1
<1>4. Len(channel') <= Capacity
  BY <1>2, FeedAssumption DEF Typed
<1> QED
  BY <1>2, <1>3, <1>4

LEMMA InitTurn == Init => TurnInv
<1> SUFFICES ASSUME Init PROVE TurnInv
  OBVIOUS
<1>1. channel \in Seq({}) /\ Len(channel) = 0
  BY DEF Init
<1>2. session \in [number : Sessions, up : BOOLEAN] /\ ~session.up /\ awaiting = FALSE
  BY FeedAssumption DEF Init
<1>3. Len(channel) <= Capacity
  BY <1>1, FeedAssumption
<1>4. \E M : channel \in Seq(M)
  BY <1>1
<1>5. Typed
  BY <1>2, <1>3, <1>4 DEF Typed
<1>6. 1..Len(channel) = {}
  BY <1>1
<1> QED
  BY <1>1, <1>2, <1>4, <1>5, <1>6 DEF TurnInv

-----------------------------------------------------------------------------
LEMMA EndTurn ==
  ASSUME TurnInv, SessionEnds
  PROVE  TurnInv'
<1> DEFINE m == [type |-> "disconnected", session |-> session.number]
<1>1. Post(m) /\ session' = [session EXCEPT !.up = FALSE] /\ awaiting' = FALSE
  BY DEF SessionEnds
<1> HIDE DEF m
<1>2. (\E M : channel' \in Seq(M)) /\ Len(channel') <= Capacity
  BY <1>1, Posted DEF TurnInv
<1>3. session' \in [number : Sessions, up : BOOLEAN] /\ ~session'.up
  BY <1>1 DEF TurnInv, Typed
<1> QED
  BY <1>1, <1>2, <1>3 DEF TurnInv, Typed

(* Nothing is left of a session with the number of the new one.             *)
LEMMA ConnectTurn ==
  ASSUME TurnInv, Connect
  PROVE  TurnInv'
<1>1. PICK n \in Sessions :
        /\ Unused(n) /\ session' = [number |-> n, up |-> TRUE]
        /\ Post([type |-> "connected", session |-> n])
  BY DEF Connect
<1> DEFINE m == [type |-> "connected", session |-> n]
<1>2. ~session.up /\ Post(m) /\ awaiting' = awaiting
  BY <1>1 DEF Connect
<1>3. m.type # "events"
  OBVIOUS
<1> HIDE DEF m
<1>4. /\ \E M : channel' \in Seq(M)
      /\ Len(channel') = Len(channel) + 1 /\ Len(channel') <= Capacity
      /\ Len(channel) \in Nat
      /\ channel'[Len(channel')] = m
      /\ \A i \in 1..Len(channel) : channel'[i] = channel[i]
  BY <1>2, Posted DEF TurnInv
<1>5. \A i \in 1..Len(channel) : channel[i].session # n
  BY <1>1 DEF Unused, TurnInv, Typed
<1>6. session'.number = n /\ session'.up /\ session' \in [number : Sessions, up : BOOLEAN]
  BY <1>1
<1>7. \A i \in 1..Len(channel') : ~Mine(channel[i])'
  <2> TAKE i \in 1..Len(channel')
  <2>1. CASE i = Len(channel')
    BY <2>1, <1>3, <1>4 DEF Mine
  <2>2. CASE i # Len(channel')
    BY <2>2, <1>4, <1>5, <1>6 DEF Mine
  <2> QED BY <2>1, <2>2
<1>8. awaiting' = FALSE
  BY <1>2 DEF TurnInv, Typed
<1> QED
  BY <1>4, <1>6, <1>7, <1>8 DEF TurnInv, Typed

LEMMA RefusedTurn ==
  ASSUME TurnInv, ConnectFails
  PROVE  TurnInv'
<1> DEFINE m == [type |-> "disconnected", session |-> session.number]
<1>1. Post(m) /\ ~session.up /\ UNCHANGED <<session, awaiting, ack>>
  BY DEF ConnectFails, feedVars
<1> HIDE DEF m
<1>2. (\E M : channel' \in Seq(M)) /\ Len(channel') <= Capacity
  BY <1>1, Posted DEF TurnInv
<1> QED
  BY <1>1, <1>2 DEF TurnInv, Typed

LEMMA SendTurn ==
  ASSUME TurnInv, SendBatch
  PROVE  TurnInv'
<1>1. PICK frame : Send(frame)
  BY DEF SendBatch
<1> DEFINE m == [type |-> "events", session |-> session.number, events |-> frame]
<1>2. /\ Post(m) /\ session.up /\ ~awaiting /\ awaiting' = TRUE /\ ack' = {}
      /\ session' = session
  BY <1>1 DEF Send, SendBatch
<1>3. Mine(m)
  BY DEF Mine
<1> HIDE DEF m
<1>4. /\ \E M : channel' \in Seq(M)
      /\ Len(channel') = Len(channel) + 1 /\ Len(channel') <= Capacity
      /\ Len(channel) \in Nat
      /\ channel'[Len(channel')] = m
      /\ \A i \in 1..Len(channel) : channel'[i] = channel[i]
  BY <1>2, Posted DEF TurnInv
<1>5. \A i \in 1..Len(channel) : ~Mine(channel'[i])
  BY <1>2, <1>4 DEF TurnInv
<1>6. \A j \in 1..Len(channel') : Mine(channel'[j]) <=> j = Len(channel')
  BY <1>3, <1>4, <1>5
<1>7. \A j \in 1..Len(channel') : Mine(channel[j])' <=> j = Len(channel')
  BY <1>2, <1>6 DEF Mine
<1>8. Len(channel') \in 1..Len(channel')
  BY <1>4
<1> QED
  BY <1>2, <1>4, <1>7, <1>8 DEF TurnInv, Typed

LEMMA HandleTurn ==
  ASSUME TurnInv, HandleMessage
  PROVE  TurnInv'
<1>1. /\ channel # <<>> /\ channel' = Tail(channel) /\ UNCHANGED <<session, awaiting>>
  BY DEF HandleMessage, feedVars
<1>2. /\ \E M : channel' \in Seq(M)
      /\ Len(channel) \in Nat /\ Len(channel) >= 1
      /\ Len(channel') = Len(channel) - 1 /\ Len(channel') <= Capacity
      /\ Head(channel) = channel[1]
      /\ \A i \in 1..Len(channel') : channel'[i] = channel[i + 1]
  BY <1>1, Taken DEF TurnInv
<1>3. /\ awaiting /\ Mine(channel[1]) => ack' # {}
      /\ ~(awaiting /\ Mine(channel[1])) => ack' = ack
  BY <1>2 DEF HandleMessage, Mine
<1>4. Typed'
  BY <1>1, <1>2 DEF TurnInv, Typed
<1>5. \A i \in 1..Len(channel') : Mine(channel[i])' <=> Mine(channel[i + 1])
  BY <1>1, <1>2 DEF Mine
<1>6. CASE session.up /\ awaiting /\ ack = {}
  <2>1. PICK i \in 1..Len(channel) : \A j \in 1..Len(channel) : Mine(channel[j]) <=> j = i
    BY <1>6 DEF TurnInv
  <2>2. CASE i = 1
    <3>1. ack' # {}
      BY <1>2, <1>3, <1>6, <2>1, <2>2
    <3>2. \A j \in 1..Len(channel') : ~Mine(channel[j])'
      BY <1>2, <1>5, <2>1, <2>2
    <3> QED  BY <1>1, <1>4, <1>6, <3>1, <3>2 DEF TurnInv
  <2>3. CASE i # 1
    <3>1. ack' = {}
      BY <1>2, <1>3, <1>6, <2>1, <2>3
    <3>2. i - 1 \in 1..Len(channel') /\ \A j \in 1..Len(channel') : Mine(channel[j])' <=> j = i - 1
      BY <1>2, <1>5, <2>1, <2>3
    <3> QED  BY <1>1, <1>4, <1>6, <3>1, <3>2 DEF TurnInv
  <2> QED  BY <2>2, <2>3
<1>7. CASE session.up /\ ~(awaiting /\ ack = {})
  <2>1. \A i \in 1..Len(channel) : ~Mine(channel[i])
    BY <1>7 DEF TurnInv
  <2>2. ack' = ack /\ \A i \in 1..Len(channel') : ~Mine(channel[i])'
    BY <1>2, <1>3, <1>5, <2>1
  <2> QED  BY <1>1, <1>4, <1>7, <2>2 DEF TurnInv
<1>8. CASE ~session.up
  BY <1>1, <1>4, <1>8 DEF TurnInv
<1> QED
  BY <1>6, <1>7, <1>8

(* Steps that end a wait or touch neither channel nor wait.                 *)
LEMMA SameTurn ==
  ASSUME TurnInv, UNCHANGED <<channel, session, awaiting, ack>>
  PROVE  TurnInv'
BY DEF TurnInv, Typed, Mine

LEMMA CompletedTurn ==
  ASSUME TurnInv, session.up, awaiting, ack # {}, awaiting' = FALSE, UNCHANGED <<channel, session>>
  PROVE  TurnInv'
BY DEF TurnInv, Typed, Mine

LEMMA NextTurn == TurnInv /\ [Next]_vars => TurnInv'
<1> SUFFICES ASSUME TurnInv, [Next]_vars PROVE TurnInv'
  OBVIOUS
<1>1. ASSUME NEW a \in Assets,
             VenueChanges(a) \/ VenueTickChanges(a) \/ VenueTurns(a) \/ VenueResolves(a) \/ VenueErrs(a)
      PROVE  TurnInv'
  BY <1>1, SameTurn DEF VenueChanges, VenueTickChanges, VenueTurns, VenueResolves, VenueErrs, feedVars
<1>2. CASE Connect
  BY <1>2, ConnectTurn
<1>3. CASE ConnectFails
  BY <1>3, RefusedTurn
<1>4. CASE SendBatch
  BY <1>4, SendTurn
<1>5. CASE ReadAhead
  BY <1>5, SameTurn, EndTurn DEF ReadAhead
<1>6. CASE BatchCompletes
  <2>1. CASE SessionEnds
    BY <2>1, EndTurn
  <2>2. CASE ~SessionEnds
    BY <1>6, <2>2, CompletedTurn DEF BatchCompletes
  <2> QED  BY <2>1, <2>2
<1>7. CASE ConnectionLost
  BY <1>7, EndTurn DEF ConnectionLost
<1>8. CASE HandleMessage
  BY <1>8, HandleTurn
<1>9. CASE CatalogRead \/ InstallCatalog \/ UNCHANGED vars
  BY <1>9, SameTurn DEF CatalogRead, InstallCatalog, vars, feedVars
<1> QED
  BY <1>1, <1>2, <1>3, <1>4, <1>5, <1>6, <1>7, <1>8, <1>9 DEF Next

(* While a session is up and a batch is unacknowledged, exactly one side    *)
(* has the turn: either the batch is in the channel and the loop is to      *)
(* answer it, or the answer is there and no batch is                        *)
(* (await_market_batch_completion against handle_market_message).           *)
THEOREM OneTurn == Spec => []OneBatch
<1>1. TurnInv => OneBatch
  <2> SUFFICES ASSUME TurnInv, session.up, awaiting
               PROVE  \/ ack # {} /\ Outstanding = {}
                      \/ ack = {} /\ \E i \in DOMAIN channel : Outstanding = {i}
    BY DEF OneBatch
  <2>1. DOMAIN channel = 1..Len(channel)
    BY DEF TurnInv, Typed
  <2>2. Outstanding = {i \in 1..Len(channel) : Mine(channel[i])}
    BY <2>1 DEF Outstanding, Mine
  <2>3. CASE ack = {}
    <3>1. PICK i \in 1..Len(channel) : \A j \in 1..Len(channel) : Mine(channel[j]) <=> j = i
      BY <2>3 DEF TurnInv
    <3>2. Outstanding = {i}
      BY <2>2, <3>1
    <3> QED  BY <2>1, <2>3, <3>2
  <2>4. CASE ack # {}
    BY <2>2, <2>4 DEF TurnInv
  <2> QED  BY <2>3, <2>4
<1> QED
  BY <1>1, InitTurn, NextTurn, PTL DEF Spec

-----------------------------------------------------------------------------
(* A batch, event after event: there is a function that gives the outcomes  *)
(* after the first events, and what every event keeps the batch keeps.      *)
Afterwards(events, n, after) ==
  [i \in 0..Len(events) |->
     IF i = 0 \/ ~installed THEN {Start} ELSE HandledAll(after[i - 1], events[i], n)]
UpTo(events, n, after, k) ==
  \A i \in 0..k : after[i] = IF i = 0 \/ ~installed THEN {Start}
                             ELSE HandledAll(after[i - 1], events[i], n)

LEMMA LeastIn ==
  ASSUME NEW N \in Nat, NEW B \in SUBSET (0..N), B # {}
  PROVE  \E i \in B : \A j \in B : i <= j
<1> DEFINE f == [i \in B |-> -i]
<1>1. IsFiniteSet(B)
  <2>1. 0 \in Int /\ N \in Int
    OBVIOUS
  <2>2. IsFiniteSet(0..N)
    BY ONLY <2>1, FS_Interval
  <2> QED  BY <2>2, FS_Subset
<1>2. \A i \in B : f[i] \in Int /\ f[i] = -i
  OBVIOUS
<1>3. PICK i \in B : \A j \in B : f[j] <= f[i]
  BY ONLY <1>1, <1>2, B # {}, LargestElement
<1> QED
  BY <1>2, <1>3

LEMMA UpToExists ==
  ASSUME NEW events, Len(events) \in Nat, NEW n
  PROVE  \E after : after = [i \in 0..Len(events) |-> after[i]] /\ UpTo(events, n, after, Len(events))
<1> DEFINE N == Len(events)
           B == {k \in 0..N : ~\E after : UpTo(events, n, after, k)}
<1>1. B = {}
  <2> SUFFICES ASSUME B # {} PROVE FALSE
    OBVIOUS
  <2>1. PICK k \in B : \A j \in B : k <= j
    BY LeastIn
  <2>2. CASE k = 0
    <3>1. UpTo(events, n, [i \in 0..0 |-> {Start}], 0)
      BY DEF UpTo
    <3> QED  BY <2>2, <3>1
  <2>3. CASE k # 0
    <3>1. k - 1 \in 0..N /\ k - 1 \notin B
      BY <2>1, <2>3
    <3>2. PICK g : UpTo(events, n, g, k - 1)
      BY <3>1
    <3> DEFINE last == IF ~installed THEN {Start} ELSE HandledAll(g[k - 1], events[k], n)
               h == [i \in 0..k |-> IF i = k THEN last ELSE g[i]]
    <3>3. h[k] = last /\ \A i \in 0..k - 1 : h[i] = g[i]
      OBVIOUS
    <3> HIDE DEF h
    <3>4. UpTo(events, n, h, k)
      <4> SUFFICES ASSUME NEW i \in 0..k
                   PROVE  h[i] = IF i = 0 \/ ~installed THEN {Start}
                                 ELSE HandledAll(h[i - 1], events[i], n)
        BY DEF UpTo
      <4>1. CASE i = k
        <5>1. k - 1 \in 0..k - 1
          BY <2>3
        <5> QED  BY <2>3, <3>3, <4>1, <5>1
      <4>2. CASE i # k
        <5>1. i \in 0..k - 1 /\ (i # 0 => i - 1 \in 0..k - 1)
          BY <4>2
        <5> QED  BY <3>2, <3>3, <5>1 DEF UpTo
      <4> QED  BY <4>1, <4>2
    <3> QED  BY <3>4
  <2> QED  BY <2>2, <2>3
<1>2. PICK g : UpTo(events, n, g, N)
  BY <1>1
<1> DEFINE h == [i \in 0..N |-> g[i]]
<1>3. \A i \in 0..N : h[i] = g[i]
  OBVIOUS
<1>4. h = [i \in 0..N |-> h[i]]
  OBVIOUS
<1> HIDE DEF h
<1>5. UpTo(events, n, h, N)
  <2> SUFFICES ASSUME NEW i \in 0..N
               PROVE  h[i] = IF i = 0 \/ ~installed THEN {Start}
                             ELSE HandledAll(h[i - 1], events[i], n)
    BY DEF UpTo
  <2>1. i # 0 => i - 1 \in 0..N
    OBVIOUS
  <2> QED  BY <1>2, <1>3, <2>1 DEF UpTo
<1> QED
  BY <1>4, <1>5

LEMMA BatchUnfolds ==
  ASSUME NEW events, Len(events) \in Nat, NEW n
  PROVE  \E after : UpTo(events, n, after, Len(events)) /\ Batch(events, n) = after[Len(events)]
<1> DEFINE a == CHOOSE after : after = Afterwards(events, n, after)
<1>1. \E after : after = Afterwards(events, n, after)
  <2>1. PICK after : /\ after = [i \in 0..Len(events) |-> after[i]]
                     /\ UpTo(events, n, after, Len(events))
    BY UpToExists
  <2>2. after = Afterwards(events, n, after)
    BY <2>1 DEF UpTo, Afterwards
  <2> QED  BY <2>2
<1>2. a = Afterwards(events, n, a)
  BY <1>1
<1>3. Batch(events, n) = a[Len(events)]
  BY DEF Batch, Afterwards
<1> HIDE DEF a
<1>4. UpTo(events, n, a, Len(events))
  BY <1>2 DEF UpTo, Afterwards
<1> QED
  BY <1>3, <1>4

LEMMA BatchStays ==
  ASSUME NEW events, events \in Seq(Event), NEW n, NEW S, Start \in S,
         \A s \in S, e \in Event : Handled(s, e, n) \subseteq S
  PROVE  Batch(events, n) \subseteq S
<1>1. Len(events) \in Nat /\ \A i \in 1..Len(events) : events[i] \in Event
  OBVIOUS
<1>2. PICK after : UpTo(events, n, after, Len(events)) /\ Batch(events, n) = after[Len(events)]
  BY <1>1, BatchUnfolds
<1> DEFINE B == {k \in 0..Len(events) : ~(after[k] \subseteq S)}
<1>3. B = {}
  <2> SUFFICES ASSUME B # {} PROVE FALSE
    OBVIOUS
  <2>1. PICK k \in B : \A j \in B : k <= j
    BY <1>1, LeastIn
  <2>2. CASE k = 0 \/ ~installed
    BY <1>2, <2>2 DEF UpTo
  <2>3. CASE k # 0 /\ installed
    <3>1. k - 1 \in 0..Len(events) /\ k - 1 \notin B /\ events[k] \in Event
      BY <1>1, <2>1, <2>3
    <3>2. after[k] = HandledAll(after[k - 1], events[k], n)
      BY <1>2, <2>3 DEF UpTo
    <3> QED  BY <3>1, <3>2 DEF HandledAll
  <2> QED  BY <2>2, <2>3
<1> QED
  BY <1>1, <1>2, <1>3

-----------------------------------------------------------------------------
(* What a batch of session n leaves: books, and tradeable ones only if they *)
(* are of that session and missed nothing.                                  *)
Book == [tick : Ticks, tradeable : BOOLEAN, session : Sessions, spoilt : BOOLEAN]
State == [books : [Assets -> Book], repairing : SUBSET Assets, invalid : SUBSET Assets]

Sound(b, n) == b.tradeable => b.session = n /\ ~b.spoilt
SoundState(n) == {s \in State : \A a \in Assets : Sound(s.books[a], n)}

LEMMA EventTyped ==
  ASSUME NEW e \in Event
  PROVE  /\ e.kind \in {"book", "half", "delta", "resolved", "refused", "tick"}
         /\ e.asset \in Assets /\ e.tick \in Ticks /\ (e.kind = "tick" => e.old \in Ticks)
BY DEF Event

LEMMA AppliedFacts ==
  ASSUME NEW b \in Book, NEW e \in Event, NEW n \in Sessions, NEW r \in Applied(b, e, n)
  PROVE  r.book \in Book /\ (Sound(b, n) => Sound(r.book, n))
<1>1. e.kind \in {"book", "half", "delta", "resolved", "refused", "tick"} /\ e.tick \in Ticks
  BY EventTyped
<1>2. Locked(b) \in Book /\ ~Locked(b).tradeable
  BY FeedAssumption DEF Locked, Book
<1>3. CASE e.kind \in {"book", "half"}
  <2>1. \/ r.book = [b EXCEPT !.tradeable = TRUE, !.session = n, !.spoilt = FALSE]
        \/ r.book = Locked(b)
    BY <1>3 DEF Applied
  <2> QED  BY <1>2, <2>1 DEF Book, Sound
<1>4. CASE e.kind = "delta"
  <2>1. \/ r.book = [b EXCEPT !.spoilt = b.spoilt \/ b.session # n]
        \/ r.book = Locked(b)
    BY <1>4 DEF Applied
  <2>2. CASE r.book = Locked(b)
    BY <1>2, <2>2 DEF Sound
  <2>3. CASE r.book = [b EXCEPT !.spoilt = b.spoilt \/ b.session # n]
    <3>1. r.book \in Book /\ r.book.tradeable = b.tradeable /\ r.book.session = b.session
      BY <2>3 DEF Book
    <3>2. r.book.spoilt = (b.spoilt \/ b.session # n)
      BY <2>3 DEF Book
    <3> QED  BY <3>1, <3>2 DEF Sound
  <2> QED  BY <2>1, <2>2, <2>3
<1>5. CASE e.kind = "tick"
  <2>1. r.book = [Locked(b) EXCEPT !.tick = IF Locked(b).tick = e.old THEN e.tick ELSE Locked(b).tick]
    BY <1>5 DEF Applied
  <2>2. r.book \in Book /\ ~r.book.tradeable
    BY <1>1, <1>2, <2>1 DEF Book
  <2> QED  BY <2>2 DEF Sound
<1>6. CASE e.kind \in {"resolved", "refused"}
  <2>1. r.book = Locked(b)
    BY <1>6 DEF Applied
  <2> QED  BY <1>2, <2>1 DEF Sound
<1> QED
  BY <1>1, <1>3, <1>4, <1>5, <1>6

LEMMA HandledFacts ==
  ASSUME NEW s \in State, NEW e \in Event, NEW n \in Sessions, NEW t \in Handled(s, e, n)
  PROVE  t \in State /\ (s \in SoundState(n) => t \in SoundState(n))
<1> DEFINE a == e.asset
<1>1. a \in Assets /\ s.books[a] \in Book
  BY EventTyped DEF State
<1>2. PICK r \in Applied(s.books[a], e, n) :
        t \in LET u == [s EXCEPT !.books[a] = r.book] IN {u, Marked(u, a), Cleared(u, a)}
  BY DEF Handled
<1>3. r.book \in Book /\ (Sound(s.books[a], n) => Sound(r.book, n))
  BY <1>1, AppliedFacts
<1> HIDE DEF a
<1>4. PICK u : u = [s EXCEPT !.books[a] = r.book]
  OBVIOUS
<1>5. u.books = [s.books EXCEPT ![a] = r.book]
      /\ u.repairing = s.repairing /\ u.invalid = s.invalid /\ u \in State
  BY <1>1, <1>3, <1>4 DEF State
<1>6. t \in {u, Marked(u, a), Cleared(u, a)}
  BY <1>2, <1>4
<1>7. t \in State /\ t.books = u.books
  <2>1. CASE t = Marked(u, a)
    BY <1>1, <1>5, <2>1 DEF State, Marked
  <2>2. CASE t = Cleared(u, a)
    BY <1>5, <2>2 DEF State, Cleared
  <2> QED  BY <1>5, <1>6, <2>1, <2>2
<1>8. \A c \in Assets : t.books[c] = IF c = a THEN r.book ELSE s.books[c]
  BY <1>1, <1>5, <1>7 DEF State
<1> QED
  BY <1>1, <1>3, <1>7, <1>8 DEF SoundState

LEMMA BatchFacts ==
  ASSUME NEW events \in Seq(Event), NEW n \in Sessions, Start \in State,
         NEW s \in Batch(events, n)
  PROVE  s \in State /\ (Start \in SoundState(n) => s \in SoundState(n))
<1>1. \A u \in State, e \in Event : Handled(u, e, n) \subseteq State
  BY HandledFacts
<1>2. \A u \in SoundState(n), e \in Event : Handled(u, e, n) \subseteq SoundState(n)
  BY HandledFacts DEF SoundState
<1>3. Batch(events, n) \subseteq State
  BY <1>1, BatchStays
<1>4. Start \in SoundState(n) => Batch(events, n) \subseteq SoundState(n)
  BY <1>2, BatchStays
<1> QED
  BY <1>3, <1>4

-----------------------------------------------------------------------------
(* Types.                                                                   *)
LEMMA SnapshotTyped == ASSUME TypeOK PROVE Snapshot \in Seq(Event)
<1> DEFINE rec(a) == SnapshotOf(a)
           S == {rec(a) : a \in Assets}
           f == [a \in Assets |-> rec(a)]
<1>1. S \subseteq Event
  BY DEF TypeOK, Event, SnapshotOf
<1>2. IsFiniteSet(S)
  <2>1. f \in Surjection(Assets, S)
    BY DEF Surjection
  <2> HIDE DEF f, S
  <2>2. IsFiniteSet(Assets)
    BY FeedAssumption
  <2> QED  BY ONLY <2>1, <2>2, FS_Surjection
<1> HIDE DEF f
<1>3. Snapshot = CHOOSE g \in [1..Cardinality(S) -> S] : IsInjective(g)
  BY DEF Snapshot, SetToSeq
<1> HIDE DEF S
<1>4. Cardinality(S) \in Nat /\ \E g \in [1..Cardinality(S) -> S] : IsInjective(g)
  <2>1. Cardinality(S) \in Nat /\ ExistsBijection(1..Cardinality(S), S)
    BY <1>2, FS_CardinalityType
  <2>2. PICK g : g \in Bijection(1..Cardinality(S), S)
    BY <2>1 DEF ExistsBijection
  <2>3. g \in [1..Cardinality(S) -> S] /\ IsInjective(g)
    BY <2>2 DEF Bijection, Injection, IsInjective
  <2> QED  BY <2>1, <2>3
<1>5. Snapshot \in [1..Cardinality(S) -> S]
  BY <1>3, <1>4
<1>6. Snapshot \in Seq(S)
  BY <1>4, <1>5
<1> QED
  BY <1>1, <1>6

LEMMA EmitTyped ==
  ASSUME TypeOK, NEW e \in Event, Emit(e)
  PROVE  wire' \in Seq(Seq(Event))
<1>0. wire \in Seq(Seq(Event))
  BY DEF TypeOK
<1>1. <<e>> \in Seq(Event)
  OBVIOUS
<1>2. CASE wire' = Append(wire, <<e>>)
  BY <1>0, <1>1, <1>2
<1>3. CASE wire # <<>> /\ wire' = [wire EXCEPT ![Len(wire)] = Append(wire[Len(wire)], e)]
  <2>1. Len(wire) \in 1..Len(wire)
    BY <1>0, <1>3
  <2>2. wire[Len(wire)] \in Seq(Event)
    BY <1>0, <2>1
  <2>3. PICK last : last = Append(wire[Len(wire)], e)
    OBVIOUS
  <2>4. wire' = [wire EXCEPT ![Len(wire)] = last]
    BY <1>3, <2>3
  <2>5. last \in Seq(Event)
    BY ONLY <2>2, <2>3, e \in Event, AppendProperties
  <2>6. [wire EXCEPT ![Len(wire)] = last] \in Seq(Seq(Event))
    BY ONLY <1>0, <2>1, <2>5, ExceptSeq
  <2> QED  BY <2>4, <2>6
<1> QED
  BY <1>2, <1>3 DEF Emit

LEMMA PostTyped ==
  ASSUME TypeOK, NEW m \in Message, Post(m)
  PROVE  channel' \in Seq(Message) /\ Len(channel') <= Capacity
BY FeedAssumption DEF TypeOK, Post

LEMMA TailTyped ==
  ASSUME NEW S, NEW s \in Seq(S), s # <<>>
  PROVE  Head(s) \in S /\ Tail(s) \in Seq(S) /\ Len(Tail(s)) = Len(s) - 1 /\ Len(s) \in Nat \ {0}
OBVIOUS

LEMMA EndTyped ==
  ASSUME TypeOK, SessionEnds,
         UNCHANGED <<venueTick, resolved, oneSided, engineVars, catalog, ticks>>, faults' \in 0..MaxFaults
  PROVE  TypeOK'
<1>1. session.number \in Sessions /\ [type |-> "disconnected", session |-> session.number] \in Message
  BY DEF TypeOK, Message
<1>2. channel' \in Seq(Message) /\ Len(channel') <= Capacity
  BY <1>1, PostTyped DEF SessionEnds
<1>3. /\ wire' = <<>> /\ pending' = <<>> /\ awaiting' = FALSE /\ ack' = {}
      /\ session' \in [number : Sessions, up : BOOLEAN]
  BY DEF SessionEnds, TypeOK
<1>4. wire' \in Seq(Seq(Event)) /\ pending' \in Seq(Seq(Event)) /\ Len(pending') <= MaxPending
  BY <1>3, FeedAssumption
<1> QED
  BY <1>2, <1>3, <1>4 DEF TypeOK, engineVars

LEMMA InitTyped == Init => TypeOK
<1> SUFFICES ASSUME Init PROVE TypeOK
  OBVIOUS
<1>1. /\ venueTick \in [Assets -> Ticks] /\ books \in [Assets -> Book]
      /\ session \in [number : Sessions, up : BOOLEAN]
  BY FeedAssumption DEF Init, Ticks, Book
<1>2. /\ wire \in Seq(Seq(Event)) /\ pending \in Seq(Seq(Event)) /\ channel \in Seq(Message)
      /\ Len(pending) <= MaxPending /\ Len(channel) <= Capacity
  BY FeedAssumption DEF Init
<1>3. MaxTicks \in Nat /\ MaxFaults \in Nat
  BY FeedAssumption
<1>4. /\ resolved \subseteq Assets /\ oneSided \subseteq Assets /\ awaiting \in BOOLEAN /\ ack \subseteq SUBSET Assets
      /\ installed \in BOOLEAN /\ repairing \subseteq Assets /\ catalog \subseteq [Assets -> Ticks]
      /\ ticks \in 0..MaxTicks /\ faults \in 0..MaxFaults
  <2>1. ticks = 0 /\ faults = 0 /\ 0 \in 0..MaxTicks /\ 0 \in 0..MaxFaults
    BY <1>3 DEF Init
  <2>2. /\ resolved = {} /\ oneSided \subseteq Assets /\ ack = {} /\ repairing = {} /\ catalog = {} /\ awaiting = FALSE
        /\ installed \in BOOLEAN
    BY DEF Init
  <2> QED  BY <2>1, <2>2
<1> QED
  BY <1>1, <1>2, <1>4 DEF TypeOK, Book

LEMMA VenueTyped ==
  ASSUME TypeOK, NEW a \in Assets,
         VenueChanges(a) \/ VenueTickChanges(a) \/ VenueTurns(a) \/ VenueResolves(a) \/ VenueErrs(a)
  PROVE  TypeOK'
<1>0. venueTick[a] \in Ticks /\ 1 - venueTick[a] \in Ticks
  BY DEF TypeOK, Ticks
<1>1. /\ \A kind \in {"book", "half", "delta", "resolved", "refused"} :
            [kind |-> kind, asset |-> a, tick |-> venueTick[a]] \in Event
      /\ [kind |-> "tick", asset |-> a, old |-> venueTick[a], tick |-> 1 - venueTick[a]] \in Event
      /\ SnapshotOf(a) \in Event /\ Delta(a) \in Event
  BY <1>0 DEF Event, SnapshotOf, Delta
<1>2. wire' \in Seq(Seq(Event))
  <2>1. CASE UNCHANGED wire
    BY <2>1 DEF TypeOK
  <2>2. CASE ~UNCHANGED wire
    <3>1. \E e \in Event : Emit(e)
      BY <1>1, <2>2 DEF VenueChanges, VenueTickChanges, VenueTurns, VenueResolves, VenueErrs
    <3> QED  BY <3>1, EmitTyped
  <2> QED  BY <2>1, <2>2
<1>3. venueTick' \in [Assets -> Ticks] /\ resolved' \subseteq Assets /\ oneSided' \subseteq Assets
  <2>1. venueTick' = venueTick \/ venueTick' = [venueTick EXCEPT ![a] = 1 - venueTick[a]]
    BY DEF VenueChanges, VenueTickChanges, VenueTurns, VenueResolves, VenueErrs
  <2>2. resolved' \in {resolved, resolved \cup {a}}
    BY DEF VenueChanges, VenueTickChanges, VenueTurns, VenueResolves, VenueErrs
  <2>3. venueTick \in [Assets -> Ticks] /\ resolved \subseteq Assets /\ oneSided \subseteq Assets
    BY DEF TypeOK
  <2>4. oneSided' \subseteq oneSided \cup {a}
    BY DEF VenueChanges, VenueTickChanges, VenueTurns, VenueResolves, VenueErrs, SymDiff
  <2> QED  BY <1>0, <2>1, <2>2, <2>3, <2>4
<1>4. ticks' \in 0..MaxTicks /\ faults' \in 0..MaxFaults
  <2>1. ticks' = ticks \/ (ticks < MaxTicks /\ ticks' = ticks + 1)
    BY DEF VenueChanges, VenueTickChanges, VenueTurns, VenueResolves, VenueErrs
  <2>2. faults' = faults \/ (faults < MaxFaults /\ faults' = faults + 1)
    BY DEF VenueChanges, VenueTickChanges, VenueTurns, VenueResolves, VenueErrs
  <2> QED  BY <2>1, <2>2, FeedAssumption DEF TypeOK
<1>5. UNCHANGED <<feedVars, ack, channel, engineVars, catalog>>
  BY DEF VenueChanges, VenueTickChanges, VenueTurns, VenueResolves, VenueErrs
<1> QED
  BY <1>2, <1>3, <1>4, <1>5 DEF TypeOK, feedVars, engineVars

LEMMA MessageTyped ==
  ASSUME NEW m \in Message
  PROVE  /\ m.type \in {"connected", "disconnected", "events"} /\ m.session \in Sessions
         /\ m.type = "events" => m.events \in Seq(Event)
BY DEF Message

LEMMA FeedTyped ==
  ASSUME TypeOK, Connect \/ ConnectFails \/ SendBatch \/ ReadAhead \/ BatchCompletes \/ ConnectionLost
  PROVE  TypeOK'
<1>0. MaxFaults \in Nat /\ session.number \in Sessions /\ faults \in 0..MaxFaults
  BY FeedAssumption DEF TypeOK
<1>1. CASE Connect
  <2>1. PICK n \in Sessions : /\ session' = [number |-> n, up |-> TRUE]
                              /\ Post([type |-> "connected", session |-> n])
    BY <1>1 DEF Connect
  <2>2. [type |-> "connected", session |-> n] \in Message
    BY DEF Message
  <2>3. channel' \in Seq(Message) /\ Len(channel') <= Capacity
    BY <2>1, <2>2, PostTyped
  <2>4. wire' = <<Snapshot>> /\ Snapshot \in Seq(Event)
    BY <1>1, SnapshotTyped DEF Connect
  <2>5. wire' \in Seq(Seq(Event))
    BY <2>4
  <2>6. session' \in [number : Sessions, up : BOOLEAN]
    BY <2>1
  <2> QED  BY <1>1, <2>3, <2>5, <2>6 DEF Connect, TypeOK, engineVars
<1>2. CASE ConnectFails
  <2>1. [type |-> "disconnected", session |-> session.number] \in Message
    BY <1>0 DEF Message
  <2>2. channel' \in Seq(Message) /\ Len(channel') <= Capacity
    BY <1>2, <2>1, PostTyped DEF ConnectFails
  <2>3. faults' \in 0..MaxFaults
    BY <1>0, <1>2 DEF ConnectFails
  <2> QED  BY <1>2, <2>2, <2>3 DEF ConnectFails, TypeOK, venueVars, feedVars, engineVars
<1>3. CASE SendBatch
  <2>0. wire \in Seq(Seq(Event)) /\ pending \in Seq(Seq(Event)) /\ Len(pending) <= MaxPending
        /\ MaxPending \in Nat
    BY FeedAssumption DEF TypeOK
  <2>1. PICK frame : Send(frame) /\ \/ /\ pending # <<>> /\ frame = Head(pending)
                                       /\ pending' = Tail(pending) /\ wire' = wire
                                    \/ /\ wire # <<>> /\ frame = Head(wire)
                                       /\ wire' = Tail(wire) /\ pending' = pending
    BY <1>3 DEF SendBatch
  <2>2. /\ frame \in Seq(Event) /\ wire' \in Seq(Seq(Event)) /\ pending' \in Seq(Seq(Event))
        /\ Len(pending') <= MaxPending
    <3>1. CASE pending # <<>> /\ frame = Head(pending) /\ pending' = Tail(pending) /\ wire' = wire
      <4>1. frame \in Seq(Event) /\ pending' \in Seq(Seq(Event)) /\ Len(pending') = Len(pending) - 1
            /\ Len(pending) \in Nat
        BY ONLY <2>0, <3>1, TailTyped
      <4> QED  BY <2>0, <3>1, <4>1
    <3>2. CASE wire # <<>> /\ frame = Head(wire) /\ wire' = Tail(wire) /\ pending' = pending
      <4>1. frame \in Seq(Event) /\ wire' \in Seq(Seq(Event))
        BY ONLY <2>0, <3>2, TailTyped
      <4> QED  BY <2>0, <3>2, <4>1
    <3> QED  BY <2>1, <3>1, <3>2
  <2>3. [type |-> "events", session |-> session.number, events |-> frame] \in Message
    BY <1>0, <2>2 DEF Message
  <2>4. channel' \in Seq(Message) /\ Len(channel') <= Capacity
    BY <2>1, <2>3, PostTyped DEF Send
  <2>5. awaiting' = TRUE /\ ack' = {}
    BY <2>1 DEF Send
  <2> QED  BY <1>3, <2>2, <2>4, <2>5 DEF SendBatch, TypeOK, engineVars
<1>4. CASE ReadAhead
  <2>1. CASE SessionEnds
    BY <1>0, <1>4, <2>1, EndTyped DEF ReadAhead
  <2>2. CASE ~SessionEnds
    <3>1. /\ wire \in Seq(Seq(Event)) /\ pending \in Seq(Seq(Event)) /\ MaxPending \in Nat
          /\ wire # <<>> /\ Len(pending) < MaxPending
          /\ pending' = Append(pending, Head(wire)) /\ wire' = Tail(wire)
      BY <1>4, <2>2, FeedAssumption DEF ReadAhead, HasRoom, TypeOK
    <3>2. Head(wire) \in Seq(Event) /\ wire' \in Seq(Seq(Event))
      BY ONLY <3>1, TailTyped
    <3>3. pending' \in Seq(Seq(Event)) /\ Len(pending') <= MaxPending
      BY <3>1, <3>2, AppendProperties
    <3> QED  BY <1>4, <2>2, <3>2, <3>3 DEF ReadAhead, TypeOK, engineVars
  <2> QED  BY <2>1, <2>2
<1>5. CASE BatchCompletes
  <2>1. CASE SessionEnds
    BY <1>0, <1>5, <2>1, EndTyped DEF BatchCompletes
  <2>2. CASE ~SessionEnds
    BY <1>5, <2>2 DEF BatchCompletes, TypeOK, engineVars
  <2> QED  BY <2>1, <2>2
<1>6. CASE ConnectionLost
  <2>1. faults' \in 0..MaxFaults
    BY <1>0, <1>6 DEF ConnectionLost
  <2> QED  BY <1>6, <2>1, EndTyped DEF ConnectionLost
<1> QED
  BY <1>1, <1>2, <1>3, <1>4, <1>5, <1>6

(* What the event loop does with the message at the head of the channel.    *)
LEMMA HandledMessage ==
  ASSUME TypeOK, HandleMessage
  PROVE  LET m == Head(channel)
         IN /\ channel # <<>> /\ channel' = Tail(channel) /\ m \in Message
            /\ channel' \in Seq(Message) /\ Len(channel') <= Capacity
            /\ books' \in [Assets -> Book] /\ repairing' \subseteq Assets /\ installed' = installed
            /\ ack' \subseteq SUBSET Assets
            /\ \/ m.type = "connected" /\ books' = books
               \/ m.type = "disconnected" /\ books' = AllLocked
               \/ /\ m.type = "events"
                  /\ (\A a \in Assets : Sound(books[a], m.session)) =>
                       \A a \in Assets : Sound(books'[a], m.session)
<1>1. channel # <<>> /\ channel' = Tail(channel) /\ channel \in Seq(Message)
      /\ Len(channel) <= Capacity
  BY DEF HandleMessage, TypeOK
<1>2. PICK m : m = Head(channel)
  OBVIOUS
<1>3. m \in Message /\ channel' \in Seq(Message) /\ Len(channel') = Len(channel) - 1
      /\ Len(channel) \in Nat
  BY ONLY <1>1, <1>2, TailTyped
<1>4. Len(channel') <= Capacity
  BY <1>1, <1>3, FeedAssumption
<1>5. books \in [Assets -> Book] /\ repairing \subseteq Assets /\ ack \subseteq SUBSET Assets
  BY DEF TypeOK, Book
<1>6. CASE m.type = "connected"
  BY <1>1, <1>2, <1>3, <1>4, <1>5, <1>6 DEF HandleMessage, engineVars
<1>7. CASE m.type = "disconnected"
  <2>1. books' = AllLocked /\ UNCHANGED <<installed, repairing, ack>>
    BY <1>2, <1>7 DEF HandleMessage
  <2>2. AllLocked \in [Assets -> Book]
    <3>1. \A a \in Assets : books[a] \in Book => Locked(books[a]) \in Book
      BY FeedAssumption DEF Locked, Book
    <3>2. \A a \in Assets : books[a] \in Book
      BY <1>5
    <3> QED  BY <3>1, <3>2 DEF AllLocked
  <2> QED  BY <1>1, <1>2, <1>3, <1>4, <1>5, <1>7, <2>1, <2>2
<1>8. CASE m.type = "events"
  <2>1. PICK s \in Batch(m.events, m.session) :
          /\ books' = s.books /\ repairing' = s.repairing /\ installed' = installed
          /\ ack' = IF awaiting /\ session.number = m.session THEN {Unresolved(s)} ELSE ack
    BY <1>2, <1>8 DEF HandleMessage
  <2>2. Start \in State /\ Start.books = books
    BY <1>5 DEF Start, State
  <2>3. m.events \in Seq(Event) /\ m.session \in Sessions
    BY <1>3, <1>8, MessageTyped
  <2>4. s \in State /\ (Start \in SoundState(m.session) => s \in SoundState(m.session))
    BY ONLY <2>1, <2>2, <2>3, BatchFacts
  <2>5. books' \in [Assets -> Book] /\ repairing' \subseteq Assets /\ Unresolved(s) \subseteq Assets
    BY <2>1, <2>4 DEF State, Unresolved
  <2>6. ack' \subseteq SUBSET Assets
    BY <1>5, <2>1, <2>5
  <2>7. (\A a \in Assets : Sound(books[a], m.session)) =>
          \A a \in Assets : Sound(books'[a], m.session)
    BY <2>1, <2>2, <2>4 DEF SoundState
  <2> QED  BY <1>1, <1>2, <1>3, <1>4, <1>8, <2>1, <2>5, <2>6, <2>7
<1> QED
  BY <1>3, <1>6, <1>7, <1>8, MessageTyped

LEMMA InstallFacts ==
  ASSUME TypeOK, InstallCatalog
  PROVE  books' \in [Assets -> Book] /\ \A a \in Assets : \A n : Sound(books[a], n) => Sound(books'[a], n)
<1>1. PICK c \in [Assets -> Ticks] :
        books' = [a \in Assets |-> IF books[a].tick = c[a] THEN books[a]
                                   ELSE [Locked(books[a]) EXCEPT !.tick = c[a]]]
  BY DEF InstallCatalog, TypeOK
<1>2. ASSUME NEW a \in Assets
      PROVE  books'[a] \in Book /\ (books'[a] # books[a] => ~books'[a].tradeable)
  <2>1. books[a] \in Book /\ c[a] \in Ticks
    BY <1>1 DEF TypeOK, Book
  <2>2. books'[a] = IF books[a].tick = c[a] THEN books[a] ELSE [Locked(books[a]) EXCEPT !.tick = c[a]]
    BY <1>1
  <2> QED  BY <2>1, <2>2, FeedAssumption DEF Locked, Book
<1>3. books' = [a \in Assets |-> books'[a]]
  BY <1>1
<1> QED
  BY <1>2, <1>3 DEF Sound

LEMMA NextTyped == TypeOK /\ [Next]_vars => TypeOK'
<1> SUFFICES ASSUME TypeOK, [Next]_vars PROVE TypeOK'
  OBVIOUS
<1>1. ASSUME NEW a \in Assets,
             VenueChanges(a) \/ VenueTickChanges(a) \/ VenueTurns(a) \/ VenueResolves(a) \/ VenueErrs(a)
      PROVE  TypeOK'
  BY <1>1, VenueTyped
<1>2. CASE Connect \/ ConnectFails \/ SendBatch \/ ReadAhead \/ BatchCompletes \/ ConnectionLost
  BY <1>2, FeedTyped
<1>3. CASE HandleMessage
  <2>1. /\ channel' \in Seq(Message) /\ Len(channel') <= Capacity
        /\ books' \in [Assets -> Book] /\ repairing' \subseteq Assets /\ installed' = installed
        /\ ack' \subseteq SUBSET Assets
    BY <1>3, HandledMessage
  <2>2. UNCHANGED <<venueVars, feedVars, catalog, ticks, faults>>
    BY <1>3 DEF HandleMessage
  <2> QED  BY <2>1, <2>2 DEF TypeOK, Book, venueVars, feedVars
<1>4. CASE CatalogRead
  BY <1>4 DEF CatalogRead, TypeOK, venueVars, feedVars, engineVars
<1>5. CASE InstallCatalog
  <2>1. books' \in [Assets -> Book] /\ catalog' = {} /\ installed' = TRUE
    BY <1>5, InstallFacts DEF InstallCatalog
  <2>2. UNCHANGED <<venueVars, feedVars, ack, channel, repairing, ticks, faults>>
    BY <1>5 DEF InstallCatalog
  <2> QED  BY <2>1, <2>2 DEF TypeOK, Book, venueVars, feedVars
<1>6. CASE UNCHANGED vars
  BY <1>6 DEF TypeOK, vars, venueVars, feedVars, engineVars
<1> QED
  BY <1>1, <1>2, <1>3, <1>4, <1>5, <1>6 DEF Next

(* Backlog, channel and answer keep within their bounds, and every batch    *)
(* leaves books and repairs as they are declared.                           *)
THEOREM FeedTypes == Spec => []TypeOK
BY InitTyped, NextTyped, PTL DEF Spec

-----------------------------------------------------------------------------
(* Traces of a session: a tradeable book of it (position 0), or a batch of  *)
(* it in the channel. The news of its end lies behind the last of its       *)
(* traces unless it is up, and before the first trace of any other that     *)
(* lies behind one of its own.                                              *)
Alive(n) == session.up /\ session.number = n
Ends(k, n) == channel[k].type = "disconnected" /\ channel[k].session = n
Trace(i, n) ==
  IF i = 0 THEN \E a \in Assets : books[a].tradeable /\ books[a].session = n
  ELSE channel[i].type = "events" /\ channel[i].session = n

Unspoilt == \A a \in Assets : books[a].tradeable => ~books[a].spoilt
Over ==
  \A i \in 0..Len(channel) : \A n :
    Trace(i, n) => Alive(n) \/ \E k \in i + 1..Len(channel) : Ends(k, n)
Apart ==
  \A i, j \in 0..Len(channel) : \A n, m :
    i < j /\ n # m /\ Trace(i, n) /\ Trace(j, m) => \E k \in i + 1..j - 1 : Ends(k, n)
FeedInv == TypeOK /\ Unspoilt /\ Over /\ Apart

LEMMA InitSound == Init => Unspoilt /\ Over /\ Apart
<1> SUFFICES ASSUME Init PROVE Unspoilt /\ Over /\ Apart
  OBVIOUS
<1>1. Len(channel) = 0 /\ \A a \in Assets : ~books[a].tradeable
  BY DEF Init
<1> QED
  BY <1>1 DEF Unspoilt, Over, Apart, Trace

(* A message posted: a batch is of the session that is up, and a session    *)
(* ends with the news of it.                                                *)
LEMMA PostedSound ==
  ASSUME FeedInv, NEW m \in Message, Post(m), books' = books,
         \A n : Alive(n) => Alive(n)' \/ (m.type = "disconnected" /\ m.session = n),
         m.type = "events" => Alive(m.session) /\ Alive(m.session)'
  PROVE  Unspoilt' /\ Over' /\ Apart'
<1>0. PICK L : L = Len(channel)
  OBVIOUS
<1>1. /\ Len(channel') = L + 1 /\ L \in Nat /\ channel'[L + 1] = m
      /\ \A i \in 1..L : channel'[i] = channel[i]
  <2>1. channel \in Seq(Message)
    BY DEF FeedInv, TypeOK
  <2> QED  BY <1>0, <2>1, AppendProperties DEF Post
<1>2. \A i \in 0..L : \A n : Trace(i, n)' <=> Trace(i, n)
  BY <1>1 DEF Trace
<1>3. \A k \in 1..L : \A n : Ends(k, n)' <=> Ends(k, n)
  BY <1>1 DEF Ends
<1>4. /\ \A n : Ends(L + 1, n)' <=> (m.type = "disconnected" /\ m.session = n)
      /\ \A n : Trace(L + 1, n)' <=> (m.type = "events" /\ m.session = n)
  <2>1. L + 1 # 0 /\ channel'[L + 1] = m
    BY <1>1
  <2>2. ASSUME NEW n PROVE Ends(L + 1, n)' <=> (m.type = "disconnected" /\ m.session = n)
    BY ONLY <2>1 DEF Ends
  <2>3. ASSUME NEW n PROVE Trace(L + 1, n)' <=> (m.type = "events" /\ m.session = n)
    BY ONLY <2>1 DEF Trace
  <2> QED  BY <2>2, <2>3
<1>5. Unspoilt'
  BY DEF FeedInv, Unspoilt
<1>6. Over'
  <2> SUFFICES ASSUME NEW i \in 0..L + 1, NEW n, Trace(i, n)'
               PROVE  Alive(n)' \/ \E k \in i + 1..L + 1 : Ends(k, n)'
    BY <1>1 DEF Over
  <2>1. CASE i = L + 1
    <3>1. m.type = "events" /\ m.session = n
      BY <1>4, <2>1
    <3>2. Alive(m.session)'
      BY <3>1
    <3> QED  BY <3>1, <3>2 DEF Alive
  <2>2. CASE i \in 0..L
    <3>1. Alive(n) \/ \E k \in i + 1..L : Ends(k, n)
      BY <1>0, <1>2, <2>2 DEF FeedInv, Over
    <3>2. CASE Alive(n)
      <4>1. PICK k : k = L + 1
        OBVIOUS
      <4>2. Alive(n)' \/ Ends(k, n)'
        BY <1>4, <3>2, <4>1
      <4>3. k \in i + 1..L + 1
        BY <1>1, <2>2, <4>1
      <4> QED  BY <4>2, <4>3
    <3>3. ASSUME NEW k \in i + 1..L, Ends(k, n)
          PROVE  k \in i + 1..L + 1 /\ Ends(k, n)'
      BY <1>1, <1>3, <2>2, <3>3
    <3> QED  BY <3>1, <3>2, <3>3
  <2> QED  BY <1>1, <2>1, <2>2
<1>7. Apart'
  <2> SUFFICES ASSUME NEW i \in 0..L + 1, NEW j \in 0..L + 1, NEW n, NEW p,
                      i < j, n # p, Trace(i, n)', Trace(j, p)'
               PROVE  \E k \in i + 1..j - 1 : Ends(k, n)'
    BY <1>1 DEF Apart
  <2>0. i \in 0..L /\ Trace(i, n)
    <3>1. i \in 0..L
      BY <1>1
    <3> QED  BY <1>2, <3>1
  <2>1. CASE j \in 0..L
    <3>1. PICK k \in i + 1..j - 1 : Ends(k, n)
      BY <1>0, <1>2, <2>0, <2>1 DEF FeedInv, Apart
    <3> QED  BY <1>1, <1>3, <2>0, <2>1, <3>1
  <2>2. CASE j = L + 1
    <3>1. Alive(p) /\ ~Alive(n)
      <4>1. m.type = "events" /\ m.session = p
        BY <1>4, <2>2
      <4>2. Alive(m.session)
        BY <4>1
      <4> QED  BY <4>1, <4>2 DEF Alive
    <3>2. PICK k \in i + 1..L : Ends(k, n)
      BY <1>0, <2>0, <3>1 DEF FeedInv, Over
    <3> QED  BY <1>1, <1>3, <2>0, <2>2, <3>2
  <2> QED  BY <1>1, <2>1, <2>2
<1> QED
  BY <1>5, <1>6, <1>7

LEMMA EndSound ==
  ASSUME FeedInv, SessionEnds, books' = books
  PROVE  Unspoilt' /\ Over' /\ Apart'
<1>1. PICK m : m = [type |-> "disconnected", session |-> session.number]
  OBVIOUS
<1>2. m \in Message /\ m.type = "disconnected" /\ m.session = session.number
  BY <1>1 DEF FeedInv, TypeOK, Message
<1>3. Post(m)
  BY <1>1 DEF SessionEnds
<1>4. \A n : Alive(n) => m.session = n
  BY <1>2 DEF Alive
<1> QED
  BY <1>2, <1>3, <1>4, PostedSound

(* No other step but the handling of a message makes a book tradeable.      *)
LEMMA SameSound ==
  ASSUME FeedInv, UNCHANGED <<channel, session>>,
         \A a \in Assets : \A n : books'[a].tradeable =>
           books[a].tradeable /\ books'[a].session = books[a].session
                              /\ books'[a].spoilt = books[a].spoilt
  PROVE  Unspoilt' /\ Over' /\ Apart'
<1>1. \A i \in 0..Len(channel) : \A n : Trace(i, n)' => Trace(i, n)
  BY DEF Trace
<1>2. \A n : (Alive(n)' <=> Alive(n)) /\ \A k : Ends(k, n)' <=> Ends(k, n)
  BY DEF Alive, Ends
<1>3. Unspoilt'
  BY DEF FeedInv, Unspoilt
<1>4. Over'
  BY <1>1, <1>2 DEF FeedInv, Over
<1>5. Apart'
  BY <1>1, <1>2 DEF FeedInv, Apart
<1> QED
  BY <1>3, <1>4, <1>5

(* A message taken: what it leaves in the books is a trace of its session,  *)
(* or was there before.                                                     *)
LEMMA TakenSound ==
  ASSUME FeedInv, HandleMessage
  PROVE  Unspoilt' /\ Over' /\ Apart'
<1>1. PICK m \in Message :
        /\ m = Head(channel) /\ channel # <<>> /\ channel' = Tail(channel)
        /\ books' \in [Assets -> Book]
        /\ \/ m.type = "connected" /\ books' = books
           \/ m.type = "disconnected" /\ books' = AllLocked
           \/ /\ m.type = "events"
              /\ (\A a \in Assets : Sound(books[a], m.session)) =>
                   \A a \in Assets : Sound(books'[a], m.session)
  BY HandledMessage DEF FeedInv
<1>2. session' = session
  BY DEF HandleMessage, feedVars
<1> DEFINE L == Len(channel')
<1>3. /\ L \in Nat /\ Len(channel) = L + 1 /\ channel[1] = m
      /\ \A i \in 1..L : channel'[i] = channel[i + 1]
  <2>1. channel \in Seq(Message)
    BY DEF FeedInv, TypeOK
  <2> QED  BY <1>1, <2>1, HeadTailProperties
<1> HIDE DEF L
<1>4. \A k \in 2..L + 1 : \A n : Ends(k - 1, n)' <=> Ends(k, n)
  BY <1>3 DEF Ends
<1>5. \A i \in 1..L : \A n : Trace(i, n)' <=> Trace(i + 1, n)
  BY <1>3 DEF Trace
<1>6. \A n : Alive(n)' <=> Alive(n)
  BY <1>2 DEF Alive
<1>7. /\ Unspoilt'
      /\ \A n : Trace(0, n)' => Trace(1, n) \/ (Trace(0, n) /\ ~Ends(1, n))
  <2>1. CASE m.type = "connected" /\ books' = books
    <3>1. \A n : ~Ends(1, n) /\ (Trace(0, n)' <=> Trace(0, n))
      BY <1>3, <2>1 DEF Ends, Trace
    <3> QED  BY <2>1, <3>1 DEF FeedInv, Unspoilt
  <2>2. CASE m.type = "disconnected" /\ books' = AllLocked
    <3>1. \A a \in Assets : ~books'[a].tradeable
      <4> SUFFICES ASSUME NEW a \in Assets PROVE ~books'[a].tradeable
        OBVIOUS
      <4>1. books[a] \in Book /\ books'[a] = Locked(books[a])
        BY <2>2 DEF FeedInv, TypeOK, Book, AllLocked
      <4> QED  BY <4>1 DEF Locked, Book
    <3> QED  BY <3>1 DEF Unspoilt, Trace
  <2>3. CASE /\ m.type = "events"
             /\ (\A a \in Assets : Sound(books[a], m.session)) =>
                  \A a \in Assets : Sound(books'[a], m.session)
    <3>1. Trace(1, m.session)
      BY <1>3, <2>3 DEF Trace
    <3>2. ASSUME NEW a \in Assets, books[a].tradeable PROVE books[a].session = m.session
      <4>1. Trace(0, books[a].session)
        BY <3>2 DEF Trace
      <4>2. 0 \in 0..Len(channel) /\ 1 \in 0..Len(channel) /\ 0 + 1..1 - 1 = {}
        BY <1>3
      <4> QED  BY <3>1, <4>1, <4>2 DEF FeedInv, Apart
    <3>3. \A a \in Assets : Sound(books[a], m.session)
      BY <3>2 DEF Sound, FeedInv, Unspoilt
    <3>4. \A a \in Assets : Sound(books'[a], m.session)
      BY <2>3, <3>3
    <3> QED  BY <3>1, <3>4 DEF Sound, Unspoilt, Trace
  <2> QED  BY <1>1, <2>1, <2>2, <2>3
<1>8. Over'
  <2> SUFFICES ASSUME NEW i \in 0..L, NEW n, Trace(i, n)'
               PROVE  Alive(n)' \/ \E k \in i + 1..L : Ends(k, n)'
    BY DEF Over, L
  <2>1. ASSUME NEW h \in {i, i + 1}, Trace(h, n), h = i => i = 0 /\ ~Ends(1, n)
        PROVE  Alive(n)' \/ \E k \in i + 1..L : Ends(k, n)'
    <3>1. Alive(n) \/ \E k \in h + 1..L + 1 : Ends(k, n)
      BY <1>3, <2>1 DEF FeedInv, Over
    <3>2. ASSUME NEW k \in h + 1..L + 1, Ends(k, n)
          PROVE  k - 1 \in i + 1..L /\ Ends(k - 1, n)'
      <4>1. k \in 2..L + 1 /\ k - 1 \in i + 1..L
        BY <1>3, <2>1, <3>2
      <4> QED  BY <1>4, <3>2, <4>1
    <3> QED  BY <1>6, <3>1, <3>2
  <2>2. Trace(i + 1, n) \/ (i = 0 /\ Trace(i, n) /\ ~Ends(1, n))
    BY <1>5, <1>7
  <2> QED  BY <2>1, <2>2
<1>9. Apart'
  <2> SUFFICES ASSUME NEW i \in 0..L, NEW j \in 0..L, NEW n, NEW p,
                      i < j, n # p, Trace(i, n)', Trace(j, p)'
               PROVE  \E k \in i + 1..j - 1 : Ends(k, n)'
    BY DEF Apart, L
  <2>0. Trace(j + 1, p)
    BY <1>5
  <2>1. ASSUME NEW h \in {i, i + 1}, Trace(h, n), h = i => i = 0 /\ ~Ends(1, n)
        PROVE  \E k \in i + 1..j - 1 : Ends(k, n)'
    <3>1. PICK k \in h + 1..(j + 1) - 1 : Ends(k, n)
      BY <1>3, <2>0, <2>1 DEF FeedInv, Apart
    <3>2. k \in 2..L + 1 /\ k - 1 \in i + 1..j - 1
      BY <1>3, <2>1, <3>1
    <3> QED  BY <1>4, <3>1, <3>2
  <2>2. Trace(i + 1, n) \/ (i = 0 /\ Trace(i, n) /\ ~Ends(1, n))
    BY <1>5, <1>7
  <2> QED  BY <2>1, <2>2
<1> QED
  BY <1>7, <1>8, <1>9

LEMMA NextSound == FeedInv /\ [Next]_vars => FeedInv'
<1> SUFFICES ASSUME FeedInv, [Next]_vars PROVE Unspoilt' /\ Over' /\ Apart'
  BY NextTyped DEF FeedInv
<1>0. session \in [number : Sessions, up : BOOLEAN]
  BY DEF FeedInv, TypeOK
<1>1. ASSUME UNCHANGED <<channel, session, books>> PROVE Unspoilt' /\ Over' /\ Apart'
  BY <1>1, SameSound
<1>2. CASE \E a \in Assets : VenueChanges(a) \/ VenueTickChanges(a) \/ VenueTurns(a) \/ VenueResolves(a) \/ VenueErrs(a)
  BY <1>1, <1>2 DEF VenueChanges, VenueTickChanges, VenueTurns, VenueResolves, VenueErrs, feedVars, engineVars
<1>3. CASE Connect
  <2>1. PICK n \in Sessions : /\ session' = [number |-> n, up |-> TRUE] /\ ~session.up
                              /\ Post([type |-> "connected", session |-> n]) /\ books' = books
    BY <1>3 DEF Connect, engineVars
  <2>2. PICK m : m = [type |-> "connected", session |-> n]
    OBVIOUS
  <2>3. m \in Message /\ m.type = "connected" /\ Post(m)
    BY <2>1, <2>2 DEF Message
  <2>4. \A p : ~Alive(p)
    BY <2>1 DEF Alive
  <2> QED  BY <2>1, <2>3, <2>4, PostedSound
<1>4. CASE ConnectFails
  <2>1. PICK m : m = [type |-> "disconnected", session |-> session.number]
    OBVIOUS
  <2>2. m \in Message /\ m.type = "disconnected" /\ Post(m) /\ books' = books /\ session' = session
    BY <1>0, <1>4, <2>1 DEF Message, ConnectFails, engineVars, feedVars
  <2>3. \A p : Alive(p) => Alive(p)'
    BY <2>2 DEF Alive
  <2> QED  BY <2>2, <2>3, PostedSound
<1>5. CASE SendBatch
  <2>1. PICK frame : Send(frame) /\ frame \in Seq(Event)
    <3>1. wire \in Seq(Seq(Event)) /\ pending \in Seq(Seq(Event))
      BY DEF FeedInv, TypeOK
    <3> QED  BY <1>5, <3>1, TailTyped DEF SendBatch
  <2>2. PICK m : m = [type |-> "events", session |-> session.number, events |-> frame]
    OBVIOUS
  <2>3. /\ m \in Message /\ m.type = "events" /\ m.session = session.number /\ Post(m)
        /\ books' = books /\ session' = session /\ session.up
    BY <1>0, <1>5, <2>1, <2>2 DEF Message, SendBatch, Send, engineVars
  <2>4. (\A p : Alive(p) => Alive(p)') /\ Alive(m.session) /\ Alive(m.session)'
    BY <2>3 DEF Alive
  <2> QED  BY <2>3, <2>4, PostedSound
<1>6. CASE ReadAhead \/ BatchCompletes \/ ConnectionLost
  <2>1. CASE SessionEnds
    BY <1>6, <2>1, EndSound DEF ReadAhead, BatchCompletes, ConnectionLost, engineVars
  <2>2. CASE ~SessionEnds
    BY <1>1, <1>6, <2>2 DEF ReadAhead, BatchCompletes, ConnectionLost, engineVars
  <2> QED  BY <2>1, <2>2
<1>7. CASE HandleMessage
  BY <1>7, TakenSound
<1>8. CASE InstallCatalog
  <2>1. PICK c \in [Assets -> Ticks] :
          books' = [a \in Assets |-> IF books[a].tick = c[a] THEN books[a]
                                     ELSE [Locked(books[a]) EXCEPT !.tick = c[a]]]
    BY <1>8 DEF InstallCatalog, FeedInv, TypeOK
  <2>2. ASSUME NEW a \in Assets, books'[a].tradeable PROVE books'[a] = books[a]
    <3>1. books[a] \in Book
      BY DEF FeedInv, TypeOK, Book
    <3>2. ~[Locked(books[a]) EXCEPT !.tick = c[a]].tradeable
      BY <3>1 DEF Locked, Book
    <3> QED  BY <2>1, <2>2, <3>2
  <2>3. UNCHANGED <<channel, session>>
    BY <1>8 DEF InstallCatalog, feedVars
  <2> QED  BY <2>2, <2>3, SameSound
<1>9. CASE CatalogRead \/ UNCHANGED vars
  BY <1>1, <1>9 DEF CatalogRead, vars, feedVars, engineVars
<1> QED
  BY <1>2, <1>3, <1>4, <1>5, <1>6, <1>7, <1>8, <1>9 DEF Next

(* A book is tradeable only while it is the venue's: it missed no event of  *)
(* its session, and that session is up or the news of its end is still in   *)
(* the channel, where the loop meets it before any batch of a later one     *)
(* (handle_market_message, and the order in which the feed task sends).     *)
THEOREM BooksSound == Spec => []SoundBook
<1>1. FeedInv => SoundBook
  <2> SUFFICES ASSUME FeedInv, NEW a \in Assets, books[a].tradeable
               PROVE  /\ ~books[a].spoilt
                      /\ \/ session.up /\ session.number = books[a].session
                         \/ \E i \in DOMAIN channel :
                              channel[i].type = "disconnected" /\ channel[i].session = books[a].session
    BY DEF SoundBook
  <2>1. Trace(0, books[a].session) /\ Len(channel) \in Nat /\ DOMAIN channel = 1..Len(channel)
    BY DEF Trace, FeedInv, TypeOK
  <2>2. Alive(books[a].session) \/ \E k \in 1..Len(channel) : Ends(k, books[a].session)
    BY <2>1 DEF FeedInv, Over
  <2> QED  BY <2>1, <2>2 DEF Alive, Ends, FeedInv, Unspoilt
<1>2. Init => FeedInv
  BY InitTyped, InitSound DEF FeedInv
<1> QED
  BY <1>1, <1>2, NextSound, PTL DEF Spec
=============================================================================
