---------------------------- MODULE GuardProofs ----------------------------
(***************************************************************************)
(* Proofs about what holds orders and requests back: ComplianceLatch, for  *)
(* any number of orders and crashes; RateLimiter, for any limit, window    *)
(* and set-back of the clock; and ExternalFeed, whose gate waits for fresh *)
(* prices, for any symbols and any mixture of lost, repeated and overtaken *)
(* messages and broken sessions.                                           *)
(***************************************************************************)
EXTENDS ComplianceLatch, RateLimiter, ExternalFeed, FiniteSetTheorems, SequenceTheorems, TLAPS

-----------------------------------------------------------------------------
(* The latch. The invariant says more than LatchHeld: while the loop goes   *)
(* on, file, guard and verdict hold the same flags; once a write has failed *)
(* they may differ, and then the loop is on its way out.                    *)

(* The stages in which the loop still believes its guard.                   *)
Working == stage \in {"running", "observed", "latched"}

LatchInv ==
  /\ LatchTypeOK
  /\ latched \subseteq file /\ latched \subseteq synced
  /\ Working => guard = file /\ verdict.flags = guard

(* Nothing a cancellation does adds an order.                               *)
LEMMA CancelledBound == ASSUME orders \in Nat
                        PROVE \A n \in Cancelled : n \in Nat /\ n <= orders
BY DEF Cancelled

LEMMA InitLatch == LatchInit => LatchInv
<1> SUFFICES ASSUME LatchInit PROVE LatchInv
    OBVIOUS
<1>1. verdict \in Verdicts
  BY DEF LatchInit, Verdicts
<1>2. LatchTypeOK
  BY <1>1 DEF LatchInit, LatchTypeOK, Stages
<1>3. ~Working
  BY DEF LatchInit, Working
<1> QED
  BY <1>2, <1>3 DEF LatchInit, LatchInv

(* One step per action; most of them leave all flags alone.                 *)
LEMMA StepLatch == LatchInv /\ [LatchNext]_latchVars => LatchInv'
<1> SUFFICES ASSUME LatchInv, [LatchNext]_latchVars PROVE LatchInv'
    OBVIOUS
<1> USE DEF LatchInv, LatchTypeOK, Verdicts, Stages, Flags, Working, gates
<1>a. \A n \in Cancelled : n \in Nat
  BY CancelledBound
<1>1. CASE Start
  BY <1>1, <1>a DEF Start, WithLatch
<1>2. CASE Latch
  BY <1>2 DEF Latch
<1>3. CASE LatchFails
  BY <1>3 DEF LatchFails
<1>4. CASE CancelForCompliance
  BY <1>4, <1>a DEF CancelForCompliance
<1>5. CASE GeographyStale
  BY <1>5 DEF GeographyStale
<1>6. CASE Resume
  BY <1>6 DEF Resume
<1>7. CASE PlaceOrder
  BY <1>7 DEF PlaceOrder
<1>8. CASE OrderEnds
  BY <1>8 DEF OrderEnds
<1>9. CASE Shutdown \/ CleanUp
  BY <1>9, <1>a DEF Shutdown, CleanUp
<1>10. CASE Crash
  BY <1>10 DEF Crash
<1>11. ASSUME NEW flag \in Flags, Observe(flag) PROVE LatchInv'
  BY <1>11 DEF Observe
<1>12. ASSUME NEW eligible \in BOOLEAN, ReplaceVerdict(eligible) PROVE LatchInv'
  BY <1>12, <1>a DEF ReplaceVerdict, WithLatch
<1>13. CASE UNCHANGED latchVars
  BY <1>13 DEF latchVars
<1> QED
  BY <1>1, <1>2, <1>3, <1>4, <1>5, <1>6, <1>7, <1>8, <1>9, <1>10, <1>11, <1>12, <1>13
  DEF LatchNext

(* Every variable of the latch and of the loop around it keeps its type.    *)
THEOREM LatchTypes == LatchSpec => []LatchTypeOK
<1>1. LatchInv => LatchTypeOK
  BY DEF LatchInv
<1> QED
  BY <1>1, InitLatch, StepLatch, PTL DEF LatchSpec

(* A latch that was reported done is in the file after any crashes, and in  *)
(* the verdict of every later run.                                          *)
THEOREM LatchStays == LatchSpec => []LatchHeld
<1>1. LatchInv => LatchHeld
  BY DEF LatchInv, LatchHeld, Working
<1> QED
  BY <1>1, InitLatch, StepLatch, PTL DEF LatchSpec

(* An order is placed by one action only, whose verdict has no flag; the    *)
(* file then has none either.                                               *)
LEMMA OrderLatch == LatchInv /\ [LatchNext]_latchVars => [orders' > orders => file = {}]_latchVars
<1> SUFFICES ASSUME LatchInv, LatchNext, orders' > orders PROVE file = {}
  BY DEF latchVars
<1> USE DEF LatchInv, LatchTypeOK, gates
<1>a. \A n \in Cancelled : n \in Nat /\ n <= orders
  BY CancelledBound
<1>1. CASE PlaceOrder
  BY <1>1 DEF PlaceOrder, Allows, Working
<1>2. ~Start
  BY <1>a DEF Start
<1>3. ~CancelForCompliance
  BY <1>a DEF CancelForCompliance
<1>4. ~CleanUp
  BY <1>a DEF CleanUp
<1>5. ASSUME NEW eligible \in BOOLEAN PROVE ~ReplaceVerdict(eligible)
  <2>1. ReplaceVerdict(eligible) => orders' \in Cancelled \/ orders' = orders
    BY DEF ReplaceVerdict
  <2> QED
    BY <2>1, <1>a
<1>6. ~OrderEnds
  BY DEF OrderEnds
<1>7. ~(Latch \/ LatchFails \/ GeographyStale \/ Resume \/ Shutdown \/ Crash)
  BY DEF Latch, LatchFails, GeographyStale, Resume, Shutdown, Crash
<1>8. ASSUME NEW flag \in Flags PROVE ~Observe(flag)
  BY DEF Observe
<1> QED
  BY <1>1, <1>2, <1>3, <1>4, <1>5, <1>6, <1>7, <1>8 DEF LatchNext

(* No order is ever placed while the latch file holds a flag.               *)
THEOREM NoneUnderLatch == LatchSpec => NoOrderUnderLatch
BY InitLatch, StepLatch, OrderLatch, PTL DEF LatchSpec, NoOrderUnderLatch

-----------------------------------------------------------------------------
(* The limiter. No window of true time lets more requests through than the  *)
(* limit, and the wait that a refused caller is told is enough.             *)

(* Every set of the first n positions has a least element: with it, the     *)
(* first stamp that is not expired is what SelectInSeq returns.             *)
Least(n) == \A I \in SUBSET (1..n) : I # {} => \E m \in I : \A i \in I : m <= i

(* left is what is kept of stamps when the first d of them, all expired,    *)
(* are dropped and the next is not.                                         *)
DropsFirst(stamps, now, left, d) ==
  /\ left \in Seq(Nat) /\ d \in 0..Len(stamps) /\ Len(left) = Len(stamps) - d
  /\ \A i \in 1..Len(left) : left[i] = stamps[d + i]
  /\ \A k \in 1..d : Expired(stamps[k], now)
  /\ d < Len(stamps) => ~Expired(stamps[d + 1], now)

(* The requests let through in the window that begins at t.                 *)
Window(t) == {k \in DOMAIN passed : passed[k] >= t /\ passed[k] < t + RateWindow}

RateTypeOK ==
  /\ instant \in Nat /\ setBack \in Nat /\ setBack <= MaxSetBack /\ MaxSetBack <= instant
  /\ accepted \in Seq(Nat) /\ passed \in Seq(Nat)
  /\ Len(accepted) <= Len(passed) /\ Len(accepted) <= RateLimit

(* The number of requests whose stamps are dropped.                         *)
Dropped == Len(passed) - Len(accepted)

(* The stamps kept are those of the last requests, none further in the past *)
(* than the clock was set back; the others are a window old in true time.   *)
PassedBefore(n) == \A k \in 1..Len(passed) : passed[k] <= n
StampsClose == \A i \in 1..Len(accepted) : passed[Dropped + i] <= accepted[i] + setBack
DroppedOld(n) == \A k \in 1..n : passed[k] + RateWindow <= instant

RateInv ==
  /\ RateTypeOK
  /\ Least(Len(accepted))
  /\ PassedBefore(instant) /\ StampsClose /\ DroppedOld(Dropped)
  /\ RateBounded

-----------------------------------------------------------------------------
LEMMA LeastGrows ==
  ASSUME NEW n \in Nat, Least(n)
  PROVE  Least(n + 1)
<1> SUFFICES ASSUME NEW I \in SUBSET (1..(n + 1)), I # {}
             PROVE  \E m \in I : \A i \in I : m <= i
  BY DEF Least
<1> DEFINE J == I \ {n + 1}
<1>1. J \in SUBSET (1..n)
  OBVIOUS
<1>2. CASE J = {}
  <2>1. I = {n + 1}
    BY <1>2
  <2> QED BY <2>1
<1>3. CASE J # {}
  <2>1. PICK m \in J : \A i \in J : m <= i
    BY <1>1, <1>3 DEF Least
  <2>2. m \in I /\ m <= n + 1
    BY <1>1
  <2>3. \A i \in I : m <= i
    BY <2>1, <2>2
  <2> QED BY <2>2, <2>3
<1> QED BY <1>2, <1>3

LEMMA LeastShrinks ==
  ASSUME NEW n \in Nat, NEW m \in Nat, m <= n, Least(n)
  PROVE  Least(m)
<1>1. SUBSET (1..m) \subseteq SUBSET (1..n)
  OBVIOUS
<1> QED BY <1>1 DEF Least

LEMMA Elements ==
  ASSUME NEW s \in Seq(Nat)
  PROVE  Len(s) \in Nat /\ \A i \in 1..Len(s) : s[i] \in Nat
OBVIOUS

(* Eviction drops the expired stamps at the front and no other.             *)
LEMMA EvictedDrops ==
  ASSUME NEW stamps \in Seq(Nat), NEW now \in Nat, Least(Len(stamps))
  PROVE  \E d \in 0..Len(stamps) : DropsFirst(stamps, now, Evicted(stamps, now), d)
<1> DEFINE n == Len(stamps)
           I == {i \in 1..n : ~Expired(stamps[i], now)}
<1>0. n \in Nat
  OBVIOUS
<1>1. CASE I = {}
  <2>1. Evicted(stamps, now) = <<>>
    BY <1>1 DEF Evicted, SelectInSeq
  <2>2. \A k \in 1..n : Expired(stamps[k], now)
    BY <1>1
  <2>3. DropsFirst(stamps, now, Evicted(stamps, now), n)
    BY <1>0, <2>1, <2>2 DEF DropsFirst
  <2> QED BY <1>0, <2>3
<1>2. CASE I # {}
  <2>1. \E m \in I : \A i \in I : m <= i
    BY <1>0, <1>2 DEF Least
  <2>2. Min(I) \in I /\ \A i \in I : Min(I) <= i
    BY <2>1 DEF Min
  <2> DEFINE f == Min(I)
  <2>3. f \in 1..n /\ ~Expired(stamps[f], now)
    BY <2>2
  <2>4. Evicted(stamps, now) = SubSeq(stamps, f, n)
    <3>1. SelectInSeq(stamps, LAMBDA stamp : ~Expired(stamp, now)) = f
      BY <1>2 DEF SelectInSeq
    <3>2. f # 0
      BY <2>3
    <3> QED BY <3>1, <3>2 DEF Evicted
  <2> HIDE DEF f
  <2>5. /\ SubSeq(stamps, f, n) \in Seq(Nat)
        /\ Len(SubSeq(stamps, f, n)) = n - (f - 1)
        /\ \A i \in 1..(n - (f - 1)) : SubSeq(stamps, f, n)[i] = stamps[(f - 1) + i]
    <3>1. f \in Int /\ n \in Int /\ f <= n /\ \A i \in f..n : stamps[i] \in Nat
      BY <1>0, <2>3, Elements
    <3>2. /\ SubSeq(stamps, f, n) \in Seq(Nat)
          /\ Len(SubSeq(stamps, f, n)) = IF f <= n THEN n - f + 1 ELSE 0
          /\ \A i \in 1..(n - f + 1) : SubSeq(stamps, f, n)[i] = stamps[f + i - 1]
      BY ONLY <3>1, SubSeqProperties
    <3>3. n - f + 1 = n - (f - 1) /\ \A i \in 1..(n - f + 1) : f + i - 1 = (f - 1) + i
      BY <3>1
    <3> QED BY <3>1, <3>2, <3>3
  <2>6. \A k \in 1..(f - 1) : Expired(stamps[k], now)
    <3> TAKE k \in 1..(f - 1)
    <3>1. k \in 1..n /\ ~(f <= k)
      BY <2>3
    <3> QED BY <3>1, <2>2 DEF f
  <2>7. DropsFirst(stamps, now, Evicted(stamps, now), f - 1)
    BY <1>0, <2>3, <2>4, <2>5, <2>6 DEF DropsFirst
  <2> QED BY <2>3, <2>7
<1> QED BY <1>1, <1>2

-----------------------------------------------------------------------------
LEMMA Numbers ==
  ASSUME RateInv
  PROVE  /\ RateLimit \in Nat \ {0} /\ RateWindow \in Nat \ {0} /\ MaxSetBack \in Nat
         /\ instant \in Nat /\ setBack \in Nat /\ Clock \in Nat /\ Clock + setBack = instant
         /\ Len(passed) \in Nat /\ Len(accepted) \in Nat /\ Dropped \in Nat
         /\ Len(passed) = Dropped + Len(accepted)
         /\ \A i \in 1..Len(passed) : passed[i] \in Nat /\ passed[i] <= instant
         /\ \A i \in 1..Len(accepted) : accepted[i] \in Nat
<1>1. /\ instant \in Nat /\ setBack \in Nat /\ setBack <= MaxSetBack /\ MaxSetBack <= instant
      /\ accepted \in Seq(Nat) /\ passed \in Seq(Nat)
      /\ Len(accepted) <= Len(passed)
  BY DEF RateInv, RateTypeOK
<1>2. /\ Len(accepted) \in Nat /\ \A i \in 1..Len(accepted) : accepted[i] \in Nat
      /\ Len(passed) \in Nat /\ \A i \in 1..Len(passed) : passed[i] \in Nat
  BY <1>1, Elements
<1>3. \A i \in 1..Len(passed) : passed[i] <= instant
  BY DEF RateInv, PassedBefore
<1>4. Dropped \in Nat /\ Len(passed) = Dropped + Len(accepted)
  BY <1>1, <1>2 DEF Dropped
<1>5. Clock \in Nat /\ Clock + setBack = instant
  BY <1>1, RateAssumption DEF Clock
<1> QED BY <1>1, <1>2, <1>3, <1>4, <1>5, RateAssumption

(* What an eviction leaves of the invariant: the stamps that are left are   *)
(* those of the last requests, and all requests before them are old.        *)
LEMMA EvictionKeeps ==
  ASSUME NEW left, NEW d \in Nat, RateInv, DropsFirst(accepted, Clock, left, d)
  PROVE  /\ left \in Seq(Nat) /\ Len(left) \in Nat /\ Len(left) <= Len(accepted)
         /\ Len(passed) = (Dropped + d) + Len(left)
         /\ Least(Len(left))
         /\ \A i \in 1..Len(left) : passed[(Dropped + d) + i] <= left[i] + setBack
         /\ DroppedOld(Dropped + d)
<1>n. /\ RateWindow \in Nat \ {0} /\ instant \in Nat /\ setBack \in Nat /\ Dropped \in Nat
      /\ Len(accepted) \in Nat /\ Len(passed) \in Nat /\ Len(passed) = Dropped + Len(accepted)
      /\ Clock \in Nat /\ Clock + setBack = instant
  BY Numbers
<1>p. /\ \A k \in 1..Len(passed) : passed[k] \in Nat /\ passed[k] <= instant
      /\ \A k \in 1..Len(accepted) : accepted[k] \in Nat
  BY Numbers
<1>1. /\ left \in Seq(Nat) /\ d <= Len(accepted) /\ Len(left) = Len(accepted) - d
      /\ \A i \in 1..Len(left) : left[i] = accepted[d + i]
      /\ \A k \in 1..d : Expired(accepted[k], Clock)
  BY DEF DropsFirst
<1>2. \A i \in 1..Len(accepted) : passed[Dropped + i] <= accepted[i] + setBack
  BY DEF RateInv, StampsClose
<1>3. Least(Len(left))
  BY <1>1, LeastShrinks DEF RateInv
<1>4. \A i \in 1..Len(left) : passed[(Dropped + d) + i] <= left[i] + setBack
  <2> TAKE i \in 1..Len(left)
  <2>1. d + i \in 1..Len(accepted) /\ Dropped + (d + i) = (Dropped + d) + i
    BY <1>n, <1>1
  <2>2. passed[Dropped + (d + i)] <= accepted[d + i] + setBack
    BY <1>2, <2>1
  <2> QED BY <1>1, <2>1, <2>2
<1>5. DroppedOld(Dropped + d)
  <2> SUFFICES ASSUME NEW k \in 1..(Dropped + d) PROVE passed[k] + RateWindow <= instant
    BY DEF DroppedOld
  <2>1. CASE k <= Dropped
    BY <2>1 DEF RateInv, DroppedOld
  <2>2. CASE k > Dropped
    <3>1. PICK i \in Nat : i = k - Dropped
      BY <1>n, <2>2
    <3>2. i \in 1..d /\ i \in 1..Len(accepted) /\ Dropped + i = k /\ k \in 1..Len(passed)
      BY <1>n, <3>1, <2>2, <1>1
    <3>3. Clock - accepted[i] >= RateWindow /\ passed[k] <= accepted[i] + setBack
      BY <3>2, <1>1, <1>2 DEF Expired
    <3>4. accepted[i] \in Nat /\ passed[k] \in Nat
      BY <1>p, <3>2
    <3> QED BY ONLY <1>n, <3>3, <3>4
  <2> QED BY <1>n, <2>1, <2>2
<1> QED BY <1>n, <1>1, <1>3, <1>4, <1>5

LEMMA InitRate == RateInit => RateInv
<1> SUFFICES ASSUME RateInit PROVE RateInv
  OBVIOUS
<1>1. RateTypeOK /\ Len(accepted) = 0 /\ Len(passed) = 0
  BY RateAssumption DEF RateInit, RateTypeOK
<1>2. Least(0)
  <2>1. 1..0 = {}
    OBVIOUS
  <2> QED BY <2>1 DEF Least
<1>3. \A t \in 0..instant : Window(t) = {}
  BY <1>1 DEF Window, RateTypeOK
<1>4. RateBounded
  BY <1>3, FS_EmptySet, RateAssumption DEF RateBounded, Window
<1>5. PassedBefore(instant) /\ StampsClose /\ DroppedOld(Dropped)
  BY <1>1 DEF PassedBefore, StampsClose, DroppedOld, Dropped
<1> QED BY <1>1, <1>2, <1>4, <1>5 DEF RateInv

(* An accepted request: before it, fewer than the limit were let through in *)
(* any window that reaches up to it, as the dropped ones are older.         *)
LEMMA AcceptKeeps ==
  ASSUME NEW left, NEW d \in Nat, RateInv, DropsFirst(accepted, Clock, left, d),
         Len(left) < RateLimit, accepted' = Append(left, Clock), passed' = Append(passed, instant),
         UNCHANGED <<instant, setBack>>
  PROVE  RateInv'
<1> DEFINE n == Len(passed)
           e == Dropped + d
<1>n. /\ RateWindow \in Nat \ {0} /\ RateLimit \in Nat \ {0}
      /\ instant \in Nat /\ setBack \in Nat /\ Dropped \in Nat /\ e \in Nat /\ n \in Nat
      /\ Len(accepted) \in Nat /\ Clock \in Nat /\ Clock + setBack = instant
  <2>1. /\ RateWindow \in Nat \ {0} /\ RateLimit \in Nat \ {0}
        /\ instant \in Nat /\ setBack \in Nat /\ Dropped \in Nat /\ n \in Nat
        /\ Len(accepted) \in Nat /\ Clock \in Nat /\ Clock + setBack = instant
    BY Numbers
  <2>2. e \in Nat
    BY ONLY <2>1, d \in Nat
  <2> QED BY ONLY <2>1, <2>2
<1>p. /\ \A k \in 1..n : passed[k] \in Nat /\ passed[k] <= instant
  BY Numbers
<1>0. /\ left \in Seq(Nat) /\ Len(left) \in Nat /\ n = e + Len(left) /\ Least(Len(left))
      /\ \A i \in 1..Len(left) : passed[e + i] <= left[i] + setBack
      /\ \A k \in 1..e : passed[k] + RateWindow <= instant
  BY EvictionKeeps DEF DroppedOld
<1>1. /\ accepted' \in Seq(Nat) /\ Len(accepted') = Len(left) + 1
      /\ \A i \in 1..Len(left) : accepted'[i] = left[i]
      /\ accepted'[Len(left) + 1] = Clock
  BY <1>n, <1>0
<1>2. passed \in Seq(Nat) /\ setBack <= MaxSetBack /\ MaxSetBack <= instant
  BY DEF RateInv, RateTypeOK
<1>3. /\ passed' \in Seq(Nat) /\ Len(passed') = n + 1
      /\ \A k \in 1..n : passed'[k] = passed[k]
      /\ passed'[n + 1] = instant
  BY <1>n, <1>2
<1>4. RateTypeOK' /\ Dropped' = e
  <2>1. Len(left) + 1 <= RateLimit /\ Len(left) + 1 <= n + 1
    BY <1>n, <1>0
  <2>2. RateTypeOK'
    BY <2>1, <1>n, <1>1, <1>2, <1>3 DEF RateTypeOK
  <2>3. (n + 1) - (Len(left) + 1) = e
    BY <1>n, <1>0
  <2> HIDE DEF e
  <2>4. Dropped' = e
    BY <2>3, <1>1, <1>3 DEF Dropped
  <2> QED BY <2>2, <2>4
<1>5. Least(Len(accepted'))
  BY <1>0, <1>1, LeastGrows
<1>6. PassedBefore(instant)'
  <2>1. \A k \in 1..(n + 1) : passed'[k] <= instant
    BY <1>p, <1>3
  <2> QED BY <2>1, <1>3 DEF PassedBefore
<1>7. StampsClose'
  <2> SUFFICES ASSUME NEW i \in 1..(Len(left) + 1) PROVE passed'[e + i] <= accepted'[i] + setBack
    BY <1>1, <1>4 DEF StampsClose
  <2>1. CASE i = Len(left) + 1
    BY <1>n, <2>1, <1>0, <1>1, <1>3
  <2>2. CASE i # Len(left) + 1
    <3>1. i \in 1..Len(left) /\ e + i \in 1..n
      BY <1>n, <2>2, <1>0
    <3> QED BY <3>1, <1>0, <1>1, <1>3
  <2> QED BY <2>1, <2>2
<1>8. \A k \in 1..e : passed'[k] + RateWindow <= instant
  <2>1. \A k \in 1..e : k \in 1..n
    BY <1>n, <1>0
  <2> QED BY <2>1, <1>0, <1>3
<1>9. DroppedOld(Dropped)'
  BY <1>4, <1>8 DEF DroppedOld
<1>10. RateBounded'
  <2> SUFFICES ASSUME NEW t \in 0..instant PROVE Cardinality(Window(t)') <= RateLimit
    BY DEF RateBounded, Window
  <2>0. DOMAIN passed = 1..n /\ DOMAIN passed' = 1..(n + 1)
    BY <1>2, <1>3
  <2>1. CASE t + RateWindow <= instant
    <3>1. \A k \in 1..n : passed'[k] = passed[k]
      BY <1>3
    <3>2. ~(passed'[n + 1] < t + RateWindow)
      BY <1>n, <2>1, <1>3
    <3>3. Window(t)' = Window(t)
      BY <2>0, <3>1, <3>2 DEF Window
    <3> QED BY <3>3 DEF RateInv, RateBounded, Window
  <2>2. CASE t + RateWindow > instant
    <3>1. Window(t)' \subseteq (e + 1)..(n + 1)
      <4> SUFFICES ASSUME NEW k \in Window(t)' PROVE k \in (e + 1)..(n + 1)
        OBVIOUS
      <4>1. k \in 1..(n + 1) /\ passed'[k] >= t
        BY <2>0 DEF Window
      <4>2. ASSUME k \in 1..e PROVE FALSE
        <5>1. passed'[k] + RateWindow <= instant /\ passed'[k] \in Nat
          BY <1>n, <1>p, <4>2, <1>0, <1>3, <1>8
        <5> QED BY <1>n, <5>1, <4>1, <2>2
      <4> QED BY <1>n, <4>1, <4>2, <1>0
    <3>2. IsFiniteSet((e + 1)..(n + 1)) /\ Cardinality((e + 1)..(n + 1)) = Len(left) + 1
      BY <1>n, <1>0, FS_Interval
    <3>3. Cardinality(Window(t)') \in Nat /\ Cardinality(Window(t)') <= Len(left) + 1
      <4>1. PICK W, V : W = Window(t)' /\ V = (e + 1)..(n + 1)
        OBVIOUS
      <4>2. W \in SUBSET V /\ IsFiniteSet(V) /\ Cardinality(V) = Len(left) + 1
        BY <3>1, <3>2, <4>1
      <4>3. IsFiniteSet(W) /\ Cardinality(W) <= Cardinality(V)
        BY ONLY <4>2, FS_Subset
      <4>4. Cardinality(W) \in Nat
        BY ONLY <4>3, FS_CardinalityType
      <4> QED  BY ONLY <4>1, <4>2, <4>3, <4>4
    <3> QED BY <1>n, <3>3, <1>0
  <2> QED BY <1>n, <2>1, <2>2
<1> QED BY <1>4, <1>5, <1>6, <1>7, <1>9, <1>10 DEF RateInv

(* A refused request evicts and no more.                                    *)
LEMMA RefuseKeeps ==
  ASSUME NEW left, NEW d \in Nat, RateInv, DropsFirst(accepted, Clock, left, d),
         accepted' = left, UNCHANGED <<instant, setBack, passed>>
  PROVE  RateInv'
<1>n. /\ RateWindow \in Nat \ {0} /\ instant \in Nat /\ setBack \in Nat /\ Dropped \in Nat
      /\ Len(accepted) \in Nat /\ Len(passed) \in Nat /\ Len(passed) = Dropped + Len(accepted)
      /\ Clock \in Nat /\ Clock + setBack = instant
  BY Numbers
<1>p. /\ \A k \in 1..Len(passed) : passed[k] \in Nat /\ passed[k] <= instant
      /\ \A k \in 1..Len(accepted) : accepted[k] \in Nat
  BY Numbers
<1>0. /\ left \in Seq(Nat) /\ Len(left) \in Nat /\ Len(left) <= Len(accepted)
      /\ Len(passed) = (Dropped + d) + Len(left) /\ Least(Len(left))
      /\ \A i \in 1..Len(left) : passed[(Dropped + d) + i] <= left[i] + setBack
      /\ DroppedOld(Dropped + d)
  BY EvictionKeeps
<1>1. RateTypeOK' /\ Dropped' = Dropped + d
  BY <1>0, RateAssumption DEF RateInv, RateTypeOK, Dropped
<1>2. StampsClose'
  BY <1>0, <1>1 DEF StampsClose
<1>3. DroppedOld(Dropped)'
  BY <1>0, <1>1 DEF DroppedOld
<1>4. PassedBefore(instant)' /\ RateBounded'
  BY DEF RateInv, PassedBefore, RateBounded
<1> QED BY <1>0, <1>1, <1>2, <1>3, <1>4 DEF RateInv

LEMMA TimePassesRate == RateInv /\ TimePasses => RateInv'
<1> SUFFICES ASSUME RateInv, TimePasses PROVE RateInv'
  OBVIOUS
<1>n. /\ RateWindow \in Nat \ {0} /\ instant \in Nat /\ setBack \in Nat /\ Dropped \in Nat
      /\ Len(accepted) \in Nat /\ Len(passed) \in Nat /\ Len(passed) = Dropped + Len(accepted)
      /\ Clock \in Nat /\ Clock + setBack = instant
  BY Numbers
<1>p. /\ \A k \in 1..Len(passed) : passed[k] \in Nat /\ passed[k] <= instant
      /\ \A k \in 1..Len(accepted) : accepted[k] \in Nat
  BY Numbers
<1>0. instant' = instant + 1 /\ UNCHANGED <<setBack, accepted, passed>>
  BY DEF TimePasses
<1>1. RateTypeOK' /\ Dropped' = Dropped
  BY <1>0, RateAssumption DEF RateInv, RateTypeOK, Dropped
<1>2. PassedBefore(instant)'
  BY <1>n, <1>p, <1>0 DEF PassedBefore
<1>3. StampsClose' /\ Least(Len(accepted))'
  BY <1>0, <1>1 DEF RateInv, StampsClose
<1>4. DroppedOld(Dropped)'
  <2> SUFFICES ASSUME NEW k \in 1..Dropped PROVE passed[k] + RateWindow <= instant + 1
    BY <1>0, <1>1 DEF DroppedOld
  <2>1. k \in 1..Len(passed) /\ passed[k] + RateWindow <= instant
    BY <1>n DEF RateInv, DroppedOld
  <2> QED BY <1>n, <1>p, <2>1
<1>5. RateBounded'
  <2> SUFFICES ASSUME NEW t \in 0..(instant + 1) PROVE Cardinality(Window(t)) <= RateLimit
    BY <1>0 DEF RateBounded, Window
  <2>1. CASE t = instant + 1
    <3>1. DOMAIN passed = 1..Len(passed)
      BY DEF RateInv, RateTypeOK
    <3>2. Window(t) = {}
      BY <1>n, <1>p, <2>1, <3>1 DEF Window
    <3> QED BY <3>2, FS_EmptySet, RateAssumption
  <2>2. CASE t # instant + 1
    <3>1. t \in 0..instant
      BY <1>n, <2>2
    <3> QED BY <3>1 DEF RateInv, RateBounded, Window
  <2> QED BY <2>1, <2>2
<1> QED BY <1>1, <1>2, <1>3, <1>4, <1>5 DEF RateInv

LEMMA ClockSetBackRate == RateInv /\ ClockSetBack => RateInv'
<1> SUFFICES ASSUME RateInv, ClockSetBack PROVE RateInv'
  OBVIOUS
<1>n. /\ RateWindow \in Nat \ {0} /\ instant \in Nat /\ setBack \in Nat /\ Dropped \in Nat
      /\ Len(accepted) \in Nat /\ Len(passed) \in Nat /\ Len(passed) = Dropped + Len(accepted)
      /\ Clock \in Nat /\ Clock + setBack = instant
  BY Numbers
<1>p. /\ \A k \in 1..Len(passed) : passed[k] \in Nat /\ passed[k] <= instant
      /\ \A k \in 1..Len(accepted) : accepted[k] \in Nat
  BY Numbers
<1>0. setBack < MaxSetBack /\ setBack' = setBack + 1 /\ UNCHANGED <<instant, accepted, passed>>
  BY DEF ClockSetBack
<1>1. RateTypeOK' /\ Dropped' = Dropped
  BY <1>0, RateAssumption DEF RateInv, RateTypeOK, Dropped
<1>2. StampsClose'
  <2> SUFFICES ASSUME NEW i \in 1..Len(accepted) PROVE passed[Dropped + i] <= accepted[i] + (setBack + 1)
    BY <1>0, <1>1 DEF StampsClose
  <2>1. Dropped + i \in 1..Len(passed) /\ passed[Dropped + i] <= accepted[i] + setBack
    BY <1>n DEF RateInv, StampsClose
  <2>2. passed[Dropped + i] \in Nat /\ accepted[i] \in Nat
    BY <1>p, <2>1
  <2> QED BY <1>n, <2>1, <2>2
<1>3. DroppedOld(Dropped)' /\ PassedBefore(instant)' /\ RateBounded' /\ Least(Len(accepted))'
  BY <1>0, <1>1 DEF RateInv, DroppedOld, PassedBefore, RateBounded
<1> QED BY <1>1, <1>2, <1>3 DEF RateInv

LEMMA TryAcquireRate == RateInv /\ TryAcquire => RateInv'
<1> SUFFICES ASSUME RateInv, TryAcquire PROVE RateInv'
  OBVIOUS
<1>1. Clock \in Nat /\ accepted \in Seq(Nat) /\ Least(Len(accepted))
  BY Numbers DEF RateInv, RateTypeOK
<1>2. PICK d \in 0..Len(accepted) : DropsFirst(accepted, Clock, Evicted(accepted, Clock), d)
  BY <1>1, EvictedDrops
<1>3. d \in Nat
  BY Numbers
<1> DEFINE left == Evicted(accepted, Clock)
<1>4. CASE /\ Len(left) < RateLimit
           /\ accepted' = Append(left, Clock) /\ passed' = Append(passed, instant)
  BY <1>2, <1>3, <1>4, AcceptKeeps DEF TryAcquire
<1>5. CASE accepted' = left /\ UNCHANGED passed
  BY <1>2, <1>3, <1>5, RefuseKeeps DEF TryAcquire
<1> QED BY <1>4, <1>5 DEF TryAcquire

LEMMA RateInvariance == RateSpec => []RateInv
<1>1. RateInv /\ UNCHANGED rateVars => RateInv'
  BY DEF rateVars, RateInv, RateTypeOK, Dropped, RateBounded, PassedBefore, StampsClose, DroppedOld
<1>2. RateInv /\ [RateNext]_rateVars => RateInv'
  BY <1>1, TryAcquireRate, TimePassesRate, ClockSetBackRate DEF RateNext
<1> QED BY InitRate, <1>2, PTL DEF RateSpec

-----------------------------------------------------------------------------
(* try_acquire never lets more than the limit through in a window of true   *)
(* time, however often and far the clock is set back.                       *)
THEOREM WindowBound == RateSpec => []RateBounded
BY RateInvariance, PTL DEF RateInv

(* retry_after_ms names a time at which the oldest stamp is expired.        *)
LEMMA WaitSuffices == RateInv => RetryHonest
<1> SUFFICES ASSUME RateInv PROVE RetryHonest
  OBVIOUS
<1> DEFINE left == Evicted(accepted, Clock)
           wait == RetryAfter(accepted, Clock)
           later == Evicted(accepted, Clock + wait)
<1>0. /\ Clock \in Nat /\ accepted \in Seq(Nat) /\ Len(accepted) \in Nat /\ Least(Len(accepted))
      /\ Len(accepted) <= RateLimit /\ RateLimit \in Nat \ {0} /\ RateWindow \in Nat \ {0}
  BY RateAssumption DEF RateInv, RateTypeOK, Clock
<1>1. PICK d \in 0..Len(accepted) : DropsFirst(accepted, Clock, left, d)
  BY <1>0, EvictedDrops
<1>2. CASE Len(left) < RateLimit
  <2>1. wait = 0 /\ Clock + wait = Clock
    BY <1>2, <1>0 DEF RetryAfter
  <2> QED BY <2>1, <1>2 DEF RetryHonest
<1>3. CASE Len(left) >= RateLimit
  <2>1. d = 0 /\ Len(left) = Len(accepted) /\ Len(accepted) >= 1
    BY <1>0, <1>1, <1>3 DEF DropsFirst
  <2>2. Head(left) = accepted[1] /\ accepted[1] \in Nat /\ ~Expired(accepted[1], Clock)
    BY <1>0, <1>1, <2>1 DEF DropsFirst
  <2>3. accepted[1] + RateWindow >= Clock
    BY <2>2, <1>0 DEF Expired
  <2>4. wait = accepted[1] + RateWindow - Clock
    <3>1. ~(Len(left) < RateLimit) /\ ~(Head(left) + RateWindow < Clock)
      <4>1. Len(left) \in Nat
        BY <1>0, <2>1
      <4>2. ~(Len(left) < RateLimit)
        BY ONLY <1>0, <1>3, <4>1
      <4>3. ~(accepted[1] + RateWindow < Clock)
        BY ONLY <1>0, <2>2, <2>3
      <4> QED  BY ONLY <2>2, <4>2, <4>3
    <3>2. wait = Head(left) + RateWindow - Clock
      BY ONLY <3>1 DEF RetryAfter
    <3> QED  BY ONLY <2>2, <3>2
  <2>5. Clock + wait = accepted[1] + RateWindow /\ Clock + wait \in Nat
    BY <2>4, <2>2, <1>0
  <2>6. Expired(accepted[1], Clock + wait)
    BY <2>5, <2>2, <1>0 DEF Expired
  <2> HIDE DEF wait
  <2>7. PICK c \in 0..Len(accepted) : DropsFirst(accepted, Clock + wait, later, c)
    BY <1>0, <2>5, EvictedDrops
  <2>8. c >= 1
    BY <2>1, <2>6, <2>7, <1>0 DEF DropsFirst
  <2>9. Len(later) < RateLimit
    BY <2>7, <2>8, <1>0 DEF DropsFirst
  <2> QED BY <2>9 DEF RetryHonest, wait
<1> QED BY <1>0, <1>1, <1>2, <1>3 DEF DropsFirst

THEOREM HonestWait == RateSpec => []RetryHonest
BY RateInvariance, WaitSuffices, PTL

-----------------------------------------------------------------------------
(* External prices. No cached quote gives way to an older one, and an open  *)
(* gate means that no message was skipped ahead of a quote.                 *)

Change(q) == q.quote.change

(* Sequences of messages and of quotes, of whatever content; what counts    *)
(* are the numbers they carry.                                              *)
Numbered ==
  /\ published \in Seq(SUBSET Symbols) /\ feed \in [up : BOOLEAN, last : Nat]
  /\ (\E M : wire \in Seq(M)) /\ (\E M : quotes \in Seq(M))
  /\ \A i \in 1..Len(wire) : wire[i].number \in 1..frames /\ wire[i].symbols \subseteq Symbols
  /\ \A i \in 1..Len(quotes) : Change(quotes[i]) \in Nat
  /\ DOMAIN cache = Symbols /\ \A s \in Symbols : cache[s].change \in Nat

(* Every quote in the cache and in the channel is of change n or before.    *)
UpTo(n) ==
  /\ \A s \in Symbols : cache[s].change <= n
  /\ \A i \in 1..Len(quotes) : Change(quotes[i]) <= n

(* Quotes wait in the channel in the order of their changes, behind the     *)
(* cached ones; the message being handed over is the last one read; and a   *)
(* session that has read none finds only newer ones on its wire.            *)
QuoteInv ==
  /\ Numbered
  /\ \A s \in Symbols, i \in 1..Len(quotes) : cache[s].change <= Change(quotes[i])
  /\ \A i, j \in 1..Len(quotes) : i < j => Change(quotes[i]) <= Change(quotes[j])
  /\ UpTo(frames) /\ feed.last <= frames
  /\ feed.up /\ feed.last # 0 => UpTo(feed.last)
  /\ feed.up /\ feed.last = 0 => \A i \in 1..Len(wire) : UpTo(wire[i].number - 1)
  /\ \A q \in sending : feed.up /\ feed.last # 0 /\ Change(q) = feed.last
  /\ ~feed.up => Len(wire) = 0

LEMMA InitQuotes == QuoteInit => QuoteInv
<1> SUFFICES ASSUME QuoteInit PROVE QuoteInv
  OBVIOUS
<1>1. /\ published \in Seq(SUBSET Symbols) /\ frames = 0
      /\ feed \in [up : BOOLEAN, last : Nat] /\ ~feed.up /\ feed.last = 0
      /\ DOMAIN cache = Symbols /\ \A s \in Symbols : cache[s].change = 0
  BY DEF QuoteInit, NoQuote, frames
<1>2. /\ Len(wire) = 0 /\ sending = {} /\ Len(quotes) = 0
      /\ wire \in Seq({}) /\ quotes \in Seq({})
  BY DEF QuoteInit
<1>3. 1..Len(wire) = {} /\ 1..Len(quotes) = {}
  BY <1>2
<1>4. Numbered
  BY <1>1, <1>2, <1>3 DEF Numbered
<1>5. UpTo(0)
  BY <1>1, <1>3 DEF UpTo
<1> QED
  BY <1>1, <1>2, <1>3, <1>4, <1>5 DEF QuoteInv

-----------------------------------------------------------------------------
(* The sequences: what appending and taking does to their elements.         *)
LEMMA Extended ==
  ASSUME NEW q, \E M : q \in Seq(M), NEW m, NEW r, r = Append(q, m)
  PROVE  /\ \E M : r \in Seq(M)
         /\ Len(q) \in Nat /\ Len(r) = Len(q) + 1
         /\ \A i \in 1..Len(q) : r[i] = q[i]
         /\ r[Len(q) + 1] = m
<1>1. PICK M : q \in Seq(M)
  OBVIOUS
<1>2. q \in Seq(M \cup {m}) /\ m \in M \cup {m}
  BY <1>1
<1> QED
  BY <1>2, AppendProperties

LEMMA Shortened ==
  ASSUME NEW q, \E M : q \in Seq(M), q # <<>>, NEW r, r = Tail(q)
  PROVE  /\ \E M : r \in Seq(M)
         /\ Len(q) \in Nat /\ Len(q) >= 1 /\ Len(r) = Len(q) - 1
         /\ \A i \in 1..Len(r) : r[i] = q[i + 1]
         /\ Head(q) = q[1]
<1>1. PICK M : q \in Seq(M)
  OBVIOUS
<1>2. /\ Len(q) \in Nat /\ Len(q) >= 1 /\ r \in Seq(M) /\ Len(r) = Len(q) - 1
      /\ \A i \in 1..Len(r) : r[i] = q[i + 1]
  BY <1>1, HeadTailProperties
<1>3. Head(q) = q[1]
  BY <1>1
<1> QED
  BY <1>2, <1>3

-----------------------------------------------------------------------------
LEMMA VenueStep ==
  ASSUME QuoteInv, NEW S \in SUBSET Symbols, VenueQuotes(S)
  PROVE  QuoteInv'
<1>1. /\ frames' = frames + 1 /\ published' \in Seq(SUBSET Symbols)
      /\ UNCHANGED <<feed, sending, quotes, cache>> /\ frames \in Nat
  BY DEF VenueQuotes, QuoteInv, Numbered, frames
<1> DEFINE m == [number |-> frames + 1, sentAt |-> clock, symbols |-> S]
<1>2. m.number = frames + 1 /\ m.symbols \subseteq Symbols
  BY <1>1
<1>3. wire' = IF feed.up /\ Len(wire) < MaxOnWire THEN Append(wire, m) ELSE wire
  BY DEF VenueQuotes
<1> HIDE DEF m
<1>4. /\ \E M : wire' \in Seq(M)
      /\ \A i \in 1..Len(wire') : \/ i \in 1..Len(wire) /\ wire'[i] = wire[i]
                                  \/ wire'[i] = m
      /\ ~feed.up => wire' = wire
  <2>1. \E M : wire \in Seq(M)
    BY DEF QuoteInv, Numbered
  <2>2. CASE wire' = wire
    BY <2>1, <2>2
  <2>3. CASE feed.up /\ wire' = Append(wire, m)
    BY <2>1, <2>3, Extended
  <2> QED  BY <1>3, <2>2, <2>3
<1>5. Numbered'
  <2>1. \A i \in 1..Len(wire) : wire[i].number \in 1..frames' /\ wire[i].symbols \subseteq Symbols
    BY <1>1 DEF QuoteInv, Numbered
  <2>2. m.number \in 1..frames'
    BY <1>1, <1>2
  <2>3. \A i \in 1..Len(wire') : wire'[i].number \in 1..frames' /\ wire'[i].symbols \subseteq Symbols
    BY <1>2, <1>4, <2>1, <2>2
  <2>4. published' \in Seq(SUBSET Symbols) /\ feed' \in [up : BOOLEAN, last : Nat]
    BY <1>1 DEF QuoteInv, Numbered
  <2>5. /\ \E M : quotes' \in Seq(M)
        /\ \A i \in 1..Len(quotes') : Change(quotes'[i]) \in Nat
        /\ DOMAIN cache' = Symbols /\ \A s \in Symbols : cache'[s].change \in Nat
    BY <1>1 DEF QuoteInv, Numbered
  <2> QED  BY <1>4, <2>3, <2>4, <2>5 DEF Numbered, Change
<1>6. UpTo(frames)' /\ UpTo(frames)
  BY <1>1, <1>5 DEF QuoteInv, UpTo, Numbered
<1>7. feed.up /\ feed.last = 0 => \A i \in 1..Len(wire') : UpTo(wire'[i].number - 1)
  BY <1>1, <1>2, <1>4, <1>6 DEF QuoteInv
<1> QED
  BY <1>1, <1>4, <1>5, <1>6, <1>7 DEF QuoteInv, UpTo, Numbered

(* A message lost, or one repeated: no number on the wire is new.           *)
LEMMA Refound ==
  ASSUME NEW q, \E M : q \in Seq(M), q # <<>>, NEW r \in {Tail(q), Append(q, Head(q))}
  PROVE  \A i \in 1..Len(r) : \E j \in 1..Len(q) : r[i] = q[j]
<1>1. Len(Tail(q)) = Len(q) - 1 /\ Len(q) \in Nat /\ Len(q) >= 1 /\ Head(q) = q[1]
  BY Shortened
<1>2. CASE r = Tail(q)
  BY <1>1, <1>2, Shortened
<1>3. CASE r = Append(q, Head(q))
  BY <1>1, <1>3, Extended
<1> QED  BY <1>2, <1>3

LEMMA WireStep ==
  ASSUME QuoteInv, WireFails
  PROVE  QuoteInv'
<1>1. /\ wire # <<>> /\ wire' \in {Tail(wire), Append(wire, Head(wire))}
      /\ UNCHANGED <<published, feed, sending, quotes, cache>>
  BY DEF WireFails
<1>2. \E M : wire \in Seq(M)
  BY DEF QuoteInv, Numbered
<1>3. /\ \E M : wire' \in Seq(M)
      /\ \A i \in 1..Len(wire') : \E j \in 1..Len(wire) : wire'[i] = wire[j]
  <2>1. \E M : wire' \in Seq(M)
    BY <1>1, <1>2, Shortened, Extended
  <2> QED  BY <1>1, <1>2, <2>1, Refound
<1>4. feed.up
  <2>1. Len(wire) >= 1
    BY <1>1, <1>2, Shortened
  <2> QED  BY <2>1 DEF QuoteInv
<1>5. Numbered'
  BY <1>1, <1>3 DEF QuoteInv, Numbered, frames
<1>6. feed.up /\ feed.last = 0 => \A i \in 1..Len(wire') : UpTo(wire'[i].number - 1)
  BY <1>3 DEF QuoteInv
<1> QED
  BY <1>1, <1>4, <1>5, <1>6 DEF QuoteInv, UpTo, frames

LEMMA SessionOpens ==
  ASSUME QuoteInv, ConnectFeed \/ FeedBreaks
  PROVE  /\ feed' \in [up : BOOLEAN, last : Nat] /\ feed'.last = 0
         /\ (\E M : wire' \in Seq(M)) /\ Len(wire') = 0
<1>1. feed' \in [up : BOOLEAN, last : Nat] /\ feed'.last = 0
  <2>1. feed' = [up |-> TRUE, last |-> 0] \/ feed' = [up |-> FALSE, last |-> 0]
    BY DEF ConnectFeed, FeedBreaks
  <2>2. CASE feed' = [up |-> TRUE, last |-> 0]
    BY <2>2
  <2>3. CASE feed' = [up |-> FALSE, last |-> 0]
    BY <2>3
  <2> QED  BY <2>1, <2>2, <2>3
<1>2. (\E M : wire \in Seq(M)) /\ (~feed.up => Len(wire) = 0)
  BY DEF QuoteInv, Numbered
<1>3. CASE ConnectFeed
  BY <1>1, <1>2, <1>3 DEF ConnectFeed
<1>4. CASE FeedBreaks
  <2>1. <<>> \in Seq({}) /\ Len(<<>>) = 0
    OBVIOUS
  <2> QED  BY <1>1, <1>4, <2>1 DEF FeedBreaks
<1> QED  BY <1>3, <1>4

LEMMA SessionStep ==
  ASSUME QuoteInv, ConnectFeed \/ FeedBreaks
  PROVE  QuoteInv'
<1>1. UNCHANGED <<published, quotes, cache>> /\ sending' = {}
  BY DEF ConnectFeed, FeedBreaks
<1>2. 1..Len(wire') = {}
  BY SessionOpens
<1>3. Numbered'
  BY <1>1, <1>2, SessionOpens DEF QuoteInv, Numbered
<1> QED
  BY <1>1, <1>2, <1>3, SessionOpens DEF QuoteInv, UpTo, Numbered, frames

(* A message that is read is newer than all that were read before it.       *)
LEMMA ReadStep ==
  ASSUME QuoteInv, ReadMessage
  PROVE  QuoteInv'
<1> DEFINE m == Head(wire)
<1>1. /\ wire # <<>> /\ wire' = Tail(wire) /\ feed.up /\ sending = {}
      /\ UNCHANGED <<published, quotes, cache>>
      /\ \/ Stale(m) /\ UNCHANGED <<feed, sending>>
         \/ ~Stale(m) /\ feed' = [feed EXCEPT !.last = m.number] /\ sending' = Quoted(m)
  BY DEF ReadMessage
<1>2. \E M : wire \in Seq(M)
  BY DEF QuoteInv, Numbered
<1>3. /\ \E M : wire' \in Seq(M)
      /\ Len(wire) \in Nat /\ Len(wire) >= 1 /\ Len(wire') = Len(wire) - 1
      /\ \A i \in 1..Len(wire') : wire'[i] = wire[i + 1]
      /\ m = wire[1]
  BY <1>1, <1>2, Shortened
<1> HIDE DEF m
<1>4. m.number \in 1..frames /\ m.symbols \subseteq Symbols /\ frames \in Nat
  BY <1>3 DEF QuoteInv, Numbered, frames
<1>5. CASE Stale(m) /\ UNCHANGED <<feed, sending>>
  <2>1. Numbered'
    BY <1>1, <1>3, <1>5 DEF QuoteInv, Numbered, frames
  <2>2. feed.last # 0
    BY <1>5 DEF Stale
  <2> QED  BY <1>1, <1>3, <1>5, <2>1, <2>2 DEF QuoteInv, UpTo, frames
<1>6. CASE ~Stale(m) /\ feed' = [feed EXCEPT !.last = m.number] /\ sending' = Quoted(m)
  <2>2. \A q \in sending' : Change(q) = m.number
    BY <1>6 DEF Quoted, Change
  <2>3. feed' \in [up : BOOLEAN, last : Nat] /\ feed'.up /\ feed'.last = m.number /\ m.number # 0
    <3>1. m.number \in Nat /\ m.number # 0
      BY <1>4
    <3>2. feed \in [up : BOOLEAN, last : Nat]
      BY DEF QuoteInv, Numbered
    <3> QED  BY <1>1, <1>6, <3>1, <3>2
  <2>4. Numbered'
    BY <1>1, <1>3, <2>2, <2>3 DEF QuoteInv, Numbered, frames
  <2>5. UpTo(m.number)
    <3>1. CASE feed.last = 0
      <4>1. UpTo(m.number - 1)
        BY <1>1, <1>3, <3>1 DEF QuoteInv
      <4> QED  BY <1>4, <4>1 DEF UpTo, QuoteInv, Numbered
    <3>2. CASE feed.last # 0
      <4>1. UpTo(feed.last) /\ feed.last < m.number /\ feed.last \in Nat
        BY <1>1, <1>4, <1>6, <3>2 DEF QuoteInv, Numbered, Stale
      <4> QED  BY <1>4, <4>1 DEF UpTo, QuoteInv, Numbered
    <3> QED  BY <3>1, <3>2
  <2> QED  BY <1>1, <1>4, <2>2, <2>3, <2>4, <2>5 DEF QuoteInv, UpTo, frames
<1> QED
  BY <1>1, <1>5, <1>6

LEMMA HandOverStep ==
  ASSUME QuoteInv, NEW q \in sending, HandOver(q)
  PROVE  QuoteInv'
<1>1. /\ sending' = sending \ {q} /\ quotes' = Append(quotes, q)
      /\ UNCHANGED <<published, wire, feed, cache>>
  BY DEF HandOver
<1>4. /\ \E M : quotes' \in Seq(M)
      /\ Len(quotes) \in Nat /\ Len(quotes') = Len(quotes) + 1
      /\ \A i \in 1..Len(quotes) : quotes'[i] = quotes[i]
      /\ quotes'[Len(quotes) + 1] = q
  <2>1. quotes' = Append(quotes, q) /\ \E M : quotes \in Seq(M)
    BY <1>1 DEF QuoteInv, Numbered
  <2> QED  BY ONLY <2>1, Extended
<1>5. /\ feed.up /\ feed.last # 0 /\ feed.last \in Nat /\ feed.last <= frames
      /\ Change(q) = feed.last
      /\ \A p \in sending' : Change(p) = feed.last
  BY <1>1 DEF QuoteInv, Numbered
<1>6. UpTo(feed.last)
  BY <1>5 DEF QuoteInv
<1>7. Numbered'
  <2>1. \A i \in 1..Len(quotes) : Change(quotes[i]) \in Nat
    BY DEF QuoteInv, Numbered
  <2>2. \A i \in 1..Len(quotes') : i \in 1..Len(quotes) \/ i = Len(quotes) + 1
    BY <1>4
  <2>3. \A i \in 1..Len(quotes') : Change(quotes'[i]) \in Nat
    BY <1>4, <1>5, <2>1, <2>2
  <2> QED  BY <1>1, <1>4, <2>3 DEF QuoteInv, Numbered, frames
<1>8. \A s \in Symbols, i \in 1..Len(quotes') : cache[s].change <= Change(quotes'[i])
  BY <1>4, <1>5, <1>6 DEF QuoteInv, UpTo
<1>9. \A i, j \in 1..Len(quotes') : i < j => Change(quotes'[i]) <= Change(quotes'[j])
  BY <1>4, <1>5, <1>6 DEF QuoteInv, UpTo
<1>10. /\ \A s \in Symbols : cache[s].change <= feed.last
       /\ \A i \in 1..Len(quotes') : Change(quotes'[i]) <= feed.last
  BY <1>4, <1>5, <1>6 DEF UpTo
<1>11. UpTo(frames)' /\ UpTo(feed.last)'
  BY <1>1, <1>5, <1>7, <1>10 DEF UpTo, Numbered, frames
<1> QED
  BY <1>1, <1>5, <1>7, <1>8, <1>9, <1>11 DEF QuoteInv, frames

LEMMA HandleStep ==
  ASSUME QuoteInv, HandleQuote
  PROVE  QuoteInv' /\ \A s \in Symbols : cache'[s].change >= cache[s].change
<1> DEFINE q == Head(quotes)
<1>1. /\ quotes # <<>> /\ quotes' = Tail(quotes)
      /\ cache' = [cache EXCEPT ![q.symbol] = q.quote]
      /\ UNCHANGED <<published, wire, feed, sending>>
  BY DEF HandleQuote
<1>2. \E M : quotes \in Seq(M)
  BY DEF QuoteInv, Numbered
<1>3. /\ \E M : quotes' \in Seq(M)
      /\ Len(quotes) \in Nat /\ Len(quotes) >= 1 /\ Len(quotes') = Len(quotes) - 1
      /\ \A i \in 1..Len(quotes') : quotes'[i] = quotes[i + 1]
      /\ q = quotes[1]
  BY <1>1, <1>2, Shortened
<1> HIDE DEF q
<1>4. /\ DOMAIN cache' = Symbols
      /\ \A s \in Symbols : cache'[s].change = cache[s].change \/ cache'[s].change = Change(q)
  BY <1>1 DEF QuoteInv, Numbered, Change
<1>5. /\ Change(q) \in Nat /\ \A s \in Symbols : cache[s].change \in Nat
      /\ \A s \in Symbols : cache[s].change <= Change(q)
      /\ \A i \in 1..Len(quotes') : Change(q) <= Change(quotes'[i])
  <2>1. 1 \in 1..Len(quotes) /\ \A i \in 1..Len(quotes') : i + 1 \in 1..Len(quotes) /\ 1 < i + 1
    BY <1>3
  <2>2. \A i \in 1..Len(quotes) : 1 < i => Change(quotes[1]) <= Change(quotes[i])
    BY <2>1 DEF QuoteInv
  <2> QED  BY <1>3, <2>1, <2>2 DEF QuoteInv, Numbered
<1>6. Numbered'
  BY <1>1, <1>3, <1>4, <1>5 DEF QuoteInv, Numbered, frames
<1>7. \A n \in Int : UpTo(n) => /\ \A s \in Symbols : cache'[s].change <= n
                                /\ \A i \in 1..Len(quotes') : Change(quotes'[i]) <= n
  BY <1>3, <1>4 DEF UpTo
<1>8. \A s \in Symbols, i \in 1..Len(quotes') : cache'[s].change <= Change(quotes'[i])
  BY <1>3, <1>4, <1>5 DEF QuoteInv
<1>9. \A i, j \in 1..Len(quotes') : i < j => Change(quotes'[i]) <= Change(quotes'[j])
  BY <1>3 DEF QuoteInv, frames
<1>10. \A i \in 1..Len(wire) : wire[i].number - 1 \in Int
  BY DEF QuoteInv, Numbered
<1>11. frames \in Int /\ feed.last \in Int
  BY DEF QuoteInv, Numbered, frames
<1>12. QuoteInv'
  BY <1>1, <1>6, <1>7, <1>8, <1>9, <1>10, <1>11 DEF QuoteInv, UpTo, frames
<1> QED
  BY <1>4, <1>5, <1>12

LEMMA NextQuotes ==
  QuoteInv /\ [QuoteNext]_quoteVars =>
    QuoteInv' /\ [\A s \in Symbols : cache'[s].change >= cache[s].change]_quoteVars
<1> SUFFICES ASSUME QuoteInv, [QuoteNext]_quoteVars
             PROVE  QuoteInv' /\ \A s \in Symbols : cache'[s].change >= cache[s].change
  OBVIOUS
<1>1. cache' = cache => \A s \in Symbols : cache'[s].change >= cache[s].change
  BY DEF QuoteInv, Numbered
<1>2. ASSUME NEW S \in SUBSET Symbols, VenueQuotes(S) PROVE QuoteInv' /\ cache' = cache
  BY <1>2, VenueStep DEF VenueQuotes
<1>3. CASE WireFails
  BY <1>1, <1>3, WireStep DEF WireFails
<1>4. CASE ConnectFeed \/ FeedBreaks
  BY <1>1, <1>4, SessionStep DEF ConnectFeed, FeedBreaks
<1>5. CASE ReadMessage
  BY <1>1, <1>5, ReadStep DEF ReadMessage
<1>6. ASSUME NEW q \in sending, HandOver(q)
      PROVE  QuoteInv' /\ \A s \in Symbols : cache'[s].change >= cache[s].change
  BY <1>1, <1>6, HandOverStep DEF HandOver
<1>7. CASE HandleQuote
  BY <1>7, HandleStep
<1>8. CASE ClockTicks \/ UNCHANGED quoteVars
  BY <1>1, <1>8 DEF ClockTicks, quoteVars, QuoteInv, Numbered, UpTo, frames
<1> QED
  BY <1>1, <1>2, <1>3, <1>4, <1>5, <1>6, <1>7, <1>8 DEF QuoteNext

(* A cached quote never gives way to an older one, whatever was lost,       *)
(* repeated or overtaken, within a session and from one to the next (the    *)
(* sequence check of run_external_feed against handle_external_message).    *)
THEOREM NoStepBack == QuoteSpec => NeverBack
BY InitQuotes, NextQuotes, PTL DEF QuoteSpec, NeverBack
-----------------------------------------------------------------------------
(* Message k has reached symbol t when the quote of t in the cache C, or    *)
(* one of the first n in the channel Q, is of message k or a later one.     *)
Reached(t, k, n, C, Q) ==
  C[t].change >= k \/ \E j \in 1..n : Q[j].symbol = t /\ Change(Q[j]) >= k

(* q is unflagged and not of its session's first message, and the message   *)
(* before its own, of those in P, quoted t.                                 *)
Linked(q, t, P) == ~q.gap /\ ~q.first /\ q.change > 1 /\ t \in P[q.change - 1]

(* An unflagged quote, wherever it waits, has the quotes of the message     *)
(* before it in front of it; the last message read is cached, in the        *)
(* channel or being handed over.                                            *)
WireTold == \A i \in 1..Len(wire) : wire[i].symbols = published[wire[i].number]
CacheWhole ==
  \A s, t \in Symbols : Linked(cache[s], t, published) => cache[t].change >= cache[s].change - 1
ChannelWhole ==
  \A i \in 1..Len(quotes), t \in Symbols :
    Linked(quotes[i].quote, t, published) => Reached(t, Change(quotes[i]) - 1, i - 1, cache, quotes)
SendingWhole ==
  \A q \in sending, t \in Symbols :
    Linked(q.quote, t, published) => Reached(t, Change(q) - 1, Len(quotes), cache, quotes)
LastWhole ==
  feed.up /\ feed.last # 0 =>
    \A t \in published[feed.last] :
      Reached(t, feed.last, Len(quotes), cache, quotes) \/ \E q \in sending : q.symbol = t

WholeInv == WireTold /\ CacheWhole /\ ChannelWhole /\ SendingWhole /\ LastWhole

LEMMA InitWhole == QuoteInit => WholeInv
<1> SUFFICES ASSUME QuoteInit PROVE WholeInv
  OBVIOUS
<1>1. 1..Len(wire) = {} /\ 1..Len(quotes) = {} /\ sending = {}
  BY DEF QuoteInit
<1>2. ~feed.up /\ \A s \in Symbols : cache[s].first
  BY DEF QuoteInit, NoQuote
<1> QED
  BY <1>1, <1>2 DEF WholeInv, WireTold, CacheWhole, ChannelWhole, SendingWhole, LastWhole, Linked

LEMMA VenueWhole ==
  ASSUME QuoteInv, WholeInv, NEW S \in SUBSET Symbols, VenueQuotes(S)
  PROVE  WholeInv'
<1>1. /\ UNCHANGED <<feed, sending, quotes, cache>>
      /\ Len(published) \in Nat /\ frames = Len(published)
      /\ \A k \in 1..frames : published'[k] = published[k]
      /\ published'[frames + 1] = S
  BY DEF VenueQuotes, QuoteInv, Numbered, frames
<1>2. ASSUME NEW q, q.change \in Nat, q.change <= frames, NEW t, Linked(q, t, published')
      PROVE  Linked(q, t, published)
  <2>1. q.change - 1 \in 1..frames
    BY <1>1, <1>2 DEF Linked
  <2> QED  BY <1>1, <1>2, <2>1 DEF Linked
<1>3. /\ \A s \in Symbols : cache[s].change \in Nat /\ cache[s].change <= frames
      /\ \A i \in 1..Len(quotes) : quotes[i].quote.change \in Nat /\ quotes[i].quote.change <= frames
      /\ \A q \in sending : q.quote.change = feed.last
      /\ feed.last \in Nat /\ feed.last <= frames
  BY DEF QuoteInv, Numbered, UpTo, Change
<1>4. WireTold'
  <2> DEFINE m == [number |-> frames + 1, sentAt |-> clock, symbols |-> S]
  <2>1. m.number = frames + 1 /\ m.symbols = S
    OBVIOUS
  <2>2. wire' = IF feed.up /\ Len(wire) < MaxOnWire THEN Append(wire, m) ELSE wire
    BY DEF VenueQuotes
  <2> HIDE DEF m
  <2>3. \A i \in 1..Len(wire) : wire[i].symbols = published'[wire[i].number]
    BY <1>1 DEF WholeInv, WireTold, QuoteInv, Numbered
  <2>4. CASE wire' = Append(wire, m)
    <3>1. \E M : wire \in Seq(M)
      BY DEF QuoteInv, Numbered
    <3>2. /\ Len(wire) \in Nat /\ Len(wire') = Len(wire) + 1 /\ wire'[Len(wire) + 1] = m
          /\ \A i \in 1..Len(wire) : wire'[i] = wire[i]
      BY ONLY <3>1, <2>4, Extended
    <3>3. \A i \in 1..Len(wire') : i \in 1..Len(wire) \/ i = Len(wire) + 1
      BY <3>2
    <3> QED  BY <1>1, <2>1, <2>3, <3>2, <3>3 DEF WireTold
  <2> QED  BY <2>2, <2>3, <2>4 DEF WireTold
<1>5. CacheWhole'
  BY <1>1, <1>2, <1>3 DEF WholeInv, CacheWhole
<1>6. ChannelWhole'
  BY <1>1, <1>2, <1>3 DEF WholeInv, ChannelWhole
<1>7. SendingWhole'
  BY <1>1, <1>2, <1>3 DEF WholeInv, SendingWhole
<1>8. LastWhole'
  BY <1>1, <1>3 DEF WholeInv, LastWhole
<1> QED
  BY <1>4, <1>5, <1>6, <1>7, <1>8 DEF WholeInv

(* The wire and the session: nothing that was read changes place.           *)
LEMMA WireWhole ==
  ASSUME QuoteInv, WholeInv, WireFails \/ ConnectFeed \/ FeedBreaks
  PROVE  WholeInv'
<1>1. UNCHANGED <<published, quotes, cache>>
  BY DEF WireFails, ConnectFeed, FeedBreaks
<1>2. CASE WireFails
  <2>1. UNCHANGED <<feed, sending>> /\ wire # <<>> /\ wire' \in {Tail(wire), Append(wire, Head(wire))}
    BY <1>2 DEF WireFails
  <2>2. \A i \in 1..Len(wire') : \E j \in 1..Len(wire) : wire'[i] = wire[j]
    <3>1. \E M : wire \in Seq(M)
      BY DEF QuoteInv, Numbered
    <3> QED  BY <2>1, <3>1, Refound
  <2> QED  BY <1>1, <2>1, <2>2
           DEF WholeInv, WireTold, CacheWhole, ChannelWhole, SendingWhole, LastWhole
<1>3. CASE ConnectFeed \/ FeedBreaks
  <2>1. sending' = {}
    BY <1>3 DEF ConnectFeed, FeedBreaks
  <2>2. feed'.last = 0 /\ Len(wire') = 0
    BY <1>3, SessionOpens
  <2>3. 1..Len(wire') = {}
    BY <2>2
  <2> QED  BY <1>1, <2>1, <2>2, <2>3
           DEF WholeInv, WireTold, CacheWhole, ChannelWhole, SendingWhole, LastWhole
<1> QED  BY <1>2, <1>3

(* A message read in its turn: the one before it was read in this session,  *)
(* so its quotes are cached or in the channel.                              *)
LEMMA ReadWhole ==
  ASSUME QuoteInv, WholeInv, ReadMessage
  PROVE  WholeInv'
<1> DEFINE m == Head(wire)
<1>1. /\ wire # <<>> /\ wire' = Tail(wire) /\ feed.up /\ sending = {}
      /\ UNCHANGED <<published, quotes, cache>>
      /\ \/ Stale(m) /\ UNCHANGED <<feed, sending>>
         \/ ~Stale(m) /\ feed' = [feed EXCEPT !.last = m.number] /\ sending' = Quoted(m)
  BY DEF ReadMessage
<1>2. \E M : wire \in Seq(M)
  BY DEF QuoteInv, Numbered
<1>3. /\ Len(wire) \in Nat /\ Len(wire) >= 1 /\ Len(wire') = Len(wire) - 1
      /\ \A i \in 1..Len(wire') : wire'[i] = wire[i + 1]
      /\ m = wire[1]
  BY <1>1, <1>2, Shortened
<1> HIDE DEF m
<1>4. /\ m.symbols = published[m.number] /\ m.number \in Nat /\ m.number # 0
      /\ \A i \in 1..Len(wire') : wire'[i].symbols = published'[wire'[i].number]
  BY <1>1, <1>3 DEF WholeInv, WireTold, QuoteInv, Numbered, frames
<1>5. CacheWhole' /\ ChannelWhole' /\ WireTold'
  BY <1>1, <1>4 DEF WholeInv, CacheWhole, ChannelWhole, WireTold
<1>6. CASE Stale(m) /\ UNCHANGED <<feed, sending>>
  BY <1>1, <1>5, <1>6 DEF WholeInv, SendingWhole, LastWhole
<1>7. CASE ~Stale(m) /\ feed' = [feed EXCEPT !.last = m.number] /\ sending' = Quoted(m)
  <2>1. feed'.last = m.number /\ feed.last \in Nat
    BY <1>7 DEF QuoteInv, Numbered
  <2>2. ASSUME NEW q \in sending', NEW t \in Symbols, Linked(q.quote, t, published)
        PROVE  Reached(t, Change(q) - 1, Len(quotes), cache, quotes)
    <3>1. q.quote.change = m.number /\ q.quote.gap = AfterGap(m) /\ q.quote.first = (feed.last = 0)
      BY <1>7 DEF Quoted
    <3>2. feed.last # 0 /\ m.number > feed.last /\ m.number <= feed.last + 1
      <4>1. ~AfterGap(m) /\ feed.last # 0
        BY <2>2, <3>1, Zenon DEF Linked
      <4> QED  BY <1>4, <1>7, <2>1, <4>1 DEF Stale, AfterGap
    <3>3. Change(q) - 1 = feed.last /\ t \in published[feed.last]
      BY <1>4, <2>1, <2>2, <3>1, <3>2 DEF Linked, Change
    <3> QED  BY <1>1, <3>2, <3>3 DEF WholeInv, LastWhole
  <2>3. \A t \in published[m.number] : \E q \in sending' : q.symbol = t
    <3> TAKE t \in published[m.number]
    <3> DEFINE p == [symbol |-> t,
                     quote  |-> [change |-> m.number, sentAt |-> m.sentAt, receivedAt |-> clock,
                                 gap |-> AfterGap(m), first |-> feed.last = 0]]
    <3>1. p \in sending'
      BY <1>4, <1>7, Zenon DEF Quoted
    <3>2. p.symbol = t
      OBVIOUS
    <3> QED  BY <3>1, <3>2
  <2> QED  BY <1>1, <1>5, <2>1, <2>2, <2>3 DEF WholeInv, SendingWhole, LastWhole
<1> QED
  BY <1>1, <1>6, <1>7

LEMMA HandOverWhole ==
  ASSUME QuoteInv, WholeInv, NEW q \in sending, HandOver(q)
  PROVE  WholeInv'
<1>1. /\ sending' = sending \ {q} /\ quotes' = Append(quotes, q)
      /\ UNCHANGED <<published, wire, feed, cache>>
  BY DEF HandOver
<1>2. /\ Len(quotes) \in Nat /\ Len(quotes') = Len(quotes) + 1
      /\ \A i \in 1..Len(quotes) : quotes'[i] = quotes[i]
      /\ quotes'[Len(quotes) + 1] = q
  <2>1. quotes' = Append(quotes, q) /\ \E M : quotes \in Seq(M)
    BY <1>1 DEF QuoteInv, Numbered
  <2> QED  BY ONLY <2>1, Extended
<1>3. ASSUME NEW t, NEW k, NEW n \in 0..Len(quotes), NEW n2 \in n..Len(quotes'),
             Reached(t, k, n, cache, quotes)
      PROVE  Reached(t, k, n2, cache, quotes')
  BY <1>2, <1>3 DEF Reached
<1>4. WireTold' /\ CacheWhole'
  BY <1>1 DEF WholeInv, WireTold, CacheWhole
<1>5. ChannelWhole'
  <2> SUFFICES ASSUME NEW i \in 1..Len(quotes'), NEW t \in Symbols,
                      Linked(quotes'[i].quote, t, published)
               PROVE  Reached(t, Change(quotes'[i]) - 1, i - 1, cache, quotes')
    BY <1>1 DEF ChannelWhole
  <2>1. CASE i \in 1..Len(quotes)
    <3>1. Reached(t, Change(quotes[i]) - 1, i - 1, cache, quotes) /\ quotes'[i] = quotes[i]
      BY <1>2, <2>1 DEF WholeInv, ChannelWhole
    <3>2. i - 1 \in 0..Len(quotes) /\ i - 1 \in (i - 1)..Len(quotes')
      BY <1>2, <2>1
    <3> QED  BY <1>3, <3>1, <3>2
  <2>2. CASE i = Len(quotes) + 1
    <3>1. Reached(t, Change(q) - 1, Len(quotes), cache, quotes) /\ quotes'[i] = q
      BY <1>2, <2>2 DEF WholeInv, SendingWhole
    <3>2. i - 1 = Len(quotes) /\ Len(quotes) \in 0..Len(quotes) /\ Len(quotes) \in Len(quotes)..Len(quotes')
      BY <1>2, <2>2
    <3> QED  BY <1>3, <3>1, <3>2
  <2> QED  BY <1>2, <2>1, <2>2
<1>6. Len(quotes) \in 0..Len(quotes) /\ Len(quotes') \in Len(quotes)..Len(quotes')
  BY <1>2
<1>7. SendingWhole'
  BY <1>1, <1>3, <1>6 DEF WholeInv, SendingWhole
<1>8. LastWhole'
  <2> SUFFICES ASSUME feed.up, feed.last # 0, NEW t \in published[feed.last]
               PROVE  \/ Reached(t, feed.last, Len(quotes'), cache, quotes')
                      \/ \E p \in sending' : p.symbol = t
    BY <1>1 DEF LastWhole
  <2>1. CASE Reached(t, feed.last, Len(quotes), cache, quotes)
    BY <1>3, <1>6, <2>1
  <2>2. ASSUME NEW p \in sending, p.symbol = t, p = q
        PROVE  Reached(t, feed.last, Len(quotes'), cache, quotes')
    <3>1. Change(q) = feed.last /\ feed.last \in Nat
      BY DEF QuoteInv, Numbered
    <3>2. Len(quotes) + 1 \in 1..Len(quotes')
      BY <1>2
    <3> QED  BY <1>2, <2>2, <3>1, <3>2 DEF Reached
  <2> QED  BY <1>1, <2>1, <2>2 DEF WholeInv, LastWhole
<1> QED
  BY <1>4, <1>5, <1>7, <1>8 DEF WholeInv

(* The quote at the head of the channel has the message before it cached.   *)
LEMMA HandleWhole ==
  ASSUME QuoteInv, WholeInv, HandleQuote
  PROVE  WholeInv'
<1> DEFINE q == Head(quotes)
<1>1. /\ quotes # <<>> /\ quotes' = Tail(quotes)
      /\ cache' = [cache EXCEPT ![q.symbol] = q.quote]
      /\ UNCHANGED <<published, wire, feed, sending>>
  BY DEF HandleQuote
<1>2. \E M : quotes \in Seq(M)
  BY DEF QuoteInv, Numbered
<1>3. /\ Len(quotes) \in Nat /\ Len(quotes) >= 1 /\ Len(quotes') = Len(quotes) - 1
      /\ \A i \in 1..Len(quotes') : quotes'[i] = quotes[i + 1]
      /\ q = quotes[1]
  BY <1>1, <1>2, Shortened
<1> HIDE DEF q
<1>4. /\ \A t \in Symbols : cache'[t] = IF t = q.symbol THEN q.quote ELSE cache[t]
      /\ \A t \in Symbols : cache'[t].change \in Nat /\ cache[t].change \in Nat
      /\ \A t \in Symbols : cache'[t].change >= cache[t].change
      /\ \A i \in 1..Len(quotes) : Change(quotes[i]) \in Nat
  BY <1>1, HandleStep DEF QuoteInv, Numbered
<1>5. ASSUME NEW t \in Symbols, NEW k \in Int, NEW n \in 1..Len(quotes),
             Reached(t, k, n, cache, quotes)
      PROVE  Reached(t, k, n - 1, cache', quotes')
  <2>1. CASE cache[t].change >= k
    BY <1>4, <2>1 DEF Reached
  <2>2. ASSUME NEW j \in 1..n, quotes[j].symbol = t, Change(quotes[j]) >= k
        PROVE  Reached(t, k, n - 1, cache', quotes')
    <3>1. CASE j = 1
      BY <1>3, <1>4, <2>2, <3>1 DEF Reached, Change
    <3>2. CASE j # 1
      <4>1. j - 1 \in 1..(n - 1) /\ quotes'[j - 1] = quotes[j]
        BY <1>3, <3>2
      <4> QED  BY <2>2, <4>1 DEF Reached
    <3> QED  BY <3>1, <3>2
  <2> QED  BY <1>5, <2>1, <2>2 DEF Reached
<1>6. \A k : published[k] \subseteq Symbols \/ k \notin 1..frames
  BY DEF QuoteInv, Numbered, frames
<1>7. CacheWhole'
  <2> SUFFICES ASSUME NEW s \in Symbols, NEW t \in Symbols, Linked(cache'[s], t, published)
               PROVE  cache'[t].change >= cache'[s].change - 1
    BY <1>1 DEF CacheWhole
  <2>1. CASE s = q.symbol
    <3>1. Reached(t, Change(quotes[1]) - 1, 1 - 1, cache, quotes)
      BY <1>3, <1>4, <2>1 DEF WholeInv, ChannelWhole
    <3>2. cache[t].change >= Change(q) - 1
      BY <1>3, <3>1 DEF Reached
    <3> QED  BY <1>3, <1>4, <2>1, <3>2 DEF Change
  <2>2. CASE s # q.symbol
    BY <1>4, <2>2 DEF WholeInv, CacheWhole
  <2> QED  BY <2>1, <2>2
<1>8. ChannelWhole'
  <2> SUFFICES ASSUME NEW i \in 1..Len(quotes'), NEW t \in Symbols,
                      Linked(quotes'[i].quote, t, published)
               PROVE  Reached(t, Change(quotes'[i]) - 1, i - 1, cache', quotes')
    BY <1>1 DEF ChannelWhole
  <2>1. i + 1 \in 1..Len(quotes) /\ quotes'[i] = quotes[i + 1] /\ i \in 1..Len(quotes)
    BY <1>3
  <2>2. Reached(t, Change(quotes[i + 1]) - 1, i, cache, quotes)
    <3>1. (i + 1) - 1 = i
      BY <2>1
    <3>2. Reached(t, Change(quotes[i + 1]) - 1, (i + 1) - 1, cache, quotes)
      BY <2>1 DEF WholeInv, ChannelWhole
    <3> QED  BY <3>1, <3>2
  <2>3. Change(quotes[i + 1]) - 1 \in Int
    BY <1>4, <2>1
  <2> QED  BY <1>5, <2>1, <2>2, <2>3
<1>9. Len(quotes) \in 1..Len(quotes) /\ Len(quotes') = Len(quotes) - 1
  BY <1>3
<1>10. SendingWhole'
  <2>1. \A p \in sending : Change(p) - 1 \in Int
    BY DEF QuoteInv, Numbered
  <2> QED  BY <1>1, <1>5, <1>9, <2>1 DEF WholeInv, SendingWhole
<1>11. LastWhole'
  <2>1. feed.last \in Int /\ (feed.last # 0 => published[feed.last] \subseteq Symbols)
    BY <1>6 DEF QuoteInv, Numbered, frames
  <2> QED  BY <1>1, <1>5, <1>9, <2>1 DEF WholeInv, LastWhole
<1>12. WireTold'
  BY <1>1 DEF WholeInv, WireTold
<1> QED
  BY <1>7, <1>8, <1>10, <1>11, <1>12 DEF WholeInv

LEMMA NextWhole == QuoteInv /\ WholeInv /\ [QuoteNext]_quoteVars => WholeInv'
<1> SUFFICES ASSUME QuoteInv, WholeInv, [QuoteNext]_quoteVars PROVE WholeInv'
  OBVIOUS
<1>1. CASE ClockTicks \/ UNCHANGED quoteVars
  BY <1>1 DEF ClockTicks, quoteVars, WholeInv, WireTold, CacheWhole, ChannelWhole,
     SendingWhole, LastWhole
<1> QED
  BY <1>1, VenueWhole, WireWhole, ReadWhole, HandOverWhole, HandleWhole DEF QuoteNext

(* While the gate is open the strategy sees no quote whose message followed *)
(* one that it has not seen the whole of, unless a session began with the   *)
(* quote's message: what the sequence check of run_coinbase_connection      *)
(* promises to fresh_quote through the channel and the cache.               *)
THEOREM NoneSkipped == QuoteSpec => []GateWhole
<1>1. WholeInv => GateWhole
  <2> SUFFICES ASSUME WholeInv, GateReady, NEW s \in Symbols, NEW t \in Symbols,
                      Follows(cache[s], t)
               PROVE  cache[t].change >= cache[s].change - 1
    BY DEF GateWhole
  <2>1. Linked(cache[s], t, published)
    BY DEF GateReady, FreshQuote, Follows, Linked
  <2> QED  BY <2>1 DEF WholeInv, CacheWhole
<1> QED
  BY <1>1, InitQuotes, NextQuotes, InitWhole, NextWhole, PTL DEF QuoteSpec
=============================================================================
