---------------------------- MODULE RateLimiter ----------------------------
(***************************************************************************)
(* The sliding-window limiter of src/src/rate_limit.rs, as the event loop  *)
(* of src/src/engine.rs asks it before every order and every cancellation  *)
(* with the wall clock, which may be set back.                             *)
(***************************************************************************)
EXTENDS Naturals, Sequences, FiniteSets, SequencesExt

CONSTANTS
  RateLimit, RateWindow,  \* limit, window_ms
  MaxInstant,             \* bound: true time
  MaxSetBack              \* bound: how far the clock is set back

ASSUME RateAssumption ==
  /\ RateLimit \in Nat \ {0} /\ RateWindow \in Nat \ {0}
  /\ MaxInstant \in Nat /\ MaxSetBack \in Nat

VARIABLES
  instant,   \* true time
  setBack,   \* how far the clock is behind it by now
  accepted,  \* accepted_at_ms
  refusals,  \* the last request was refused
  passed     \* auxiliary: the true time of each accepted request

rateVars == <<instant, setBack, accepted, refusals, passed>>

RateInit == instant = MaxSetBack /\ setBack = 0 /\ accepted = <<>> /\ refusals = FALSE /\ passed = <<>>

Clock == instant - setBack

-----------------------------------------------------------------------------
(* evict_expired drops stamps from the front while they are a window old    *)
(* (saturating: one of the future is not).                                  *)
MutExpired(stamp, now) == now < stamp \/ now - stamp >= RateWindow
Expired(stamp, now) == now >= stamp /\ now - stamp >= RateWindow
Evicted(stamps, now) ==
  LET first == SelectInSeq(stamps, LAMBDA stamp : ~Expired(stamp, now)) IN
  IF first = 0 THEN <<>> ELSE SubSeq(stamps, first, Len(stamps))

(* retry_after_ms.                                                          *)
MutRetryAfter(stamps, now) ==
  LET left == Evicted(stamps, now) IN
  IF Len(left) < RateLimit \/ Last(left) + RateWindow < now THEN 0
  ELSE Last(left) + RateWindow - now
RetryAfter(stamps, now) ==
  LET left == Evicted(stamps, now) IN
  IF Len(left) < RateLimit \/ Head(left) + RateWindow < now THEN 0
  ELSE Head(left) + RateWindow - now

(* try_acquire: an accepted request is stamped, a refused one leaves no     *)
(* trace but the eviction.                                                  *)
TryAcquire ==
  LET left == Evicted(accepted, Clock) IN
  /\ \/ /\ Len(left) < RateLimit
        /\ accepted' = Append(left, Clock) /\ passed' = Append(passed, instant)
        /\ refusals' = FALSE
     \/ /\ Len(left) >= RateLimit
        /\ accepted' = left /\ refusals' = TRUE /\ UNCHANGED passed
  /\ UNCHANGED <<instant, setBack>>

TimePasses ==
  /\ instant < MaxInstant /\ instant' = instant + 1
  /\ UNCHANGED <<setBack, accepted, refusals, passed>>
ClockSetBack ==
  /\ setBack < MaxSetBack /\ setBack' = setBack + 1
  /\ UNCHANGED <<instant, accepted, refusals, passed>>

RateNext == TryAcquire \/ TimePasses \/ ClockSetBack
RateSpec == RateInit /\ [][RateNext]_rateVars

-----------------------------------------------------------------------------
(* In no window of true time are more requests let through than the limit,  *)
(* also when the clock is set back between them.                            *)
RateBounded ==
  \A t \in 0..instant :
    Cardinality({k \in DOMAIN passed : passed[k] >= t /\ passed[k] < t + RateWindow}) <= RateLimit

(* The wait a refused caller is told is enough: a request at that time of   *)
(* the clock is accepted if none was before it.                             *)
RetryHonest ==
  Len(Evicted(accepted, Clock + RetryAfter(accepted, Clock))) < RateLimit
=============================================================================
