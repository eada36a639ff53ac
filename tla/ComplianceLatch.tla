-------------------------- MODULE ComplianceLatch --------------------------
(***************************************************************************)
(* The persistent compliance latch of src/src/compliance.rs and how the    *)
(* event loop of src/src/engine.rs holds orders under it: the flag file,   *)
(* the guard's copy, the loop's verdict, which every geographic check      *)
(* replaces, and the crash or failed write between any two of them.        *)
(*                                                                         *)
(* Orders are counted. In paper mode they are durable (the journal holds   *)
(* them); in live mode they rest at the venue.                             *)
(***************************************************************************)
EXTENDS Naturals

CONSTANTS
  MaxOpen,    \* bound: open orders
  MaxCrashes  \* bound: crashes and power losses

ASSUME LatchAssumption == MaxOpen \in Nat /\ MaxCrashes \in Nat

VARIABLES
  mode,     \* BotMode
  file,     \* flags in the latch file as a reader sees them
  synced,   \* flags in it that a power loss cannot undo
  guard,    \* flags of ComplianceGuard::state
  verdict,  \* the loop's ComplianceState: flags, and geography eligible
  stage,    \* of the loop
  about,    \* the flag an observation calls for
  router,   \* the loop has an engine to send orders to
  paused, enabled,  \* paused, live_submission_enabled
  orders,   \* open orders
  latched,  \* auxiliary: flags whose latching was reported done
  crashes

gates     == <<paused, enabled>>
latchVars == <<mode, file, synced, guard, verdict, stage, about, router, gates, orders, latched,
               crashes>>

Flags  == {"prohibited", "confidential"}
Stages == {"down", "running", "observed", "latched", "stopping"}
Verdicts == [flags : SUBSET Flags, eligible : BOOLEAN]

LatchTypeOK ==
  /\ mode \in {"paper", "live"} /\ stage \in Stages /\ about \in Flags
  /\ file \subseteq Flags /\ synced \subseteq Flags /\ guard \subseteq Flags
  /\ verdict \in Verdicts /\ latched \subseteq Flags
  /\ router \in BOOLEAN /\ paused \in BOOLEAN /\ enabled \in BOOLEAN
  /\ orders \in Nat /\ crashes \in Nat

(* No flag has been latched and no process runs.                            *)
LatchInit ==
  /\ mode \in {"paper", "live"} /\ stage = "down" /\ about \in Flags
  /\ file = {} /\ synced = {} /\ guard = {} /\ latched = {}
  /\ verdict = [flags |-> {}, eligible |-> FALSE]
  /\ router = FALSE /\ paused = TRUE /\ enabled = FALSE
  /\ orders = 0 /\ crashes = 0

-----------------------------------------------------------------------------
(* check_compliance, and the verdict that carries the persistent latch.     *)
Allows(v)        == v.flags = {} /\ (mode = "live" => v.eligible)
MutWithLatch(flags, eligible) == [flags |-> {}, eligible |-> eligible]
WithLatch(flags, eligible) == [flags |-> flags, eligible |-> eligible]

(* In paper mode a cancellation clears the book; at the venue some of the   *)
(* orders may turn out to be still open, which latches the live engine.     *)
Cancelled == IF mode = "paper" THEN {0} ELSE 0..orders

(* The process starts from the latch file. Live trading starts only if no   *)
(* flag is latched and geography and account are verified, and start-up     *)
(* recovery may cancel orders; the loop runs in any case.                   *)
Start ==
  /\ stage = "down" /\ stage' = "running"
  /\ guard' = file
  /\ \E verified \in BOOLEAN : router' = (mode = "paper" \/ (verified /\ guard' = {}))
  /\ verdict' = WithLatch(guard', mode = "live" /\ router')
  /\ paused' = TRUE /\ enabled' = FALSE
  /\ orders' \in (IF mode = "live" /\ router' THEN Cancelled ELSE {orders})
  /\ UNCHANGED <<mode, file, synced, about, latched, crashes>>

(* A trade of a controlled wallet, or of one whose policy is confidential.  *)
Observe(flag) ==
  /\ stage = "running" /\ stage' = "observed" /\ about' = flag
  /\ UNCHANGED <<mode, file, synced, guard, verdict, router, gates, orders, latched, crashes>>

(* latch: the file is written and synced before the guard changes, the      *)
(* verdict follows and trading is paused.                                   *)
Latch ==
  LET staged == guard \cup {about} IN
  /\ stage = "observed" /\ stage' = "latched"
  /\ file' = staged /\ synced' = staged /\ guard' = staged
  /\ latched' = latched \cup {about}
  /\ verdict' = [verdict EXCEPT !.flags = staged]
  /\ paused' = TRUE /\ enabled' = FALSE
  /\ UNCHANGED <<mode, about, router, orders, crashes>>

(* The write fails before the rename, or after it when the directory cannot *)
(* be synced: the error ends the loop.                                      *)
MutLatchFails ==
  /\ stage = "observed" /\ stage' = "running"
  /\ file' \in {file, guard \cup {about}}
  /\ UNCHANGED <<mode, synced, guard, verdict, about, router, gates, orders, latched, crashes>>
LatchFails ==
  /\ stage = "observed" /\ stage' = "stopping"
  /\ file' \in {file, guard \cup {about}}
  /\ UNCHANGED <<mode, synced, guard, verdict, about, router, gates, orders, latched, crashes>>

(* The open orders are cancelled; a paper cancellation that cannot be       *)
(* recorded ends the loop.                                                  *)
CancelForCompliance ==
  /\ stage = "latched"
  /\ \/ stage' = "running" /\ orders' \in (IF router THEN Cancelled ELSE {orders})
     \/ stage' = "stopping" /\ UNCHANGED orders
  /\ UNCHANGED <<mode, file, synced, guard, verdict, about, router, gates, latched, crashes>>

(* A geographic check answers, or fails: the new verdict takes the place of *)
(* the old one, and live trading is stopped or may be enabled again.        *)
ReplaceVerdict(eligible) ==
  /\ stage = "running" /\ verdict' = WithLatch(guard, eligible)
  /\ \/ /\ mode = "live" /\ router /\ ~Allows(verdict')
        /\ paused' = TRUE /\ enabled' = FALSE /\ orders' \in Cancelled
     \/ /\ mode = "live" /\ router /\ Allows(verdict')
        /\ enabled' \in {enabled, TRUE} /\ UNCHANGED <<paused, orders>>
     \/ /\ mode = "paper" \/ ~router
        /\ UNCHANGED <<gates, orders>>
  /\ UNCHANGED <<mode, file, synced, guard, stage, about, router, latched, crashes>>

(* The geographic check is too old.                                         *)
GeographyStale ==
  /\ verdict.eligible /\ verdict' = [verdict EXCEPT !.eligible = FALSE]
  /\ UNCHANGED <<mode, file, synced, guard, stage, about, router, gates, orders, latched, crashes>>

Resume ==
  /\ stage = "running" /\ router /\ (mode = "live" => enabled)
  /\ paused' = FALSE
  /\ UNCHANGED <<mode, file, synced, guard, verdict, stage, about, router, enabled, orders, latched,
                 crashes>>

(* An order passes the pre-trade checks.                                    *)
PlaceOrder ==
  /\ stage = "running" /\ router /\ ~paused /\ Allows(verdict)
  /\ orders < MaxOpen /\ orders' = orders + 1
  /\ UNCHANGED <<mode, file, synced, guard, verdict, stage, about, router, gates, latched, crashes>>

(* An order is filled or expires.                                           *)
OrderEnds ==
  /\ orders > 0 /\ (mode = "paper" => stage = "running") /\ orders' = orders - 1
  /\ UNCHANGED <<mode, file, synced, guard, verdict, stage, about, router, gates, latched, crashes>>

(* The end of the loop cancels what is open, if that succeeds.              *)
Shutdown ==
  /\ stage = "running" /\ stage' = "stopping"
  /\ UNCHANGED <<mode, file, synced, guard, verdict, about, router, gates, orders, latched, crashes>>
CleanUp ==
  /\ stage = "stopping" /\ stage' = "down"
  /\ orders' \in {orders} \cup (IF router THEN Cancelled ELSE {})
  /\ UNCHANGED <<mode, file, synced, guard, verdict, about, router, gates, latched, crashes>>

(* The process dies, and with the machine's power what was not synced.      *)
Crash ==
  /\ crashes < MaxCrashes /\ crashes' = crashes + 1
  /\ stage' = "down" /\ file' \in {file, synced}
  /\ UNCHANGED <<mode, synced, guard, verdict, about, router, gates, orders, latched>>

LatchNext ==
  \/ Start \/ Latch \/ LatchFails \/ CancelForCompliance \/ GeographyStale
  \/ Resume \/ PlaceOrder \/ OrderEnds \/ Shutdown \/ CleanUp \/ Crash
  \/ \E flag \in Flags : Observe(flag)
  \/ \E eligible \in BOOLEAN : ReplaceVerdict(eligible)

LatchSpec == LatchInit /\ [][LatchNext]_latchVars

-----------------------------------------------------------------------------
(* A latch that was reported done stays: in the file whatever crashes       *)
(* follow, and in the verdict of every later run, however often a           *)
(* geographic check replaces it.                                            *)
LatchHeld ==
  latched \subseteq file \cap synced /\ (stage = "running" => latched \subseteq verdict.flags)

(* No order is placed while the latch file holds a flag, one whose write    *)
(* was reported as failed included.                                         *)
NoOrderUnderLatch == [][orders' > orders => file = {}]_latchVars
=============================================================================
