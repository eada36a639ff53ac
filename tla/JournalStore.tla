---------------------------- MODULE JournalStore ----------------------------
(***************************************************************************)
(* What the journal of src/src/journal.rs promises its engine: a store of  *)
(* one state.  An append puts a state in flight; until the append is       *)
(* acknowledged or given up, a restart may find the old state, the new     *)
(* one, or a journal that refuses to open; with nothing in flight a        *)
(* restart finds the acknowledged state and nothing else.                  *)
(***************************************************************************)
CONSTANT States

VARIABLES
  acked,     \* the state the engine was last told is durable
  inflight,  \* the state being appended, if any: a set of at most one
  cell       \* the state a restart would find: empty if it would refuse

storeVars == <<acked, inflight, cell>>

StoreInit == \E s \in States : acked = s /\ inflight = {} /\ cell = {s}

Findable(new) == {{}, {acked}, new}

Begin(s) ==
  /\ inflight = {}
  /\ inflight' = {s} /\ cell' \in Findable({s})
  /\ UNCHANGED acked

Progress ==
  /\ inflight # {}
  /\ cell' \in Findable(inflight)
  /\ UNCHANGED <<acked, inflight>>

Acknowledge ==
  /\ inflight # {} /\ cell = inflight
  /\ acked' \in inflight /\ inflight' = {}
  /\ UNCHANGED cell

Abandon ==
  /\ inflight # {}
  /\ inflight' = {} /\ cell' = {acked}
  /\ UNCHANGED acked

StoreNext ==
  \/ \E s \in States : Begin(s)
  \/ Progress \/ Acknowledge \/ Abandon

StoreSpec == StoreInit /\ [][StoreNext]_storeVars

=============================================================================
