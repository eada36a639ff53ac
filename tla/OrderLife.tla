------------------------------ MODULE OrderLife ------------------------------
(***************************************************************************)
(* What the live engine of src/src/engine.rs promises about an order, at   *)
(* the venue and in the order journal, through lost answers, failed        *)
(* appends and restarts: it is sent once, after its attempt was written    *)
(* ahead and before the attempt is closed, and every later record says     *)
(* only what has become true of it at the venue.                           *)
(***************************************************************************)
CONSTANT Orders

VARIABLES
  place,    \* each order at the venue
  written,  \* attempts with a write-ahead record
  named,    \* attempts recorded with the identity the venue gave
  closed,   \* attempts with a terminal record
  fill,     \* how far the record of each order's fill has come
  broken    \* fills recorded as failed on chain

recordVars == <<named, closed, fill, broken>>
vars == <<place, written, recordVars>>

(* A fill is known from a notice of the order, from its trade, from the     *)
(* balances.                                                                *)
Later(new, old) ==
  \/ old = "none" /\ new \in {"order", "trade", "settled"}
  \/ old = "order" /\ new \in {"trade", "settled"}
  \/ old = "trade" /\ new = "settled"

Init ==
  /\ place = [o \in Orders |-> "unsent"]
  /\ fill = [o \in Orders |-> "none"]
  /\ written = {} /\ named = {} /\ closed = {} /\ broken = {}

Write(o) ==
  /\ o \notin written /\ written' = written \cup {o}
  /\ UNCHANGED <<place, recordVars>>

(* The only way to the venue, and there is no way back.                     *)
Send(o) ==
  /\ o \in written \ closed /\ place[o] = "unsent"
  /\ place' = [place EXCEPT ![o] = "live"]
  /\ UNCHANGED <<written, recordVars>>

(* Orders at the venue come to an end...                                    *)
Ends(o) ==
  \/ place[o] = "live" /\ place'[o] \in {"gone", "filled"}
  \/ place[o] = "filled" /\ place'[o] = "failed"

(* ...and the records follow: an order is named once it was sent, closed    *)
(* while it is not live, and its fill is recorded, in order, once there is  *)
(* one.                                                                     *)
Advances(o) ==
  Later(fill'[o], fill[o]) /\ place'[o] \in {"filled", "failed"}

Records(new, old, ready) == old \subseteq new /\ new \subseteq old \cup ready

Follow ==
  /\ place' = [o \in Orders |-> place'[o]] /\ fill' = [o \in Orders |-> fill'[o]]
  /\ \A o \in Orders : place'[o] = place[o] \/ Ends(o)
  /\ \A o \in Orders : fill'[o] = fill[o] \/ Advances(o)
  /\ Records(named', named, {o \in Orders : place'[o] # "unsent"})
  /\ Records(closed', closed, {o \in written : place'[o] # "live"})
  /\ Records(broken', broken, {o \in Orders : place'[o] = "failed"})
  /\ UNCHANGED written

Next == Follow \/ \E o \in Orders : Write(o) \/ Send(o)

Spec == Init /\ [][Next]_vars

=============================================================================
