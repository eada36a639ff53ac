------------------------ MODULE AccountLedgerProofs ------------------------
(***************************************************************************)
(* Theorems about AccountLedger for any fills, any orders they belong to   *)
(* and any faults: a restart recovers what the process held, the durable   *)
(* ledger keeps the promise of FillBook, the mark losses are measured from *)
(* is never lowered, the proof of the balances rejects a true account by   *)
(* no more than the rounding of its notionals (and does so), the account   *)
(* in use never goes back to an earlier read, and it shows every recorded  *)
(* fill unless a settlement takes other fills for those it settles, which  *)
(* is so where their numbers tell them apart. Nothing else is assumed but  *)
(* LedgerAssumption.                                                       *)
(***************************************************************************)
EXTENDS AccountLedger, SumTheorems, SequenceTheorems, TLAPS

Pendings == [baseline : Account, trades : SUBSET Trades, unresolved : SUBSET Orders]

Typed ==
  /\ standing \in History /\ shown \in Account /\ queue \in Seq(Notice)
  /\ up \in BOOLEAN /\ reading \in Reading
  /\ ledger \in History /\ settled \subseteq Trades
  /\ pending \in Pendings
  /\ account \in Account /\ latched \in BOOLEAN /\ journal \in Journal

(* The journal by itself: what is settled was noted, what is open is        *)
(* compared with one account.                                               *)
Consistent(j) ==
  /\ j.settled \subseteq Noticed(j)
  /\ \A a, b \in OpenBaselines(j) : a = b

(* Whatever is open in the journal is pending in memory, against the same   *)
(* account.                                                                 *)
Covered(j, p) ==
  /\ OpenTrades(j) \subseteq p.trades /\ OpenOrders(j) \subseteq p.unresolved
  /\ \A a \in OpenBaselines(j) : a = p.baseline

(* Nothing is pending in memory that is not open in the journal.            *)
Exact(j, p) == p.trades \subseteq OpenTrades(j) /\ p.unresolved \subseteq OpenOrders(j)

(* What the process has of the journal, p pending, l latched.               *)
Mirrors(j, p, l) ==
  /\ Failures(j) # {} => l
  /\ Covered(j, p)
  /\ ~l => Exact(j, p)
  /\ ~IsOpen(p) => p = NoPending

InMemory ==
  ledger = journal.status /\ settled = journal.settled /\ Mirrors(journal, pending, latched)

(* Only a running process audits, only a starting one reads the start-up.   *)
Fits == (Audits => up) /\ (reading.of = "startup" => ~up)

LedgerInv ==
  /\ Typed /\ Consistent(journal) /\ Fits
  /\ up => InMemory

-----------------------------------------------------------------------------
(* News of fills: the latest status of a trade is one of the two compared,  *)
(* and a failure is never taken back.                                       *)
LEMMA LatestStatus ==
  ASSUME NEW old \in Statuses \cup {"none"}, NEW new \in Statuses
  PROVE  /\ Latest(old, new) \in Statuses
         /\ Active(Latest(old, new)) => Active(new) \/ Active(old)
         /\ old # "none" => (Active(Latest(old, new)) => Active(old))
         /\ Active(new) /\ (old = "none" \/ Active(old)) => Active(Latest(old, new))
         /\ ~Active(new) => ~Active(Latest(old, new))
  BY DEF Latest, Statuses, Active, Rank

(* A history of which some trades are news.                                 *)
Heard(S, h) == S \subseteq Trades /\ h \in History /\ \A t \in S : h[t] # "none"

LEMMA NotedHistory ==
  ASSUME NEW known \in History, NEW S, NEW h, Heard(S, h)
  PROVE  /\ Noted(known, S, h) \in History
         /\ \A t \in Trades \ S : Noted(known, S, h)[t] = known[t]
         /\ \A t \in S : /\ Noted(known, S, h)[t] = Latest(known[t], h[t])
                         /\ h[t] \in Statuses /\ known[t] \in Statuses \cup {"none"}
                         /\ Noted(known, S, h)[t] \in Statuses
<1>1. \A t \in S : h[t] \in Statuses /\ known[t] \in Statuses \cup {"none"}
  BY DEF Heard, History
<1>2. \A t \in S : Latest(known[t], h[t]) \in Statuses
  BY <1>1, LatestStatus
<1>3. \A t \in Trades \ S : known[t] \in Statuses \cup {"none"}
  BY DEF History
<1> QED
  BY <1>1, <1>2, <1>3 DEF Noted, Heard, History

(* A journal k with news that journal j had not.                            *)
Follows(k, j, S, h, base) ==
  /\ k.status = Noted(j.status, S, h)
  /\ \A t \in Trades : k.trade[t] = IF t \in S /\ j.status[t] = "none" THEN base ELSE j.trade[t]
  /\ k.ordered = j.ordered /\ k.order = j.order /\ k.settled = j.settled

LEMMA JournaledRecord ==
  ASSUME NEW j \in Journal, NEW S, NEW h, Heard(S, h), NEW base \in Account
  PROVE  /\ Journaled(j, S, h, base) \in Journal
         /\ Follows(Journaled(j, S, h, base), j, S, h, base)
<1>1. /\ j.status \in History /\ j.trade \in [Trades -> Account]
  BY DEF Journal
<1>2. Noted(j.status, S, h) \in History
  BY <1>1, NotedHistory
<1>3. [t \in Trades |-> IF t \in S /\ j.status[t] = "none" THEN base ELSE j.trade[t]]
        \in [Trades -> Account]
  BY <1>1
<1> DEFINE x == Noted(j.status, S, h)
           y == [t \in Trades |-> IF t \in S /\ j.status[t] = "none" THEN base ELSE j.trade[t]]
           k == [j EXCEPT !.status = x, !.trade = y]
<1>4. Journaled(j, S, h, base) = k
  BY DEF Journaled
<1>5. x \in History /\ y \in [Trades -> Account]
  BY <1>2, <1>3
<1> HIDE DEF x, y
<1>6. k \in Journal
  BY <1>5 DEF Journal
<1>7. k.status = x /\ k.trade = y
  BY <1>5 DEF Journal
<1>8. k.ordered = j.ordered /\ k.order = j.order /\ k.settled = j.settled
  BY <1>5 DEF Journal
<1> HIDE DEF k
<1> QED
  BY <1>4, <1>6, <1>7, <1>8 DEF x, y, Follows

-----------------------------------------------------------------------------
(* What the journal says after news: nothing that was noted is lost, and    *)
(* what is open is compared with the account it was compared with before,   *)
(* or with the one in use if nothing was open.                              *)
LEMMA NewsNoted ==
  ASSUME NEW j \in Journal, NEW S, NEW h, Heard(S, h), NEW base, NEW k, Follows(k, j, S, h, base)
  PROVE  /\ Noticed(k) = Noticed(j) \cup S
         /\ Failures(j) \subseteq Failures(k)
         /\ Failures(k) \subseteq Failures(j) \cup {t \in S : ~Active(h[t])}
         /\ {t \in S : ~Active(h[t])} \subseteq Failures(k)
         /\ OpenTrades(k) \subseteq OpenTrades(j) \cup ({t \in S : Active(h[t])} \ j.settled)
         /\ \A t \in S : j.status[t] # "none" /\ t \in OpenTrades(k) => t \in OpenTrades(j)
         /\ OpenOrders(k) \subseteq OpenOrders(j)
<1>1. k.status = Noted(j.status, S, h) /\ k.ordered = j.ordered /\ k.settled = j.settled
  BY DEF Follows
<1>0. j.status \in History
  BY DEF Journal
<1>2. /\ \A t \in Trades \ S : k.status[t] = j.status[t]
      /\ \A t \in S : /\ k.status[t] = Latest(j.status[t], h[t])
                      /\ h[t] \in Statuses /\ j.status[t] \in Statuses \cup {"none"}
                      /\ k.status[t] \in Statuses
  BY <1>0, <1>1, NotedHistory
<1>3. \A t \in S : k.status[t] # "none"
  BY <1>2 DEF Statuses
<1>4. S \subseteq Trades
  BY DEF Heard
<1>5. Noticed(k) = Noticed(j) \cup S
  BY <1>2, <1>3, <1>4 DEF Noticed
<1>6. \A t \in S :
        /\ Active(k.status[t]) => Active(h[t]) \/ Active(j.status[t])
        /\ j.status[t] # "none" => (Active(k.status[t]) => Active(j.status[t]))
        /\ Active(h[t]) /\ (j.status[t] = "none" \/ Active(j.status[t])) => Active(k.status[t])
        /\ ~Active(h[t]) => ~Active(k.status[t])
  BY <1>2, LatestStatus
<1>7. Failures(j) \subseteq Failures(k)
  BY <1>2, <1>5, <1>6 DEF Failures, Noticed, Active
<1>8. Failures(k) \subseteq Failures(j) \cup {t \in S : ~Active(h[t])}
  BY <1>2, <1>4, <1>5, <1>6 DEF Failures, Noticed, Active
<1>9. {t \in S : ~Active(h[t])} \subseteq Failures(k)
  BY <1>4, <1>5, <1>6 DEF Failures, Active
<1>10. OpenTrades(k) \subseteq OpenTrades(j) \cup ({t \in S : Active(h[t])} \ j.settled)
  BY <1>1, <1>2, <1>4, <1>5, <1>6 DEF OpenTrades, Noticed, Active
<1>11. \A t \in S : j.status[t] # "none" /\ t \in OpenTrades(k) => t \in OpenTrades(j)
  BY <1>1, <1>4, <1>6 DEF OpenTrades, Noticed, Active
<1>12. OpenOrders(k) \subseteq OpenOrders(j)
  BY <1>1, <1>5 DEF OpenOrders, OrdersOf
<1> QED
  BY <1>5, <1>7, <1>8, <1>9, <1>10, <1>11, <1>12

LEMMA OneBaseline ==
  ASSUME NEW j \in Journal, NEW S, NEW h, Heard(S, h), NEW base, NEW k, Follows(k, j, S, h, base),
         \A a \in OpenBaselines(j) : a = base
  PROVE  \A a \in OpenBaselines(k) : a = base
<1>1. /\ \A t \in Trades : k.trade[t] = IF t \in S /\ j.status[t] = "none" THEN base ELSE j.trade[t]
      /\ k.order = j.order
  BY DEF Follows
<1>2. /\ OpenTrades(k) \subseteq OpenTrades(j) \cup S
      /\ \A t \in S : j.status[t] # "none" /\ t \in OpenTrades(k) => t \in OpenTrades(j)
      /\ OpenOrders(k) \subseteq OpenOrders(j)
  BY NewsNoted
<1>3. OpenTrades(k) \subseteq Trades
  BY DEF OpenTrades, Noticed
<1>4. \A t \in OpenTrades(k) : k.trade[t] = base
  BY <1>1, <1>2, <1>3 DEF OpenBaselines
<1>5. \A o \in OpenOrders(k) : k.order[o] = base
  BY <1>1, <1>2 DEF OpenBaselines
<1> QED
  BY <1>4, <1>5 DEF OpenBaselines

-----------------------------------------------------------------------------
(* Recording news of fills keeps memory and journal in step: the common     *)
(* part of TakeTrade, TakeConnected and AuditApplies.                       *)
LEMMA PendingOpen ==
  ASSUME Typed, InMemory
  PROVE  /\ Baseline \in Account
         /\ \A a \in OpenBaselines(journal) : a = Baseline
         /\ IsOpen(pending) => Baseline = pending.baseline
<1>1. Baseline \in Account
  BY DEF Typed, Baseline, Pendings
<1>2. ASSUME NEW a \in OpenBaselines(journal)
      PROVE  IsOpen(pending)
  <2>1. OpenTrades(journal) # {} \/ OpenOrders(journal) # {}
    BY <1>2 DEF OpenBaselines
  <2> QED  BY <2>1 DEF InMemory, Mirrors, Covered, IsOpen
<1> QED
  BY <1>1, <1>2 DEF InMemory, Mirrors, Covered, Baseline

LEMMA OpenedPending ==
  ASSUME Typed, InMemory, NEW S, NEW h, Heard(S, h)
  PROVE  LET p == OpenedBy(S, h)
             new == {t \in S : Active(h[t])} \ settled
         IN /\ p \in Pendings
            /\ p.trades = pending.trades \cup new
            /\ p.unresolved = pending.unresolved \ OrdersOf(new)
            /\ new = {} => p = pending
            /\ new # {} => p.baseline = Baseline
            /\ ~IsOpen(p) => p = NoPending
<1> DEFINE new == {t \in S : Active(h[t])} \ settled
           opened == [baseline |-> Baseline, trades |-> pending.trades \cup new,
                      unresolved |-> pending.unresolved \ OrdersOf(new)]
<1>1. /\ pending \in Pendings /\ pending.trades \subseteq Trades
      /\ pending.unresolved \subseteq Orders /\ Baseline \in Account
  BY PendingOpen DEF Typed, Pendings
<1>2. new \subseteq Trades
  BY DEF Heard
<1>3. OpenedBy(S, h) = IF new = {} THEN pending ELSE opened
  BY DEF OpenedBy
<1>4. OrdersOf({}) = {}
  BY DEF OrdersOf
<1>5. ~IsOpen(pending) => pending = NoPending
  BY DEF InMemory, Mirrors
<1> HIDE DEF new
<1>6. opened \in Pendings
  BY <1>1, <1>2 DEF Pendings
<1>7. CASE new = {}
  BY <1>1, <1>3, <1>4, <1>5, <1>7 DEF new
<1>8. CASE new # {}
  <2>1. IsOpen(opened)
    BY <1>8 DEF IsOpen
  <2> QED  BY <1>3, <1>6, <1>8, <2>1 DEF new
<1> QED
  BY <1>7, <1>8

LEMMA RecordedNews ==
  ASSUME LedgerInv, InMemory, NEW S, NEW h, Heard(S, h)
  PROVE  LET k == Journaled(journal, S, h, Baseline)
         IN /\ k \in Journal /\ k.status = Noted(ledger, S, h) /\ k.settled = settled
            /\ Noted(ledger, S, h) \in History
            /\ Noticed(k) = Noticed(journal) \cup S
            /\ Failures(journal) \subseteq Failures(k)
            /\ Consistent(k)
            /\ OpenedBy(S, h) \in Pendings
            /\ Mirrors(k, OpenedBy(S, h), latched \/ FailedIn(S, h))
<1> DEFINE new == {t \in S : Active(h[t])} \ settled
<1>1. /\ journal \in Journal /\ Typed /\ Baseline \in Account
      /\ \A a \in OpenBaselines(journal) : a = Baseline
      /\ IsOpen(pending) => Baseline = pending.baseline
  BY PendingOpen DEF LedgerInv, Typed
<1>2. PICK k : k = Journaled(journal, S, h, Baseline)
  OBVIOUS
<1>3. k \in Journal /\ Follows(k, journal, S, h, Baseline)
  BY <1>1, <1>2, JournaledRecord
<1>4. /\ Noticed(k) = Noticed(journal) \cup S
      /\ Failures(journal) \subseteq Failures(k)
      /\ Failures(k) \subseteq Failures(journal) \cup {t \in S : ~Active(h[t])}
      /\ {t \in S : ~Active(h[t])} \subseteq Failures(k)
      /\ OpenTrades(k) \subseteq OpenTrades(journal) \cup ({t \in S : Active(h[t])} \ journal.settled)
      /\ \A t \in S : journal.status[t] # "none" /\ t \in OpenTrades(k) => t \in OpenTrades(journal)
      /\ OpenOrders(k) \subseteq OpenOrders(journal)
  BY <1>1, <1>3, NewsNoted
<1>5. \A a \in OpenBaselines(k) : a = Baseline
  BY <1>1, <1>3, OneBaseline
<1>6. k.status = Noted(ledger, S, h) /\ k.settled = settled /\ k.ordered = journal.ordered
  BY <1>3 DEF Follows, InMemory
<1>7. Noted(ledger, S, h) \in History
  BY <1>3, <1>6 DEF Journal
<1>8. Consistent(k)
  BY <1>4, <1>5, <1>6 DEF Consistent, LedgerInv, InMemory
<1>9. PICK p : p = OpenedBy(S, h)
  OBVIOUS
<1>10. /\ p \in Pendings
       /\ p.trades = pending.trades \cup new
       /\ p.unresolved = pending.unresolved \ OrdersOf(new)
       /\ new = {} => p = pending
       /\ new # {} => p.baseline = Baseline
       /\ ~IsOpen(p) => p = NoPending
  BY ONLY <1>1, <1>9, OpenedPending, InMemory, Heard(S, h)
<1>11. Failures(k) # {} => latched \/ FailedIn(S, h)
  BY <1>4 DEF InMemory, Mirrors, FailedIn
<1>12. new = {t \in S : Active(h[t])} \ journal.settled /\ new \subseteq Noticed(k)
  BY <1>4 DEF InMemory
<1> HIDE DEF new
<1>13. OpenTrades(k) \subseteq p.trades
  BY <1>4, <1>10, <1>12 DEF InMemory, Mirrors, Covered
<1>14. OpenOrders(k) \cap OrdersOf(new) = {}
  BY <1>12 DEF OpenOrders, OrdersOf
<1>15. OpenOrders(k) \subseteq p.unresolved
  BY <1>4, <1>10, <1>14 DEF InMemory, Mirrors, Covered
<1>16. ASSUME NEW a \in OpenBaselines(k) PROVE a = p.baseline
  <2>1. OpenTrades(k) # {} \/ OpenOrders(k) # {}
    BY <1>16 DEF OpenBaselines
  <2>2. IsOpen(p)
    BY <1>13, <1>15, <2>1 DEF IsOpen
  <2> QED  BY <1>1, <1>5, <1>10, <1>16, <2>2
<1>17. Covered(k, p)
  BY <1>13, <1>15, <1>16 DEF Covered
<1>18. ASSUME ~(latched \/ FailedIn(S, h)) PROVE Exact(k, p)
  <2>1. Failures(k) = {} /\ \A t \in S : Active(h[t])
    BY <1>11, <1>18 DEF FailedIn
  <2>2. OpenTrades(k) = Noticed(k) \ settled /\ OpenTrades(journal) = Noticed(journal) \ settled
    BY <1>4, <1>6, <2>1 DEF OpenTrades, Failures, InMemory
  <2>3. /\ pending.trades \subseteq OpenTrades(journal)
        /\ pending.unresolved \subseteq OpenOrders(journal)
    BY <1>18 DEF InMemory, Mirrors, Exact
  <2>4. p.trades \subseteq OpenTrades(k)
    BY <1>4, <1>10, <1>12, <2>2, <2>3 DEF InMemory
  <2>5. settled \subseteq Noticed(journal)
    BY DEF LedgerInv, Consistent, InMemory
  <2>6. S \subseteq new \cup Noticed(journal)
    BY <2>1, <2>5 DEF new
  <2>7. p.unresolved \subseteq OpenOrders(k)
    BY <1>4, <1>6, <1>10, <2>3, <2>6 DEF OpenOrders, OrdersOf
  <2> QED  BY <2>4, <2>7 DEF Exact
<1> QED
  BY <1>2, <1>3, <1>4, <1>6, <1>7, <1>8, <1>9, <1>10, <1>11, <1>17, <1>18 DEF Mirrors

-----------------------------------------------------------------------------
(* A settlement of everything that is open leaves nothing open.             *)
NothingOpen(k) == Mirrors(k, NoPending, FALSE)
SettledBy(k, j, X) == k = [j EXCEPT !.settled = @ \cup X]

LEMMA SettledJournal ==
  ASSUME NEW j, NEW X, NEW k, SettledBy(k, j, X),
         j \in Journal, Consistent(j), Failures(j) = {}, OpenOrders(j) = {},
         OpenTrades(j) \subseteq X, X \subseteq Noticed(j)
  PROVE  /\ k \in Journal /\ k.status = j.status /\ k.settled = j.settled \cup X
         /\ Consistent(k) /\ NothingOpen(k)
         /\ k.settled = Noticed(j) /\ Noticed(k) = Noticed(j) /\ Failures(k) = {}
<1>1. X \subseteq Trades /\ j.settled \subseteq Trades
  BY DEF Noticed, Journal
<1>2. k \in Journal
  BY <1>1 DEF Journal, SettledBy
<1>3. k.status = j.status /\ k.settled = j.settled \cup X /\ k.ordered = j.ordered
  BY <1>1 DEF Journal, SettledBy
<1>4. Noticed(k) = Noticed(j) /\ Failures(k) = {}
  BY <1>3 DEF Noticed, Failures
<1>5. OpenTrades(j) = Noticed(j) \ j.settled
  BY DEF OpenTrades, Failures
<1>6. k.settled = Noticed(j)
  BY <1>3, <1>5 DEF Consistent
<1>7. OpenTrades(k) = {}
  BY <1>4, <1>6 DEF OpenTrades
<1>8. OpenOrders(k) = {}
  BY <1>3, <1>4 DEF OpenOrders
<1>9. OpenBaselines(k) = {}
  BY <1>7, <1>8 DEF OpenBaselines
<1>10. Consistent(k)
  BY <1>4, <1>6, <1>9 DEF Consistent
<1>11. NothingOpen(k)
  BY <1>4, <1>7, <1>8, <1>9 DEF NothingOpen, Mirrors, Covered, Exact, NoPending
<1> QED
  BY <1>2, <1>3, <1>4, <1>6, <1>10, <1>11

(* What the steps do to the durable ledger.                                 *)
Notes ==
  /\ Noticed(journal) \subseteq Noticed(journal') /\ Noticed(journal') \subseteq Trades
  /\ Failures(journal) \subseteq Failures(journal')
  /\ journal'.settled = journal.settled
SettlesAll ==
  /\ Noticed(journal) \subseteq Noticed(journal') /\ Noticed(journal') \subseteq Trades
  /\ Failures(journal) = {} /\ Failures(journal') = {}
  /\ journal'.settled = Noticed(journal')

Keeps == LedgerInv' /\ (Notes \/ SettlesAll)

LEMMA HistoryRead ==
  ASSUME Typed
  PROVE  /\ TradeHistory \in History
         /\ \A h \in History : \A known : Heard(News(h, known), h)
<1>1. TradeHistory \in History
  BY DEF Typed, TradeHistory, History
<1>2. ASSUME NEW h \in History, NEW known PROVE Heard(News(h, known), h)
  BY DEF Heard, News
<1> QED
  BY <1>1, <1>2

LEMMA Initially == Init => LedgerInv
<1> SUFFICES ASSUME Init PROVE LedgerInv
  OBVIOUS
<1>1. /\ NoHistory \in History /\ NoAccount \in Account /\ NoPending \in Pendings
      /\ NoReading \in Reading /\ <<>> \in Seq(Notice)
  BY DEF NoHistory, History, NoAccount, Account, NoPending, Pendings, Reading
<1>2. journal \in Journal
  BY <1>1 DEF Init, Journal
<1>3. journal.settled = {} /\ Noticed(journal) = {} /\ journal.ordered = {}
  BY DEF Init, Noticed, NoHistory
<1>4. OpenBaselines(journal) = {}
  BY <1>3 DEF OpenBaselines, OpenTrades, OpenOrders
<1> QED
  BY <1>1, <1>2, <1>3, <1>4 DEF Init, LedgerInv, Typed, Consistent, Fits, Audits, NoReading

-----------------------------------------------------------------------------
(* Steps that leave journal and pending fills alone.                        *)
LEMMA SameJournal ==
  ASSUME LedgerInv, Typed', Fits', journal' = journal,
         up' => up /\ UNCHANGED <<ledger, settled, pending, latched>>
  PROVE  Keeps
<1>1. Notes
  BY DEF Notes, Noticed
<1>2. Consistent(journal')
  BY DEF LedgerInv
<1>3. up' => InMemory'
  BY DEF LedgerInv, InMemory
<1> QED
  BY <1>1, <1>2, <1>3 DEF Keeps, LedgerInv

LEMMA VenueStep == LedgerInv /\ VenueActs => Keeps
<1> SUFFICES ASSUME LedgerInv, VenueActs PROVE Keeps
  OBVIOUS
<1>1. UNCHANGED <<queue, up, ledger, settled, pending, account, latched, reading, journal>>
  BY DEF VenueActs, memoryVars
<1>2. standing' \in History
  <2>1. standing \in History
    BY DEF LedgerInv, Typed
  <2>2. ASSUME NEW t \in Trades, Executes(t) PROVE standing' \in History
    BY <2>1, <2>2 DEF Executes, History, Statuses
  <2>3. ASSUME NEW t \in Trades, NEW s \in Course, Advances(t, s) PROVE standing' \in History
    BY <2>1, <2>3, LedgerAssumption DEF Advances, History
  <2>4. ASSUME NEW t \in Trades, Lists(t) \/ Appears(t) PROVE standing' \in History
    BY <2>1, <2>4 DEF Lists, Appears
  <2> QED  BY <2>2, <2>3, <2>4 DEF VenueActs
<1>3. shown' \in Account
  <2>1. shown \in Account
    BY DEF LedgerInv, Typed
  <2>2. ASSUME NEW t \in Trades, Appears(t) PROVE shown' \in Account
    BY <2>1, <2>2 DEF Appears, Account
  <2>3. ASSUME NEW t \in Trades, Executes(t) \/ Lists(t) \/ (\E s \in Course : Advances(t, s))
        PROVE  shown' \in Account
    BY <2>1, <2>3 DEF Executes, Lists, Advances
  <2> QED  BY <2>2, <2>3 DEF VenueActs
<1>4. Typed'
  BY <1>1, <1>2, <1>3 DEF LedgerInv, Typed
<1>5. Fits'
  BY <1>1 DEF LedgerInv, Fits, Audits
<1> QED
  BY <1>1, <1>4, <1>5, SameJournal

LEMMA StreamStep == LedgerInv /\ StreamSends => Keeps
<1> SUFFICES ASSUME LedgerInv, StreamSends PROVE Keeps
  OBVIOUS
<1>1. ASSUME NEW n \in Notice, Announces(n) PROVE Keeps
  <2>1. UNCHANGED <<standing, shown, up, ledger, settled, pending, account, latched, reading, journal>>
    BY <1>1 DEF Announces, venueVars, memoryVars
  <2>2. queue' \in Seq(Notice)
    BY <1>1 DEF Announces, LedgerInv, Typed
  <2>3. Typed'
    BY <2>1, <2>2 DEF LedgerInv, Typed
  <2>4. Fits'
    BY <2>1 DEF LedgerInv, Fits, Audits
  <2> QED  BY <2>1, <2>3, <2>4, SameJournal
<1>2. \A t \in Trades, s \in Course : [kind |-> "trade", trade |-> t, status |-> s] \in Notice
  BY LedgerAssumption DEF Notice
<1>3. \A t \in Trades : [kind |-> "order", order |-> Fill[t].order] \in Notice
  BY DEF Notice, Orders
<1>4. [kind |-> "connected"] \in Notice
  BY DEF Notice
<1> QED
  BY <1>1, <1>2, <1>3, <1>4 DEF StreamSends

LEMMA ReadingStep == LedgerInv /\ (AuditReads \/ AuditVoid \/ StartReads \/ Submits) => Keeps
<1> SUFFICES ASSUME LedgerInv, AuditReads \/ AuditVoid \/ StartReads \/ Submits PROVE Keeps
  OBVIOUS
<1>1. /\ UNCHANGED <<standing, shown, up, ledger, settled, pending, latched, journal>>
      /\ queue' = queue
  BY DEF AuditReads, AuditVoid, StartReads, Submits, venueVars, memoryVars
<1>2. TradeHistory \in History /\ shown \in Account
  BY HistoryRead DEF LedgerInv, Typed
<1>3. account' \in Account
  BY <1>2 DEF AuditReads, AuditVoid, StartReads, Submits, memoryVars, LedgerInv, Typed, AccountRead
<1>4. reading' \in Reading
  <2>1. reading \in Reading
    BY DEF LedgerInv, Typed
  <2>2. [of |-> "account", account |-> shown] \in Reading
    BY <1>2 DEF Reading
  <2>3. [of |-> "history", history |-> TradeHistory] \in Reading
    BY <1>2 DEF Reading
  <2>4. [of |-> "startup", history |-> TradeHistory] \in Reading
    BY <1>2 DEF Reading
  <2>5. NoReading \in Reading
    BY DEF Reading
  <2> QED
    BY <2>1, <2>2, <2>3, <2>4, <2>5 DEF AuditReads, AuditVoid, StartReads, Submits, AccountRead
<1>5. Typed'
  BY <1>1, <1>3, <1>4 DEF LedgerInv, Typed
<1>6. Fits'
  BY <1>1 DEF LedgerInv, Fits, Audits, AuditReads, AuditVoid, StartReads, Submits, NoReading
<1> QED
  BY <1>1, <1>5, <1>6, SameJournal

LEMMA CrashStep == LedgerInv /\ Crash => Keeps
<1> SUFFICES ASSUME LedgerInv, Crash PROVE Keeps
  OBVIOUS
<1>1. /\ NoHistory \in History /\ NoAccount \in Account /\ NoPending \in Pendings
      /\ NoReading \in Reading /\ <<>> \in Seq(Notice)
  BY DEF NoHistory, History, NoAccount, Account, NoPending, Pendings, Reading
<1>2. Typed'
  BY <1>1 DEF Crash, LedgerInv, Typed, venueVars
<1>3. journal' = journal /\ ~up' /\ Fits'
  BY DEF Crash, Fits, Audits, NoReading
<1> QED
  BY <1>2, <1>3, SameJournal

-----------------------------------------------------------------------------
(* Steps that record news.                                                  *)

(* A handler that records the news S of h and settles nothing.              *)
Records(S, h) ==
  /\ journal' = Journaled(journal, S, h, Baseline) /\ ledger' = Noted(ledger, S, h)
  /\ pending' = OpenedBy(S, h) /\ latched' = (latched \/ FailedIn(S, h))
  /\ UNCHANGED <<up, settled>>

LEMMA RecordsKeep ==
  ASSUME LedgerInv, up, NEW S, NEW h, Heard(S, h), Records(S, h),
         UNCHANGED <<standing, shown>>, queue' \in Seq(Notice), reading' = NoReading, account' \in Account
  PROVE  Keeps
<1>0. InMemory
  BY DEF LedgerInv
<1>1. /\ journal' \in Journal /\ journal'.status = ledger' /\ journal'.settled = settled
      /\ ledger' \in History
      /\ Noticed(journal') = Noticed(journal) \cup S
      /\ Failures(journal) \subseteq Failures(journal')
      /\ Consistent(journal')
      /\ pending' \in Pendings
      /\ Mirrors(journal', pending', latched')
  BY <1>0, RecordedNews DEF Records
<1>2. latched' \in BOOLEAN
  BY DEF Records, LedgerInv, Typed, FailedIn
<1>3. Typed'
  BY <1>1, <1>2 DEF LedgerInv, Typed, Records, Reading
<1>4. InMemory'
  BY <1>1 DEF InMemory, Records
<1>5. Notes
  BY <1>0, <1>1 DEF Notes, InMemory, Noticed
<1>6. Fits'
  BY DEF Fits, Audits, NoReading
<1> QED
  BY <1>1, <1>3, <1>4, <1>5, <1>6 DEF Keeps, LedgerInv

LEMMA TradeStep == LedgerInv /\ TakeTrade => Keeps
<1> SUFFICES ASSUME LedgerInv, TakeTrade PROVE Keeps
  OBVIOUS
<1> DEFINE S == {Head(queue).trade}
           h == [t \in Trades |-> IF t \in S THEN Head(queue).status ELSE "none"]
<1>1. queue \in Seq(Notice) /\ queue # <<>>
  BY DEF LedgerInv, Typed, TakeTrade
<1>2. Head(queue) \in Notice /\ Tail(queue) \in Seq(Notice)
  BY <1>1, HeadTailProperties
<1>3. Head(queue).trade \in Trades /\ Head(queue).status \in Statuses
  BY <1>2 DEF TakeTrade, Notice
<1>4. Heard(S, h)
  BY <1>3 DEF Heard, History, Statuses
<1>5. Records(S, h)
  BY DEF TakeTrade, Records
<1>6. account \in Account
  BY DEF LedgerInv, Typed
<1>7. /\ up /\ UNCHANGED <<standing, shown, account>> /\ queue' = Tail(queue)
      /\ reading' = NoReading
  BY DEF TakeTrade, venueVars
<1> HIDE DEF S, h
<1> QED
  BY <1>2, <1>4, <1>5, <1>6, <1>7, RecordsKeep

LEMMA ConnectedStep == LedgerInv /\ TakeConnected => Keeps
<1> SUFFICES ASSUME LedgerInv, TakeConnected PROVE Keeps
  OBVIOUS
<1>1. queue \in Seq(Notice) /\ queue # <<>> /\ account \in Account
  BY DEF LedgerInv, Typed, TakeConnected
<1>2. Tail(queue) \in Seq(Notice)
  BY <1>1, HeadTailProperties
<1>3. /\ up /\ UNCHANGED <<standing, shown, account, up, settled>> /\ queue' = Tail(queue)
      /\ reading' = NoReading
  BY DEF TakeConnected, venueVars
<1>4. ASSUME Records(News(TradeHistory, ledger), TradeHistory) PROVE Keeps
  <2>1. Heard(News(TradeHistory, ledger), TradeHistory)
    BY HistoryRead DEF LedgerInv
  <2> QED  BY <1>1, <1>2, <1>3, <1>4, <2>1, RecordsKeep
<1>5. ASSUME latched' = TRUE, UNCHANGED <<journal, ledger, pending>> PROVE Keeps
  <2>1. Typed'
    BY <1>1, <1>2, <1>3, <1>5 DEF LedgerInv, Typed, Reading
  <2>2. InMemory'
    BY <1>3, <1>5 DEF LedgerInv, InMemory, Mirrors
  <2>3. Notes
    BY <1>5 DEF Notes, Noticed
  <2>4. Fits'
    BY <1>3 DEF Fits, Audits, NoReading
  <2> QED  BY <1>3, <1>5, <2>1, <2>2, <2>3, <2>4 DEF Keeps, LedgerInv
<1> QED
  BY <1>3, <1>4, <1>5 DEF TakeConnected, Records

(* An order named for the first time is open against the account that       *)
(* whatever is open already is compared with.                               *)
LEMMA OrderStep == LedgerInv /\ TakeOrder => Keeps
<1> SUFFICES ASSUME LedgerInv, TakeOrder PROVE Keeps
  OBVIOUS
<1> DEFINE o == Head(queue).order
<1>1. queue \in Seq(Notice) /\ queue # <<>> /\ account \in Account /\ journal \in Journal
  BY DEF LedgerInv, Typed, TakeOrder
<1>2. Head(queue) \in Notice /\ Tail(queue) \in Seq(Notice)
  BY <1>1, HeadTailProperties
<1>3. o \in Orders
  BY <1>2 DEF TakeOrder, Notice
<1>4. /\ up /\ UNCHANGED <<standing, shown, account, up, ledger, settled, latched>>
      /\ queue' = Tail(queue) /\ reading' = NoReading
      /\ journal' = [journal EXCEPT !.ordered = @ \cup {o},
                       !.order[o] = IF o \in journal.ordered THEN @ ELSE Baseline]
      /\ pending' = IF o \in KnownOrders(ledger) THEN pending
                    ELSE [pending EXCEPT !.baseline = Baseline, !.unresolved = @ \cup {o}]
  BY DEF TakeOrder, venueVars
<1> HIDE DEF o
<1>5. InMemory /\ Typed /\ Consistent(journal)
  BY <1>4 DEF LedgerInv
<1>6. /\ Baseline \in Account
      /\ \A a \in OpenBaselines(journal) : a = Baseline
      /\ IsOpen(pending) => Baseline = pending.baseline
  BY <1>5, PendingOpen
<1>7. journal' \in Journal
  BY <1>1, <1>3, <1>4, <1>6 DEF Journal
<1>8. /\ journal'.status = journal.status /\ journal'.trade = journal.trade
      /\ journal'.settled = journal.settled /\ journal'.ordered = journal.ordered \cup {o}
      /\ \A x \in Orders : journal'.order[x] =
           IF x = o /\ o \notin journal.ordered THEN Baseline ELSE journal.order[x]
  BY <1>1, <1>3, <1>4, <1>6 DEF Journal
<1>9. /\ Noticed(journal') = Noticed(journal) /\ Failures(journal') = Failures(journal)
      /\ OpenTrades(journal') = OpenTrades(journal)
  BY <1>8 DEF Noticed, Failures, OpenTrades
<1>10. KnownOrders(ledger) = OrdersOf(Noticed(journal))
  BY <1>5 DEF KnownOrders, InMemory, Noticed
<1>11. OpenOrders(journal') = IF o \in KnownOrders(ledger) THEN OpenOrders(journal)
                             ELSE OpenOrders(journal) \cup {o}
  BY <1>8, <1>9, <1>10 DEF OpenOrders
<1>12. OpenOrders(journal) \subseteq Orders /\ OpenOrders(journal') \subseteq Orders
  BY <1>1, <1>7 DEF OpenOrders, Journal
<1>13. \A x \in OpenOrders(journal') : x \in OpenOrders(journal) \/ (x = o /\ o \notin journal.ordered)
  BY <1>8, <1>9 DEF OpenOrders
<1>14. \A a \in OpenBaselines(journal') : a = Baseline
  BY <1>6, <1>8, <1>9, <1>12, <1>13 DEF OpenBaselines
<1>15. Consistent(journal')
  BY <1>5, <1>8, <1>9, <1>14 DEF Consistent
<1>16. Notes
  BY <1>8, <1>9 DEF Notes, Noticed
<1>19. Fits'
  BY <1>4 DEF Fits, Audits, NoReading
<1>17. CASE o \in KnownOrders(ledger)
  <2>1. pending' = pending /\ OpenOrders(journal') = OpenOrders(journal)
    BY <1>4, <1>11, <1>17
  <2>2. OpenBaselines(journal') # {} => IsOpen(pending)
    BY <1>5, <1>9, <2>1 DEF OpenBaselines, InMemory, Mirrors, Covered, IsOpen
  <2>3. Covered(journal', pending')
    BY <1>5, <1>6, <1>9, <1>14, <2>1, <2>2 DEF InMemory, Mirrors, Covered
  <2>4. Mirrors(journal', pending', latched')
    BY <1>4, <1>5, <1>9, <2>1, <2>3 DEF InMemory, Mirrors, Exact
  <2>5. InMemory'
    BY <1>4, <1>5, <1>8, <2>4 DEF InMemory
  <2>6. Typed'
    BY <1>2, <1>4, <1>5, <1>7, <2>1 DEF Typed, Reading
  <2> QED  BY <1>4, <1>15, <1>16, <1>19, <2>5, <2>6 DEF Keeps, LedgerInv
<1>18. CASE o \notin KnownOrders(ledger)
  <2>1. /\ pending' \in Pendings /\ pending'.baseline = Baseline /\ pending'.trades = pending.trades
        /\ pending'.unresolved = pending.unresolved \cup {o}
    BY <1>3, <1>4, <1>5, <1>6, <1>18 DEF Typed, Pendings
  <2>2. Covered(journal', pending')
    BY <1>5, <1>9, <1>11, <1>14, <1>18, <2>1 DEF InMemory, Mirrors, Covered
  <2>3. ~latched' => Exact(journal', pending')
    BY <1>4, <1>5, <1>9, <1>11, <1>18, <2>1 DEF InMemory, Mirrors, Exact
  <2>4. IsOpen(pending')
    BY <2>1 DEF IsOpen
  <2>5. InMemory'
    BY <1>4, <1>5, <1>8, <1>9, <2>2, <2>3, <2>4 DEF InMemory, Mirrors
  <2>6. Typed'
    BY <1>2, <1>4, <1>5, <1>7, <2>1 DEF Typed, Reading
  <2> QED  BY <1>4, <1>15, <1>16, <1>19, <2>5, <2>6 DEF Keeps, LedgerInv
<1> QED
  BY <1>17, <1>18

-----------------------------------------------------------------------------
(* The audit: the histories it reads, and what it settles.                  *)
AuditAccount == IF reading.of = "account" THEN reading.account ELSE AccountRead
AuditHistory == IF reading.of = "history" THEN reading.history ELSE TradeHistory

LEMMA AuditReading ==
  ASSUME LedgerInv, Audits
  PROVE  /\ up /\ InMemory /\ Typed
         /\ AuditAccount \in Account /\ AuditHistory \in History
         /\ Heard(News(AuditHistory, ledger), AuditHistory)
<1>1. up /\ InMemory /\ Typed
  BY DEF LedgerInv, Fits
<1>2. AuditAccount \in Account
  BY <1>1 DEF Typed, Reading, NoReading, AuditAccount, AccountRead
<1>3. AuditHistory \in History
  BY <1>1, HistoryRead DEF Typed, Reading, NoReading, AuditHistory
<1> QED
  BY <1>1, <1>2, <1>3, HistoryRead

LEMMA AuditStep == LedgerInv /\ AuditApplies => Keeps
<1> SUFFICES ASSUME LedgerInv, AuditApplies PROVE Keeps
  OBVIOUS
<1> DEFINE a == AuditAccount
           h == AuditHistory
           S == News(h, ledger)
           p == OpenedBy(S, h)
           noted == Journaled(journal, S, h, Baseline)
<1>1. /\ up /\ InMemory /\ Typed /\ a \in Account /\ Heard(S, h)
      /\ Audits
  BY AuditReading DEF AuditApplies
<1>2. /\ reading' = NoReading /\ ledger' = Noted(ledger, S, h)
      /\ latched' = (latched \/ FailedIn(S, h))
      /\ UNCHANGED <<standing, shown, queue, up>>
  BY DEF AuditApplies, AuditAccount, AuditHistory, venueVars
<1>3. \/ /\ pending' = p /\ journal' = noted /\ settled' = settled
         /\ account' = account \/ account' = a
      \/ /\ ~latched' /\ Reconciled(p, a, Proven(p, h), Cash(a)) /\ Settles(p, a)
         /\ journal' = [noted EXCEPT !.settled = @ \cup p.trades]
  BY DEF AuditApplies, AuditAccount, AuditHistory
<1>4. queue \in Seq(Notice) /\ account \in Account
  BY <1>1 DEF Typed
<1> HIDE DEF a, h, S
<1>5. CASE /\ pending' = p /\ journal' = noted /\ settled' = settled
           /\ account' = account \/ account' = a
  <2>1. Records(S, h)
    BY <1>2, <1>5 DEF Records
  <2>2. account' \in Account
    BY <1>1, <1>4, <1>5
  <2> QED  BY <1>1, <1>2, <1>4, <2>1, <2>2, RecordsKeep
<1>6. CASE /\ ~latched' /\ Reconciled(p, a, Proven(p, h), Cash(a)) /\ Settles(p, a)
           /\ journal' = [noted EXCEPT !.settled = @ \cup p.trades]
  <2>1. /\ noted \in Journal /\ noted.status = ledger' /\ noted.settled = settled
        /\ ledger' \in History
        /\ Noticed(noted) = Noticed(journal) \cup S
        /\ Failures(journal) \subseteq Failures(noted)
        /\ Consistent(noted)
        /\ p \in Pendings
        /\ Mirrors(noted, p, latched')
    BY <1>1, <1>2, RecordedNews
  <2>0. SettledBy(journal', noted, p.trades)
    BY <1>6 DEF SettledBy
  <2> HIDE DEF noted, p
  <2>2. Failures(noted) = {} /\ Failures(journal) = {}
    BY <1>6, <2>1 DEF Mirrors
  <2>3. p.unresolved = {}
    BY <1>6 DEF Reconciled
  <2>4. OpenOrders(noted) = {} /\ OpenTrades(noted) \subseteq p.trades /\ p.trades \subseteq Noticed(noted)
    BY <1>6, <2>1, <2>3 DEF Mirrors, Covered, Exact, OpenTrades
  <2>5. /\ journal' \in Journal /\ journal'.status = noted.status
        /\ journal'.settled = noted.settled \cup p.trades
        /\ Consistent(journal') /\ NothingOpen(journal')
        /\ journal'.settled = Noticed(noted) /\ Noticed(journal') = Noticed(noted)
        /\ Failures(journal') = {}
    BY ONLY <2>0, <2>1, <2>2, <2>4, SettledJournal
  <2>6. account' = a /\ settled' = settled \cup p.trades /\ pending' = NoPending
    BY <1>6 DEF Settles
  <2>7. InMemory'
    BY <1>6, <2>1, <2>5, <2>6 DEF InMemory, NothingOpen, Mirrors
  <2>8. NoPending \in Pendings /\ settled' \subseteq Trades
    BY <2>1, <2>5, <2>6 DEF NoPending, NoAccount, Account, Pendings, Journal
  <2>9. latched' \in BOOLEAN
    BY <1>6, <1>2 DEF FailedIn
  <2>10. Typed'
    BY <1>1, <1>2, <1>4, <2>1, <2>5, <2>6, <2>8, <2>9 DEF Typed, Reading
  <2>11. SettlesAll
    BY <2>1, <2>2, <2>5 DEF SettlesAll, Noticed
  <2>12. Fits'
    BY <1>2 DEF Fits, Audits, NoReading
  <2> QED  BY <2>5, <2>7, <2>10, <2>11, <2>12 DEF Keeps, LedgerInv
<1> QED
  BY <1>3, <1>5, <1>6

LEMMA AuditDeath == LedgerInv /\ AuditDies => Keeps
<1> SUFFICES ASSUME LedgerInv, AuditDies PROVE Keeps
  OBVIOUS
<1>1. /\ up /\ InMemory /\ Typed /\ AuditHistory \in History
      /\ Heard(News(AuditHistory, ledger), AuditHistory)
  BY AuditReading DEF AuditDies
<1>2. PICK S \in SUBSET News(AuditHistory, ledger) :
        journal' = Journaled(journal, S, AuditHistory, Baseline)
  BY DEF AuditDies, AuditHistory
<1>3. Heard(S, AuditHistory)
  BY <1>1, <1>2 DEF Heard
<1>4. /\ journal' \in Journal /\ journal'.settled = settled
      /\ Noticed(journal') = Noticed(journal) \cup S
      /\ Failures(journal) \subseteq Failures(journal')
      /\ Consistent(journal')
  BY <1>1, <1>2, <1>3, RecordedNews
<1>5. Notes
  BY <1>1, <1>4 DEF Notes, InMemory, Noticed
<1>6. /\ NoHistory \in History /\ NoAccount \in Account /\ NoPending \in Pendings
      /\ NoReading \in Reading
  BY DEF NoHistory, History, NoAccount, Account, NoPending, Pendings, Reading
<1>7. Typed'
  BY <1>1, <1>4, <1>6 DEF AuditDies, Typed, venueVars
<1>8. ~up' /\ Fits'
  BY DEF AuditDies, Fits, Audits, NoReading
<1> QED
  BY <1>4, <1>5, <1>7, <1>8 DEF Keeps, LedgerInv

-----------------------------------------------------------------------------
(* The start of a process.                                                  *)
LEMMA Recovered ==
  ASSUME NEW j \in Journal, Consistent(j)
  PROVE  /\ OpenBaselines(j) = {} => OpenTrades(j) = {} /\ OpenOrders(j) = {}
         /\ OpenBaselines(j) # {} =>
              /\ RecoveredPending(j).trades = OpenTrades(j)
              /\ RecoveredPending(j).unresolved = OpenOrders(j)
              /\ RecoveredPending(j).baseline \in Account
              /\ \A a \in OpenBaselines(j) : a = RecoveredPending(j).baseline
              /\ IsOpen(RecoveredPending(j))
         /\ OpenBaselines(j) = {} => RecoveredPending(j) = NoPending
         /\ ~Conflicting(j)
<1>1. OpenBaselines(j) = {} <=> OpenTrades(j) = {} /\ OpenOrders(j) = {}
  BY DEF OpenBaselines
<1>2. OpenBaselines(j) \subseteq Account
  <2>1. OpenTrades(j) \subseteq Trades /\ OpenOrders(j) \subseteq Orders
    BY DEF OpenTrades, Noticed, OpenOrders, Journal
  <2>2. j.trade \in [Trades -> Account] /\ j.order \in [Orders -> Account]
    BY DEF Journal
  <2> QED  BY <2>1, <2>2 DEF OpenBaselines
<1>3. ASSUME OpenBaselines(j) # {}
      PROVE  /\ RecoveredPending(j).trades = OpenTrades(j)
             /\ RecoveredPending(j).unresolved = OpenOrders(j)
             /\ RecoveredPending(j).baseline \in OpenBaselines(j)
  BY <1>3 DEF RecoveredPending
<1>4. ASSUME OpenBaselines(j) # {} PROVE IsOpen(RecoveredPending(j))
  BY <1>1, <1>3, <1>4 DEF IsOpen
<1>5. ~Conflicting(j)
  BY DEF Conflicting, Consistent, SameNumbers
<1>6. OpenBaselines(j) = {} => RecoveredPending(j) = NoPending
  BY DEF RecoveredPending
<1>7. \A a, b \in OpenBaselines(j) : a = b
  BY DEF Consistent
<1> QED
  BY <1>1, <1>2, <1>3, <1>4, <1>5, <1>6, <1>7

(* What a start finds, and what the news it appends make of the journal.    *)
LEMMA StartFrom ==
  ASSUME LedgerInv, reading.of = "startup"
  PROVE  /\ Typed /\ journal \in Journal /\ ~Conflicting(journal) /\ ~up
         /\ AccountRead \in Account /\ StartBase \in Account
         /\ \A a \in OpenBaselines(journal) : a = StartBase
         /\ Heard(News(reading.history, journal.status), reading.history)
<1>1. /\ Typed /\ Consistent(journal) /\ journal \in Journal /\ ~up /\ AccountRead \in Account
  BY DEF LedgerInv, Typed, AccountRead, Fits
<1>2. reading.history \in History
  BY <1>1 DEF Typed, Reading, NoReading
<1>3. Heard(News(reading.history, journal.status), reading.history)
  BY <1>1, <1>2, HistoryRead
<1>4. ~Conflicting(journal)
  BY <1>1, Recovered
<1>5. StartBase \in Account /\ \A a \in OpenBaselines(journal) : a = StartBase
  <2>1. CASE OpenBaselines(journal) = {}
    BY <1>1, <2>1 DEF StartBase
  <2>2. CASE OpenBaselines(journal) # {}
    BY <1>1, <2>2, Recovered DEF StartBase
  <2> QED  BY <2>1, <2>2
<1> QED
  BY <1>1, <1>3, <1>4, <1>5

LEMMA StartAppends ==
  ASSUME LedgerInv, reading.of = "startup", NEW S, NEW h, Heard(S, h),
         NEW j, j = Journaled(journal, S, h, StartBase)
  PROVE  /\ j \in Journal /\ j.settled = journal.settled
         /\ Noticed(j) = Noticed(journal) \cup S
         /\ Failures(journal) \subseteq Failures(j)
         /\ Consistent(j)
<1>1. /\ journal \in Journal /\ StartBase \in Account /\ Consistent(journal)
      /\ \A a \in OpenBaselines(journal) : a = StartBase
  BY StartFrom DEF LedgerInv
<1>2. j \in Journal /\ Follows(j, journal, S, h, StartBase)
  BY <1>1, JournaledRecord
<1>3. /\ Noticed(j) = Noticed(journal) \cup S
      /\ Failures(journal) \subseteq Failures(j)
  BY <1>1, <1>2, NewsNoted
<1>4. j.settled = journal.settled
  BY <1>2 DEF Follows
<1>5. \A a \in OpenBaselines(j) : a = StartBase
  BY <1>1, <1>2, OneBaseline
<1> QED
  BY <1>1, <1>2, <1>3, <1>4, <1>5 DEF Consistent

LEMMA StartDeath == LedgerInv /\ StartDies => Keeps
<1> SUFFICES ASSUME LedgerInv, StartDies PROVE Keeps
  OBVIOUS
<1>1. reading.of = "startup" /\ reading' = NoReading
  BY DEF StartDies
<1>2. /\ Typed /\ journal \in Journal /\ ~up
      /\ Heard(News(reading.history, journal.status), reading.history)
  BY <1>1, StartFrom
<1>3. PICK S \in SUBSET News(reading.history, journal.status) :
        journal' = Journaled(journal, S, reading.history, StartBase)
  BY DEF StartDies
<1>4. Heard(S, reading.history)
  BY <1>2, <1>3 DEF Heard
<1>5. /\ journal' \in Journal /\ journal'.settled = journal.settled
      /\ Noticed(journal') = Noticed(journal) \cup S
      /\ Failures(journal) \subseteq Failures(journal')
      /\ Consistent(journal')
  BY <1>1, <1>3, <1>4, StartAppends
<1>6. Notes
  BY <1>5 DEF Notes, Noticed
<1>7. Typed'
  BY <1>1, <1>2, <1>5 DEF StartDies, Typed, Reading, venueVars, memoryVars
<1>8. ~up' /\ Fits'
  BY <1>1, <1>2 DEF StartDies, Fits, Audits, NoReading, memoryVars
<1> QED
  BY <1>5, <1>6, <1>7, <1>8 DEF Keeps, LedgerInv

LEMMA StartStep == LedgerInv /\ StartApplies => Keeps
<1> SUFFICES ASSUME LedgerInv, StartApplies PROVE Keeps
  OBVIOUS
<1> DEFINE h == reading.history
           S == News(h, journal.status)
           j == Journaled(journal, S, h, StartBase)
           p == RecoveredPending(j)
<1>1. reading.of = "startup"
  BY DEF StartApplies
<1>2. /\ Typed /\ journal \in Journal /\ ~Conflicting(journal) /\ ~up
      /\ AccountRead \in Account /\ Heard(S, h)
  BY <1>1, StartFrom
<1>6. /\ UNCHANGED <<standing, shown, queue>> /\ reading' = NoReading
      /\ \/ journal' = j /\ UNCHANGED <<up, memoryVars>>
         \/ /\ ~RecoveredLatch(j)
            /\ ~(IsOpen(p) /\ ~Reconciled(p, AccountRead, Proven(p, h), Cash(AccountRead)))
            /\ journal' = [j EXCEPT !.settled = @ \cup p.trades]
            /\ up' = TRUE /\ ledger' = j.status /\ latched' = FALSE
            /\ account' = AccountRead /\ settled' = journal'.settled /\ pending' = NoPending
  BY <1>2 DEF StartApplies, venueVars
<1> HIDE DEF h, S
<1>7. /\ j \in Journal /\ j.settled = journal.settled
      /\ Noticed(j) = Noticed(journal) \cup S
      /\ Failures(journal) \subseteq Failures(j)
      /\ Consistent(j)
  BY <1>1, <1>2, StartAppends DEF h
<1> HIDE DEF j
<1>12. Noticed(j) \subseteq Trades
  BY DEF Noticed
<1>13. Fits'
  BY <1>6 DEF Fits, Audits, NoReading
<1>14. CASE journal' = j /\ UNCHANGED <<up, memoryVars>>
  <2>1. ~up'
    BY <1>2, <1>14 DEF memoryVars
  <2>2. Typed'
    BY <1>2, <1>6, <1>7, <1>14 DEF Typed, Reading, memoryVars
  <2>3. Notes
    BY <1>7, <1>12, <1>14 DEF Notes
  <2> QED  BY <1>7, <1>13, <1>14, <2>1, <2>2, <2>3 DEF Keeps, LedgerInv
<1>15. CASE /\ ~RecoveredLatch(j)
            /\ ~(IsOpen(p) /\ ~Reconciled(p, AccountRead, Proven(p, h), Cash(AccountRead)))
            /\ journal' = [j EXCEPT !.settled = @ \cup p.trades]
            /\ up' = TRUE /\ ledger' = j.status /\ latched' = FALSE
            /\ account' = AccountRead /\ settled' = journal'.settled /\ pending' = NoPending
  <2>1. Failures(j) = {} /\ Failures(journal) = {}
    BY <1>7, <1>15 DEF RecoveredLatch, Failures
  <2>2. p.trades = OpenTrades(j) /\ OpenOrders(j) = {}
    <3>1. CASE OpenBaselines(j) = {}
      BY <1>7, <3>1, Recovered DEF NoPending
    <3>2. CASE OpenBaselines(j) # {}
      <4>1. p.trades = OpenTrades(j) /\ p.unresolved = OpenOrders(j) /\ IsOpen(p)
        BY <1>7, <3>2, Recovered
      <4> QED  BY <1>15, <4>1 DEF Reconciled
    <3> QED  BY <3>1, <3>2
  <2>0. SettledBy(journal', j, p.trades)
    BY <1>15 DEF SettledBy
  <2> HIDE DEF p
  <2>3. OpenTrades(j) \subseteq Noticed(j)
    BY DEF OpenTrades
  <2>4. /\ journal' \in Journal /\ journal'.status = j.status
        /\ Consistent(journal') /\ NothingOpen(journal')
        /\ journal'.settled = Noticed(j) /\ Noticed(journal') = Noticed(j)
        /\ Failures(journal') = {}
    BY ONLY <1>7, <2>0, <2>1, <2>2, <2>3, SettledJournal
  <2>5. InMemory'
    BY <1>15, <2>4 DEF InMemory, NothingOpen, Mirrors
  <2>6. /\ NoPending \in Pendings /\ settled' \subseteq Trades /\ ledger' \in History
    BY <1>7, <1>15, <2>4 DEF NoPending, NoAccount, Account, Pendings, Journal
  <2>7. Typed'
    BY <1>2, <1>6, <1>15, <2>4, <2>6 DEF Typed, Reading
  <2>8. SettlesAll
    BY <1>7, <1>12, <2>1, <2>4 DEF SettlesAll
  <2> QED  BY <1>13, <2>4, <2>5, <2>7, <2>8 DEF Keeps, LedgerInv
<1> QED
  BY <1>6, <1>14, <1>15

-----------------------------------------------------------------------------
LEMMA LedgerSteps == LedgerInv /\ [Next]_vars => LedgerInv' /\ (Notes \/ SettlesAll)
<1> SUFFICES ASSUME LedgerInv, [Next]_vars PROVE Keeps
  BY DEF Keeps
<1>1. CASE VenueActs
  BY <1>1, VenueStep
<1>2. CASE StreamSends
  BY <1>2, StreamStep
<1>3. CASE TakeTrade
  BY <1>3, TradeStep
<1>4. CASE TakeOrder
  BY <1>4, OrderStep
<1>5. CASE TakeConnected
  BY <1>5, ConnectedStep
<1>6. CASE AuditReads \/ AuditVoid \/ StartReads \/ Submits
  BY <1>6, ReadingStep
<1>7. CASE AuditApplies
  BY <1>7, AuditStep
<1>8. CASE AuditDies
  BY <1>8, AuditDeath
<1>9. CASE Crash
  BY <1>9, CrashStep
<1>10. CASE StartApplies
  BY <1>10, StartStep
<1>12. CASE StartDies
  BY <1>12, StartDeath
<1>11. CASE UNCHANGED vars
  <2>1. /\ UNCHANGED <<standing, shown, queue, up, ledger, settled, pending, account, latched>>
        /\ UNCHANGED <<reading, journal>>
    BY <1>11 DEF vars, venueVars, memoryVars
  <2>2. Typed' /\ Fits'
    BY <2>1 DEF LedgerInv, Typed, Fits, Audits
  <2> QED  BY <2>1, <2>2, SameJournal
<1> QED
  BY <1>1, <1>2, <1>3, <1>4, <1>5, <1>6, <1>7, <1>8, <1>9, <1>10, <1>11, <1>12 DEF Next

LEMMA LedgerInvariant == Spec => []LedgerInv
<1>1. LedgerInv /\ [Next]_vars => LedgerInv'
  BY LedgerSteps
<1> QED
  BY Initially, <1>1, PTL DEF Spec

(* What a restart would recover is what the process holds: the same open    *)
(* trades and orders, one account they are compared with, no failed trade   *)
(* forgotten (recover_account_ledger against record_pending_account_event), *)
(* for any fills and orders, any order of the news and any crashes.         *)
THEOREM RecoverySafety == Spec => []RestartRecovers
<1>1. LedgerInv => RestartRecovers
  <2> SUFFICES ASSUME LedgerInv PROVE RestartRecovers
    OBVIOUS
  <2>1. journal \in Journal /\ Consistent(journal)
    BY DEF LedgerInv, Typed
  <2>2. ~Conflicting(journal)
    BY <2>1, Recovered
  <2>3. ASSUME up, RecoveredLatch(journal) PROVE latched
    BY <2>3 DEF LedgerInv, InMemory, Mirrors, RecoveredLatch, Failures
  <2>4. ASSUME up, ~latched
        PROVE  LET p == RecoveredPending(journal)
               IN /\ pending.trades = p.trades /\ pending.unresolved = p.unresolved
                  /\ SameNumbers(pending.baseline, p.baseline)
    <3>1. /\ pending.trades = OpenTrades(journal) /\ pending.unresolved = OpenOrders(journal)
          /\ \A a \in OpenBaselines(journal) : a = pending.baseline
          /\ ~IsOpen(pending) => pending = NoPending
      BY <2>4 DEF LedgerInv, InMemory, Mirrors, Covered, Exact
    <3>2. CASE OpenBaselines(journal) = {}
      <4>1. pending = NoPending /\ RecoveredPending(journal) = NoPending
        BY <2>1, <3>1, <3>2, Recovered DEF IsOpen
      <4> QED  BY <4>1 DEF SameNumbers
    <3>3. CASE OpenBaselines(journal) # {}
      <4>1. /\ RecoveredPending(journal).trades = OpenTrades(journal)
            /\ RecoveredPending(journal).unresolved = OpenOrders(journal)
            /\ RecoveredPending(journal).baseline = pending.baseline
        BY <2>1, <3>1, <3>3, Recovered
      <4> QED  BY <3>1, <4>1 DEF SameNumbers
    <3> QED  BY <3>2, <3>3
  <2> QED
    BY <2>2, <2>3, <2>4 DEF RestartRecovers, LedgerInv, InMemory
<1> QED
  BY LedgerInvariant, <1>1, PTL

(* The durable ledger keeps the promise of FillBook: what is noted and what *)
(* is settled only grows, a settlement closes everything noted at once, and *)
(* after a failure there is none.                                           *)
THEOREM BookRefinement == Spec => BookImplemented
<1>1. Init => Book!Init
  <2> SUFFICES ASSUME Init PROVE Book!Init
    OBVIOUS
  <2>1. Noticed(journal) = {} /\ journal.settled = {}
    BY DEF Init, Noticed, NoHistory
  <2> QED  BY <2>1 DEF Book!Init, Failures
<1>2. LedgerInv /\ (Notes \/ SettlesAll) => [Book!Next]_(Book!vars)
  <2> SUFFICES ASSUME LedgerInv, Notes \/ SettlesAll PROVE Book!Next
    OBVIOUS
  <2>1. CASE Notes
    <3>1. /\ Noticed(journal)' = Noticed(journal) \cup Noticed(journal)' \cup Failures(journal)'
          /\ Failures(journal)' = Failures(journal) \cup Failures(journal)'
          /\ (journal.settled)' = journal.settled
      BY <2>1 DEF Notes, Failures
    <3>2. Noticed(journal)' \in SUBSET Trades /\ Failures(journal)' \in SUBSET Trades
      BY DEF Noticed, Failures
    <3>3. Book!Note(Noticed(journal)', Failures(journal)')
      BY <3>1 DEF Book!Note
    <3> QED  BY <3>2, <3>3 DEF Book!Next
  <2>2. CASE SettlesAll
    <3>1. /\ Failures(journal) = {} /\ Failures(journal)' = Failures(journal)
          /\ Noticed(journal)' = Noticed(journal) \cup Noticed(journal)'
          /\ (journal.settled)' = Noticed(journal)'
          /\ Noticed(journal)' \in SUBSET Trades
      BY <2>2 DEF SettlesAll
    <3>2. Book!Settle(Noticed(journal)')
      BY <3>1 DEF Book!Settle
    <3> QED  BY <3>1, <3>2 DEF Book!Next
  <2> QED  BY <2>1, <2>2
<1>3. LedgerInv /\ [Next]_vars => [Book!Next]_(Book!vars)
  BY <1>2, LedgerSteps
<1> QED
  BY <1>1, <1>3, LedgerInvariant, PTL DEF BookImplemented, Book!Spec, Spec

-----------------------------------------------------------------------------
(* Fixed-point arithmetic: what rounding down and rounding up bound.        *)
LEMMA RoundedDown ==
  ASSUME NEW x \in Nat, NEW d \in Nat \ {0}
  PROVE  x \div d \in Nat /\ d * (x \div d) <= x
<1>1. x \div d \in Int /\ d * (x \div d) <= x /\ x < d * (x \div d) + d
  OBVIOUS
<1>2. x \div d >= 0
  OBVIOUS
<1> QED
  BY <1>1, <1>2

LEMMA RoundedUp ==
  ASSUME NEW x \in Nat, NEW d \in Nat \ {0}
  PROVE  (x + d - 1) \div d \in Nat /\ x <= d * ((x + d - 1) \div d)
<1>1. x + d - 1 \in Nat
  OBVIOUS
<1>2. PICK y \in Nat : y = x + d - 1
  BY <1>1
<1>3. y \div d \in Int /\ d * (y \div d) <= y /\ y < d * (y \div d) + d
  OBVIOUS
<1>4. y \div d >= 0
  OBVIOUS
<1>5. d * (y \div d) \in Int
  BY <1>3
<1>6. x <= d * (y \div d)
  BY <1>2, <1>3, <1>5
<1> QED
  BY <1>2, <1>3, <1>4, <1>6

LEMMA TimesLeq ==
  ASSUME NEW d \in Nat, NEW x \in Int, NEW y \in Int, x <= y
  PROVE  d * x <= d * y
OBVIOUS

LEMMA TimesLess ==
  ASSUME NEW d \in Nat \ {0}, NEW x \in Int, NEW y \in Int, d * x < d * y
  PROVE  x < y
OBVIOUS

LEMMA TimesAssociative ==
  ASSUME NEW x \in Int, NEW y \in Int, NEW z \in Int
  PROVE  x * (y * z) = (x * y) * z /\ x * y = y * x /\ x * y \in Int
OBVIOUS

(* A product of factors that were rounded down one after the other.         *)
LEMMA ChainDown ==
  ASSUME NEW O \in Nat \ {0}, NEW R \in Nat \ {0}, NEW Q \in Nat \ {0},
         NEW x \in Nat, NEW n \in Nat, NEW r \in Nat,
         NEW a \in Nat, NEW b \in Nat, NEW c \in Nat, NEW d \in Nat,
         O * a <= x, O * b <= a * n, R * c <= b * r, Q * d <= c
  PROVE  (O * O * R) * (Q * d) <= x * n * r
<1>1. O * (O * b) <= x * n
  <2>1. O * (O * b) <= O * (a * n)
    BY TimesLeq
  <2>2. O * (a * n) = (O * a) * n
    BY TimesAssociative
  <2>3. n * (O * a) <= n * x
    BY TimesLeq
  <2>4. n * (O * a) = (O * a) * n /\ n * x = x * n
    BY TimesAssociative
  <2> QED  BY <2>1, <2>2, <2>3, <2>4
<1>2. (O * O) * (b * r) <= x * n * r
  <2>1. r * (O * (O * b)) <= r * (x * n)
    BY <1>1, TimesLeq
  <2>2. r * (O * (O * b)) = (O * O) * (b * r) /\ r * (x * n) = x * n * r
    OBVIOUS
  <2> QED  BY <2>1, <2>2
<1>3. (O * O * R) * c <= x * n * r
  <2>1. (O * O) * (R * c) <= (O * O) * (b * r)
    BY TimesLeq
  <2>2. (O * O) * (R * c) = (O * O * R) * c
    OBVIOUS
  <2> QED  BY <1>2, <2>1, <2>2
<1>4. (O * O * R) * (Q * d) <= (O * O * R) * c
  BY TimesLeq
<1> QED
  BY <1>3, <1>4

(* The same, rounded up.                                                    *)
LEMMA ChainUp ==
  ASSUME NEW O \in Nat \ {0}, NEW R \in Nat \ {0}, NEW Q \in Nat \ {0},
         NEW x \in Nat, NEW n \in Nat, NEW r \in Nat,
         NEW a \in Nat, NEW b \in Nat, NEW c \in Nat, NEW d \in Nat,
         x <= O * a, a * n <= O * b, b * r <= R * c, c <= Q * d
  PROVE  x * n * r <= (O * O * R) * (Q * d)
<1>1. x * n <= O * (O * b)
  <2>1. O * (a * n) <= O * (O * b)
    BY TimesLeq
  <2>2. O * (a * n) = (O * a) * n
    BY TimesAssociative
  <2>3. n * x <= n * (O * a)
    BY TimesLeq
  <2>4. n * (O * a) = (O * a) * n /\ n * x = x * n
    BY TimesAssociative
  <2> QED  BY <2>1, <2>2, <2>3, <2>4
<1>2. x * n * r <= (O * O) * (b * r)
  <2>1. r * (x * n) <= r * (O * (O * b))
    BY <1>1, TimesLeq
  <2>2. r * (O * (O * b)) = (O * O) * (b * r) /\ r * (x * n) = x * n * r
    OBVIOUS
  <2> QED  BY <2>1, <2>2
<1>3. x * n * r <= (O * O * R) * c
  <2>1. (O * O) * (b * r) <= (O * O) * (R * c)
    BY TimesLeq
  <2>2. (O * O) * (R * c) = (O * O * R) * c
    OBVIOUS
  <2> QED  BY <1>2, <2>1, <2>2
<1>4. (O * O * R) * c <= (O * O * R) * (Q * d)
  BY TimesLeq
<1> QED
  BY <1>3, <1>4

-----------------------------------------------------------------------------
(* The fee of a fill lies in its envelope, whatever precision the venue     *)
(* rounds it to and whichever way.                                          *)
LEMMA Terms ==
  ASSUME NEW t \in Trades
  PROVE  /\ Fill[t].size \in Nat /\ Fill[t].price \in Nat /\ Fill[t].rate \in Nat
         /\ One - Fill[t].price \in Nat
         /\ One \in Nat \ {0} /\ RateUnit \in Nat \ {0} /\ Quantum \in Nat \ {0}
BY LedgerAssumption

LEMMA FeeBelow ==
  ASSUME NEW t \in Trades
  PROVE  /\ FeeLow[t] \in Nat
         /\ \E k \in Nat :
              /\ FeeLow[t] = Quantum * k
              /\ (One * One * RateUnit) * (Quantum * k)
                   <= Fill[t].size * Fill[t].price * (One - Fill[t].price) * Fill[t].rate
<1> DEFINE s == Fill[t].size
           p == Fill[t].price
           n == One - Fill[t].price
           r == Fill[t].rate
           exact == s * p * n * r
<1>1. /\ s \in Nat /\ p \in Nat /\ n \in Nat /\ r \in Nat
      /\ One \in Nat \ {0} /\ RateUnit \in Nat \ {0} /\ Quantum \in Nat \ {0}
  BY Terms
<1>2. FeeLow[t] = IF r = 0 THEN 0
                  ELSE (((Mul(Mul(s, p), n) * r) \div RateUnit) \div Quantum) * Quantum
  BY DEF FeeLow, FeeBase
<1> HIDE DEF s, p, n, r
<1>3. s * p \in Nat /\ exact \in Nat
  BY <1>1
<1>4. CASE r = 0
  <2>1. Quantum * 0 = 0 /\ (One * One * RateUnit) * 0 = 0
    BY <1>1
  <2> QED  BY <1>2, <1>3, <1>4, <2>1 DEF s, p, n, r
<1>5. CASE r # 0
  <2>1. PICK a \in Nat : a = Mul(s, p) /\ One * a <= s * p
    BY <1>1, <1>3, RoundedDown DEF Mul
  <2>2. a * n \in Nat
    BY <1>1
  <2>3. PICK b \in Nat : b = Mul(a, n) /\ One * b <= a * n
    BY <1>1, <2>2, RoundedDown DEF Mul
  <2>4. b * r \in Nat
    BY <1>1
  <2>5. PICK c \in Nat : c = (b * r) \div RateUnit /\ RateUnit * c <= b * r
    BY <1>1, <2>4, RoundedDown
  <2>6. PICK d \in Nat : d = c \div Quantum /\ Quantum * d <= c
    BY <1>1, RoundedDown
  <2>7. (One * One * RateUnit) * (Quantum * d) <= (s * p) * n * r
    <3>1. One * a <= s * p /\ One * b <= a * n /\ RateUnit * c <= b * r /\ Quantum * d <= c
      BY <2>1, <2>3, <2>5, <2>6
    <3> QED  BY ONLY <1>1, <1>3, <3>1, ChainDown
  <2>8. FeeLow[t] = d * Quantum
    BY <1>2, <1>5, <2>1, <2>3, <2>5, <2>6
  <2>9. d * Quantum = Quantum * d /\ Quantum * d \in Nat
    BY <1>1
  <2> QED  BY <2>7, <2>8, <2>9 DEF s, p, n, r
<1> QED
  BY <1>4, <1>5

LEMMA FeeAbove ==
  ASSUME NEW t \in Trades
  PROVE  /\ FeeHigh[t] \in Nat
         /\ \E k \in Nat :
              /\ FeeHigh[t] = Quantum * k
              /\ Fill[t].size * Fill[t].price * (One - Fill[t].price) * Fill[t].rate
                   <= (One * One * RateUnit) * (Quantum * k)
<1> DEFINE s == Fill[t].size
           p == Fill[t].price
           n == One - Fill[t].price
           r == Fill[t].rate
           exact == s * p * n * r
<1>1. /\ s \in Nat /\ p \in Nat /\ n \in Nat /\ r \in Nat
      /\ One \in Nat \ {0} /\ RateUnit \in Nat \ {0} /\ Quantum \in Nat \ {0}
  BY Terms
<1>2. FeeHigh[t] = IF r = 0 THEN 0
                   ELSE CeilDiv(CeilDiv(MulCeil(MulCeil(s, p), n) * r, RateUnit), Quantum) * Quantum
  BY DEF FeeHigh, FeeBase
<1> HIDE DEF s, p, n, r
<1>3. s * p \in Nat /\ exact \in Nat
  BY <1>1
<1>4. CASE r = 0
  <2>1. Quantum * 0 = 0 /\ (One * One * RateUnit) * 0 = 0 /\ exact = 0
    BY <1>1, <1>4
  <2> QED  BY <1>2, <1>3, <1>4, <2>1 DEF s, p, n, r
<1>5. CASE r # 0
  <2>1. PICK a \in Nat : a = MulCeil(s, p) /\ s * p <= One * a
    BY <1>1, <1>3, RoundedUp DEF MulCeil
  <2>2. a * n \in Nat
    BY <1>1
  <2>3. PICK b \in Nat : b = MulCeil(a, n) /\ a * n <= One * b
    BY <1>1, <2>2, RoundedUp DEF MulCeil
  <2>4. b * r \in Nat
    BY <1>1
  <2>5. PICK c \in Nat : c = CeilDiv(b * r, RateUnit) /\ b * r <= RateUnit * c
    BY <1>1, <2>4, RoundedUp DEF CeilDiv
  <2>6. PICK d \in Nat : d = CeilDiv(c, Quantum) /\ c <= Quantum * d
    BY <1>1, RoundedUp DEF CeilDiv
  <2>7. (s * p) * n * r <= (One * One * RateUnit) * (Quantum * d)
    <3>1. s * p <= One * a /\ a * n <= One * b /\ b * r <= RateUnit * c /\ c <= Quantum * d
      BY <2>1, <2>3, <2>5, <2>6
    <3> QED  BY ONLY <1>1, <1>3, <3>1, ChainUp
  <2>8. FeeHigh[t] = d * Quantum
    BY <1>2, <1>5, <2>1, <2>3, <2>5, <2>6
  <2>9. d * Quantum = Quantum * d /\ Quantum * d \in Nat
    BY <1>1
  <2> QED  BY <2>7, <2>8, <2>9 DEF s, p, n, r
<1> QED
  BY <1>4, <1>5

LEMMA FeeEnvelope ==
  ASSUME NEW t \in Trades, NEW f \in VenueFees[t]
  PROVE  f \in Nat /\ FeeLow[t] <= f /\ f <= FeeHigh[t]
<1> DEFINE exact == Fill[t].size * Fill[t].price * (One - Fill[t].price) * Fill[t].rate
           scale == One * One * RateUnit
<1>1. /\ f \in 0..Fill[t].size /\ f % Quantum = 0
      /\ exact - f * scale \in (1 - Quantum * scale)..(Quantum * scale - 1)
  BY DEF VenueFees
<1>2. /\ Quantum \in Nat \ {0} /\ scale \in Nat \ {0} /\ f \in Nat /\ exact \in Nat
  <2>1. One * One \in Nat \ {0}
    BY Terms
  <2>2. scale \in Nat \ {0}
    BY <2>1, Terms
  <2>3. Fill[t].size * Fill[t].price \in Nat
    BY Terms
  <2>4. Fill[t].size * Fill[t].price * (One - Fill[t].price) \in Nat
    BY <2>3, Terms
  <2>5. exact \in Nat
    BY <2>4, Terms
  <2> QED  BY <1>1, <2>2, <2>5, Terms
<1>3. PICK k \in Nat : f = Quantum * k
  <2>1. f = Quantum * (f \div Quantum) + (f % Quantum)
    BY <1>2
  <2>2. f \div Quantum \in Nat
    BY <1>2, RoundedDown
  <2>3. f = Quantum * (f \div Quantum)
    BY <1>1, <1>2, <2>1, <2>2
  <2> QED  BY <2>2, <2>3
<1>4. PICK l \in Nat : FeeLow[t] = Quantum * l /\ scale * (Quantum * l) <= exact
  BY FeeBelow
<1>5. PICK h \in Nat : FeeHigh[t] = Quantum * h /\ exact <= scale * (Quantum * h)
  BY FeeAbove
<1> HIDE DEF exact, scale
<1> DEFINE unit == scale * Quantum
<1>6. /\ scale * (Quantum * l) = unit * l /\ scale * (Quantum * h) = unit * h
      /\ f * scale = unit * k /\ Quantum * scale = unit
      /\ unit \in Nat \ {0} /\ unit * l \in Nat /\ unit * h \in Nat /\ unit * k \in Nat
  BY <1>2, <1>3
<1>7. exact < unit * k + unit /\ unit * k < exact + unit
  <2>1. /\ exact - f * scale <= Quantum * scale - 1
        /\ 1 - Quantum * scale <= exact - f * scale
    BY <1>1, <1>2 DEF exact, scale
  <2> HIDE DEF unit
  <2> QED  BY <1>2, <1>6, <2>1
<1> HIDE DEF unit
<1>8. unit * l < unit * (k + 1)
  <2>1. unit * (k + 1) = unit * k + unit
    BY <1>6
  <2> QED  BY <1>2, <1>4, <1>6, <1>7, <2>1
<1>9. unit * k < unit * (h + 1)
  <2>1. unit * (h + 1) = unit * h + unit
    BY <1>6
  <2> QED  BY <1>2, <1>5, <1>6, <1>7, <2>1
<1>10. l <= k /\ k <= h
  <2>1. l < k + 1
    BY <1>6, <1>8, TimesLess
  <2>2. k < h + 1
    BY <1>6, <1>9, TimesLess
  <2> QED  BY <2>1, <2>2
<1>11. Quantum * l <= Quantum * k /\ Quantum * k <= Quantum * h
  BY <1>2, <1>10, TimesLeq
<1> QED
  BY <1>2, <1>3, <1>4, <1>5, <1>11

-----------------------------------------------------------------------------
(* The numbers of an account, and what a set of fills adds to them.         *)
LEMMA RoundingOrder ==
  ASSUME NEW x \in Nat, NEW d \in Nat \ {0}
  PROVE  x \div d \in Nat /\ (x + d - 1) \div d \in Nat /\ x \div d <= (x + d - 1) \div d
<1>1. PICK q \in Nat : q = x \div d /\ d * q <= x
  BY RoundedDown
<1>2. PICK u \in Nat : u = (x + d - 1) \div d /\ x <= d * u
  BY RoundedUp
<1>3. d * q \in Nat /\ d * u \in Nat /\ d * (u + 1) = d * u + d
  OBVIOUS
<1>4. d * q < d * (u + 1)
  BY <1>1, <1>2, <1>3
<1>5. q < u + 1
  BY <1>4, TimesLess
<1> QED
  BY <1>1, <1>2, <1>5

LEMMA Notional ==
  ASSUME NEW t \in Trades
  PROVE  /\ Mul(Fill[t].price, Fill[t].size) \in Nat /\ MulCeil(Fill[t].price, Fill[t].size) \in Nat
         /\ Mul(Fill[t].price, Fill[t].size) <= MulCeil(Fill[t].price, Fill[t].size)
<1> DEFINE x == Fill[t].price * Fill[t].size
<1>1. x \in Nat /\ One \in Nat \ {0}
  BY Terms
<1>2. Mul(Fill[t].price, Fill[t].size) = x \div One /\ MulCeil(Fill[t].price, Fill[t].size) = (x + One - 1) \div One
  BY DEF Mul, MulCeil
<1> HIDE DEF x
<1> QED
  BY <1>1, <1>2, RoundingOrder

LEMMA TermNumbers ==
  ASSUME NEW t \in Trades
  PROVE  /\ Sizes[t] \in Int /\ Paid[t] \in Int /\ Costs[t] \in Int
         /\ Rounded[t] \in Nat /\ FeeLow[t] \in Nat /\ FeeHigh[t] \in Nat
<1>1. Fill[t].size \in Nat
  BY Terms
<1>2. /\ Mul(Fill[t].price, Fill[t].size) \in Nat /\ MulCeil(Fill[t].price, Fill[t].size) \in Nat
      /\ Mul(Fill[t].price, Fill[t].size) <= MulCeil(Fill[t].price, Fill[t].size)
  BY Notional
<1>3. Fill[t].paid \in Nat /\ Fill[t].fee \in Nat
  BY <1>2, FeeEnvelope, LedgerAssumption DEF VenuePays
<1>4. \A y \in Nat : Signed(t, y) \in Int
  BY DEF Signed
<1>5. /\ Sizes[t] = Signed(t, Fill[t].size)
      /\ Paid[t] = Signed(t, Fill[t].paid) + Fill[t].fee
      /\ Costs[t] = Signed(t, MulCeil(Fill[t].price, Fill[t].size))
      /\ Rounded[t] = MulCeil(Fill[t].price, Fill[t].size) - Mul(Fill[t].price, Fill[t].size)
  BY DEF Sizes, Paid, Costs, Rounded
<1> QED
  BY <1>1, <1>2, <1>3, <1>4, <1>5, FeeBelow, FeeAbove

LEMMA AccountNumbers ==
  ASSUME NEW a \in Account
  PROVE  Size(a) \in Int /\ Cash(a) \in Int /\ Equity(a) \in Int
<1>1. a.positions \subseteq Trades /\ a.cash \subseteq Trades
  BY DEF Account
<1>2. IsFiniteSet(a.positions) /\ IsFiniteSet(a.cash)
  BY <1>1, LedgerAssumption, FS_Subset
<1>3. SumFunctionOnSet(Sizes, a.positions) \in Int /\ SumFunctionOnSet(Paid, a.cash) \in Int
  BY <1>1, <1>2, TermNumbers, SumIsInteger
<1>4. Size(a) \in Int /\ Cash(a) \in Int
  BY <1>3, LedgerAssumption DEF Size, Cash
<1>5. Size(a) * Mark \in Int
  BY <1>4, LedgerAssumption
<1>6. Mul(Size(a), Mark) \in Int
  BY <1>5, LedgerAssumption DEF Mul
<1> QED
  BY <1>4, <1>6 DEF Equity

(* The proof rejects a true account by no more than the notionals lose to   *)
(* rounding: whatever fees the venue charges for the open fills and which   *)
(* ever way it rounds what it pays, balances that show them settle them, or *)
(* would with at most as many units more or less as were rounded down; none *)
(* are where the products are whole or rounded up                           *)
(* (authoritative_trade_fee_bounds and pending_account_reconciled).         *)
THEOREM EnvelopeComplete == Spec => []ProofComplete
<1>1. LedgerInv => ProofComplete
  <2> SUFFICES ASSUME LedgerInv PROVE ProofComplete
    OBVIOUS
  <2> DEFINE base == pending.baseline
             P == pending.trades
             a == [base EXCEPT !.positions = @ \cup P]
             notional(t) == MulCeil(Fill[t].price, Fill[t].size)
             Choices(of) == {f \in [P -> UNION {of[t] : t \in P}] : \A t \in P : f[t] \in of[t]}
  <2>1. SUFFICES ASSUME P # {}, pending.unresolved = {}, P \cap (base.positions \cup base.cash) = {},
                        Size(a) >= 0,
                        NEW pays \in Choices(VenuePays), NEW fee \in Choices(VenueFees)
                 PROVE  LET charged == [t \in P |-> Signed(t, pays[t]) + fee[t]]
                            lost == SumFunctionOnSet([t \in P |-> notional(t) - pays[t]], P)
                            left == Cash(base) - SumFunctionOnSet(charged, P)
                        IN \E d \in -lost..lost : Reconciled(pending, a, P, left + d)
    BY DEF ProofComplete
  <2>0. \A t \in P : pays[t] \in VenuePays[t] /\ fee[t] \in VenueFees[t]
    OBVIOUS
  <2> HIDE DEF Choices
  <2>2. base \in Account /\ P \subseteq Trades
    BY DEF LedgerInv, Typed, Pendings
  <2> DEFINE charged == [t \in P |-> Signed(t, pays[t]) + fee[t]]
             short == [t \in P |-> notional(t) - pays[t]]
             owed  == [t \in P |-> Signed(t, notional(t)) + fee[t]]
  <2>3. a.positions = base.positions \cup P /\ base.positions \subseteq Trades
    BY <2>2 DEF Account
  <2>4. IsFiniteSet(P) /\ IsFiniteSet(base.positions)
    BY <2>2, <2>3, LedgerAssumption, FS_Subset
  <2>5. Size(a) = Size(base) + SumFunctionOnSet(Sizes, P)
    <3>1. SumFunctionOnSet(Sizes, base.positions \cup P)
            = SumFunctionOnSet(Sizes, base.positions) + SumFunctionOnSet(Sizes, P)
      <4>1. base.positions \cap P = {} /\ \A t \in base.positions \cup P : Sizes[t] \in Int
        BY <2>1, <2>2, <2>3, TermNumbers
      <4> QED  BY ONLY <2>4, <4>1, SumUnion
    <3>2. SumFunctionOnSet(Sizes, base.positions) \in Int /\ SumFunctionOnSet(Sizes, P) \in Int
      BY <2>2, <2>3, <2>4, TermNumbers, SumIsInteger
    <3> HIDE DEF a
    <3> QED  BY <2>3, <3>1, <3>2, LedgerAssumption DEF Size
  <2>6. \A t \in P : /\ Costs[t] \in Int /\ fee[t] \in Int /\ owed[t] = Costs[t] + fee[t]
                     /\ FeeLow[t] \in Int /\ FeeHigh[t] \in Int
                     /\ FeeLow[t] <= fee[t] /\ fee[t] <= FeeHigh[t]
    BY <2>0, <2>2, TermNumbers, FeeEnvelope DEF Costs
  <2>7. Cash(base) \in Int
    BY <2>2, AccountNumbers
  <2>8. \A t \in P : /\ charged[t] \in Int /\ short[t] \in Int /\ owed[t] \in Int
                     /\ owed[t] <= charged[t] + short[t] /\ charged[t] <= owed[t] + short[t]
    <3> SUFFICES ASSUME NEW t \in P
                 PROVE  /\ charged[t] \in Int /\ short[t] \in Int /\ owed[t] \in Int
                        /\ owed[t] <= charged[t] + short[t] /\ charged[t] <= owed[t] + short[t]
      OBVIOUS
    <3>1. notional(t) \in Nat /\ pays[t] \in Nat /\ pays[t] <= notional(t)
      <4>1. t \in Trades /\ pays[t] \in VenuePays[t]
        BY <2>0, <2>2
      <4>2. pays[t] = Mul(Fill[t].price, Fill[t].size) \/ pays[t] = notional(t)
        BY <4>1 DEF VenuePays
      <4>3. /\ notional(t) \in Nat /\ Mul(Fill[t].price, Fill[t].size) \in Nat
            /\ Mul(Fill[t].price, Fill[t].size) <= notional(t)
        BY <4>1, Notional
      <4> HIDE DEF notional
      <4> QED  BY <4>2, <4>3
    <3>2. fee[t] \in Int
      BY <2>6
    <3>3. /\ charged[t] = Signed(t, pays[t]) + fee[t] /\ owed[t] = Signed(t, notional(t)) + fee[t]
          /\ short[t] = notional(t) - pays[t]
      OBVIOUS
    <3> HIDE DEF charged, short, owed, notional
    <3> QED  BY <3>1, <3>2, <3>3 DEF Signed
  <2> DEFINE costs == SumFunctionOnSet(Costs, P)
             fees  == SumFunctionOnSet(fee, P)
             low   == SumFunctionOnSet(FeeLow, P)
             high  == SumFunctionOnSet(FeeHigh, P)
             total == SumFunctionOnSet(charged, P)
             due   == SumFunctionOnSet(owed, P)
             lost  == SumFunctionOnSet(short, P)
  <2> HIDE DEF charged, short, owed, a
  <2>9. due = costs + fees /\ low <= fees /\ fees <= high
    BY ONLY <2>4, <2>6, SumPlus, SumMonotone
  <2>10. /\ costs \in Int /\ fees \in Int /\ low \in Int /\ high \in Int
         /\ total \in Int /\ due \in Int /\ lost \in Int
    BY ONLY <2>4, <2>6, <2>8, SumIsInteger
  <2>11. due <= total + lost /\ total <= due + lost
    <3> DEFINE below == [t \in P |-> charged[t] + short[t]]
               above == [t \in P |-> owed[t] + short[t]]
    <3>1. \A t \in P : /\ below[t] \in Int /\ above[t] \in Int
                       /\ below[t] = charged[t] + short[t] /\ above[t] = owed[t] + short[t]
                       /\ owed[t] <= below[t] /\ charged[t] <= above[t]
      BY <2>8
    <3> HIDE DEF below, above
    <3>2. SumFunctionOnSet(below, P) = total + lost /\ SumFunctionOnSet(above, P) = due + lost
      BY ONLY <2>4, <2>8, <3>1, SumPlus
    <3>3. due <= SumFunctionOnSet(below, P) /\ total <= SumFunctionOnSet(above, P)
      BY ONLY <2>4, <2>8, <3>1, SumMonotone
    <3> QED  BY <3>2, <3>3
  <2> HIDE DEF costs, fees, low, high, total, due, lost
  <2> DEFINE d == total - due
  <2>12. /\ d \in -lost..lost
         /\ Cash(base) - total + d >= Cash(base) - costs - high
         /\ Cash(base) - total + d <= Cash(base) - costs - low
    BY ONLY <2>7, <2>9, <2>10, <2>11
  <2> HIDE DEF d
  <2>13. Reconciled(pending, a, P, Cash(base) - total + d)
    BY <2>1, <2>5, <2>12 DEF Reconciled, costs, low, high
  <2> QED  BY <2>12, <2>13 DEF total, lost, charged, short
<1> QED
  BY LedgerInvariant, <1>1, PTL

(* What the theorem above allows does happen. A fill without a fee whose    *)
(* notional the venue rounds down leaves one unit more or less than the     *)
(* engine, which rounds up, admits: no true account ever settles it         *)
(* (pending_account_reconciled), and the lock stays.                        *)
THEOREM RoundingRefused ==
  ASSUME NEW t \in Trades, Fill[t].rate = 0,
         Mul(Fill[t].price, Fill[t].size) # MulCeil(Fill[t].price, Fill[t].size),
         NEW p \in Pendings, p.trades = {t}, NEW a, NEW proven \in SUBSET {t}
  PROVE  ~Reconciled(p, a, proven, Cash(p.baseline) - Signed(t, Mul(Fill[t].price, Fill[t].size)))
<1> DEFINE m == Mul(Fill[t].price, Fill[t].size)
           n == MulCeil(Fill[t].price, Fill[t].size)
<1>1. m \in Nat /\ n \in Nat /\ m < n
  BY Notional
<1>2. Cash(p.baseline) \in Int
  BY AccountNumbers DEF Pendings
<1>3. FeeLow[t] = 0 /\ FeeHigh[t] = 0 /\ Costs[t] = Signed(t, n)
  BY DEF FeeLow, FeeHigh, Costs
<1>4. ASSUME NEW f, f[t] \in Int PROVE SumFunctionOnSet(f, {t}) = f[t]
  <2>1. IsFiniteSet({t}) /\ {t} \ {t} = {}
    BY FS_Singleton
  <2>2. SumFunctionOnSet(f, {t}) = f[t] + SumFunctionOnSet(f, {t} \ {t})
    BY <1>4, <2>1, SumWithout
  <2>3. SumFunctionOnSet(f, {}) = 0
    BY SumEmpty
  <2> QED  BY <1>4, <2>1, <2>2, <2>3
<1>5. /\ SumFunctionOnSet(FeeLow, {t}) = 0 /\ SumFunctionOnSet(FeeHigh, {t}) = 0
      /\ SumFunctionOnSet(Costs, {t}) = Signed(t, n)
  <2>1. Costs[t] \in Int /\ FeeLow[t] \in Int /\ FeeHigh[t] \in Int
    BY TermNumbers
  <2> QED  BY <1>3, <1>4, <2>1
<1> HIDE DEF m, n
<1>6. \/ Cash(p.baseline) - Signed(t, m) > Cash(p.baseline) - Signed(t, n) - 0
      \/ Cash(p.baseline) - Signed(t, m) < Cash(p.baseline) - Signed(t, n) - 0
  BY <1>1, <1>2 DEF Signed
<1>7. Signed(t, m) \in Int /\ Signed(t, n) \in Int
  BY <1>1 DEF Signed
<1> SUFFICES ASSUME Reconciled(p, a, proven, Cash(p.baseline) - Signed(t, m)) PROVE FALSE
  BY DEF m
<1>8. proven = {t}
  BY DEF Reconciled
<1>9. /\ Cash(p.baseline) - Signed(t, m) >= Cash(p.baseline) - Signed(t, n) - 0
      /\ Cash(p.baseline) - Signed(t, m) <= Cash(p.baseline) - Signed(t, n) - 0
  BY <1>5, <1>8 DEF Reconciled
<1> QED
  BY <1>2, <1>6, <1>7, <1>9

-----------------------------------------------------------------------------
(* What the type invariant says beyond Typed, and the mark.                 *)
Counted ==
  /\ listed \subseteq Trades /\ Len(queue) <= QueueCapacity
  /\ \A t \in pending.trades : ledger[t] # "none" /\ t \notin settled
Marked ==
  /\ highWater \in Int /\ peak \in Int /\ highWater >= peak
  /\ up => highWater >= Equity(account)

LEMMA ObservedMark ==
  ASSUME LedgerInv, Marked, NEW a \in Account, Observes(a),
         up' => account' = a \/ (up /\ account' = account)
  PROVE  Marked'
<1>1. Equity(a) \in Int /\ Equity(account) \in Int
  BY AccountNumbers DEF LedgerInv, Typed
<1>2. PICK date_changed \in BOOLEAN : highWater' = HighWater(a, date_changed)
  BY DEF Observes
<1>3. peak' = IF Equity(a) > peak THEN Equity(a) ELSE peak
  BY DEF Observes
<1>4. /\ highWater' \in Int /\ peak' \in Int /\ highWater' >= peak'
      /\ highWater' >= Equity(a) /\ highWater' >= highWater
  BY <1>1, <1>2, <1>3 DEF Marked, HighWater
<1>5. up' => Equity(account') = Equity(a) \/ (up /\ Equity(account') = Equity(account))
  OBVIOUS
<1>6. up' => highWater' >= Equity(account')
  BY <1>1, <1>4, <1>5 DEF Marked
<1>7. Equity(account)' = Equity(account')
  BY DEF Equity, Cash, Size
<1> QED
  BY <1>4, <1>6, <1>7 DEF Marked

LEMMA MarkSteps == LedgerInv /\ Marked /\ [Next]_vars => Marked'
<1> SUFFICES ASSUME LedgerInv, Marked, [Next]_vars PROVE Marked'
  OBVIOUS
<1>1. CASE UNCHANGED <<highWater, peak>> /\ (up' => up /\ account' = account)
  <2>1. up' => Equity(account)' = Equity(account)
    BY <1>1 DEF Equity, Cash, Size
  <2> QED  BY <1>1, <2>1 DEF Marked
<1>2. CASE AuditApplies
  <2>1. up /\ AuditAccount \in Account
    BY <1>2, AuditReading DEF AuditApplies
  <2>2. /\ UNCHANGED up /\ (account' = account \/ account' = AuditAccount)
        /\ UNCHANGED <<account, highWater, peak>> \/ Observes(AuditAccount)
    BY <1>2 DEF AuditApplies, AuditAccount, Settles
  <2> QED  BY <1>1, <2>1, <2>2, ObservedMark
<1>3. CASE Submits \/ StartApplies \/ StartDies
  <2>1. AccountRead \in Account
    BY DEF LedgerInv, Typed, AccountRead
  <2>2. Observes(AccountRead)
    BY <1>3 DEF Submits, StartApplies, StartDies
  <2>3. up' => account' = AccountRead \/ (up /\ account' = account)
    BY <1>3 DEF Submits, StartApplies, StartDies, memoryVars
  <2> QED  BY <2>1, <2>2, <2>3, ObservedMark
<1>4. CASE VenueActs \/ StreamSends
  BY <1>1, <1>4 DEF VenueActs, StreamSends, Announces, memoryVars
<1>5. CASE TakeTrade \/ TakeOrder \/ TakeConnected
  BY <1>1, <1>5 DEF TakeTrade, TakeOrder, TakeConnected
<1>6. CASE AuditReads \/ AuditVoid \/ AuditDies \/ Crash \/ StartReads
  BY <1>1, <1>6 DEF AuditReads, AuditVoid, AuditDies, Crash, StartReads, memoryVars
<1>7. CASE UNCHANGED vars
  BY <1>1, <1>7 DEF vars, memoryVars
<1> QED
  BY <1>2, <1>3, <1>4, <1>5, <1>6, <1>7 DEF Next

(* No restart and no change of date lowers the mark that losses are         *)
(* measured from below what a reading has shown, nor is an account adopted  *)
(* above it (apply_equity_high_water and observe_and_rollover).             *)
THEOREM MarkKept == Spec => []LossKept
<1>1. Init => Marked
  BY DEF Init, Marked
<1>2. Marked => LossKept
  BY DEF Marked, LossKept
<1> QED
  BY LedgerInvariant, MarkSteps, <1>1, <1>2, PTL DEF Spec

-----------------------------------------------------------------------------
(* The fills that are pending are noted and not settled.                    *)
LEMMA NewsPending ==
  ASSUME LedgerInv, Counted, up, NEW S, NEW h, Heard(S, h)
  PROVE  \A t \in OpenedBy(S, h).trades : Noted(ledger, S, h)[t] # "none" /\ t \notin settled
<1> DEFINE new == {t \in S : Active(h[t])} \ settled
           p == OpenedBy(S, h)
<1>1. p.trades = pending.trades \cup new
  <2>1. Typed /\ InMemory
    BY DEF LedgerInv
  <2> QED  BY <2>1, OpenedPending
<1>2. ledger \in History /\ pending.trades \subseteq Trades
  BY DEF LedgerInv, Typed, Pendings
<1>3. /\ \A t \in Trades \ S : Noted(ledger, S, h)[t] = ledger[t]
      /\ \A t \in S : Noted(ledger, S, h)[t] \in Statuses
  BY <1>2, NotedHistory
<1>4. \A t \in S : Noted(ledger, S, h)[t] # "none"
  BY <1>3 DEF Statuses
<1>5. \A t \in pending.trades : ledger[t] # "none" /\ t \notin settled
  BY DEF Counted
<1> QED
  BY <1>1, <1>2, <1>3, <1>4, <1>5

LEMMA CountedSteps == LedgerInv /\ Counted /\ [Next]_vars => Counted'
<1> SUFFICES ASSUME LedgerInv, Counted, [Next]_vars PROVE Counted'
  OBVIOUS
<1>0. queue \in Seq(Notice) /\ Len(queue) <= QueueCapacity /\ listed \subseteq Trades
  BY DEF LedgerInv, Typed, Counted
<1>1. queue # <<>> => Len(Tail(queue)) <= QueueCapacity
  BY <1>0, HeadTailProperties, LedgerAssumption
<1>2. NoPending.trades = {}
  BY DEF NoPending
<1>3. CASE VenueActs
  <2>1. UNCHANGED <<queue, ledger, settled, pending>>
    BY <1>3 DEF VenueActs, memoryVars
  <2>2. listed' \subseteq Trades
    BY <1>0, <1>3 DEF VenueActs, Executes, Advances, Lists, Appears
  <2> QED  BY <1>0, <2>1, <2>2 DEF Counted
<1>4. CASE StreamSends
  <2>1. ASSUME NEW n, Announces(n) PROVE Counted'
    <3>1. /\ UNCHANGED <<listed, ledger, settled, pending>>
          /\ Len(queue) < QueueCapacity /\ queue' = Append(queue, n)
      BY <2>1 DEF Announces, venueVars, memoryVars
    <3>2. Len(queue') <= QueueCapacity
      BY <1>0, <3>1, LedgerAssumption
    <3> QED  BY <3>1, <3>2 DEF Counted
  <2> QED  BY <1>4, <2>1 DEF StreamSends
<1>5. CASE TakeTrade
  <2> DEFINE S == {Head(queue).trade}
             h == [t \in Trades |-> IF t \in S THEN Head(queue).status ELSE "none"]
  <2>1. Head(queue) \in Notice /\ Head(queue).kind = "trade"
    BY <1>0, <1>5, HeadTailProperties DEF TakeTrade
  <2>2. Heard(S, h)
    BY <2>1 DEF Heard, History, Statuses, Notice
  <2>3. /\ up /\ ledger' = Noted(ledger, S, h) /\ pending' = OpenedBy(S, h)
        /\ UNCHANGED <<listed, settled>> /\ queue' = Tail(queue) /\ queue # <<>>
    BY <1>5 DEF TakeTrade, venueVars
  <2> HIDE DEF S, h
  <2>4. \A t \in pending'.trades : ledger'[t] # "none" /\ t \notin settled'
    BY <2>2, <2>3, NewsPending
  <2> QED  BY <1>0, <1>1, <2>3, <2>4 DEF Counted
<1>6. CASE TakeOrder
  <2>1. UNCHANGED <<listed, ledger, settled>> /\ queue' = Tail(queue) /\ queue # <<>>
    BY <1>6 DEF TakeOrder, venueVars
  <2>2. pending \in Pendings
    BY DEF LedgerInv, Typed
  <2>3. pending'.trades = pending.trades
    BY <1>6, <2>2 DEF TakeOrder, Pendings
  <2> QED  BY <1>0, <1>1, <2>1, <2>3 DEF Counted
<1>7. CASE TakeConnected
  <2>1. up /\ UNCHANGED <<listed, settled>> /\ queue' = Tail(queue) /\ queue # <<>>
    BY <1>7 DEF TakeConnected, venueVars
  <2>2. CASE UNCHANGED <<journal, ledger, pending>>
    BY <1>0, <1>1, <2>1, <2>2 DEF Counted
  <2>3. CASE /\ ledger' = Noted(ledger, News(TradeHistory, ledger), TradeHistory)
             /\ pending' = OpenedBy(News(TradeHistory, ledger), TradeHistory)
    <3>1. Heard(News(TradeHistory, ledger), TradeHistory)
      BY HistoryRead DEF LedgerInv
    <3>2. \A t \in pending'.trades : ledger'[t] # "none" /\ t \notin settled'
      BY <2>1, <2>3, <3>1, NewsPending
    <3> QED  BY <1>0, <1>1, <2>1, <3>2 DEF Counted
  <2> QED  BY <1>7, <2>2, <2>3 DEF TakeConnected
<1>8. CASE AuditReads \/ AuditVoid \/ StartReads \/ Submits
  <2>1. UNCHANGED <<listed, queue, ledger, settled, pending>>
    BY <1>8 DEF AuditReads, AuditVoid, StartReads, Submits, venueVars, memoryVars
  <2> QED  BY <1>0, <2>1 DEF Counted
<1>9. CASE AuditApplies
  <2> DEFINE S == News(AuditHistory, ledger)
  <2>1. up /\ Heard(S, AuditHistory)
    BY <1>9, AuditReading DEF AuditApplies
  <2>2. /\ UNCHANGED <<listed, queue>> /\ ledger' = Noted(ledger, S, AuditHistory)
        /\ \/ pending' = OpenedBy(S, AuditHistory) /\ settled' = settled
           \/ pending' = NoPending
    BY <1>9 DEF AuditApplies, AuditHistory, Settles, venueVars
  <2> HIDE DEF S
  <2>3. \A t \in pending'.trades : ledger'[t] # "none" /\ t \notin settled'
    BY <1>2, <2>1, <2>2, NewsPending
  <2> QED  BY <1>0, <2>2, <2>3 DEF Counted
<1>10. CASE AuditDies \/ Crash
  <2>1. UNCHANGED listed /\ pending' = NoPending /\ (queue' = queue \/ queue' = <<>>)
    BY <1>10 DEF AuditDies, Crash, venueVars
  <2>2. Len(queue') <= QueueCapacity
    BY <1>0, <2>1, LedgerAssumption
  <2> QED  BY <1>0, <1>2, <2>1, <2>2 DEF Counted
<1>11. CASE StartApplies \/ StartDies
  <2>1. /\ UNCHANGED <<listed, queue>>
        /\ UNCHANGED <<ledger, settled, pending>> \/ pending' = NoPending
    BY <1>11 DEF StartApplies, StartDies, venueVars, memoryVars
  <2> QED  BY <1>0, <1>2, <2>1 DEF Counted
<1>12. CASE UNCHANGED vars
  BY <1>0, <1>12 DEF vars, venueVars, memoryVars, Counted
<1> QED
  BY <1>3, <1>4, <1>5, <1>6, <1>7, <1>8, <1>9, <1>10, <1>11, <1>12 DEF Next

(* Every variable keeps its type, the stream's queue its bound, and what is *)
(* pending is noted and never settled twice (record_pending_account_event   *)
(* and commit_account_reconciliation).                                      *)
THEOREM LedgerTypes == Spec => []TypeOK
<1>1. Init => Counted
  BY LedgerAssumption DEF Init, Counted, NoPending
<1>2. Init => Marked
  BY DEF Init, Marked
<1>3. LedgerInv /\ Counted /\ Marked => TypeOK
  BY DEF LedgerInv, Typed, Counted, Marked, TypeOK, Pendings
<1> QED
  BY LedgerInvariant, CountedSteps, MarkSteps, <1>1, <1>2, <1>3, PTL DEF Spec

-----------------------------------------------------------------------------
(* Reads in the order they were made. Balances and positions only come to   *)
(* show more, and no account takes the place of a later one.                *)
Within(a, b) == a.positions \subseteq b.positions /\ a.cash \subseteq b.cash

ReadInv ==
  /\ \A t \in shown.positions \cup shown.cash : standing[t] # "none"
  /\ up => Within(account, shown)
  /\ reading.of = "account" => Within(account, reading.account) /\ Within(reading.account, shown)

(* A step that moves on in the course of the reads.                         *)
ReadOn ==
  /\ Within(shown, shown')
  /\ up' => \/ ~up /\ account' = shown
            \/ up /\ Within(account, account')
  /\ up' \/ journal'.settled = journal.settled

LEMMA ShownMore == ASSUME LedgerInv, ReadInv, VenueActs PROVE ReadInv' /\ ReadOn
<1>1. UNCHANGED <<up, account, reading, journal>>
  BY DEF VenueActs, memoryVars
<1>2. standing \in History /\ shown \in Account
  BY DEF LedgerInv, Typed
<1>3. Within(shown, shown') /\ \A t \in shown'.positions \cup shown'.cash : standing'[t] # "none"
  <2>1. ASSUME NEW t \in Trades, Executes(t)
        PROVE  Within(shown, shown') /\ \A u \in shown'.positions \cup shown'.cash : standing'[u] # "none"
    BY <1>2, <2>1 DEF Executes, Within, ReadInv, History
  <2>2. ASSUME NEW t \in Trades, NEW s \in Course, Advances(t, s)
        PROVE  Within(shown, shown') /\ \A u \in shown'.positions \cup shown'.cash : standing'[u] # "none"
    <3>1. s # "none"
      BY LedgerAssumption DEF Statuses
    <3> QED  BY <1>2, <2>2, <3>1 DEF Advances, Within, ReadInv, History
  <2>3. ASSUME NEW t \in Trades, Lists(t)
        PROVE  Within(shown, shown') /\ \A u \in shown'.positions \cup shown'.cash : standing'[u] # "none"
    BY <2>3 DEF Lists, Within, ReadInv
  <2>4. ASSUME NEW t \in Trades, Appears(t)
        PROVE  Within(shown, shown') /\ \A u \in shown'.positions \cup shown'.cash : standing'[u] # "none"
    <3>1. /\ standing' = standing /\ standing[t] # "none"
          /\ \/ shown' = [shown EXCEPT !.positions = @ \cup {t}]
             \/ shown' = [shown EXCEPT !.cash = @ \cup {t}]
      BY <2>4 DEF Appears
    <3>2. /\ shown.positions \subseteq shown'.positions /\ shown.cash \subseteq shown'.cash
          /\ shown'.positions \cup shown'.cash \subseteq shown.positions \cup shown.cash \cup {t}
      BY <1>2, <3>1 DEF Account
    <3> QED  BY <3>1, <3>2 DEF Within, ReadInv
  <2> QED  BY <2>1, <2>2, <2>3, <2>4 DEF VenueActs
<1> QED
  BY <1>1, <1>3 DEF ReadInv, ReadOn, Within

LEMMA AuditReadsOn ==
  ASSUME LedgerInv, ReadInv, Audits
  PROVE  Within(account, AuditAccount) /\ Within(AuditAccount, shown)
BY AuditReading DEF ReadInv, AuditAccount, AccountRead, Within

LEMMA ReadSteps == LedgerInv /\ ReadInv /\ [Next]_vars => ReadInv' /\ ReadOn
<1> SUFFICES ASSUME LedgerInv, ReadInv, [Next]_vars PROVE ReadInv' /\ ReadOn
  OBVIOUS
<1>0. Within(shown, shown) /\ Within(account, account) /\ NoReading.of # "account"
  BY DEF Within, NoReading
<1>1. CASE StreamSends \/ UNCHANGED vars
  <2>1. UNCHANGED <<standing, shown, up, account, reading, journal>>
    BY <1>1 DEF StreamSends, Announces, vars, venueVars, memoryVars
  <2> QED  BY <1>0, <2>1 DEF ReadInv, ReadOn
<1>2. CASE TakeTrade \/ TakeOrder \/ TakeConnected
  <2>1. UNCHANGED <<standing, shown, up, account>> /\ up /\ reading' = NoReading
    BY <1>2 DEF TakeTrade, TakeOrder, TakeConnected, venueVars
  <2> QED  BY <1>0, <2>1 DEF ReadInv, ReadOn
<1>3. CASE AuditReads \/ AuditVoid \/ StartReads
  <2>1. UNCHANGED <<standing, shown, up, account, journal>>
    BY <1>3 DEF AuditReads, AuditVoid, StartReads, venueVars, memoryVars
  <2>2. reading'.of = "account" => reading'.account = shown /\ up
    BY <1>0, <1>3 DEF AuditReads, AuditVoid, StartReads, AccountRead
  <2> QED  BY <1>0, <2>1, <2>2 DEF ReadInv, ReadOn
<1>4. CASE Submits
  <2>1. UNCHANGED <<standing, shown, up, journal>> /\ up /\ reading = NoReading /\ reading' = reading
    BY <1>4 DEF Submits, venueVars
  <2>2. account' = account \/ account' = shown
    BY <1>4 DEF Submits, AccountRead
  <2> QED  BY <1>0, <2>1, <2>2 DEF ReadInv, ReadOn
<1>5. CASE AuditApplies
  <2>1. UNCHANGED <<standing, shown, up>> /\ up /\ reading' = NoReading /\ Audits
    BY <1>5, AuditReading DEF AuditApplies, venueVars
  <2>2. account' = account \/ account' = AuditAccount
    BY <1>5 DEF AuditApplies, AuditAccount, Settles
  <2> QED  BY <1>0, <2>1, <2>2, AuditReadsOn DEF ReadInv, ReadOn
<1>6. CASE AuditDies
  <2>1. UNCHANGED <<standing, shown>> /\ ~up' /\ reading' = NoReading
    BY <1>6 DEF AuditDies, venueVars
  <2>2. PICK S, h : journal' = Journaled(journal, S, h, Baseline)
    BY <1>6 DEF AuditDies
  <2>3. journal'.settled = journal.settled
    BY <2>2 DEF Journaled, LedgerInv, Typed, Journal
  <2> QED  BY <1>0, <2>1, <2>3 DEF ReadInv, ReadOn
<1>7. CASE Crash
  BY <1>0, <1>7 DEF Crash, venueVars, ReadInv, ReadOn
<1>8. CASE StartApplies
  <2>1. UNCHANGED <<standing, shown>> /\ ~up /\ reading' = NoReading
    BY <1>8 DEF StartApplies, venueVars, LedgerInv, Fits
  <2>2. CASE UNCHANGED <<up, memoryVars>>
    <3>1. journal' = journal \/ \E S, h, base : journal' = Journaled(journal, S, h, base)
      BY <1>8, <2>1, <2>2 DEF StartApplies
    <3>2. journal'.settled = journal.settled
      BY <3>1 DEF Journaled, LedgerInv, Typed, Journal
    <3> QED  BY <1>0, <2>1, <2>2, <3>2 DEF ReadInv, ReadOn
  <2>3. CASE up' /\ account' = shown
    BY <1>0, <2>1, <2>3 DEF ReadInv, ReadOn
  <2> QED  BY <1>8, <2>2, <2>3 DEF StartApplies, AccountRead
<1>9. CASE StartDies
  <2>1. UNCHANGED <<standing, shown, up, account>> /\ ~up /\ reading' = NoReading
    BY <1>9 DEF StartDies, venueVars, memoryVars, LedgerInv, Fits
  <2>2. PICK S, h : journal' = Journaled(journal, S, h, StartBase)
    BY <1>9 DEF StartDies
  <2>3. journal'.settled = journal.settled
    BY <2>2 DEF Journaled, LedgerInv, Typed, Journal
  <2> QED  BY <1>0, <2>1, <2>3 DEF ReadInv, ReadOn
<1> QED
  BY <1>1, <1>2, <1>3, <1>4, <1>5, <1>6, <1>7, <1>8, <1>9, ShownMore DEF Next

LEMMA ReadInvariant == Spec => [](LedgerInv /\ ReadInv)
<1>1. Init => ReadInv
  BY DEF Init, ReadInv, NoAccount, NoReading
<1> QED
  BY <1>1, LedgerInvariant, ReadSteps, PTL DEF Spec

(* The account in use never goes back: no read that was made before the     *)
(* account it was replaced by comes to replace it, whichever of the audit,  *)
(* its two halves and the submission read it.                               *)
THEOREM AccountAdvances == Spec => [][up /\ up' => Within(account, account')]_vars
<1>1. LedgerInv /\ ReadInv /\ [Next]_vars => [up /\ up' => Within(account, account')]_vars
  BY ReadSteps DEF ReadOn
<1> QED
  BY <1>1, ReadInvariant, PTL DEF Spec

-----------------------------------------------------------------------------
(* What is settled shows. A settlement compares numbers, and different      *)
(* fills may make the same ones. Where the account it adopts shows what it  *)
(* settles, the account in use shows every recorded fill.                   *)
Has(a, S) == S \subseteq a.positions /\ S \subseteq a.cash

SettlesShown == Has(account', journal'.settled \ journal.settled)

SettledShown == Has(shown, journal.settled) /\ (up => Has(account, journal.settled))

LEMMA SettledStep ==
  ASSUME LedgerInv, ReadInv, SettledShown, [Next]_vars, [SettlesShown]_vars
  PROVE  SettledShown'
<1>1. ReadOn /\ ReadInv'
  BY ReadSteps
<1>2. CASE UNCHANGED vars
  BY <1>2 DEF vars, venueVars, memoryVars, SettledShown, Has
<1>3. CASE SettlesShown
  <2>1. CASE up'
    <3>1. Has(account', journal.settled)
      BY <1>1, <2>1 DEF ReadOn, SettledShown, Has, Within
    <3>2. Has(account', journal'.settled)
      BY <1>3, <3>1 DEF SettlesShown, Has
    <3>3. Has(shown', journal'.settled)
      BY <1>1, <2>1, <3>2 DEF ReadInv, Has, Within
    <3> QED  BY <3>2, <3>3 DEF SettledShown
  <2>2. CASE ~up'
    BY <1>1, <2>2 DEF ReadOn, SettledShown, Has, Within
  <2> QED  BY <2>1, <2>2
<1> QED
  BY <1>2, <1>3

LEMMA FeeOrder ==
  ASSUME NEW t \in Trades
  PROVE  FeeLow[t] \in Int /\ FeeHigh[t] \in Int /\ FeeLow[t] <= FeeHigh[t]
<1>1. Fill[t].fee \in VenueFees[t] /\ FeeLow[t] \in Nat /\ FeeHigh[t] \in Nat
  BY LedgerAssumption, TermNumbers
<1>2. Fill[t].fee \in Nat /\ FeeLow[t] <= Fill[t].fee /\ Fill[t].fee <= FeeHigh[t]
  BY <1>1, FeeEnvelope
<1> QED
  BY <1>1, <1>2

LEMMA AllShown ==
  ASSUME LedgerInv, ReadInv, SettledShown
  PROVE  AccountShowsRecorded
<1> SUFFICES ASSUME up, ~latched, ~IsOpen(pending) PROVE AccountShowsRecorded
  BY DEF AccountShowsRecorded
<1> DEFINE recorded == {t \in Trades : ledger[t] # "none"}
           executed == {t \in Trades : standing[t] # "none"}
           possible == {S \in SUBSET executed : recorded \subseteq S}
           low   == SumFunctionOnSet(FeeLow, recorded)
           high  == SumFunctionOnSet(FeeHigh, recorded)
           round == SumFunctionOnSet(Rounded, recorded)
           slack == high - low + round
<1>1. recorded \subseteq journal.settled
  <2>1. ledger = journal.status /\ Failures(journal) = {}
    BY DEF LedgerInv, InMemory, Mirrors
  <2>2. OpenTrades(journal) = {}
    BY DEF LedgerInv, InMemory, Mirrors, Covered, IsOpen
  <2> QED  BY <2>1, <2>2 DEF OpenTrades, Failures, Noticed
<1>2. account \in Account
  BY DEF LedgerInv, Typed
<1>3. account.positions \in possible /\ account.cash \in possible
  BY <1>1, <1>2 DEF SettledShown, Has, ReadInv, Within, Account
<1>4. /\ Size(account) = Size([account EXCEPT !.positions = account.positions])
      /\ Cash(account) = Cash([account EXCEPT !.cash = account.cash])
  BY <1>2 DEF Size, Cash, Account
<1>5. Cash(account) \in Int
  BY <1>2, AccountNumbers
<1>6. low \in Int /\ high \in Int /\ low <= high /\ round \in Int /\ round >= 0
  <2>1. IsFiniteSet(recorded) /\ recorded \subseteq Trades
    BY LedgerAssumption, FS_Subset
  <2>2. \A t \in recorded : FeeLow[t] \in Int /\ FeeHigh[t] \in Int /\ FeeLow[t] <= FeeHigh[t]
    BY <2>1, FeeOrder
  <2>3. \A t \in recorded : Rounded[t] \in Nat
    BY <2>1, TermNumbers
  <2>4. round \in Nat
    BY ONLY <2>1, <2>3, SumNonNegative
  <2> HIDE DEF round
  <2> QED  BY ONLY <2>1, <2>2, <2>4, SumIsInteger, SumMonotone
<1> HIDE DEF low, high, round
<1>7. 0 \in -slack..slack
  BY <1>6
<1>8. Cash(account) - Cash([account EXCEPT !.cash = account.cash]) \in -slack..slack
  BY <1>4, <1>5, <1>7
<1> HIDE DEF possible
<1>9. /\ \E S \in possible : Size(account) = Size([account EXCEPT !.positions = S])
      /\ \E S \in possible : Cash(account) - Cash([account EXCEPT !.cash = S]) \in -slack..slack
  BY <1>3, <1>4, <1>8
<1> QED
  BY <1>9 DEF AccountShowsRecorded, possible, low, high, round

(* Whatever lags behind whatever else, is announced late or never, and      *)
(* crashes between which records: as long as no settlement takes the        *)
(* numbers of other fills for those it settles, the account the next order  *)
(* is judged by shows every recorded fill.                                  *)
THEOREM ShownUnlessMistaken == Spec /\ [][SettlesShown]_vars => []AccountShowsRecorded
<1>1. Init => SettledShown
  BY DEF Init, SettledShown, Has
<1>2. LedgerInv /\ ReadInv /\ SettledShown /\ [Next]_vars /\ [SettlesShown]_vars => SettledShown'
  BY SettledStep
<1>3. LedgerInv /\ ReadInv /\ SettledShown => AccountShowsRecorded
  BY AllShown
<1> QED
  BY <1>1, <1>2, <1>3, ReadInvariant, PTL DEF Spec
-----------------------------------------------------------------------------
(* Where numbers tell fills apart, no settlement is mistaken.               *)

(* Other fills than those it compares with do not make the same change of   *)
(* the position, nor one of the cash that their fee envelope admits.        *)
Distinguishable ==
  \A P, A \in SUBSET Trades :
    /\ SumFunctionOnSet(Sizes, A) = SumFunctionOnSet(Sizes, P) => P \subseteq A
    /\ SumFunctionOnSet(Paid, A) - SumFunctionOnSet(Costs, P)
         \in SumFunctionOnSet(FeeLow, P)..SumFunctionOnSet(FeeHigh, P) => P \subseteq A

(* Every account that changes are compared with was read before the one     *)
(* they are compared to.                                                    *)
Kept(j, a) ==
  /\ \A t \in Trades : Within(j.trade[t], a)
  /\ \A o \in Orders : Within(j.order[o], a)

BaseInv ==
  /\ Kept(journal, shown) /\ Within(pending.baseline, shown)
  /\ reading.of = "account" => Within(pending.baseline, reading.account)

LEMMA KeptOn ==
  ASSUME NEW j \in Journal, NEW a, Kept(j, a),
         NEW S, NEW h, Heard(S, h), NEW base \in Account, Within(base, a)
  PROVE  /\ Kept(Journaled(j, S, h, base), a)
         /\ \A X : Kept([Journaled(j, S, h, base) EXCEPT !.settled = @ \cup X], a)
<1>1. PICK k : k = Journaled(j, S, h, base)
  OBVIOUS
<1>2. k \in Journal /\ Follows(k, j, S, h, base)
  BY <1>1, JournaledRecord
<1>3. Kept(k, a)
  BY <1>2 DEF Kept, Follows
<1>4. ASSUME NEW X PROVE Kept([k EXCEPT !.settled = @ \cup X], a)
  <2>1. /\ [k EXCEPT !.settled = @ \cup X].trade = k.trade
        /\ [k EXCEPT !.settled = @ \cup X].order = k.order
    BY <1>2 DEF Journal
  <2> QED  BY <1>3, <2>1 DEF Kept
<1> QED
  BY <1>1, <1>3, <1>4

LEMMA BaselineRead ==
  ASSUME LedgerInv, ReadInv, BaseInv, up
  PROVE  /\ Baseline \in Account /\ Within(Baseline, shown)
         /\ reading.of = "account" => Within(Baseline, reading.account)
BY PendingOpen DEF LedgerInv, ReadInv, BaseInv, Baseline

LEMMA OpenedBaseline ==
  ASSUME LedgerInv, ReadInv, BaseInv, up, NEW S, NEW h, Heard(S, h)
  PROVE  /\ OpenedBy(S, h) \in Pendings /\ Within(OpenedBy(S, h).baseline, shown)
         /\ reading.of = "account" => Within(OpenedBy(S, h).baseline, reading.account)
<1>1. /\ OpenedBy(S, h) \in Pendings
      /\ OpenedBy(S, h) = pending \/ OpenedBy(S, h).baseline = Baseline
  BY OpenedPending DEF LedgerInv
<1> QED
  BY <1>1, BaselineRead DEF BaseInv

LEMMA RecoveredBaseline ==
  ASSUME NEW j \in Journal, NEW a, Kept(j, a)
  PROVE  RecoveredPending(j) \in Pendings /\ Within(RecoveredPending(j).baseline, a)
<1>1. NoPending \in Pendings /\ Within(NoPending.baseline, a)
  BY DEF NoPending, NoAccount, Account, Pendings, Within
<1>2. OpenTrades(j) \subseteq Trades /\ OpenOrders(j) \subseteq Orders
  BY DEF OpenTrades, Noticed, OpenOrders, Journal
<1>3. \A b \in OpenBaselines(j) : b \in Account /\ Within(b, a)
  BY <1>2 DEF OpenBaselines, Kept, Journal
<1>4. ASSUME OpenBaselines(j) # {}
      PROVE  /\ RecoveredPending(j).baseline \in OpenBaselines(j)
             /\ RecoveredPending(j).trades = OpenTrades(j)
             /\ RecoveredPending(j).unresolved = OpenOrders(j)
             /\ RecoveredPending(j) \in [baseline : OpenBaselines(j), trades : {OpenTrades(j)},
                                         unresolved : {OpenOrders(j)}]
  BY <1>4 DEF RecoveredPending
<1>5. OpenBaselines(j) # {} => RecoveredPending(j) \in Pendings
  BY <1>2, <1>3, <1>4 DEF Pendings
<1>6. OpenBaselines(j) = {} => RecoveredPending(j) = NoPending
  BY DEF RecoveredPending
<1> QED
  BY <1>1, <1>3, <1>4, <1>5, <1>6

(* What a start journals, and what it compares.                             *)
LEMMA StartKept ==
  ASSUME LedgerInv, BaseInv, reading.of = "startup", NEW S, NEW h, Heard(S, h),
         NEW j, j = Journaled(journal, S, h, StartBase)
  PROVE  /\ j \in Journal /\ j.settled = journal.settled
         /\ Kept(j, shown) /\ \A X : Kept([j EXCEPT !.settled = @ \cup X], shown)
         /\ RecoveredPending(j) \in Pendings /\ Within(RecoveredPending(j).baseline, shown)
<1>1. journal \in Journal /\ StartBase \in Account /\ Kept(journal, shown)
  BY StartFrom DEF BaseInv
<1>2. Within(StartBase, shown)
  BY <1>1, RecoveredBaseline DEF StartBase, AccountRead, Within
<1>3. j \in Journal /\ j.settled = journal.settled
  BY <1>1, JournaledRecord DEF Follows
<1>4. Kept(j, shown) /\ \A X : Kept([j EXCEPT !.settled = @ \cup X], shown)
  BY <1>1, <1>2, KeptOn
<1>5. RecoveredPending(j) \in Pendings /\ Within(RecoveredPending(j).baseline, shown)
  BY <1>3, <1>4, RecoveredBaseline
<1> QED
  BY <1>3, <1>4, <1>5

LEMMA BaseSteps == LedgerInv /\ ReadInv /\ BaseInv /\ [Next]_vars => BaseInv'
<1> SUFFICES ASSUME LedgerInv, ReadInv, BaseInv, [Next]_vars PROVE BaseInv'
  OBVIOUS
<1>0. /\ journal \in Journal /\ Within(shown, shown') /\ NoReading.of # "account"
      /\ Within(NoPending.baseline, shown)
  BY ReadSteps DEF LedgerInv, Typed, ReadOn, NoReading, NoPending, NoAccount, Within
<1>1. CASE VenueActs \/ StreamSends \/ UNCHANGED vars
  <2>1. UNCHANGED <<pending, reading, journal>>
    BY <1>1 DEF VenueActs, StreamSends, Announces, vars, memoryVars
  <2> QED  BY <1>0, <2>1 DEF BaseInv, Kept, Within
<1>2. CASE AuditReads \/ AuditVoid \/ StartReads
  <2>1. UNCHANGED <<shown, pending, journal>>
    BY <1>2 DEF AuditReads, AuditVoid, StartReads, venueVars, memoryVars
  <2>2. reading'.of = "account" => reading'.account = shown
    BY <1>0, <1>2 DEF AuditReads, AuditVoid, StartReads, AccountRead
  <2> QED  BY <2>1, <2>2 DEF BaseInv
<1>3. CASE Submits
  BY <1>3 DEF Submits, venueVars, BaseInv
<1>4. CASE TakeTrade
  <2> DEFINE S == {Head(queue).trade}
             h == [t \in Trades |-> IF t \in S THEN Head(queue).status ELSE "none"]
  <2>1. queue \in Seq(Notice) /\ queue # <<>>
    BY <1>4 DEF LedgerInv, Typed, TakeTrade
  <2>2. Head(queue) \in Notice
    BY <2>1, HeadTailProperties
  <2>3. Heard(S, h)
    BY <1>4, <2>2 DEF Heard, History, Statuses, TakeTrade, Notice
  <2>4. /\ up /\ journal' = Journaled(journal, S, h, Baseline) /\ pending' = OpenedBy(S, h)
        /\ UNCHANGED shown /\ reading' = NoReading
    BY <1>4 DEF TakeTrade, venueVars
  <2> HIDE DEF S, h
  <2>5. Kept(journal', shown)
    BY <1>0, <2>3, <2>4, BaselineRead, KeptOn DEF BaseInv
  <2>6. Within(pending'.baseline, shown)
    BY <2>3, <2>4, OpenedBaseline
  <2> QED  BY <1>0, <2>4, <2>5, <2>6 DEF BaseInv
<1>5. CASE TakeConnected
  <2>1. Heard(News(TradeHistory, ledger), TradeHistory)
    BY HistoryRead DEF LedgerInv
  <2>2. /\ up /\ UNCHANGED shown /\ reading' = NoReading
        /\ \/ /\ journal' = Journaled(journal, News(TradeHistory, ledger), TradeHistory, Baseline)
              /\ pending' = OpenedBy(News(TradeHistory, ledger), TradeHistory)
           \/ UNCHANGED <<journal, pending>>
    BY <1>5 DEF TakeConnected, venueVars
  <2>3. Kept(journal', shown)
    BY <1>0, <2>1, <2>2, BaselineRead, KeptOn DEF BaseInv
  <2>4. Within(pending'.baseline, shown)
    BY <2>1, <2>2, OpenedBaseline DEF BaseInv
  <2> QED  BY <1>0, <2>2, <2>3, <2>4 DEF BaseInv
<1>6. CASE TakeOrder
  <2> DEFINE o == Head(queue).order
  <2>1. /\ up /\ UNCHANGED shown /\ reading' = NoReading
        /\ journal' = [journal EXCEPT !.ordered = @ \cup {o},
                         !.order[o] = IF o \in journal.ordered THEN @ ELSE Baseline]
        /\ \/ pending' = pending
           \/ pending' = [pending EXCEPT !.baseline = Baseline, !.unresolved = @ \cup {o}]
    BY <1>6 DEF TakeOrder, venueVars
  <2> HIDE DEF o
  <2>2. Baseline \in Account /\ Within(Baseline, shown) /\ pending \in Pendings
    BY <2>1, BaselineRead DEF LedgerInv, Typed
  <2>3. /\ journal'.trade = journal.trade
        /\ \A x \in Orders : journal'.order[x] = journal.order[x] \/ journal'.order[x] = Baseline
    BY <1>0, <2>1 DEF Journal
  <2>4. Kept(journal', shown)
    BY <2>2, <2>3 DEF BaseInv, Kept
  <2>5. Within(pending'.baseline, shown)
    BY <2>1, <2>2 DEF BaseInv, Pendings
  <2> QED  BY <1>0, <2>1, <2>4, <2>5 DEF BaseInv
<1>7. CASE AuditApplies
  <2> DEFINE S == News(AuditHistory, ledger)
             p == OpenedBy(S, AuditHistory)
             noted == Journaled(journal, S, AuditHistory, Baseline)
  <2>1. up /\ Heard(S, AuditHistory)
    BY <1>7, AuditReading DEF AuditApplies
  <2>2. /\ UNCHANGED shown /\ reading' = NoReading
        /\ pending' = p \/ pending' = NoPending
        /\ journal' = noted \/ journal' = [noted EXCEPT !.settled = @ \cup p.trades]
    BY <1>7 DEF AuditApplies, AuditHistory, Settles, venueVars
  <2> HIDE DEF S
  <2>3. Kept(noted, shown) /\ \A X : Kept([noted EXCEPT !.settled = @ \cup X], shown)
    BY <1>0, <2>1, BaselineRead, KeptOn DEF BaseInv
  <2>4. Within(p.baseline, shown)
    BY <2>1, OpenedBaseline
  <2> QED  BY <1>0, <2>2, <2>3, <2>4 DEF BaseInv
<1>8. CASE AuditDies
  <2>1. /\ up /\ AuditHistory \in History
    BY <1>8, AuditReading DEF AuditDies
  <2>2. PICK S \in SUBSET News(AuditHistory, ledger) :
          journal' = Journaled(journal, S, AuditHistory, Baseline)
    BY <1>8 DEF AuditDies, AuditHistory
  <2>3. Heard(S, AuditHistory)
    BY <2>1, <2>2 DEF Heard, News
  <2>4. Kept(journal', shown)
    BY <1>0, <2>1, <2>2, <2>3, BaselineRead, KeptOn DEF BaseInv
  <2>5. UNCHANGED shown /\ reading' = NoReading /\ pending' = NoPending
    BY <1>8 DEF AuditDies, venueVars
  <2> QED  BY <1>0, <2>4, <2>5 DEF BaseInv
<1>9. CASE Crash
  BY <1>0, <1>9 DEF Crash, venueVars, BaseInv
<1>10. CASE StartApplies
  <2> DEFINE h == reading.history
             S == News(h, journal.status)
             j == Journaled(journal, S, h, StartBase)
             p == RecoveredPending(j)
  <2>1. reading.of = "startup" /\ Heard(S, h)
    BY <1>10, StartFrom DEF StartApplies
  <2>2. /\ UNCHANGED shown /\ reading' = NoReading
        /\ pending' = pending \/ pending' = NoPending
        /\ \/ journal' = journal \/ journal' = j
           \/ journal' = [j EXCEPT !.settled = @ \cup p.trades]
    BY <1>10 DEF StartApplies, venueVars, memoryVars
  <2> HIDE DEF h, S, p
  <2>3. Kept(j, shown) /\ \A X : Kept([j EXCEPT !.settled = @ \cup X], shown)
    BY <2>1, StartKept
  <2> HIDE DEF j
  <2> QED  BY <1>0, <2>2, <2>3 DEF BaseInv
<1>11. CASE StartDies
  <2>1. reading.of = "startup" /\ Heard(News(reading.history, journal.status), reading.history)
    BY <1>11, StartFrom DEF StartDies
  <2>2. PICK S \in SUBSET News(reading.history, journal.status) :
          journal' = Journaled(journal, S, reading.history, StartBase)
    BY <1>11 DEF StartDies
  <2>3. Heard(S, reading.history)
    BY <2>1, <2>2 DEF Heard
  <2>4. Kept(journal', shown)
    BY <2>1, <2>2, <2>3, StartKept
  <2>5. UNCHANGED <<shown, pending>> /\ reading' = NoReading
    BY <1>11 DEF StartDies, venueVars, memoryVars
  <2> QED  BY <1>0, <2>4, <2>5 DEF BaseInv
<1> QED
  BY <1>1, <1>2, <1>3, <1>4, <1>5, <1>6, <1>7, <1>8, <1>9, <1>10, <1>11 DEF Next

(* Positions and cash that reconcile show what they reconcile.              *)
LEMMA GrownSum ==
  ASSUME NEW X \in SUBSET Trades, NEW Y \in SUBSET X, NEW f, \A t \in Trades : f[t] \in Int
  PROVE  /\ SumFunctionOnSet(f, X) = SumFunctionOnSet(f, Y) + SumFunctionOnSet(f, X \ Y)
         /\ SumFunctionOnSet(f, Y) \in Int /\ SumFunctionOnSet(f, X \ Y) \in Int
<1>1. IsFiniteSet(X) /\ IsFiniteSet(Y) /\ IsFiniteSet(X \ Y)
  BY LedgerAssumption, FS_Subset
<1>2. Y \cap (X \ Y) = {} /\ Y \cup (X \ Y) = X
  OBVIOUS
<1>3. SumFunctionOnSet(f, Y \cup (X \ Y)) = SumFunctionOnSet(f, Y) + SumFunctionOnSet(f, X \ Y)
  BY <1>1, <1>2, SumUnion
<1> QED
  BY <1>1, <1>2, <1>3, SumIsInteger

LEMMA Determined ==
  ASSUME Distinguishable, NEW p \in Pendings, NEW a \in Account, Within(p.baseline, a),
         NEW proven \in SUBSET p.trades, Reconciled(p, a, proven, Cash(a))
  PROVE  Has(a, p.trades)
<1> DEFINE b == p.baseline
           P == p.trades
           sum(f, S) == SumFunctionOnSet(f, S)
<1>1. /\ b \in Account /\ P \subseteq Trades /\ proven = P
      /\ a.positions \subseteq Trades /\ a.cash \subseteq Trades
      /\ b.positions \subseteq a.positions /\ b.cash \subseteq a.cash
  BY DEF Pendings, Account, Within, Reconciled
<1>2. IsFiniteSet(P)
  BY <1>1, LedgerAssumption, FS_Subset
<1>3. \A t \in Trades : /\ Sizes[t] \in Int /\ Paid[t] \in Int /\ Costs[t] \in Int
                       /\ FeeLow[t] \in Int /\ FeeHigh[t] \in Int
  BY TermNumbers
<1>4. /\ sum(Sizes, P) \in Int /\ sum(Costs, P) \in Int
      /\ sum(FeeLow, P) \in Int /\ sum(FeeHigh, P) \in Int
  BY <1>1, <1>2, <1>3, SumIsInteger
<1>5. P \subseteq a.positions
  <2>1. Size(a) = Size(b) + sum(Sizes, P)
    BY DEF Reconciled
  <2>2. sum(Sizes, a.positions) = sum(Sizes, b.positions) + sum(Sizes, a.positions \ b.positions)
        /\ sum(Sizes, b.positions) \in Int /\ sum(Sizes, a.positions \ b.positions) \in Int
    BY <1>1, <1>3, GrownSum
  <2>3. Size(a) = StartSize + sum(Sizes, a.positions) /\ Size(b) = StartSize + sum(Sizes, b.positions)
    BY DEF Size
  <2>4. StartSize \in Int
    BY LedgerAssumption
  <2> HIDE DEF b, P, sum
  <2>5. sum(Sizes, a.positions \ b.positions) = sum(Sizes, P)
    BY <1>4, <2>1, <2>2, <2>3, <2>4
  <2> QED  BY <1>1, <2>5 DEF Distinguishable, sum
<1>6. P \subseteq a.cash
  <2>1. /\ Cash(a) >= Cash(b) - sum(Costs, P) - sum(FeeHigh, P)
        /\ Cash(a) <= Cash(b) - sum(Costs, P) - sum(FeeLow, P)
    BY <1>1 DEF Reconciled
  <2>2. sum(Paid, a.cash) = sum(Paid, b.cash) + sum(Paid, a.cash \ b.cash)
        /\ sum(Paid, b.cash) \in Int /\ sum(Paid, a.cash \ b.cash) \in Int
    BY <1>1, <1>3, GrownSum
  <2>3. Cash(a) = StartCash - sum(Paid, a.cash) /\ Cash(b) = StartCash - sum(Paid, b.cash)
    BY DEF Cash
  <2>4. StartCash \in Int
    BY LedgerAssumption
  <2> HIDE DEF b, P, sum
  <2>5. sum(Paid, a.cash \ b.cash) - sum(Costs, P) \in sum(FeeLow, P)..sum(FeeHigh, P)
    BY <1>4, <2>1, <2>2, <2>3, <2>4
  <2> QED  BY <1>1, <2>5 DEF Distinguishable, sum
<1> QED
  BY <1>5, <1>6 DEF Has

LEMMA SettleSteps ==
  ASSUME Distinguishable, LedgerInv, ReadInv, BaseInv, [Next]_vars
  PROVE  [SettlesShown]_vars
<1>0. journal \in Journal
  BY DEF LedgerInv, Typed
<1>1. SUFFICES ASSUME Next PROVE SettlesShown
  OBVIOUS
<1>2. CASE journal'.settled = journal.settled
  BY <1>2 DEF SettlesShown, Has
<1>3. CASE AuditApplies
  <2> DEFINE a == AuditAccount
             S == News(AuditHistory, ledger)
             p == OpenedBy(S, AuditHistory)
             noted == Journaled(journal, S, AuditHistory, Baseline)
  <2>1. up /\ Heard(S, AuditHistory) /\ a \in Account
    BY <1>3, AuditReading DEF AuditApplies
  <2>2. \/ journal' = noted
        \/ /\ Reconciled(p, a, Proven(p, AuditHistory), Cash(a))
           /\ account' = a /\ journal' = [noted EXCEPT !.settled = @ \cup p.trades]
    BY <1>3 DEF AuditApplies, AuditHistory, AuditAccount, Settles
  <2>3. p \in Pendings /\ Within(p.baseline, a)
    BY <2>1, OpenedBaseline DEF AuditAccount, AccountRead
  <2>4. noted \in Journal /\ noted.settled = journal.settled
    BY <1>0, <2>1, BaselineRead, JournaledRecord DEF Follows
  <2> HIDE DEF noted, p, a
  <2>5. CASE journal' = noted
    BY <1>2, <2>4, <2>5
  <2>6. CASE /\ Reconciled(p, a, Proven(p, AuditHistory), Cash(a))
             /\ account' = a /\ journal' = [noted EXCEPT !.settled = @ \cup p.trades]
    <3>1. Has(a, p.trades)
      BY <2>1, <2>3, <2>6, Determined DEF Proven
    <3>2. journal'.settled = journal.settled \cup p.trades
      BY <2>4, <2>6 DEF Journal
    <3> QED  BY <2>6, <3>1, <3>2 DEF SettlesShown, Has
  <2> QED  BY <2>2, <2>5, <2>6
<1>4. CASE StartApplies
  <2> DEFINE h == reading.history
             j == Journaled(journal, News(h, journal.status), h, StartBase)
             p == RecoveredPending(j)
  <2>0. reading.of = "startup" /\ Heard(News(h, journal.status), h) /\ shown \in Account
    BY <1>4, StartFrom DEF StartApplies, AccountRead
  <2>1. /\ j \in Journal /\ j.settled = journal.settled /\ shown \in Account
        /\ p \in Pendings /\ Within(p.baseline, shown)
    BY <2>0, StartKept
  <2>2. \/ journal' = journal \/ journal' = j
        \/ /\ ~(IsOpen(p) /\ ~Reconciled(p, shown, Proven(p, h), Cash(shown)))
           /\ account' = shown /\ journal' = [j EXCEPT !.settled = @ \cup p.trades]
    BY <1>4 DEF StartApplies, AccountRead
  <2> HIDE DEF h, j, p
  <2>3. CASE journal' = journal \/ journal' = j
    BY <1>2, <2>1, <2>3
  <2>4. CASE /\ ~(IsOpen(p) /\ ~Reconciled(p, shown, Proven(p, h), Cash(shown)))
             /\ account' = shown /\ journal' = [j EXCEPT !.settled = @ \cup p.trades]
    <3>1. Has(shown, p.trades)
      <4>1. CASE IsOpen(p)
        BY <2>1, <2>4, <4>1, Determined DEF Proven
      <4>2. CASE ~IsOpen(p)
        BY <4>2 DEF IsOpen, Has
      <4> QED  BY <4>1, <4>2
    <3>2. journal'.settled = journal.settled \cup p.trades
      BY <2>1, <2>4 DEF Journal
    <3> QED  BY <2>4, <3>1, <3>2 DEF SettlesShown, Has
  <2> QED  BY <2>2, <2>3, <2>4
<1>5. ASSUME ~AuditApplies, ~StartApplies PROVE journal'.settled = journal.settled
  <2>1. CASE TakeTrade \/ TakeOrder \/ TakeConnected
    BY <1>0, <2>1 DEF TakeTrade, TakeOrder, TakeConnected, Journaled, Journal
  <2>2. CASE VenueActs \/ StreamSends \/ AuditReads \/ AuditVoid \/ Submits \/ Crash \/ StartReads
    BY <2>2 DEF VenueActs, StreamSends, Announces, AuditReads, AuditVoid, Submits, Crash, StartReads
  <2>3. CASE AuditDies \/ StartDies
    BY <1>0, <2>3 DEF AuditDies, StartDies, Journaled, Journal
  <2> QED  BY <1>1, <1>5, <2>1, <2>2, <2>3 DEF Next
<1> QED
  BY <1>2, <1>3, <1>4, <1>5

(* For fills whose numbers tell them apart there is nothing to mistake: the *)
(* proof of reconciliation is sound as well as complete (EnvelopeComplete), *)
(* through every order of reads, news and crashes.                          *)
THEOREM ShownWhenTold == Distinguishable => (Spec => []AccountShowsRecorded)
<1> SUFFICES ASSUME Distinguishable PROVE Spec => []AccountShowsRecorded
  OBVIOUS
<1>1. Init => BaseInv
  BY DEF Init, BaseInv, Kept, Within, NoPending, NoAccount, NoReading
<1>2. LedgerInv /\ ReadInv /\ BaseInv /\ [Next]_vars => BaseInv' /\ [SettlesShown]_vars
  BY BaseSteps, SettleSteps
<1> QED
  BY <1>1, <1>2, ReadInvariant, ShownUnlessMistaken, PTL DEF Spec
=============================================================================
