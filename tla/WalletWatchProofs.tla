------------------------- MODULE WalletWatchProofs -------------------------
(***************************************************************************)
(* Theorems about WalletWatch for any wallets, pages, time stamps and      *)
(* sizes of memory: whatever a list grows by between two requests, no      *)
(* trade is reported twice and none between two reported ones is missed.   *)
(***************************************************************************)
EXTENDS WalletWatch, SequenceTheorems, FiniteSetTheorems, TLAPS

-----------------------------------------------------------------------------
(* Seconds and pages are intervals of trades.                               *)
LEMMA Quotient ==
  ASSUME NEW a \in Nat, NEW d \in Nat \ {0}
  PROVE  /\ a \div d \in Nat
         /\ d * (a \div d) <= a /\ a < d * (a \div d) + d
OBVIOUS

LEMMA QuotientIs ==
  ASSUME NEW a \in Nat, NEW d \in Nat \ {0}, NEW q \in Nat, d * q <= a, a < d * q + d
  PROVE  a \div d = q
OBVIOUS

LEMMA QuotientMonotone ==
  ASSUME NEW a \in Nat, NEW b \in Nat, a <= b, NEW d \in Nat \ {0}
  PROVE  a \div d <= b \div d
OBVIOUS

LEMMA UpTo ==
  ASSUME NEW n \in Nat
  PROVE  IsFiniteSet(1..n) /\ Cardinality(1..n) = n
<1>1. IsFiniteSet(1..n) /\ Cardinality(1..n) = IF 1 > n THEN 0 ELSE n - 1 + 1
  BY FS_Interval
<1> QED
  BY <1>1

LEMMA SecondNumber ==
  ASSUME NEW i \in Nat
  PROVE  Second(i) \in Nat
BY WatchAssumption, Quotient DEF Second

LEMMA SecondMonotone ==
  ASSUME NEW i \in Nat, NEW j \in Nat, i <= j
  PROVE  Second(i) <= Second(j)
BY WatchAssumption, QuotientMonotone DEF Second

LEMMA SecondCount ==
  ASSUME NEW s \in Nat, NEW S \in SUBSET Nat, \A i \in S : Second(i) = s
  PROVE  IsFiniteSet(S) /\ Cardinality(S) \in Nat /\ Cardinality(S) <= PerSecond
<1>1. PICK d \in Nat \ {0} : d = PerSecond
  BY WatchAssumption
<1>2. PICK a \in Nat : a = d * s
  OBVIOUS
<1>3. PICK b \in Nat : b = a + d - 1
  OBVIOUS
<1>4. \A i \in S : a <= i /\ i <= b
  <2> SUFFICES ASSUME NEW i \in S PROVE a <= i /\ i <= b
    OBVIOUS
  <2>1. i \in Nat /\ i \div d = s
    BY <1>1 DEF Second
  <2>2. d * (i \div d) <= i /\ i < d * (i \div d) + d
    BY <2>1, Quotient
  <2> QED  BY <1>2, <1>3, <2>1, <2>2
<1>5. IsFiniteSet(a..b) /\ Cardinality(a..b) = b - a + 1
  <2>1. IsFiniteSet(a..b) /\ Cardinality(a..b) = IF a > b THEN 0 ELSE b - a + 1
    BY FS_Interval
  <2> QED  BY <1>3, <2>1
<1>6. S \in SUBSET (a..b)
  BY <1>4
<1>7. IsFiniteSet(S) /\ Cardinality(S) <= Cardinality(a..b)
  BY ONLY <1>5, <1>6, FS_Subset
<1>8. Cardinality(S) \in Nat
  BY <1>7, FS_CardinalityType
<1> QED
  BY <1>1, <1>3, <1>5, <1>7, <1>8

LEMMA PageBounds ==
  ASSUME NEW n \in Nat, NEW k \in Nat, NEW d \in Nat \ {0}, NEW i \in 1..n
  PROVE  (n - i) \div d = k <=> i <= n - k * d /\ n - k * d < i + d
<1>1. n - i \in Nat /\ k * d \in Nat /\ d * k = k * d
  OBVIOUS
<1>2. ASSUME (n - i) \div d = k PROVE i <= n - k * d /\ n - k * d < i + d
  <2>1. d * k <= n - i /\ n - i < d * k + d
    BY <1>1, <1>2, Quotient
  <2> QED  BY <1>1, <2>1
<1>3. ASSUME i <= n - k * d, n - k * d < i + d PROVE (n - i) \div d = k
  <2>1. d * k <= n - i /\ n - i < d * k + d
    BY <1>1, <1>3
  <2> QED  BY <1>1, <2>1, QuotientIs
<1> QED
  BY <1>2, <1>3

(* The page from t down: its lowest trade, and that a page that is not full *)
(* ends the list.                                                           *)
LEMMA PageFacts ==
  ASSUME NEW w, listed[w] \in Nat, NEW k \in Nat
  PROVE  \E t \in Int, b \in Nat :
           /\ t = listed[w] - k * PageSize /\ t <= listed[w] /\ b >= 1
           /\ PageOf(w, k) = b..t /\ b >= t - PageSize + 1
           /\ b # 1 => b = t - PageSize + 1
           /\ IsFiniteSet(PageOf(w, k)) /\ Cardinality(PageOf(w, k)) \in Nat
           /\ Cardinality(PageOf(w, k)) <= PageSize
           /\ Cardinality(PageOf(w, k)) < PageSize => b = 1
           /\ Cardinality(PageOf(w, k)) >= PageSize => b = t - PageSize + 1
<1>1. PICK n \in Nat : n = listed[w]
  OBVIOUS
<1>2. PICK d \in Nat \ {0} : d = PageSize
  BY WatchAssumption
<1>3. PICK m \in Nat : m = k * d
  OBVIOUS
<1>4. PICK t \in Int : t = n - m
  OBVIOUS
<1>5. PICK b \in Nat : b = IF t - d + 1 >= 1 THEN t - d + 1 ELSE 1
  <2>1. (IF t - d + 1 >= 1 THEN t - d + 1 ELSE 1) \in Nat
    OBVIOUS
  <2> QED  BY <2>1
<1>6. PageOf(w, k) = b..t
  <2>1. \A i \in 1..n : (n - i) \div d = k <=> i <= t /\ t < i + d
    BY <1>3, <1>4, PageBounds
  <2>2. PageOf(w, k) = {i \in 1..n : i <= t /\ t < i + d}
    BY <1>1, <1>2, <2>1 DEF PageOf
  <2>3. \A i \in Int : (i \in 1..n /\ i <= t /\ t < i + d) <=> i \in b..t
    BY <1>3, <1>4, <1>5
  <2> QED  BY <2>2, <2>3
<1>7. IsFiniteSet(b..t) /\ Cardinality(b..t) = IF b > t THEN 0 ELSE t - b + 1
  BY ONLY b \in Nat, t \in Int, FS_Interval
<1>8. /\ t = listed[w] - k * PageSize /\ t <= listed[w] /\ b >= 1 /\ b >= t - PageSize + 1
      /\ b # 1 => b = t - PageSize + 1
  BY <1>1, <1>2, <1>3, <1>4, <1>5
<1>9. PICK c \in Nat : c = Cardinality(b..t)
  BY <1>7
<1>10. c <= d /\ (c < d => b = 1) /\ (c >= d => b = t - d + 1)
  BY <1>4, <1>5, <1>7, <1>9
<1> QED
  BY <1>2, <1>6, <1>7, <1>8, <1>9, <1>10

-----------------------------------------------------------------------------
(* Before is a strict total order, and ByTimestamp puts a set in that order.*)
LEMMA BeforeOrders ==
  ASSUME NEW i \in Nat, NEW j \in Nat
  PROVE  /\ ~Before(i, i) /\ (i # j => Before(i, j) \/ Before(j, i))
         /\ Before(i, j) => Second(i) <= Second(j) /\ ~Before(j, i)
         /\ \A k \in Nat : Before(i, j) /\ Before(j, k) => Before(i, k)
BY SecondNumber DEF Before

Earlier(S, i) == {j \in S : Before(j, i)}
LEMMA Ranks ==
  ASSUME NEW S \in SUBSET Nat, IsFiniteSet(S)
  PROVE  /\ Cardinality(S) \in Nat
         /\ \A i \in S : Cardinality(Earlier(S, i)) \in 0..Cardinality(S) - 1
         /\ \A i, j \in S : Before(i, j) => Cardinality(Earlier(S, i)) < Cardinality(Earlier(S, j))
<1>1. Cardinality(S) \in Nat
  BY FS_CardinalityType
<1>2. ASSUME NEW i \in S, NEW T, T \subseteq S, Earlier(S, i) \subseteq T, i \in T
      PROVE  /\ Cardinality(Earlier(S, i)) \in Nat /\ Cardinality(T) \in Nat
             /\ Cardinality(Earlier(S, i)) < Cardinality(T)
  <2>1. IsFiniteSet(T)
    BY <1>2, FS_Subset
  <2>2. Earlier(S, i) \in SUBSET T /\ Earlier(S, i) # T
    BY <1>2, BeforeOrders DEF Earlier
  <2>3. /\ IsFiniteSet(Earlier(S, i)) /\ Cardinality(Earlier(S, i)) <= Cardinality(T)
        /\ Cardinality(T) # Cardinality(Earlier(S, i))
    BY <2>1, <2>2, FS_Subset
  <2> QED  BY <2>1, <2>3, FS_CardinalityType
<1>3. ASSUME NEW i \in S PROVE Cardinality(Earlier(S, i)) \in 0..Cardinality(S) - 1
  <2>1. Earlier(S, i) \subseteq S
    BY DEF Earlier
  <2>2. Cardinality(Earlier(S, i)) \in Nat /\ Cardinality(Earlier(S, i)) < Cardinality(S)
    BY <1>2, <2>1
  <2> QED  BY <1>1, <2>2
<1>4. ASSUME NEW i \in S, NEW j \in S, Before(i, j)
      PROVE  Cardinality(Earlier(S, i)) < Cardinality(Earlier(S, j))
  <2>1. /\ Earlier(S, j) \subseteq S /\ i \in Earlier(S, j)
        /\ Earlier(S, i) \subseteq Earlier(S, j)
    BY <1>4, BeforeOrders DEF Earlier
  <2> QED  BY <1>2, <2>1
<1> QED
  BY <1>1, <1>3, <1>4

LEMMA TimestampOrder ==
  ASSUME NEW S \in SUBSET Nat, IsFiniteSet(S)
  PROVE  /\ ByTimestamp(S) \in Seq(S) /\ Len(ByTimestamp(S)) = Cardinality(S)
         /\ \A x \in S : \E k \in 1..Cardinality(S) : ByTimestamp(S)[k] = x
         /\ \A k, l \in 1..Cardinality(S) : k < l => Before(ByTimestamp(S)[k], ByTimestamp(S)[l])
<1>1. PICK n \in Nat : n = Cardinality(S)
  BY FS_CardinalityType
<1> DEFINE rank == [i \in S |-> Cardinality(Earlier(S, i)) + 1]
<1>2. /\ \A i \in S : rank[i] \in 1..n /\ rank[i] - 1 = Cardinality(Earlier(S, i))
      /\ \A i, j \in S : Before(i, j) => rank[i] < rank[j]
  <2>1. \A i \in S : Cardinality(Earlier(S, i)) \in 0..n - 1
    BY <1>1, Ranks
  <2>2. \A i, j \in S : Before(i, j) => Cardinality(Earlier(S, i)) < Cardinality(Earlier(S, j))
    BY Ranks
  <2> QED  BY <2>1, <2>2
<1>3. rank \in [S -> 1..n]
  BY <1>2
<1> HIDE DEF rank
<1>4. \A i, j \in S : i # j => rank[i] # rank[j]
  BY <1>2, BeforeOrders
<1>5. \A k \in 1..n : \E i \in S : rank[i] = k
  <2>1. rank \in Injection(S, 1..n)
    BY <1>3, <1>4 DEF Injection, IsInjective
  <2>2. IsFiniteSet(1..n) /\ Cardinality(1..n) = n
    BY UpTo
  <2>3. rank \in Surjection(S, 1..n)
    BY <1>1, <2>1, <2>2, FS_Injection
  <2> QED  BY <2>3 DEF Surjection
<1> DEFINE at(k) == CHOOSE i \in S : Cardinality({j \in S : Before(j, i)}) = k - 1
<1>6. \A k \in 1..n : at(k) \in S /\ rank[at(k)] = k
  <2> SUFFICES ASSUME NEW k \in 1..n PROVE at(k) \in S /\ rank[at(k)] = k
    OBVIOUS
  <2>1. PICK i \in S : rank[i] = k
    BY <1>5
  <2>2. Cardinality({j \in S : Before(j, i)}) = k - 1
    BY <1>2, <2>1 DEF Earlier
  <2>3. at(k) \in S /\ Cardinality({j \in S : Before(j, at(k))}) = k - 1
    BY <2>2
  <2> HIDE DEF at
  <2>4. rank[at(k)] \in 1..n /\ rank[at(k)] - 1 = k - 1
    BY <1>2, <2>3 DEF Earlier
  <2> QED  BY <2>3, <2>4
<1>7. ByTimestamp(S) = [k \in 1..n |-> at(k)]
  BY <1>1 DEF ByTimestamp
<1> HIDE DEF at
<1>8. ByTimestamp(S) \in Seq(S) /\ Len(ByTimestamp(S)) = n /\ \A k \in 1..n : ByTimestamp(S)[k] = at(k)
  BY <1>6, <1>7
<1>9. ASSUME NEW x \in S PROVE \E k \in 1..n : ByTimestamp(S)[k] = x
  <2>1. rank[x] \in 1..n /\ rank[at(rank[x])] = rank[x]
    BY <1>2, <1>6
  <2>2. at(rank[x]) = x
    BY <1>4, <1>6, <2>1
  <2> QED  BY <1>8, <2>1, <2>2
<1>10. ASSUME NEW k \in 1..n, NEW l \in 1..n, k < l PROVE Before(at(k), at(l))
  <2>1. at(k) \in S /\ at(l) \in S /\ rank[at(k)] = k /\ rank[at(l)] = l
    BY <1>6
  <2>2. at(k) # at(l)
    BY <1>10, <2>1
  <2>3. ~Before(at(l), at(k))
    <3>1. ~(rank[at(l)] < rank[at(k)])
      BY <1>10, <2>1
    <3> QED  BY <1>2, <2>1, <3>1
  <2> QED  BY <2>1, <2>2, <2>3, BeforeOrders
<1> QED
  BY <1>1, <1>8, <1>9, <1>10

-----------------------------------------------------------------------------
(* The memory of a wallet: keys in the order of their seconds, the oldest   *)
(* first. What it forgets is older than all it keeps, and neither one of    *)
(* the last page nor of the second that is being reported.                  *)
Ordered(known) ==
  /\ known \in Seq(Nat) /\ Len(known) <= MaxSeen
  /\ \A p, q \in 1..Len(known) :
       p < q => known[p] # known[q] /\ Second(known[p]) <= Second(known[q])
Latest(known, i) == \A y \in ToSet(known) : Second(y) <= Second(i)

LEMMA Elements ==
  ASSUME NEW M, NEW s \in Seq(M)
  PROVE  /\ ToSet(s) \subseteq M /\ Len(s) \in Nat
         /\ \A x : x \in ToSet(s) <=> \E p \in 1..Len(s) : s[p] = x
         /\ \A p \in 1..Len(s) : s[p] \in ToSet(s)
<1>1. DOMAIN s = 1..Len(s) /\ \A p \in 1..Len(s) : s[p] \in M
  OBVIOUS
<1> QED
  BY <1>1 DEF ToSet

LEMMA MemorySize ==
  ASSUME NEW known, Ordered(known)
  PROVE  IsFiniteSet(ToSet(known)) /\ Cardinality(ToSet(known)) = Len(known) /\ Len(known) \in Nat
<1>1. known \in Seq(Nat) /\ Len(known) \in Nat
  BY DEF Ordered
<1>2. known \in [1..Len(known) -> ToSet(known)]
  BY <1>1, Elements
<1>3. known \in Surjection(1..Len(known), ToSet(known))
  BY <1>1, <1>2, Elements DEF Surjection
<1>4. known \in Injection(1..Len(known), ToSet(known))
  <2>1. ASSUME NEW p \in 1..Len(known), NEW q \in 1..Len(known), p # q
        PROVE  known[p] # known[q]
    BY <1>1, <2>1 DEF Ordered
  <2> QED  BY <1>2, <2>1 DEF Injection, IsInjective
<1>5. IsFiniteSet(1..Len(known)) /\ Cardinality(1..Len(known)) = Len(known)
  BY ONLY <1>1, UpTo
<1> QED
  BY <1>1, <1>3, <1>4, <1>5, FS_Surjection

LEMMA RememberFacts ==
  ASSUME NEW known, Ordered(known), NEW i \in Nat, i \notin ToSet(known), Latest(known, i),
         NEW r, r = Remember(known, i)
  PROVE  /\ Ordered(r) /\ i \in ToSet(r) /\ ToSet(r) \subseteq ToSet(known) \cup {i}
         /\ \A x \in ToSet(known) \ ToSet(r) :
              Len(known) = MaxSeen /\ \A y \in ToSet(known) : Second(x) <= Second(y)
<1>1. PICK g : g = Append(known, i)
  OBVIOUS
<1>2. PICK n \in Nat : n = Len(known)
  BY DEF Ordered
<1>3. /\ g \in Seq(Nat) /\ Len(g) = n + 1 /\ g[n + 1] = i /\ \A p \in 1..n : g[p] = known[p]
      /\ n <= MaxSeen /\ MaxSeen \in Nat /\ MaxSeen >= 1
  BY <1>1, <1>2, AppendProperties, WatchAssumption DEF Ordered
<1>4. known \in Seq(Nat) /\ \A p \in 1..n : known[p] \in ToSet(known) /\ known[p] \in Nat
  BY <1>2, Elements DEF Ordered
<1>5. \A p, q \in 1..n + 1 : p < q => g[p] # g[q] /\ Second(g[p]) <= Second(g[q])
  <2> SUFFICES ASSUME NEW p \in 1..n + 1, NEW q \in 1..n + 1, p < q
               PROVE  g[p] # g[q] /\ Second(g[p]) <= Second(g[q])
    OBVIOUS
  <2>1. p \in 1..n
    OBVIOUS
  <2>2. CASE q = n + 1
    BY <1>3, <1>4, <2>1, <2>2 DEF Latest
  <2>3. CASE q \in 1..n
    BY <1>2, <1>3, <2>1, <2>3 DEF Ordered
  <2> QED  BY <2>2, <2>3
<1>6. r = IF n + 1 > MaxSeen THEN Tail(g) ELSE g
  BY <1>1, <1>3 DEF Remember
<1>7. CASE ~(n + 1 > MaxSeen)
  <2>1. r = g
    BY <1>6, <1>7
  <2>2. Ordered(r)
    BY <1>3, <1>5, <1>7, <2>1 DEF Ordered
  <2>3. \A x : x \in ToSet(r) <=> x \in ToSet(known) \/ x = i
    <3>1. \A x : x \in ToSet(r) <=> \E p \in 1..n + 1 : g[p] = x
      BY <1>3, <2>1, Elements
    <3>2. \A x : x \in ToSet(known) <=> \E p \in 1..n : known[p] = x
      BY <1>2, <1>4, Elements
    <3> QED  BY <1>3, <3>1, <3>2
  <2> QED  BY <2>2, <2>3
<1>8. CASE n + 1 > MaxSeen
  <2>1. n = MaxSeen /\ r = Tail(g)
    BY <1>3, <1>6, <1>8
  <2>2. r \in Seq(Nat) /\ Len(r) = n /\ \A p \in 1..n : r[p] = g[p + 1]
    BY <1>3, <2>1, HeadTailProperties
  <2>3. Ordered(r)
    <3>1. ASSUME NEW p \in 1..n, NEW q \in 1..n, p < q
          PROVE  r[p] # r[q] /\ Second(r[p]) <= Second(r[q])
      <4>1. p + 1 \in 1..n + 1 /\ q + 1 \in 1..n + 1 /\ p + 1 < q + 1
        BY <3>1
      <4>2. r[p] = g[p + 1] /\ r[q] = g[q + 1]
        BY <2>2
      <4>3. g[p + 1] # g[q + 1] /\ Second(g[p + 1]) <= Second(g[q + 1])
        BY <1>5, <4>1
      <4> QED  BY <4>2, <4>3
    <3> QED  BY <1>3, <2>2, <3>1 DEF Ordered
  <2>4. \A x : x \in ToSet(r) <=> \E p \in 1..n : r[p] = x
    <3>1. r \in Seq(Nat) /\ Len(r) = n
      BY <2>2
    <3>2. \A x : x \in ToSet(r) <=> \E p \in 1..Len(r) : r[p] = x
      BY ONLY <3>1, Elements
    <3> QED  BY <3>1, <3>2
  <2>5. \A x : x \in ToSet(known) <=> \E p \in 1..n : known[p] = x
    BY <1>2, <1>4, Elements
  <2>6. i \in ToSet(r)
    <3>1. n \in 1..n /\ r[n] = i
      BY <1>3, <2>1, <2>2
    <3> QED  BY <2>4, <3>1
  <2>7. ToSet(r) \subseteq ToSet(known) \cup {i}
    <3> SUFFICES ASSUME NEW p \in 1..n PROVE r[p] \in ToSet(known) \cup {i}
      BY <2>4
    <3>1. r[p] = g[p + 1] /\ p + 1 \in 1..n + 1
      BY <2>2
    <3>2. CASE p = n
      BY <1>3, <3>1, <3>2
    <3>3. CASE p # n
      <4>1. p + 1 \in 1..n
        BY <3>3
      <4>2. g[p + 1] = known[p + 1] /\ known[p + 1] \in ToSet(known)
        BY <1>3, <1>4, <4>1
      <4> QED  BY <3>1, <4>2
    <3> QED  BY <3>2, <3>3
  <2>8. ASSUME NEW x \in ToSet(known), x \notin ToSet(r)
        PROVE  \A y \in ToSet(known) : Second(x) <= Second(y)
    <3>1. PICK p \in 1..n : known[p] = x
      BY <2>5
    <3>2. p = 1
      <4>1. CASE p # 1
        <5>1. p - 1 \in 1..n /\ r[p - 1] = g[p]
          BY <2>2, <4>1
        <5> QED  BY <1>3, <2>4, <2>8, <3>1, <5>1
      <4> QED  BY <4>1
    <3> SUFFICES ASSUME NEW y \in ToSet(known) PROVE Second(x) <= Second(y)
      OBVIOUS
    <3>3. PICK q \in 1..n : known[q] = y
      BY <2>5
    <3>4. CASE q = 1
      <4>1. x = y /\ Second(x) \in Nat
        BY <1>4, <3>1, <3>2, <3>3, <3>4, SecondNumber
      <4> QED  BY <4>1
    <3>5. CASE q # 1
      BY <1>2, <3>1, <3>2, <3>3, <3>5 DEF Ordered
    <3> QED  BY <3>4, <3>5
  <2> QED  BY <1>2, <2>1, <2>3, <2>6, <2>7, <2>8
<1> QED
  BY <1>7, <1>8

LEMMA NotForgotten ==
  ASSUME NEW known, Ordered(known), NEW i \in Nat, i \notin ToSet(known), Latest(known, i),
         NEW top \in Nat, ToSet(known) \cup {i} \subseteq 1..top,
         NEW x \in ToSet(known), x > top - PageSize \/ Second(i) <= Second(x)
  PROVE  x \in ToSet(Remember(known, i))
<1> SUFFICES ASSUME x \notin ToSet(Remember(known, i)) PROVE FALSE
  OBVIOUS
<1> DEFINE Y == ToSet(known) \cup {i}
           Same == {y \in Y : Second(y) = Second(x)}
<1>1. Len(known) = MaxSeen /\ \A y \in ToSet(known) : Second(x) <= Second(y)
  <2>1. PICK r : r = Remember(known, i)
    OBVIOUS
  <2> QED  BY <2>1, RememberFacts
<1>2. /\ IsFiniteSet(Y) /\ Cardinality(Y) = MaxSeen + 1
      /\ Y \subseteq 1..top /\ x \in Nat /\ Second(x) \in Nat /\ x <= top
  <2>1. IsFiniteSet(ToSet(known)) /\ Cardinality(ToSet(known)) = MaxSeen
    BY <1>1, MemorySize
  <2>2. IsFiniteSet(Y) /\ Cardinality(Y) = MaxSeen + 1
    BY <2>1, FS_AddElement
  <2>3. x \in Nat /\ x <= top
    OBVIOUS
  <2> QED  BY <2>2, <2>3, SecondNumber
<1>3. \A y \in Y : y \in Nat /\ Second(y) \in Nat /\ Second(x) <= Second(y)
  <2> SUFFICES ASSUME NEW y \in Y PROVE y \in Nat /\ Second(y) \in Nat /\ Second(x) <= Second(y)
    OBVIOUS
  <2>1. y \in Nat
    BY <1>2
  <2>2. Second(x) <= Second(y)
    BY <1>1 DEF Latest
  <2> QED  BY <2>1, <2>2, SecondNumber
<1>4. IsFiniteSet(Same) /\ Cardinality(Same) \in Nat /\ Cardinality(Same) <= PerSecond
  <2>1. Same \in SUBSET Nat /\ \A y \in Same : Second(y) = Second(x)
    BY <1>3
  <2> HIDE DEF Same
  <2> QED  BY <1>2, <2>1, SecondCount
<1>5. /\ PageSize \in Nat \ {0} /\ PerSecond \in Nat \ {0}
      /\ MaxSeen \in Nat /\ MaxSeen >= PageSize + PerSecond
  BY WatchAssumption
<1>6. CASE Second(i) <= Second(x)
  <2>1. Y = Same
    <3> SUFFICES ASSUME NEW y \in Y PROVE Second(y) = Second(x)
      OBVIOUS
    <3>1. Second(y) <= Second(i)
      BY <1>3 DEF Latest
    <3>2. Second(y) \in Nat /\ Second(i) \in Nat /\ Second(x) \in Nat /\ Second(x) <= Second(y)
      BY <1>2, <1>3
    <3> QED  BY <1>6, <3>1, <3>2
  <2> QED  BY <1>2, <1>4, <1>5, <2>1
<1>7. CASE x > top - PageSize
  <2>1. /\ IsFiniteSet(x + 1..top) /\ Cardinality(x + 1..top) \in Nat
        /\ Cardinality(x + 1..top) <= PageSize - 1
    <3>1. /\ IsFiniteSet(x + 1..top)
          /\ Cardinality(x + 1..top) = IF x + 1 > top THEN 0 ELSE top - (x + 1) + 1
      BY <1>2, FS_Interval
    <3> QED  BY <1>2, <1>5, <1>7, <3>1
  <2>2. Y \subseteq (x + 1..top) \cup Same
    <3> SUFFICES ASSUME NEW y \in Y, ~(y \in x + 1..top) PROVE Second(y) = Second(x)
      OBVIOUS
    <3>1. y <= x
      BY <1>2
    <3>2. Second(y) <= Second(x)
      BY <1>2, <1>3, <3>1, SecondMonotone
    <3> QED  BY <1>2, <1>3, <3>2
  <2>3. PICK U : U = (x + 1..top) \cup Same
    OBVIOUS
  <2> HIDE DEF Same, Y
  <2>4. /\ IsFiniteSet(U)
        /\ Cardinality(U) = Cardinality(x + 1..top) + Cardinality(Same)
                              - Cardinality((x + 1..top) \cap Same)
    BY <1>4, <2>1, <2>3, FS_Union
  <2>5. Cardinality((x + 1..top) \cap Same) \in Nat
    BY <2>1, FS_Intersection, FS_CardinalityType
  <2>6. Cardinality(Y) <= Cardinality(U) /\ Cardinality(U) \in Nat
    <3>1. Y \in SUBSET U
      BY <2>2, <2>3
    <3> QED  BY <2>4, <3>1, FS_Subset, FS_CardinalityType
  <2> QED  BY ONLY <1>2, <1>4, <1>5, <2>1, <2>4, <2>5, <2>6
<1> QED
  BY <1>6, <1>7

-----------------------------------------------------------------------------
(* Trades on their way: l is the channel followed by what is being sent, o  *)
(* what the loop has taken.                                                 *)
Message == [type : {"warmed", "disconnected", "connected"}]
           \cup [type : {"trade"}, trade : WalletSet \X Nat]
Carries(m, w, x) == m.type = "trade" /\ m.trade = <<w, x>>
Carried(m, w) == {x \in Nat : Carries(m, w, x)}
Taken(o, m) ==
  IF m.type = "trade" THEN [o EXCEPT ![m.trade[1]] = Append(@, m.trade[2])] ELSE o
HandedOver(o, l, w) ==
  {x \in Nat : x \in ToSet(o[w]) \/ \E p \in 1..Len(l) : Carries(l[p], w, x)}
Distinct(o, l) ==
  /\ \A w \in WalletSet : \A p, q \in 1..Len(o[w]) : p < q => o[w][p] # o[w][q]
  /\ \A p, q \in 1..Len(l) : \A w \in WalletSet : \A x \in Nat :
       p < q /\ Carries(l[p], w, x) => ~Carries(l[q], w, x)
  /\ \A p \in 1..Len(l) : \A w \in WalletSet : \A x \in Nat :
       Carries(l[p], w, x) => x \notin ToSet(o[w])

LEMMA MessageFacts ==
  ASSUME NEW m \in Message
  PROVE  /\ m.type = "trade" => m.trade \in WalletSet \X Nat
         /\ \A w, x : Carries(m, w, x) => w \in WalletSet /\ x \in Nat
BY DEF Message, Carries

LEMMA Appended ==
  ASSUME NEW o \in [WalletSet -> Seq(Nat)], NEW l \in Seq(Message), NEW m \in Message,
         NEW k, k = Append(l, m)
  PROVE  /\ \A w, x : x \in HandedOver(o, k, w) <=> x \in HandedOver(o, l, w) \/ x \in Carried(m, w)
         /\ Distinct(o, l) /\ (\A w \in WalletSet : \A x \in HandedOver(o, l, w) : ~Carries(m, w, x))
              => Distinct(o, k)
<1>1. PICK n \in Nat : n = Len(l)
  OBVIOUS
<1>2. k \in Seq(Message) /\ Len(k) = n + 1 /\ k[n + 1] = m /\ \A p \in 1..n : k[p] = l[p]
  BY <1>1, AppendProperties
<1>3. ASSUME NEW w
      PROVE  \A x : x \in HandedOver(o, k, w) <=> x \in HandedOver(o, l, w) \/ x \in Carried(m, w)
  <2>1. \A x : (\E p \in 1..n + 1 : Carries(k[p], w, x))
                 <=> (\E p \in 1..n : Carries(l[p], w, x)) \/ Carries(m, w, x)
    <3>1. \A p : p \in 1..n + 1 <=> p \in 1..n \/ p = n + 1
      OBVIOUS
    <3> QED  BY <1>2, <3>1
  <2> QED  BY <1>1, <1>2, <2>1 DEF HandedOver, Carried
<1>4. ASSUME Distinct(o, l), \A w \in WalletSet : \A x \in HandedOver(o, l, w) : ~Carries(m, w, x)
      PROVE  Distinct(o, k)
  <2>1. ASSUME NEW p \in 1..n + 1, NEW w \in WalletSet, NEW x \in Nat, Carries(k[p], w, x)
        PROVE  x \notin ToSet(o[w])
    <3>1. CASE p = n + 1
      BY <1>2, <1>4, <2>1, <3>1 DEF HandedOver
    <3>2. CASE p \in 1..n
      BY <1>1, <1>2, <1>4, <2>1, <3>2 DEF Distinct
    <3> QED  BY <3>1, <3>2
  <2>2. ASSUME NEW p \in 1..n + 1, NEW q \in 1..n + 1, NEW w \in WalletSet, NEW x \in Nat,
               p < q, Carries(k[p], w, x), Carries(k[q], w, x)
        PROVE  FALSE
    <3>1. p \in 1..n /\ Carries(l[p], w, x)
      BY <1>2, <2>2
    <3>2. CASE q = n + 1
      BY <1>1, <1>2, <1>4, <2>2, <3>1, <3>2 DEF HandedOver
    <3>3. CASE q \in 1..n
      BY <1>1, <1>2, <1>4, <2>2, <3>1, <3>3 DEF Distinct
    <3> QED  BY <3>2, <3>3
  <2>3. \A w \in WalletSet : \A p, q \in 1..Len(o[w]) : p < q => o[w][p] # o[w][q]
    BY <1>4 DEF Distinct
  <2> QED  BY <1>2, <2>1, <2>2, <2>3 DEF Distinct
<1> QED
  BY <1>3, <1>4

LEMMA AppendedNew ==
  ASSUME NEW o \in [WalletSet -> Seq(Nat)], NEW l \in Seq(Message), NEW m \in Message,
         NEW k, k = Append(l, m), Distinct(o, l),
         \A w \in WalletSet : \A x \in HandedOver(o, l, w) : ~Carries(m, w, x)
  PROVE  Distinct(o, k)
BY Appended

LEMMA TakenOver ==
  ASSUME NEW o \in [WalletSet -> Seq(Nat)], NEW l \in Seq(Message), l # <<>>, Distinct(o, l),
         NEW m, m = Head(l), NEW u, u = Taken(o, m)
  PROVE  /\ u \in [WalletSet -> Seq(Nat)] /\ Distinct(u, Tail(l))
         /\ \A w \in WalletSet : HandedOver(u, Tail(l), w) = HandedOver(o, l, w)
<1>1. PICK k : k = Tail(l)
  OBVIOUS
<1>2. PICK n \in Nat : n = Len(k)
  <2>1. Tail(l) \in Seq(Message)
    BY ONLY l \in Seq(Message), l # <<>>, HeadTailProperties
  <2>2. Len(Tail(l)) \in Nat
    BY ONLY <2>1, LenProperties
  <2> QED  BY ONLY <1>1, <2>2
<1>3. /\ k \in Seq(Message) /\ Len(l) = n + 1 /\ l[1] = m /\ m \in Message
      /\ \A p \in 1..n : k[p] = l[p + 1]
  BY <1>1, <1>2, HeadTailProperties
<1>4. \A w, x : (\E p \in 1..n + 1 : Carries(l[p], w, x))
                  <=> (\E p \in 1..n : Carries(k[p], w, x)) \/ Carries(m, w, x)
  <2> SUFFICES ASSUME NEW w, NEW x
               PROVE  (\E p \in 1..n + 1 : Carries(l[p], w, x))
                        <=> (\E p \in 1..n : Carries(k[p], w, x)) \/ Carries(m, w, x)
    OBVIOUS
  <2>1. ASSUME NEW p \in 1..n + 1, Carries(l[p], w, x)
        PROVE  (\E q \in 1..n : Carries(k[q], w, x)) \/ Carries(m, w, x)
    <3>1. CASE p = 1
      BY <1>3, <2>1, <3>1
    <3>2. CASE p # 1
      <4>1. p - 1 \in 1..n /\ k[p - 1] = l[p]
        BY <1>3, <3>2
      <4> QED  BY <2>1, <4>1
    <3> QED  BY <3>1, <3>2
  <2>2. ASSUME NEW p \in 1..n, Carries(k[p], w, x) PROVE \E q \in 1..n + 1 : Carries(l[q], w, x)
    <3>1. p + 1 \in 1..n + 1 /\ l[p + 1] = k[p]
      BY <1>3
    <3> QED  BY <2>2, <3>1
  <2>3. 1 \in 1..n + 1
    OBVIOUS
  <2> QED  BY <1>3, <2>1, <2>2, <2>3
<1>5. ASSUME NEW p \in 1..n, NEW q \in 1..n, NEW w \in WalletSet, NEW x \in Nat, p < q,
             Carries(k[p], w, x)
      PROVE  ~Carries(k[q], w, x)
  <2>1. p + 1 \in 1..n + 1 /\ q + 1 \in 1..n + 1 /\ p + 1 < q + 1
        /\ k[p] = l[p + 1] /\ k[q] = l[q + 1]
    BY <1>3, <1>5
  <2>2. Carries(l[p + 1], w, x) => ~Carries(l[q + 1], w, x)
    BY <1>3, <2>1 DEF Distinct
  <2> QED  BY <1>5, <2>1, <2>2
<1>6. ASSUME NEW p \in 1..n, NEW w \in WalletSet, NEW x \in Nat, Carries(k[p], w, x)
      PROVE  x \notin ToSet(o[w]) /\ ~Carries(m, w, x)
  <2>1. p + 1 \in 1..n + 1 /\ 1 \in 1..n + 1 /\ 1 < p + 1 /\ k[p] = l[p + 1]
    BY <1>3
  <2>2. /\ Carries(l[p + 1], w, x) => x \notin ToSet(o[w])
        /\ Carries(l[1], w, x) => ~Carries(l[p + 1], w, x)
    BY <1>3, <2>1 DEF Distinct
  <2> QED  BY <1>3, <1>6, <2>1, <2>2
<1>7. CASE m.type # "trade"
  <2>1. u = o /\ \A w, x : ~Carries(m, w, x)
    BY <1>7 DEF Carries, Taken
  <2>2. Distinct(u, k)
    BY <1>2, <1>5, <1>6, <2>1 DEF Distinct
  <2>3. \A w : HandedOver(u, k, w) = HandedOver(o, l, w)
    BY <1>2, <1>3, <1>4, <2>1 DEF HandedOver
  <2> QED  BY <1>1, <2>1, <2>2, <2>3
<1>8. CASE m.type = "trade"
  <2>1. PICK v \in WalletSet, y \in Nat : m.trade = <<v, y>>
    <3>1. m.trade \in WalletSet \X Nat
      BY <1>3, <1>8, MessageFacts
    <3>2. /\ m.trade[1] \in WalletSet /\ m.trade[2] \in Nat
          /\ m.trade = <<m.trade[1], m.trade[2]>>
      BY <3>1
    <3> QED  BY <3>2
  <2>2. PICK s : s = Append(o[v], y)
    OBVIOUS
  <2>3. u = [o EXCEPT ![v] = s]
    <3>1. m.trade[1] = v /\ m.trade[2] = y
      BY <2>1
    <3>2. u = [o EXCEPT ![v] = Append(o[v], y)]
      BY <1>8, <3>1 DEF Taken
    <3> QED  BY <2>2, <3>2
  <2>4. PICK c \in Nat : c = Len(o[v])
    OBVIOUS
  <2>5. /\ s \in Seq(Nat) /\ Len(s) = c + 1 /\ s[c + 1] = y /\ \A p \in 1..c : s[p] = o[v][p]
        /\ o[v] \in Seq(Nat)
    BY <2>2, <2>4, AppendProperties
  <2>6. u \in [WalletSet -> Seq(Nat)] /\ \A w \in WalletSet : u[w] = IF w = v THEN s ELSE o[w]
    BY <2>3, <2>5
  <2>7. \A w, x : Carries(m, w, x) <=> w = v /\ x = y
    BY <1>8, <2>1 DEF Carries
  <2>8. \A x : x \in ToSet(s) <=> x \in ToSet(o[v]) \/ x = y
    <3>0. s \in Seq(Nat) /\ Len(s) = c + 1
      BY <2>5
    <3>1. \A x : x \in ToSet(s) <=> \E p \in 1..c + 1 : s[p] = x
      <4>1. \A x : x \in ToSet(s) <=> \E p \in 1..Len(s) : s[p] = x
        BY ONLY <3>0, Elements
      <4> QED  BY <3>0, <4>1
    <3>2. \A x : x \in ToSet(o[v]) <=> \E p \in 1..c : o[v][p] = x
      BY <2>4, <2>5, Elements
    <3>3. \A p : p \in 1..c + 1 <=> p \in 1..c \/ p = c + 1
      OBVIOUS
    <3> QED  BY ONLY <2>5, <3>1, <3>2, <3>3
  <2>9. \A w \in WalletSet : \A x : x \in ToSet(u[w]) <=> x \in ToSet(o[w]) \/ Carries(m, w, x)
    <3> SUFFICES ASSUME NEW w \in WalletSet, NEW x
                 PROVE  x \in ToSet(u[w]) <=> x \in ToSet(o[w]) \/ Carries(m, w, x)
      OBVIOUS
    <3>1. CASE w = v
      <4>1. u[w] = s /\ (Carries(m, w, x) <=> x = y)
        BY ONLY <2>6, <2>7, <3>1, w \in WalletSet
      <4> QED  BY ONLY <2>8, <3>1, <4>1
    <3>2. CASE w # v
      <4>1. u[w] = o[w] /\ ~Carries(m, w, x)
        BY ONLY <2>6, <2>7, <3>2, w \in WalletSet
      <4> QED  BY ONLY <4>1
    <3> QED  BY <3>1, <3>2
  <2>10. y \notin ToSet(o[v])
    <3>1. Carries(l[1], v, y) /\ 1 \in 1..Len(l)
      BY <1>3, <2>7
    <3> QED  BY <3>1 DEF Distinct
  <2>11. ASSUME NEW w \in WalletSet, NEW p \in 1..Len(u[w]), NEW q \in 1..Len(u[w]), p < q
         PROVE  u[w][p] # u[w][q]
    <3>0. \A i, j \in 1..Len(o[w]) : i < j => o[w][i] # o[w][j]
      BY DEF Distinct
    <3>1. CASE w # v
      <4>1. u[w] = o[w]
        BY <2>6, <3>1
      <4> QED  BY <2>11, <3>0, <4>1
    <3>2. CASE w = v
      <4>0. u[w] = s /\ p \in 1..c + 1 /\ q \in 1..c + 1
        BY <2>5, <2>6, <2>11, <3>2
      <4>1. p \in 1..c /\ s[p] = o[v][p] /\ s[p] \in ToSet(o[v])
        <5>1. p \in 1..c /\ s[p] = o[v][p]
          <6>1. p \in 1..c
            BY ONLY <2>11, <4>0, c \in Nat
          <6> QED  BY ONLY <2>5, <6>1
        <5>2. o[v][p] \in ToSet(o[v])
          BY <2>4, <2>5, <5>1, Elements
        <5> QED  BY <5>1, <5>2
      <4>2. CASE q = c + 1
        BY <2>5, <2>10, <4>0, <4>1, <4>2
      <4>3. CASE q \in 1..c
        <5>1. p \in 1..Len(o[w]) /\ q \in 1..Len(o[w]) /\ p < q
          BY <2>4, <2>11, <3>2, <4>1, <4>3
        <5>2. o[w][p] # o[w][q]
          BY ONLY <3>0, <5>1
        <5>3. s[q] = o[v][q]
          BY <2>5, <4>3
        <5> QED  BY <3>2, <4>0, <4>1, <5>2, <5>3
      <4>4. q = c + 1 \/ q \in 1..c
        BY ONLY <4>0, c \in Nat
      <4> QED  BY ONLY <4>2, <4>3, <4>4
    <3> QED  BY <3>1, <3>2
  <2>12. Distinct(u, k)
    BY <1>2, <1>5, <1>6, <2>9, <2>11 DEF Distinct
  <2>13. \A w \in WalletSet : HandedOver(u, k, w) = HandedOver(o, l, w)
    BY <1>2, <1>3, <1>4, <2>9 DEF HandedOver
  <2> QED  BY <1>1, <2>6, <2>12, <2>13
<1> QED
  BY <1>7, <1>8

-----------------------------------------------------------------------------
Types ==
  /\ listed \in [WalletSet -> Nat] /\ page \in Nat
  /\ watch \in [running : BOOLEAN, polling : BOOLEAN, connected : BOOLEAN, healthy : BOOLEAN]
  /\ batch \in Seq(WalletSet \X Nat)
  /\ warmed \in [WalletSet -> BOOLEAN] /\ seen \in [WalletSet -> Seq(Nat)]
  /\ skipped \in [WalletSet -> SUBSET Nat] /\ observed \in [WalletSet -> Seq(Nat)]
  /\ inbox \in Seq(Message) /\ outbox \in Seq(Message)

Line == inbox \o outbox

(* What has been handed over or passed over, and what the batch still holds.*)
Known(w) == Handed(w) \cup skipped[w]
Left(w) == {x \in Nat : \E k \in 1..Len(batch) : batch[k] = <<w, x>>}

(* The trades up to top are known or in the batch; what is in the batch and *)
(* not remembered is not known, and follows all that is remembered; what is *)
(* known of the last page is remembered.                                    *)
Held(w, top) ==
  /\ top <= listed[w] /\ Known(w) \cup Left(w) = 1..top
  /\ Ordered(seen[w]) /\ ToSet(seen[w]) \subseteq Known(w)
  /\ \A x \in Left(w) \ ToSet(seen[w]) : x \notin Known(w) /\ Latest(seen[w], x)
  /\ warmed[w] => \A x \in Known(w) : x > top - PageSize => x \in ToSet(seen[w])
  /\ Handed(w) \cap skipped[w] = {}

(* k pages of a list of n trades gave C: all of it is new, all from b up is *)
(* in it, and the next page begins at b or above it.                        *)
Reaching(n, k, C, top) ==
  \E b, m \in Nat :
    /\ top < b /\ top <= m /\ m <= n /\ b <= m + 1 /\ b <= n - k * PageSize + 1
    /\ b..m \subseteq C /\ C \subseteq top + 1..m
Reaches(w, top) == Reaching(listed[w], page, collected, top)

WalletInv(w) ==
  \E top \in Nat : Held(w, top) /\ (todo # <<>> /\ w = Head(todo) => Reaches(w, top))

(* A batch is of one wallet and in the order of time stamps, and pages are  *)
(* read only between batches and for a wallet of the cycle.                 *)
InTurn ==
  /\ batch # <<>> => page = 0 /\ collected = {}
  /\ \A k, l \in 1..Len(batch) :
       batch[k][1] = batch[l][1] /\ (k < l => Before(batch[k][2], batch[l][2]))
  /\ ~watch.polling => todo = <<>>
  /\ todo = <<>> => page = 0 /\ collected = {}

WatchInv ==
  /\ Types /\ Distinct(observed, Line) /\ InTurn
  /\ \A w \in WalletSet : WalletInv(w)

-----------------------------------------------------------------------------
LEMMA HandedIs ==
  ASSUME NEW o \in [WalletSet -> Seq(Nat)], NEW l \in Seq(Message), NEW w \in WalletSet
  PROVE  ToSet(o[w]) \cup {m.trade[2] : m \in {n \in ToSet(l) : n.type = "trade" /\ n.trade[1] = w}}
           = HandedOver(o, l, w)
<1>1. ToSet(o[w]) \subseteq Nat
  BY Elements
<1>2. /\ ToSet(l) \subseteq Message /\ \A m : m \in ToSet(l) <=> \E p \in 1..Len(l) : l[p] = m
      /\ \A p \in 1..Len(l) : l[p] \in ToSet(l)
  BY Elements
<1>3. \A m \in Message : m.type = "trade" /\ m.trade[1] = w
                           => m.trade[2] \in Nat /\ Carries(m, w, m.trade[2])
  <2> SUFFICES ASSUME NEW m \in Message, m.type = "trade", m.trade[1] = w
               PROVE  m.trade[2] \in Nat /\ m.trade = <<w, m.trade[2]>>
    BY DEF Carries
  <2>1. m.trade \in WalletSet \X Nat
    BY MessageFacts
  <2> QED  BY <2>1
<1>4. \A m \in Message, x \in Nat :
        Carries(m, w, x) => m.type = "trade" /\ m.trade[1] = w /\ m.trade[2] = x
  BY DEF Carries
<1>5. ASSUME NEW m \in ToSet(l), m.type = "trade", m.trade[1] = w
      PROVE  m.trade[2] \in HandedOver(o, l, w)
  <2>1. PICK p \in 1..Len(l) : l[p] = m
    BY <1>2
  <2>2. m.trade[2] \in Nat /\ Carries(l[p], w, m.trade[2])
    BY <1>2, <1>3, <1>5, <2>1
  <2> QED  BY <2>2 DEF HandedOver
<1>6. ASSUME NEW x \in Nat, NEW p \in 1..Len(l), Carries(l[p], w, x)
      PROVE  l[p] \in ToSet(l) /\ l[p].type = "trade" /\ l[p].trade[1] = w /\ l[p].trade[2] = x
  BY <1>2, <1>4, <1>6
<1>7. HandedOver(o, l, w) \subseteq
        ToSet(o[w]) \cup {m.trade[2] : m \in {n \in ToSet(l) : n.type = "trade" /\ n.trade[1] = w}}
  <2> SUFFICES ASSUME NEW x \in Nat, NEW p \in 1..Len(l), Carries(l[p], w, x)
               PROVE  x \in {m.trade[2] : m \in {n \in ToSet(l) : n.type = "trade" /\ n.trade[1] = w}}
    BY DEF HandedOver
  <2>1. l[p] \in ToSet(l) /\ l[p].type = "trade" /\ l[p].trade[1] = w /\ l[p].trade[2] = x
    BY <1>6
  <2> QED  BY ONLY <2>1
<1>8. ToSet(o[w]) \subseteq HandedOver(o, l, w)
  BY <1>1 DEF HandedOver
<1> QED
  BY <1>5, <1>7, <1>8

LEMMA LineFacts ==
  ASSUME Types
  PROVE  /\ Line \in Seq(Message)
         /\ \A w \in WalletSet : Handed(w) = HandedOver(observed, Line, w) /\ Handed(w) \subseteq Nat
         /\ outbox = <<>> => Line = inbox
<1>1. Line \in Seq(Message)
  BY ConcatProperties DEF Types, Line
<1>2. ASSUME NEW w \in WalletSet PROVE Handed(w) = HandedOver(observed, Line, w)
  BY <1>1, HandedIs DEF Types, Handed, Line
<1>3. outbox = <<>> => Line = inbox
  BY ConcatEmptySeq DEF Types, Line
<1> QED
  BY <1>1, <1>2, <1>3 DEF HandedOver

(* A message is sent when nothing else is being sent.                       *)
LEMMA Posts ==
  ASSUME WatchInv, NEW m \in Message, outbox = <<>>, outbox' = <<m>>, UNCHANGED <<inbox, observed>>,
         \A w \in WalletSet : \A x \in Nat : Carries(m, w, x) => x \notin Handed(w)
  PROVE  /\ outbox' \in Seq(Message) /\ inbox' \in Seq(Message)
         /\ observed' \in [WalletSet -> Seq(Nat)] /\ Distinct(observed', Line')
         /\ \A w \in WalletSet : Handed(w)' = Handed(w) \cup Carried(m, w)
<1>1. observed \in [WalletSet -> Seq(Nat)] /\ inbox \in Seq(Message)
  BY DEF WatchInv, Types
<1>2. Line \in Seq(Message) /\ Line = inbox
      /\ \A w \in WalletSet : Handed(w) = HandedOver(observed, Line, w)
  BY LineFacts DEF WatchInv
<1>3. PICK k : k = Append(Line, m)
  OBVIOUS
<1>4. Line' = k
  <2>1. inbox \o <<m>> = Append(inbox, m)
    BY <1>1
  <2> QED  BY <1>2, <1>3, <2>1 DEF Line
<1>5. k \in Seq(Message)
  BY <1>2, <1>3, AppendProperties
<1>6. \A w \in WalletSet : \A x \in HandedOver(observed, Line, w) : ~Carries(m, w, x)
  BY <1>2 DEF HandedOver
<1>7. /\ \A w : HandedOver(observed, k, w)
                  = HandedOver(observed, Line, w) \cup Carried(m, w)
      /\ Distinct(observed, k)
  <2>1. PICK o, l : o = observed /\ l = Line
    OBVIOUS
  <2>2. /\ o \in [WalletSet -> Seq(Nat)] /\ l \in Seq(Message) /\ Distinct(o, l) /\ k = Append(l, m)
        /\ \A w \in WalletSet : \A x \in HandedOver(o, l, w) : ~Carries(m, w, x)
    BY <1>1, <1>2, <1>3, <1>6, <2>1 DEF WatchInv
  <2>3. /\ \A w : HandedOver(o, k, w) = HandedOver(o, l, w) \cup Carried(m, w)
        /\ Distinct(o, k)
    <3>1. \A w : HandedOver(o, k, w) = HandedOver(o, l, w) \cup Carried(m, w)
      <4>1. \A w, x : x \in HandedOver(o, k, w) <=> x \in HandedOver(o, l, w) \/ x \in Carried(m, w)
        BY ONLY <2>2, m \in Message, Appended
      <4> QED  BY ONLY <4>1
    <3>2. Distinct(o, k)
      BY ONLY <2>2, m \in Message, AppendedNew
    <3> QED  BY <3>1, <3>2
  <2> QED  BY <2>1, <2>3
<1>8. \A w \in WalletSet : Handed(w)' = HandedOver(observed, k, w)
  <2>1. inbox' \o outbox' = k /\ observed' = observed
    BY <1>4 DEF Line
  <2>2. \A w \in WalletSet :
          ToSet(observed[w]) \cup {n.trade[2] : n \in {i \in ToSet(k) : i.type = "trade" /\ i.trade[1] = w}}
            = HandedOver(observed, k, w)
    BY ONLY <1>1, <1>5, HandedIs
  <2> QED  BY <2>1, <2>2 DEF Handed
<1> QED
  BY <1>1, <1>2, <1>4, <1>7, <1>8

LEMMA FirstInLine ==
  ASSUME NEW M, NEW s \in Seq(M), NEW r \in Seq(M), s # <<>>
  PROVE  s \o r # <<>> /\ Head(s \o r) = Head(s) /\ Tail(s \o r) = Tail(s) \o r
OBVIOUS

(* The other steps on the way of a message.                                 *)
LEMMA Passes ==
  ASSUME WatchInv, SendToLoop \/ HandleWalletMessage \/ UNCHANGED <<inbox, outbox, observed>>
  PROVE  /\ outbox' \in Seq(Message) /\ inbox' \in Seq(Message)
         /\ observed' \in [WalletSet -> Seq(Nat)] /\ Distinct(observed', Line')
         /\ \A w \in WalletSet : Handed(w)' = Handed(w)
<1>1. /\ observed \in [WalletSet -> Seq(Nat)] /\ inbox \in Seq(Message) /\ outbox \in Seq(Message)
      /\ Distinct(observed, Line)
  BY DEF WatchInv, Types
<1>2. Line \in Seq(Message) /\ \A w \in WalletSet : Handed(w) = HandedOver(observed, Line, w)
  BY LineFacts DEF WatchInv
<1>3. CASE UNCHANGED <<inbox, outbox, observed>>
  BY <1>1, <1>3 DEF Line, Handed
<1>4. CASE SendToLoop
  <2>1. /\ outbox # <<>> /\ inbox' = Append(inbox, Head(outbox)) /\ outbox' = Tail(outbox)
        /\ observed' = observed
    BY <1>4 DEF SendToLoop
  <2>2. PICK h, t : h = Head(outbox) /\ t = Tail(outbox)
    OBVIOUS
  <2>3. h \in Message /\ t \in Seq(Message)
    BY <1>1, <2>1, <2>2
  <2>4. Append(inbox, h) \o t = inbox \o outbox
    BY <1>1, <2>1, <2>2, <2>3
  <2>5. Line' = Line
    BY <2>1, <2>2, <2>4 DEF Line
  <2>6. inbox' \in Seq(Message) /\ outbox' \in Seq(Message)
    BY <1>1, <2>1, <2>2, <2>3, AppendProperties
  <2>7. \A w \in WalletSet : Handed(w)' = Handed(w)
    BY <2>1, <2>5 DEF Handed, Line
  <2> QED  BY <1>1, <2>1, <2>5, <2>6, <2>7
<1>5. CASE HandleWalletMessage
  <2>1. PICK m : m = Head(Line)
    OBVIOUS
  <2>2. /\ inbox # <<>> /\ inbox' = Tail(inbox) /\ outbox' = outbox
        /\ observed' = Taken(observed, Head(inbox))
    BY <1>5 DEF HandleWalletMessage, Taken
  <2>3. Line # <<>> /\ Head(Line) = Head(inbox) /\ Tail(Line) = Tail(inbox) \o outbox
    BY ONLY <1>1, <2>2, FirstInLine DEF Line
  <2>4. Line' = Tail(Line) /\ inbox' \in Seq(Message) /\ outbox' \in Seq(Message)
    <3>1. Tail(inbox) \in Seq(Message)
      BY ONLY <1>1, <2>2, HeadTailProperties
    <3>2. Line' = inbox' \o outbox'
      BY DEF Line
    <3> QED  BY ONLY <1>1, <2>2, <2>3, <3>1, <3>2
  <2>5. PICK u : u = Taken(observed, m)
    OBVIOUS
  <2>6. observed' = u
    BY ONLY <2>1, <2>2, <2>3, <2>5
  <2>7. /\ u \in [WalletSet -> Seq(Nat)] /\ Distinct(u, Tail(Line))
        /\ \A w \in WalletSet : HandedOver(u, Tail(Line), w) = HandedOver(observed, Line, w)
    <3>1. PICK o, l : o = observed /\ l = Line
      OBVIOUS
    <3>2. /\ o \in [WalletSet -> Seq(Nat)] /\ l \in Seq(Message) /\ l # <<>> /\ Distinct(o, l)
          /\ m = Head(l) /\ u = Taken(o, m)
      BY <1>1, <1>2, <2>1, <2>3, <2>5, <3>1
    <3>3. /\ u \in [WalletSet -> Seq(Nat)] /\ Distinct(u, Tail(l))
          /\ \A w \in WalletSet : HandedOver(u, Tail(l), w) = HandedOver(o, l, w)
      BY ONLY <3>2, TakenOver
    <3> QED  BY <3>1, <3>3
  <2>8. \A w \in WalletSet : Handed(w)' = HandedOver(u, Tail(Line), w)
    <3>1. PICK k : k = Tail(Line) /\ k \in Seq(Message)
      BY <1>2, <2>3, HeadTailProperties
    <3>2. \A w \in WalletSet :
            ToSet(u[w]) \cup {n.trade[2] : n \in {i \in ToSet(k) : i.type = "trade" /\ i.trade[1] = w}}
              = HandedOver(u, k, w)
      BY <2>7, <3>1, HandedIs
    <3>3. inbox' \o outbox' = k
      BY <2>4, <3>1 DEF Line
    <3> QED  BY <2>6, <3>1, <3>2, <3>3 DEF Handed
  <2> QED  BY <1>2, <2>4, <2>6, <2>7, <2>8
<1> QED
  BY <1>3, <1>4, <1>5

LEMMA Notices ==
  ASSUME WatchInv, NEW s \in {"warmed", "disconnected", "connected"},
         outbox = <<>>, outbox' = <<Msg(s)>>, UNCHANGED <<inbox, observed>>
  PROVE  /\ outbox' \in Seq(Message) /\ inbox' \in Seq(Message)
         /\ observed' \in [WalletSet -> Seq(Nat)] /\ Distinct(observed', Line')
         /\ \A w \in WalletSet : Handed(w)' = Handed(w)
<1>1. PICK m : m = Msg(s)
  OBVIOUS
<1>2. m \in Message /\ \A w, x : ~Carries(m, w, x)
  BY <1>1 DEF Msg, Message, Carries
<1>3. outbox' = <<m>> /\ \A w \in WalletSet : Carried(m, w) = {}
  BY <1>1, <1>2 DEF Carried
<1>4. /\ outbox' \in Seq(Message) /\ inbox' \in Seq(Message)
      /\ observed' \in [WalletSet -> Seq(Nat)] /\ Distinct(observed', Line')
      /\ \A w \in WalletSet : Handed(w)' = Handed(w) \cup Carried(m, w)
  BY <1>2, <1>3, Posts
<1> QED
  BY <1>3, <1>4

-----------------------------------------------------------------------------
(* What a wallet keeps when nothing of it changes but its list.             *)
LEMMA StillHeld ==
  ASSUME Types, NEW w \in WalletSet, NEW top \in Nat, Held(w, top),
         listed'[w] \in Nat, listed[w] <= listed'[w], Handed(w)' = Handed(w),
         skipped'[w] = skipped[w], Left(w)' = Left(w), seen'[w] = seen[w], warmed'[w] = warmed[w]
  PROVE  Held(w, top)'
<1>1. listed[w] \in Nat
  BY DEF Types
<1>2. Known(w)' = Known(w)
  BY DEF Known
<1>3. top <= listed'[w]
  BY <1>1 DEF Held
<1> QED
  BY <1>2, <1>3 DEF Held

LEMMA StillReached ==
  ASSUME Types, NEW w \in WalletSet, NEW top \in Nat, Reaches(w, top),
         listed'[w] \in Nat, listed[w] <= listed'[w], UNCHANGED <<page, collected>>
  PROVE  Reaches(w, top)'
<1>1. listed[w] \in Nat /\ page \in Nat /\ page * PageSize \in Nat
  BY WatchAssumption DEF Types
<1>2. PICK n, l, k, C, d :
        n = listed[w] /\ l = listed'[w] /\ k = page /\ C = collected /\ d = k * PageSize
  OBVIOUS
<1>3. PICK b \in Nat, m \in Nat :
        /\ top < b /\ top <= m /\ m <= n /\ b <= m + 1 /\ b <= n - d + 1
        /\ b..m \subseteq C /\ C \subseteq top + 1..m
  BY <1>2 DEF Reaches, Reaching
<1>4. n \in Nat /\ l \in Nat /\ d \in Nat
  BY <1>1, <1>2
<1>5. m <= l /\ b <= l - d + 1
  BY ONLY <1>2, <1>3, <1>4, listed[w] <= listed'[w]
<1>6. Reaching(l, k, C, top)
  BY <1>2, <1>3, <1>5 DEF Reaching
<1> QED
  BY <1>2, <1>6 DEF Reaches

LEMMA NothingRead ==
  ASSUME NEW n \in Nat, NEW top \in Nat, top <= n
  PROVE  Reaching(n, 0, {}, top)
<1>1. /\ top < top + 1 /\ top <= top /\ top <= n /\ top + 1 <= top + 1 /\ top + 1 <= n - 0 * PageSize + 1
      /\ top + 1..top \subseteq {} /\ {} \subseteq top + 1..top /\ top + 1 \in Nat
  BY WatchAssumption
<1> QED
  BY <1>1 DEF Reaching

LEMMA Untouched ==
  ASSUME WatchInv, NEW w \in WalletSet, listed'[w] \in Nat, listed[w] <= listed'[w],
         Handed(w)' = Handed(w), skipped'[w] = skipped[w], Left(w)' = Left(w),
         seen'[w] = seen[w], warmed'[w] = warmed[w],
         \/ page' = 0 /\ collected' = {}
         \/ UNCHANGED <<page, collected, todo>>
         \/ todo' # <<>> /\ w # Head(todo')
  PROVE  WalletInv(w)'
<1>1. Types
  BY DEF WatchInv
<1>2. PICK top \in Nat : Held(w, top) /\ (todo # <<>> /\ w = Head(todo) => Reaches(w, top))
  BY DEF WatchInv, WalletInv
<1>3. Held(w, top)'
  BY <1>1, <1>2, StillHeld
<1>4. todo' # <<>> /\ w = Head(todo') => Reaches(w, top)'
  <2>1. CASE page' = 0 /\ collected' = {}
    <3>1. top <= listed'[w]
      BY <1>3 DEF Held
    <3>2. Reaching(listed'[w], 0, {}, top)
      BY <3>1, NothingRead
    <3> QED  BY <2>1, <3>2 DEF Reaches
  <2>2. CASE UNCHANGED <<page, collected, todo>>
    BY <1>1, <1>2, <2>2, StillReached
  <2> QED  BY <2>1, <2>2
<1> QED
  BY <1>3, <1>4 DEF WalletInv

-----------------------------------------------------------------------------
(* The next page joins the ones before it, also when the list has grown.    *)
Joins(w, P, top, t, b, m) ==
  /\ t = listed[w] - page * PageSize /\ top <= t /\ t <= m /\ m <= listed[w]
  /\ P = b..t /\ b >= 1 /\ b >= t - PageSize + 1
  /\ Cardinality(P) \in Nat
  /\ Cardinality(P) < PageSize => b = 1
  /\ Cardinality(P) >= PageSize => b = t - PageSize + 1
  /\ b..m \subseteq collected \cup P
  /\ collected \cup P \subseteq (b..t) \cup (top + 1..m)
LEMMA PageJoins ==
  ASSUME Types, NEW w \in WalletSet, NEW top \in Nat, Reaches(w, top),
         NEW P, P = PageOf(w, page)
  PROVE  \E t \in Nat, b \in Nat, m \in Nat :
           Joins(w, P, top, t, b, m)
<1>1. listed[w] \in Nat /\ page \in Nat /\ page * PageSize \in Nat /\ PageSize \in Nat
  <2>1. listed[w] \in Nat /\ page \in Nat /\ PageSize \in Nat
    BY WatchAssumption DEF Types
  <2>2. page * PageSize \in Nat
    BY ONLY <2>1
  <2> QED  BY <2>1, <2>2
<1>2. PICK n, d, C : n = listed[w] /\ d = page * PageSize /\ C = collected
  OBVIOUS
<1>3. PICK t \in Int, b \in Nat :
        /\ t = n - d /\ b >= 1 /\ P = b..t /\ b >= t - PageSize + 1
        /\ Cardinality(P) \in Nat
        /\ Cardinality(P) < PageSize => b = 1
        /\ Cardinality(P) >= PageSize => b = t - PageSize + 1
  <2>1. \E t \in Int, b \in Nat :
           /\ t = listed[w] - page * PageSize /\ t <= listed[w] /\ b >= 1
           /\ PageOf(w, page) = b..t /\ b >= t - PageSize + 1
           /\ b # 1 => b = t - PageSize + 1
           /\ IsFiniteSet(PageOf(w, page)) /\ Cardinality(PageOf(w, page)) \in Nat
           /\ Cardinality(PageOf(w, page)) <= PageSize
           /\ Cardinality(PageOf(w, page)) < PageSize => b = 1
           /\ Cardinality(PageOf(w, page)) >= PageSize => b = t - PageSize + 1
    BY ONLY <1>1, PageFacts
  <2> QED  BY <1>2, <2>1, P = PageOf(w, page)
<1>4. PICK c \in Nat, l \in Nat :
        /\ top < c /\ top <= l /\ l <= n /\ c <= l + 1 /\ c <= n - d + 1
        /\ c..l \subseteq C /\ C \subseteq top + 1..l
  BY <1>2 DEF Reaches, Reaching
<1>5. n \in Nat /\ d \in Nat
  BY <1>1, <1>2
<1>6. t \in Nat /\ top <= t /\ c <= t + 1 /\ t <= n
  BY ONLY <1>3, <1>4, <1>5, top \in Nat
<1>7. PICK m \in Nat : (m = t \/ m = l) /\ t <= m /\ l <= m
  BY <1>6
<1>8. b..m \subseteq C \cup P
  <2> SUFFICES ASSUME NEW z \in b..m, ~(z \in b..t) PROVE z \in C
    BY <1>3
  <2>1. z \in Nat /\ t < z /\ z <= l
    BY ONLY <1>3, <1>6, <1>7, z \in b..m, ~(z \in b..t)
  <2>2. z \in c..l
    BY ONLY <1>6, <2>1, c \in Nat, l \in Nat
  <2> QED  BY <1>4, <2>2
<1>9. C \cup P \subseteq (b..t) \cup (top + 1..m)
  <2>1. top + 1..l \subseteq top + 1..m
    BY <1>7
  <2> QED  BY <1>3, <1>4, <2>1
<1>10. /\ t = listed[w] - page * PageSize /\ m <= listed[w]
       /\ b..m \subseteq collected \cup P /\ collected \cup P \subseteq (b..t) \cup (top + 1..m)
  BY <1>2, <1>3, <1>4, <1>6, <1>7, <1>8, <1>9
<1> QED
  BY <1>3, <1>6, <1>7, <1>10 DEF Joins

-----------------------------------------------------------------------------
(* One more page is read.                                                   *)
LEMMA FetchMoreReaches ==
  ASSUME WatchInv, NEW w \in WalletSet, FetchMore(w),
         \A v \in WalletSet : Handed(v)' = Handed(v) /\ Left(v)' = Left(v)
  PROVE  WalletInv(w)'
<1>1. PICK P : P = PageOf(w, page)
  OBVIOUS
<1>2. /\ todo # <<>> /\ w = Head(todo) /\ warmed[w] /\ outbox = <<>> /\ batch = <<>>
      /\ ~Overlaps(w, P) /\ ~(Cardinality(P) < PageSize)
      /\ page' = page + 1 /\ collected' = collected \cup P
      /\ UNCHANGED <<listed, todo, seen, warmed, skipped>>
  BY <1>1 DEF FetchMore, Ready, Idle, Complete, Exhausted
<1>3. Types
  BY DEF WatchInv
<1>4. PICK top \in Nat : Held(w, top) /\ Reaches(w, top)
  BY <1>2 DEF WatchInv, WalletInv
<1>5. PICK t \in Nat, b \in Nat, m \in Nat : Joins(w, P, top, t, b, m)
  BY <1>1, <1>3, <1>4, PageJoins
<1>6. /\ t = listed[w] - page * PageSize /\ top <= t /\ t <= m /\ m <= listed[w]
      /\ P = b..t /\ b >= 1 /\ Cardinality(P) \in Nat
      /\ Cardinality(P) >= PageSize => b = t - PageSize + 1
      /\ b..m \subseteq collected \cup P
      /\ collected \cup P \subseteq (b..t) \cup (top + 1..m)
  BY <1>5 DEF Joins
<1>7. listed[w] \in Nat /\ page \in Nat /\ PageSize \in Nat /\ PageSize >= 1
  BY <1>3, WatchAssumption DEF Types
<1>8. b = t - PageSize + 1
  BY <1>2, <1>6, <1>7
<1>9. Held(w, top)'
  BY <1>2, <1>3, <1>4, <1>7, StillHeld
<1>10. top < b
  <2> SUFFICES ASSUME ~(top < b) PROVE FALSE
    OBVIOUS
  <2>1. top \in b..t /\ top \in 1..top /\ top > top - PageSize
    BY <1>6, <1>7
  <2>2. Left(w) = {}
    BY <1>2 DEF Left
  <2>3. top \in Known(w)
    BY <1>4, <2>1, <2>2 DEF Held
  <2>4. top \in ToSet(seen[w])
    BY <1>2, <1>4, <2>1, <2>3 DEF Held
  <2> QED  BY <1>2, <1>6, <2>1, <2>4 DEF Overlaps
<1>11. Reaches(w, top)'
  <2>1. PICK k, C, n : k = page' /\ C = collected' /\ n = listed'[w]
    OBVIOUS
  <2>2. b <= n - k * PageSize + 1
    <3>1. (page + 1) * PageSize = page * PageSize + PageSize
      BY ONLY <1>7
    <3>2. page * PageSize \in Nat
      BY ONLY <1>7
    <3>3. k * PageSize = page * PageSize + PageSize /\ n = listed[w]
      BY <1>2, <2>1, <3>1
    <3>4. PICK e \in Nat : e = page * PageSize
      BY ONLY <3>2
    <3>5. k * PageSize = e + PageSize /\ t = n - e /\ b = t - PageSize + 1
      BY <1>6, <1>8, <3>3, <3>4
    <3>6. n \in Nat /\ PageSize \in Nat
      BY <1>7, <3>3
    <3> QED  BY ONLY <3>4, <3>5, <3>6
  <2>3. C \subseteq top + 1..m
    <3>1. b..t \subseteq top + 1..m
      BY <1>6, <1>10
    <3> QED  BY <1>2, <1>6, <2>1, <3>1
  <2>4. /\ top < b /\ top <= m /\ m <= n /\ b <= m + 1 /\ b..m \subseteq C
    <3>1. n = listed[w] /\ C = collected \cup P
      BY <1>2, <2>1
    <3>2. b <= m + 1
      BY ONLY <1>6, <1>7, <1>8, t \in Nat, m \in Nat, b \in Nat
    <3>3. top <= m
      BY ONLY <1>6, t \in Nat, m \in Nat, top \in Nat
    <3> QED  BY <1>6, <1>10, <3>1, <3>2, <3>3
  <2>5. Reaching(n, k, C, top)
    BY ONLY <2>2, <2>3, <2>4, b \in Nat, m \in Nat DEF Reaching
  <2> QED  BY <2>1, <2>5 DEF Reaches
<1> QED
  BY <1>9, <1>11 DEF WalletInv

(* The window is complete: what it holds and what is known overlap or join. *)
LEMMA WindowHolds ==
  ASSUME WatchInv, NEW w \in WalletSet, Window(w), \A v \in WalletSet : Handed(v)' = Handed(v)
  PROVE  batch' \in Seq(WalletSet \X Nat) /\ InTurn' /\ \A v \in WalletSet : WalletInv(v)'
<1>1. PICK P, S, B : P = PageOf(w, page) /\ S = collected \cup P /\ B = ByTimestamp(S)
  OBVIOUS
<1>2. /\ todo # <<>> /\ w = Head(todo) /\ warmed[w] /\ outbox = <<>> /\ batch = <<>>
      /\ Overlaps(w, P) \/ (seen[w] = <<>> /\ Cardinality(P) < PageSize)
      /\ page' = 0 /\ collected' = {} /\ todo' = Tail(todo)
      /\ batch' = [k \in DOMAIN B |-> <<w, B[k]>>]
      /\ UNCHANGED <<listed, watch, seen, warmed, skipped>>
  BY <1>1 DEF Window, Ready, Idle, Complete, NextWallet
<1>3. Types /\ InTurn
  BY DEF WatchInv
<1>4. PICK top \in Nat : Held(w, top) /\ Reaches(w, top)
  BY <1>2 DEF WatchInv, WalletInv
<1>5. PICK t \in Nat, b \in Nat, m \in Nat : Joins(w, P, top, t, b, m)
  BY <1>1, <1>3, <1>4, PageJoins
<1>6. /\ top <= t /\ t <= m /\ m <= listed[w] /\ P = b..t /\ b >= 1 /\ b >= t - PageSize + 1
      /\ Cardinality(P) < PageSize => b = 1
      /\ b..m \subseteq S /\ S \subseteq (b..t) \cup (top + 1..m)
  BY <1>1, <1>5 DEF Joins
<1>7. listed[w] \in Nat /\ PageSize \in Nat /\ PageSize >= 1
  BY <1>3, WatchAssumption DEF Types
<1>8. \A v : Left(v) = {}
  BY <1>2 DEF Left
<1>9. Known(w) = 1..top /\ ToSet(seen[w]) \subseteq 1..top
  BY <1>4, <1>8 DEF Held
<1>10. b <= top + 1
  <2>1. CASE Overlaps(w, P)
    <3>1. PICK x : x \in P /\ x \in ToSet(seen[w])
      BY <2>1 DEF Overlaps
    <3>2. x \in b..t /\ x \in 1..top
      BY <1>6, <1>9, <3>1
    <3> QED  BY ONLY <3>2, b \in Nat, t \in Nat, top \in Nat
  <2>2. CASE Cardinality(P) < PageSize
    BY <1>6, <2>2
  <2> QED  BY <1>2, <2>1, <2>2
<1>11. S = b..m
  <2>1. (b..t) \cup (top + 1..m) \subseteq b..m
    BY ONLY <1>6, <1>10, b \in Nat, t \in Nat, top \in Nat, m \in Nat
  <2> QED  BY <1>6, <2>1
<1>12. S \in SUBSET Nat /\ IsFiniteSet(S)
  BY <1>11, FS_Interval
<1>13. PICK c \in Nat :
         /\ B \in Seq(S) /\ Len(B) = c /\ \A x \in S : \E k \in 1..c : B[k] = x
         /\ \A k, l \in 1..c : k < l => Before(B[k], B[l])
  <2>1. Cardinality(S) \in Nat
    BY <1>12, FS_CardinalityType
  <2>2. PICK c \in Nat : c = Cardinality(S)
    BY <2>1
  <2>3. /\ ByTimestamp(S) \in Seq(S) /\ Len(ByTimestamp(S)) = Cardinality(S)
        /\ \A x \in S : \E k \in 1..Cardinality(S) : ByTimestamp(S)[k] = x
        /\ \A k, l \in 1..Cardinality(S) : k < l => Before(ByTimestamp(S)[k], ByTimestamp(S)[l])
    BY ONLY <1>12, TimestampOrder
  <2>4. B = ByTimestamp(S)
    BY <1>1
  <2> QED  BY ONLY <2>2, <2>3, <2>4
<1>14. /\ DOMAIN B = 1..c /\ \A k \in 1..c : B[k] \in S
       /\ batch' = [k \in 1..c |-> <<w, B[k]>>]
  BY <1>2, <1>13
<1>15. /\ batch' \in Seq(WalletSet \X Nat) /\ Len(batch') = c
       /\ \A k \in 1..c : batch'[k] = <<w, B[k]>>
  <2>1. \A k \in 1..c : <<w, B[k]>> \in WalletSet \X Nat
    BY <1>12, <1>14
  <2>2. PICK D : D = [k \in 1..c |-> <<w, B[k]>>]
    OBVIOUS
  <2>3. D \in [1..c -> WalletSet \X Nat] /\ \A k \in 1..c : D[k] = <<w, B[k]>>
    BY ONLY <2>1, <2>2
  <2>4. D \in Seq(WalletSet \X Nat) /\ Len(D) = c
    <3>1. D \in Seq(WalletSet \X Nat)
      BY ONLY <2>3, c \in Nat, SeqDef
    <3> QED  BY ONLY <2>3, <3>1, c \in Nat, LenProperties
  <2> QED  BY ONLY <1>14, <2>2, <2>3, <2>4
<1>16. InTurn'
  <2>1. ~watch'.polling => todo' = <<>>
    BY <1>2, <1>3 DEF InTurn
  <2>2. ASSUME NEW k \in 1..Len(batch'), NEW l \in 1..Len(batch')
        PROVE  batch'[k][1] = batch'[l][1] /\ (k < l => Before(batch'[k][2], batch'[l][2]))
    BY <1>13, <1>15
  <2> QED  BY <1>2, <2>1, <2>2 DEF InTurn
<1>17. \A x : x \in Left(w)' <=> x \in S
  <2>1. Left(w)' = {x \in Nat : \E k \in 1..c : batch'[k] = <<w, x>>}
    BY <1>15 DEF Left
  <2>2. \A k \in 1..c : \A x : batch'[k] = <<w, x>> <=> B[k] = x
    BY <1>15
  <2>3. \A x : x \in Left(w)' <=> x \in Nat /\ \E k \in 1..c : B[k] = x
    BY ONLY <2>1, <2>2
  <2>4. \A x : x \in S <=> \E k \in 1..c : B[k] = x
    BY ONLY <1>13, <1>14
  <2> QED  BY ONLY <1>12, <2>3, <2>4
<1>18. ASSUME NEW v \in WalletSet, v # w PROVE Left(v)' = {}
  <2>1. Left(v)' = {x \in Nat : \E k \in 1..c : batch'[k] = <<v, x>>}
    BY <1>15 DEF Left
  <2>2. \A k \in 1..c : \A x : batch'[k] # <<v, x>>
    BY <1>15, <1>18
  <2> QED  BY <2>1, <2>2
<1>19. Held(w, m)'
  <2>1. Known(w)' = 1..top
    BY <1>2, <1>9 DEF Known
  <2>2. Known(w)' \cup Left(w)' = 1..m
    <3>1. Left(w)' = b..m
      BY <1>11, <1>17
    <3>2. (1..top) \cup (b..m) = 1..m
      BY ONLY <1>6, <1>10, b \in Nat, t \in Nat, top \in Nat, m \in Nat
    <3> QED  BY <2>1, <3>1, <3>2
  <2>3. ASSUME NEW x \in Left(w)', x \notin ToSet(seen[w])
        PROVE  x \notin Known(w)' /\ Latest(seen[w], x)
    <3>1. x \in b..m
      BY <1>11, <1>17
    <3>2. x \notin 1..top
      <4> SUFFICES ASSUME x \in 1..top PROVE FALSE
        OBVIOUS
      <4>1. x > top - PageSize
        BY ONLY <1>6, <1>7, <3>1, b \in Nat, t \in Nat, top \in Nat, m \in Nat
      <4> QED  BY <1>2, <1>4, <1>9, <2>3, <4>1 DEF Held
    <3>3. Latest(seen[w], x)
      <4> SUFFICES ASSUME NEW y \in ToSet(seen[w]) PROVE Second(y) <= Second(x)
        BY DEF Latest
      <4>1. y \in 1..top
        BY <1>9
      <4>2. x \in Nat /\ y \in Nat /\ y <= x
        BY ONLY <3>1, <3>2, <4>1, b \in Nat, top \in Nat, m \in Nat, <1>6
      <4> QED  BY <4>2, SecondMonotone
    <3> QED  BY <2>1, <3>2, <3>3
  <2>4. ASSUME NEW x \in Known(w), x > m - PageSize PROVE x \in ToSet(seen[w])
    <3>1. x > top - PageSize
      BY <1>6, <1>7, <1>9, <2>4
    <3> QED  BY <1>2, <1>4, <3>1 DEF Held
  <2>5. /\ Ordered(seen[w]) /\ ToSet(seen[w]) \subseteq Known(w) /\ Handed(w) \cap skipped[w] = {}
    BY <1>4 DEF Held
  <2>6. /\ Known(w)' = Known(w) /\ Handed(w)' = Handed(w) /\ seen'[w] = seen[w]
        /\ warmed'[w] = warmed[w] /\ skipped'[w] = skipped[w] /\ listed'[w] = listed[w]
    BY <1>2, <1>9, <2>1
  <2>7. \A x \in Left(w)' \ ToSet(seen'[w]) : x \notin Known(w)' /\ Latest(seen'[w], x)
    BY <2>3, <2>6
  <2>8. m <= listed'[w] /\ \A x \in Known(w)' : x > m - PageSize => x \in ToSet(seen'[w])
    BY <1>6, <2>4, <2>6
  <2> QED  BY <2>2, <2>5, <2>6, <2>7, <2>8 DEF Held
<1>20. WalletInv(w)'
  <2>1. Reaching(listed'[w], 0, {}, m)
    BY <1>2, <1>6, <1>7, NothingRead
  <2>2. Reaches(w, m)'
    BY <1>2, <2>1 DEF Reaches
  <2> QED  BY <1>19, <2>2 DEF WalletInv
<1>21. ASSUME NEW v \in WalletSet, v # w PROVE WalletInv(v)'
  <2>1. Left(v)' = Left(v)
    BY <1>8, <1>18, <1>21
  <2>2. listed'[v] \in Nat /\ listed[v] <= listed'[v]
    BY <1>2, <1>3 DEF Types
  <2> QED  BY <1>2, <2>1, <2>2, Untouched
<1> QED
  BY <1>15, <1>16, <1>20, <1>21

-----------------------------------------------------------------------------
(* A warm-up remembers the first page and passes over all that is listed.   *)
LEMMA WarmHolds ==
  ASSUME WatchInv, NEW w \in WalletSet, Warm(w), \A v \in WalletSet : Handed(v)' = Handed(v)
  PROVE  /\ warmed' \in [WalletSet -> BOOLEAN] /\ seen' \in [WalletSet -> Seq(Nat)]
         /\ skipped' \in [WalletSet -> SUBSET Nat] /\ \A v \in WalletSet : WalletInv(v)'
<1>1. PICK P, B, n, K : P = PageOf(w, 0) /\ B = ByTimestamp(P) /\ n = listed[w]
                        /\ K = skipped[w] \cup ((1..n) \ Handed(w))
  OBVIOUS
<1>2. /\ outbox = <<>> /\ batch = <<>> /\ page' = 0 /\ collected' = {}
      /\ warmed' = [warmed EXCEPT ![w] = TRUE] /\ seen' = [seen EXCEPT ![w] = B]
      /\ skipped' = [skipped EXCEPT ![w] = K]
      /\ UNCHANGED <<listed, batch>>
  BY <1>1 DEF Warm, Ready, Idle, NextWallet
<1>3. Types
  BY DEF WatchInv
<1>4. n \in Nat /\ PageSize \in Nat /\ PageSize >= 1
      /\ MaxSeen \in Nat /\ PageSize <= MaxSeen
  BY <1>1, <1>3, WatchAssumption DEF Types
<1>5. PICK b \in Nat :
        /\ P = b..n /\ b >= 1
        /\ b # 1 => b = n - PageSize + 1
        /\ IsFiniteSet(P) /\ Cardinality(P) \in Nat /\ Cardinality(P) <= PageSize
  <2>1. 0 * PageSize = 0
    BY <1>4
  <2>2. listed[w] \in Nat
    BY <1>1, <1>4
  <2>3. \E t \in Int, b \in Nat :
           /\ t = listed[w] - 0 * PageSize /\ t <= listed[w] /\ b >= 1
           /\ PageOf(w, 0) = b..t /\ b >= t - PageSize + 1
           /\ b # 1 => b = t - PageSize + 1
           /\ IsFiniteSet(PageOf(w, 0)) /\ Cardinality(PageOf(w, 0)) \in Nat
           /\ Cardinality(PageOf(w, 0)) <= PageSize
           /\ Cardinality(PageOf(w, 0)) < PageSize => b = 1
           /\ Cardinality(PageOf(w, 0)) >= PageSize => b = t - PageSize + 1
    BY ONLY <2>2, 0 \in Nat, PageFacts
  <2>4. PICK t \in Int, b \in Nat :
           /\ t = listed[w] - 0 * PageSize /\ b >= 1 /\ PageOf(w, 0) = b..t
           /\ b # 1 => b = t - PageSize + 1
           /\ IsFiniteSet(PageOf(w, 0)) /\ Cardinality(PageOf(w, 0)) \in Nat
           /\ Cardinality(PageOf(w, 0)) <= PageSize
    BY ONLY <2>3
  <2>5. t = n
    BY <1>1, <1>4, <2>1, <2>4
  <2> QED  BY <1>1, <2>4, <2>5
<1>6. P \in SUBSET Nat /\ P \subseteq 1..n
  BY ONLY <1>4, <1>5, b \in Nat
<1>7. PICK c \in Nat :
         /\ c = Cardinality(P) /\ B \in Seq(P) /\ Len(B) = c /\ \A x \in P : \E k \in 1..c : B[k] = x
         /\ \A k, l \in 1..c : k < l => Before(B[k], B[l])
  <2>1. PICK c \in Nat : c = Cardinality(P)
    BY <1>5
  <2>2. /\ ByTimestamp(P) \in Seq(P) /\ Len(ByTimestamp(P)) = Cardinality(P)
        /\ \A x \in P : \E k \in 1..Cardinality(P) : ByTimestamp(P)[k] = x
        /\ \A k, l \in 1..Cardinality(P) : k < l => Before(ByTimestamp(P)[k], ByTimestamp(P)[l])
    BY ONLY <1>5, <1>6, TimestampOrder
  <2>3. B = ByTimestamp(P)
    BY <1>1
  <2> QED  BY ONLY <2>1, <2>2, <2>3
<1>8. B \in Seq(Nat) /\ \A k \in 1..c : B[k] \in P
  <2>1. \A k \in 1..c : B[k] \in P
    BY ONLY <1>7
  <2>2. B \in [1..c -> Nat]
    <3>1. B \in [1..c -> P]
      BY ONLY <1>7
    <3> QED  BY ONLY <1>6, <3>1
  <2>3. B \in Seq(Nat)
    BY ONLY <2>2, c \in Nat, SeqDef
  <2> QED  BY <2>1, <2>3
<1>9. Ordered(B)
  <2>1. ASSUME NEW p \in 1..c, NEW q \in 1..c, p < q
        PROVE  B[p] # B[q] /\ Second(B[p]) <= Second(B[q])
    <3>1. Before(B[p], B[q]) /\ B[p] \in Nat /\ B[q] \in Nat
      BY <1>6, <1>7, <1>8, <2>1
    <3> QED  BY <3>1, BeforeOrders
  <2>2. Len(B) <= MaxSeen
    BY ONLY <1>4, <1>5, <1>7, c \in Nat
  <2> QED  BY <1>7, <1>8, <2>1, <2>2 DEF Ordered
<1>10. \A x : x \in ToSet(B) <=> x \in P
  <2>1. \A x : x \in ToSet(B) <=> \E p \in 1..c : B[p] = x
    <3>1. \A x : x \in ToSet(B) <=> \E p \in 1..Len(B) : B[p] = x
      BY ONLY <1>8, Elements
    <3> QED  BY <1>7, <3>1
  <2> QED  BY <1>7, <1>8, <2>1
<1>11. Handed(w) \subseteq Nat
  BY <1>3, LineFacts
<1>12. /\ warmed' \in [WalletSet -> BOOLEAN] /\ seen' \in [WalletSet -> Seq(Nat)]
       /\ skipped' \in [WalletSet -> SUBSET Nat]
       /\ warmed'[w] = TRUE /\ seen'[w] = B /\ skipped'[w] = K
       /\ \A v \in WalletSet :
            v # w => warmed'[v] = warmed[v] /\ seen'[v] = seen[v] /\ skipped'[v] = skipped[v]
  <2>1. K \in SUBSET Nat
    BY <1>1, <1>3, <1>4 DEF Types
  <2> QED  BY <1>2, <1>3, <1>8, <2>1 DEF Types
<1>13. \A v : Left(v) = {} /\ Left(v)' = {}
  BY <1>2 DEF Left
<1>14. PICK top \in Nat : Held(w, top)
  BY DEF WatchInv, WalletInv
<1>15. Held(w, n)'
  <2>1. Known(w) = 1..top /\ top <= n
    BY <1>1, <1>13, <1>14 DEF Held
  <2>2. Known(w)' = 1..n
    <3>1. Known(w)' = Handed(w) \cup K
      BY <1>12 DEF Known
    <3>2. Handed(w) \cup K = Known(w) \cup (1..n)
      BY <1>1 DEF Known
    <3>3. (1..top) \cup (1..n) = 1..n
      BY ONLY <1>4, <2>1, top \in Nat
    <3> QED  BY <2>1, <3>1, <3>2, <3>3
  <2>3. ToSet(B) \subseteq 1..n
    BY <1>6, <1>10
  <2>4. ASSUME NEW x \in 1..n, x > n - PageSize PROVE x \in ToSet(B)
    <3>1. x \in b..n
      BY ONLY <1>4, <1>5, <2>4, b \in Nat, x \in 1..n
    <3> QED  BY <1>5, <1>10, <3>1
  <2>5. Handed(w)' \cap skipped'[w] = {}
    <3>1. Handed(w) \cap skipped[w] = {}
      BY <1>14 DEF Held
    <3> QED  BY <1>1, <1>12, <3>1
  <2>6. n <= listed'[w] /\ Known(w)' \cup Left(w)' = 1..n
    BY <1>1, <1>2, <1>4, <1>13, <2>2
  <2>7. \A x \in Known(w)' : x > n - PageSize => x \in ToSet(seen'[w])
    BY <1>12, <2>2, <2>4
  <2> QED  BY <1>9, <1>12, <1>13, <2>2, <2>3, <2>5, <2>6, <2>7 DEF Held
<1>16. WalletInv(w)'
  <2>1. Reaching(listed'[w], 0, {}, n)
    <3>1. listed'[w] = n
      BY <1>1, <1>2
    <3>2. n <= n
      BY <1>4
    <3> QED  BY <1>4, <3>1, <3>2, NothingRead
  <2>2. Reaches(w, n)'
    BY <1>2, <2>1 DEF Reaches
  <2> QED  BY <1>4, <1>15, <2>2 DEF WalletInv
<1>17. ASSUME NEW v \in WalletSet, v # w PROVE WalletInv(v)'
  <2>1. listed'[v] \in Nat /\ listed[v] <= listed'[v]
    BY <1>2, <1>3 DEF Types
  <2>2. Left(v)' = Left(v)
    BY <1>13
  <2> QED  BY <1>2, <1>12, <1>17, <2>1, <2>2, Untouched
<1> QED
  BY <1>12, <1>16, <1>17

(* A wallet without an overlap is forgotten and will be warmed again.       *)
LEMMA GapHolds ==
  ASSUME WatchInv, NEW w \in WalletSet, Gap(w), \A v \in WalletSet : Handed(v)' = Handed(v)
  PROVE  /\ warmed' \in [WalletSet -> BOOLEAN] /\ seen' \in [WalletSet -> Seq(Nat)]
         /\ \A v \in WalletSet : WalletInv(v)'
<1>1. /\ batch = <<>> /\ page' = 0 /\ collected' = {}
      /\ warmed' = [warmed EXCEPT ![w] = FALSE] /\ seen' = [seen EXCEPT ![w] = <<>>]
      /\ UNCHANGED <<listed, batch, skipped>>
  BY DEF Gap, Ready, Idle, NextWallet, ResetForRewarm
<1>2. Types
  BY DEF WatchInv
<1>3. /\ warmed' \in [WalletSet -> BOOLEAN] /\ seen' \in [WalletSet -> Seq(Nat)]
      /\ warmed'[w] = FALSE /\ seen'[w] = <<>>
      /\ \A v \in WalletSet : v # w => warmed'[v] = warmed[v] /\ seen'[v] = seen[v]
  BY <1>1, <1>2 DEF Types
<1>4. \A v : Left(v) = {} /\ Left(v)' = {}
  BY <1>1 DEF Left
<1>5. PICK top \in Nat : Held(w, top)
  BY DEF WatchInv, WalletInv
<1>6. Held(w, top)'
  <2>1. Ordered(<<>>) /\ ToSet(<<>>) = {}
    BY WatchAssumption DEF Ordered, ToSet
  <2>2. Known(w)' = Known(w)
    BY <1>1 DEF Known
  <2> QED  BY <1>1, <1>3, <1>4, <1>5, <2>1, <2>2 DEF Held
<1>7. WalletInv(w)'
  <2>1. listed'[w] = listed[w] /\ listed[w] \in Nat /\ top <= listed[w]
    BY <1>1, <1>2, <1>5 DEF Types, Held
  <2>2. Reaching(listed'[w], 0, {}, top)
    BY <2>1, NothingRead
  <2>3. Reaches(w, top)'
    BY <1>1, <2>2 DEF Reaches
  <2> QED  BY <1>6, <2>3 DEF WalletInv
<1>8. ASSUME NEW v \in WalletSet, v # w PROVE WalletInv(v)'
  <2>1. listed'[v] \in Nat /\ listed[v] <= listed'[v]
    BY <1>1, <1>2 DEF Types
  <2>2. Left(v)' = Left(v)
    BY <1>4
  <2> QED  BY <1>1, <1>3, <1>8, <2>1, <2>2, Untouched
<1> QED
  BY <1>3, <1>7, <1>8

-----------------------------------------------------------------------------
(* The first trade of the batch, and what is left without it.               *)
LEMMA FirstOfBatch ==
  ASSUME Types, InTurn, batch # <<>>, NEW w, w = Head(batch)[1], NEW i, i = Head(batch)[2],
         batch' = Tail(batch)
  PROVE  /\ w \in WalletSet /\ i \in Nat /\ batch' \in Seq(WalletSet \X Nat)
         /\ i \in Left(w) /\ \A x : x \in Left(w) <=> x = i \/ x \in Left(w)'
         /\ \A x \in Left(w)' : Before(i, x)
         /\ \A v \in WalletSet : v # w => Left(v)' = Left(v)
         /\ \A k, l \in 1..Len(batch') :
              batch'[k][1] = batch'[l][1] /\ (k < l => Before(batch'[k][2], batch'[l][2]))
<1>1. PICK s, r : s = batch /\ r = batch'
  OBVIOUS
<1>2. s \in Seq(WalletSet \X Nat) /\ s # <<>> /\ r = Tail(s)
  BY <1>1 DEF Types
<1>3. r \in Seq(WalletSet \X Nat)
  BY ONLY <1>2, HeadTailProperties
<1>4. PICK n \in Nat : n = Len(r)
  BY ONLY <1>3, LenProperties
<1>5. Len(s) = n + 1 /\ Head(s) = s[1] /\ \A p \in 1..n : r[p] = s[p + 1]
  BY ONLY <1>2, <1>4, HeadTailProperties
<1>6. s[1] \in WalletSet \X Nat /\ s[1] = <<w, i>> /\ w \in WalletSet /\ i \in Nat
  <2>1. s[1] \in WalletSet \X Nat
    BY ONLY <1>2, <1>5, n \in Nat
  <2> QED  BY <1>1, <1>5, <2>1
<1>7. \A k, l \in 1..n + 1 :
        s[k][1] = s[l][1] /\ (k < l => Before(s[k][2], s[l][2]))
  BY <1>1, <1>5 DEF InTurn
<1>8. \A k, l \in 1..n : r[k][1] = r[l][1] /\ (k < l => Before(r[k][2], r[l][2]))
  <2> SUFFICES ASSUME NEW k \in 1..n, NEW l \in 1..n
               PROVE  r[k][1] = r[l][1] /\ (k < l => Before(r[k][2], r[l][2]))
    OBVIOUS
  <2>1. k + 1 \in 1..n + 1 /\ l + 1 \in 1..n + 1 /\ (k < l => k + 1 < l + 1)
    OBVIOUS
  <2>2. s[k + 1][1] = s[l + 1][1] /\ (k + 1 < l + 1 => Before(s[k + 1][2], s[l + 1][2]))
    BY ONLY <1>7, <2>1
  <2> QED  BY <1>5, <2>1, <2>2
<1>9. \A v : Left(v) = {x \in Nat : \E k \in 1..n + 1 : s[k] = <<v, x>>}
  BY <1>1, <1>5 DEF Left
<1>10. \A v : Left(v)' = {x \in Nat : \E k \in 1..n : r[k] = <<v, x>>}
  BY <1>1, <1>4 DEF Left
<1>11. \A v, x : (\E k \in 1..n + 1 : s[k] = <<v, x>>)
                   <=> s[1] = <<v, x>> \/ (\E k \in 1..n : r[k] = <<v, x>>)
  <2> SUFFICES ASSUME NEW v, NEW x
               PROVE  (\E k \in 1..n + 1 : s[k] = <<v, x>>)
                        <=> s[1] = <<v, x>> \/ (\E k \in 1..n : r[k] = <<v, x>>)
    OBVIOUS
  <2>1. ASSUME NEW k \in 1..n + 1, s[k] = <<v, x>>, k # 1
        PROVE  \E l \in 1..n : r[l] = <<v, x>>
    <3>1. k - 1 \in 1..n /\ r[k - 1] = s[k]
      BY <1>5, <2>1
    <3> QED  BY <2>1, <3>1
  <2>2. ASSUME NEW k \in 1..n, r[k] = <<v, x>> PROVE \E l \in 1..n + 1 : s[l] = <<v, x>>
    <3>1. k + 1 \in 1..n + 1 /\ s[k + 1] = r[k]
      BY <1>5
    <3> QED  BY <2>2, <3>1
  <2>3. 1 \in 1..n + 1
    OBVIOUS
  <2> QED  BY <2>1, <2>2, <2>3
<1>12. \A x : x \in Left(w) <=> x = i \/ x \in Left(w)'
  <2>1. \A x : x \in Left(w) <=> x \in Nat /\ \E k \in 1..n + 1 : s[k] = <<w, x>>
    BY ONLY <1>9
  <2>2. \A x : x \in Left(w)' <=> x \in Nat /\ \E k \in 1..n : r[k] = <<w, x>>
    BY ONLY <1>10
  <2>3. \A x : s[1] = <<w, x>> <=> x = i
    BY ONLY <1>6
  <2>4. \A x : (\E k \in 1..n + 1 : s[k] = <<w, x>>) <=> x = i \/ (\E k \in 1..n : r[k] = <<w, x>>)
    BY ONLY <1>11, <2>3
  <2> QED  BY ONLY <1>6, <2>1, <2>2, <2>4
<1>13. ASSUME NEW v \in WalletSet, v # w PROVE Left(v)' = Left(v)
  <2>1. \A x : s[1] # <<v, x>>
    BY <1>6, <1>13
  <2> QED  BY <1>9, <1>10, <1>11, <2>1
<1>14. ASSUME NEW x \in Left(w)' PROVE Before(i, x)
  <2>1. PICK k \in 1..n : r[k] = <<w, x>>
    BY <1>10
  <2>2. k + 1 \in 1..n + 1 /\ 1 \in 1..n + 1 /\ 1 < k + 1 /\ s[k + 1] = <<w, x>>
    BY <1>5, <2>1
  <2>3. Before(s[1][2], s[k + 1][2])
    BY ONLY <1>7, <2>2
  <2> QED  BY <1>6, <2>2, <2>3
<1> QED
  BY <1>1, <1>3, <1>4, <1>6, <1>8, <1>12, <1>13, <1>14

(* A trade of the batch is passed by or reported.                           *)
LEMMA ReportHolds ==
  ASSUME WatchInv, NEW w \in WalletSet, NEW i \in Nat, NEW top \in Nat, Held(w, top),
         i \in Left(w), \A x : x \in Left(w) <=> x = i \/ x \in Left(w)',
         \A x \in Left(w)' : Before(i, x), UNCHANGED <<listed, skipped, warmed>>,
         \/ i \in ToSet(seen[w]) /\ Handed(w)' = Handed(w) /\ seen'[w] = seen[w]
         \/ /\ i \notin ToSet(seen[w]) /\ Handed(w)' = Handed(w) \cup {i}
            /\ seen'[w] = Remember(seen[w], i)
  PROVE  Held(w, top)'
<1>1. PICK s, r, H, K : s = seen[w] /\ r = seen'[w] /\ H = Known(w) /\ K = Known(w)'
  OBVIOUS
<1>2. PICK L, M : L = Left(w) /\ M = Left(w)'
  OBVIOUS
<1>3. /\ H \cup L = 1..top /\ top <= listed[w]
      /\ Ordered(s) /\ ToSet(s) \subseteq H
      /\ \A x \in L \ ToSet(s) : x \notin H /\ Latest(s, x)
      /\ warmed[w] => \A x \in H : x > top - PageSize => x \in ToSet(s)
      /\ Handed(w) \cap skipped[w] = {}
  BY <1>1, <1>2 DEF Held
<1>4. i \in L /\ (\A x : x \in L <=> x = i \/ x \in M) /\ \A x \in M : Before(i, x)
  BY <1>2
<1>5. CASE i \in ToSet(s)
  <2>1. K = H /\ r = s /\ Handed(w)' = Handed(w)
    BY <1>1, <1>5 DEF Known
  <2>2. K \cup M = 1..top
    BY <1>3, <1>4, <1>5, <2>1
  <2>3. \A x \in M \ ToSet(r) : x \notin K /\ Latest(r, x)
    BY <1>3, <1>4, <2>1
  <2> QED  BY <1>1, <1>2, <1>3, <2>1, <2>2, <2>3 DEF Held
<1>6. CASE i \notin ToSet(s)
  <2>1. r = Remember(s, i) /\ Handed(w)' = Handed(w) \cup {i} /\ K = H \cup {i}
    BY <1>1, <1>6 DEF Known
  <2>2. i \notin H /\ Latest(s, i)
    BY <1>3, <1>4, <1>6
  <2>3. /\ Ordered(r) /\ i \in ToSet(r) /\ ToSet(r) \subseteq ToSet(s) \cup {i}
    BY ONLY <1>3, <1>6, <2>1, <2>2, i \in Nat, RememberFacts
  <2>4. ToSet(s) \cup {i} \subseteq 1..top
    BY <1>3, <1>4
  <2>5. \A x \in ToSet(s) : x > top - PageSize \/ Second(i) <= Second(x) => x \in ToSet(r)
    BY ONLY <1>3, <1>6, <2>1, <2>2, <2>4, i \in Nat, top \in Nat, NotForgotten
  <2>6. K \cup M = 1..top
    BY <1>3, <1>4, <2>1
  <2>7. ASSUME NEW x \in M, x \notin ToSet(r) PROVE x \notin K /\ Latest(r, x)
    <3>1. Before(i, x) /\ x \in L /\ x \in Nat
      BY <1>3, <1>4, <2>7
    <3>2. Second(i) <= Second(x)
      BY <3>1, BeforeOrders
    <3>3. x \notin ToSet(s)
      BY <2>5, <2>7, <3>2
    <3>4. x \notin H /\ Latest(s, x) /\ x # i
      BY <1>3, <2>3, <2>7, <3>1, <3>3
    <3>5. Latest(r, x)
      BY <2>3, <3>2, <3>4 DEF Latest
    <3> QED  BY <2>1, <3>4, <3>5
  <2>8. warmed[w] => \A x \in K : x > top - PageSize => x \in ToSet(r)
    BY <1>3, <2>1, <2>3, <2>5
  <2>9. ToSet(r) \subseteq K /\ Handed(w)' \cap skipped[w] = {}
    <3>1. i \notin skipped[w]
      BY <1>1, <2>2 DEF Known
    <3> QED  BY <1>3, <2>1, <2>3, <3>1
  <2> QED  BY <1>1, <1>2, <1>3, <2>3, <2>6, <2>7, <2>8, <2>9 DEF Held
<1> QED
  BY <1>5, <1>6

-----------------------------------------------------------------------------
(* The steps that change no memory and no batch.                            *)
LEMMA QuietStep ==
  ASSUME WatchInv, UNCHANGED <<batch, warmed, seen, skipped>>,
         listed' \in [WalletSet -> Nat], \A w \in WalletSet : listed[w] <= listed'[w],
         page' \in Nat,
         watch' \in [running : BOOLEAN, polling : BOOLEAN, connected : BOOLEAN, healthy : BOOLEAN],
         (page' = 0 /\ collected' = {}) \/ UNCHANGED <<page, collected, todo>>,
         ~watch'.polling => todo' = <<>>,
         todo' = <<>> => page' = 0 /\ collected' = {},
         outbox' \in Seq(Message), inbox' \in Seq(Message),
         observed' \in [WalletSet -> Seq(Nat)], Distinct(observed', Line'),
         \A w \in WalletSet : Handed(w)' = Handed(w)
  PROVE  WatchInv'
<1>1. Types'
  BY DEF WatchInv, Types
<1>2. InTurn'
  BY DEF WatchInv, InTurn
<1>3. ASSUME NEW w \in WalletSet PROVE WalletInv(w)'
  <2>1. Left(w)' = Left(w)
    BY DEF Left
  <2>2. listed'[w] \in Nat
    OBVIOUS
  <2> QED  BY <2>1, <2>2, Untouched
<1> QED
  BY <1>1, <1>2, <1>3 DEF WatchInv

LEMMA TradesKeeps ==
  ASSUME WatchInv, NEW w \in WalletSet, Trades(w)
  PROVE  WatchInv'
<1>1. /\ listed' = [listed EXCEPT ![w] = listed[w] + 1]
      /\ UNCHANGED <<watch, todo, page, collected, batch, warmed, seen, skipped, outbox, inbox, observed>>
  BY DEF Trades, taskVars
<1>2. Types /\ InTurn
  BY DEF WatchInv
<1>3. /\ listed' \in [WalletSet -> Nat] /\ \A v \in WalletSet : listed[v] <= listed'[v]
  BY <1>1, <1>2 DEF Types
<1>4. /\ outbox' \in Seq(Message) /\ inbox' \in Seq(Message)
      /\ observed' \in [WalletSet -> Seq(Nat)] /\ Distinct(observed', Line')
      /\ \A v \in WalletSet : Handed(v)' = Handed(v)
  BY <1>1, Passes
<1>5. /\ page' \in Nat
      /\ watch' \in [running : BOOLEAN, polling : BOOLEAN, connected : BOOLEAN, healthy : BOOLEAN]
  BY <1>1, <1>2 DEF Types
<1>6. /\ ~watch'.polling => todo' = <<>>
      /\ todo' = <<>> => page' = 0 /\ collected' = {}
  BY <1>1, <1>2 DEF InTurn
<1> QED
  BY <1>1, <1>3, <1>4, <1>5, <1>6, QuietStep

LEMMA CycleKeeps ==
  ASSUME WatchInv, StartCycle \/ EndCycle
  PROVE  WatchInv'
<1>1. UNCHANGED <<listed, page, collected, batch, warmed, seen, skipped, inbox, observed>>
  BY DEF StartCycle, EndCycle, taskVars
<1>2. Types /\ InTurn
  BY DEF WatchInv
<1>3. /\ listed' \in [WalletSet -> Nat] /\ \A v \in WalletSet : listed[v] <= listed'[v]
      /\ page' \in Nat
  BY <1>1, <1>2 DEF Types
<1>4. /\ outbox' \in Seq(Message) /\ inbox' \in Seq(Message)
      /\ observed' \in [WalletSet -> Seq(Nat)] /\ Distinct(observed', Line')
      /\ \A v \in WalletSet : Handed(v)' = Handed(v)
  <2>1. CASE outbox' = outbox
    BY <1>1, <2>1, Passes
  <2>2. CASE outbox' # outbox
    <3>1. outbox = <<>> /\ outbox' = <<Msg("connected")>>
      BY <2>2 DEF StartCycle, EndCycle, Idle
    <3> QED  BY <1>1, <3>1, Notices
  <2> QED  BY <2>1, <2>2
<1>5. watch' \in [running : BOOLEAN, polling : BOOLEAN, connected : BOOLEAN, healthy : BOOLEAN]
  BY <1>2 DEF Types, StartCycle, EndCycle
<1>6. page' = 0 /\ collected' = {} /\ (~watch'.polling => todo' = <<>>)
  <2>1. CASE StartCycle
    <3>1. ~watch.polling /\ watch' = [watch EXCEPT !.polling = TRUE, !.healthy = TRUE]
      BY <2>1 DEF StartCycle
    <3>2. watch'.polling = TRUE
      BY <1>2, <3>1 DEF Types
    <3> QED  BY <1>1, <1>2, <3>1, <3>2 DEF InTurn
  <2>2. CASE EndCycle
    <3>1. todo = <<>> /\ todo' = todo
      BY <2>2 DEF EndCycle, taskVars
    <3> QED  BY <1>1, <1>2, <3>1 DEF InTurn
  <2> QED  BY <2>1, <2>2
<1> QED
  BY <1>1, <1>3, <1>4, <1>5, <1>6, QuietStep

LEMMA FetchFailsKeeps ==
  ASSUME WatchInv, NEW w \in WalletSet, FetchFails(w)
  PROVE  WatchInv'
<1>1. /\ UNCHANGED <<listed, batch, warmed, seen, skipped, inbox, observed>>
      /\ outbox = <<>> /\ outbox' = <<Msg("disconnected")>>
      /\ watch' = [watch EXCEPT !.healthy = FALSE, !.connected = FALSE]
      /\ todo # <<>> /\ page' = 0 /\ collected' = {} /\ todo' = Tail(todo)
  BY DEF FetchFails, Ready, Idle, MarkDisconnected, NextWallet
<1>2. Types /\ InTurn
  BY DEF WatchInv
<1>3. /\ listed' \in [WalletSet -> Nat] /\ \A v \in WalletSet : listed[v] <= listed'[v]
      /\ page' \in Nat
  BY <1>1, <1>2 DEF Types
<1>4. /\ outbox' \in Seq(Message) /\ inbox' \in Seq(Message)
      /\ observed' \in [WalletSet -> Seq(Nat)] /\ Distinct(observed', Line')
      /\ \A v \in WalletSet : Handed(v)' = Handed(v)
  BY <1>1, Notices
<1>5. /\ watch' \in [running : BOOLEAN, polling : BOOLEAN, connected : BOOLEAN, healthy : BOOLEAN]
      /\ watch'.polling = watch.polling /\ watch.polling
  BY <1>1, <1>2 DEF Types, InTurn
<1> QED
  BY <1>1, <1>3, <1>4, <1>5, QuietStep

LEMMA PassingKeeps ==
  ASSUME WatchInv, SendToLoop \/ HandleWalletMessage
  PROVE  WatchInv'
<1>1. UNCHANGED <<listed, watch, todo, page, collected, batch, warmed, seen, skipped>>
  BY DEF SendToLoop, HandleWalletMessage, taskVars
<1>2. Types /\ InTurn
  BY DEF WatchInv
<1>3. /\ listed' \in [WalletSet -> Nat] /\ \A v \in WalletSet : listed[v] <= listed'[v]
      /\ page' \in Nat
      /\ watch' \in [running : BOOLEAN, polling : BOOLEAN, connected : BOOLEAN, healthy : BOOLEAN]
  BY <1>1, <1>2 DEF Types
<1>4. /\ outbox' \in Seq(Message) /\ inbox' \in Seq(Message)
      /\ observed' \in [WalletSet -> Seq(Nat)] /\ Distinct(observed', Line')
      /\ \A v \in WalletSet : Handed(v)' = Handed(v)
  BY Passes
<1>5. /\ ~watch'.polling => todo' = <<>>
      /\ todo' = <<>> => page' = 0 /\ collected' = {}
  BY <1>1, <1>2 DEF InTurn
<1> QED
  BY <1>1, <1>3, <1>4, <1>5, QuietStep

LEMMA FetchesKeep ==
  ASSUME WatchInv, NEW w \in WalletSet, Fetches(w)
  PROVE  WatchInv'
<1>1. /\ outbox = <<>> /\ batch = <<>> /\ todo # <<>> /\ w = Head(todo)
      /\ UNCHANGED <<listed, inbox, observed>>
  BY DEF Fetches, Warm, FetchMore, Window, Gap, Ready, Idle
<1>2. Types /\ InTurn
  BY DEF WatchInv
<1>3. /\ outbox' \in Seq(Message) /\ inbox' \in Seq(Message)
      /\ observed' \in [WalletSet -> Seq(Nat)] /\ Distinct(observed', Line')
      /\ \A v \in WalletSet : Handed(v)' = Handed(v)
  <2>1. CASE Warm(w)
    <3>1. outbox' = <<Msg("warmed")>>
      BY <2>1 DEF Warm
    <3> QED  BY <1>1, <3>1, Notices
  <2>2. CASE Gap(w)
    <3>1. outbox' = <<Msg("disconnected")>>
      BY <2>2 DEF Gap, MarkDisconnected
    <3> QED  BY <1>1, <3>1, Notices
  <2>3. CASE FetchMore(w) \/ Window(w)
    <3>1. outbox' = outbox
      BY <2>3 DEF FetchMore, Window
    <3> QED  BY <1>1, <3>1, Passes
  <2> QED  BY <2>1, <2>2, <2>3 DEF Fetches
<1>4. listed' \in [WalletSet -> Nat] /\ watch.polling
  BY <1>1, <1>2 DEF Types, InTurn
<1>5. CASE FetchMore(w)
  <2>1. /\ page' = page + 1 /\ UNCHANGED <<watch, todo, batch, warmed, seen, skipped>>
    BY <1>5 DEF FetchMore
  <2>2. Types'
    BY <1>2, <1>3, <1>4, <2>1 DEF Types
  <2>3. InTurn'
    BY <1>1, <1>2, <2>1 DEF InTurn
  <2>4. \A v \in WalletSet : Left(v)' = Left(v)
    BY <2>1 DEF Left
  <2>5. WalletInv(w)'
    BY <1>3, <1>5, <2>4, FetchMoreReaches
  <2>6. ASSUME NEW v \in WalletSet, v # w PROVE WalletInv(v)'
    <3>1. listed'[v] \in Nat /\ listed[v] <= listed'[v]
      BY <1>1, <1>2 DEF Types
    <3> QED  BY <1>1, <1>3, <2>1, <2>4, <2>6, <3>1, Untouched
  <2> QED  BY <1>3, <2>2, <2>3, <2>5, <2>6 DEF WatchInv
<1>6. CASE Window(w)
  <2>1. /\ page' = 0 /\ UNCHANGED <<watch, warmed, seen, skipped>>
    BY <1>6 DEF Window, NextWallet
  <2>2. batch' \in Seq(WalletSet \X Nat) /\ InTurn' /\ \A v \in WalletSet : WalletInv(v)'
    BY <1>3, <1>6, WindowHolds
  <2>3. Types'
    BY <1>2, <1>3, <1>4, <2>1, <2>2 DEF Types
  <2> QED  BY <1>3, <2>2, <2>3 DEF WatchInv
<1>7. CASE Warm(w)
  <2>1. /\ page' = 0 /\ collected' = {} /\ UNCHANGED <<watch, batch>>
    BY <1>7 DEF Warm, NextWallet
  <2>2. /\ warmed' \in [WalletSet -> BOOLEAN] /\ seen' \in [WalletSet -> Seq(Nat)]
        /\ skipped' \in [WalletSet -> SUBSET Nat] /\ \A v \in WalletSet : WalletInv(v)'
    BY <1>3, <1>7, WarmHolds
  <2>3. Types'
    BY <1>2, <1>3, <1>4, <2>1, <2>2 DEF Types
  <2>4. InTurn'
    BY <1>1, <1>4, <2>1 DEF InTurn
  <2> QED  BY <1>3, <2>2, <2>3, <2>4 DEF WatchInv
<1>8. CASE Gap(w)
  <2>1. /\ page' = 0 /\ collected' = {} /\ UNCHANGED <<batch, skipped>>
        /\ watch' = [watch EXCEPT !.healthy = FALSE, !.connected = FALSE]
    BY <1>8 DEF Gap, NextWallet, MarkDisconnected
  <2>2. /\ warmed' \in [WalletSet -> BOOLEAN] /\ seen' \in [WalletSet -> Seq(Nat)]
        /\ \A v \in WalletSet : WalletInv(v)'
    BY <1>3, <1>8, GapHolds
  <2>3. /\ watch' \in [running : BOOLEAN, polling : BOOLEAN, connected : BOOLEAN, healthy : BOOLEAN]
        /\ watch'.polling = watch.polling
    BY <1>2, <2>1 DEF Types
  <2>4. Types'
    BY <1>2, <1>3, <1>4, <2>1, <2>2, <2>3 DEF Types
  <2>5. InTurn'
    BY <1>1, <1>4, <2>1, <2>3 DEF InTurn
  <2> QED  BY <1>3, <2>2, <2>4, <2>5 DEF WatchInv
<1> QED
  BY <1>5, <1>6, <1>7, <1>8 DEF Fetches

LEMMA ReportKeeps ==
  ASSUME WatchInv, Report
  PROVE  WatchInv'
<1>1. PICK w, i : w = Head(batch)[1] /\ i = Head(batch)[2]
  OBVIOUS
<1>2. /\ outbox = <<>> /\ batch # <<>>
      /\ UNCHANGED <<listed, todo, page, collected, warmed, skipped, inbox, observed>>
  BY DEF Report
<1>3. Types /\ InTurn
  BY DEF WatchInv
<1>4. /\ listed' \in [WalletSet -> Nat] /\ page' \in Nat
      /\ \A v \in WalletSet : listed'[v] \in Nat /\ listed[v] <= listed'[v]
  BY <1>2, <1>3 DEF Types
<1>5. CASE /\ batch' = batch /\ seen' = seen /\ watch' = [watch EXCEPT !.running = FALSE]
           /\ outbox' = <<Msg("disconnected")>>
  <2>1. /\ outbox' \in Seq(Message) /\ inbox' \in Seq(Message)
        /\ observed' \in [WalletSet -> Seq(Nat)] /\ Distinct(observed', Line')
        /\ \A v \in WalletSet : Handed(v)' = Handed(v)
    BY <1>2, <1>5, Notices
  <2>2. /\ watch' \in [running : BOOLEAN, polling : BOOLEAN, connected : BOOLEAN, healthy : BOOLEAN]
        /\ watch'.polling = watch.polling
    BY <1>3, <1>5 DEF Types
  <2>3. /\ ~watch'.polling => todo' = <<>>
        /\ todo' = <<>> => page' = 0 /\ collected' = {}
    BY <1>2, <1>3, <2>2 DEF InTurn
  <2> QED  BY <1>2, <1>4, <1>5, <2>1, <2>2, <2>3, QuietStep
<1>6. CASE /\ batch' = Tail(batch) /\ UNCHANGED watch
           /\ \/ i \in ToSet(seen[w]) /\ UNCHANGED <<seen, outbox>>
              \/ /\ i \notin ToSet(seen[w]) /\ seen' = [seen EXCEPT ![w] = Remember(seen[w], i)]
                 /\ outbox' = <<[type |-> "trade", trade |-> <<w, i>>]>>
  <2>1. /\ w \in WalletSet /\ i \in Nat /\ batch' \in Seq(WalletSet \X Nat)
        /\ i \in Left(w) /\ \A x : x \in Left(w) <=> x = i \/ x \in Left(w)'
    BY <1>1, <1>2, <1>3, <1>6, FirstOfBatch
  <2>2. /\ \A x \in Left(w)' : Before(i, x)
        /\ \A v \in WalletSet : v # w => Left(v)' = Left(v)
        /\ \A k, l \in 1..Len(batch') :
              batch'[k][1] = batch'[l][1] /\ (k < l => Before(batch'[k][2], batch'[l][2]))
    BY <1>1, <1>2, <1>3, <1>6, FirstOfBatch
  <2>3. PICK top \in Nat : Held(w, top)
    BY <2>1 DEF WatchInv, WalletInv
  <2>4. /\ outbox' \in Seq(Message) /\ inbox' \in Seq(Message)
        /\ observed' \in [WalletSet -> Seq(Nat)] /\ Distinct(observed', Line')
        /\ \A v \in WalletSet : v # w => Handed(v)' = Handed(v)
        /\ \/ i \in ToSet(seen[w]) /\ Handed(w)' = Handed(w) /\ seen' = seen
           \/ /\ i \notin ToSet(seen[w]) /\ Handed(w)' = Handed(w) \cup {i}
              /\ seen' = [seen EXCEPT ![w] = Remember(seen[w], i)]
    <3>1. CASE i \in ToSet(seen[w]) /\ UNCHANGED <<seen, outbox>>
      BY <1>2, <2>1, <3>1, Passes
    <3>2. CASE /\ i \notin ToSet(seen[w]) /\ seen' = [seen EXCEPT ![w] = Remember(seen[w], i)]
               /\ outbox' = <<[type |-> "trade", trade |-> <<w, i>>]>>
      <4>1. PICK m : m = [type |-> "trade", trade |-> <<w, i>>]
        OBVIOUS
      <4>2. m \in Message /\ \A v, x : Carries(m, v, x) <=> v = w /\ x = i
        <5>1. m.type = "trade" /\ m.trade = <<w, i>>
          BY <4>1
        <5>2. \A v, x : Carries(m, v, x) <=> v = w /\ x = i
          BY <5>1 DEF Carries
        <5> QED  BY <2>1, <4>1, <5>2 DEF Message
      <4>3. i \notin Handed(w)
        <5>1. i \notin Known(w)
          BY <2>1, <2>3, <3>2 DEF Held
        <5> QED  BY <5>1 DEF Known
      <4>4. \A v \in WalletSet : \A x \in Nat : Carries(m, v, x) => x \notin Handed(v)
        BY <4>2, <4>3
      <4>5. /\ outbox' \in Seq(Message) /\ inbox' \in Seq(Message)
            /\ observed' \in [WalletSet -> Seq(Nat)] /\ Distinct(observed', Line')
            /\ \A v \in WalletSet : Handed(v)' = Handed(v) \cup Carried(m, v)
        BY <1>2, <3>2, <4>1, <4>2, <4>4, Posts
      <4>6. Carried(m, w) = {i} /\ \A v \in WalletSet : v # w => Carried(m, v) = {}
        BY <2>1, <4>2 DEF Carried
      <4> QED  BY <2>1, <3>2, <4>5, <4>6
    <3> QED  BY <1>6, <3>1, <3>2
  <2>5. /\ seen' \in [WalletSet -> Seq(Nat)]
        /\ \A v \in WalletSet : v # w => seen'[v] = seen[v]
        /\ i \in ToSet(seen[w]) \/ seen'[w] = Remember(seen[w], i)
    <3>1. i \notin ToSet(seen[w]) => Remember(seen[w], i) \in Seq(Nat)
      <4> SUFFICES ASSUME i \notin ToSet(seen[w]) PROVE Remember(seen[w], i) \in Seq(Nat)
        OBVIOUS
      <4>1. PICK s, r : s = seen[w] /\ r = Remember(s, i)
        OBVIOUS
      <4>2. Ordered(s) /\ Latest(s, i)
        BY <2>1, <2>3, <4>1 DEF Held
      <4>3. Ordered(r)
        BY <2>1, <4>1, <4>2, RememberFacts
      <4> QED  BY <4>1, <4>3 DEF Ordered
    <3> QED  BY <1>3, <2>1, <2>4, <3>1 DEF Types
  <2>6. Held(w, top)'
    <3>1. \/ i \in ToSet(seen[w]) /\ Handed(w)' = Handed(w) /\ seen'[w] = seen[w]
          \/ /\ i \notin ToSet(seen[w]) /\ Handed(w)' = Handed(w) \cup {i}
             /\ seen'[w] = Remember(seen[w], i)
      BY <2>4, <2>5
    <3> QED  BY <1>2, <2>1, <2>2, <2>3, <3>1, ReportHolds
  <2>7. page' = 0 /\ collected' = {}
    BY <1>2, <1>3 DEF InTurn
  <2>8. WalletInv(w)'
    <3>1. top <= listed'[w] /\ listed'[w] \in Nat
      BY <1>4, <2>1, <2>6 DEF Held
    <3>2. Reaching(listed'[w], 0, {}, top)
      BY <3>1, NothingRead
    <3>3. Reaches(w, top)'
      BY <2>7, <3>2 DEF Reaches
    <3> QED  BY <2>6, <3>3 DEF WalletInv
  <2>9. ASSUME NEW v \in WalletSet, v # w PROVE WalletInv(v)'
    BY <1>2, <1>4, <2>2, <2>4, <2>5, <2>7, <2>9, Untouched
  <2>10. Types'
    BY <1>2, <1>3, <1>4, <1>6, <2>1, <2>4, <2>5 DEF Types
  <2>11. InTurn'
    BY <1>2, <1>3, <1>6, <2>2, <2>7 DEF InTurn
  <2> QED  BY <2>4, <2>8, <2>9, <2>10, <2>11 DEF WatchInv
<1> QED
  BY <1>1, <1>5, <1>6 DEF Report

-----------------------------------------------------------------------------
LEMMA WatchStarts ==
  ASSUME WatchInit
  PROVE  WatchInv
<1>1. /\ listed \in [WalletSet -> 0..1] /\ batch = <<>> /\ page = 0 /\ collected = {} /\ todo = <<>>
      /\ watch = [running |-> TRUE, polling |-> FALSE, connected |-> FALSE, healthy |-> TRUE]
      /\ warmed = [w \in WalletSet |-> FALSE] /\ seen = [w \in WalletSet |-> <<>>]
      /\ observed = [w \in WalletSet |-> <<>>] /\ skipped = [w \in WalletSet |-> {}]
      /\ outbox = <<>> /\ inbox = <<>>
  BY DEF WatchInit
<1>2. Types
  <2>1. listed \in [WalletSet -> Nat]
    BY <1>1
  <2>2. batch \in Seq(WalletSet \X Nat) /\ inbox \in Seq(Message) /\ outbox \in Seq(Message)
    BY <1>1
  <2> QED  BY <1>1, <2>1, <2>2 DEF Types
<1>3. InTurn
  BY <1>1 DEF InTurn
<1>4. Line = <<>> /\ \A w \in WalletSet : Handed(w) = {}
  <2>1. Line = <<>>
    BY <1>1 DEF Line
  <2>2. ASSUME NEW w \in WalletSet PROVE Handed(w) = {}
    <3>1. Handed(w) = HandedOver(observed, Line, w)
      BY <1>2, LineFacts
    <3>2. Len(Line) = 0 /\ ToSet(observed[w]) = {}
      BY <1>1, <2>1 DEF ToSet
    <3> QED  BY <3>1, <3>2 DEF HandedOver
  <2> QED  BY <2>1, <2>2
<1>5. Distinct(observed, Line)
  <2>1. Len(Line) = 0 /\ \A w \in WalletSet : Len(observed[w]) = 0
    BY <1>1, <1>4
  <2> QED  BY <2>1 DEF Distinct
<1>6. ASSUME NEW w \in WalletSet PROVE WalletInv(w)
  <2>1. listed[w] \in Nat
    BY <1>1
  <2>2. Known(w) = {} /\ Left(w) = {}
    BY <1>1, <1>4 DEF Known, Left
  <2>3. seen[w] = <<>> /\ Ordered(<<>>) /\ ToSet(<<>>) = {}
    BY <1>1, WatchAssumption DEF Ordered, ToSet
  <2>4. 1..0 = {} /\ 0 <= listed[w]
    BY <2>1
  <2>5. Held(w, 0)
    BY <1>4, <2>2, <2>3, <2>4 DEF Held
  <2> QED  BY <1>1, <2>5 DEF WalletInv
<1> QED
  BY <1>2, <1>3, <1>5, <1>6 DEF WatchInv

LEMMA WatchGoesOn ==
  ASSUME WatchInv, [WatchNext]_watchVars
  PROVE  WatchInv'
<1>1. ASSUME NEW w \in WalletSet, Trades(w) \/ FetchFails(w) \/ Fetches(w) PROVE WatchInv'
  BY <1>1, TradesKeeps, FetchFailsKeeps, FetchesKeep
<1>2. CASE StartCycle \/ EndCycle
  BY <1>2, CycleKeeps
<1>3. CASE Report
  BY <1>3, ReportKeeps
<1>4. CASE SendToLoop \/ HandleWalletMessage
  BY <1>4, PassingKeeps
<1>5. CASE UNCHANGED watchVars
  <2>1. UNCHANGED <<listed, watch, todo, page, collected, batch, warmed, seen, skipped, outbox, inbox,
                    observed>>
    BY <1>5 DEF watchVars, taskVars
  <2>2. Types /\ InTurn
    BY DEF WatchInv
  <2>3. /\ listed' \in [WalletSet -> Nat] /\ \A v \in WalletSet : listed[v] <= listed'[v]
        /\ page' \in Nat
        /\ watch' \in [running : BOOLEAN, polling : BOOLEAN, connected : BOOLEAN, healthy : BOOLEAN]
    BY <2>1, <2>2 DEF Types
  <2>4. /\ outbox' \in Seq(Message) /\ inbox' \in Seq(Message)
        /\ observed' \in [WalletSet -> Seq(Nat)] /\ Distinct(observed', Line')
        /\ \A v \in WalletSet : Handed(v)' = Handed(v)
    BY <2>1, Passes
  <2>5. /\ ~watch'.polling => todo' = <<>>
        /\ todo' = <<>> => page' = 0 /\ collected' = {}
    BY <2>1, <2>2 DEF InTurn
  <2> QED  BY <2>1, <2>3, <2>4, <2>5, QuietStep
<1> QED
  BY <1>1, <1>2, <1>3, <1>4, <1>5 DEF WatchNext, Fetches

-----------------------------------------------------------------------------
(* A trade reaches the loop once at most, and never one that a warm-up has  *)
(* passed over: whatever the pages shift by and the memory forgets.         *)
THEOREM Once == WatchSpec => []NeverReplays
<1>1. WatchInit => WatchInv
  BY WatchStarts
<1>2. WatchInv /\ [WatchNext]_watchVars => WatchInv'
  BY WatchGoesOn
<1>3. WatchInv => NeverReplays
  <2> SUFFICES ASSUME WatchInv, NEW w \in WalletSet
               PROVE  IsInjective(observed[w]) /\ ToSet(observed[w]) \cap skipped[w] = {}
    BY DEF NeverReplays
  <2>1. PICK s : s = observed[w]
    OBVIOUS
  <2>2. s \in Seq(Nat)
    BY <2>1 DEF WatchInv, Types
  <2>3. PICK n \in Nat : n = Len(s)
    BY ONLY <2>2, LenProperties
  <2>4. \A p, q \in 1..n : p < q => s[p] # s[q]
    BY <2>1, <2>3 DEF WatchInv, Distinct
  <2>5. DOMAIN s = 1..n
    BY ONLY <2>2, <2>3, LenProperties
  <2>6. IsInjective(s)
    <3>1. \A p, q \in 1..n : s[p] = s[q] => p = q
      <4> SUFFICES ASSUME NEW p \in 1..n, NEW q \in 1..n, s[p] = s[q] PROVE p = q
        OBVIOUS
      <4>1. ~(p < q) /\ ~(q < p)
        BY <2>4
      <4> QED  BY <4>1
    <3> QED  BY <2>5, <3>1 DEF IsInjective
  <2>7. ToSet(observed[w]) \subseteq Handed(w)
    BY DEF Handed
  <2>8. Handed(w) \cap skipped[w] = {}
    BY DEF WatchInv, WalletInv, Held
  <2> QED  BY <2>1, <2>6, <2>7, <2>8
<1> QED
  BY <1>1, <1>2, <1>3, PTL DEF WatchSpec

(* The trades handed over or passed over have no hole between two batches:  *)
(* a window that misses a trade is never taken for complete.                *)
THEOREM NoHole == WatchSpec => []NoneMissed
<1>1. WatchInit => WatchInv
  BY WatchStarts
<1>2. WatchInv /\ [WatchNext]_watchVars => WatchInv'
  BY WatchGoesOn
<1>3. WatchInv => NoneMissed
  <2> SUFFICES ASSUME WatchInv, batch = <<>>, NEW w \in WalletSet
               PROVE  Known(w) = 1..Cardinality(Known(w))
    BY DEF NoneMissed, Known
  <2>1. PICK top \in Nat : Known(w) \cup Left(w) = 1..top
    BY DEF WatchInv, WalletInv, Held
  <2>2. Left(w) = {}
    BY DEF Left
  <2>3. Cardinality(1..top) = top
    BY UpTo
  <2> QED  BY <2>1, <2>2, <2>3
<1> QED
  BY <1>1, <1>2, <1>3, PTL DEF WatchSpec
=============================================================================
