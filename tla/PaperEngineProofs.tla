-------------------------- MODULE PaperEngineProofs ---------------------------
(***************************************************************************)
(* Proofs about PaperEngine for any assets, orders, books, trades and      *)
(* rates: whatever the simulation fills, in whatever order, positions,     *)
(* orders, liquidity and reported profit stay in step, and what open buys  *)
(* reserve exceeds the cash by no more than rounding in parts makes of it. *)
(***************************************************************************)
EXTENDS PaperEngine, SumTheorems

-----------------------------------------------------------------------------
(* The fold of Carried, one fill at a time: there is exactly one function   *)
(* that gives what has been done after the first fills of each set.         *)
Filler(fills, x, f) == Fill(f, fills[x].asset, fills[x].side, fills[x].quantity, fills[x].price)
NextDone(e, fills, g, s) ==
  IF s = {} THEN {e}
  ELSE LET x == Last(fills, s) IN UNION {Filler(fills, x, f) : f \in g[s \ {x}]}
Doing(g, e, fills, S) == g = [s \in SUBSET S |-> NextDone(e, fills, g, s)]
DoneAfter(e, fills, S) == (CHOOSE g : Doing(g, e, fills, S))[S]

Turns(fills, S) == \A x \in S : fills[x].turn \in Int

LEMMA LastIsOne ==
  ASSUME NEW S, IsFiniteSet(S), S # {}, NEW fills, Turns(fills, S)
  PROVE  Last(fills, S) \in S
<1> DEFINE f == [x \in S |-> fills[x].turn]
<1>1. \E x \in S : \A y \in S : f[y] <= f[x]
  BY LargestElement DEF Turns
<1>2. \E x \in S : \A y \in S : fills[y].turn <= fills[x].turn
  BY <1>1
<1> QED
  BY <1>2 DEF Last

LEMMA NextDoneFrom ==
  ASSUME NEW e, NEW fills, NEW g, NEW h, NEW s, IsFiniteSet(s), Turns(fills, s),
         \A t : Part(t, s) => g[t] = h[t]
  PROVE  NextDone(e, fills, g, s) = NextDone(e, fills, h, s)
<1>1. CASE s = {}
  BY <1>1 DEF NextDone
<1>2. CASE s # {}
  <2> DEFINE x == Last(fills, s)
  <2>1. x \in s
    BY <1>2, LastIsOne
  <2> HIDE DEF x
  <2>2. g[s \ {x}] = h[s \ {x}]
    BY <2>1 DEF Part
  <2> QED  BY <1>2, <2>2 DEF NextDone, x
<1> QED
  BY <1>1, <1>2

LEMMA DoingRestricted ==
  ASSUME NEW e, NEW fills, NEW g, NEW S, IsFiniteSet(S), Turns(fills, S),
         Doing(g, e, fills, S), NEW T \in SUBSET S
  PROVE  Doing([s \in SUBSET T |-> g[s]], e, fills, T)
<1> DEFINE h == [s \in SUBSET T |-> g[s]]
<1>1. ASSUME NEW s \in SUBSET T PROVE h[s] = NextDone(e, fills, h, s)
  <2>0. IsFiniteSet(s) /\ Turns(fills, s)
    BY FS_Subset DEF Turns
  <2>1. \A t : Part(t, s) => g[t] = h[t]
    BY DEF Part
  <2>2. g[s] = NextDone(e, fills, g, s)
    BY DEF Doing
  <2>3. NextDone(e, fills, g, s) = NextDone(e, fills, h, s)
    BY ONLY <2>0, <2>1, NextDoneFrom
  <2> QED  BY <2>2, <2>3
<1>2. h = [s \in SUBSET T |-> NextDone(e, fills, h, s)]
  <2> HIDE DEF h
  <2>1. h = [s \in SUBSET T |-> h[s]]
    BY DEF h
  <2> QED  BY <1>1, <2>1
<1> QED
  BY <1>2 DEF Doing

LEMMA DoingUnique ==
  ASSUME NEW e, NEW fills, NEW S, IsFiniteSet(S), Turns(fills, S),
         NEW g, NEW h, Doing(g, e, fills, S), Doing(h, e, fills, S)
  PROVE  g = h
<1> DEFINE B == {s \in SUBSET S : g[s] # h[s]}
<1>1. B = {}
  <2> SUFFICES ASSUME B # {} PROVE FALSE
    OBVIOUS
  <2>1. PICK s \in B : \A t \in B : ~Part(t, s)
    BY SmallestSet
  <2>2. IsFiniteSet(s) /\ Turns(fills, s)
    BY FS_Subset DEF Turns
  <2>3. \A t : Part(t, s) => g[t] = h[t]
    BY <2>1 DEF Part
  <2>4. NextDone(e, fills, g, s) = NextDone(e, fills, h, s)
    BY ONLY <2>2, <2>3, NextDoneFrom
  <2>5. g[s] = NextDone(e, fills, g, s) /\ h[s] = NextDone(e, fills, h, s) /\ g[s] # h[s]
    BY DEF Doing
  <2> QED  BY <2>4, <2>5
<1> QED
  BY <1>1 DEF Doing

LEMMA DoingExists ==
  ASSUME NEW e, NEW fills, NEW S, IsFiniteSet(S), Turns(fills, S)
  PROVE  \E g : Doing(g, e, fills, S)
<1> DEFINE B == {s \in SUBSET S : ~\E g : Doing(g, e, fills, s)}
<1>1. B = {}
  <2> SUFFICES ASSUME B # {} PROVE FALSE
    OBVIOUS
  <2>1. PICK s \in B : \A t \in B : ~Part(t, s)
    BY SmallestSet
  <2>2. \A t \in SUBSET s : IsFiniteSet(t) /\ Turns(fills, t)
    BY FS_Subset DEF Turns
  <2> DEFINE done(t) == CHOOSE g : Doing(g, e, fills, t)
             g == [t \in SUBSET s |->
                     IF t = s THEN NextDone(e, fills, [u \in SUBSET s |-> done(u)[u]], s)
                              ELSE done(t)[t]]
  <2>3. \A t : Part(t, s) => Doing(done(t), e, fills, t)
    BY <2>1 DEF Part
  <2> HIDE DEF done
  <2>4. \A t : Part(t, s) => g[t] = done(t)[t]
    BY DEF Part
  <2>5. g[s] = NextDone(e, fills, [u \in SUBSET s |-> done(u)[u]], s)
    OBVIOUS
  <2>6. g = [t \in SUBSET s |-> g[t]]
    OBVIOUS
  <2> HIDE DEF g
  <2>7. ASSUME NEW t, Part(t, s), NEW u, Part(u, t) PROVE done(t)[u] = done(u)[u]
    <3>1. u \in SUBSET t /\ t \in SUBSET s /\ u \in SUBSET s /\ Part(u, s)
      BY <2>7 DEF Part
    <3>2. IsFiniteSet(t) /\ Turns(fills, t) /\ IsFiniteSet(u) /\ Turns(fills, u)
      BY <2>2, <3>1
    <3>3. Doing(done(t), e, fills, t) /\ Doing(done(u), e, fills, u)
      BY <2>3, <2>7, <3>1
    <3>4. Doing([v \in SUBSET u |-> done(t)[v]], e, fills, u)
      BY <3>1, <3>2, <3>3, DoingRestricted
    <3>5. [v \in SUBSET u |-> done(t)[v]] = done(u)
      BY ONLY <3>2, <3>3, <3>4, DoingUnique
    <3>6. [v \in SUBSET u |-> done(t)[v]][u] = done(u)[u]
      BY <3>5
    <3> QED  BY <3>6
  <2>8. ASSUME NEW t, Part(t, s) PROVE g[t] = NextDone(e, fills, g, t)
    <3>0. IsFiniteSet(t) /\ Turns(fills, t)
      BY <2>2, <2>8 DEF Part
    <3>1. PICK h : h = done(t)
      OBVIOUS
    <3>2. \A u : Part(u, t) => h[u] = g[u]
      BY <2>4, <2>7, <2>8, <3>1 DEF Part
    <3>3. NextDone(e, fills, h, t) = NextDone(e, fills, g, t)
      BY ONLY <3>0, <3>2, NextDoneFrom
    <3>4. h[t] = NextDone(e, fills, h, t)
      <4>1. Doing(h, e, fills, t) /\ t \in SUBSET t
        BY <2>3, <2>8, <3>1
      <4> QED  BY <4>1 DEF Doing
    <3> QED  BY <2>4, <2>8, <3>1, <3>3, <3>4
  <2>9. g[s] = NextDone(e, fills, g, s)
    <3>1. PICK h : h = [u \in SUBSET s |-> done(u)[u]]
      OBVIOUS
    <3>2. \A u : Part(u, s) => h[u] = g[u]
      BY <2>4, <3>1 DEF Part
    <3>3. NextDone(e, fills, h, s) = NextDone(e, fills, g, s)
      BY <2>2, <3>2, NextDoneFrom
    <3> QED  BY <2>5, <3>1, <3>3
  <2>10. Doing(g, e, fills, s)
    BY <2>6, <2>8, <2>9 DEF Doing, Part
  <2> QED  BY <2>1, <2>10
<1> QED
  BY <1>1

LEMMA CarriedIsDone ==
  ASSUME NEW e, NEW fills
  PROVE  Carried(e, fills) = DoneAfter(e, fills, DOMAIN fills)
BY DEF Carried, MapThenFoldSet, DoneAfter, Doing, NextDone, Filler

LEMMA NothingDone == ASSUME NEW e, NEW fills PROVE DoneAfter(e, fills, {}) = {e}
<1>1. Doing(CHOOSE g : Doing(g, e, fills, {}), e, fills, {})
  BY DoingExists, FS_EmptySet DEF Turns
<1> QED
  BY <1>1 DEF DoneAfter, Doing, NextDone

LEMMA DoneStep ==
  ASSUME NEW e, NEW fills, NEW S, IsFiniteSet(S), Turns(fills, S), S # {}
  PROVE  \E x \in S : DoneAfter(e, fills, S)
                        = UNION {Filler(fills, x, f) : f \in DoneAfter(e, fills, S \ {x})}
<1> DEFINE done(t) == CHOOSE g : Doing(g, e, fills, t)
<1>1. PICK x \in S : x = Last(fills, S)
  BY LastIsOne
<1> DEFINE T == S \ {x}
<1>2. IsFiniteSet(T) /\ Turns(fills, T) /\ T \in SUBSET S
  BY FS_Subset DEF Turns
<1>3. Doing(done(S), e, fills, S) /\ Doing(done(T), e, fills, T)
  BY <1>2, DoingExists
<1>4. DoneAfter(e, fills, S) = done(S)[S] /\ DoneAfter(e, fills, T) = done(T)[T]
  BY DEF DoneAfter
<1> HIDE DEF done, T
<1>5. Doing([s \in SUBSET T |-> done(S)[s]], e, fills, T)
  BY <1>2, <1>3, DoingRestricted
<1>6. [s \in SUBSET T |-> done(S)[s]] = done(T)
  BY ONLY <1>2, <1>3, <1>5, DoingUnique
<1>7. done(S)[T] = done(T)[T]
  <2>1. [s \in SUBSET T |-> done(S)[s]][T] = done(S)[T]
    OBVIOUS
  <2> QED  BY <1>6, <2>1
<1>8. done(S)[S] = NextDone(e, fills, done(S), S)
  BY <1>3 DEF Doing
<1>9. done(S)[S] = UNION {Filler(fills, x, f) : f \in done(S)[T]}
  BY <1>1, <1>8 DEF NextDone, T
<1> QED
  BY <1>4, <1>7, <1>9 DEF T

-----------------------------------------------------------------------------
(* Fixed-point arithmetic.                                                  *)
LEMMA Quotient ==
  ASSUME NEW n \in Nat, NEW d \in Nat \ {0}
  PROVE  /\ n \div d \in Nat
         /\ d * (n \div d) <= n /\ n < d * (n \div d) + d
OBVIOUS

LEMMA TimesNatural == ASSUME NEW x \in Nat, NEW y \in Nat PROVE x * y \in Nat /\ x * y = y * x
OBVIOUS

LEMMA TimesLeq ==
  ASSUME NEW x \in Nat, NEW y \in Nat, NEW z \in Nat, x <= y
  PROVE  z * x <= z * y
OBVIOUS

LEMMA QuotientLeq ==
  ASSUME NEW d \in Nat \ {0}, NEW n \in Nat, NEW q \in Nat, n <= d * q
  PROVE  n \div d <= q
OBVIOUS

LEMMA QuotientGeq ==
  ASSUME NEW d \in Nat \ {0}, NEW n \in Nat, NEW q \in Nat, d * q <= n
  PROVE  q <= n \div d
OBVIOUS

LEMMA MulFacts ==
  ASSUME NEW x \in Nat, NEW y \in Nat
  PROVE  /\ Mul(x, y) \in Nat /\ MulCeil(x, y) \in Nat /\ Mul(x, y) <= MulCeil(x, y)
         /\ One * Mul(x, y) <= x * y
<1>1. One \in Nat \ {0}
  BY PaperAssumption
<1>2. PICK n \in Nat : n = x * y
  BY TimesNatural
<1>3. n + One - 1 \in Nat
  BY <1>1
<1>4. /\ n \div One \in Nat /\ One * (n \div One) <= n
      /\ (n + One - 1) \div One \in Nat
  BY <1>1, <1>3, Quotient
<1>5. n \div One <= (n + One - 1) \div One
  <2>1. One * (n \div One) <= n + One - 1
    <3>1. PICK m \in Nat : m = One * (n \div One)
      BY <1>1, <1>4, TimesNatural
    <3> QED  BY <1>1, <1>4, <3>1
  <2> QED  BY <1>1, <1>3, <1>4, <2>1, QuotientGeq
<1> QED
  BY <1>2, <1>4, <1>5 DEF Mul, MulCeil

LEMMA FeeFacts == ASSUME NEW n \in Nat PROVE Fee(n) \in Nat /\ Fee(n) <= n
<1>1. One \in Nat \ {0} /\ FeeRate \in Nat /\ FeeRate <= One
  BY PaperAssumption
<1>2. Fee(n) \in Nat
  BY <1>1, MulFacts DEF Fee
<1>3. PICK r \in Nat : r = n * FeeRate
  BY <1>1, TimesNatural
<1>4. PICK k \in Nat : k = One * n
  BY <1>1, TimesNatural
<1>5. r <= k
  BY <1>1, <1>3, <1>4, TimesLeq, TimesNatural
<1>6. r + One - 1 \in Nat /\ r + One - 1 < k + One
  BY <1>1, <1>5
<1>7. PICK f \in Nat : f = (r + One - 1) \div One
  BY <1>1, <1>6, Quotient
<1>8. One * f <= r + One - 1
  BY <1>1, <1>6, <1>7, Quotient
<1>9. f <= n
  <2> SUFFICES ASSUME n + 1 <= f PROVE FALSE
    OBVIOUS
  <2>1. One * (n + 1) <= One * f
    BY <1>1, TimesLeq
  <2>2. One * (n + 1) = k + One
    BY <1>1, <1>4
  <2>3. PICK m \in Nat : m = One * f
    BY <1>1, TimesNatural
  <2> QED  BY <1>1, <1>6, <1>8, <2>1, <2>2, <2>3
<1> QED
  BY <1>2, <1>3, <1>7, <1>9 DEF Fee, MulCeil

(* The rounded-down price of a part and of the rest is no more than that of *)
(* the whole.                                                               *)
LEMMA MulOfParts ==
  ASSUME NEW x \in Nat, NEW y \in Nat, NEW z \in Nat
  PROVE  Mul(x, y) + Mul(x, z) <= Mul(x, y + z)
<1>1. One \in Nat \ {0}
  BY PaperAssumption
<1>2. PICK m \in Nat : m = Mul(x, y)
  BY MulFacts
<1>3. PICK n \in Nat : n = Mul(x, z)
  BY MulFacts
<1>4. PICK p \in Nat : p = x * y
  BY TimesNatural
<1>5. PICK q \in Nat : q = x * z
  BY TimesNatural
<1>6. One * m <= p /\ One * n <= q
  BY <1>2, <1>3, <1>4, <1>5, MulFacts
<1>7. x * (y + z) = p + q
  BY <1>4, <1>5
<1>8. One * (m + n) <= p + q
  <2>1. One * (m + n) = One * m + One * n
    BY <1>1
  <2>2. PICK i \in Nat : i = One * m
    BY <1>1, TimesNatural
  <2>3. PICK j \in Nat : j = One * n
    BY <1>1, TimesNatural
  <2> QED  BY <1>6, <2>1, <2>2, <2>3
<1>9. m + n <= (p + q) \div One
  BY <1>1, <1>8, QuotientGeq
<1> QED
  BY <1>2, <1>3, <1>7, <1>9 DEF Mul

(* A size at its average price costs no more than was paid for it. *)
LEMMA AtAverage ==
  ASSUME NEW paid \in Nat, NEW size \in Nat \ {0}
  PROVE  Div(paid, size) \in Nat /\ Mul(Div(paid, size), size) <= paid
<1>1. One \in Nat \ {0}
  BY PaperAssumption
<1>2. PICK n \in Nat : n = paid * One
  BY <1>1, TimesNatural
<1>3. PICK q \in Nat : q = n \div size
  BY <1>2, Quotient
<1>4. size * q <= n
  BY <1>3, Quotient
<1>5. PICK k \in Nat : k = q * size
  BY TimesNatural
<1>6. k <= One * paid
  <2>1. k = size * q /\ n = One * paid
    BY <1>1, <1>2, <1>5, TimesNatural
  <2> QED  BY <1>4, <2>1
<1>7. k \div One <= paid
  BY <1>1, <1>6, QuotientLeq
<1> QED
  BY <1>2, <1>3, <1>5, <1>7 DEF Div, Mul

-----------------------------------------------------------------------------
(* What every engine, in memory, in the journal or staged, fulfils.         *)
Orders == UNION {[S -> Order] : S \in SUBSET Ids}
Typed(e) ==
  e \in [cash : Nat, realized : Int, held : [Assets -> Nat], average : [Assets -> Nat],
         orders : Orders, taken : [Assets -> [buy : Nat, sell : Nat]]]

Costs(e) == [a \in Assets |-> Mul(e.average[a], e.held[a])]
Backed(e) == e.cash + SumFunctionOnSet(Costs(e), Assets) <= StartingCash + e.realized

LEMMA CostNumbers ==
  ASSUME NEW e, Typed(e)
  PROVE  /\ \A a \in Assets : Costs(e)[a] = Mul(e.average[a], e.held[a]) /\ Costs(e)[a] \in Nat
         /\ SumFunctionOnSet(Costs(e), Assets) \in Nat
<1>1. \A a \in Assets : e.average[a] \in Nat /\ e.held[a] \in Nat
  BY DEF Typed
<1>2. \A a \in Assets : Costs(e)[a] = Mul(e.average[a], e.held[a]) /\ Costs(e)[a] \in Nat
  BY <1>1, MulFacts DEF Costs
<1>3. SumFunctionOnSet(Costs(e), Assets) \in Nat
  BY <1>2, SumNonNegative, PaperAssumption
<1> QED
  BY <1>2, <1>3

(* A step that changes one position keeps the profit backed if it does so   *)
(* for cash, that position and realized profit alone.                       *)
LEMMA BackedByChange ==
  ASSUME NEW e, NEW f, Typed(e), Typed(f), Backed(e), NEW a \in Assets,
         \A b \in Assets : b # a => e.held[b] = f.held[b] /\ e.average[b] = f.average[b],
         f.cash + Costs(f)[a] - f.realized <= e.cash + Costs(e)[a] - e.realized
  PROVE  Backed(f)
<1>1. \A b \in Assets : /\ Costs(e)[b] \in Int /\ Costs(f)[b] \in Int
                        /\ b # a => Costs(e)[b] = Costs(f)[b]
  BY CostNumbers
<1>2. PICK s \in Nat : s = SumFunctionOnSet(Costs(e), Assets)
  BY CostNumbers
<1>3. PICK t \in Nat : t = SumFunctionOnSet(Costs(f), Assets)
  BY CostNumbers
<1>4. SumFunctionOnSet(Costs(f), Assets)
        = (SumFunctionOnSet(Costs(e), Assets) - Costs(e)[a]) + Costs(f)[a]
  BY <1>1, SumChanged, PaperAssumption
<1>5. PICK c \in Nat : c = Costs(e)[a]
  BY CostNumbers
<1>6. PICK d \in Nat : d = Costs(f)[a]
  BY CostNumbers
<1>7. t = (s - c) + d
  BY <1>2, <1>3, <1>4, <1>5, <1>6
<1>8. e.cash \in Nat /\ f.cash \in Nat /\ e.realized \in Int /\ f.realized \in Int /\ StartingCash \in Nat
  BY PaperAssumption DEF Typed
<1>9. e.cash + s <= StartingCash + e.realized /\ f.cash + d - f.realized <= e.cash + c - e.realized
  BY <1>2, <1>5, <1>6 DEF Backed
<1>10. f.cash + t <= StartingCash + f.realized
  BY ONLY <1>7, <1>8, <1>9, s \in Nat, t \in Nat, c \in Nat, d \in Nat
<1> QED
  BY <1>3, <1>10 DEF Backed

-----------------------------------------------------------------------------
(* One fill.                                                                *)
Kept(e, f) == f.orders = e.orders /\ f.taken = e.taken
OnlyAt(a, e, f) == \A b \in Assets : b # a => e.held[b] = f.held[b] /\ e.average[b] = f.average[b]

LEMMA BoughtFacts ==
  ASSUME NEW e, Typed(e), NEW a \in Assets, NEW q \in Nat \ {0}, NEW p \in Nat,
         NEW n, n = MulCeil(p, q), n + Fee(n) <= e.cash,
         NEW f, f = Bought(e, a, q, p, n, Fee(n))
  PROVE  Typed(f) /\ Kept(e, f) /\ OnlyAt(a, e, f) /\ f.held[a] = e.held[a] + q
           /\ (Backed(e) => Backed(f))
<1>1. PICK h \in Nat : h = e.held[a]
  BY DEF Typed
<1>2. PICK v \in Nat : v = e.average[a]
  BY DEF Typed
<1>3. n \in Nat /\ Mul(p, q) \in Nat /\ Mul(p, q) <= n /\ Mul(v, h) \in Nat
  BY <1>1, <1>2, MulFacts
<1>4. PICK fee \in Nat : fee = Fee(n)
  BY <1>3, FeeFacts
<1>5. PICK paid \in Nat : paid = Mul(v, h) + Mul(p, q) + fee
  BY <1>3, <1>4
<1>6. PICK size \in Nat \ {0} : size = h + q
  BY <1>1
<1>7. PICK w \in Nat : w = Div(paid, size)
  BY AtAverage
<1>8. Mul(w, size) <= paid /\ Mul(w, size) \in Nat
  BY <1>7, AtAverage, MulFacts
<1>9. f = [e EXCEPT !.cash = @ - n - fee, !.held[a] = size, !.average[a] = w]
  BY <1>1, <1>2, <1>4, <1>5, <1>6, <1>7 DEF Bought
<1>10. e.cash \in Nat /\ e.cash - n - fee \in Nat /\ e.realized \in Int
  BY <1>3, <1>4 DEF Typed
<1>11. Typed(f)
  <2>1. PICK hs \in [Assets -> Nat] : hs = [e.held EXCEPT ![a] = size]
    BY DEF Typed
  <2>2. PICK vs \in [Assets -> Nat] : vs = [e.average EXCEPT ![a] = w]
    BY <1>7 DEF Typed
  <2>3. PICK c \in Nat : c = e.cash - n - fee
    BY <1>10
  <2>4. f = [e EXCEPT !.cash = c, !.held = hs, !.average = vs]
    BY <1>9, <2>1, <2>2, <2>3
  <2> QED  BY <2>4 DEF Typed
<1>12. /\ f.cash = e.cash - n - fee /\ f.held[a] = size /\ f.average[a] = w /\ f.realized = e.realized
       /\ Kept(e, f) /\ OnlyAt(a, e, f)
  BY <1>9 DEF Typed, Kept, OnlyAt
<1>13. Costs(e)[a] = Mul(v, h) /\ Costs(f)[a] = Mul(w, size)
  BY <1>1, <1>2, <1>11, <1>12, CostNumbers
<1>14. f.cash + Costs(f)[a] - f.realized <= e.cash + Costs(e)[a] - e.realized
  BY <1>3, <1>4, <1>5, <1>8, <1>10, <1>12, <1>13
<1>15. Backed(e) => Backed(f)
  BY <1>11, <1>12, <1>14, BackedByChange DEF OnlyAt
<1> QED
  BY <1>1, <1>6, <1>11, <1>12, <1>15

LEMMA SoldFacts ==
  ASSUME NEW e, Typed(e), NEW a \in Assets, NEW q \in Nat \ {0}, NEW p \in Nat,
         NEW n, n = MulCeil(p, q), q <= e.held[a],
         NEW f, f = Sold(e, a, q, n, Fee(n))
  PROVE  Typed(f) /\ Kept(e, f) /\ OnlyAt(a, e, f) /\ f.held[a] = e.held[a] - q
           /\ (Backed(e) => Backed(f))
<1>1. PICK h \in Nat : h = e.held[a]
  BY DEF Typed
<1>2. PICK v \in Nat : v = e.average[a]
  BY DEF Typed
<1>3. n \in Nat
  BY MulFacts
<1>4. PICK fee \in Nat : fee = Fee(n) /\ fee <= n
  BY <1>3, FeeFacts
<1>5. PICK proceeds \in Nat : proceeds = n - fee
  BY <1>3, <1>4
<1>6. PICK left \in Nat : left = h - q /\ left + q = h
  BY <1>1
<1>7. PICK w \in Nat : w = (IF left = 0 THEN 0 ELSE v)
  BY <1>2
<1>8. PICK gone \in Nat : gone = Mul(v, q)
  BY <1>2, MulFacts
<1>9. PICK rest \in Nat : rest = Mul(v, left)
  BY <1>2, MulFacts
<1>10. PICK was \in Nat : was = Mul(v, h)
  BY <1>1, <1>2, MulFacts
<1>11. rest + gone <= was
  BY <1>2, <1>6, <1>8, <1>9, <1>10, MulOfParts
<1>12. Mul(w, left) \in Nat /\ Mul(w, left) <= rest
  <2>1. CASE left = 0
    <3>1. One \in Nat \ {0}
      BY PaperAssumption
    <3>2. v * 0 = 0 /\ 0 * left = 0 /\ 0 \div One = 0
      BY <2>1, <3>1
    <3> QED  BY <1>7, <1>9, <2>1, <3>2 DEF Mul
  <2>2. CASE left # 0
    BY <1>7, <1>9, <2>2
  <2> QED  BY <2>1, <2>2
<1>13. f = [e EXCEPT !.cash = @ + proceeds, !.realized = @ + proceeds - gone,
                    !.held[a] = left, !.average[a] = w]
  BY <1>1, <1>2, <1>4, <1>5, <1>6, <1>7, <1>8 DEF Sold, Typed
<1>14. e.cash \in Nat /\ e.realized \in Int
  BY DEF Typed
<1>15. Typed(f)
  <2>1. PICK hs \in [Assets -> Nat] : hs = [e.held EXCEPT ![a] = left]
    BY DEF Typed
  <2>2. PICK vs \in [Assets -> Nat] : vs = [e.average EXCEPT ![a] = w]
    BY <1>7 DEF Typed
  <2>3. PICK c \in Nat : c = e.cash + proceeds
    BY <1>14
  <2>4. PICK r \in Int : r = e.realized + proceeds - gone
    BY <1>14
  <2>5. f = [e EXCEPT !.cash = c, !.realized = r, !.held = hs, !.average = vs]
    BY <1>13, <2>1, <2>2, <2>3, <2>4
  <2> QED  BY <2>5 DEF Typed
<1>16. /\ f.cash = e.cash + proceeds /\ f.held[a] = left /\ f.average[a] = w
       /\ f.realized = e.realized + proceeds - gone
       /\ Kept(e, f) /\ OnlyAt(a, e, f)
  BY <1>13 DEF Typed, Kept, OnlyAt
<1>17. Costs(e)[a] = was /\ Costs(f)[a] = Mul(w, left)
  BY <1>1, <1>2, <1>10, <1>15, <1>16, CostNumbers
<1>18. f.cash + Costs(f)[a] - f.realized <= e.cash + Costs(e)[a] - e.realized
  BY <1>11, <1>12, <1>14, <1>16, <1>17
<1>19. Backed(e) => Backed(f)
  BY <1>15, <1>16, <1>18, BackedByChange DEF OnlyAt
<1> QED
  BY <1>1, <1>6, <1>15, <1>16, <1>19

(* The fills of one plan: each for a positive quantity, in an order that    *)
(* the numbers of their turns give.                                         *)
FillsTyped(fills) ==
  /\ IsFiniteSet(DOMAIN fills)
  /\ \A x \in DOMAIN fills :
       /\ fills[x].turn \in Nat /\ fills[x].asset \in Assets /\ fills[x].side \in {"buy", "sell"}
       /\ fills[x].quantity \in Nat \ {0} /\ fills[x].price \in Nat

Sells(fills, a, S) == {x \in S : fills[x].asset = a /\ fills[x].side = "sell"}
Quantities(fills) == [x \in DOMAIN fills |-> fills[x].quantity]
SoldOf(fills, a, S) == SumFunctionOnSet(Quantities(fills), Sells(fills, a, S))

(* What has become of e when the fills of S are done. *)
Filling(e, fills, S, f) ==
  /\ Typed(f) /\ Kept(e, f) /\ (Backed(e) => Backed(f))
  /\ \A a \in Assets : f.held[a] >= e.held[a] - SoldOf(fills, a, S)

LEMMA FillFacts ==
  ASSUME NEW e, Typed(e), NEW a \in Assets, NEW side \in {"buy", "sell"},
         NEW q \in Nat \ {0}, NEW p \in Nat, NEW f \in Fill(e, a, side, q, p)
  PROVE  Typed(f) /\ Kept(e, f) /\ OnlyAt(a, e, f) /\ (Backed(e) => Backed(f))
           /\ f.held[a] = IF side = "buy" THEN e.held[a] + q ELSE e.held[a] - q
<1>1. PICK n : n = MulCeil(p, q)
  OBVIOUS
<1>2. CASE side = "buy"
  <2>1. n + Fee(n) <= e.cash /\ f = Bought(e, a, q, p, n, Fee(n))
    <3>1. n \in Nat /\ Fee(n) \in Nat /\ e.cash \in Nat
      BY <1>1, MulFacts, FeeFacts DEF Typed
    <3>2. ~(n + Fee(n) > e.cash) /\ f = Bought(e, a, q, p, n, Fee(n))
      BY <1>1, <1>2 DEF Fill
    <3> QED  BY <3>1, <3>2
  <2>2. Typed(f) /\ Kept(e, f) /\ OnlyAt(a, e, f) /\ f.held[a] = e.held[a] + q
           /\ (Backed(e) => Backed(f))
    BY ONLY <1>1, <2>1, BoughtFacts, Typed(e), a \in Assets, q \in Nat \ {0}, p \in Nat
  <2> QED  BY <1>2, <2>2
<1>3. CASE side = "sell"
  <2>1. q <= e.held[a] /\ f = Sold(e, a, q, n, Fee(n))
    <3>1. e.held[a] \in Nat
      BY DEF Typed
    <3>2. ~(q > e.held[a]) /\ f = Sold(e, a, q, n, Fee(n))
      BY <1>1, <1>3 DEF Fill
    <3> QED  BY <3>1, <3>2
  <2>2. Typed(f) /\ Kept(e, f) /\ OnlyAt(a, e, f) /\ f.held[a] = e.held[a] - q
           /\ (Backed(e) => Backed(f))
    BY ONLY <1>1, <2>1, SoldFacts, Typed(e), a \in Assets, q \in Nat \ {0}, p \in Nat
  <2> QED  BY <1>3, <2>2
<1> QED
  BY <1>2, <1>3

LEMMA SoldNumbers ==
  ASSUME NEW fills, FillsTyped(fills), NEW a, NEW S \in SUBSET DOMAIN fills
  PROVE  SoldOf(fills, a, S) \in Nat
<1>1. IsFiniteSet(Sells(fills, a, S))
  BY FS_Subset DEF Sells, FillsTyped
<1>2. \A x \in Sells(fills, a, S) : Quantities(fills)[x] \in Nat
  BY DEF Sells, FillsTyped, Quantities
<1> QED
  BY <1>1, <1>2, SumNonNegative DEF SoldOf

LEMMA SoldStep ==
  ASSUME NEW fills, FillsTyped(fills), NEW a, NEW S \in SUBSET DOMAIN fills, NEW x \in S
  PROVE  SoldOf(fills, a, S) = SoldOf(fills, a, S \ {x})
                                 + IF x \in Sells(fills, a, S) THEN fills[x].quantity ELSE 0
<1>1. IsFiniteSet(Sells(fills, a, S))
  BY FS_Subset DEF Sells, FillsTyped
<1>2. \A y \in Sells(fills, a, S) : Quantities(fills)[y] \in Int
  BY DEF Sells, FillsTyped, Quantities
<1>3. Sells(fills, a, S \ {x}) = Sells(fills, a, S) \ {x}
  BY DEF Sells
<1>4. SoldOf(fills, a, S \ {x}) \in Nat
  BY SoldNumbers
<1>5. CASE x \in Sells(fills, a, S)
  <2>1. Quantities(fills)[x] = fills[x].quantity /\ fills[x].quantity \in Nat
    BY DEF FillsTyped, Quantities
  <2>2. SumFunctionOnSet(Quantities(fills), Sells(fills, a, S))
          = Quantities(fills)[x] + SumFunctionOnSet(Quantities(fills), Sells(fills, a, S) \ {x})
    BY <1>1, <1>2, <1>5, SumWithout
  <2>3. SoldOf(fills, a, S) = fills[x].quantity + SoldOf(fills, a, S \ {x})
    BY <1>3, <2>1, <2>2 DEF SoldOf
  <2> QED  BY <1>4, <1>5, <2>1, <2>3
<1>6. CASE x \notin Sells(fills, a, S)
  <2>1. Sells(fills, a, S \ {x}) = Sells(fills, a, S)
    BY <1>3, <1>6
  <2>2. SoldOf(fills, a, S \ {x}) = SoldOf(fills, a, S)
    BY <2>1 DEF SoldOf
  <2> QED  BY <1>4, <1>6, <2>2
<1> QED
  BY <1>5, <1>6

LEMMA FillingStep ==
  ASSUME NEW e, Typed(e), NEW fills, FillsTyped(fills), NEW S \in SUBSET DOMAIN fills, NEW x \in S,
         NEW g, Filling(e, fills, S \ {x}, g), NEW f \in Filler(fills, x, g)
  PROVE  Filling(e, fills, S, f)
<1> DEFINE a == fills[x].asset
           side == fills[x].side
           q == fills[x].quantity
<1>1. a \in Assets /\ side \in {"buy", "sell"} /\ q \in Nat \ {0} /\ fills[x].price \in Nat
  BY DEF FillsTyped
<1>2. Typed(g) /\ Kept(e, g) /\ (Backed(e) => Backed(g))
  BY DEF Filling
<1>3. f \in Fill(g, a, side, q, fills[x].price)
  BY DEF Filler
<1> HIDE DEF a, side, q
<1>4. /\ Typed(f) /\ Kept(g, f) /\ OnlyAt(a, g, f) /\ (Backed(g) => Backed(f))
      /\ f.held[a] = IF side = "buy" THEN g.held[a] + q ELSE g.held[a] - q
  BY ONLY <1>1, <1>2, <1>3, FillFacts
<1>5. ASSUME NEW b \in Assets PROVE f.held[b] >= e.held[b] - SoldOf(fills, b, S)
  <2>1. PICK k \in Nat : k = e.held[b]
    BY DEF Typed
  <2>2. PICK i \in Nat : i = g.held[b]
    BY <1>2 DEF Typed
  <2>3. PICK j \in Nat : j = f.held[b]
    BY <1>4 DEF Typed
  <2>4. PICK m \in Nat : m = SoldOf(fills, b, S \ {x})
    BY SoldNumbers
  <2>5. i >= k - m
    BY <2>1, <2>2, <2>4 DEF Filling
  <2>6. PICK n \in Nat : n = IF x \in Sells(fills, b, S) THEN q ELSE 0
    BY <1>1
  <2>7. SoldOf(fills, b, S) = m + n
    <3>1. SoldOf(fills, b, S) = SoldOf(fills, b, S \ {x})
                                  + IF x \in Sells(fills, b, S) THEN fills[x].quantity ELSE 0
      BY ONLY SoldStep, FillsTyped(fills), S \in SUBSET DOMAIN fills, x \in S
    <3> QED  BY <2>4, <2>6, <3>1 DEF q
  <2>8. j >= i - n
    <3>1. CASE b # a
      <4>1. j = i
        BY <1>4, <2>2, <2>3, <3>1 DEF OnlyAt
      <4> QED  BY <4>1
    <3>2. CASE b = a /\ side = "buy"
      <4>1. j = i + q
        BY <1>4, <2>2, <2>3, <3>2
      <4> QED  BY <1>1, <4>1
    <3>3. CASE b = a /\ side = "sell"
      <4>1. j = i - q
        BY <1>4, <2>2, <2>3, <3>3
      <4>2. n = q
        BY <2>6, <3>3 DEF Sells, a, side
      <4> QED  BY <1>1, <4>1, <4>2
    <3> QED  BY <1>1, <3>1, <3>2, <3>3
  <2>9. j >= k - (m + n)
    BY <2>5, <2>8
  <2> QED  BY <2>1, <2>3, <2>7, <2>9
<1> QED
  BY <1>2, <1>4, <1>5 DEF Filling, Kept

LEMMA CarriedFacts ==
  ASSUME NEW e, Typed(e), NEW fills, FillsTyped(fills), NEW f \in Carried(e, fills)
  PROVE  Filling(e, fills, DOMAIN fills, f)
<1> DEFINE D == DOMAIN fills
           B == {S \in SUBSET D : ~\A h \in DoneAfter(e, fills, S) : Filling(e, fills, S, h)}
<1>0. IsFiniteSet(D) /\ Turns(fills, D)
  BY DEF FillsTyped, Turns
<1>1. B = {}
  <2> SUFFICES ASSUME B # {} PROVE FALSE
    OBVIOUS
  <2>1. PICK S \in B : \A t \in B : ~Part(t, S)
    BY <1>0, SmallestSet
  <2>2. S \in SUBSET D /\ IsFiniteSet(S) /\ Turns(fills, S)
    BY <1>0, FS_Subset DEF Turns
  <2>3. PICK h \in DoneAfter(e, fills, S) : ~Filling(e, fills, S, h)
    OBVIOUS
  <2>4. CASE S = {}
    <3>1. h = e
      BY <2>3, <2>4, NothingDone
    <3>2. \A a : Sells(fills, a, S) = {}
      BY <2>4 DEF Sells
    <3>3. \A a : SoldOf(fills, a, S) = 0
      BY <3>2, SumEmpty DEF SoldOf
    <3>4. \A a \in Assets : e.held[a] \in Nat
      BY DEF Typed
    <3> QED  BY <2>3, <3>1, <3>3, <3>4 DEF Filling, Kept
  <2>5. CASE S # {}
    <3>1. PICK x \in S : DoneAfter(e, fills, S)
                           = UNION {Filler(fills, x, g) : g \in DoneAfter(e, fills, S \ {x})}
      BY <2>2, <2>5, DoneStep
    <3>2. PICK g \in DoneAfter(e, fills, S \ {x}) : h \in Filler(fills, x, g)
      BY <2>3, <3>1
    <3>3. Part(S \ {x}, S) /\ S \ {x} \in SUBSET D
      BY <2>2 DEF Part
    <3>4. Filling(e, fills, S \ {x}, g)
      BY <2>1, <3>2, <3>3
    <3> HIDE DEF D
    <3>5. Filling(e, fills, S, h)
      BY <2>2, <3>2, <3>4, FillingStep DEF D
    <3> QED  BY <2>3, <3>5
  <2> QED  BY <2>4, <2>5
<1>2. f \in DoneAfter(e, fills, D)
  BY CarriedIsDone
<1> QED
  BY <1>1, <1>2

-----------------------------------------------------------------------------
(* What holds of an engine, whatever the books show: sells promise no more  *)
(* than is held, own orders are apart and the reported profit is backed.    *)
Promised(e) == \A a \in Assets : ReservedPosition(e, a) <= e.held[a]
Apart(e) ==
  \A a \in Assets : \A b \in Open(e, a, "buy"), s \in Open(e, a, "sell") :
    e.orders[b].price < e.orders[s].price
Sound(e) == Typed(e) /\ Promised(e) /\ Apart(e) /\ Backed(e)

(* What holds of it with a book: fills took no more than was granted, and   *)
(* where they took any, all orders that cross have looked at the book.      *)
Looked(e, a, side, b, late) ==
  \A o \in Open(e, a, side) : o \in late \/ e.orders[o].examined \/ ~Crosses(e.orders[o], b)
Granted(e, a, b, late) ==
  /\ e.taken[a].buy <= Participating(TopSize(b.asks))
  /\ e.taken[a].sell <= Participating(TopSize(b.bids))
  /\ e.taken[a].buy > 0 => Looked(e, a, "buy", b, late)
  /\ e.taken[a].sell > 0 => Looked(e, a, "sell", b, late)

(* f has some of the orders of e, as large and at the same prices, and the  *)
(* same positions.                                                          *)
Alike(p, q) == p.asset = q.asset /\ p.side = q.side /\ p.price = q.price /\ p.remaining = q.remaining
Fewer(e, f) ==
  /\ DOMAIN f.orders \subseteq DOMAIN e.orders
  /\ \A o \in DOMAIN f.orders : Alike(f.orders[o], e.orders[o])
SameMoney(e, f) ==
  f.cash = e.cash /\ f.realized = e.realized /\ f.held = e.held /\ f.average = e.average

LEMMA OrdersTyped ==
  ASSUME NEW e, Typed(e)
  PROVE  /\ DOMAIN e.orders \subseteq Ids /\ IsFiniteSet(DOMAIN e.orders)
         /\ e.orders \in [DOMAIN e.orders -> Order]
         /\ \A o \in DOMAIN e.orders : e.orders[o] \in Order
         /\ \A o \in DOMAIN e.orders : Remaining(e)[o] = e.orders[o].remaining /\ Remaining(e)[o] \in Nat
         /\ \A a, side : /\ Open(e, a, side) \subseteq DOMAIN e.orders
                         /\ IsFiniteSet(Open(e, a, side))
<1>1. PICK S \in SUBSET Ids : e.orders \in [S -> Order]
  BY DEF Typed, Orders
<1>2. DOMAIN e.orders = S
  BY <1>1
<1>3. IsFiniteSet(S)
  BY FS_Subset, PaperAssumption
<1>4. \A o \in S : e.orders[o] \in Order /\ e.orders[o].remaining \in Nat
  BY <1>1 DEF Order
<1>5. \A a, side : Open(e, a, side) \subseteq S
  BY <1>2 DEF Open
<1>6. \A a, side : IsFiniteSet(Open(e, a, side))
  BY <1>3, <1>5, FS_Subset
<1> QED
  BY <1>1, <1>2, <1>3, <1>4, <1>5, <1>6 DEF Remaining

LEMMA OrdersMade ==
  ASSUME NEW X, DOMAIN X \subseteq Ids, X = [o \in DOMAIN X |-> X[o]], \A o \in DOMAIN X : X[o] \in Order
  PROVE  X \in Orders
<1>1. X \in [DOMAIN X -> Order]
  BY Zenon
<1> QED
  BY <1>1 DEF Orders

LEMMA TypedOrders ==
  ASSUME NEW e, Typed(e), NEW X \in Orders, NEW f, f = [e EXCEPT !.orders = X]
  PROVE  Typed(f) /\ f.orders = X /\ SameMoney(e, f) /\ f.taken = e.taken
BY DEF Typed, SameMoney

LEMMA ReservedFewer ==
  ASSUME NEW e, NEW f, Typed(e), Typed(f), Fewer(e, f), NEW a
  PROVE  ReservedPosition(f, a) <= ReservedPosition(e, a)
<1>1. Open(f, a, "sell") \subseteq Open(e, a, "sell")
  BY DEF Open, Fewer, Alike
<1>2. /\ IsFiniteSet(Open(e, a, "sell")) /\ IsFiniteSet(Open(f, a, "sell"))
      /\ \A o \in Open(e, a, "sell") : Remaining(e)[o] \in Nat
      /\ \A o \in Open(f, a, "sell") : o \in DOMAIN f.orders /\ o \in DOMAIN e.orders
  BY <1>1, OrdersTyped
<1>3. \A o \in Open(f, a, "sell") : Remaining(f)[o] \in Int /\ Remaining(f)[o] = Remaining(e)[o]
  BY <1>2, OrdersTyped DEF Fewer, Alike
<1>4. SumFunctionOnSet(Remaining(f), Open(f, a, "sell")) = SumFunctionOnSet(Remaining(e), Open(f, a, "sell"))
  BY <1>2, <1>3, SumSame
<1>5. SumFunctionOnSet(Remaining(e), Open(f, a, "sell")) <= SumFunctionOnSet(Remaining(e), Open(e, a, "sell"))
  BY <1>1, <1>2, SumSubset
<1> QED
  BY <1>4, <1>5 DEF ReservedPosition

LEMMA ReservedNumbers ==
  ASSUME NEW e, Typed(e), NEW a
  PROVE  ReservedPosition(e, a) \in Nat
<1>1. IsFiniteSet(Open(e, a, "sell")) /\ \A o \in Open(e, a, "sell") : Remaining(e)[o] \in Nat
  BY OrdersTyped
<1> QED
  BY <1>1, SumNonNegative DEF ReservedPosition

LEMMA ApartFewer ==
  ASSUME NEW e, NEW f, Typed(e), Typed(f), Apart(e), DOMAIN f.orders \subseteq DOMAIN e.orders,
         \A o \in DOMAIN f.orders : /\ f.orders[o].asset = e.orders[o].asset
                                    /\ f.orders[o].side = e.orders[o].side
                                    /\ f.orders[o].price = e.orders[o].price
  PROVE  Apart(f)
<1>1. \A a, side : \A o \in Open(f, a, side) :
        o \in Open(e, a, side) /\ f.orders[o].price = e.orders[o].price
  BY DEF Open
<1> QED
  BY <1>1 DEF Apart

LEMMA SoundFewer ==
  ASSUME NEW e, NEW f, Sound(e), Typed(f), Fewer(e, f), SameMoney(e, f)
  PROVE  Sound(f)
<1>1. Promised(f)
  <2> SUFFICES ASSUME NEW a \in Assets PROVE ReservedPosition(f, a) <= f.held[a]
    BY DEF Promised
  <2>1. ReservedPosition(f, a) <= ReservedPosition(e, a) /\ ReservedPosition(e, a) <= e.held[a]
    BY ReservedFewer DEF Sound, Promised
  <2>2. ReservedPosition(f, a) \in Nat /\ ReservedPosition(e, a) \in Nat /\ e.held[a] \in Nat /\ f.held[a] = e.held[a]
    BY ReservedNumbers DEF Sound, Typed, SameMoney
  <2> QED  BY <2>1, <2>2
<1>2. Apart(f)
  BY ApartFewer DEF Sound, Fewer, Alike
<1>3. Backed(f)
  <2>1. Costs(f) = Costs(e)
    BY DEF Costs, SameMoney
  <2> QED  BY <2>1 DEF Sound, Backed, SameMoney
<1> QED
  BY <1>1, <1>2, <1>3 DEF Sound

LEMMA GrantedFewer ==
  ASSUME NEW e, NEW f, Typed(e), Typed(f), NEW a \in Assets, NEW b, NEW late, Granted(e, a, b, late),
         DOMAIN f.orders \subseteq DOMAIN e.orders,
         \A o \in DOMAIN f.orders : /\ f.orders[o].asset = e.orders[o].asset
                                    /\ f.orders[o].side = e.orders[o].side
                                    /\ f.orders[o].price = e.orders[o].price
                                    /\ e.orders[o].examined => f.orders[o].examined,
         f.taken[a] = e.taken[a]
  PROVE  Granted(f, a, b, late)
<1>1. \A side : \A o \in Open(f, a, side) :
        /\ o \in Open(e, a, side)
        /\ e.orders[o].examined => f.orders[o].examined
        /\ Crosses(f.orders[o], b) => Crosses(e.orders[o], b)
  BY DEF Open, Crosses
<1>2. \A side : Looked(e, a, side, b, late) => Looked(f, a, side, b, late)
  BY <1>1 DEF Looked
<1> QED
  BY <1>2 DEF Granted

-----------------------------------------------------------------------------
(* Orders in turn take what those before them have left: each what it wants *)
(* at most, and all together what there is.                                 *)
LEMMA ShareFacts ==
  ASSUME NEW want \in Nat, NEW left \in Int
  PROVE  Share(want, left) \in Nat /\ Share(want, left) <= want
BY DEF Share, Least

LEMMA SharedOut ==
  ASSUME NEW S, IsFiniteSet(S), S \subseteq Nat, NEW L \in Nat, NEW want, NEW plan,
         \A x \in S : want[x] \in Nat,
         \A x \in S : plan[x] = Share(want[x], L - SumFunctionOnSet(want, {p \in S : p < x}))
  PROVE  SumFunctionOnSet(plan, S) <= L
<1> DEFINE W(s) == SumFunctionOnSet(want, s)
           G(s) == SumFunctionOnSet(plan, s)
           First(s) == \A x \in s : \A p \in S : p < x => p \in s
           B == {s \in SUBSET S : First(s) /\ G(s) # Least(W(s), L)}
<1>0. B # {} => \E s \in B : \A t \in B : ~Part(t, s)
  <2>1. B \subseteq SUBSET S
    OBVIOUS
  <2> HIDE DEF B
  <2> QED  BY <2>1, SmallestSet
<1>1. \A s \in SUBSET S : IsFiniteSet(s) /\ W(s) \in Nat
  BY FS_Subset, SumNonNegative
<1>2. \A x \in S : {p \in S : p < x} \in SUBSET S
  OBVIOUS
<1>3. \A x \in S : plan[x] \in Nat
  <2> SUFFICES ASSUME NEW x \in S PROVE plan[x] \in Nat
    OBVIOUS
  <2>1. PICK w \in Nat : w = W({p \in S : p < x})
    BY <1>1, <1>2
  <2>2. plan[x] = Share(want[x], L - w) /\ L - w \in Int
    BY <2>1
  <2> QED  BY <2>2, ShareFacts
<1>4. \A s \in SUBSET S : \A x \in s : W(s) = want[x] + W(s \ {x}) /\ G(s) = plan[x] + G(s \ {x})
  <2> SUFFICES ASSUME NEW s \in SUBSET S, NEW x \in s
               PROVE  W(s) = want[x] + W(s \ {x}) /\ G(s) = plan[x] + G(s \ {x})
    OBVIOUS
  <2>1. IsFiniteSet(s) /\ \A y \in s : want[y] \in Int /\ plan[y] \in Int
    BY <1>1, <1>3
  <2>2. W(s) = want[x] + W(s \ {x})
    BY ONLY <2>1, x \in s, SumWithout
  <2>3. G(s) = plan[x] + G(s \ {x})
    BY ONLY <2>1, x \in s, SumWithout
  <2> QED  BY <2>2, <2>3
<1>5. W({}) = 0 /\ G({}) = 0
  BY SumEmpty
<1>6. \A x \in S : plan[x] = Share(want[x], L - W({p \in S : p < x}))
  OBVIOUS
<1> HIDE DEF W, G
<1>7. B = {}
  <2> SUFFICES ASSUME B # {} PROVE FALSE
    OBVIOUS
  <2>1. PICK s \in B : \A t \in B : ~Part(t, s)
    BY <1>0
  <2>2. CASE s = {}
    BY <1>5, <2>2 DEF Least
  <2>3. CASE s # {}
    <3>1. PICK x \in s : \A y \in s : y <= x
      <4> DEFINE f == [y \in s |-> y]
      <4>1. IsFiniteSet(s) /\ \A y \in s : f[y] \in Int
        BY <1>1
      <4>2. \E x \in s : \A y \in s : f[y] <= f[x]
        BY ONLY <2>3, <4>1, LargestElement
      <4> QED  BY <4>2
    <3> DEFINE t == s \ {x}
    <3>2. t = {p \in S : p < x}
      <4>1. x \in S /\ \A p \in S : p \in Nat /\ x \in Nat
        OBVIOUS
      <4>2. \A p \in S : p \in t <=> p < x
        BY <3>1, <4>1
      <4> QED  BY <4>2
    <3>3. First(t) /\ t \in SUBSET S /\ Part(t, s)
      BY <3>2 DEF Part
    <3>4. G(t) = Least(W(t), L)
      BY <2>1, <3>3
    <3>5. W(s) = want[x] + W(t) /\ G(s) = plan[x] + G(t)
      BY <1>4
    <3>6. plan[x] = Share(want[x], L - W(t)) /\ want[x] \in Nat /\ W(t) \in Nat
      BY <1>1, <1>6, <3>2, <3>3
    <3> HIDE DEF t
    <3>7. G(s) = Least(W(s), L)
      BY ONLY <3>4, <3>5, <3>6, L \in Nat DEF Share, Least
    <3> QED  BY <3>7
  <2> QED  BY <2>2, <2>3
<1>8. G(S) = Least(W(S), L)
  BY <1>7
<1>9. W(S) \in Nat
  BY <1>1
<1> QED
  BY <1>8, <1>9 DEF G, Least

(* A plan that gives some orders of e no more than they want.               *)
PlanFits(e, plan) ==
  /\ DOMAIN plan \subseteq DOMAIN e.orders
  /\ \A o \in DOMAIN plan : plan[o] \in Nat /\ plan[o] <= e.orders[o].remaining

LEMMA PlanFacts ==
  ASSUME NEW e, Typed(e), NEW ids, ids \subseteq DOMAIN e.orders, NEW liquidity,
         \A o \in ids : liquidity[e.orders[o].side] \in Nat
  PROVE  PlanFits(e, Plan(e, ids, liquidity)) /\ DOMAIN Plan(e, ids, liquidity) = ids
<1> SUFFICES ASSUME NEW o \in ids
             PROVE  LET n == Plan(e, ids, liquidity)[o] IN n \in Nat /\ n <= e.orders[o].remaining
  BY DEF PlanFits, Plan
<1>1. /\ IsFiniteSet(Before(e, ids, o))
      /\ \A p \in Before(e, ids, o) : Remaining(e)[p] \in Nat
  <2>1. Before(e, ids, o) \subseteq DOMAIN e.orders
    BY DEF Before
  <2> QED  BY <2>1, OrdersTyped, FS_Subset
<1>2. SumFunctionOnSet(Remaining(e), Before(e, ids, o)) \in Nat
  BY <1>1, SumNonNegative
<1>3. Left(e, ids, liquidity, o) \in Int
  BY <1>2 DEF Left
<1>4. e.orders[o].remaining \in Nat
  BY OrdersTyped
<1> QED
  BY <1>3, <1>4, ShareFacts DEF Plan

-----------------------------------------------------------------------------
(* A plan carried out.                                                      *)
Took(e, f) ==
  /\ f.taken = e.taken /\ DOMAIN f.orders \subseteq DOMAIN e.orders
  /\ \A o \in DOMAIN f.orders :
       /\ f.orders[o].asset = e.orders[o].asset /\ f.orders[o].side = e.orders[o].side
       /\ f.orders[o].price = e.orders[o].price /\ f.orders[o].examined = e.orders[o].examined

LEMMA FillsOfTyped ==
  ASSUME NEW e, Typed(e), NEW plan, PlanFits(e, plan)
  PROVE  FillsTyped(FillsOf(e, plan)) /\ DOMAIN FillsOf(e, plan) = {p \in DOMAIN plan : plan[p] > 0}
<1>1. DOMAIN FillsOf(e, plan) = {p \in DOMAIN plan : plan[p] > 0}
  BY DEF FillsOf
<1>2. IsFiniteSet(DOMAIN FillsOf(e, plan))
  BY <1>1, OrdersTyped, FS_Subset DEF PlanFits
<1>3. ASSUME NEW x \in DOMAIN FillsOf(e, plan)
      PROVE  LET fill == FillsOf(e, plan)[x]
             IN /\ fill.turn \in Nat /\ fill.asset \in Assets /\ fill.side \in {"buy", "sell"}
                /\ fill.quantity \in Nat \ {0} /\ fill.price \in Nat
  <2>1. x \in DOMAIN plan /\ x \in DOMAIN e.orders /\ plan[x] \in Nat \ {0}
    BY <1>1 DEF PlanFits
  <2>2. e.orders[x] \in Order /\ x \in Nat
    BY <2>1, OrdersTyped, PaperAssumption
  <2>3. e.orders[x].price \in Nat
    BY <2>2, PaperAssumption DEF Order
  <2> QED  BY <1>1, <2>1, <2>2, <2>3 DEF FillsOf, Order
<1> QED
  BY <1>1, <1>2, <1>3 DEF FillsTyped

LEMMA ReducedFacts ==
  ASSUME NEW e, Typed(e), NEW plan, PlanFits(e, plan), NEW f, Typed(f), Kept(e, f),
         NEW r, r = Reduced(f, plan)
  PROVE  Typed(r) /\ Took(e, r) /\ SameMoney(f, r)
<1> DEFINE D == {p \in DOMAIN f.orders : p \in DOMAIN plan => plan[p] < f.orders[p].remaining}
           X == [o \in D |-> IF o \in DOMAIN plan
                             THEN [f.orders[o] EXCEPT !.remaining = @ - plan[o]] ELSE f.orders[o]]
<1>1. r = [f EXCEPT !.orders = X]
  BY DEF Reduced, Rest
<1>2. f.orders = e.orders
  BY DEF Kept
<1>3. D \subseteq Ids /\ D \subseteq DOMAIN e.orders /\ \A o \in D : f.orders[o] \in Order
  BY <1>2, OrdersTyped
<1>4. ASSUME NEW o \in D
      PROVE  /\ X[o] \in Order
             /\ X[o].asset = e.orders[o].asset /\ X[o].side = e.orders[o].side
             /\ X[o].price = e.orders[o].price /\ X[o].examined = e.orders[o].examined
  <2>1. CASE o \in DOMAIN plan
    <3>1. plan[o] \in Nat /\ f.orders[o].remaining \in Nat /\ plan[o] < f.orders[o].remaining
      BY <1>2, <1>3, <2>1 DEF PlanFits, Order
    <3>2. PICK n \in Nat \ {0} : n = f.orders[o].remaining - plan[o]
      BY <3>1
    <3>3. X[o] = [f.orders[o] EXCEPT !.remaining = n]
      BY <2>1, <3>2
    <3> QED  BY <1>2, <1>3, <3>3 DEF Order
  <2>2. CASE o \notin DOMAIN plan
    BY <1>2, <1>3, <2>2
  <2> QED  BY <2>1, <2>2
<1>5. DOMAIN X = D /\ X = [o \in D |-> X[o]]
  OBVIOUS
<1> HIDE DEF X, D
<1>6. X \in Orders
  BY <1>3, <1>4, <1>5, OrdersMade
<1>7. Typed(r) /\ r.orders = X /\ SameMoney(f, r) /\ r.taken = f.taken
  BY <1>1, <1>6, TypedOrders
<1> QED
  BY <1>3, <1>4, <1>5, <1>7 DEF Took, Kept

LEMMA ReducedReserve ==
  ASSUME NEW e, Typed(e), NEW plan, PlanFits(e, plan), NEW f, Typed(f), Kept(e, f),
         NEW r, r = Reduced(f, plan), NEW a \in Assets
  PROVE  ReservedPosition(e, a)
           = ReservedPosition(r, a) + SoldOf(FillsOf(e, plan), a, DOMAIN FillsOf(e, plan))
<1> DEFINE O    == Open(e, a, "sell")
           P    == Open(r, a, "sell")
           rem  == Remaining(e)
           got  == [o \in O |-> IF o \in DOMAIN plan THEN plan[o] ELSE 0]
           left == [o \in O |-> rem[o] - got[o]]
           fills == FillsOf(e, plan)
           sold == Sells(fills, a, DOMAIN fills)
<1>1. IsFiniteSet(O) /\ O \subseteq DOMAIN e.orders
  BY OrdersTyped
<1>2. \A o \in O : rem[o] = e.orders[o].remaining /\ rem[o] \in Nat \ {0}
  <2>1. \A o \in O : e.orders[o] \in Order /\ rem[o] = e.orders[o].remaining
    BY <1>1, OrdersTyped
  <2> QED  BY <2>1 DEF Order
<1>3. \A o \in O : got[o] \in Nat /\ got[o] <= rem[o]
  BY <1>2 DEF PlanFits
<1>4. \A o \in O : left[o] \in Nat /\ rem[o] = left[o] + got[o]
  BY <1>2, <1>3
<1>5. Typed(r)
  BY ReducedFacts
<1>6. /\ DOMAIN r.orders = {p \in DOMAIN e.orders : p \in DOMAIN plan => plan[p] < e.orders[p].remaining}
      /\ \A o \in DOMAIN r.orders :
           r.orders[o] = IF o \in DOMAIN plan
                         THEN [e.orders[o] EXCEPT !.remaining = @ - plan[o]] ELSE e.orders[o]
  <2>1. f.orders = e.orders
    BY DEF Kept
  <2>2. r.orders = Rest(e.orders, plan)
    BY <2>1 DEF Reduced, Typed
  <2> QED  BY <2>2 DEF Rest
<1>7. \A o \in DOMAIN r.orders :
        r.orders[o].asset = e.orders[o].asset /\ r.orders[o].side = e.orders[o].side
  <2>1. \A o \in DOMAIN e.orders : e.orders[o] \in Order
    BY OrdersTyped
  <2> QED  BY <1>6, <2>1 DEF Order
<1>8. P = {o \in O : o \in DOMAIN plan => plan[o] < rem[o]}
  <2>1. \A o : o \in P <=> o \in DOMAIN r.orders /\ o \in O
    BY <1>6, <1>7 DEF Open
  <2>2. \A o \in O : o \in DOMAIN r.orders <=> (o \in DOMAIN plan => plan[o] < rem[o])
    BY <1>1, <1>2, <1>6
  <2> QED  BY <2>1, <2>2
<1>9. \A o \in P : Remaining(r)[o] \in Int /\ Remaining(r)[o] = left[o]
  <2> SUFFICES ASSUME NEW o \in P PROVE Remaining(r)[o] \in Int /\ Remaining(r)[o] = left[o]
    OBVIOUS
  <2>1. o \in O /\ o \in DOMAIN r.orders /\ e.orders[o] \in Order
    BY <1>8, OrdersTyped DEF Open
  <2>2. Remaining(r)[o] = r.orders[o].remaining
    BY <2>1 DEF Remaining
  <2>3. r.orders[o].remaining = IF o \in DOMAIN plan THEN e.orders[o].remaining - plan[o]
                                                     ELSE e.orders[o].remaining
    BY <1>6, <2>1 DEF Order
  <2>4. left[o] \in Nat /\ left[o] = rem[o] - got[o] /\ rem[o] = e.orders[o].remaining /\ rem[o] \in Nat
    BY <1>2, <1>4, <2>1
  <2> QED  BY <2>1, <2>2, <2>3, <2>4
<1>10. \A o \in O \ P : left[o] = 0
  <2> SUFFICES ASSUME NEW o \in O \ P PROVE left[o] = 0
    OBVIOUS
  <2>1. o \in DOMAIN plan /\ ~(plan[o] < rem[o])
    BY <1>8
  <2>2. got[o] = plan[o] /\ got[o] \in Nat /\ rem[o] \in Nat /\ got[o] <= rem[o] /\ left[o] = rem[o] - got[o]
    BY <1>2, <1>3, <2>1
  <2> QED  BY <2>1, <2>2
<1>11. sold = {o \in O : o \in DOMAIN plan /\ plan[o] > 0}
  <2>1. DOMAIN fills = {p \in DOMAIN plan : plan[p] > 0} /\ DOMAIN plan \subseteq DOMAIN e.orders
    BY FillsOfTyped DEF PlanFits
  <2>2. \A o \in DOMAIN fills : fills[o].asset = e.orders[o].asset /\ fills[o].side = e.orders[o].side
    BY <2>1 DEF FillsOf
  <2> QED  BY <2>1, <2>2 DEF Sells, Open
<1>12. \A o \in sold : Quantities(fills)[o] = got[o]
  BY <1>11 DEF Quantities, FillsOf
<1>13. \A o \in O \ sold : got[o] = 0
  BY <1>3, <1>11
<1> HIDE DEF O, P, rem, got, left, fills, sold
<1>14. P \subseteq O /\ IsFiniteSet(P) /\ sold \subseteq O /\ IsFiniteSet(sold)
  BY <1>1, <1>8, <1>11, FS_Subset
<1>15. SumFunctionOnSet(Remaining(r), P) = SumFunctionOnSet(left, P)
  BY ONLY <1>9, <1>14, SumSame
<1>16. SumFunctionOnSet(left, O) = SumFunctionOnSet(left, P)
  BY ONLY <1>1, <1>4, <1>10, <1>14, SumSupport
<1>17. SumFunctionOnSet(rem, O) = SumFunctionOnSet(left, O) + SumFunctionOnSet(got, O)
  <2>1. \A o \in O : left[o] \in Int /\ got[o] \in Int /\ rem[o] = left[o] + got[o]
    BY <1>3, <1>4
  <2> QED  BY ONLY <1>1, <2>1, SumPlus
<1>18. SumFunctionOnSet(got, O) = SumFunctionOnSet(got, sold)
  <2>1. \A o \in O : got[o] \in Int
    BY <1>3
  <2> QED  BY ONLY <1>1, <1>13, <1>14, <2>1, SumSupport
<1>19. SumFunctionOnSet(Quantities(fills), sold) = SumFunctionOnSet(got, sold)
  <2>1. \A o \in sold : Quantities(fills)[o] \in Int /\ Quantities(fills)[o] = got[o]
    BY <1>3, <1>12, <1>14
  <2> QED  BY ONLY <1>14, <2>1, SumSame
<1>20. SumFunctionOnSet(rem, O) = SumFunctionOnSet(Remaining(r), P) + SumFunctionOnSet(Quantities(fills), sold)
  BY <1>15, <1>16, <1>17, <1>18, <1>19
<1> QED
  BY <1>20 DEF ReservedPosition, SoldOf, O, P, rem, fills, sold

LEMMA FilledFacts ==
  ASSUME NEW e, Sound(e), NEW plan, PlanFits(e, plan), NEW r \in Filled(e, plan)
  PROVE  Sound(r) /\ Took(e, r)
<1> DEFINE fills == FillsOf(e, plan)
<1>1. Typed(e) /\ FillsTyped(fills)
  BY FillsOfTyped DEF Sound
<1>2. PICK f \in Carried(e, fills) : r = Reduced(f, plan)
  BY DEF Filled
<1> HIDE DEF fills
<1>3. Filling(e, fills, DOMAIN fills, f)
  BY <1>1, CarriedFacts
<1>4. Typed(f) /\ Kept(e, f) /\ Backed(f)
  BY <1>3 DEF Filling, Sound
<1>5. Typed(r) /\ Took(e, r) /\ SameMoney(f, r)
  BY <1>1, <1>2, <1>4, ReducedFacts
<1>6. Promised(r)
  <2> SUFFICES ASSUME NEW a \in Assets PROVE ReservedPosition(r, a) <= r.held[a]
    BY DEF Promised
  <2>1. ReservedPosition(e, a) = ReservedPosition(r, a) + SoldOf(fills, a, DOMAIN fills)
    BY <1>1, <1>2, <1>4, ReducedReserve DEF fills
  <2>2. PICK m \in Nat : m = ReservedPosition(e, a)
    BY <1>1, ReservedNumbers
  <2>3. PICK n \in Nat : n = ReservedPosition(r, a)
    BY <1>5, ReservedNumbers
  <2>4. PICK k \in Nat : k = SoldOf(fills, a, DOMAIN fills)
    BY <1>1, SoldNumbers
  <2>5. PICK h \in Nat : h = e.held[a]
    BY <1>1 DEF Typed
  <2>6. PICK i \in Nat : i = r.held[a]
    BY <1>5 DEF Typed
  <2>7. m <= h
    BY <2>2, <2>5 DEF Sound, Promised
  <2>8. i >= h - k
    BY <1>3, <1>5, <2>4, <2>5, <2>6 DEF Filling, SameMoney
  <2>9. m = n + k
    BY <2>1, <2>2, <2>3, <2>4
  <2>10. n <= i
    BY <2>7, <2>8, <2>9
  <2> QED  BY <2>3, <2>6, <2>10
<1>7. Apart(r)
  BY <1>1, <1>5, ApartFewer DEF Took, Sound
<1>8. Backed(r)
  <2>1. Costs(r) = Costs(f)
    BY <1>5 DEF Costs, SameMoney
  <2> QED  BY <1>4, <1>5, <2>1 DEF Backed, SameMoney
<1> QED
  BY <1>5, <1>6, <1>7, <1>8 DEF Sound

-----------------------------------------------------------------------------
(* The other operations on an engine. Most leave it with some of its        *)
(* orders, which have looked at no less than before.                        *)
Fits(e, bk, late) == Sound(e) /\ \A a \in Assets : Granted(e, a, bk[a], late)
Averaged(e) == \A a \in Assets : e.average[a] <= One
Lesser(e, f) ==
  /\ Typed(f) /\ SameMoney(e, f) /\ f.taken = e.taken /\ Fewer(e, f)
  /\ \A o \in DOMAIN f.orders : e.orders[o].examined => f.orders[o].examined

LEMMA LesserFits ==
  ASSUME NEW e, NEW f, Typed(e), Lesser(e, f)
  PROVE  /\ Sound(e) => Sound(f)
         /\ \A bk, late : Fits(e, bk, late) => Fits(f, bk, late)
         /\ Averaged(e) => Averaged(f)
<1>1. Sound(e) => Sound(f)
  BY SoundFewer DEF Lesser
<1>2. ASSUME NEW bk, NEW late, Fits(e, bk, late), NEW a \in Assets
      PROVE  Granted(f, a, bk[a], late)
  <2>1. Typed(f) /\ Granted(e, a, bk[a], late) /\ DOMAIN f.orders \subseteq DOMAIN e.orders
    BY <1>2 DEF Lesser, Fewer, Fits
  <2>2. \A o \in DOMAIN f.orders : /\ f.orders[o].asset = e.orders[o].asset
                                   /\ f.orders[o].side = e.orders[o].side
                                   /\ f.orders[o].price = e.orders[o].price
                                   /\ e.orders[o].examined => f.orders[o].examined
    BY DEF Lesser, Fewer, Alike
  <2>3. f.taken[a] = e.taken[a]
    BY DEF Lesser
  <2> QED  BY ONLY <2>1, <2>2, <2>3, Typed(e), a \in Assets, GrantedFewer
<1>3. Averaged(e) => Averaged(f)
  BY DEF Lesser, SameMoney, Averaged
<1> QED
  BY <1>1, <1>2, <1>3 DEF Fits

LEMMA LesserOrders ==
  ASSUME NEW e, Typed(e), NEW X, X = [o \in DOMAIN X |-> X[o]], DOMAIN X \subseteq DOMAIN e.orders,
         \A o \in DOMAIN X : /\ X[o] \in Order /\ Alike(X[o], e.orders[o])
                             /\ e.orders[o].examined => X[o].examined,
         NEW f, f = [e EXCEPT !.orders = X]
  PROVE  Lesser(e, f)
<1>1. X \in Orders
  BY OrdersTyped, OrdersMade
<1>2. Typed(f) /\ f.orders = X /\ SameMoney(e, f) /\ f.taken = e.taken
  BY <1>1, TypedOrders
<1> QED
  BY <1>2 DEF Lesser, Fewer

LEMMA WithoutFacts ==
  ASSUME NEW e, Typed(e), NEW ids
  PROVE  /\ Lesser(e, Without(e, ids))
         /\ Without(e, ids).orders = [o \in DOMAIN e.orders \ ids |-> e.orders[o]]
<1> DEFINE X == [o \in DOMAIN e.orders \ ids |-> e.orders[o]]
<1>1. X = [o \in DOMAIN X |-> X[o]] /\ DOMAIN X \subseteq DOMAIN e.orders
  OBVIOUS
<1>2. \A o \in DOMAIN X : /\ X[o] \in Order /\ Alike(X[o], e.orders[o])
                          /\ e.orders[o].examined => X[o].examined
  BY OrdersTyped DEF Alike
<1>3. Without(e, ids) = [e EXCEPT !.orders = X]
  BY DEF Without
<1>4. Without(e, ids).orders = X
  BY <1>3 DEF Typed
<1> HIDE DEF X
<1>5. Lesser(e, Without(e, ids))
  BY <1>1, <1>2, <1>3, LesserOrders
<1> QED
  BY <1>4, <1>5 DEF X

LEMMA CancelAllFacts ==
  ASSUME NEW e, Typed(e)
  PROVE  Lesser(e, CancelAll(e)) /\ DOMAIN CancelAll(e).orders = {}
<1> DEFINE X == <<>>
<1>1. X = [o \in DOMAIN X |-> X[o]] /\ DOMAIN X = {}
  OBVIOUS
<1>2. CancelAll(e) = [e EXCEPT !.orders = X]
  BY DEF CancelAll
<1>3. CancelAll(e).orders = X
  BY <1>2 DEF Typed
<1> HIDE DEF X
<1>4. Lesser(e, CancelAll(e))
  BY <1>1, <1>2, LesserOrders
<1> QED
  BY <1>1, <1>3, <1>4

LEMMA ExaminedFacts ==
  ASSUME NEW e, Typed(e), NEW ids, NEW yes \in BOOLEAN, NEW f, f = Examined(e, ids, yes)
  PROVE  /\ Typed(f) /\ SameMoney(e, f) /\ f.taken = e.taken /\ Fewer(e, f)
         /\ DOMAIN f.orders = DOMAIN e.orders
         /\ \A o \in DOMAIN e.orders :
              f.orders[o].examined = IF o \in ids THEN yes ELSE e.orders[o].examined
<1> DEFINE X == [o \in DOMAIN e.orders |->
                   IF o \in ids THEN [e.orders[o] EXCEPT !.examined = yes] ELSE e.orders[o]]
<1>1. X = [o \in DOMAIN X |-> X[o]] /\ DOMAIN X = DOMAIN e.orders
  OBVIOUS
<1>2. \A o \in DOMAIN X :
        /\ X[o] \in Order /\ Alike(X[o], e.orders[o])
        /\ X[o].examined = IF o \in ids THEN yes ELSE e.orders[o].examined
  BY OrdersTyped DEF Alike, Order
<1>3. f = [e EXCEPT !.orders = X]
  BY DEF Examined
<1> HIDE DEF X
<1>4. X \in Orders
  BY <1>1, <1>2, OrdersTyped, OrdersMade
<1>5. Typed(f) /\ f.orders = X /\ SameMoney(e, f) /\ f.taken = e.taken
  BY <1>3, <1>4, TypedOrders
<1> QED
  BY <1>1, <1>2, <1>5 DEF Fewer

LEMMA TradedOrder ==
  ASSUME NEW order \in Order, NEW yes \in BOOLEAN
  PROVE  LET new == [order EXCEPT !.traded = yes]
         IN new \in Order /\ Alike(new, order) /\ new.examined = order.examined
BY DEF Order, Alike

LEMMA TradedFacts ==
  ASSUME NEW e, Typed(e), NEW X, X = [o \in DOMAIN X |-> X[o]], DOMAIN X = DOMAIN e.orders,
         \A o \in DOMAIN X : \/ X[o] = e.orders[o]
                             \/ \E yes \in BOOLEAN : X[o] = [e.orders[o] EXCEPT !.traded = yes]
  PROVE  Lesser(e, [e EXCEPT !.orders = X])
<1>1. ASSUME NEW o \in DOMAIN X
      PROVE  /\ X[o] \in Order /\ Alike(X[o], e.orders[o])
             /\ e.orders[o].examined => X[o].examined
  <2>1. e.orders[o] \in Order
    BY OrdersTyped
  <2>2. CASE X[o] = e.orders[o]
    BY <2>1, <2>2 DEF Alike
  <2>3. CASE \E yes \in BOOLEAN : X[o] = [e.orders[o] EXCEPT !.traded = yes]
    BY <2>1, <2>3, TradedOrder
  <2> QED  BY <2>2, <2>3
<1> QED
  BY <1>1, LesserOrders

LEMMA UntradedFacts ==
  ASSUME NEW e, Typed(e), NEW a, NEW young
  PROVE  Lesser(e, Untraded(e, a, young))
<1> DEFINE X == [o \in DOMAIN e.orders |->
     IF e.orders[o].asset = a THEN [e.orders[o] EXCEPT !.traded = o \in young] ELSE e.orders[o]]
<1>1. X = [o \in DOMAIN X |-> X[o]] /\ DOMAIN X = DOMAIN e.orders
  OBVIOUS
<1>2. \A o \in DOMAIN X : \/ X[o] = e.orders[o]
                          \/ \E yes \in BOOLEAN : X[o] = [e.orders[o] EXCEPT !.traded = yes]
  <2> SUFFICES ASSUME NEW o \in DOMAIN e.orders, X[o] # e.orders[o]
               PROVE  \E yes \in BOOLEAN : X[o] = [e.orders[o] EXCEPT !.traded = yes]
    OBVIOUS
  <2>1. X[o] = [e.orders[o] EXCEPT !.traded = o \in young]
    OBVIOUS
  <2>2. (o \in young) \in BOOLEAN
    OBVIOUS
  <2> HIDE DEF X
  <2> QED  BY <2>1, <2>2
<1>3. Untraded(e, a, young) = [e EXCEPT !.orders = X]
  BY DEF Untraded
<1> HIDE DEF X
<1>4. Lesser(e, [e EXCEPT !.orders = X])
  BY ONLY <1>1, <1>2, Typed(e), TradedFacts
<1> QED
  BY <1>3, <1>4

-----------------------------------------------------------------------------
(* Books and what they grant.                                               *)
Shown == [bids : Seq(Level), asks : Seq(Level), tradeable : BOOLEAN]

LEMMA TopNumbers == ASSUME NEW levels \in Seq(Level) PROVE TopSize(levels) \in Nat
<1>1. CASE levels = <<>>
  BY <1>1 DEF TopSize
<1>2. CASE levels # <<>>
  <2>1. levels[1] \in Level
    BY <1>2
  <2> QED  BY <1>2, <2>1 DEF TopSize, Level
<1> QED
  BY <1>1, <1>2

LEMMA GrantNumbers ==
  ASSUME NEW b \in Shown
  PROVE  /\ Grants(b).buy \in Nat /\ Grants(b).sell \in Nat
         /\ Grants(b)["buy"] = Grants(b).buy /\ Grants(b)["sell"] = Grants(b).sell
         /\ Grants(b).buy = Participating(TopSize(b.asks))
         /\ Grants(b).sell = Participating(TopSize(b.bids))
<1>1. TopSize(b.asks) \in Nat /\ TopSize(b.bids) \in Nat
  BY TopNumbers DEF Shown
<1>2. Participation \in Nat
  BY PaperAssumption
<1> QED
  BY <1>1, <1>2, MulFacts DEF Grants, Participating

WithTaken(e, a, z) == [e EXCEPT !.taken[a] = z]

LEMMA TakenFacts ==
  ASSUME NEW e, Typed(e), NEW a \in Assets, NEW z \in [buy : Nat, sell : Nat],
         NEW f, f = WithTaken(e, a, z)
  PROVE  /\ Typed(f) /\ SameMoney(e, f) /\ f.orders = e.orders
         /\ f.taken[a] = z /\ \A c \in Assets : c # a => f.taken[c] = e.taken[c]
<1>1. PICK ts \in [Assets -> [buy : Nat, sell : Nat]] : ts = [e.taken EXCEPT ![a] = z]
  BY DEF Typed
<1>2. f = [e EXCEPT !.taken = ts]
  BY <1>1 DEF WithTaken
<1>3. Typed(f) /\ SameMoney(e, f) /\ f.orders = e.orders /\ f.taken = ts
  BY <1>2 DEF Typed, SameMoney
<1> QED
  BY <1>1, <1>3 DEF Typed

LEMMA SameOrdersSound ==
  ASSUME NEW e, Sound(e), NEW f, Typed(f), SameMoney(e, f), f.orders = e.orders
  PROVE  Sound(f)
BY SoundFewer DEF Fewer, Alike

LEMMA UnexaminedFacts ==
  ASSUME NEW e, NEW a \in Assets, NEW bk, NEW new, NEW late, Fits(e, bk, late),
         \A c \in Assets : c # a => new[c] = bk[c], new[a] \in Shown
  PROVE  Fits(Unexamined(e, a), new, late) /\ (Averaged(e) => Averaged(Unexamined(e, a)))
<1> DEFINE ids == Open(e, a, "buy") \cup Open(e, a, "sell")
           z   == [buy |-> 0, sell |-> 0]
           f   == Unexamined(e, a)
<1> PICK no \in BOOLEAN : no = FALSE
  OBVIOUS
<1>0. PICK g : g = Examined(e, ids, no)
  OBVIOUS
<1>1. f = WithTaken(g, a, z)
  BY <1>0 DEF Unexamined, WithTaken
<1>2. Typed(e) /\ Sound(e)
  BY DEF Fits, Sound
<1>3. /\ Typed(g) /\ SameMoney(e, g) /\ g.taken = e.taken /\ Fewer(e, g)
      /\ DOMAIN g.orders = DOMAIN e.orders
      /\ \A o \in DOMAIN e.orders :
           g.orders[o].examined = IF o \in ids THEN no ELSE e.orders[o].examined
  BY ONLY <1>0, <1>2, no \in BOOLEAN, ExaminedFacts
<1>4. \A o \in DOMAIN e.orders : o \in ids => e.orders[o].asset = a
  BY DEF Open
<1>5. z \in [buy : Nat, sell : Nat]
  OBVIOUS
<1> HIDE DEF f, ids, z
<1>6. /\ Typed(f) /\ SameMoney(g, f) /\ f.orders = g.orders
      /\ f.taken[a] = z /\ \A c \in Assets : c # a => f.taken[c] = g.taken[c]
  <2>1. Typed(g)
    BY <1>3
  <2> QED  BY ONLY <1>1, <1>5, <2>1, a \in Assets, TakenFacts
<1>7. Sound(f)
  BY <1>2, <1>3, <1>6, SoundFewer, SameOrdersSound
<1>8. ASSUME NEW c \in Assets PROVE Granted(f, c, new[c], late)
  <2>1. CASE c = a
    <3>1. Grants(new[a]).buy \in Nat /\ Grants(new[a]).sell \in Nat
      BY GrantNumbers
    <3>2. f.taken[c].buy = 0 /\ f.taken[c].sell = 0
      BY <1>6, <2>1 DEF z
    <3>3. Participating(TopSize(new[c].asks)) \in Nat /\ Participating(TopSize(new[c].bids)) \in Nat
      BY <2>1, GrantNumbers
    <3> QED  BY <3>2, <3>3 DEF Granted
  <2>2. CASE c # a
    <3>1. Granted(e, c, new[c], late)
      BY <2>2 DEF Fits
    <3>2. f.taken[c] = e.taken[c]
      BY <1>3, <1>6, <2>2
    <3>3. DOMAIN f.orders \subseteq DOMAIN e.orders
      BY <1>3, <1>6
    <3>4. \A o \in DOMAIN f.orders : /\ f.orders[o].asset = e.orders[o].asset
                                     /\ f.orders[o].side = e.orders[o].side
                                     /\ f.orders[o].price = e.orders[o].price
      BY <1>3, <1>6 DEF Fewer, Alike
    <3>5. \A side : Looked(e, c, side, new[c], late) => Looked(f, c, side, new[c], late)
      <4>1. \A side : \A o \in Open(f, c, side) :
              /\ o \in Open(e, c, side)
              /\ Crosses(f.orders[o], new[c]) => Crosses(e.orders[o], new[c])
        BY <3>3, <3>4 DEF Open, Crosses
      <4>2. \A side : \A o \in Open(e, c, side) : f.orders[o].examined = e.orders[o].examined
        BY <1>3, <1>4, <1>6, <2>2 DEF Open
      <4> QED  BY <4>1, <4>2 DEF Looked
    <3> QED  BY <3>1, <3>2, <3>5 DEF Granted
  <2> QED  BY <2>1, <2>2
<1>9. Averaged(e) => Averaged(f)
  BY <1>3, <1>6 DEF Averaged, SameMoney
<1> QED
  BY <1>7, <1>8, <1>9 DEF Fits, f

LEMMA SeenFacts ==
  ASSUME NEW e, Typed(e), NEW a \in Assets, NEW b
  PROVE  /\ Lesser(e, Seen(e, a, b))
         /\ \A o \in Looking(e, a, b) : o \in DOMAIN Seen(e, a, b).orders
         /\ \A o \in DOMAIN Seen(e, a, b).orders :
              o \in Looking(e, a, b) => Seen(e, a, b).orders[o].examined
<1> PICK yes \in BOOLEAN : yes = TRUE
  OBVIOUS
<1>0. PICK g : g = Examined(e, Looking(e, a, b), yes)
  OBVIOUS
<1> DEFINE ids == (Open(e, a, "buy") \cup Open(e, a, "sell")) \cap due
           f   == Without(g, ids)
<1>1. /\ Typed(g) /\ SameMoney(e, g) /\ g.taken = e.taken /\ Fewer(e, g)
      /\ DOMAIN g.orders = DOMAIN e.orders
      /\ \A o \in DOMAIN e.orders :
           g.orders[o].examined = IF o \in Looking(e, a, b) THEN yes ELSE e.orders[o].examined
  BY ONLY <1>0, Typed(e), yes \in BOOLEAN, ExaminedFacts
<1>2. \A o \in Looking(e, a, b) : o \in DOMAIN e.orders /\ o \notin ids
  BY DEF Looking, Open
<1>3. Seen(e, a, b) = f
  BY <1>0 DEF Seen
<1> HIDE DEF ids
<1>4. Lesser(g, f) /\ f.orders = [o \in DOMAIN g.orders \ ids |-> g.orders[o]]
  BY <1>1, WithoutFacts
<1> HIDE DEF f
<1>5. Typed(f) /\ SameMoney(e, f) /\ f.taken = e.taken
  BY <1>1, <1>4 DEF Lesser, SameMoney
<1>6. DOMAIN f.orders = DOMAIN e.orders \ ids /\ \A o \in DOMAIN f.orders : f.orders[o] = g.orders[o]
  BY <1>1, <1>4
<1>7. Fewer(e, f)
  BY <1>1, <1>6 DEF Fewer
<1>8. \A o \in DOMAIN f.orders : e.orders[o].examined => f.orders[o].examined
  BY <1>1, <1>6
<1>9. \A o \in DOMAIN f.orders : o \in Looking(e, a, b) => f.orders[o].examined
  BY <1>1, <1>6
<1> QED
  BY <1>2, <1>3, <1>5, <1>6, <1>7, <1>8, <1>9 DEF Lesser

-----------------------------------------------------------------------------
(* A version of a book looked at.                                           *)
Amount(e, a, b, side) ==
  SumFunctionOnSet(Plan(e, Crossed(e, a, b), Grants(b)), Crossed(e, a, b) \cap Open(e, a, side))

LEMMA CrossedFacts ==
  ASSUME NEW e, Typed(e), NEW a \in Assets, NEW b \in Shown
  PROVE  /\ Looking(e, a, b) \subseteq DOMAIN e.orders /\ Crossed(e, a, b) \subseteq Looking(e, a, b)
         /\ \A o \in Looking(e, a, b) : /\ e.orders[o].asset = a /\ o \notin due
                                        /\ e.orders[o].side \in {"buy", "sell"}
                                        /\ ~e.orders[o].examined
         /\ \A o \in Crossed(e, a, b) : Crosses(e.orders[o], b)
         /\ PlanFits(e, Plan(e, Crossed(e, a, b), Grants(b)))
         /\ DOMAIN Plan(e, Crossed(e, a, b), Grants(b)) = Crossed(e, a, b)
<1>1. /\ Looking(e, a, b) \subseteq DOMAIN e.orders /\ Crossed(e, a, b) \subseteq Looking(e, a, b)
      /\ \A o \in Looking(e, a, b) : /\ e.orders[o].asset = a /\ o \notin due
                                     /\ e.orders[o].side \in {"buy", "sell"}
                                     /\ ~e.orders[o].examined
      /\ \A o \in Crossed(e, a, b) : Crosses(e.orders[o], b)
  BY DEF Looking, Crossed, Open, Examines
<1>2. \A o \in Crossed(e, a, b) : Grants(b)[e.orders[o].side] \in Nat
  BY <1>1, GrantNumbers
<1>3. /\ PlanFits(e, Plan(e, Crossed(e, a, b), Grants(b)))
      /\ DOMAIN Plan(e, Crossed(e, a, b), Grants(b)) = Crossed(e, a, b)
  <2>1. Crossed(e, a, b) \subseteq DOMAIN e.orders
    BY <1>1
  <2> QED  BY ONLY <1>2, <2>1, Typed(e), PlanFacts
<1> QED
  BY <1>1, <1>3

LEMMA AmountBound ==
  ASSUME NEW e, Typed(e), NEW a \in Assets, NEW b \in Shown, NEW side \in {"buy", "sell"}
  PROVE  /\ Amount(e, a, b, side) \in Nat /\ Amount(e, a, b, side) <= Grants(b)[side]
         /\ Crossed(e, a, b) \cap Open(e, a, side) = {} => Amount(e, a, b, side) = 0
<1> DEFINE ids  == Crossed(e, a, b)
           C    == ids \cap Open(e, a, side)
           plan == Plan(e, ids, Grants(b))
           want == Remaining(e)
<1>1. /\ ids \subseteq DOMAIN e.orders /\ C \subseteq ids
      /\ \A o \in ids : e.orders[o].asset = a
      /\ PlanFits(e, plan) /\ DOMAIN plan = ids
  BY CrossedFacts
<1>2. IsFiniteSet(C) /\ C \subseteq Nat /\ \A o \in C : want[o] \in Nat /\ plan[o] \in Nat
  <2>1. /\ DOMAIN e.orders \subseteq Ids /\ IsFiniteSet(DOMAIN e.orders)
        /\ \A o \in DOMAIN e.orders : want[o] \in Nat
    BY OrdersTyped
  <2>2. C \subseteq DOMAIN e.orders /\ \A o \in C : plan[o] \in Nat
    BY <1>1 DEF PlanFits
  <2> QED  BY <2>1, <2>2, FS_Subset, PaperAssumption
<1>3. Grants(b)[side] \in Nat
  BY GrantNumbers
<1>4. \A o \in C : plan[o] = Share(want[o], Grants(b)[side] - SumFunctionOnSet(want, {p \in C : p < o}))
  <2> SUFFICES ASSUME NEW o \in C
               PROVE  plan[o] = Share(want[o], Grants(b)[side] - SumFunctionOnSet(want, {p \in C : p < o}))
    OBVIOUS
  <2>1. o \in ids /\ e.orders[o].side = side
    BY DEF Open
  <2>2. Before(e, ids, o) = {p \in C : p < o}
    <3>1. \A p \in ids : e.orders[p].side = side <=> p \in C
      BY <1>1 DEF Open
    <3> HIDE DEF C, ids
    <3> QED  BY <1>1, <2>1, <3>1 DEF Before
  <2>3. want[o] = e.orders[o].remaining
    BY <1>1, <2>1, OrdersTyped
  <2>4. plan[o] = Share(e.orders[o].remaining, Left(e, ids, Grants(b), o))
    BY <2>1 DEF Plan
  <2>5. Left(e, ids, Grants(b), o) = Grants(b)[side] - SumFunctionOnSet(want, {p \in C : p < o})
    BY <2>1, <2>2 DEF Left
  <2> QED  BY <2>3, <2>4, <2>5
<1>5. Amount(e, a, b, side) = SumFunctionOnSet(plan, C)
  BY DEF Amount
<1>6. C = {} => Amount(e, a, b, side) = 0
  BY <1>5, SumEmpty
<1> HIDE DEF plan, C, want, ids
<1>7. \A o \in C : want[o] \in Nat
  BY <1>2
<1>8. SumFunctionOnSet(plan, C) <= Grants(b)[side]
  BY ONLY <1>2, <1>3, <1>4, <1>7, SharedOut
<1>9. SumFunctionOnSet(plan, C) \in Nat
  BY <1>2, SumNonNegative
<1> QED
  BY <1>5, <1>6, <1>8, <1>9 DEF C, ids

LEMMA BookFacts ==
  ASSUME NEW e, NEW bk, Fits(e, bk, due), NEW a \in Assets, bk[a] \in Shown,
         NEW s \in BookProcessed(e, a, bk[a])
  PROVE  Fits(s, bk, due)
<1>1. PICK b \in Shown : b = bk[a]
  OBVIOUS
<1> DEFINE plan == Plan(e, Crossed(e, a, b), Grants(b))
           seen == Seen(e, a, b)
           x(side) == Amount(e, a, b, side)
<1>2. Typed(e) /\ Sound(e) /\ \A c \in Assets : Granted(e, c, bk[c], due)
  BY DEF Fits, Sound
<1>3. PICK f \in Filled(seen, plan) :
        s = [f EXCEPT !.taken[a].buy = @ + x("buy"), !.taken[a].sell = @ + x("sell")]
  BY <1>1 DEF BookProcessed, Amount
<1>4. /\ Lesser(e, seen)
      /\ \A o \in Looking(e, a, b) : o \in DOMAIN seen.orders
      /\ \A o \in DOMAIN seen.orders : o \in Looking(e, a, b) => seen.orders[o].examined
  BY <1>2, SeenFacts
<1>5. /\ Looking(e, a, b) \subseteq DOMAIN e.orders /\ Crossed(e, a, b) \subseteq Looking(e, a, b)
      /\ \A o \in Looking(e, a, b) : e.orders[o].asset = a /\ o \notin due /\ ~e.orders[o].examined
      /\ \A o \in Crossed(e, a, b) : Crosses(e.orders[o], b)
      /\ PlanFits(e, plan) /\ DOMAIN plan = Crossed(e, a, b)
  BY <1>2, CrossedFacts
<1>6. x("buy") \in Nat /\ x("buy") <= Grants(b)["buy"] /\ x("sell") \in Nat /\ x("sell") <= Grants(b)["sell"]
  BY <1>2, AmountBound
<1>7. \A side \in {"buy", "sell"} : Crossed(e, a, b) \cap Open(e, a, side) = {} => x(side) = 0
  BY <1>2, AmountBound
<1> HIDE DEF plan, seen, x
<1>8. PlanFits(seen, plan)
  BY <1>4, <1>5 DEF PlanFits, Lesser, Fewer, Alike
<1>9. Sound(seen)
  BY <1>2, <1>4, LesserFits
<1>10. Sound(f) /\ Took(seen, f)
  BY <1>3, <1>8, <1>9, FilledFacts
<1>11. Typed(f) /\ f.taken = e.taken
  BY <1>4, <1>10 DEF Sound, Took, Lesser
<1>12. e.taken[a] \in [buy : Nat, sell : Nat]
  BY <1>2 DEF Typed
<1>13. PICK z \in [buy : Nat, sell : Nat] :
         z.buy = e.taken[a].buy + x("buy") /\ z.sell = e.taken[a].sell + x("sell")
  <2>1. [buy |-> e.taken[a].buy + x("buy"), sell |-> e.taken[a].sell + x("sell")] \in [buy : Nat, sell : Nat]
    BY <1>6, <1>12
  <2> QED  BY <2>1
<1>14. s = WithTaken(f, a, z)
  <2>1. [[f.taken[a] EXCEPT !.buy = @ + x("buy")] EXCEPT !.sell = @ + x("sell")] = z
    BY <1>11, <1>12, <1>13
  <2>2. f.taken \in [Assets -> [buy : Nat, sell : Nat]]
    BY <1>11 DEF Typed
  <2>3. s = [f EXCEPT !.taken = [f.taken EXCEPT ![a] = z]]
    BY <1>3, <2>1, <2>2, <1>11
  <2> QED  BY <2>3 DEF WithTaken
<1>15. /\ Typed(s) /\ SameMoney(f, s) /\ s.orders = f.orders
       /\ s.taken[a] = z /\ \A c \in Assets : c # a => s.taken[c] = f.taken[c]
  BY ONLY <1>11, <1>14, a \in Assets, TakenFacts
<1>16. Sound(s)
  BY <1>10, <1>15, SameOrdersSound
<1>17. DOMAIN s.orders = DOMAIN f.orders /\ DOMAIN f.orders \subseteq DOMAIN seen.orders
       /\ DOMAIN seen.orders \subseteq DOMAIN e.orders
  BY <1>4, <1>10, <1>15 DEF Took, Lesser, Fewer
<1>18. ASSUME NEW o \in DOMAIN s.orders
       PROVE  /\ s.orders[o].asset = e.orders[o].asset
              /\ s.orders[o].side = e.orders[o].side
              /\ s.orders[o].price = e.orders[o].price
  <2>1. o \in DOMAIN f.orders /\ o \in DOMAIN seen.orders
    BY <1>17
  <2>2. /\ s.orders[o].asset = seen.orders[o].asset
        /\ s.orders[o].side = seen.orders[o].side
        /\ s.orders[o].price = seen.orders[o].price
    BY <1>10, <1>15, <2>1 DEF Took
  <2> QED  BY <1>4, <2>1, <2>2 DEF Lesser, Fewer, Alike
<1>19. ASSUME NEW o \in DOMAIN s.orders, e.orders[o].examined PROVE s.orders[o].examined
  <2>1. o \in DOMAIN f.orders /\ o \in DOMAIN seen.orders
    BY <1>17
  <2>2. s.orders[o].examined = seen.orders[o].examined
    BY <1>10, <1>15, <2>1 DEF Took
  <2> QED  BY <1>4, <1>19, <2>1, <2>2 DEF Lesser
<1>20. ASSUME NEW o \in DOMAIN s.orders, o \in Looking(e, a, b) PROVE s.orders[o].examined
  <2>1. o \in DOMAIN f.orders /\ o \in DOMAIN seen.orders
    BY <1>17
  <2>2. s.orders[o].examined = seen.orders[o].examined
    BY <1>10, <1>15, <2>1 DEF Took
  <2> QED  BY <1>4, <1>20, <2>1, <2>2
<1>21. ASSUME NEW c \in Assets, c # a PROVE Granted(s, c, bk[c], due)
  <2>1. s.taken[c] = e.taken[c]
    BY <1>11, <1>15, <1>21
  <2>2. Granted(e, c, bk[c], due)
    BY <1>2
  <2>3. \A o \in DOMAIN s.orders : /\ s.orders[o].asset = e.orders[o].asset
                                   /\ s.orders[o].side = e.orders[o].side
                                   /\ s.orders[o].price = e.orders[o].price
                                   /\ e.orders[o].examined => s.orders[o].examined
    BY <1>18, <1>19
  <2>4. DOMAIN s.orders \subseteq DOMAIN e.orders /\ Typed(e) /\ Typed(s)
    BY <1>2, <1>15, <1>17
  <2> QED  BY ONLY <2>1, <2>2, <2>3, <2>4, c \in Assets, GrantedFewer
<1>22. \A side : Looked(e, a, side, b, due) => Looked(s, a, side, b, due)
  <2>1. \A side : \A o \in Open(s, a, side) :
          /\ o \in Open(e, a, side) /\ o \in DOMAIN s.orders
          /\ Crosses(s.orders[o], b) => Crosses(e.orders[o], b)
    BY <1>17, <1>18 DEF Open, Crosses
  <2> QED  BY <1>19, <2>1 DEF Looked
<1>23. ASSUME NEW side \in {"buy", "sell"}, x(side) > 0 PROVE Looked(s, a, side, b, due)
  <2>1. PICK o \in Crossed(e, a, b) : TRUE
    BY <1>7, <1>23
  <2>2. b.tradeable
    BY <1>5, <2>1 DEF Looking
  <2>3. \A p \in Open(e, a, side) : p \in due \/ e.orders[p].examined \/ p \in Looking(e, a, b)
    BY <2>2 DEF Looking, Examines
  <2>4. \A p \in Open(s, a, side) : p \in Open(e, a, side) /\ p \in DOMAIN s.orders
    BY <1>17, <1>18 DEF Open
  <2> QED  BY <1>19, <1>20, <2>3, <2>4 DEF Looked
<1>24. ASSUME NEW side \in {"buy", "sell"}, Looked(e, a, side, b, due) PROVE x(side) = 0
  <2>1. \A o \in Crossed(e, a, b) : o \notin Open(e, a, side)
    BY <1>5, <1>24 DEF Looked
  <2> QED  BY <1>7, <2>1
<1>25. Granted(e, a, b, due)
  BY <1>1, <1>2
<1>26. /\ Grants(b)["buy"] = Participating(TopSize(b.asks)) /\ Grants(b)["buy"] \in Nat
       /\ Grants(b)["sell"] = Participating(TopSize(b.bids)) /\ Grants(b)["sell"] \in Nat
  BY GrantNumbers
<1>27. z.buy <= Grants(b)["buy"] /\ (z.buy > 0 => Looked(s, a, "buy", b, due))
  <2>1. e.taken[a].buy \in Nat
    BY <1>12
  <2>2. CASE e.taken[a].buy = 0
    BY <1>6, <1>13, <1>23, <2>2
  <2>3. CASE e.taken[a].buy > 0
    <3>1. Looked(e, a, "buy", b, due) /\ e.taken[a].buy <= Grants(b)["buy"]
      BY <1>25, <1>26, <2>3 DEF Granted
    <3>2. x("buy") = 0
      BY <1>24, <3>1
    <3> QED  BY <1>13, <1>22, <2>1, <3>1, <3>2
  <2> QED  BY <2>1, <2>2, <2>3
<1>28. z.sell <= Grants(b)["sell"] /\ (z.sell > 0 => Looked(s, a, "sell", b, due))
  <2>1. e.taken[a].sell \in Nat
    BY <1>12
  <2>2. CASE e.taken[a].sell = 0
    BY <1>6, <1>13, <1>23, <2>2
  <2>3. CASE e.taken[a].sell > 0
    <3>1. Looked(e, a, "sell", b, due) /\ e.taken[a].sell <= Grants(b)["sell"]
      BY <1>25, <1>26, <2>3 DEF Granted
    <3>2. x("sell") = 0
      BY <1>24, <3>1
    <3> QED  BY <1>13, <1>22, <2>1, <3>1, <3>2
  <2> QED  BY <2>1, <2>2, <2>3
<1>29. Granted(s, a, b, due)
  BY <1>15, <1>26, <1>27, <1>28 DEF Granted
<1> QED
  BY <1>1, <1>16, <1>21, <1>29 DEF Fits

-----------------------------------------------------------------------------
(* A trade, and the sale of all positions.                                  *)
LEMMA FilledFits ==
  ASSUME NEW e, NEW bk, NEW late, Fits(e, bk, late), NEW plan, PlanFits(e, plan),
         NEW r \in Filled(e, plan)
  PROVE  Fits(r, bk, late)
<1>1. Sound(e) /\ Typed(e)
  BY DEF Fits, Sound
<1>2. Sound(r) /\ Took(e, r)
  BY <1>1, FilledFacts
<1>3. ASSUME NEW a \in Assets PROVE Granted(r, a, bk[a], late)
  <2>1. Granted(e, a, bk[a], late) /\ Typed(r) /\ DOMAIN r.orders \subseteq DOMAIN e.orders
    BY <1>2 DEF Fits, Sound, Took
  <2>2. \A o \in DOMAIN r.orders : /\ r.orders[o].asset = e.orders[o].asset
                                   /\ r.orders[o].side = e.orders[o].side
                                   /\ r.orders[o].price = e.orders[o].price
                                   /\ e.orders[o].examined => r.orders[o].examined
    BY <1>2 DEF Took
  <2>3. r.taken[a] = e.taken[a]
    BY <1>2 DEF Took
  <2> QED  BY ONLY <1>1, <2>1, <2>2, <2>3, a \in Assets, GrantedFewer
<1> QED
  BY <1>2, <1>3 DEF Fits

LEMMA TradeFacts ==
  ASSUME NEW e, NEW bk, NEW late, Fits(e, bk, late), NEW a \in Assets, NEW t \in Trades,
         NEW s \in TradeProcessed(e, a, t)
  PROVE  Fits(s, bk, late)
<1> DEFINE through == Through(e, a, t)
           liquidity == [x \in {Resting(t)} |-> Participating(t.size)]
           marked == {o \in Waiting(e, a, t) : Left(e, through, liquidity, o) > 0}
           X == [o \in DOMAIN e.orders |->
                   IF o \in marked THEN [e.orders[o] EXCEPT !.traded = TRUE] ELSE e.orders[o]]
           plan == Plan(e, through, liquidity)
<1>1. Typed(e) /\ Sound(e)
  BY DEF Fits, Sound
<1>2. PICK m : m = [e EXCEPT !.orders = X]
  OBVIOUS
<1>3. s \in Filled(m, plan)
  BY <1>2 DEF TradeProcessed
<1>4. X = [o \in DOMAIN X |-> X[o]] /\ DOMAIN X = DOMAIN e.orders
  OBVIOUS
<1>5. \A o \in DOMAIN X : \/ X[o] = e.orders[o]
                          \/ \E yes \in BOOLEAN : X[o] = [e.orders[o] EXCEPT !.traded = yes]
  OBVIOUS
<1>6. PlanFits(e, plan)
  <2>1. Participating(t.size) \in Nat
    <3>1. t.size \in Nat /\ Participation \in Nat
      BY PaperAssumption
    <3> QED  BY <3>1, MulFacts DEF Participating
  <2>2. through \subseteq DOMAIN e.orders /\ \A o \in through : e.orders[o].side = Resting(t)
    BY DEF Through, Waiting, Open
  <2>3. \A o \in through : liquidity[e.orders[o].side] \in Nat
    BY <2>1, <2>2
  <2> HIDE DEF through, liquidity
  <2> QED  BY <1>1, <2>2, <2>3, PlanFacts
<1> HIDE DEF X, plan
<1>7. Lesser(e, m)
  BY ONLY <1>1, <1>2, <1>4, <1>5, TradedFacts
<1>8. m.orders = X
  BY <1>1, <1>2 DEF Typed
<1>9. Fits(m, bk, late)
  BY <1>1, <1>7, LesserFits
<1>10. PlanFits(m, plan)
  BY <1>4, <1>6, <1>7, <1>8 DEF PlanFits, Lesser, Fewer, Alike
<1> QED
  BY <1>3, <1>9, <1>10, FilledFits

LEMMA ClipNumbers ==
  ASSUME NEW e, Typed(e), NEW a \in Assets, book[a] \in Shown
  PROVE  /\ DOMAIN Clips(e, a) = DOMAIN book[a].bids /\ DOMAIN book[a].bids = 1..Len(book[a].bids)
         /\ \A i \in DOMAIN Clips(e, a) : Clips(e, a)[i] \in Nat /\ book[a].bids[i].price \in Nat
<1> DEFINE share == [i \in DOMAIN book[a].bids |-> Participating(book[a].bids[i].size)]
<1>1. book[a].bids \in Seq(Level)
  BY DEF Shown
<1>2. DOMAIN book[a].bids = 1..Len(book[a].bids) /\ Len(book[a].bids) \in Nat
  BY <1>1
<1>3. \A i \in DOMAIN book[a].bids : book[a].bids[i].size \in Nat /\ book[a].bids[i].price \in Nat
  <2>1. \A i \in 1..Len(book[a].bids) : book[a].bids[i] \in Level
    BY <1>1
  <2> QED  BY <1>2, <2>1 DEF Level
<1>4. \A i \in DOMAIN share : share[i] \in Nat
  <2>1. Participation \in Nat
    BY PaperAssumption
  <2>2. \A i \in DOMAIN share : Participating(book[a].bids[i].size) \in Nat
    BY <1>3, <2>1, MulFacts DEF Participating
  <2> QED  BY <2>2
<1>5. DOMAIN share = 1..Len(book[a].bids)
  BY <1>2
<1>6. Clips(e, a) = [i \in DOMAIN share |->
                       Share(share[i], e.held[a] - SumFunctionOnSet(share, 1..(i - 1)))]
  BY DEF Clips
<1> HIDE DEF share
<1>7. ASSUME NEW i \in DOMAIN share PROVE Clips(e, a)[i] \in Nat
  <2>1. 1..(i - 1) \subseteq DOMAIN share /\ IsFiniteSet(1..(i - 1))
    <3>1. i \in Int /\ 1 \in Int /\ i - 1 \in Int /\ 1..(i - 1) \subseteq DOMAIN share
      BY <1>2, <1>5
    <3> QED  BY <3>1, FS_Interval
  <2>2. SumFunctionOnSet(share, 1..(i - 1)) \in Nat
    BY <1>4, <2>1, SumNonNegative
  <2>3. e.held[a] - SumFunctionOnSet(share, 1..(i - 1)) \in Int
    BY <2>2 DEF Typed
  <2> QED  BY <1>4, <1>6, <2>3, ShareFacts
<1> QED
  BY <1>2, <1>3, <1>5, <1>6, <1>7

LEMMA FlattenFillsTyped ==
  ASSUME NEW e, Typed(e), \A a \in Assets : book[a] \in Shown
  PROVE  FillsTyped(FlattenFills(e))
<1> DEFINE large == {a \in Assets : SumFunction(Clips(e, a)) >= MinOrder}
           of(a) == {<<a, i>> : i \in {j \in DOMAIN Clips(e, a) : Clips(e, a)[j] > 0}}
           clips == UNION {of(a) : a \in large}
           F == FlattenFills(e)
<1>1. F = [c \in clips |->
             [turn |-> c[2], asset |-> c[1], side |-> "sell",
              price |-> book[c[1]].bids[c[2]].price, quantity |-> Clips(e, c[1])[c[2]]]]
  BY DEF FlattenFills
<1>2. \A a \in Assets : IsFiniteSet(of(a))
  <2> SUFFICES ASSUME NEW a \in Assets PROVE IsFiniteSet(of(a))
    OBVIOUS
  <2>1. IsFiniteSet(DOMAIN Clips(e, a))
    BY ClipNumbers, FS_Interval
  <2>2. IsFiniteSet({j \in DOMAIN Clips(e, a) : Clips(e, a)[j] > 0})
    BY <2>1, FS_Subset
  <2> DEFINE J == {j \in DOMAIN Clips(e, a) : Clips(e, a)[j] > 0}
             m == [j \in J |-> <<a, j>>]
  <2>3. m \in Surjection(J, of(a))
    BY DEF Surjection
  <2> HIDE DEF m, J
  <2> QED  BY <2>2, <2>3, FS_Surjection DEF J
<1> HIDE DEF F
<1>3. IsFiniteSet(clips)
  <2>1. IsFiniteSet(large) /\ large \subseteq Assets
    BY PaperAssumption, FS_Subset
  <2> HIDE DEF large, of
  <2> DEFINE m == [a \in large |-> of(a)]
  <2>2. m \in Surjection(large, {of(a) : a \in large})
    BY DEF Surjection
  <2> HIDE DEF m
  <2>3. IsFiniteSet({of(a) : a \in large})
    BY <2>1, <2>2, FS_Surjection
  <2>4. \A x \in {of(a) : a \in large} : IsFiniteSet(x)
    BY <1>2, <2>1
  <2> QED  BY <2>3, <2>4, FS_UNION
<1>4. ASSUME NEW c \in clips
      PROVE  /\ F[c].turn \in Nat /\ F[c].asset \in Assets /\ F[c].side \in {"buy", "sell"}
             /\ F[c].quantity \in Nat \ {0} /\ F[c].price \in Nat
  <2>1. PICK a \in Assets : \E i \in DOMAIN Clips(e, a) : Clips(e, a)[i] > 0 /\ c = <<a, i>>
    OBVIOUS
  <2>2. PICK i \in DOMAIN Clips(e, a) : Clips(e, a)[i] > 0 /\ c = <<a, i>>
    BY <2>1
  <2> HIDE DEF clips
  <2>3. i \in Nat /\ Clips(e, a)[i] \in Nat /\ book[a].bids[i].price \in Nat
    BY ClipNumbers
  <2>4. F[c] = [turn |-> i, asset |-> a, side |-> "sell",
                price |-> book[a].bids[i].price, quantity |-> Clips(e, a)[i]]
    BY <1>1, <2>2
  <2> QED  BY <2>2, <2>3, <2>4
<1>5. DOMAIN F = clips
  BY <1>1
<1> HIDE DEF clips
<1> QED
  BY <1>3, <1>4, <1>5 DEF FillsTyped, F

LEMMA FlattenFacts ==
  ASSUME NEW e, NEW bk, NEW late, Fits(e, bk, late), \A a \in Assets : book[a] \in Shown,
         NEW s \in FlattenedAll(e)
  PROVE  Fits(s, bk, late)
<1>1. Typed(e) /\ Sound(e)
  BY DEF Fits, Sound
<1>2. PICK c : c = CancelAll(e)
  OBVIOUS
<1>3. Lesser(e, c) /\ DOMAIN c.orders = {}
  BY <1>1, <1>2, CancelAllFacts
<1>4. Fits(c, bk, late) /\ Sound(c) /\ Typed(c)
  BY <1>1, <1>3, LesserFits DEF Sound
<1>5. PICK fills : fills = FlattenFills(e) /\ s \in Carried(c, fills)
  BY <1>2 DEF FlattenedAll
<1>6. FillsTyped(fills)
  BY <1>1, <1>5, FlattenFillsTyped
<1>7. Filling(c, fills, DOMAIN fills, s)
  BY <1>4, <1>5, <1>6, CarriedFacts
<1>8. Typed(s) /\ Kept(c, s) /\ Backed(s) /\ DOMAIN s.orders = {}
  BY <1>3, <1>4, <1>7 DEF Filling, Sound, Kept
<1>9. \A a, side : Open(s, a, side) = {}
  BY <1>8 DEF Open
<1>10. Promised(s)
  <2>1. \A a \in Assets : ReservedPosition(s, a) = 0 /\ s.held[a] \in Nat
    BY <1>8, <1>9, SumEmpty DEF ReservedPosition, Typed
  <2> QED  BY <2>1 DEF Promised
<1>11. Apart(s)
  BY <1>9 DEF Apart
<1>12. \A a \in Assets : Granted(s, a, bk[a], late)
  BY <1>4, <1>8, <1>9 DEF Fits, Granted, Kept, Looked
<1> QED
  BY <1>8, <1>10, <1>11, <1>12 DEF Fits, Sound

-----------------------------------------------------------------------------
(* An order submitted.                                                      *)
LEMMA WithOrderParts ==
  ASSUME NEW e, Typed(e), NEW o \in Ids, o \notin DOMAIN e.orders, NEW order \in Order,
         NEW f, f = WithOrder(e, o, order)
  PROVE  /\ Typed(f) /\ SameMoney(e, f) /\ f.taken = e.taken
         /\ DOMAIN f.orders = DOMAIN e.orders \cup {o} /\ f.orders[o] = order
         /\ \A p \in DOMAIN e.orders : p # o /\ f.orders[p] = e.orders[p]
         /\ \A c, side : Open(f, c, side) =
              Open(e, c, side) \cup IF c = order.asset /\ side = order.side THEN {o} ELSE {}
<1> DEFINE X == [p \in DOMAIN e.orders \cup {o} |-> IF p = o THEN order ELSE e.orders[p]]
<1>1. X = [p \in DOMAIN X |-> X[p]] /\ DOMAIN X = DOMAIN e.orders \cup {o}
  OBVIOUS
<1>2. DOMAIN X \subseteq Ids /\ \A p \in DOMAIN X : X[p] \in Order
  BY OrdersTyped
<1>3. f = [e EXCEPT !.orders = X]
  BY DEF WithOrder
<1>4. X[o] = order /\ \A p \in DOMAIN e.orders : p # o /\ X[p] = e.orders[p]
  OBVIOUS
<1> HIDE DEF X
<1>5. X \in Orders
  BY <1>1, <1>2, OrdersMade
<1>6. Typed(f) /\ f.orders = X /\ SameMoney(e, f) /\ f.taken = e.taken
  BY <1>3, <1>5, TypedOrders
<1>7. \A c, side : Open(f, c, side) =
        Open(e, c, side) \cup IF c = order.asset /\ side = order.side THEN {o} ELSE {}
  BY <1>1, <1>4, <1>6 DEF Open
<1> QED
  BY <1>1, <1>4, <1>6, <1>7

LEMMA WithOrderFacts ==
  ASSUME NEW e, NEW bk, NEW late, Fits(e, bk, late), NEW o \in Ids, o \notin DOMAIN e.orders,
         NEW order \in Order, ~CrossesOwn(e, order.asset, order.side, order.price),
         order.side = "sell" => order.remaining <= AvailablePosition(e, order.asset),
         ~Crosses(order, bk[order.asset]),
         NEW f, f = WithOrder(e, o, order)
  PROVE  Fits(f, bk, late)
<1>1. Typed(e) /\ Promised(e) /\ Apart(e) /\ Backed(e) /\ \A a \in Assets : Granted(e, a, bk[a], late)
  BY DEF Fits, Sound
<1>2. /\ Typed(f) /\ SameMoney(e, f) /\ f.taken = e.taken
      /\ DOMAIN f.orders = DOMAIN e.orders \cup {o} /\ f.orders[o] = order
      /\ \A p \in DOMAIN e.orders : p # o /\ f.orders[p] = e.orders[p]
      /\ \A c, side : Open(f, c, side) =
           Open(e, c, side) \cup IF c = order.asset /\ side = order.side THEN {o} ELSE {}
  BY ONLY <1>1, o \in Ids, o \notin DOMAIN e.orders, order \in Order, f = WithOrder(e, o, order), WithOrderParts
<1>3. ASSUME NEW a \in Assets PROVE ReservedPosition(f, a) <= f.held[a]
  <2> DEFINE S == Open(e, a, "sell")
  <2>1. S \subseteq DOMAIN e.orders /\ IsFiniteSet(S) /\ o \notin S
    BY <1>1, OrdersTyped
  <2>2. \A p \in S : /\ Remaining(e)[p] \in Int /\ Remaining(f)[p] \in Int
                     /\ Remaining(e)[p] = Remaining(f)[p]
    BY <1>1, <1>2, <2>1, OrdersTyped
  <2>3. PICK m \in Nat : m = ReservedPosition(e, a)
    BY <1>1, ReservedNumbers
  <2> HIDE DEF S
  <2>4. SumFunctionOnSet(Remaining(f), S) = m
    BY <2>1, <2>2, <2>3, SumSame DEF ReservedPosition, S
  <2>5. PICK h \in Nat : h = e.held[a] /\ h = f.held[a]
    BY <1>1, <1>2 DEF Typed, SameMoney
  <2>6. m <= h
    BY <1>1, <2>3, <2>5 DEF Promised
  <2>7. CASE a = order.asset /\ order.side = "sell"
    <3>1. Open(f, a, "sell") = S \cup {o}
      BY <1>2, <2>7 DEF S
    <3>2. Remaining(f)[o] = order.remaining /\ order.remaining \in Int
      BY <1>2 DEF Remaining, Order
    <3>3. \A p \in S \cup {o} : Remaining(f)[p] \in Int
      BY <2>2, <3>2
    <3>4. SumFunctionOnSet(Remaining(f), S \cup {o})
            = Remaining(f)[o] + SumFunctionOnSet(Remaining(f), S)
      BY ONLY <2>1, <3>3, SumWith
    <3>5. ReservedPosition(f, a) = order.remaining + m
      BY <2>4, <3>1, <3>2, <3>4 DEF ReservedPosition
    <3>6. order.remaining <= h - m
      BY <2>3, <2>5, <2>7 DEF AvailablePosition
    <3> QED  BY <2>5, <3>2, <3>5, <3>6
  <2>8. CASE ~(a = order.asset /\ order.side = "sell")
    <3>1. Open(f, a, "sell") = S
      <4>1. Open(f, a, "sell") = Open(e, a, "sell")
              \cup IF a = order.asset /\ "sell" = order.side THEN {o} ELSE {}
        BY <1>2
      <4> QED  BY <2>8, <4>1 DEF S
    <3> QED  BY <2>4, <2>5, <2>6, <3>1 DEF ReservedPosition
  <2> QED  BY <2>7, <2>8
<1>4. Apart(f)
  <2> SUFFICES ASSUME NEW a \in Assets, NEW b \in Open(f, a, "buy"), NEW s \in Open(f, a, "sell")
               PROVE  f.orders[b].price < f.orders[s].price
    BY DEF Apart
  <2>1. order.price \in Int /\ \A p \in DOMAIN e.orders : e.orders[p].price \in Int
    BY <1>1, OrdersTyped, PaperAssumption DEF Order
  <2>2. \A c, side : Open(e, c, side) \subseteq DOMAIN e.orders
    BY DEF Open
  <2>3. order.side \in {"buy", "sell"}
    BY DEF Order
  <2>4. CASE b \in Open(e, a, "buy") /\ s \in Open(e, a, "sell")
    BY <1>1, <1>2, <2>2, <2>4 DEF Apart
  <2>5. CASE b \notin Open(e, a, "buy")
    <3>1. b = o /\ a = order.asset /\ order.side = "buy"
      BY <1>2, <2>5
    <3>2. s \in Open(e, a, "sell")
      BY <1>2, <3>1
    <3>3. ~(order.price >= e.orders[s].price)
      BY <3>1, <3>2 DEF CrossesOwn
    <3> QED  BY <1>2, <2>1, <2>2, <3>1, <3>2, <3>3
  <2>6. CASE s \notin Open(e, a, "sell")
    <3>1. s = o /\ a = order.asset /\ order.side = "sell"
      BY <1>2, <2>6
    <3>2. b \in Open(e, a, "buy")
      BY <1>2, <3>1
    <3>3. ~(order.price <= e.orders[b].price)
      BY <3>1, <3>2 DEF CrossesOwn
    <3> QED  BY <1>2, <2>1, <2>2, <3>1, <3>2, <3>3
  <2> QED  BY <2>4, <2>5, <2>6
<1>5. Backed(f)
  <2>1. Costs(f) = Costs(e)
    BY <1>2 DEF Costs, SameMoney
  <2> QED  BY <1>1, <1>2, <2>1 DEF Backed, SameMoney
<1>6. ASSUME NEW a \in Assets PROVE Granted(f, a, bk[a], late)
  <2>1. Granted(e, a, bk[a], late)
    BY <1>1
  <2>2. \A side : Looked(e, a, side, bk[a], late) => Looked(f, a, side, bk[a], late)
    <3> SUFFICES ASSUME NEW side, Looked(e, a, side, bk[a], late), NEW p \in Open(f, a, side)
                 PROVE  p \in late \/ f.orders[p].examined \/ ~Crosses(f.orders[p], bk[a])
      BY DEF Looked
    <3>1. CASE p \in Open(e, a, side)
      <4>1. p \in DOMAIN e.orders
        BY <3>1 DEF Open
      <4> QED  BY <1>2, <3>1, <4>1 DEF Looked
    <3>2. CASE p \notin Open(e, a, side)
      BY <1>2, <3>2
    <3> QED  BY <3>1, <3>2
  <2> QED  BY <1>2, <2>1, <2>2 DEF Granted
<1> QED
  BY <1>2, <1>3, <1>4, <1>5, <1>6 DEF Fits, Sound, Promised

(* The identifier of an order that e does not have tells nothing of e.      *)
LEMMA FitsWithoutDue ==
  ASSUME NEW e, NEW bk, NEW late, Fits(e, bk, late), NEW o, o \notin DOMAIN e.orders
  PROVE  Fits(e, bk, late \ {o})
<1>1. \A a, side : Looked(e, a, side, bk[a], late) => Looked(e, a, side, bk[a], late \ {o})
  BY DEF Looked, Open
<1> QED
  BY <1>1 DEF Fits, Granted

-----------------------------------------------------------------------------
(* The inductive invariant: the engine in memory and the one a restart      *)
(* would find are sound, fit the books and pay no more than 1 on average.   *)
Outcomes == {"running", "shutdown", "journal", "fill", "state", "reserve"}
Good(e, bk, late) == Fits(e, bk, late) /\ Averaged(e)

EnvTyped ==
  /\ book \in [Assets -> Shown] /\ due \subseteq Ids /\ turn \subseteq Assets
  /\ poisoned \in BOOLEAN /\ paused \in BOOLEAN
  /\ outcome \in Outcomes /\ submitted \in 0..MaxOrders

PaperInv == EnvTyped /\ Good(engine, book, due) /\ Good(durable, book, due)

(* The levels alone matter, and an order more that is due does not.         *)
LEMMA GoodSameLevels ==
  ASSUME NEW e, NEW bk, NEW new, NEW late, Good(e, bk, late),
         \A a \in Assets : new[a].bids = bk[a].bids /\ new[a].asks = bk[a].asks
  PROVE  Good(e, new, late)
<1>1. \A a \in Assets : \A order : Crosses(order, new[a]) <=> Crosses(order, bk[a])
  BY DEF Crosses
<1>2. \A a \in Assets : \A side : Looked(e, a, side, bk[a], late) => Looked(e, a, side, new[a], late)
  BY <1>1 DEF Looked
<1> QED
  BY <1>2 DEF Good, Fits, Granted

LEMMA GoodMoreDue ==
  ASSUME NEW e, NEW bk, NEW late, Good(e, bk, late), NEW more, late \subseteq more
  PROVE  Good(e, bk, more)
<1>1. \A a, side : Looked(e, a, side, bk[a], late) => Looked(e, a, side, bk[a], more)
  BY DEF Looked
<1> QED
  BY <1>1 DEF Good, Fits, Granted

LEMMA GoodLesser ==
  ASSUME NEW e, NEW f, NEW bk, NEW late, Good(e, bk, late), Lesser(e, f)
  PROVE  Good(f, bk, late)
<1>1. Typed(e)
  BY DEF Good, Fits, Sound
<1> QED
  BY <1>1, LesserFits DEF Good

LEMMA GoodTyped == ASSUME NEW e, NEW bk, NEW late, Good(e, bk, late) PROVE Typed(e)
BY DEF Good, Fits, Sound

LEMMA StateValidAveraged == ASSUME NEW e, StateValid(e) PROVE Averaged(e)
BY DEF StateValid, Averaged

-----------------------------------------------------------------------------
(* What ends a handler: the end of the runtime or the commit.               *)
After(bk, late) ==
  /\ Good(engine', bk, late) /\ Good(durable', bk, late)
  /\ poisoned' \in BOOLEAN /\ outcome' \in Outcomes

LEMMA StoppedFacts ==
  ASSUME NEW why \in Outcomes, NEW found, NEW bk, NEW late,
         \A e \in found : Good(e, bk, late), Stopped(why, found)
  PROVE  After(bk, late) /\ turn' = {}
<1>1. \A e \in found : Good(CancelAll(e), bk, late)
  BY GoodTyped, CancelAllFacts, GoodLesser
<1>2. durable' \in found \cup {CancelAll(e) : e \in found}
  BY DEF Stopped
<1>3. engine' \in found /\ poisoned' = FALSE /\ outcome' = why /\ turn' = {}
  BY DEF Stopped
<1>4. Good(engine', bk, late) /\ Good(durable', bk, late)
  BY <1>1, <1>2, <1>3
<1> QED
  BY <1>3, <1>4 DEF After

LEMMA CommitFacts ==
  ASSUME NEW bk, NEW late, NEW current, NEW found, NEW staged,
         Good(current, bk, late), Good(found, bk, late), \A s \in staged : Fits(s, bk, late),
         poisoned \in BOOLEAN, outcome \in Outcomes, Commit(current, found, staged)
  PROVE  After(bk, late)
<1>1. CASE Stopped("fill", {found})
  BY <1>1, StoppedFacts DEF Outcomes
<1>2. CASE engine' = current /\ durable' = found /\ UNCHANGED <<poisoned, outcome>>
  BY <1>2 DEF After
<1>3. ASSUME NEW s \in staged,
             \/ ~StateValid(s) /\ Stopped("state", {found})
             \/ /\ StateValid(s) /\ ~poisoned
                /\ engine' = s /\ durable' = s
                /\ UNCHANGED <<poisoned, outcome>>
             \/ /\ StateValid(s) /\ (WriteFails \/ poisoned)
                /\ Stopped("journal", IF poisoned THEN {found} ELSE {found, s})
      PROVE  After(bk, late)
  <2>1. StateValid(s) => Good(s, bk, late)
    BY StateValidAveraged DEF Good
  <2>2. CASE Stopped("state", {found})
    BY <2>2, StoppedFacts DEF Outcomes
  <2>3. CASE StateValid(s) /\ engine' = s /\ durable' = s /\ UNCHANGED <<poisoned, outcome>>
    BY <2>1, <2>3 DEF After
  <2>4. CASE StateValid(s) /\ Stopped("journal", IF poisoned THEN {found} ELSE {found, s})
    <3>1. PICK all : all = IF poisoned THEN {found} ELSE {found, s}
      OBVIOUS
    <3>2. \A e \in all : Good(e, bk, late)
      BY <2>1, <2>4, <3>1
    <3>3. Stopped("journal", all)
      BY <2>4, <3>1
    <3> QED  BY <3>2, <3>3, StoppedFacts DEF Outcomes
  <2> QED  BY <1>3, <2>2, <2>3, <2>4
<1> QED
  BY <1>1, <1>2, <1>3 DEF Commit

LEMMA CommandFacts ==
  ASSUME NEW bk, NEW late, NEW staged, Good(engine, bk, late), Good(durable, bk, late),
         \A s \in staged : Fits(s, bk, late), poisoned \in BOOLEAN, Command(staged)
  PROVE  Good(engine', bk, late) /\ Good(durable', bk, late) /\ poisoned' \in BOOLEAN
<1>1. PICK s \in staged :
        \/ /\ StateValid(s) /\ ~poisoned
           /\ engine' = s /\ durable' = s /\ UNCHANGED poisoned
        \/ /\ StateValid(s) /\ WriteFails /\ ~poisoned
           /\ durable' \in {durable, s} /\ poisoned' = TRUE /\ UNCHANGED engine
  BY DEF Command
<1>2. Good(s, bk, late)
  BY <1>1, StateValidAveraged DEF Good
<1> QED
  BY <1>1, <1>2

(* submit_paper_intent. *)
LEMMA SubmitFacts ==
  ASSUME PaperInv, NEW a \in Assets, NEW side \in {"buy", "sell"}, NEW price, NEW size \in Nat,
         NEW strategy \in {"maker", "copy"}, SubmitIntent(a, side, price, size, strategy)
  PROVE  After(book, due') /\ due' \subseteq Ids /\ submitted' \in 0..MaxOrders
<1>1. CASE Stopped("reserve", {durable}) /\ UNCHANGED <<due, submitted>>
  <2>1. Good(durable, book, due)
    BY DEF PaperInv
  <2>2. After(book, due)
    BY <1>1, <2>1, StoppedFacts DEF Outcomes
  <2> QED  BY <1>1, <2>2 DEF PaperInv, EnvTyped
<1>2. ASSUME submitted < MaxOrders, submitted' = submitted + 1,
             Admissible(a, side, price, size),
             NEW o \in Ids \ (DOMAIN engine.orders \cup DOMAIN durable.orders),
             LET order == [asset |-> a, side |-> side, strategy |-> strategy,
                           price |-> price, remaining |-> size,
                           examined |-> FALSE, traded |-> TRUE]
             IN /\ due' = due \ {o}
                /\ Commit(engine, durable, {WithOrder(engine, o, order)})
      PROVE  After(book, due') /\ due' \subseteq Ids /\ submitted' \in 0..MaxOrders
  <2>1. PICK order : order = [asset |-> a, side |-> side, strategy |-> strategy,
                              price |-> price, remaining |-> size,
                              examined |-> FALSE, traded |-> TRUE]
    OBVIOUS
  <2>2. PICK late : late = due \ {o}
    OBVIOUS
  <2>3. due' = late /\ Commit(engine, durable, {WithOrder(engine, o, order)})
    BY <1>2, <2>1, <2>2
  <2>4. price \in 1..(One - 1) /\ size \in Nat \ {0}
    BY <1>2, PaperAssumption DEF Admissible
  <2>5. /\ order \in Order /\ order.asset = a /\ order.side = side /\ order.price = price
        /\ order.remaining = size
    BY <2>1, <2>4 DEF Order
  <2>6. /\ ~CrossesOwn(engine, order.asset, order.side, order.price)
        /\ order.side = "sell" => order.remaining <= AvailablePosition(engine, order.asset)
    BY <1>2, <2>5 DEF Admissible, Covered
  <2>7. ~Crosses(order, book[order.asset])
    <3>1. book[a].bids \in Seq(Level) /\ book[a].asks \in Seq(Level)
      BY DEF PaperInv, EnvTyped, Shown
    <3>2. book[a].bids # <<>> /\ book[a].asks # <<>>
      BY <1>2 DEF Admissible
    <3>3. book[a].bids[1] \in Level /\ book[a].asks[1] \in Level
      BY <3>1, <3>2
    <3>4. book[a].bids[1].price \in Int /\ book[a].asks[1].price \in Int /\ price \in Int
      BY <2>4, <3>3, PaperAssumption DEF Level
    <3>5. IF side = "buy" THEN price < book[a].asks[1].price ELSE price > book[a].bids[1].price
      BY <1>2 DEF Admissible
    <3> QED  BY <2>5, <3>4, <3>5 DEF Crosses
  <2>8. Good(engine, book, late) /\ Good(durable, book, late)
    BY <1>2, <2>2, FitsWithoutDue DEF PaperInv, Good
  <2>9. PICK f : f = WithOrder(engine, o, order)
    OBVIOUS
  <2>10. Fits(engine, book, late) /\ o \in Ids /\ o \notin DOMAIN engine.orders
    BY <1>2, <2>8 DEF Good
  <2>11. Fits(f, book, late)
    BY ONLY <2>5, <2>6, <2>7, <2>9, <2>10, WithOrderFacts
  <2>12. poisoned \in BOOLEAN /\ outcome \in Outcomes
    BY DEF PaperInv, EnvTyped
  <2>13. After(book, late)
    BY <2>3, <2>8, <2>9, <2>11, <2>12, CommitFacts
  <2> QED  BY <1>2, <2>2, <2>3, <2>13, PaperAssumption DEF PaperInv, EnvTyped
<1> QED
  BY <1>1, <1>2 DEF SubmitIntent

-----------------------------------------------------------------------------
LEMMA PaperInit == Init => PaperInv
<1> SUFFICES ASSUME Init PROVE PaperInv
  OBVIOUS
<1>1. EnvTyped
  <2>1. <<>> \in Seq(Level)
    OBVIOUS
  <2>2. book \in [Assets -> Shown]
    BY <2>1 DEF Init, Shown
  <2>3. submitted \in 0..MaxOrders
    BY PaperAssumption DEF Init
  <2>4. poisoned \in BOOLEAN /\ paused \in BOOLEAN
    BY DEF Init
  <2> QED  BY <2>2, <2>3, <2>4 DEF Init, EnvTyped, Outcomes
<1>2. PICK e : e = NewEngine
  OBVIOUS
<1>3. /\ e.cash = StartingCash /\ e.realized = 0 /\ e.orders = <<>>
      /\ \A a \in Assets : e.held[a] = 0 /\ e.average[a] = 0
      /\ \A a \in Assets : e.taken[a].buy = 0 /\ e.taken[a].sell = 0
  BY <1>2 DEF NewEngine
<1>4. Typed(e)
  <2>1. PICK X : X = <<>>
    OBVIOUS
  <2>2. X = [o \in DOMAIN X |-> X[o]] /\ DOMAIN X = {}
    BY <2>1
  <2>3. X \in Orders
    BY <2>2, OrdersMade
  <2>4. /\ [a \in Assets |-> 0] \in [Assets -> Nat]
        /\ [a \in Assets |-> [buy |-> 0, sell |-> 0]] \in [Assets -> [buy : Nat, sell : Nat]]
    OBVIOUS
  <2> QED  BY <1>2, <2>1, <2>3, <2>4, PaperAssumption DEF Typed, NewEngine
<1>5. \A a, side : Open(e, a, side) = {}
  BY <1>3 DEF Open
<1>6. Promised(e)
  <2>1. \A a \in Assets : ReservedPosition(e, a) = 0
    BY <1>5, SumEmpty DEF ReservedPosition
  <2> QED  BY <1>3, <2>1 DEF Promised
<1>7. Backed(e)
  <2>1. Mul(0, 0) = 0
    <3>1. One \in Nat \ {0}
      BY PaperAssumption
    <3>2. 0 \div One \in Nat /\ One * (0 \div One) <= 0
      BY <3>1, Quotient
    <3>3. 0 \div One <= 0
      BY <3>1, QuotientLeq
    <3> QED  BY <3>2, <3>3 DEF Mul
  <2>2. \A a \in Assets : Costs(e)[a] = 0
    BY <1>3, <2>1 DEF Costs
  <2>3. SumFunctionOnSet(Costs(e), Assets) = SumFunctionOnSet(Costs(e), {})
    BY <2>2, SumSupport, PaperAssumption
  <2>4. SumFunctionOnSet(Costs(e), Assets) = 0
    BY <2>3, SumEmpty
  <2> QED  BY <1>3, <2>4, PaperAssumption DEF Backed
<1>8. Apart(e)
  BY <1>5 DEF Apart
<1>9. ASSUME NEW a \in Assets PROVE Granted(e, a, book[a], due)
  <2>1. book[a] \in Shown
    BY <1>1 DEF EnvTyped
  <2>2. Participating(TopSize(book[a].asks)) \in Nat /\ Participating(TopSize(book[a].bids)) \in Nat
    BY <2>1, GrantNumbers
  <2> QED  BY <1>3, <2>2 DEF Granted
<1>10. Averaged(e)
  BY <1>3, PaperAssumption DEF Averaged
<1>11. Good(e, book, due)
  BY <1>4, <1>6, <1>7, <1>8, <1>9, <1>10 DEF Good, Fits, Sound
<1> QED
  BY <1>1, <1>2, <1>11 DEF PaperInv, Init

-----------------------------------------------------------------------------
(* One lemma for each event or command that changes an engine.              *)
LEMMA BookEventStep ==
  ASSUME PaperInv, NEW a \in Assets, NEW b \in Books, NEW again \in BOOLEAN, BookEvent(a, b, again)
  PROVE  PaperInv'
<1> PICK bk : bk = book'
  OBVIOUS
<1>1. PICK next : next = [bids |-> b.bids, asks |-> b.asks,
                          tradeable |-> b.bids # <<>> /\ b.asks # <<>>]
  OBVIOUS
<1>2. next \in Shown
  <2>1. PICK yes \in BOOLEAN : yes = (b.bids # <<>> /\ b.asks # <<>>)
    OBVIOUS
  <2>2. b.bids \in Seq(Level) /\ b.asks \in Seq(Level)
    BY PaperAssumption
  <2>3. next = [bids |-> b.bids, asks |-> b.asks, tradeable |-> yes]
    BY <1>1, <2>1
  <2> QED  BY <2>2, <2>3 DEF Shown
<1>3. bk = [book EXCEPT ![a] = next]
  BY <1>1 DEF BookEvent
<1>4. bk \in [Assets -> Shown] /\ bk[a] = next /\ \A c \in Assets : c # a => bk[c] = book[c]
  BY <1>2, <1>3 DEF PaperInv, EnvTyped
<1>5. PICK current : current = IF again THEN engine ELSE Unexamined(engine, a)
  OBVIOUS
<1>6. PICK found : found = IF again THEN durable ELSE Unexamined(durable, a)
  OBVIOUS
<1>7. PICK staged : staged = BookProcessed(current, a, next)
  OBVIOUS
<1>8. Commit(current, found, staged)
  BY <1>1, <1>5, <1>6, <1>7 DEF BookEvent
<1>9. Good(current, bk, due) /\ Good(found, bk, due)
  <2>1. CASE again
    <3>1. \A c \in Assets : bk[c].bids = book[c].bids /\ bk[c].asks = book[c].asks
      BY <1>1, <1>4, <2>1 DEF BookEvent
    <3>2. Good(engine, bk, due) /\ Good(durable, bk, due)
      BY <3>1, GoodSameLevels DEF PaperInv
    <3> QED  BY <1>5, <1>6, <2>1, <3>2
  <2>2. CASE ~again
    <3>1. /\ Fits(engine, book, due) /\ Fits(durable, book, due)
          /\ Averaged(engine) /\ Averaged(durable)
      BY DEF PaperInv, Good
    <3>2. \A c \in Assets : c # a => bk[c] = book[c]
      BY <1>4
    <3>3. bk[a] \in Shown
      BY <1>2, <1>4
    <3>4. Fits(Unexamined(engine, a), bk, due) /\ Averaged(Unexamined(engine, a))
      BY ONLY <3>1, <3>2, <3>3, a \in Assets, UnexaminedFacts
    <3>5. Fits(Unexamined(durable, a), bk, due) /\ Averaged(Unexamined(durable, a))
      BY ONLY <3>1, <3>2, <3>3, a \in Assets, UnexaminedFacts
    <3> QED  BY <1>5, <1>6, <2>2, <3>4, <3>5 DEF Good
  <2> QED  BY <2>1, <2>2
<1>10. ASSUME NEW s \in staged PROVE Fits(s, bk, due)
  <2>1. Fits(current, bk, due) /\ bk[a] \in Shown /\ s \in BookProcessed(current, a, bk[a])
    BY <1>2, <1>4, <1>7, <1>9 DEF Good
  <2> QED  BY ONLY <2>1, a \in Assets, BookFacts
<1>11. After(bk, due)
  BY <1>8, <1>9, <1>10, CommitFacts DEF PaperInv, EnvTyped
<1>12. due' = due /\ paused' = paused /\ submitted' = submitted /\ turn' \subseteq Assets
  BY DEF BookEvent
<1> QED
  BY <1>4, <1>11, <1>12 DEF PaperInv, EnvTyped, After

LEMMA TradeEventStep ==
  ASSUME PaperInv, NEW a \in Assets, NEW t \in Trades, NEW again \in BOOLEAN, NEW young,
         TradeEvent(a, t, again, young)
  PROVE  PaperInv'
<1>1. PICK current : current = IF again THEN engine ELSE Untraded(engine, a, young)
  OBVIOUS
<1>2. PICK found : found = IF again THEN durable ELSE Untraded(durable, a, young)
  OBVIOUS
<1>3. PICK staged : staged = TradeProcessed(current, a, t)
  OBVIOUS
<1>4. Commit(current, found, staged)
  BY <1>1, <1>2, <1>3 DEF TradeEvent
<1>5. Good(current, book, due) /\ Good(found, book, due)
  <2>1. Good(engine, book, due) /\ Good(durable, book, due)
    BY DEF PaperInv
  <2>2. Lesser(engine, Untraded(engine, a, young)) /\ Lesser(durable, Untraded(durable, a, young))
    BY <2>1, GoodTyped, UntradedFacts
  <2>3. Good(Untraded(engine, a, young), book, due) /\ Good(Untraded(durable, a, young), book, due)
    BY <2>1, <2>2, GoodLesser
  <2> QED  BY <1>1, <1>2, <2>1, <2>3
<1>6. \A s \in staged : Fits(s, book, due)
  BY <1>3, <1>5, TradeFacts DEF Good
<1>7. After(book, due)
  BY <1>4, <1>5, <1>6, CommitFacts DEF PaperInv, EnvTyped
<1>8. /\ book' = book /\ due' = due /\ paused' = paused /\ submitted' = submitted
      /\ turn' \subseteq Assets
  BY DEF TradeEvent
<1> QED
  BY <1>7, <1>8 DEF PaperInv, EnvTyped, After

(* A handler that stages some of the orders. *)
LEMMA CommitWithout ==
  ASSUME PaperInv, NEW bk, \A a \in Assets : bk[a].bids = book[a].bids /\ bk[a].asks = book[a].asks,
         NEW s, Lesser(engine, s), Commit(engine, durable, {s})
  PROVE  After(bk, due)
<1>1. Good(engine, bk, due) /\ Good(durable, bk, due)
  BY GoodSameLevels DEF PaperInv
<1>2. Fits(s, bk, due)
  BY <1>1, GoodLesser DEF Good
<1> QED
  BY <1>1, <1>2, CommitFacts DEF PaperInv, EnvTyped

LEMMA SubmitStep ==
  ASSUME PaperInv, NEW a \in Assets, Quote(a) \/ \E side \in {"buy", "sell"}, size \in Sizes : Copy(a, side, size)
  PROVE  PaperInv'
<1>1. After(book, due') /\ due' \subseteq Ids /\ submitted' \in 0..MaxOrders
  <2>1. CASE Quote(a)
    <3>1. PICK size \in Sizes : SubmitIntent(a, "buy", book[a].bids[1].price + Tick, size, "maker")
      BY <2>1 DEF Quote
    <3>2. size \in Nat
      BY PaperAssumption
    <3> QED  BY <3>1, <3>2, SubmitFacts
  <2>2. CASE \E side \in {"buy", "sell"}, size \in Sizes : Copy(a, side, size)
    <3>1. PICK side \in {"buy", "sell"}, size \in Sizes : Copy(a, side, size)
      BY <2>2
    <3>2. PICK price : SubmitIntent(a, side, price, size, "copy")
      BY <3>1 DEF Copy
    <3>3. size \in Nat
      BY PaperAssumption
    <3> QED  BY <3>2, <3>3, SubmitFacts
  <2> QED  BY <2>1, <2>2
<1>2. book' = book /\ paused' = paused /\ turn' = {}
  BY DEF Quote, Copy
<1> QED
  BY <1>1, <1>2 DEF PaperInv, EnvTyped, After

LEMMA InvalidateStep ==
  ASSUME PaperInv, NEW a \in Assets, Invalidate(a)
  PROVE  PaperInv'
<1>1. PICK bk : bk = book'
  OBVIOUS
<1>2. PICK no \in BOOLEAN : no = FALSE
  OBVIOUS
<1>3. bk = [book EXCEPT ![a].tradeable = no]
  BY <1>1, <1>2 DEF Invalidate
<1>4. /\ bk \in [Assets -> Shown]
      /\ \A c \in Assets : bk[c].bids = book[c].bids /\ bk[c].asks = book[c].asks
  BY <1>3 DEF PaperInv, EnvTyped, Shown
<1>5. Lesser(engine, Without(engine, Open(engine, a, "buy") \cup Open(engine, a, "sell")))
  BY GoodTyped, WithoutFacts DEF PaperInv
<1>6. After(bk, due)
  BY <1>4, <1>5, CommitWithout DEF Invalidate
<1>7. due' = due /\ turn' = turn /\ paused' = paused /\ submitted' = submitted
  BY DEF Invalidate
<1> QED
  BY <1>1, <1>4, <1>6, <1>7 DEF PaperInv, EnvTyped, After

LEMMA MaintainStep ==
  ASSUME PaperInv, Maintain
  PROVE  PaperInv'
<1>1. PICK s : s = Without(engine, due)
  OBVIOUS
<1>2. Lesser(engine, s)
  BY <1>1, GoodTyped, WithoutFacts DEF PaperInv
<1>3. Stopped("reserve", {s}) \/ Commit(engine, durable, {s})
  BY <1>1 DEF Maintain
<1>4. CASE Stopped("reserve", {s})
  <2>1. Good(s, book, due)
    BY <1>2, GoodLesser DEF PaperInv
  <2> QED  BY <1>4, <2>1, StoppedFacts DEF Outcomes, Maintain, PaperInv, EnvTyped, After
<1>5. CASE Commit(engine, durable, {s})
  <2>1. After(book, due)
    BY <1>2, <1>5, CommitWithout
  <2> QED  BY <2>1 DEF Maintain, PaperInv, EnvTyped, After
<1> QED
  BY <1>3, <1>4, <1>5

LEMMA ComplianceCancelsStep ==
  ASSUME PaperInv, ComplianceCancels
  PROVE  PaperInv'
<1>1. Lesser(engine, CancelAll(engine))
  BY GoodTyped, CancelAllFacts DEF PaperInv
<1>2. After(book, due)
  BY <1>1, CommitWithout DEF ComplianceCancels
<1> QED
  BY <1>2 DEF ComplianceCancels, PaperInv, EnvTyped, After

LEMMA CommandStep ==
  ASSUME PaperInv, CancelOrders \/ Flatten
  PROVE  PaperInv'
<1>1. Good(engine, book, due) /\ Good(durable, book, due) /\ Typed(engine)
  BY GoodTyped DEF PaperInv
<1>2. \E staged : Command(staged) /\ \A s \in staged : Fits(s, book, due)
  <2>1. CASE CancelOrders
    <3>1. Good(CancelAll(engine), book, due) /\ Good(Without(engine, due), book, due)
      BY <1>1, CancelAllFacts, WithoutFacts, GoodLesser
    <3> QED  BY <2>1, <3>1 DEF CancelOrders, Good
  <2>2. CASE Flatten
    <3>1. \A a \in Assets : book[a] \in Shown
      BY DEF PaperInv, EnvTyped
    <3>2. \A s \in FlattenedAll(engine) : Fits(s, book, due)
      BY <1>1, <3>1, FlattenFacts DEF Good
    <3> QED  BY <2>2, <3>2 DEF Flatten
  <2> QED  BY <2>1, <2>2
<1>3. Good(engine', book, due) /\ Good(durable', book, due) /\ poisoned' \in BOOLEAN
  BY <1>1, <1>2, CommandFacts DEF PaperInv, EnvTyped
<1> QED
  BY <1>3 DEF CancelOrders, Flatten, PaperInv, EnvTyped

LEMMA RestartStep ==
  ASSUME PaperInv, Restart
  PROVE  PaperInv'
<1>1. PICK bk : bk = book'
  OBVIOUS
<1>2. PICK no \in BOOLEAN : no = FALSE
  OBVIOUS
<1>3. bk = [a \in Assets |-> [book[a] EXCEPT !.tradeable = no]]
  BY <1>1, <1>2 DEF Restart
<1>4. /\ bk \in [Assets -> Shown]
      /\ \A c \in Assets : bk[c].bids = book[c].bids /\ bk[c].asks = book[c].asks
  BY <1>3 DEF PaperInv, EnvTyped, Shown
<1>5. Good(durable, bk, due)
  BY <1>4, GoodSameLevels DEF PaperInv
<1> QED
  BY <1>1, <1>4, <1>5 DEF Restart, PaperInv, EnvTyped, Outcomes

LEMMA DisconnectedStep ==
  ASSUME PaperInv, Disconnected
  PROVE  PaperInv'
<1>1. PICK bk : bk = book'
  OBVIOUS
<1>2. PICK no \in BOOLEAN : no = FALSE
  OBVIOUS
<1>3. bk = [a \in Assets |-> [book[a] EXCEPT !.tradeable = no]]
  BY <1>1, <1>2 DEF Disconnected
<1>4. /\ bk \in [Assets -> Shown]
      /\ \A c \in Assets : bk[c].bids = book[c].bids /\ bk[c].asks = book[c].asks
  BY <1>3 DEF PaperInv, EnvTyped, Shown
<1>5. Good(engine, bk, due) /\ Good(durable, bk, due)
  BY <1>4, GoodSameLevels DEF PaperInv
<1> QED
  BY <1>1, <1>4, <1>5 DEF Disconnected, PaperInv, EnvTyped

LEMMA PaperStep == ASSUME PaperInv, [Next]_vars PROVE PaperInv'
<1>1. CASE UNCHANGED vars
  BY <1>1 DEF vars, PaperInv, EnvTyped
<1>2. ASSUME NEW a \in Assets, NEW b \in Books, NEW again \in BOOLEAN, BookEvent(a, b, again)
      PROVE  PaperInv'
  BY <1>2, BookEventStep
<1>3. ASSUME NEW a \in Assets, NEW t \in Trades, NEW again \in BOOLEAN,
             NEW young \in SUBSET DOMAIN engine.orders, TradeEvent(a, t, again, young)
      PROVE  PaperInv'
  BY <1>3, TradeEventStep
<1>4. ASSUME NEW a \in Assets, Invalidate(a) PROVE PaperInv'
  BY <1>4, InvalidateStep
<1>5. ASSUME NEW a \in Assets, Quote(a) \/ \E side \in {"buy", "sell"}, size \in Sizes : Copy(a, side, size)
      PROVE  PaperInv'
  BY <1>5, SubmitStep
<1>6. ASSUME NEW o \in Ids, OrderDue(o) PROVE PaperInv'
  <2>1. PICK more : more = due'
    OBVIOUS
  <2>2. more = due \cup {o}
    BY <1>6, <2>1 DEF OrderDue
  <2>3. Good(engine, book, more) /\ Good(durable, book, more)
    BY <2>2, GoodMoreDue DEF PaperInv
  <2> QED  BY <1>6, <2>1, <2>2, <2>3 DEF OrderDue, PaperInv, EnvTyped
<1>7. CASE Disconnected
  BY <1>7, DisconnectedStep
<1>8. CASE NoQuote
  BY <1>8 DEF NoQuote, PaperInv, EnvTyped
<1>9. CASE Maintain
  BY <1>9, MaintainStep
<1>10. CASE ComplianceCancels
  BY <1>10, ComplianceCancelsStep
<1>11. CASE Pause
  <2>1. paused' \in BOOLEAN
    BY <1>11 DEF Pause
  <2> QED  BY <1>11, <2>1 DEF Pause, PaperInv, EnvTyped
<1>12. CASE CancelOrders \/ Flatten
  BY <1>12, CommandStep
<1>13. CASE Shutdown
  <2>1. After(book, due) /\ turn' = {}
    BY <1>13, StoppedFacts DEF Shutdown, PaperInv, Outcomes
  <2> QED  BY <1>13, <2>1 DEF Shutdown, PaperInv, EnvTyped, After
<1>14. CASE Restart
  BY <1>14, RestartStep
<1> QED
  BY <1>1, <1>2, <1>3, <1>4, <1>5, <1>6, <1>7, <1>8, <1>9, <1>10, <1>11, <1>12, <1>13, <1>14 DEF Next

LEMMA PaperInvariant == Spec => []PaperInv
<1>1. Init => PaperInv
  BY PaperInit
<1>2. PaperInv /\ [Next]_vars => PaperInv'
  BY PaperStep
<1> QED
  BY <1>1, <1>2, PTL DEF Spec

-----------------------------------------------------------------------------
(* Cash, positions and orders stay in range and no position costs more than *)
(* 1 a unit, in memory and in what a restart finds.                         *)
THEOREM PaperTypes == Spec => []TypeOK
<1>1. ASSUME NEW e, Good(e, book, due)
      PROVE  /\ e.cash \in Nat /\ e.realized \in Int
             /\ e.held \in [Assets -> Nat] /\ e.average \in [Assets -> 0..One]
             /\ DOMAIN e.orders \subseteq Ids
             /\ \A o \in DOMAIN e.orders : e.orders[o] \in Order
             /\ e.taken \in [Assets -> [buy : Nat, sell : Nat]]
  <2>1. Typed(e) /\ Averaged(e)
    BY <1>1, GoodTyped DEF Good
  <2>2. \A a \in Assets : e.average[a] \in 0..One
    BY <2>1, PaperAssumption DEF Typed, Averaged
  <2>3. e.average \in [Assets -> 0..One]
    BY <2>1, <2>2 DEF Typed
  <2>4. DOMAIN e.orders \subseteq Ids /\ \A o \in DOMAIN e.orders : e.orders[o] \in Order
    BY <2>1, OrdersTyped
  <2> QED  BY <2>1, <2>3, <2>4 DEF Typed
<1>2. PaperInv => TypeOK
  BY <1>1 DEF PaperInv, EnvTyped, TypeOK, Outcomes, Shown
<1> QED
  BY <1>2, PaperInvariant, PTL

(* However fills, copies, flattening, cancels, failed appends and restarts  *)
(* interleave, open sells never promise more than is held                   *)
(* (available_position).                                                    *)
THEOREM SharesReserved == Spec => []PositionReserved
<1>1. PaperInv => PositionReserved
  <2> SUFFICES ASSUME PaperInv, NEW a \in Assets PROVE AvailablePosition(engine, a) >= 0
    BY DEF PositionReserved
  <2>1. Typed(engine) /\ ReservedPosition(engine, a) <= engine.held[a]
    BY DEF PaperInv, Good, Fits, Sound, Promised
  <2>2. ReservedPosition(engine, a) \in Nat /\ engine.held[a] \in Nat
    BY <2>1, ReservedNumbers DEF Typed
  <2> QED  BY <2>1, <2>2 DEF AvailablePosition
<1> QED
  BY <1>1, PaperInvariant, PTL

(* Own orders of any strategy, submitted at any time and under any books,   *)
(* never cross each other (has_self_trade).                                 *)
THEOREM NoSelfTrade == Spec => []NoSelfCross
<1>1. PaperInv => NoSelfCross
  BY DEF PaperInv, Good, Fits, Sound, Apart, NoSelfCross
<1> QED
  BY <1>1, PaperInvariant, PTL

(* However often a version of a book arrives, and whatever is submitted in  *)
(* between, the fills taken from it stay within the share granted of its    *)
(* top (process_book_with_cancellations).                                   *)
THEOREM BookShare == Spec => []LiquidityOnce
<1>1. PaperInv => LiquidityOnce
  BY DEF PaperInv, Good, Fits, Granted, LiquidityOnce
<1> QED
  BY <1>1, PaperInvariant, PTL

(* Cash and positions at cost are never more than the starting cash and the *)
(* profit reported as realized, whatever rounding and fees do               *)
(* (apply_fill_at_price).                                                   *)
THEOREM ProfitBacked == Spec => []EquityReported
<1>1. PaperInv => EquityReported
  BY DEF PaperInv, Good, Fits, Sound, Backed, Costs, EquityReported
<1> QED
  BY <1>1, PaperInvariant, PTL

-----------------------------------------------------------------------------
(* What open buys reserve, and how far it can exceed the cash.              *)
Ceiling(n) == (n + One - 1) \div One

LEMMA CeilingFacts ==
  ASSUME NEW n \in Nat
  PROVE  /\ Ceiling(n) \in Nat
         /\ n <= One * Ceiling(n) /\ One * Ceiling(n) <= n + One - 1
<1>1. PICK d \in Nat \ {0} : d = One
  BY PaperAssumption
<1>2. PICK k \in Nat : k = n + d - 1
  BY <1>1
<1>3. k \div d \in Nat /\ d * (k \div d) <= k /\ k < d * (k \div d) + d
  BY Quotient
<1>4. PICK q \in Nat : q = k \div d
  BY <1>3
<1>5. PICK m \in Nat : m = d * q
  BY TimesNatural
<1>6. n <= m /\ m <= n + d - 1
  BY <1>2, <1>3, <1>4, <1>5
<1> QED
  BY <1>1, <1>2, <1>4, <1>5, <1>6 DEF Ceiling

(* Rounded up in two parts, a number comes to at least what it comes to     *)
(* rounded up at once, and to at most one unit more.                        *)
LEMMA CeilingOfParts ==
  ASSUME NEW m \in Nat, NEW n \in Nat
  PROVE  /\ Ceiling(m + n) <= Ceiling(m) + Ceiling(n)
         /\ Ceiling(m) + Ceiling(n) <= Ceiling(m + n) + 1
<1>1. PICK d \in Nat \ {0} : d = One
  BY PaperAssumption
<1>2. PICK a \in Nat : a = Ceiling(m)
  BY CeilingFacts
<1>3. PICK b \in Nat : b = Ceiling(n)
  BY CeilingFacts
<1>4. m + n \in Nat
  OBVIOUS
<1>5. PICK c \in Nat : c = Ceiling(m + n)
  BY <1>4, CeilingFacts
<1>6. m <= d * a /\ d * a <= m + d - 1
  BY <1>1, <1>2, CeilingFacts
<1>7. n <= d * b /\ d * b <= n + d - 1
  BY <1>1, <1>3, CeilingFacts
<1>8. m + n <= d * c /\ d * c <= m + n + d - 1
  BY <1>1, <1>4, <1>5, CeilingFacts
<1>9. d * (a + b) = d * a + d * b /\ d * a \in Nat /\ d * b \in Nat /\ d * c \in Nat
  BY TimesNatural
<1>10. c <= a + b
  <2> SUFFICES ASSUME ~(c <= a + b) PROVE FALSE
    OBVIOUS
  <2>1. PICK k \in Nat : c = (a + b + 1) + k
    BY <1>5
  <2>2. d * (a + b + 1) <= d * c
    BY <2>1, TimesLeq
  <2>3. d * (a + b + 1) = (d * a + d * b) + d
    OBVIOUS
  <2> QED  BY <1>6, <1>7, <1>8, <1>9, <2>2, <2>3
<1>11. a + b <= c + 1
  <2> SUFFICES ASSUME ~(a + b <= c + 1) PROVE FALSE
    OBVIOUS
  <2>1. c + 2 <= a + b
    OBVIOUS
  <2>2. d * (c + 2) <= d * (a + b)
    BY <2>1, TimesLeq
  <2>3. d * (c + 2) = d * c + (d + d)
    OBVIOUS
  <2> QED  BY <1>6, <1>7, <1>8, <1>9, <2>2, <2>3
<1> QED
  BY <1>2, <1>3, <1>5, <1>10, <1>11

LEMMA ReserveNumber ==
  ASSUME NEW p \in Nat, NEW x \in Nat
  PROVE  BuyReserve(p, x) \in Nat
<1>1. MulCeil(p, x) \in Nat
  BY MulFacts
<1> QED
  BY <1>1, FeeFacts DEF BuyReserve

(* Notional and fee are each rounded up: what an order reserves in two      *)
(* parts is at most three units more than what it reserves as a whole.      *)
LEMMA ReserveOfParts ==
  ASSUME NEW p \in Nat, NEW x \in Nat, NEW y \in Nat
  PROVE  BuyReserve(p, x) + BuyReserve(p, y) <= BuyReserve(p, x + y) + 3
<1>1. FeeRate \in Nat
  BY PaperAssumption
<1>2. /\ \A s \in Nat : MulCeil(p, s) = Ceiling(p * s) /\ MulCeil(p, s) \in Nat
      /\ \A n \in Nat : Fee(n) = Ceiling(n * FeeRate) /\ Fee(n) \in Nat
  BY MulFacts, FeeFacts DEF MulCeil, Fee, Ceiling
<1>3. \A m, n \in Nat : Fee(m + n) <= Fee(m) + Fee(n) /\ Fee(m) + Fee(n) <= Fee(m + n) + 1
  <2> SUFFICES ASSUME NEW m \in Nat, NEW n \in Nat
               PROVE  Fee(m + n) <= Fee(m) + Fee(n) /\ Fee(m) + Fee(n) <= Fee(m + n) + 1
    OBVIOUS
  <2>1. m * FeeRate \in Nat /\ n * FeeRate \in Nat /\ m + n \in Nat
    BY <1>1, TimesNatural
  <2>2. (m + n) * FeeRate = m * FeeRate + n * FeeRate
    BY <1>1
  <2> QED  BY <1>2, <2>1, <2>2, CeilingOfParts
<1>4. PICK a \in Nat : a = MulCeil(p, x)
  BY <1>2
<1>5. PICK b \in Nat : b = MulCeil(p, y)
  BY <1>2
<1>6. PICK c \in Nat : c = MulCeil(p, x + y)
  BY <1>2
<1>7. a + b <= c + 1
  <2>1. p * x \in Nat /\ p * y \in Nat /\ x + y \in Nat
    BY TimesNatural
  <2>2. p * (x + y) = p * x + p * y
    OBVIOUS
  <2> QED  BY <1>2, <1>4, <1>5, <1>6, <2>1, <2>2, CeilingOfParts
<1>8. Fee(a) + Fee(b) <= Fee(c) + 2
  <2>1. c <= a + b
    <3>1. p * x \in Nat /\ p * y \in Nat /\ x + y \in Nat
      BY TimesNatural
    <3>2. p * (x + y) = p * x + p * y
      OBVIOUS
    <3> QED  BY <1>2, <1>4, <1>5, <1>6, <3>1, <3>2, CeilingOfParts
  <2>2. Fee(a) + Fee(b) <= Fee(a + b) + 1
    BY <1>3
  <2>3. Fee(a + b) <= Fee(c) + 1
    <3>1. CASE a + b = c
      <4>1. Fee(a + b) = Fee(c)
        BY <3>1
      <4>2. Fee(c) \in Nat
        BY <1>2
      <4> QED  BY <4>1, <4>2
    <3>2. CASE a + b = c + 1
      <4>1. PICK u \in Nat : u = 1
        OBVIOUS
      <4>2. Fee(u) <= u
        BY FeeFacts
      <4>3. Fee(c + u) <= Fee(c) + Fee(u)
        BY <1>3
      <4>4. Fee(c + u) \in Nat /\ Fee(c) \in Nat /\ Fee(u) \in Nat
        BY <1>2
      <4>5. Fee(a + b) = Fee(c + u)
        BY <3>2, <4>1
      <4> QED  BY <4>1, <4>2, <4>3, <4>4, <4>5
    <3> QED  BY <1>7, <2>1, <3>1, <3>2
  <2>4. Fee(a) \in Nat /\ Fee(b) \in Nat /\ Fee(a + b) \in Nat /\ Fee(c) \in Nat
    BY <1>2
  <2> QED  BY <2>2, <2>3, <2>4
<1>9. Fee(a) \in Nat /\ Fee(b) \in Nat /\ Fee(c) \in Nat
  BY <1>2
<1> QED
  BY <1>4, <1>5, <1>6, <1>7, <1>8, <1>9 DEF BuyReserve

LEMMA SumCount ==
  ASSUME NEW S, IsFiniteSet(S), NEW f, \A x \in S : f[x] = 3
  PROVE  SumFunctionOnSet(f, S) = 3 * Cardinality(S)
<1> DEFINE B == {s \in SUBSET S : SumFunctionOnSet(f, s) # 3 * Cardinality(s)}
<1>1. B = {}
  <2> SUFFICES ASSUME B # {} PROVE FALSE
    OBVIOUS
  <2>1. PICK s \in B : \A t \in B : ~Part(t, s)
    BY SmallestSet
  <2>2. CASE s = {}
    BY <2>2, SumEmpty, FS_EmptySet
  <2>3. CASE s # {}
    <3>1. IsFiniteSet(s)
      BY FS_Subset
    <3>2. PICK x \in s : SumFunctionOnSet(f, s) = f[x] + SumFunctionOnSet(f, s \ {x})
      BY <2>3, <3>1, SumStep
    <3>3. SumFunctionOnSet(f, s \ {x}) = 3 * Cardinality(s \ {x})
      BY <2>1 DEF Part
    <3>4. IsFiniteSet(s \ {x}) /\ Cardinality(s \ {x}) = Cardinality(s) - 1 /\ Cardinality(s) \in Nat
      BY <3>1, FS_RemoveElement, FS_CardinalityType
    <3> QED  BY <3>2, <3>3, <3>4
  <2> QED  BY <2>2, <2>3
<1> QED
  BY <1>1

-----------------------------------------------------------------------------
(* What the fills of a plan pay for what they buy.                          *)
Buying(fills, S) == {x \in S : fills[x].side = "buy"}
Payments(fills) == [x \in DOMAIN fills |-> BuyReserve(fills[x].price, fills[x].quantity)]
PaidFor(fills, S) == SumFunctionOnSet(Payments(fills), Buying(fills, S))
Paying(e, fills, S, f) == Typed(f) /\ f.cash >= e.cash - PaidFor(fills, S)

LEMMA FillPays ==
  ASSUME NEW e, Typed(e), NEW a \in Assets, NEW side \in {"buy", "sell"},
         NEW q \in Nat \ {0}, NEW p \in Nat, NEW f \in Fill(e, a, side, q, p)
  PROVE  f.cash >= e.cash - IF side = "buy" THEN BuyReserve(p, q) ELSE 0
<1>1. PICK n \in Nat : n = MulCeil(p, q)
  BY MulFacts
<1>2. PICK fee \in Nat : fee = Fee(n) /\ fee <= n
  BY FeeFacts
<1>3. PICK c \in Nat : c = e.cash
  BY DEF Typed
<1>4. CASE side = "buy"
  <2>1. f = Bought(e, a, q, p, n, fee)
    BY <1>1, <1>2, <1>4 DEF Fill
  <2>2. f.cash = c - n - fee
    BY <1>3, <2>1 DEF Bought, Typed
  <2> QED  BY <1>1, <1>2, <1>3, <1>4, <2>2 DEF BuyReserve
<1>5. CASE side = "sell"
  <2>1. f = Sold(e, a, q, n, fee)
    BY <1>1, <1>2, <1>5 DEF Fill
  <2>2. f.cash = c + (n - fee)
    BY <1>3, <2>1 DEF Sold, Typed
  <2> QED  BY <1>2, <1>3, <1>5, <2>2
<1> QED
  BY <1>4, <1>5

LEMMA PaymentNumbers ==
  ASSUME NEW fills, FillsTyped(fills), NEW S \in SUBSET DOMAIN fills
  PROVE  /\ PaidFor(fills, S) \in Nat /\ IsFiniteSet(Buying(fills, S))
         /\ \A x \in S : Payments(fills)[x] \in Nat
<1>1. IsFiniteSet(Buying(fills, S))
  BY FS_Subset DEF Buying, FillsTyped
<1>2. \A x \in S : Payments(fills)[x] \in Nat
  BY ReserveNumber DEF FillsTyped, Payments
<1>3. \A x \in Buying(fills, S) : Payments(fills)[x] \in Nat
  BY <1>2 DEF Buying
<1> QED
  BY <1>1, <1>2, <1>3, SumNonNegative DEF PaidFor

LEMMA PaidStep ==
  ASSUME NEW fills, FillsTyped(fills), NEW S \in SUBSET DOMAIN fills, NEW x \in S
  PROVE  PaidFor(fills, S) = PaidFor(fills, S \ {x})
           + IF fills[x].side = "buy" THEN BuyReserve(fills[x].price, fills[x].quantity) ELSE 0
<1>1. /\ IsFiniteSet(Buying(fills, S))
      /\ \A y \in Buying(fills, S) : Payments(fills)[y] \in Int
  BY PaymentNumbers DEF Buying
<1>2. Buying(fills, S \ {x}) = Buying(fills, S) \ {x}
  BY DEF Buying
<1>3. S \ {x} \in SUBSET DOMAIN fills
  OBVIOUS
<1>4. PaidFor(fills, S \ {x}) \in Nat
  BY <1>3, PaymentNumbers
<1>5. CASE fills[x].side = "buy"
  <2>1. x \in Buying(fills, S)
    BY <1>5 DEF Buying
  <2>2. /\ Payments(fills)[x] = BuyReserve(fills[x].price, fills[x].quantity)
        /\ Payments(fills)[x] \in Nat
    BY PaymentNumbers DEF Payments
  <2>3. SumFunctionOnSet(Payments(fills), Buying(fills, S))
          = Payments(fills)[x] + SumFunctionOnSet(Payments(fills), Buying(fills, S) \ {x})
    BY <1>1, <2>1, SumWithout
  <2>4. PaidFor(fills, S) = Payments(fills)[x] + PaidFor(fills, S \ {x})
    BY <1>2, <2>3 DEF PaidFor
  <2> QED  BY <1>4, <1>5, <2>2, <2>4
<1>6. CASE fills[x].side # "buy"
  <2>1. Buying(fills, S \ {x}) = Buying(fills, S)
    BY <1>2, <1>6 DEF Buying
  <2>2. PaidFor(fills, S) = PaidFor(fills, S \ {x})
    BY <2>1 DEF PaidFor
  <2> QED  BY <1>4, <1>6, <2>2
<1> QED
  BY <1>5, <1>6

LEMMA PayingStep ==
  ASSUME NEW e, Typed(e), NEW fills, FillsTyped(fills), NEW S \in SUBSET DOMAIN fills, NEW x \in S,
         NEW g, Paying(e, fills, S \ {x}, g), NEW f \in Filler(fills, x, g)
  PROVE  Paying(e, fills, S, f)
<1>1. /\ fills[x].asset \in Assets /\ fills[x].side \in {"buy", "sell"}
      /\ fills[x].quantity \in Nat \ {0} /\ fills[x].price \in Nat
  BY DEF FillsTyped
<1>2. Typed(g) /\ f \in Fill(g, fills[x].asset, fills[x].side, fills[x].quantity, fills[x].price)
  BY DEF Paying, Filler
<1>3. Typed(f)
  BY ONLY <1>1, <1>2, FillFacts
<1>4. PICK n \in Nat :
        n = IF fills[x].side = "buy" THEN BuyReserve(fills[x].price, fills[x].quantity) ELSE 0
  BY <1>1, ReserveNumber
<1>5. f.cash >= g.cash - n
  <2>1. f.cash >= g.cash - IF fills[x].side = "buy"
                           THEN BuyReserve(fills[x].price, fills[x].quantity) ELSE 0
    BY ONLY <1>1, <1>2, FillPays
  <2> QED  BY <1>4, <2>1
<1>6. PICK m \in Nat : m = PaidFor(fills, S \ {x})
  <2>1. S \ {x} \in SUBSET DOMAIN fills
    OBVIOUS
  <2> QED  BY <2>1, PaymentNumbers
<1>7. PaidFor(fills, S) = m + n
  <2>1. PaidFor(fills, S) = PaidFor(fills, S \ {x})
          + IF fills[x].side = "buy" THEN BuyReserve(fills[x].price, fills[x].quantity) ELSE 0
    BY ONLY PaidStep, FillsTyped(fills), S \in SUBSET DOMAIN fills, x \in S
  <2> QED  BY <1>4, <1>6, <2>1
<1>8. e.cash \in Nat /\ f.cash \in Nat /\ g.cash \in Nat /\ g.cash >= e.cash - m
  BY <1>2, <1>3, <1>6 DEF Paying, Typed
<1>9. f.cash >= e.cash - (m + n)
  BY <1>5, <1>8
<1> QED
  BY <1>3, <1>7, <1>9 DEF Paying

LEMMA CarriedPays ==
  ASSUME NEW e, Typed(e), NEW fills, FillsTyped(fills), NEW f \in Carried(e, fills)
  PROVE  Paying(e, fills, DOMAIN fills, f)
<1> DEFINE D == DOMAIN fills
           B == {S \in SUBSET D : ~\A h \in DoneAfter(e, fills, S) : Paying(e, fills, S, h)}
<1>0. IsFiniteSet(D) /\ Turns(fills, D)
  BY DEF FillsTyped, Turns
<1>1. B = {}
  <2> SUFFICES ASSUME B # {} PROVE FALSE
    OBVIOUS
  <2>1. PICK S \in B : \A t \in B : ~Part(t, S)
    BY <1>0, SmallestSet
  <2>2. S \in SUBSET D /\ IsFiniteSet(S) /\ Turns(fills, S)
    BY <1>0, FS_Subset DEF Turns
  <2>3. PICK h \in DoneAfter(e, fills, S) : ~Paying(e, fills, S, h)
    OBVIOUS
  <2>4. CASE S = {}
    <3>1. h = e
      BY <2>3, <2>4, NothingDone
    <3>2. PaidFor(fills, S) = 0
      <4>1. Buying(fills, S) = {}
        BY <2>4 DEF Buying
      <4> QED  BY <4>1, SumEmpty DEF PaidFor
    <3>3. e.cash \in Nat
      BY DEF Typed
    <3> QED  BY <2>3, <3>1, <3>2, <3>3 DEF Paying
  <2>5. CASE S # {}
    <3>1. PICK x \in S : DoneAfter(e, fills, S)
                           = UNION {Filler(fills, x, g) : g \in DoneAfter(e, fills, S \ {x})}
      BY <2>2, <2>5, DoneStep
    <3>2. PICK g \in DoneAfter(e, fills, S \ {x}) : h \in Filler(fills, x, g)
      BY <2>3, <3>1
    <3>3. Part(S \ {x}, S) /\ S \ {x} \in SUBSET D
      BY <2>2 DEF Part
    <3>4. Paying(e, fills, S \ {x}, g)
      BY <2>1, <3>2, <3>3
    <3> HIDE DEF D
    <3>5. Paying(e, fills, S, h)
      BY <2>2, <3>2, <3>4, PayingStep DEF D
    <3> QED  BY <2>3, <3>5
  <2> QED  BY <2>4, <2>5
<1>2. f \in DoneAfter(e, fills, D)
  BY CarriedIsDone
<1> QED
  BY <1>1, <1>2

-----------------------------------------------------------------------------
(* Open buys before and after a step.                                       *)
Buys(e) == UNION {Open(e, a, "buy") : a \in Assets}

(* The open buys of f that were partly filled since e. *)
Partly(e, f) ==
  {o \in Buys(f) : o \in DOMAIN e.orders /\ f.orders[o].remaining < e.orders[o].remaining}

LEMMA BuysTyped ==
  ASSUME NEW e, Typed(e)
  PROVE  /\ Buys(e) = {o \in DOMAIN e.orders : e.orders[o].side = "buy"}
         /\ IsFiniteSet(Buys(e)) /\ \A o \in Buys(e) : Reserves(e)[o] \in Nat
         /\ Reserved(e) \in Nat /\ Reserved(e) = SumFunctionOnSet(Reserves(e), Buys(e))
         /\ AvailableCash(e) = e.cash - Reserved(e) /\ AvailableCash(e) \in Int
<1>1. \A o \in DOMAIN e.orders : /\ e.orders[o].asset \in Assets
                                 /\ e.orders[o].price \in Nat /\ e.orders[o].remaining \in Nat
  <2>1. \A o \in DOMAIN e.orders : e.orders[o] \in Order
    BY OrdersTyped
  <2> QED  BY <2>1, PaperAssumption DEF Order
<1>2. Buys(e) = {o \in DOMAIN e.orders : e.orders[o].side = "buy"}
  BY <1>1 DEF Buys, Open
<1>3. IsFiniteSet(Buys(e))
  BY <1>2, OrdersTyped, FS_Subset
<1>4. \A o \in Buys(e) : Reserves(e)[o] \in Nat
  BY <1>1, <1>2, ReserveNumber DEF Reserves
<1>5. Reserved(e) = SumFunctionOnSet(Reserves(e), Buys(e))
  BY DEF Reserved, Buys
<1>6. Reserved(e) \in Nat
  BY <1>3, <1>4, <1>5, SumNonNegative
<1>7. e.cash \in Nat
  BY DEF Typed
<1> QED
  BY <1>2, <1>3, <1>4, <1>5, <1>6, <1>7 DEF AvailableCash

LEMMA PartlyTyped ==
  ASSUME NEW e, NEW f, Typed(f)
  PROVE  IsFiniteSet(Partly(e, f)) /\ Cardinality(Partly(e, f)) \in Nat
<1>1. IsFiniteSet(Partly(e, f))
  BY BuysTyped, FS_Subset DEF Partly
<1> QED
  BY <1>1, FS_CardinalityType

(* Orders may go, those that stay want as much as before. *)
Pruned(e, f) == Typed(f) /\ SameMoney(e, f) /\ Fewer(e, f)

LEMMA PrunedCash ==
  ASSUME NEW e, Typed(e), NEW f, Pruned(e, f)
  PROVE  AvailableCash(f) >= AvailableCash(e)
<1>1. Buys(f) \subseteq Buys(e) /\ \A o \in Buys(f) : Reserves(f)[o] = Reserves(e)[o]
  <2>1. /\ Buys(e) = {o \in DOMAIN e.orders : e.orders[o].side = "buy"}
        /\ Buys(f) = {o \in DOMAIN f.orders : f.orders[o].side = "buy"}
    BY BuysTyped DEF Pruned
  <2>2. \A o \in DOMAIN f.orders : o \in DOMAIN e.orders /\ Alike(f.orders[o], e.orders[o])
    BY DEF Pruned, Fewer
  <2> QED  BY <2>1, <2>2 DEF Alike, Reserves
<1>2. /\ IsFiniteSet(Buys(e)) /\ IsFiniteSet(Buys(f))
      /\ \A o \in Buys(e) : Reserves(e)[o] \in Nat
      /\ \A o \in Buys(f) : Reserves(f)[o] \in Int
  BY BuysTyped DEF Pruned
<1>3. SumFunctionOnSet(Reserves(f), Buys(f)) = SumFunctionOnSet(Reserves(e), Buys(f))
  BY ONLY <1>1, <1>2, SumSame
<1>4. SumFunctionOnSet(Reserves(e), Buys(f)) <= SumFunctionOnSet(Reserves(e), Buys(e))
  BY <1>1, <1>2, SumSubset
<1>5. PICK m \in Nat : m = Reserved(e) /\ AvailableCash(e) = e.cash - m
  BY BuysTyped
<1>6. PICK n \in Nat : n = Reserved(f) /\ AvailableCash(f) = f.cash - n
  BY BuysTyped DEF Pruned
<1>7. n <= m
  BY <1>3, <1>4, <1>5, <1>6, BuysTyped DEF Pruned
<1>8. f.cash = e.cash /\ e.cash \in Nat
  BY DEF Pruned, SameMoney, Typed
<1> QED
  BY <1>5, <1>6, <1>7, <1>8

LEMMA PartlyPruned ==
  ASSUME NEW e, NEW m, Pruned(e, m), NEW f, DOMAIN f.orders \subseteq DOMAIN m.orders
  PROVE  Partly(m, f) = Partly(e, f)
<1>1. \A o \in Buys(f) : o \in DOMAIN f.orders
  BY DEF Buys, Open
<1> QED
  BY <1>1 DEF Partly, Pruned, Fewer, Alike

(* A partial fill takes a part out of what its order had reserved, which    *)
(* rounding makes up to three units too large; no other fill does.          *)
LEMMA ReducedPays ==
  ASSUME NEW e, Typed(e), NEW plan, PlanFits(e, plan), NEW f, Typed(f), Kept(e, f),
         NEW r, r = Reduced(f, plan)
  PROVE  Reserved(r) + PaidFor(FillsOf(e, plan), DOMAIN FillsOf(e, plan))
           <= Reserved(e) + 3 * Cardinality(Partly(e, r))
<1> DEFINE O     == Buys(e)
           P     == Buys(r)
           Q     == Partly(e, r)
           res   == Reserves(e)
           fills == FillsOf(e, plan)
           B     == Buying(fills, DOMAIN fills)
           rest  == [o \in O |-> IF o \in P THEN Reserves(r)[o] ELSE 0]
           paid  == [o \in O |-> IF o \in B THEN Payments(fills)[o] ELSE 0]
           slack == [o \in O |-> IF o \in Q THEN 3 ELSE 0]
           after == [o \in O |-> rest[o] + paid[o]]
           limit == [o \in O |-> res[o] + slack[o]]
<1>1. Typed(r) /\ FillsTyped(fills)
  BY ReducedFacts, FillsOfTyped
<1>2. /\ DOMAIN r.orders = {p \in DOMAIN e.orders : p \in DOMAIN plan => plan[p] < e.orders[p].remaining}
      /\ \A o \in DOMAIN r.orders :
           r.orders[o] = IF o \in DOMAIN plan
                         THEN [e.orders[o] EXCEPT !.remaining = @ - plan[o]] ELSE e.orders[o]
  <2>1. f.orders = e.orders
    BY DEF Kept
  <2>2. r.orders = Rest(e.orders, plan)
    BY <2>1 DEF Reduced, Typed
  <2> QED  BY <2>2 DEF Rest
<1>3. \A o \in DOMAIN e.orders :
        /\ e.orders[o] \in Order /\ e.orders[o].price \in Nat /\ e.orders[o].remaining \in Nat \ {0}
        /\ o \in DOMAIN plan => plan[o] \in Nat /\ plan[o] <= e.orders[o].remaining
  <2>1. \A o \in DOMAIN e.orders : e.orders[o] \in Order
    BY OrdersTyped
  <2> QED  BY <2>1, PaperAssumption DEF Order, PlanFits
<1>4. \A o \in DOMAIN r.orders :
        /\ r.orders[o].side = e.orders[o].side /\ r.orders[o].price = e.orders[o].price
        /\ r.orders[o].remaining = e.orders[o].remaining - IF o \in DOMAIN plan THEN plan[o] ELSE 0
  <2> SUFFICES ASSUME NEW o \in DOMAIN r.orders
               PROVE  /\ r.orders[o].side = e.orders[o].side /\ r.orders[o].price = e.orders[o].price
                      /\ r.orders[o].remaining
                           = e.orders[o].remaining - IF o \in DOMAIN plan THEN plan[o] ELSE 0
    OBVIOUS
  <2>1. o \in DOMAIN e.orders
    BY <1>2
  <2>2. e.orders[o] \in Order /\ e.orders[o].remaining \in Nat
    BY <1>3, <2>1
  <2>3. CASE o \in DOMAIN plan
    <3>1. PICK n : n = e.orders[o].remaining - plan[o]
      OBVIOUS
    <3>2. r.orders[o] = [e.orders[o] EXCEPT !.remaining = n]
      BY <1>2, <2>3, <3>1
    <3> QED  BY <2>2, <2>3, <3>1, <3>2 DEF Order
  <2>4. CASE o \notin DOMAIN plan
    <3>1. r.orders[o] = e.orders[o]
      BY <1>2, <2>4
    <3> QED  BY <2>2, <2>4, <3>1
  <2> QED  BY <2>3, <2>4
<1>5. /\ O = {o \in DOMAIN e.orders : e.orders[o].side = "buy"}
      /\ P = {o \in DOMAIN r.orders : r.orders[o].side = "buy"}
      /\ IsFiniteSet(O) /\ IsFiniteSet(P) /\ P \subseteq O
      /\ \A o \in O : res[o] \in Nat
      /\ \A o \in P : Reserves(r)[o] \in Nat
  BY <1>1, <1>2, <1>4, BuysTyped
<1>6. /\ B = {o \in O : o \in DOMAIN plan /\ plan[o] > 0}
      /\ \A o \in B : Payments(fills)[o] = BuyReserve(e.orders[o].price, plan[o])
  <2>1. DOMAIN fills = {p \in DOMAIN plan : plan[p] > 0} /\ DOMAIN plan \subseteq DOMAIN e.orders
    BY FillsOfTyped DEF PlanFits
  <2>2. \A o \in DOMAIN fills : /\ fills[o].side = e.orders[o].side
                                /\ fills[o].price = e.orders[o].price /\ fills[o].quantity = plan[o]
    BY <2>1 DEF FillsOf
  <2> QED  BY <1>5, <2>1, <2>2 DEF Buying, Payments
<1>7. /\ IsFiniteSet(B) /\ B \subseteq O /\ \A o \in B : Payments(fills)[o] \in Nat
  BY <1>1, <1>6, PaymentNumbers DEF Buying
<1>8. Q \subseteq P /\ IsFiniteSet(Q)
  BY <1>1, PartlyTyped DEF Partly
<1>9. \A o \in O : /\ res[o] = BuyReserve(e.orders[o].price, e.orders[o].remaining)
                   /\ o \in P => Reserves(r)[o] = BuyReserve(r.orders[o].price, r.orders[o].remaining)
  BY <1>5 DEF Reserves
<1> HIDE DEF O, P, Q, res, fills, B
<1>10. ASSUME NEW o \in O PROVE rest[o] + paid[o] <= res[o] + slack[o]
  <2>1. o \in DOMAIN e.orders
    BY <1>5
  <2>2. PICK p \in Nat : p = e.orders[o].price
    BY <1>3, <2>1
  <2>3. PICK n \in Nat \ {0} : n = e.orders[o].remaining
    BY <1>3, <2>1
  <2>4. res[o] = BuyReserve(p, n) /\ res[o] \in Nat
    BY <1>5, <1>9, <2>2, <2>3
  <2>5. slack[o] \in Nat /\ (o \in Q => slack[o] = 3)
    OBVIOUS
  <2>6. CASE o \notin P
    <3>1. o \in DOMAIN plan /\ plan[o] = n
      <4>1. o \notin DOMAIN r.orders
        BY <1>4, <1>5, <2>6
      <4>2. o \in DOMAIN plan /\ ~(plan[o] < e.orders[o].remaining)
        BY <1>2, <2>1, <4>1
      <4> QED  BY <1>3, <2>1, <2>3, <4>2
    <3>2. o \in B /\ paid[o] = BuyReserve(p, n) /\ rest[o] = 0
      BY <1>6, <2>2, <2>6, <3>1
    <3> QED  BY <2>4, <2>5, <3>2
  <2>7. CASE o \in P /\ o \notin B
    <3>1. r.orders[o].remaining = n /\ r.orders[o].price = p
      <4>1. o \in DOMAIN plan => plan[o] = 0
        BY <1>3, <1>6, <2>1, <2>7
      <4>2. o \in DOMAIN r.orders
        BY <1>5, <2>7
      <4> QED  BY <1>4, <2>2, <2>3, <4>1, <4>2
    <3>2. rest[o] = res[o] /\ paid[o] = 0
      BY <1>9, <2>4, <2>7, <3>1
    <3> QED  BY <2>4, <2>5, <3>2
  <2>8. CASE o \in P /\ o \in B
    <3>1. PICK q \in Nat \ {0} : q = plan[o]
      BY <1>3, <1>6, <2>1, <2>8
    <3>2. o \in DOMAIN r.orders /\ o \in DOMAIN plan
      BY <1>5, <1>6, <2>8
    <3>3. PICK k \in Nat : k = r.orders[o].remaining /\ n = k + q
      <4>1. r.orders[o].remaining = n - q /\ q <= n
        BY <1>3, <1>4, <2>1, <2>3, <3>1, <3>2
      <4> QED  BY <4>1
    <3>4. o \in Q
      <4>1. r.orders[o].remaining < e.orders[o].remaining
        BY <2>3, <3>1, <3>3
      <4> QED  BY <2>1, <2>8, <4>1 DEF Q, P, Partly
    <3>5. rest[o] = BuyReserve(p, k)
      BY <1>4, <1>9, <2>2, <2>8, <3>2, <3>3
    <3>6. paid[o] = BuyReserve(p, q)
      BY <1>6, <2>2, <2>8, <3>1
    <3>7. BuyReserve(p, k) + BuyReserve(p, q) <= BuyReserve(p, k + q) + 3
      BY ReserveOfParts
    <3> QED  BY <2>4, <2>5, <3>3, <3>4, <3>5, <3>6, <3>7
  <2> QED  BY <2>6, <2>7, <2>8
<1>11. \A o \in O : /\ rest[o] \in Nat /\ paid[o] \in Nat /\ slack[o] \in Nat /\ res[o] \in Nat
                    /\ after[o] = rest[o] + paid[o] /\ limit[o] = res[o] + slack[o]
                    /\ after[o] <= limit[o]
  BY <1>5, <1>7, <1>10
<1>12. /\ \A o \in P : rest[o] = Reserves(r)[o]
       /\ \A o \in O \ P : rest[o] = 0
       /\ \A o \in B : paid[o] = Payments(fills)[o]
       /\ \A o \in O \ B : paid[o] = 0
       /\ \A o \in Q : slack[o] = 3
       /\ \A o \in O \ Q : slack[o] = 0
  BY <1>5, <1>7, <1>8
<1> HIDE DEF rest, paid, slack, after, limit
<1>13. /\ \A o \in O : rest[o] \in Int /\ paid[o] \in Int /\ slack[o] \in Int /\ res[o] \in Int
       /\ \A o \in P : rest[o] \in Int
       /\ \A o \in B : paid[o] \in Int
       /\ Q \subseteq O
  BY <1>5, <1>7, <1>8, <1>11
<1>14. SumFunctionOnSet(rest, O) = SumFunctionOnSet(Reserves(r), P)
  <2>1. SumFunctionOnSet(rest, O) = SumFunctionOnSet(rest, P)
    BY ONLY <1>5, <1>12, <1>13, SumSupport
  <2>2. SumFunctionOnSet(rest, P) = SumFunctionOnSet(Reserves(r), P)
    BY ONLY <1>5, <1>12, <1>13, SumSame
  <2> QED  BY <2>1, <2>2
<1>15. SumFunctionOnSet(paid, O) = SumFunctionOnSet(Payments(fills), B)
  <2>1. SumFunctionOnSet(paid, O) = SumFunctionOnSet(paid, B)
    BY ONLY <1>5, <1>7, <1>12, <1>13, SumSupport
  <2>2. SumFunctionOnSet(paid, B) = SumFunctionOnSet(Payments(fills), B)
    BY ONLY <1>7, <1>12, <1>13, SumSame
  <2> QED  BY <2>1, <2>2
<1>16. SumFunctionOnSet(slack, O) = 3 * Cardinality(Q)
  <2>1. SumFunctionOnSet(slack, O) = SumFunctionOnSet(slack, Q)
    BY ONLY <1>5, <1>8, <1>12, <1>13, SumSupport
  <2>2. SumFunctionOnSet(slack, Q) = 3 * Cardinality(Q)
    BY ONLY <1>8, <1>12, SumCount
  <2> QED  BY <2>1, <2>2
<1>17. SumFunctionOnSet(after, O) = SumFunctionOnSet(rest, O) + SumFunctionOnSet(paid, O)
  <2>1. \A o \in O : after[o] = rest[o] + paid[o]
    BY <1>11
  <2> QED  BY ONLY <1>5, <1>13, <2>1, SumPlus
<1>18. SumFunctionOnSet(limit, O) = SumFunctionOnSet(res, O) + SumFunctionOnSet(slack, O)
  <2>1. \A o \in O : limit[o] = res[o] + slack[o]
    BY <1>11
  <2> QED  BY ONLY <1>5, <1>13, <2>1, SumPlus
<1>19. SumFunctionOnSet(after, O) <= SumFunctionOnSet(limit, O)
  <2>1. \A o \in O : after[o] \in Int /\ limit[o] \in Int /\ after[o] <= limit[o]
    BY <1>11
  <2> QED  BY ONLY <1>5, <2>1, SumMonotone
<1>20. Reserved(r) = SumFunctionOnSet(Reserves(r), P) /\ Reserved(e) = SumFunctionOnSet(res, O)
  BY <1>1, BuysTyped DEF P, O, res
<1> QED
  BY <1>14, <1>15, <1>16, <1>17, <1>18, <1>19, <1>20 DEF PaidFor, B, Q, fills

LEMMA FilledCash ==
  ASSUME NEW e, Typed(e), NEW plan, PlanFits(e, plan), NEW r \in Filled(e, plan)
  PROVE  /\ Typed(r) /\ DOMAIN r.orders \subseteq DOMAIN e.orders
         /\ AvailableCash(r) >= AvailableCash(e) - 3 * Cardinality(Partly(e, r))
<1> DEFINE fills == FillsOf(e, plan)
<1>1. FillsTyped(fills)
  BY FillsOfTyped
<1>2. PICK f \in Carried(e, fills) : r = Reduced(f, plan)
  BY DEF Filled
<1>3. PICK m \in Nat : m = PaidFor(fills, DOMAIN fills)
  BY <1>1, PaymentNumbers
<1> HIDE DEF fills
<1>4. Typed(f) /\ Kept(e, f)
  BY <1>1, CarriedFacts DEF Filling
<1>5. f.cash >= e.cash - m
  BY <1>1, <1>3, CarriedPays DEF Paying
<1>6. Typed(r) /\ Took(e, r) /\ SameMoney(f, r)
  BY <1>2, <1>4, ReducedFacts
<1>7. Reserved(r) + m <= Reserved(e) + 3 * Cardinality(Partly(e, r))
  BY <1>2, <1>3, <1>4, ReducedPays DEF fills
<1>8. PICK k \in Nat : k = Cardinality(Partly(e, r))
  BY <1>6, PartlyTyped
<1>9. /\ Reserved(e) \in Nat /\ AvailableCash(e) = e.cash - Reserved(e)
      /\ Reserved(r) \in Nat /\ AvailableCash(r) = r.cash - Reserved(r)
  BY <1>6, BuysTyped
<1>10. e.cash \in Nat /\ f.cash \in Nat /\ r.cash = f.cash
  BY <1>4, <1>6 DEF Typed, SameMoney
<1>11. AvailableCash(r) >= AvailableCash(e) - 3 * k
  BY <1>5, <1>7, <1>8, <1>9, <1>10
<1> QED
  BY <1>6, <1>8, <1>11 DEF Took

(* What a step may do to the cash that is available. *)
Drifts(e, f) ==
  AvailableCash(f) >= Least(AvailableCash(e), 0) - 3 * Cardinality(Partly(e, f))

LEMMA PrunedDrifts ==
  ASSUME NEW e, Typed(e), NEW f, Pruned(e, f)
  PROVE  Drifts(e, f)
<1>1. AvailableCash(f) >= AvailableCash(e)
  BY PrunedCash
<1>2. PICK n \in Nat : n = Cardinality(Partly(e, f))
  BY PartlyTyped DEF Pruned
<1>3. AvailableCash(e) \in Int /\ AvailableCash(f) \in Int
  BY BuysTyped DEF Pruned
<1> QED
  BY <1>1, <1>2, <1>3 DEF Drifts, Least

LEMMA CoveredDrifts ==
  ASSUME NEW e, Typed(e), NEW f, Typed(f), AvailableCash(f) >= 0
  PROVE  Drifts(e, f)
<1>1. PICK n \in Nat : n = Cardinality(Partly(e, f))
  BY PartlyTyped
<1>2. AvailableCash(e) \in Int /\ AvailableCash(f) \in Int
  BY BuysTyped
<1> QED
  BY <1>1, <1>2 DEF Drifts, Least

LEMMA PrunedTrans ==
  ASSUME NEW e, NEW m, Pruned(e, m), NEW f, Pruned(m, f)
  PROVE  Pruned(e, f)
BY DEF Pruned, SameMoney, Fewer, Alike

LEMMA PrunedSelf == ASSUME NEW e, Typed(e) PROVE Pruned(e, e)
BY DEF Pruned, SameMoney, Fewer, Alike

LEMMA FilledDrifts ==
  ASSUME NEW e, Typed(e), NEW m, Pruned(e, m), NEW plan, PlanFits(m, plan), NEW r \in Filled(m, plan)
  PROVE  Typed(r) /\ Drifts(e, r)
<1>1. Typed(m) /\ AvailableCash(m) >= AvailableCash(e)
  BY PrunedCash DEF Pruned
<1>2. /\ Typed(r) /\ DOMAIN r.orders \subseteq DOMAIN m.orders
      /\ AvailableCash(r) >= AvailableCash(m) - 3 * Cardinality(Partly(m, r))
  BY <1>1, FilledCash
<1>3. Partly(m, r) = Partly(e, r)
  BY <1>2, PartlyPruned
<1>4. PICK n \in Nat : n = Cardinality(Partly(e, r))
  BY <1>2, PartlyTyped
<1>5. AvailableCash(e) \in Int /\ AvailableCash(m) \in Int /\ AvailableCash(r) \in Int
  BY <1>1, <1>2, BuysTyped
<1>6. AvailableCash(r) >= AvailableCash(e) - 3 * n
  BY <1>1, <1>2, <1>3, <1>4, <1>5
<1> QED
  BY <1>2, <1>4, <1>5, <1>6 DEF Drifts, Least

-----------------------------------------------------------------------------
(* The engines a handler stages.                                            *)
LEMMA UnexaminedPruned ==
  ASSUME NEW e, Typed(e), NEW a \in Assets
  PROVE  Pruned(e, Unexamined(e, a))
<1> DEFINE ids == Open(e, a, "buy") \cup Open(e, a, "sell")
           z   == [buy |-> 0, sell |-> 0]
<1> PICK no \in BOOLEAN : no = FALSE
  OBVIOUS
<1>1. PICK g : g = Examined(e, ids, no)
  OBVIOUS
<1>2. Typed(g) /\ SameMoney(e, g) /\ Fewer(e, g)
  BY ONLY <1>1, Typed(e), no \in BOOLEAN, ExaminedFacts
<1>3. Unexamined(e, a) = WithTaken(g, a, z)
  BY <1>1 DEF Unexamined, WithTaken
<1>4. z \in [buy : Nat, sell : Nat]
  OBVIOUS
<1> HIDE DEF ids, z
<1>5. PICK f : f = WithTaken(g, a, z)
  OBVIOUS
<1>6. Typed(f) /\ SameMoney(g, f) /\ f.orders = g.orders
  BY ONLY <1>2, <1>4, <1>5, a \in Assets, TakenFacts
<1> QED
  BY <1>2, <1>3, <1>5, <1>6 DEF Pruned, SameMoney, Fewer

LEMMA BookDrifts ==
  ASSUME NEW e, Typed(e), NEW m, Pruned(e, m), NEW a \in Assets, NEW b \in Shown,
         NEW s \in BookProcessed(m, a, b)
  PROVE  Drifts(e, s)
<1> DEFINE plan == Plan(m, Crossed(m, a, b), Grants(b))
           seen == Seen(m, a, b)
           x(side) == Amount(m, a, b, side)
<1>1. Typed(m)
  BY DEF Pruned
<1>2. PICK f \in Filled(seen, plan) :
        s = [f EXCEPT !.taken[a].buy = @ + x("buy"), !.taken[a].sell = @ + x("sell")]
  BY DEF BookProcessed, Amount
<1>3. Lesser(m, seen) /\ \A o \in Looking(m, a, b) : o \in DOMAIN seen.orders
  BY <1>1, SeenFacts
<1>4. Crossed(m, a, b) \subseteq Looking(m, a, b) /\ PlanFits(m, plan) /\ DOMAIN plan = Crossed(m, a, b)
  BY <1>1, CrossedFacts
<1> HIDE DEF plan, seen, x
<1>5. Pruned(e, seen)
  BY <1>3, PrunedTrans DEF Pruned, Lesser
<1>6. PlanFits(seen, plan)
  BY <1>3, <1>4 DEF PlanFits, Lesser, Fewer, Alike
<1>7. Typed(f) /\ Drifts(e, f)
  BY <1>2, <1>5, <1>6, FilledDrifts
<1>8. s.orders = f.orders /\ s.cash = f.cash
  BY <1>2, <1>7 DEF Typed
<1>9. AvailableCash(s) = AvailableCash(f)
  BY <1>8 DEF AvailableCash, Reserved, Reserves, Open
<1>10. Partly(e, s) = Partly(e, f)
  BY <1>8 DEF Partly, Buys, Open
<1> QED
  BY <1>7, <1>9, <1>10 DEF Drifts

LEMMA TradeDrifts ==
  ASSUME NEW e, Typed(e), NEW m, Pruned(e, m), NEW a \in Assets, NEW t \in Trades,
         NEW s \in TradeProcessed(m, a, t)
  PROVE  Drifts(e, s)
<1> DEFINE through == Through(m, a, t)
           liquidity == [x \in {Resting(t)} |-> Participating(t.size)]
           marked == {o \in Waiting(m, a, t) : Left(m, through, liquidity, o) > 0}
           X == [o \in DOMAIN m.orders |->
                   IF o \in marked THEN [m.orders[o] EXCEPT !.traded = TRUE] ELSE m.orders[o]]
           plan == Plan(m, through, liquidity)
<1>1. Typed(m)
  BY DEF Pruned
<1>2. PICK f : f = [m EXCEPT !.orders = X]
  OBVIOUS
<1>3. s \in Filled(f, plan)
  BY <1>2 DEF TradeProcessed
<1>4. X = [o \in DOMAIN X |-> X[o]] /\ DOMAIN X = DOMAIN m.orders
  OBVIOUS
<1>5. \A o \in DOMAIN X : \/ X[o] = m.orders[o]
                          \/ \E yes \in BOOLEAN : X[o] = [m.orders[o] EXCEPT !.traded = yes]
  OBVIOUS
<1>6. PlanFits(m, plan)
  <2>1. Participating(t.size) \in Nat
    <3>1. t.size \in Nat /\ Participation \in Nat
      BY PaperAssumption
    <3> QED  BY <3>1, MulFacts DEF Participating
  <2>2. through \subseteq DOMAIN m.orders /\ \A o \in through : m.orders[o].side = Resting(t)
    BY DEF Through, Waiting, Open
  <2>3. \A o \in through : liquidity[m.orders[o].side] \in Nat
    BY <2>1, <2>2
  <2> HIDE DEF through, liquidity
  <2> QED  BY <1>1, <2>2, <2>3, PlanFacts
<1> HIDE DEF X, plan
<1>7. Lesser(m, f)
  BY ONLY <1>1, <1>2, <1>4, <1>5, TradedFacts
<1>8. f.orders = X
  BY <1>1, <1>2 DEF Typed
<1>9. Pruned(e, f)
  BY <1>7, PrunedTrans DEF Pruned, Lesser
<1>10. PlanFits(f, plan)
  BY <1>4, <1>6, <1>7, <1>8 DEF PlanFits, Lesser, Fewer, Alike
<1> QED
  BY <1>3, <1>9, <1>10, FilledDrifts

(* A buy is admitted if its reserve is covered, a sell reserves no cash. *)
LEMMA WithOrderDrifts ==
  ASSUME NEW e, Typed(e), NEW o \in Ids, o \notin DOMAIN e.orders, NEW order \in Order,
         order.side = "buy" => BuyReserve(order.price, order.remaining) <= AvailableCash(e),
         NEW f, f = WithOrder(e, o, order)
  PROVE  Drifts(e, f)
<1>1. /\ Typed(f) /\ SameMoney(e, f)
      /\ DOMAIN f.orders = DOMAIN e.orders \cup {o} /\ f.orders[o] = order
      /\ \A p \in DOMAIN e.orders : p # o /\ f.orders[p] = e.orders[p]
  BY WithOrderParts
<1>2. PICK n \in Nat : n = BuyReserve(order.price, order.remaining)
  <2>1. order.price \in Nat /\ order.remaining \in Nat
    BY PaperAssumption DEF Order
  <2> QED  BY <2>1, ReserveNumber
<1>3. /\ Buys(e) = {p \in DOMAIN e.orders : e.orders[p].side = "buy"}
      /\ Buys(f) = {p \in DOMAIN f.orders : f.orders[p].side = "buy"}
      /\ IsFiniteSet(Buys(e)) /\ \A p \in Buys(f) : Reserves(f)[p] \in Int
  BY <1>1, BuysTyped
<1>4. \A p \in Buys(e) : Reserves(f)[p] = Reserves(e)[p] /\ Reserves(e)[p] \in Int
  BY <1>1, <1>3, BuysTyped DEF Reserves
<1>5. SumFunctionOnSet(Reserves(f), Buys(e)) = SumFunctionOnSet(Reserves(e), Buys(e))
  BY <1>3, <1>4, SumSame
<1>6. /\ Reserved(e) = SumFunctionOnSet(Reserves(e), Buys(e)) /\ Reserved(e) \in Nat
      /\ Reserved(f) = SumFunctionOnSet(Reserves(f), Buys(f))
      /\ AvailableCash(e) = e.cash - Reserved(e) /\ AvailableCash(f) = f.cash - Reserved(f)
      /\ e.cash \in Nat /\ f.cash = e.cash
  BY <1>1, BuysTyped DEF SameMoney, Typed
<1>7. CASE order.side = "buy"
  <2>1. Buys(f) = Buys(e) \cup {o} /\ o \notin Buys(e)
    BY <1>1, <1>3, <1>7
  <2>2. Reserves(f)[o] = n
    BY <1>1, <1>2 DEF Reserves
  <2>3. SumFunctionOnSet(Reserves(f), Buys(e) \cup {o})
          = Reserves(f)[o] + SumFunctionOnSet(Reserves(f), Buys(e))
    <3>1. \A p \in Buys(e) \cup {o} : Reserves(f)[p] \in Int
      BY <1>3, <2>1
    <3> QED  BY ONLY <1>3, <2>1, <3>1, SumWith
  <2>4. Reserved(f) = n + Reserved(e)
    BY <1>5, <1>6, <2>1, <2>2, <2>3
  <2>5. AvailableCash(f) >= 0
    BY <1>2, <1>6, <1>7, <2>4
  <2> QED  BY <1>1, <2>5, CoveredDrifts
<1>8. CASE order.side # "buy"
  <2>1. Buys(f) = Buys(e)
    BY <1>1, <1>3, <1>8
  <2>2. AvailableCash(f) = AvailableCash(e)
    BY <1>5, <1>6, <2>1
  <2>3. PICK k \in Nat : k = Cardinality(Partly(e, f))
    BY <1>1, PartlyTyped
  <2> QED  BY <1>6, <2>2, <2>3 DEF Drifts, Least
<1> QED
  BY <1>7, <1>8

(* Flattening leaves no order that reserves anything. *)
LEMMA FlattenDrifts ==
  ASSUME NEW e, Typed(e), \A a \in Assets : book[a] \in Shown, NEW s \in FlattenedAll(e)
  PROVE  Drifts(e, s)
<1>1. PICK c : c = CancelAll(e)
  OBVIOUS
<1>2. Typed(c) /\ DOMAIN c.orders = {}
  BY <1>1, CancelAllFacts DEF Lesser
<1>3. PICK fills : fills = FlattenFills(e) /\ s \in Carried(c, fills)
  BY <1>1 DEF FlattenedAll
<1>4. FillsTyped(fills)
  BY <1>3, FlattenFillsTyped
<1>5. Typed(s) /\ s.orders = c.orders
  BY <1>2, <1>3, <1>4, CarriedFacts DEF Filling, Kept
<1>6. Buys(s) = {}
  BY <1>2, <1>5 DEF Buys, Open
<1>7. Reserved(s) = 0
  BY <1>5, <1>6, BuysTyped, SumEmpty
<1>8. AvailableCash(s) = s.cash - Reserved(s) /\ s.cash \in Nat
  BY <1>5, BuysTyped DEF Typed
<1> QED
  BY <1>5, <1>7, <1>8, CoveredDrifts

LEMMA CommitRuns ==
  ASSUME NEW current, NEW found, NEW staged, Commit(current, found, staged), Up'
  PROVE  engine' = current \/ engine' \in staged
BY DEF Commit, Stopped, Up

LEMMA SubmitDrifts ==
  ASSUME PaperInv, Up', NEW a, NEW side \in {"buy", "sell"}, a \in Assets, NEW price, NEW size \in Nat,
         NEW strategy \in {"maker", "copy"}, SubmitIntent(a, side, price, size, strategy)
  PROVE  Drifts(engine, engine')
<1>1. Typed(engine)
  BY GoodTyped DEF PaperInv
<1>2. ~Stopped("reserve", {durable})
  BY DEF Stopped, Up
<1>3. PICK o \in Ids \ (DOMAIN engine.orders \cup DOMAIN durable.orders) :
        /\ Admissible(a, side, price, size)
        /\ LET order == [asset |-> a, side |-> side, strategy |-> strategy,
                         price |-> price, remaining |-> size,
                         examined |-> FALSE, traded |-> TRUE]
           IN Commit(engine, durable, {WithOrder(engine, o, order)})
  BY <1>2 DEF SubmitIntent
<1>4. PICK order : order = [asset |-> a, side |-> side, strategy |-> strategy,
                            price |-> price, remaining |-> size,
                            examined |-> FALSE, traded |-> TRUE]
  OBVIOUS
<1>5. price \in 1..(One - 1) /\ size \in Nat \ {0}
  BY <1>3, PaperAssumption DEF Admissible
<1>6. order \in Order /\ order.side = side /\ order.price = price /\ order.remaining = size
  BY <1>4, <1>5 DEF Order
<1>7. order.side = "buy" => BuyReserve(order.price, order.remaining) <= AvailableCash(engine)
  BY <1>3, <1>6 DEF Admissible, Covered
<1>8. PICK f : f = WithOrder(engine, o, order)
  OBVIOUS
<1>9. engine' = engine \/ engine' = f
  <2>1. Commit(engine, durable, {f})
    BY <1>3, <1>4, <1>8
  <2> QED  BY <2>1, CommitRuns
<1>10. Drifts(engine, f)
  <2>1. o \in Ids /\ o \notin DOMAIN engine.orders
    BY <1>3
  <2> QED  BY ONLY <1>1, <1>6, <1>7, <1>8, <2>1, WithOrderDrifts
<1> QED
  BY <1>1, <1>9, <1>10, PrunedSelf, PrunedDrifts

LEMMA DriftStep ==
  ASSUME PaperInv, [Next]_vars, Up, Up'
  PROVE  Drifts(engine, engine')
<1>1. Typed(engine) /\ \A a \in Assets : book[a] \in Shown
  BY GoodTyped DEF PaperInv, EnvTyped
<1>2. Pruned(engine, engine) /\ Drifts(engine, engine)
  BY <1>1, PrunedSelf, PrunedDrifts
<1>3. \A s : Lesser(engine, s) => Drifts(engine, s)
  BY <1>1, PrunedDrifts DEF Lesser, Pruned
<1>4. CASE engine' = engine
  BY <1>2, <1>4
<1>5. ASSUME NEW a \in Assets, NEW b \in Books, NEW again \in BOOLEAN, BookEvent(a, b, again)
      PROVE  Drifts(engine, engine')
  <2>1. PICK next : next = [bids |-> b.bids, asks |-> b.asks,
                            tradeable |-> b.bids # <<>> /\ b.asks # <<>>]
    OBVIOUS
  <2>2. next \in Shown
    <3>1. b.bids \in Seq(Level) /\ b.asks \in Seq(Level)
      BY PaperAssumption
    <3>2. PICK yes \in BOOLEAN : yes = (b.bids # <<>> /\ b.asks # <<>>)
      OBVIOUS
    <3> QED  BY <2>1, <3>1, <3>2 DEF Shown
  <2>3. PICK current : current = IF again THEN engine ELSE Unexamined(engine, a)
    OBVIOUS
  <2>4. PICK found : Commit(current, found, BookProcessed(current, a, next))
    BY <1>5, <2>1, <2>3 DEF BookEvent
  <2>5. Pruned(engine, current)
    BY <1>1, <1>2, <2>3, UnexaminedPruned
  <2>6. engine' = current \/ engine' \in BookProcessed(current, a, next)
    BY <2>4, CommitRuns
  <2> QED  BY <1>1, <2>2, <2>5, <2>6, PrunedDrifts, BookDrifts
<1>6. ASSUME NEW a \in Assets, NEW t \in Trades, NEW again \in BOOLEAN,
             NEW young \in SUBSET DOMAIN engine.orders, TradeEvent(a, t, again, young)
      PROVE  Drifts(engine, engine')
  <2>1. PICK current : current = IF again THEN engine ELSE Untraded(engine, a, young)
    OBVIOUS
  <2>2. PICK found : Commit(current, found, TradeProcessed(current, a, t))
    BY <1>6, <2>1 DEF TradeEvent
  <2>3. Pruned(engine, current)
    <3>1. Lesser(engine, Untraded(engine, a, young))
      BY <1>1, UntradedFacts
    <3> QED  BY <1>2, <2>1, <3>1 DEF Lesser, Pruned
  <2>4. engine' = current \/ engine' \in TradeProcessed(current, a, t)
    BY <2>2, CommitRuns
  <2> QED  BY <1>1, <2>3, <2>4, PrunedDrifts, TradeDrifts
<1>7. ASSUME NEW s, Lesser(engine, s), NEW found, Commit(engine, found, {s})
      PROVE  Drifts(engine, engine')
  BY <1>2, <1>3, <1>7, CommitRuns
<1>8. ASSUME NEW a \in Assets, Invalidate(a) PROVE Drifts(engine, engine')
  BY <1>1, <1>7, <1>8, WithoutFacts DEF Invalidate
<1>9. ASSUME NEW a \in Assets, Quote(a) \/ \E side \in {"buy", "sell"}, size \in Sizes : Copy(a, side, size)
      PROVE  Drifts(engine, engine')
  <2>1. CASE Quote(a)
    <3>1. PICK size \in Sizes : SubmitIntent(a, "buy", book[a].bids[1].price + Tick, size, "maker")
      BY <2>1 DEF Quote
    <3>2. size \in Nat
      BY PaperAssumption
    <3> QED  BY <3>1, <3>2, SubmitDrifts
  <2>2. CASE \E side \in {"buy", "sell"}, size \in Sizes : Copy(a, side, size)
    <3>1. PICK side \in {"buy", "sell"}, size \in Sizes : Copy(a, side, size)
      BY <2>2
    <3>2. PICK price : SubmitIntent(a, side, price, size, "copy")
      BY <3>1 DEF Copy
    <3>3. size \in Nat
      BY PaperAssumption
    <3> QED  BY <3>2, <3>3, SubmitDrifts
  <2> QED  BY <1>9, <2>1, <2>2
<1>10. CASE Maintain
  <2>1. ~Stopped("reserve", {Without(engine, due)})
    BY DEF Stopped, Up
  <2>2. Commit(engine, durable, {Without(engine, due)})
    BY <1>10, <2>1 DEF Maintain
  <2> QED  BY <1>1, <1>7, <2>2, WithoutFacts
<1>11. CASE ComplianceCancels
  BY <1>1, <1>7, <1>11, CancelAllFacts DEF ComplianceCancels
<1>12. ASSUME NEW staged, Command(staged), \A s \in staged : Drifts(engine, s)
       PROVE  Drifts(engine, engine')
  BY <1>2, <1>12 DEF Command
<1>13. CASE CancelOrders
  <2>1. Drifts(engine, CancelAll(engine)) /\ Drifts(engine, Without(engine, due))
    BY <1>1, <1>3, CancelAllFacts, WithoutFacts
  <2> QED  BY <1>12, <1>13, <2>1 DEF CancelOrders
<1>14. CASE Flatten
  BY <1>1, <1>12, <1>14, FlattenDrifts DEF Flatten
<1>15. ~Shutdown /\ ~Restart
  BY DEF Shutdown, Stopped, Restart, Up
<1>16. /\ UNCHANGED vars => engine' = engine
       /\ \A o \in Ids : OrderDue(o) => engine' = engine
       /\ Disconnected \/ NoQuote \/ Pause => engine' = engine
  BY DEF vars, OrderDue, Disconnected, NoQuote, Pause
<1> QED
  BY <1>4, <1>5, <1>6, <1>8, <1>9, <1>10, <1>11, <1>13, <1>14, <1>15, <1>16 DEF Next

(* How far paper_reserved_cash_invariant_broken can go: while the runtime   *)
(* is up, no step takes the cash that is available to less than what was    *)
(* missing before and three units, of the smallest amount of money, for     *)
(* each open buy it fills in part; admission, cancels, full fills, sells    *)
(* and flattening take nothing that is not there (cash_reserved_for_buys).  *)
THEOREM ReserveDrifts ==
  Spec => [][Up /\ Up' =>
               AvailableCash(engine')
                 >= Least(AvailableCash(engine), 0) - 3 * Cardinality(Partly(engine, engine'))]_vars
<1>1. PaperInv /\ [Next]_vars
        => [Up /\ Up' => AvailableCash(engine')
              >= Least(AvailableCash(engine), 0) - 3 * Cardinality(Partly(engine, engine'))]_vars
  BY DriftStep DEF Drifts
<1> QED
  BY <1>1, PaperInvariant, PTL DEF Spec
=============================================================================
