---------------------------- MODULE SumTheorems ----------------------------
(***************************************************************************)
(* Sums of a function over a finite set, as SumFunctionOnSet computes them *)
(* by folding: what one more element adds, that a sum of integers is one,  *)
(* and how sums compare. Induction over a finite set is the choice of a    *)
(* smallest set of which the claim fails.                                  *)
(***************************************************************************)
EXTENDS Integers, Functions, FiniteSetTheorems, WellFoundedInduction, TLAPS

Part(t, s) == t \subseteq s /\ t # s

LEMMA SmallestSet ==
  ASSUME NEW S, IsFiniteSet(S), NEW B, B \subseteq SUBSET S, B # {}
  PROVE  \E s \in B : \A t \in B : ~Part(t, s)
<1>1. IsWellFoundedOn(StrictSubsetOrdering(S), FiniteSubsetsOf(S))
  BY FS_StrictSubsetOrderingWellFounded
<1>2. FiniteSubsetsOf(S) = SUBSET S
  BY FS_FiniteSubsetsOfFinite
<1>3. \E s \in B : \A t \in B : ~(<<t, s>> \in StrictSubsetOrdering(S))
  BY <1>1, <1>2, WFMin
<1> QED
  BY <1>3 DEF StrictSubsetOrdering, Part

-----------------------------------------------------------------------------
(* The function the fold is the value of, and that there is exactly one.    *)
Added(f, g, s) == IF s = {} THEN 0 ELSE LET x == CHOOSE x \in s : TRUE IN f[x] + g[s \ {x}]
Totals(g, f, S) == g = [s \in SUBSET S |-> Added(f, g, s)]

LEMMA AddedFrom ==
  ASSUME NEW f, NEW g, NEW h, NEW s, \A t : Part(t, s) => g[t] = h[t]
  PROVE  Added(f, g, s) = Added(f, h, s)
<1>1. CASE s = {}
  BY <1>1 DEF Added
<1>2. CASE s # {}
  <2>1. Part(s \ {CHOOSE x \in s : TRUE}, s)
    BY <1>2 DEF Part
  <2> QED  BY <1>2, <2>1 DEF Added
<1> QED
  BY <1>1, <1>2

LEMMA TotalsRestricted ==
  ASSUME NEW f, NEW g, NEW S, Totals(g, f, S), NEW T \in SUBSET S
  PROVE  Totals([s \in SUBSET T |-> g[s]], f, T)
<1> DEFINE h == [s \in SUBSET T |-> g[s]]
<1>1. ASSUME NEW s \in SUBSET T PROVE h[s] = Added(f, h, s)
  <2>1. \A t : Part(t, s) => g[t] = h[t]
    BY DEF Part
  <2>2. g[s] = Added(f, g, s)
    BY DEF Totals
  <2>3. Added(f, g, s) = Added(f, h, s)
    BY ONLY <2>1, AddedFrom
  <2> QED  BY <2>2, <2>3
<1>2. h = [s \in SUBSET T |-> Added(f, h, s)]
  <2> HIDE DEF h
  <2>1. h = [s \in SUBSET T |-> h[s]]
    BY DEF h
  <2> QED  BY <1>1, <2>1
<1> QED
  BY <1>2 DEF Totals

LEMMA TotalsUnique ==
  ASSUME NEW f, NEW S, IsFiniteSet(S), NEW g, NEW h, Totals(g, f, S), Totals(h, f, S)
  PROVE  g = h
<1> DEFINE B == {s \in SUBSET S : g[s] # h[s]}
<1>1. B = {}
  <2> SUFFICES ASSUME B # {} PROVE FALSE
    OBVIOUS
  <2>1. PICK s \in B : \A t \in B : ~Part(t, s)
    BY SmallestSet
  <2>2. \A t : Part(t, s) => g[t] = h[t]
    BY <2>1 DEF Part
  <2>3. Added(f, g, s) = Added(f, h, s)
    BY ONLY <2>2, AddedFrom
  <2>4. g[s] = Added(f, g, s) /\ h[s] = Added(f, h, s) /\ g[s] # h[s]
    BY DEF Totals
  <2> QED  BY <2>3, <2>4
<1> QED
  BY <1>1 DEF Totals

LEMMA TotalsExist ==
  ASSUME NEW f, NEW S, IsFiniteSet(S)
  PROVE  \E g : Totals(g, f, S)
<1> DEFINE B == {s \in SUBSET S : ~\E g : Totals(g, f, s)}
<1>1. B = {}
  <2> SUFFICES ASSUME B # {} PROVE FALSE
    OBVIOUS
  <2>1. PICK s \in B : \A t \in B : ~Part(t, s)
    BY SmallestSet
  <2> DEFINE total(t) == CHOOSE g : Totals(g, f, t)
             g == [t \in SUBSET s |-> IF t = s THEN Added(f, [u \in SUBSET s |-> total(u)[u]], s)
                                               ELSE total(t)[t]]
  <2>2. \A t : Part(t, s) => Totals(total(t), f, t)
    BY <2>1 DEF Part
  <2> HIDE DEF total
  <2>3. \A t : Part(t, s) => g[t] = total(t)[t]
    BY DEF Part
  <2>4. g[s] = Added(f, [u \in SUBSET s |-> total(u)[u]], s)
    OBVIOUS
  <2>5. g = [t \in SUBSET s |-> g[t]]
    OBVIOUS
  <2> HIDE DEF g
  <2>6. ASSUME NEW t, Part(t, s), NEW u, Part(u, t) PROVE total(t)[u] = total(u)[u]
    <3>1. Totals([v \in SUBSET u |-> total(t)[v]], f, u)
      BY <2>2, <2>6, TotalsRestricted DEF Part
    <3>2. Totals(total(u), f, u) /\ IsFiniteSet(u)
      BY <2>2, <2>6, FS_Subset DEF Part
    <3>3. [v \in SUBSET u |-> total(t)[v]] = total(u)
      BY ONLY <3>1, <3>2, TotalsUnique
    <3>4. [v \in SUBSET u |-> total(t)[v]][u] = total(u)[u]
      BY <3>3
    <3> QED  BY <3>4
  <2>7. ASSUME NEW t, Part(t, s) PROVE g[t] = Added(f, g, t)
    <3>1. PICK h : h = total(t)
      OBVIOUS
    <3>2. \A u : Part(u, t) => h[u] = g[u]
      BY <2>3, <2>6, <2>7, <3>1 DEF Part
    <3>3. Added(f, h, t) = Added(f, g, t)
      BY ONLY <3>2, AddedFrom
    <3>4. h[t] = Added(f, h, t)
      <4>1. Totals(h, f, t) /\ t \in SUBSET t
        BY <2>2, <2>7, <3>1
      <4> QED  BY <4>1 DEF Totals
    <3> QED  BY <2>3, <2>7, <3>1, <3>3, <3>4
  <2>8. g[s] = Added(f, g, s)
    <3>1. PICK h : h = [u \in SUBSET s |-> total(u)[u]]
      OBVIOUS
    <3>2. \A u : Part(u, s) => h[u] = g[u]
      BY <2>3, <3>1 DEF Part
    <3>3. Added(f, h, s) = Added(f, g, s)
      BY ONLY <3>2, AddedFrom
    <3> QED  BY <2>4, <3>1, <3>3
  <2>9. Totals(g, f, s)
    BY <2>5, <2>7, <2>8 DEF Totals, Part
  <2> QED  BY <2>1, <2>9
<1> QED
  BY <1>1

-----------------------------------------------------------------------------
(* The sum, one element at a time.                                          *)
LEMMA SumEmpty == ASSUME NEW f PROVE SumFunctionOnSet(f, {}) = 0
<1>1. SumFunctionOnSet(f, {}) = (CHOOSE g : Totals(g, f, {}))[{}]
  BY DEF SumFunctionOnSet, FoldFunctionOnSet, MapThenFoldSet, Totals, Added
<1>2. Totals(CHOOSE g : Totals(g, f, {}), f, {})
  BY TotalsExist, FS_EmptySet
<1> QED
  BY <1>1, <1>2 DEF Totals, Added

LEMMA SumStep ==
  ASSUME NEW f, NEW S, IsFiniteSet(S), S # {}
  PROVE  \E x \in S : SumFunctionOnSet(f, S) = f[x] + SumFunctionOnSet(f, S \ {x})
<1> DEFINE total(s) == CHOOSE g : Totals(g, f, s)
<1>1. \A s : SumFunctionOnSet(f, s) = total(s)[s]
  BY DEF SumFunctionOnSet, FoldFunctionOnSet, MapThenFoldSet, Totals, Added
<1>2. PICK x \in S : x = CHOOSE y \in S : TRUE
  OBVIOUS
<1> DEFINE T == S \ {x}
<1>3. IsFiniteSet(T)
  BY FS_Subset
<1>4. Totals(total(S), f, S) /\ Totals(total(T), f, T)
  BY <1>3, TotalsExist
<1> HIDE DEF total
<1>5. Totals([s \in SUBSET T |-> total(S)[s]], f, T)
  BY <1>4, TotalsRestricted
<1>6. [s \in SUBSET T |-> total(S)[s]] = total(T)
  BY <1>3, <1>4, <1>5, TotalsUnique
<1>7. total(S)[T] = total(T)[T]
  <2>1. [s \in SUBSET T |-> total(S)[s]][T] = total(S)[T]
    OBVIOUS
  <2> QED  BY <1>6, <2>1
<1>8. total(S)[S] = Added(f, total(S), S)
  BY <1>4 DEF Totals
<1>9. total(S)[S] = f[x] + total(S)[T]
  BY <1>2, <1>8 DEF Added
<1> QED
  BY <1>1, <1>7, <1>9

LEMMA SumIsInteger ==
  ASSUME NEW S, IsFiniteSet(S), NEW f, \A x \in S : f[x] \in Int
  PROVE  SumFunctionOnSet(f, S) \in Int
<1> DEFINE B == {s \in SUBSET S : SumFunctionOnSet(f, s) \notin Int}
<1>1. B = {}
  <2> SUFFICES ASSUME B # {} PROVE FALSE
    OBVIOUS
  <2>1. PICK s \in B : \A t \in B : ~Part(t, s)
    BY SmallestSet
  <2>2. CASE s = {}
    BY <2>2, SumEmpty
  <2>3. CASE s # {}
    <3>1. IsFiniteSet(s)
      BY FS_Subset
    <3>2. PICK x \in s : SumFunctionOnSet(f, s) = f[x] + SumFunctionOnSet(f, s \ {x})
      BY <2>3, <3>1, SumStep
    <3>3. SumFunctionOnSet(f, s \ {x}) \in Int
      BY <2>1 DEF Part
    <3>4. f[x] \in Int
      OBVIOUS
    <3> QED  BY <3>2, <3>3, <3>4
  <2> QED  BY <2>2, <2>3
<1> QED
  BY <1>1

(* Whichever element is taken out, the sum is what it was without it.       *)
LEMMA SumWithout ==
  ASSUME NEW S, IsFiniteSet(S), NEW f, \A x \in S : f[x] \in Int, NEW y \in S
  PROVE  SumFunctionOnSet(f, S) = f[y] + SumFunctionOnSet(f, S \ {y})
<1> DEFINE sum(s) == SumFunctionOnSet(f, s)
           B == {s \in SUBSET S : \E z \in s : sum(s) # f[z] + sum(s \ {z})}
<1>0. \A s \in SUBSET S : IsFiniteSet(s) /\ sum(s) \in Int
  BY FS_Subset, SumIsInteger
<1>1. \A s \in SUBSET S : s # {} => \E x \in s : sum(s) = f[x] + sum(s \ {x})
  BY <1>0, SumStep
<1> HIDE DEF sum
<1>2. B = {}
  <2> SUFFICES ASSUME B # {} PROVE FALSE
    OBVIOUS
  <2>1. PICK s \in B : \A t \in B : ~Part(t, s)
    BY SmallestSet
  <2>2. PICK z \in s : sum(s) # f[z] + sum(s \ {z})
    OBVIOUS
  <2>3. PICK x \in s : sum(s) = f[x] + sum(s \ {x})
    BY <1>1, <2>2
  <2>4. x # z
    BY <2>2, <2>3
  <2>5. s \ {x} \in SUBSET S /\ s \ {z} \in SUBSET S /\ Part(s \ {x}, s) /\ Part(s \ {z}, s)
    BY DEF Part
  <2>6. s \ {x} \notin B /\ s \ {z} \notin B
    BY <2>1, <2>5
  <2>7. sum(s \ {x}) = f[z] + sum((s \ {x}) \ {z})
    BY <2>4, <2>5, <2>6
  <2>8. sum(s \ {z}) = f[x] + sum((s \ {z}) \ {x})
    BY <2>4, <2>5, <2>6
  <2>9. (s \ {x}) \ {z} = (s \ {z}) \ {x}
    OBVIOUS
  <2> DEFINE u == sum((s \ {x}) \ {z})
  <2>10. u \in Int /\ f[x] \in Int /\ f[z] \in Int
    BY <1>0
  <2>11. sum(s) = f[x] + (f[z] + u) /\ sum(s \ {z}) = f[x] + u
    BY <2>3, <2>7, <2>8, <2>9
  <2> HIDE DEF u
  <2> QED  BY <2>2, <2>10, <2>11
<1>3. S \notin B
  BY <1>2
<1> QED
  BY <1>3 DEF sum

LEMMA SumWith ==
  ASSUME NEW S, IsFiniteSet(S), NEW y, y \notin S, NEW f, \A x \in S \cup {y} : f[x] \in Int
  PROVE  SumFunctionOnSet(f, S \cup {y}) = f[y] + SumFunctionOnSet(f, S)
<1>1. IsFiniteSet(S \cup {y}) /\ (S \cup {y}) \ {y} = S
  BY FS_AddElement
<1> QED
  BY <1>1, SumWithout

-----------------------------------------------------------------------------
(* Sums that compare element by element.                                    *)
LEMMA SumMonotone ==
  ASSUME NEW S, IsFiniteSet(S), NEW f, NEW g,
         \A x \in S : f[x] \in Int /\ g[x] \in Int /\ f[x] <= g[x]
  PROVE  SumFunctionOnSet(f, S) <= SumFunctionOnSet(g, S)
<1> DEFINE F(s) == SumFunctionOnSet(f, s)
           G(s) == SumFunctionOnSet(g, s)
           B == {s \in SUBSET S : ~(F(s) <= G(s))}
<1>0. \A s \in SUBSET S : IsFiniteSet(s) /\ F(s) \in Int /\ G(s) \in Int
  BY FS_Subset, SumIsInteger
<1>1. \A s \in SUBSET S : \A x \in s : F(s) = f[x] + F(s \ {x}) /\ G(s) = g[x] + G(s \ {x})
  BY <1>0, SumWithout
<1>2. F({}) = 0 /\ G({}) = 0
  BY SumEmpty
<1> HIDE DEF F, G
<1>3. B = {}
  <2> SUFFICES ASSUME B # {} PROVE FALSE
    OBVIOUS
  <2>1. PICK s \in B : \A t \in B : ~Part(t, s)
    BY SmallestSet
  <2>2. CASE s = {}
    BY <1>2, <2>2
  <2>3. CASE s # {}
    <3>1. PICK x \in s : TRUE
      BY <2>3
    <3>2. F(s \ {x}) <= G(s \ {x})
      BY <2>1 DEF Part
    <3>3. F(s) = f[x] + F(s \ {x}) /\ G(s) = g[x] + G(s \ {x})
      BY <1>1
    <3>4. /\ F(s \ {x}) \in Int /\ G(s \ {x}) \in Int
          /\ f[x] \in Int /\ g[x] \in Int /\ f[x] <= g[x]
      BY <1>0
    <3>5. F(s) <= G(s)
      BY ONLY <3>2, <3>3, <3>4
    <3> QED  BY <3>5
  <2> QED  BY <2>2, <2>3
<1>4. S \notin B
  BY <1>3
<1> QED
  BY <1>4 DEF F, G

LEMMA SumSame ==
  ASSUME NEW S, IsFiniteSet(S), NEW f, NEW g, \A x \in S : f[x] \in Int /\ f[x] = g[x]
  PROVE  SumFunctionOnSet(f, S) = SumFunctionOnSet(g, S)
<1>1. /\ SumFunctionOnSet(f, S) <= SumFunctionOnSet(g, S)
      /\ SumFunctionOnSet(g, S) <= SumFunctionOnSet(f, S)
  BY SumMonotone
<1>2. SumFunctionOnSet(f, S) \in Int /\ SumFunctionOnSet(g, S) \in Int
  BY SumIsInteger
<1> QED
  BY <1>1, <1>2

LEMMA SumNonNegative ==
  ASSUME NEW S, IsFiniteSet(S), NEW f, \A x \in S : f[x] \in Nat
  PROVE  SumFunctionOnSet(f, S) \in Nat
<1> DEFINE B == {s \in SUBSET S : SumFunctionOnSet(f, s) \notin Nat}
<1>1. B = {}
  <2> SUFFICES ASSUME B # {} PROVE FALSE
    OBVIOUS
  <2>1. PICK s \in B : \A t \in B : ~Part(t, s)
    BY SmallestSet
  <2>2. CASE s = {}
    BY <2>2, SumEmpty
  <2>3. CASE s # {}
    <3>1. IsFiniteSet(s)
      BY FS_Subset
    <3>2. PICK x \in s : SumFunctionOnSet(f, s) = f[x] + SumFunctionOnSet(f, s \ {x})
      BY <2>3, <3>1, SumStep
    <3>3. SumFunctionOnSet(f, s \ {x}) \in Nat
      BY <2>1 DEF Part
    <3>4. f[x] \in Nat
      OBVIOUS
    <3> QED  BY <3>2, <3>3, <3>4
  <2> QED  BY <2>2, <2>3
<1> QED
  BY <1>1

-----------------------------------------------------------------------------
(* Sums of sums.                                                            *)
LEMMA SumPlus ==
  ASSUME NEW S, IsFiniteSet(S), NEW f, NEW g, NEW h,
         \A x \in S : f[x] \in Int /\ g[x] \in Int /\ h[x] = f[x] + g[x]
  PROVE  SumFunctionOnSet(h, S) = SumFunctionOnSet(f, S) + SumFunctionOnSet(g, S)
<1> DEFINE F(s) == SumFunctionOnSet(f, s)
           G(s) == SumFunctionOnSet(g, s)
           H(s) == SumFunctionOnSet(h, s)
           B == {s \in SUBSET S : H(s) # F(s) + G(s)}
<1>0. \A s \in SUBSET S : IsFiniteSet(s) /\ F(s) \in Int /\ G(s) \in Int /\ H(s) \in Int
  BY FS_Subset, SumIsInteger
<1>1. \A s \in SUBSET S : \A x \in s : /\ F(s) = f[x] + F(s \ {x}) /\ G(s) = g[x] + G(s \ {x})
                                      /\ H(s) = h[x] + H(s \ {x})
  BY <1>0, SumWithout
<1>2. F({}) = 0 /\ G({}) = 0 /\ H({}) = 0
  BY SumEmpty
<1> HIDE DEF F, G, H
<1>3. B = {}
  <2> SUFFICES ASSUME B # {} PROVE FALSE
    OBVIOUS
  <2>1. PICK s \in B : \A t \in B : ~Part(t, s)
    BY SmallestSet
  <2>2. CASE s = {}
    BY <1>2, <2>2
  <2>3. CASE s # {}
    <3>1. PICK x \in s : TRUE
      BY <2>3
    <3> DEFINE t == s \ {x}
    <3>2. H(t) = F(t) + G(t)
      BY <2>1 DEF Part
    <3>3. F(s) = f[x] + F(t) /\ G(s) = g[x] + G(t) /\ H(s) = h[x] + H(t)
      BY <1>1
    <3>4. F(t) \in Int /\ G(t) \in Int /\ f[x] \in Int /\ g[x] \in Int /\ h[x] = f[x] + g[x]
      BY <1>0
    <3> HIDE DEF t
    <3>5. H(s) = F(s) + G(s)
      BY ONLY <3>2, <3>3, <3>4
    <3> QED  BY <3>5
  <2> QED  BY <2>2, <2>3
<1>4. S \notin B
  BY <1>3
<1> QED
  BY <1>4 DEF F, G, H

LEMMA SumUnion ==
  ASSUME NEW S, IsFiniteSet(S), NEW T, IsFiniteSet(T), S \cap T = {},
         NEW f, \A x \in S \cup T : f[x] \in Int
  PROVE  SumFunctionOnSet(f, S \cup T) = SumFunctionOnSet(f, S) + SumFunctionOnSet(f, T)
<1> DEFINE F(s) == SumFunctionOnSet(f, s)
           B == {s \in SUBSET T : F(S \cup s) # F(S) + F(s)}
<1>0. IsFiniteSet(S \cup T)
  BY FS_Union
<1>1. \A s \in SUBSET (S \cup T) : IsFiniteSet(s) /\ F(s) \in Int
  BY <1>0, FS_Subset, SumIsInteger
<1>2. \A s \in SUBSET (S \cup T) : \A x \in s : F(s) = f[x] + F(s \ {x})
  BY <1>1, SumWithout
<1>3. F({}) = 0
  BY SumEmpty
<1> HIDE DEF F
<1>4. B = {}
  <2> SUFFICES ASSUME B # {} PROVE FALSE
    OBVIOUS
  <2>1. PICK s \in B : \A t \in B : ~Part(t, s)
    BY SmallestSet
  <2>2. CASE s = {}
    <3>1. S \cup s = S /\ F(S) \in Int
      BY <1>1, <2>2
    <3> QED  BY <1>3, <2>2, <3>1
  <2>3. CASE s # {}
    <3>1. PICK x \in s : TRUE
      BY <2>3
    <3> DEFINE t == s \ {x}
    <3>2. F(S \cup t) = F(S) + F(t)
      BY <2>1 DEF Part
    <3>3. (S \cup s) \ {x} = S \cup t
      OBVIOUS
    <3>4. F(s) = f[x] + F(t) /\ F(S \cup s) = f[x] + F(S \cup t)
      BY <1>2, <3>3
    <3>5. F(S) \in Int /\ F(t) \in Int /\ f[x] \in Int
      BY <1>1
    <3> HIDE DEF t
    <3>6. F(S \cup s) = F(S) + F(s)
      BY ONLY <3>2, <3>4, <3>5
    <3> QED  BY <3>6
  <2> QED  BY <2>2, <2>3
<1>5. T \notin B
  BY <1>4
<1> QED
  BY <1>5 DEF F

-----------------------------------------------------------------------------
(* Sums over a part, and of a function that changes in one place.           *)
LEMMA SumSubset ==
  ASSUME NEW T, IsFiniteSet(T), NEW S, S \subseteq T, NEW f, \A x \in T : f[x] \in Nat
  PROVE  SumFunctionOnSet(f, S) <= SumFunctionOnSet(f, T)
<1>1. IsFiniteSet(S) /\ IsFiniteSet(T \ S) /\ S \cap (T \ S) = {} /\ S \cup (T \ S) = T
  BY FS_Subset
<1>2. SumFunctionOnSet(f, T) = SumFunctionOnSet(f, S) + SumFunctionOnSet(f, T \ S)
  <2>1. SumFunctionOnSet(f, S \cup (T \ S)) = SumFunctionOnSet(f, S) + SumFunctionOnSet(f, T \ S)
    BY <1>1, SumUnion
  <2> QED  BY <1>1, <2>1
<1>3. SumFunctionOnSet(f, S) \in Nat /\ SumFunctionOnSet(f, T \ S) \in Nat
  BY <1>1, SumNonNegative
<1> QED
  BY ONLY <1>2, <1>3

LEMMA SumSupport ==
  ASSUME NEW T, IsFiniteSet(T), NEW S, S \subseteq T, NEW f, \A x \in T : f[x] \in Int,
         \A x \in T \ S : f[x] = 0
  PROVE  SumFunctionOnSet(f, T) = SumFunctionOnSet(f, S)
<1>1. IsFiniteSet(S) /\ IsFiniteSet(T \ S) /\ S \cap (T \ S) = {} /\ S \cup (T \ S) = T
  BY FS_Subset
<1>2. SumFunctionOnSet(f, T) = SumFunctionOnSet(f, S) + SumFunctionOnSet(f, T \ S)
  <2>1. SumFunctionOnSet(f, S \cup (T \ S)) = SumFunctionOnSet(f, S) + SumFunctionOnSet(f, T \ S)
    BY <1>1, SumUnion
  <2> QED  BY <1>1, <2>1
<1>3. SumFunctionOnSet(f, T \ S) = 0
  <2> DEFINE g == [x \in T |-> f[x] + f[x]]
  <2>1. SumFunctionOnSet(g, T \ S) = SumFunctionOnSet(f, T \ S) + SumFunctionOnSet(f, T \ S)
    BY <1>1, SumPlus
  <2>2. SumFunctionOnSet(f, T \ S) = SumFunctionOnSet(g, T \ S)
    BY <1>1, SumSame
  <2>3. SumFunctionOnSet(f, T \ S) \in Int
    BY <1>1, SumIsInteger
  <2>4. PICK n : n = SumFunctionOnSet(f, T \ S)
    OBVIOUS
  <2>5. n \in Int /\ n = n + n
    BY <2>1, <2>2, <2>3, <2>4
  <2>6. n = 0
    BY ONLY <2>5
  <2> QED  BY <2>4, <2>6
<1>4. SumFunctionOnSet(f, S) \in Int
  BY <1>1, SumIsInteger
<1> QED
  BY ONLY <1>2, <1>3, <1>4

LEMMA SumChanged ==
  ASSUME NEW S, IsFiniteSet(S), NEW y \in S, NEW f, NEW g,
         \A x \in S : f[x] \in Int /\ g[x] \in Int /\ (x # y => f[x] = g[x])
  PROVE  SumFunctionOnSet(g, S) = (SumFunctionOnSet(f, S) - f[y]) + g[y]
<1>1. IsFiniteSet(S \ {y})
  BY FS_Subset
<1>2. /\ SumFunctionOnSet(f, S) = f[y] + SumFunctionOnSet(f, S \ {y})
      /\ SumFunctionOnSet(g, S) = g[y] + SumFunctionOnSet(g, S \ {y})
  BY SumWithout
<1>3. SumFunctionOnSet(f, S \ {y}) = SumFunctionOnSet(g, S \ {y})
  BY <1>1, SumSame
<1>4. SumFunctionOnSet(f, S \ {y}) \in Int
  BY <1>1, SumIsInteger
<1> QED
  BY <1>2, <1>3, <1>4

(* A finite set has an element of the largest measure. *)
LEMMA LargestElement ==
  ASSUME NEW S, IsFiniteSet(S), S # {}, NEW f, \A x \in S : f[x] \in Int
  PROVE  \E x \in S : \A y \in S : f[y] <= f[x]
<1> DEFINE B == {s \in SUBSET S : s # {} /\ ~\E x \in s : \A y \in s : f[y] <= f[x]}
<1>1. B = {}
  <2> SUFFICES ASSUME B # {} PROVE FALSE
    OBVIOUS
  <2>1. PICK s \in B : \A t \in B : ~Part(t, s)
    BY SmallestSet
  <2>2. PICK z \in s : TRUE
    OBVIOUS
  <2>3. CASE s \ {z} = {}
    BY <2>3
  <2>4. CASE s \ {z} # {}
    <3>0. Part(s \ {z}, s)
      BY DEF Part
    <3>1. PICK x \in s \ {z} : \A y \in s \ {z} : f[y] <= f[x]
      BY <2>1, <2>4, <3>0
    <3>2. CASE f[z] <= f[x]
      BY <3>1, <3>2
    <3>3. CASE ~(f[z] <= f[x])
      <4>1. \A y \in s : f[y] <= f[z]
        BY <3>1, <3>3
      <4> QED  BY <4>1
    <3> QED  BY <3>2, <3>3
  <2> QED  BY <2>3, <2>4
<1> QED
  BY <1>1
=============================================================================
