--------------------------- MODULE TakeProfitProofs ---------------------------
(***************************************************************************)
(* Theorems about TakeProfit, for any percentages, minimum quantity, sizes *)
(* of entries, number of lives and scenarios: any disturbances and any     *)
(* bounds on what is on its way.                                           *)
(***************************************************************************)
EXTENDS TakeProfit, FiniteSetTheorems, SequenceTheorems, TLAPS

(***************************************************************************)
(* Sums over finite sets.  The fold behind SumFunctionOnSet is a recursive *)
(* function on the subsets of its set; induction over them is the search   *)
(* for a smallest counterexample.                                          *)
(***************************************************************************)

(* Induction over a finite set, as the smallest counterexample.            *)
LEMMA SmallestSubset ==
  ASSUME NEW S, IsFiniteSet(S), NEW T \in SUBSET (SUBSET S), T # {}
  PROVE  \E t \in T : \A u \in T : u \subseteq t => u = t
<1>1. IsWellFoundedOn(StrictSubsetOrdering(S), SUBSET S)
  BY FS_FiniteSubsetsOfFinite, FS_StrictSubsetOrderingWellFounded
<1>2. \E t \in T : \A u \in T : ~(<<u, t>> \in StrictSubsetOrdering(S))
  BY <1>1, WFMin
<1> QED
  BY <1>2 DEF StrictSubsetOrdering

First(s) == CHOOSE x \in s : TRUE
Sums(f, S) == CHOOSE g : g = [s \in SUBSET S |->
  IF s = {} THEN 0 ELSE LET x == CHOOSE x \in s : TRUE IN f[x] + g[s \ {x}]]

(* g adds f up over the subsets in D.                                      *)
Adds(g, f, D) == g = [s \in D |-> IF s = {} THEN 0 ELSE f[First(s)] + g[s \ {First(s)}]]

LEMMA SumIs ==
  ASSUME NEW f, NEW S
  PROVE  SumFunctionOnSet(f, S) = Sums(f, S)[S]
BY DEF SumFunctionOnSet, FoldFunctionOnSet, MapThenFoldSet, Sums

UpTo(S, n) == {s \in SUBSET S : Cardinality(s) <= n}

LEMMA SumsExist ==
  ASSUME NEW f, NEW S, IsFiniteSet(S)
  PROVE  Adds(Sums(f, S), f, SUBSET S)
<1> DEFINE Bad == {n \in Nat : ~ \E g : Adds(g, f, UpTo(S, n))}
<1>1. Bad = {}
  <2> SUFFICES ASSUME Bad # {} PROVE FALSE
    OBVIOUS
  <2>1. PICK n \in Bad : \A m \in Bad : ~(m < n)
    <3>1. Bad \subseteq Nat
      OBVIOUS
    <3> HIDE DEF Bad
    <3>2. PICK n \in Bad : \A m \in Bad : ~(<<m, n>> \in OpToRel(<, Nat))
      BY <3>1, NatLessThanWellFounded, WFMin
    <3> QED
      BY <3>1, <3>2 DEF OpToRel
  <2>2. CASE n = 0
    <3>1. UpTo(S, 0) = {{}}
      BY FS_EmptySet, FS_Subset, FS_CardinalityType DEF UpTo
    <3>2. Adds([s \in {{}} |-> 0], f, {{}})
      BY DEF Adds
    <3> QED
      BY <2>1, <2>2, <3>1, <3>2
  <2>3. CASE n # 0
    <3>1. n - 1 \in Nat /\ n - 1 \notin Bad
      BY <2>1, <2>3
    <3>2. PICK g : Adds(g, f, UpTo(S, n - 1))
      BY <3>1
    <3> DEFINE h == [s \in UpTo(S, n) |-> IF s = {} THEN 0 ELSE f[First(s)] + g[s \ {First(s)}]]
    <3>3. ASSUME NEW s \in UpTo(S, n), s # {}
          PROVE  h[s \ {First(s)}] = g[s \ {First(s)}]
      <4> DEFINE t == s \ {First(s)}
      <4>1. First(s) \in s
        BY <3>3 DEF First
      <4>2. IsFiniteSet(s) /\ Cardinality(s) \in Nat /\ Cardinality(s) <= n
        BY FS_Subset, FS_CardinalityType DEF UpTo
      <4>3. t \in SUBSET S /\ Cardinality(t) = Cardinality(s) - 1
        BY <4>1, <4>2, FS_RemoveElement DEF UpTo
      <4>4. t \in UpTo(S, n) /\ t \in UpTo(S, n - 1)
        BY <4>2, <4>3, <2>1 DEF UpTo
      <4>5. h[t] = IF t = {} THEN 0 ELSE f[First(t)] + g[t \ {First(t)}]
        BY <4>4
      <4>6. g[t] = IF t = {} THEN 0 ELSE f[First(t)] + g[t \ {First(t)}]
        BY <3>2, <4>4 DEF Adds
      <4> QED
        BY <4>5, <4>6
    <3>4. Adds(h, f, UpTo(S, n))
      <4> HIDE DEF h
      <4>1. h = [s \in UpTo(S, n) |-> IF s = {} THEN 0 ELSE f[First(s)] + g[s \ {First(s)}]]
        BY DEF h
      <4>2. h = [s \in UpTo(S, n) |-> IF s = {} THEN 0 ELSE f[First(s)] + h[s \ {First(s)}]]
        BY <4>1, <3>3
      <4> QED
        BY <4>2 DEF Adds
    <3> QED
      BY <2>1, <3>4
  <2> QED
    BY <2>2, <2>3
<1>2. UpTo(S, Cardinality(S)) = SUBSET S /\ Cardinality(S) \in Nat
  BY FS_Subset, FS_CardinalityType DEF UpTo
<1>3. PICK g : Adds(g, f, SUBSET S)
  <2>1. Cardinality(S) \notin Bad
    BY <1>1
  <2>2. \E g : Adds(g, f, UpTo(S, Cardinality(S)))
    BY <1>2, <2>1
  <2> QED
    BY <1>2, <2>2
<1>4. g = [s \in SUBSET S |-> IF s = {} THEN 0 ELSE LET x == CHOOSE x \in s : TRUE IN f[x] + g[s \ {x}]]
  BY <1>3 DEF Adds, First
<1>5. Sums(f, S) = [s \in SUBSET S |-> IF s = {} THEN 0 ELSE LET x == CHOOSE x \in s : TRUE IN f[x] + Sums(f, S)[s \ {x}]]
  BY <1>4 DEF Sums
<1> QED
  BY <1>5 DEF Adds, First

(* What the sums over the subsets of T are does not depend on T.           *)
LEMMA SumsAgree ==
  ASSUME NEW f, NEW S, IsFiniteSet(S), NEW T \in SUBSET S
  PROVE  SumFunctionOnSet(f, T) = Sums(f, S)[T]
<1> DEFINE Bad == {s \in SUBSET T : Sums(f, T)[s] # Sums(f, S)[s]}
<1>1. IsFiniteSet(T)
  BY FS_Subset
<1>2. Adds(Sums(f, S), f, SUBSET S) /\ Adds(Sums(f, T), f, SUBSET T)
  BY <1>1, SumsExist
<1>3. Bad = {}
  <2> SUFFICES ASSUME Bad # {} PROVE FALSE
    OBVIOUS
  <2>1. PICK s \in Bad : \A u \in Bad : u \subseteq s => u = s
    <3>1. Bad \in SUBSET (SUBSET T)
      OBVIOUS
    <3> HIDE DEF Bad
    <3> QED
      BY <1>1, <3>1, SmallestSubset
  <2>2. s \in SUBSET T /\ s \in SUBSET S
    OBVIOUS
  <2>3. /\ Sums(f, S)[s] = IF s = {} THEN 0 ELSE f[First(s)] + Sums(f, S)[s \ {First(s)}]
        /\ Sums(f, T)[s] = IF s = {} THEN 0 ELSE f[First(s)] + Sums(f, T)[s \ {First(s)}]
    BY <1>2, <2>2 DEF Adds
  <2>4. s # {}
    BY <2>3
  <2>5. First(s) \in s
    BY <2>4 DEF First
  <2>6. s \ {First(s)} \notin Bad
    BY <2>1, <2>5
  <2> QED
    BY <2>2, <2>3, <2>6
<1> QED
  BY <1>3, SumIs

(* The sum over a set, its first element taken out.                        *)
LEMMA SumFirst ==
  ASSUME NEW f, NEW S, IsFiniteSet(S)
  PROVE  SumFunctionOnSet(f, S) =
           IF S = {} THEN 0 ELSE f[First(S)] + SumFunctionOnSet(f, S \ {First(S)})
<1>1. Sums(f, S)[S] = IF S = {} THEN 0 ELSE f[First(S)] + Sums(f, S)[S \ {First(S)}]
  <2>1. Adds(Sums(f, S), f, SUBSET S) /\ S \in SUBSET S
    BY SumsExist
  <2> QED
    BY <2>1 DEF Adds
<1>2. SumFunctionOnSet(f, S) = Sums(f, S)[S]
  BY SumIs
<1>3. SumFunctionOnSet(f, S \ {First(S)}) = Sums(f, S)[S \ {First(S)}]
  BY SumsAgree
<1> QED
  BY <1>1, <1>2, <1>3

(* A sum of naturals is one, and may be taken in any order.                *)
LEMMA SumType ==
  ASSUME NEW f, NEW S, IsFiniteSet(S), \A x \in S : f[x] \in Nat
  PROVE  SumFunctionOnSet(f, S) \in Nat
<1> DEFINE Bad == {s \in SUBSET S : SumFunctionOnSet(f, s) \notin Nat}
<1>1. Bad = {}
  <2> SUFFICES ASSUME Bad # {} PROVE FALSE
    OBVIOUS
  <2>1. PICK s \in Bad : \A u \in Bad : u \subseteq s => u = s
    <3>1. Bad \in SUBSET (SUBSET S)
      OBVIOUS
    <3> HIDE DEF Bad
    <3> QED
      BY <3>1, SmallestSubset
  <2>2. s \in SUBSET S /\ IsFiniteSet(s)
    BY FS_Subset
  <2>3. SumFunctionOnSet(f, s)
          = IF s = {} THEN 0 ELSE f[First(s)] + SumFunctionOnSet(f, s \ {First(s)})
    BY <2>2, SumFirst
  <2>4. s # {}
    BY <2>3
  <2>5. First(s) \in s
    BY <2>4 DEF First
  <2>6. s \ {First(s)} \notin Bad
    BY <2>1, <2>5
  <2>7. SumFunctionOnSet(f, s \ {First(s)}) \in Nat
    BY <2>2, <2>6
  <2>8. SumFunctionOnSet(f, s) \in Nat
    BY <2>2, <2>3, <2>5, <2>7
  <2> QED
    BY <2>8
<1>2. S \notin Bad
  BY <1>1
<1> QED
  BY <1>2

LEMMA SumTakeOut ==
  ASSUME NEW f, NEW S, IsFiniteSet(S), \A x \in S : f[x] \in Nat, NEW y \in S
  PROVE  SumFunctionOnSet(f, S) = f[y] + SumFunctionOnSet(f, S \ {y})
<1> DEFINE Bad == {s \in SUBSET S : \E z \in s :
                     SumFunctionOnSet(f, s) # f[z] + SumFunctionOnSet(f, s \ {z})}
<1>1. Bad = {}
  <2> SUFFICES ASSUME Bad # {} PROVE FALSE
    OBVIOUS
  <2>1. PICK s \in Bad : \A u \in Bad : u \subseteq s => u = s
    <3>1. Bad \in SUBSET (SUBSET S)
      OBVIOUS
    <3> HIDE DEF Bad
    <3> QED
      BY <3>1, SmallestSubset
  <2>2. PICK z \in s : SumFunctionOnSet(f, s) # f[z] + SumFunctionOnSet(f, s \ {z})
    OBVIOUS
  <2> DEFINE x == First(s)
  <2>3. s \in SUBSET S /\ x \in s
    BY <2>2 DEF First
  <2> HIDE DEF x
  <2>4. \A u \in SUBSET S : IsFiniteSet(u) /\ SumFunctionOnSet(f, u) \in Nat
    BY FS_Subset, SumType
  <2>5. SumFunctionOnSet(f, s) = f[x] + SumFunctionOnSet(f, s \ {x})
    BY <2>3, <2>4, SumFirst DEF x
  <2>6. x # z
    BY <2>2, <2>5
  <2>7. s \ {x} \notin Bad /\ s \ {z} \notin Bad
    BY <2>1, <2>2, <2>3
  <2>8. /\ SumFunctionOnSet(f, s \ {x}) = f[z] + SumFunctionOnSet(f, (s \ {x}) \ {z})
        /\ SumFunctionOnSet(f, s \ {z}) = f[x] + SumFunctionOnSet(f, (s \ {z}) \ {x})
    BY <2>2, <2>3, <2>6, <2>7
  <2>9. (s \ {x}) \ {z} = (s \ {z}) \ {x}
    OBVIOUS
  <2>10. SumFunctionOnSet(f, (s \ {x}) \ {z}) \in Nat /\ f[x] \in Nat /\ f[z] \in Nat
    BY <2>2, <2>3, <2>4
  <2>11. \A a, b, c \in Nat : a + (b + c) = b + (a + c)
    OBVIOUS
  <2>12. f[x] + SumFunctionOnSet(f, s \ {x}) = f[z] + SumFunctionOnSet(f, s \ {z})
    BY <2>8, <2>9, <2>10, <2>11
  <2> QED
    BY <2>2, <2>5, <2>12
<1>2. S \notin Bad
  BY <1>1
<1> QED
  BY <1>2

(* A sum depends on the summands alone.                                    *)
LEMMA SumSame ==
  ASSUME NEW f, NEW g, NEW S, IsFiniteSet(S), \A x \in S : f[x] = g[x]
  PROVE  SumFunctionOnSet(f, S) = SumFunctionOnSet(g, S)
<1> DEFINE Bad == {s \in SUBSET S : SumFunctionOnSet(f, s) # SumFunctionOnSet(g, s)}
<1>1. Bad = {}
  <2> SUFFICES ASSUME Bad # {} PROVE FALSE
    OBVIOUS
  <2>1. PICK s \in Bad : \A u \in Bad : u \subseteq s => u = s
    <3>1. Bad \in SUBSET (SUBSET S)
      OBVIOUS
    <3> HIDE DEF Bad
    <3> QED
      BY <3>1, SmallestSubset
  <2>2. s \in SUBSET S /\ IsFiniteSet(s)
    BY FS_Subset
  <2>3. /\ SumFunctionOnSet(f, s)
            = IF s = {} THEN 0 ELSE f[First(s)] + SumFunctionOnSet(f, s \ {First(s)})
        /\ SumFunctionOnSet(g, s)
            = IF s = {} THEN 0 ELSE g[First(s)] + SumFunctionOnSet(g, s \ {First(s)})
    BY <2>2, SumFirst
  <2>4. s # {}
    BY <2>3
  <2>5. First(s) \in s
    BY <2>4 DEF First
  <2>6. s \ {First(s)} \notin Bad
    BY <2>1, <2>5
  <2> QED
    BY <2>2, <2>3, <2>5, <2>6
<1>2. S \notin Bad
  BY <1>1
<1> QED
  BY <1>2

(* One summand changed.                                                    *)
LEMMA SumChange ==
  ASSUME NEW D, NEW f \in [D -> Nat], NEW g \in [D -> Nat], NEW S \in SUBSET D,
         IsFiniteSet(S), NEW y \in D, \A x \in D : x # y => g[x] = f[x]
  PROVE  SumFunctionOnSet(g, S)
           = IF y \in S THEN SumFunctionOnSet(f, S) - f[y] + g[y] ELSE SumFunctionOnSet(f, S)
<1>1. CASE y \notin S
  BY <1>1, SumSame
<1>2. CASE y \in S
  <2>1. SumFunctionOnSet(f, S) = f[y] + SumFunctionOnSet(f, S \ {y})
    BY <1>2, SumTakeOut
  <2>2. SumFunctionOnSet(g, S) = g[y] + SumFunctionOnSet(g, S \ {y})
    BY <1>2, SumTakeOut
  <2>3. SumFunctionOnSet(g, S \ {y}) = SumFunctionOnSet(f, S \ {y})
    BY FS_Subset, SumSame
  <2>4. SumFunctionOnSet(f, S \ {y}) \in Nat
    BY FS_Subset, SumType
  <2> QED
    BY <1>2, <2>1, <2>2, <2>3, <2>4
<1> QED
  BY <1>1, <1>2

(* Two summands, if all others are nothing.                                *)
LEMMA SumNothing ==
  ASSUME NEW f, NEW S, IsFiniteSet(S), \A x \in S : f[x] = 0
  PROVE  SumFunctionOnSet(f, S) = 0
<1> DEFINE Bad == {s \in SUBSET S : SumFunctionOnSet(f, s) # 0}
<1>1. Bad = {}
  <2> SUFFICES ASSUME Bad # {} PROVE FALSE
    OBVIOUS
  <2>1. PICK s \in Bad : \A u \in Bad : u \subseteq s => u = s
    <3>1. Bad \in SUBSET (SUBSET S)
      OBVIOUS
    <3> HIDE DEF Bad
    <3> QED
      BY <3>1, SmallestSubset
  <2>2. s \in SUBSET S /\ IsFiniteSet(s)
    BY FS_Subset
  <2>3. SumFunctionOnSet(f, s)
          = IF s = {} THEN 0 ELSE f[First(s)] + SumFunctionOnSet(f, s \ {First(s)})
    BY <2>2, SumFirst
  <2>4. s # {}
    BY <2>3
  <2>5. First(s) \in s
    BY <2>4 DEF First
  <2>6. s \ {First(s)} \notin Bad
    BY <2>1, <2>5
  <2>7. f[First(s)] = 0 /\ SumFunctionOnSet(f, s \ {First(s)}) = 0
    BY <2>2, <2>5, <2>6
  <2> QED
    BY <2>3, <2>7
<1>2. S \notin Bad
  BY <1>1
<1> QED
  BY <1>2

LEMMA SumOfTwo ==
  ASSUME NEW f, NEW S, IsFiniteSet(S), \A x \in S : f[x] \in Nat,
         NEW a \in S, NEW b \in S, a # b, \A x \in S \ {a, b} : f[x] = 0
  PROVE  SumFunctionOnSet(f, S) = f[a] + f[b]
<1>1. SumFunctionOnSet(f, S) = f[a] + SumFunctionOnSet(f, S \ {a})
  BY SumTakeOut
<1>2. SumFunctionOnSet(f, S \ {a}) = f[b] + SumFunctionOnSet(f, (S \ {a}) \ {b})
  BY FS_Subset, SumTakeOut
<1>3. SumFunctionOnSet(f, (S \ {a}) \ {b}) = 0
  BY FS_Subset, SumNothing
<1> QED
  BY <1>1, <1>2, <1>3

----------------------------------------------------------------------------
(* The plan never asks for more than the position.                         *)
LEMMA Constants ==
  /\ Tp1Pct \in Nat /\ Tp2Pct \in Nat
  /\ MinQty \in Nat /\ MinQty > 0 /\ MaxLives \in Nat /\ MaxLives > 0
  /\ Whole \in Nat /\ Whole > 0 /\ Tp1Pct <= Whole /\ Tp2Pct <= Whole
BY LadderAssumption DEF Whole

LEMMA Division ==
  ASSUME NEW n \in Nat, NEW d \in Nat, d > 0
  PROVE  n \div d \in Nat /\ n % d \in 0 .. d - 1 /\ n = d * (n \div d) + (n % d)
BY SMT

LEMMA RoundType ==
  ASSUME NEW n \in Nat, NEW d \in Nat, d > 0
  PROVE  /\ RoundHalfEven(n, d) \in Nat
         /\ \A size \in Nat : n <= size * d => RoundHalfEven(n, d) <= size
<1> DEFINE q == n \div d
           r == n % d
<1>1. q \in Nat /\ r \in 0 .. d - 1 /\ n = d * q + r
  BY Division
<1>2. RoundHalfEven(n, d) \in {q, q + 1} /\ (r = 0 => RoundHalfEven(n, d) = q)
  BY <1>1 DEF RoundHalfEven
<1> HIDE DEF q, r
<1>3. ASSUME NEW size \in Nat, n <= size * d
      PROVE  RoundHalfEven(n, d) <= size
  <2>1. CASE q < size
    BY <1>1, <1>2, <2>1
  <2>2. CASE q >= size
    <3>1. d * q >= d * size
      BY <1>1, <2>2
    <3>2. r = 0
      BY <1>1, <1>3, <3>1
    <3>3. q <= size
      <4> SUFFICES ASSUME q >= size + 1 PROVE FALSE
        BY <1>1
      <4>1. d * q >= d * (size + 1)
        BY <1>1
      <4>2. d * (size + 1) = d * size + d
        OBVIOUS
      <4> QED
        BY <1>1, <1>3, <3>2, <4>1, <4>2
    <3> QED
      BY <1>1, <1>2, <3>2, <3>3
  <2> QED
    BY <1>1, <2>1, <2>2
<1> QED
  BY <1>1, <1>2, <1>3

LEMMA PlanType ==
  ASSUME NEW size \in Nat
  PROVE  /\ Plan(size) \in [Label -> Nat]
         /\ Plan(size)["tp1"] + Plan(size)["tp2"] <= size
<1> DEFINE q1 == RoundHalfEven(size * Tp1Pct, Whole)
           q2 == RoundHalfEven(size * Tp2Pct, Whole)
           clipped == IF q1 + q2 <= size THEN q2
                      ELSE IF q1 <= size THEN size - q1 ELSE 0
<1>1. size * Tp1Pct \in Nat /\ size * Tp2Pct \in Nat /\ size * Tp1Pct <= size * Whole
  BY Constants
<1>2. q1 \in Nat /\ q2 \in Nat /\ q1 <= size
  BY <1>1, Constants, RoundType
<1>3. /\ Plan(size) = [l \in Label |-> Valid(IF l = "tp1" THEN q1 ELSE clipped)]
  BY DEF Plan
<1> HIDE DEF q1, q2
<1>4. clipped \in Nat /\ q1 + clipped <= size
  BY <1>2
<1> HIDE DEF clipped
<1>5. \A q \in Nat : Valid(q) \in Nat /\ Valid(q) <= q
  BY DEF Valid
<1>6. /\ Plan(size)["tp1"] = Valid(q1) /\ Plan(size)["tp2"] = Valid(clipped)
      /\ Plan(size) \in [Label -> Nat]
  BY <1>2, <1>3, <1>4, <1>5 DEF Label
<1>7. Valid(q1) \in Nat /\ Valid(clipped) \in Nat /\ Valid(q1) <= q1 /\ Valid(clipped) <= clipped
  BY <1>2, <1>4, <1>5
<1> QED
  BY <1>2, <1>4, <1>6, <1>7

----------------------------------------------------------------------------
(* How many entries of a sequence are in X, with one more at the end and   *)
(* one less at the head.                                                   *)
Count(s, X) == Cardinality({i \in DOMAIN s : s[i] \in X})

LEMMA CountType ==
  ASSUME NEW S, NEW s \in Seq(S), NEW X
  PROVE  /\ IsFiniteSet({i \in DOMAIN s : s[i] \in X})
         /\ Count(s, X) \in Nat
         /\ \A i \in DOMAIN s : s[i] \in X => Count(s, X) > 0
<1> DEFINE I == {i \in DOMAIN s : s[i] \in X}
<1>1. DOMAIN s = 1 .. Len(s) /\ Len(s) \in Nat
  OBVIOUS
<1>2. \A n \in Nat : IsFiniteSet(1 .. n)
  BY FS_Interval
<1>3. IsFiniteSet(DOMAIN s)
  BY <1>1, <1>2
<1>4. IsFiniteSet(I)
  BY <1>3, FS_Subset
<1>5. Cardinality(I) \in Nat /\ (Cardinality(I) = 0 <=> I = {})
  BY <1>4, FS_CardinalityType, FS_EmptySet
<1>6. Count(s, X) = Cardinality(I)
  BY DEF Count
<1>7. \A i \in DOMAIN s : s[i] \in X => Count(s, X) > 0
  <2>1. \A i \in DOMAIN s : s[i] \in X => I # {}
    OBVIOUS
  <2> HIDE DEF I
  <2> QED
    BY <1>5, <1>6, <2>1
<1> QED
  BY <1>4, <1>5, <1>6, <1>7

LEMMA CountEmpty == \A X : Count(<<>>, X) = 0
<1>1. \A X : {i \in DOMAIN <<>> : <<>>[i] \in X} = {}
  OBVIOUS
<1> QED
  BY <1>1, FS_EmptySet DEF Count

LEMMA CountAppend ==
  ASSUME NEW S, NEW s \in Seq(S), NEW e \in S, NEW X
  PROVE  Count(Append(s, e), X) = Count(s, X) + (IF e \in X THEN 1 ELSE 0)
<1> DEFINE t == Append(s, e)
           I == {i \in DOMAIN s : s[i] \in X}
           J == {i \in DOMAIN t : t[i] \in X}
<1>1. /\ DOMAIN s = 1 .. Len(s) /\ Len(s) \in Nat
      /\ DOMAIN t = 1 .. Len(s) + 1
      /\ t[Len(s) + 1] = e /\ \A i \in 1 .. Len(s) : t[i] = s[i]
  OBVIOUS
<1>2. IsFiniteSet(I) /\ Cardinality(I) \in Nat
  BY CountType DEF Count
<1> HIDE DEF t
<1>3. CASE e \in X
  <2>1. J = I \cup {Len(s) + 1} /\ Len(s) + 1 \notin I
    BY <1>1, <1>3
  <2>2. Cardinality(J) = Cardinality(I) + 1
    BY <1>2, <2>1, FS_AddElement
  <2>3. Count(s, X) = Cardinality(I) /\ Count(t, X) = Cardinality(J)
    BY DEF Count
  <2> HIDE DEF I, J
  <2> QED
    BY <1>3, <2>2, <2>3 DEF t
<1>4. CASE e \notin X
  <2>1. J = I
    BY <1>1, <1>4
  <2>2. Count(s, X) = Cardinality(I) /\ Count(t, X) = Cardinality(J)
    BY DEF Count
  <2> HIDE DEF I, J
  <2> QED
    BY <1>2, <1>4, <2>1, <2>2 DEF t
<1> QED
  BY <1>3, <1>4

LEMMA CountTail ==
  ASSUME NEW S, NEW s \in Seq(S), s # <<>>, NEW X
  PROVE  Count(s, X) = Count(Tail(s), X) + (IF Head(s) \in X THEN 1 ELSE 0)
<1> DEFINE t == Tail(s)
           I == {i \in DOMAIN s : s[i] \in X}
           J == {i \in DOMAIN t : t[i] \in X}
           K == I \ {1}
           f == [j \in J |-> j + 1]
<1>1. /\ DOMAIN s = 1 .. Len(s) /\ Len(s) \in Nat /\ Len(s) > 0
      /\ t \in Seq(S) /\ Len(t) = Len(s) - 1 /\ DOMAIN t = 1 .. Len(t)
      /\ \A i \in 1 .. Len(t) : t[i] = s[i + 1]
      /\ Head(s) = s[1]
  BY HeadTailProperties, EmptySeq
<1>2. IsFiniteSet(I) /\ Cardinality(I) \in Nat /\ IsFiniteSet(J) /\ Cardinality(J) \in Nat
  BY <1>1, CountType DEF Count
<1> HIDE DEF t
<1>3. f \in Bijection(J, K)
  <2>1. \A j \in J : j + 1 \in K
    BY <1>1
  <2>2. \A k \in K : k - 1 \in J /\ k = (k - 1) + 1
    BY <1>1
  <2>3. \A i, j \in J : i + 1 = j + 1 => i = j
    BY <1>1
  <2>4. f \in [J -> K]
    BY <2>1
  <2>5. f \in Injection(J, K)
    BY <2>3, <2>4 DEF Injection, IsInjective
  <2>6. f \in Surjection(J, K)
    BY <2>2, <2>4 DEF Surjection
  <2> QED
    BY <2>5, <2>6 DEF Bijection
<1>4. Cardinality(K) = Cardinality(J)
  BY <1>2, <1>3, FS_Bijection DEF ExistsBijection
<1>5. Cardinality(I) = Cardinality(J) + (IF 1 \in I THEN 1 ELSE 0)
  <2>1. Cardinality(K) = IF 1 \in I THEN Cardinality(I) - 1 ELSE Cardinality(I)
    BY <1>2, FS_RemoveElement
  <2> HIDE DEF I, J, K
  <2> QED
    BY <1>2, <1>4, <2>1
<1>6. 1 \in I <=> Head(s) \in X
  BY <1>1
<1>7. Count(s, X) = Cardinality(I) /\ Count(t, X) = Cardinality(J)
  BY DEF Count
<1> HIDE DEF I, J
<1> QED
  BY <1>5, <1>6, <1>7 DEF t

LEMMA HeadAndTail ==
  ASSUME NEW S, NEW s \in Seq(S), s # <<>>
  PROVE  /\ 1 \in DOMAIN s /\ Head(s) = s[1]
         /\ \A i \in DOMAIN Tail(s) : i \in Nat /\ i > 0 /\ i + 1 \in DOMAIN s /\ Tail(s)[i] = s[i + 1]
<1>1. /\ Tail(s) \in Seq(S) /\ Len(Tail(s)) = Len(s) - 1
      /\ \A i \in 1 .. Len(Tail(s)) : Tail(s)[i] = s[i + 1]
  BY HeadTailProperties
<1>2. DOMAIN Tail(s) = 1 .. Len(Tail(s)) /\ DOMAIN s = 1 .. Len(s) /\ Len(s) \in Nat
  BY <1>1, LenProperties
<1>3. Len(s) > 0
  BY <1>2, EmptySeq
<1> QED
  BY <1>1, <1>2, <1>3

----------------------------------------------------------------------------
(* Types.  What is open or being placed belongs to a life.                 *)
Lifecycles ==
  [open : BOOLEAN, placed : SUBSET Label, planned : [Label -> Nat],
   filled : [Label -> Nat], phase : {"open"} \cup Label, moved : BOOLEAN]
Placements == [at : {"idle", "place", "reply"}, label : Label, size : Nat]

Begun == lc.open \/ ensure.at # "idle" => life > 0
TypeInv == TypeOK /\ Begun

LEMMA Parts ==
  ASSUME TypeInv
  PROVE  /\ pos \in Nat /\ tracked \in Nat
         /\ left \in [Order -> Nat] /\ done \in [Order -> Nat]
         /\ updates \subseteq Order /\ known \subseteq Order /\ execs \in Seq(Order)
         /\ life \in 0 .. MaxLives /\ lc \in Lifecycles /\ ensure \in Placements
         /\ up \in BOOLEAN /\ scenario \in Scenarios
         /\ scenario.sizes \subseteq Nat \ {0} /\ scenario.messages \in Nat
         /\ Begun
BY LadderAssumption DEF TypeInv, TypeOK, Lifecycles, Placements, ScenarioSet

LEMMA OwnType ==
  ASSUME TypeInv, life > 0, NEW l \in Label
  PROVE  /\ Own(l) \in Order /\ Own(l)[1] = l /\ Own(l)[2] = life
         /\ \A o \in Order : o[1] = l /\ o[2] = life <=> o = Own(l)
BY Constants DEF TypeInv, TypeOK, Own, Order

LEMMA NoLifeType ==
  /\ NoLife \in Lifecycles /\ NewLife \in Lifecycles
  /\ NoLife.open = FALSE
  /\ NewLife.open = TRUE /\ NewLife.placed = {} /\ NewLife.phase = "open"
  /\ NewLife.filled = [l \in Label |-> 0]
<1>1. [l \in Label |-> 0] \in [Label -> Nat]
  OBVIOUS
<1> QED
  BY <1>1 DEF NoLife, NewLife, Lifecycles

LEMMA BookedType ==
  ASSUME lc \in Lifecycles, NEW l \in Label
  PROVE  /\ Booked(l) \in Lifecycles
         /\ Booked(l).open = lc.open /\ Booked(l).placed = lc.placed
         /\ Booked(l).planned = lc.planned
         /\ Booked(l).filled = [lc.filled EXCEPT ![l] = @ + 1]
         /\ Booked(l).phase \in {lc.phase, l}
         /\ lc.planned[l] > 0 /\ Booked(l).phase # lc.phase
              => 100 * (lc.filled[l] + 1) >= 99 * lc.planned[l]
<1> DEFINE filled == lc.filled[l] + 1
           planned == IF lc.planned[l] > 0 THEN lc.planned[l] ELSE filled
           phase == IF 100 * filled >= 99 * planned THEN l ELSE lc.phase
<1>1. Booked(l) = [lc EXCEPT !.filled[l] = filled, !.phase = phase]
  BY DEF Booked
<1>2. filled \in Nat /\ phase \in {"open"} \cup Label /\ phase \in {lc.phase, l}
  BY DEF Lifecycles
<1>3. phase # lc.phase => 100 * filled >= 99 * planned
  OBVIOUS
<1> HIDE DEF filled, phase
<1>4. /\ Booked(l) \in Lifecycles
      /\ Booked(l).open = lc.open /\ Booked(l).placed = lc.placed
      /\ Booked(l).planned = lc.planned
      /\ Booked(l).filled = [lc.filled EXCEPT ![l] = filled]
      /\ Booked(l).phase = phase
  BY <1>1, <1>2 DEF Lifecycles
<1> QED
  BY <1>2, <1>3, <1>4 DEF filled

LEMMA RestingType ==
  Resting \in Placements /\ Resting.at = "idle"
BY DEF Resting, Placements, Label

LEMMA StartType ==
  ASSUME NEW size \in Nat
  PROVE  /\ Start(size) \in Placements
         /\ Start(size).at # "idle" =>
              /\ Start(size).at = "place" /\ Start(size).size = size
              /\ Start(size).label \in Wanted(size)
              /\ lc.open /\ lc.placed = {}
<1> DEFINE first == CHOOSE l \in Wanted(size) : l = "tp1" \/ "tp1" \notin Wanted(size)
<1>1. Wanted(size) # {} => first \in Wanted(size)
  OBVIOUS
<1>2. Start(size) = IF lc.open /\ lc.placed = {} /\ Wanted(size) # {}
                    THEN [at |-> "place", label |-> first, size |-> size]
                    ELSE Resting
  BY DEF Start
<1> HIDE DEF first
<1>3. Wanted(size) \subseteq Label
  BY DEF Wanted
<1> QED
  BY <1>1, <1>2, <1>3, RestingType DEF Placements

LEMMA AfterPlacingType ==
  ASSUME ensure \in Placements
  PROVE  /\ AfterPlacing \in Placements
         /\ AfterPlacing.at # "idle" =>
              /\ AfterPlacing.at = "place" /\ AfterPlacing.label = "tp2"
              /\ AfterPlacing.size = ensure.size /\ "tp2" \in Wanted(ensure.size)
              /\ ensure.label = "tp1"
BY RestingType DEF AfterPlacing, Placements, Label

LEMMA AcceptType ==
  ASSUME TypeInv, Accept
  PROVE  LET l == ensure.label
         IN /\ life > 0 /\ l \in Label /\ Own(l) \in Order /\ ensure.at = "place" /\ pos > 0
            /\ left' \in [Order -> Nat] /\ updates' \subseteq Order
            /\ left' = [left EXCEPT ![Own(l)] = left[Own(l)] + Plan(ensure.size)[l]]
            /\ updates' = updates \cup {Own(l)}
<1> DEFINE l == ensure.label
<1>1. life > 0 /\ l \in Label /\ ensure.at = "place" /\ ensure.size \in Nat /\ pos > 0
  BY Parts DEF Accept, Begun, Placements
<1>2. Own(l) \in Order
  BY <1>1, OwnType
<1>3. Plan(ensure.size)[l] \in Nat
  BY <1>1, PlanType
<1>4. /\ left' = [left EXCEPT ![Own(l)] = left[Own(l)] + Plan(ensure.size)[l]]
      /\ updates' = updates \cup {Own(l)}
  BY DEF Accept
<1>5. left' \in [Order -> Nat]
  BY <1>2, <1>3, <1>4, Parts
<1>6. updates' \subseteq Order
  BY <1>2, <1>4, Parts
<1> QED
  BY <1>1, <1>2, <1>4, <1>5, <1>6

(* An execution that is dealt with leaves the queue, and with replays may  *)
(* come back.                                                              *)
LEMMA OnExecutionQueue ==
  ASSUME TypeInv, OnExecution
  PROVE  /\ execs # <<>> /\ Head(execs) \in Order
         /\ Tail(execs) \in Seq(Order) /\ Len(Tail(execs)) = Len(execs) - 1
         /\ execs' \in Seq(Order)
         /\ execs' \in {Tail(execs), Append(Tail(execs), Head(execs))}
         /\ "replayed" \notin Faults => execs' = Tail(execs)
<1>1. execs # <<>> /\ execs' \in {Tail(execs), Append(Tail(execs), Head(execs))}
  BY DEF OnExecution
<1>2. "replayed" \notin Faults => execs' = Tail(execs)
  BY DEF OnExecution
<1>3. Head(execs) \in Order /\ Tail(execs) \in Seq(Order) /\ Len(Tail(execs)) = Len(execs) - 1
  BY <1>1, Parts, HeadTailProperties
<1> QED
  BY <1>1, <1>2, <1>3, AppendProperties

(* A fill takes one step of the position and of its order, and is reported *)
(* while the bot runs.                                                     *)
LEMMA FillEffect ==
  ASSUME TypeInv, NEW o \in Order, Fill(o)
  PROVE  /\ left[o] > 0 /\ pos > 0 /\ pos' = pos - 1
         /\ left' = IF pos = 1 THEN NoOrders ELSE [left EXCEPT ![o] = @ - 1]
         /\ done' = [done EXCEPT ![o] = @ + 1]
         /\ left' \in [Order -> Nat] /\ done' \in [Order -> Nat]
         /\ up => /\ execs' = Append(execs, o) /\ execs' \in Seq(Order)
                  /\ Len(execs') = Len(execs) + 1
                  /\ updates' = updates \cup {o}
         /\ ~up => execs' = execs /\ updates' = updates
         /\ UNCHANGED <<known, tracked, life, lc, ensure, up, scenario>>
<1>1. /\ left[o] > 0 /\ pos > 0 /\ pos' = pos - 1
      /\ left' = IF pos = 1 THEN NoOrders ELSE [left EXCEPT ![o] = @ - 1]
      /\ done' = [done EXCEPT ![o] = @ + 1]
      /\ UNCHANGED <<known, tracked, life, lc, ensure, up, scenario>>
  BY DEF Fill
<1>2. /\ up => execs' = Append(execs, o) /\ updates' = updates \cup {o}
      /\ ~up => execs' = execs /\ updates' = updates
  BY DEF Fill
<1>3. left' \in [Order -> Nat] /\ done' \in [Order -> Nat]
  <2>1. NoOrders \in [Order -> Nat]
    BY DEF NoOrders
  <2> QED
    BY <1>1, <2>1, Parts
<1>4. Append(execs, o) \in Seq(Order) /\ Len(Append(execs, o)) = Len(execs) + 1
  BY Parts, AppendProperties
<1> QED
  BY <1>1, <1>2, <1>3, <1>4

LEMMA TypeStep == TypeInv /\ [Next]_vars => TypeInv'
<1> SUFFICES ASSUME TypeInv, [Next]_vars PROVE TypeInv'
  OBVIOUS
<1>p. /\ pos \in Nat /\ tracked \in Nat
      /\ left \in [Order -> Nat] /\ done \in [Order -> Nat]
      /\ updates \subseteq Order /\ known \subseteq Order /\ execs \in Seq(Order)
      /\ life \in 0 .. MaxLives /\ lc \in Lifecycles /\ ensure \in Placements
      /\ up \in BOOLEAN /\ scenario \in Scenarios
      /\ Begun
  BY Parts
<1>n. NoOrders \in [Order -> Nat]
  BY DEF NoOrders
<1> SUFFICES /\ pos' \in Nat /\ tracked' \in Nat
             /\ left' \in [Order -> Nat] /\ done' \in [Order -> Nat]
             /\ updates' \subseteq Order /\ known' \subseteq Order /\ execs' \in Seq(Order)
             /\ life' \in 0 .. MaxLives /\ lc' \in Lifecycles /\ ensure' \in Placements
             /\ up' \in BOOLEAN /\ scenario' \in Scenarios
             /\ Begun'
  BY DEF TypeInv, TypeOK, Lifecycles, Placements
<1>0. CASE UNCHANGED vars
  BY <1>p, <1>0 DEF vars, Begun
<1>1. CASE \E size \in scenario.sizes : Enter(size)
  <2>1. PICK size \in scenario.sizes : Enter(size)
    BY <1>1
  <2>2. size \in Nat /\ life + 1 \in 0 .. MaxLives /\ life + 1 > 0
    BY <1>p, <2>1, Parts, Constants DEF Enter
  <2> QED
    BY <1>p, <2>1, <2>2, NoLifeType DEF Enter, Begun
<1>2. CASE StopHit
  BY <1>p, <1>n, <1>2 DEF StopHit, Begun
<1>3. CASE Exit
  <2>1. pos' \in Nat
    BY <1>p, <1>3 DEF Exit
  <2> QED
    BY <1>p, <1>n, <1>3, <2>1, NoLifeType DEF Exit, Begun
<1>4. CASE RestSync
  BY <1>p, <1>4, StartType DEF RestSync, Begun
<1>5. CASE Placed
  <2>1. ensure' \in Placements /\ life > 0 /\ left' \in [Order -> Nat] /\ updates' \subseteq Order
    BY <1>p, <1>5, AcceptType DEF Placed, Placements
  <2> QED
    BY <1>p, <1>5, <2>1 DEF Placed, Begun
<1>6. CASE Reply
  <2>1. lc' \in Lifecycles /\ life > 0
    <3>1. ensure.label \in Label /\ ensure.size \in Nat /\ life > 0
      BY <1>p, <1>6 DEF Reply, Begun, Placements
    <3>2. Plan(ensure.size)[ensure.label] \in Nat
      BY <3>1, PlanType
    <3> QED
      BY <1>p, <1>6, <3>1, <3>2 DEF Reply, Lifecycles
  <2> QED
    BY <1>p, <1>6, <2>1, AfterPlacingType DEF Reply, Begun
<1>7. CASE Refused
  <2>1. life > 0
    BY <1>p, <1>7 DEF Refused, Begun
  <2> QED
    BY <1>p, <1>7, <2>1, AfterPlacingType DEF Refused, Begun
<1>8. CASE ReplyLost
  <2>1. life > 0 /\ left' \in [Order -> Nat] /\ updates' \subseteq Order
    BY <1>8, AcceptType DEF ReplyLost
  <2> QED
    BY <1>p, <1>8, <2>1, AfterPlacingType DEF ReplyLost, Begun
<1>9. CASE \E o \in Order : Fill(o)
  <2>1. PICK o \in Order : Fill(o)
    BY <1>9
  <2>2. /\ pos > 0 /\ pos' = pos - 1
        /\ left' \in [Order -> Nat] /\ done' \in [Order -> Nat]
        /\ up => execs' \in Seq(Order) /\ updates' = updates \cup {o}
        /\ ~up => execs' = execs /\ updates' = updates
        /\ UNCHANGED <<known, tracked, life, lc, ensure, up, scenario>>
    BY <2>1, FillEffect
  <2> QED
    BY <1>p, <2>2 DEF Begun
<1>10. CASE \E o \in Order : OnOrder(o)
  BY <1>p, <1>10 DEF OnOrder, Begun
<1>11. CASE OnExecution
  <2>1. Head(execs) \in Order /\ execs' \in Seq(Order)
    BY <1>11, OnExecutionQueue
  <2>2. Head(execs)[1] \in Label
    BY <2>1 DEF Order
  <2>3. lc' \in Lifecycles /\ lc'.open = lc.open
    BY <1>p, <1>11, <2>2, BookedType DEF OnExecution
  <2>4. tracked' \in Nat
    BY <1>p, <1>11 DEF OnExecution
  <2> QED
    BY <1>p, <1>11, <2>1, <2>3, <2>4 DEF OnExecution, Begun
<1>12. CASE MoveToBreakeven
  BY <1>p, <1>12 DEF MoveToBreakeven, Lifecycles, Begun
<1>13. CASE Crash
  <2>1. <<>> \in Seq(Order)
    OBVIOUS
  <2> QED
    BY <1>p, <1>13, <2>1, NoLifeType, RestingType DEF Crash, Begun
<1>14. CASE Boot
  BY <1>p, <1>14, NoLifeType, Constants DEF Boot, Begun
<1> QED
  BY <1>0, <1>1, <1>2, <1>3, <1>4, <1>5, <1>6, <1>7, <1>8, <1>9, <1>10, <1>11, <1>12, <1>13,
     <1>14 DEF Next

LEMMA Typed == Spec => []TypeInv
<1>1. Init => TypeInv
  <2> SUFFICES ASSUME Init PROVE TypeInv
    OBVIOUS
  <2>1. NoOrders \in [Order -> Nat] /\ <<>> \in Seq(Order) /\ 0 \in 0 .. MaxLives
    BY Constants DEF NoOrders
  <2> QED
    BY <2>1, NoLifeType, RestingType
    DEF Init, TypeInv, TypeOK, Begun, Lifecycles, Placements
<1> QED
  BY <1>1, TypeStep, PTL DEF Spec

(* Every variable stays in its domain, for every scenario; no order        *)
(* belongs to a life that has not begun.                                   *)
THEOREM TypeCorrect == Spec => []TypeOK
BY Typed, PTL DEF TypeInv

----------------------------------------------------------------------------
(* Nothing is booked twice.  The booked steps of a label and its           *)
(* executions on their way are covered by what was executed.               *)
OfLabel(l) == {l} \X (1 .. MaxLives)
Executed(l) == SumFunctionOnSet(done, OfLabel(l))

LEMMA OfLabelIs ==
  ASSUME NEW l \in Label
  PROVE  /\ OfLabel(l) \in SUBSET Order /\ IsFiniteSet(OfLabel(l))
         /\ \A o \in Order : o \in OfLabel(l) <=> o[1] = l
<1>1. IsFiniteSet(1 .. MaxLives)
  BY Constants, FS_Interval
<1>2. IsFiniteSet({l})
  BY FS_Singleton
<1>3. IsFiniteSet(OfLabel(l))
  BY <1>1, <1>2, FS_Product DEF OfLabel
<1> QED
  BY <1>3 DEF OfLabel, Order

LEMMA NeverOverbookedSays ==
  ASSUME TypeInv, NEW l \in Label
  PROVE  Cardinality({i \in DOMAIN execs : execs[i][1] = l}) = Count(execs, OfLabel(l))
<1>1. \A i \in DOMAIN execs : execs[i] \in Order
  BY Parts
<1>2. {i \in DOMAIN execs : execs[i][1] = l} = {i \in DOMAIN execs : execs[i] \in OfLabel(l)}
  BY <1>1, OfLabelIs
<1> QED
  BY <1>2 DEF Count

Covered ==
  "replayed" \notin Faults =>
    \A l \in Label : lc.filled[l] + Count(execs, OfLabel(l)) <= Executed(l)

LEMMA Counted ==
  ASSUME TypeInv, NEW l \in Label
  PROVE  /\ Count(execs, OfLabel(l)) \in Nat /\ Executed(l) \in Nat /\ lc.filled[l] \in Nat
<1>1. Count(execs, OfLabel(l)) \in Nat
  BY Parts, CountType
<1>2. Executed(l) \in Nat
  <2>1. \A o \in OfLabel(l) : done[o] \in Nat
    BY Parts, OfLabelIs
  <2> QED
    BY <2>1, OfLabelIs, SumType DEF Executed
<1> QED
  BY <1>1, <1>2, Parts DEF Lifecycles

LEMMA CoveredFill ==
  ASSUME TypeInv, Covered, NEW o \in Order, Fill(o)
  PROVE  Covered'
<1> SUFFICES ASSUME "replayed" \notin Faults, NEW l \in Label
             PROVE  lc.filled[l] + Count(execs', OfLabel(l)) <= Executed(l)'
  BY FillEffect DEF Covered, Faults
<1>1. /\ Count(execs, OfLabel(l)) \in Nat /\ Executed(l) \in Nat /\ lc.filled[l] \in Nat
      /\ lc.filled[l] + Count(execs, OfLabel(l)) <= Executed(l)
  BY Counted DEF Covered
<1>2. Count(execs', OfLabel(l)) <= Count(execs, OfLabel(l)) + (IF o \in OfLabel(l) THEN 1 ELSE 0)
      /\ Count(execs', OfLabel(l)) \in Nat
  <2>1. CASE up
    <3>1. execs' = Append(execs, o) /\ execs \in Seq(Order)
      BY <2>1, FillEffect, Parts
    <3>2. Count(execs', OfLabel(l)) = Count(execs, OfLabel(l)) + (IF o \in OfLabel(l) THEN 1 ELSE 0)
      BY <3>1, CountAppend
    <3> QED
      BY <1>1, <3>2
  <2>2. CASE ~up
    BY <1>1, <2>2, FillEffect
  <2> QED
    BY <2>1, <2>2
<1>3. Executed(l)' = IF o \in OfLabel(l) THEN Executed(l) + 1 ELSE Executed(l)
  <2>1. /\ done \in [Order -> Nat] /\ done' \in [Order -> Nat]
        /\ done'[o] = done[o] + 1 /\ \A x \in Order : x # o => done'[x] = done[x]
    BY FillEffect, Parts
  <2>2. OfLabel(l) \in SUBSET Order /\ IsFiniteSet(OfLabel(l))
    BY OfLabelIs
  <2>3. SumFunctionOnSet(done', OfLabel(l))
          = IF o \in OfLabel(l) THEN SumFunctionOnSet(done, OfLabel(l)) - done[o] + done'[o]
            ELSE SumFunctionOnSet(done, OfLabel(l))
    BY <2>1, <2>2, SumChange
  <2>4. done[o] \in Nat
    BY <2>1
  <2> QED
    BY <1>1, <2>1, <2>3, <2>4 DEF Executed
<1> QED
  BY <1>1, <1>2, <1>3

LEMMA CoveredExecution ==
  ASSUME TypeInv, Covered, OnExecution
  PROVE  Covered'
<1> SUFFICES ASSUME "replayed" \notin Faults, NEW l \in Label
             PROVE  lc'.filled[l] + Count(execs', OfLabel(l)) <= Executed(l)'
  BY DEF Covered, Faults, OnExecution
<1> DEFINE o == Head(execs)
<1>1. /\ Count(execs, OfLabel(l)) \in Nat /\ Executed(l) \in Nat /\ lc.filled[l] \in Nat
      /\ lc.filled[l] + Count(execs, OfLabel(l)) <= Executed(l)
  BY Counted DEF Covered
<1>2. o \in Order /\ execs' = Tail(execs) /\ execs' \in Seq(Order) /\ execs # <<>> /\ o[1] \in Label
  BY OnExecutionQueue DEF Order
<1>3. Count(execs, OfLabel(l)) = Count(execs', OfLabel(l)) + (IF o[1] = l THEN 1 ELSE 0)
  BY <1>2, Parts, OfLabelIs, CountTail
<1>4. Count(execs', OfLabel(l)) \in Nat
  BY <1>2, CountType
<1>5. lc'.filled[l] <= lc.filled[l] + (IF o[1] = l THEN 1 ELSE 0) /\ lc'.filled[l] \in Nat
  <2>1. lc' \in {lc, Booked(o[1])}
    BY DEF OnExecution
  <2>2. Booked(o[1]).filled = [lc.filled EXCEPT ![o[1]] = lc.filled[o[1]] + 1]
    BY <1>2, Parts, BookedType
  <2>3. lc.filled \in [Label -> Nat]
    BY Parts DEF Lifecycles
  <2> QED
    BY <1>1, <1>2, <2>1, <2>2, <2>3
<1>6. Executed(l)' = Executed(l)
  BY DEF OnExecution, Executed
<1> QED
  BY <1>1, <1>3, <1>4, <1>5, <1>6

LEMMA CoveredStep == TypeInv /\ Covered /\ [Next]_vars => Covered'
<1> SUFFICES ASSUME TypeInv, Covered, [Next]_vars PROVE Covered'
  OBVIOUS
<1>c. \A l \in Label : /\ Count(execs, OfLabel(l)) \in Nat /\ Executed(l) \in Nat
                       /\ lc.filled[l] \in Nat
  BY Counted
<1>z. \A l \in Label : NoLife.filled[l] = 0 /\ NewLife.filled[l] = 0
  BY DEF NoLife, NewLife
<1> USE DEF Covered, Faults
<1>0. CASE UNCHANGED <<lc, execs, done, scenario>>
  BY <1>0 DEF Executed
<1>1. CASE (\E size \in scenario.sizes : Enter(size)) \/ Exit \/ Boot
  <2>1. UNCHANGED <<execs, done, scenario>> /\ lc' \in {lc, NoLife, NewLife}
    BY <1>1 DEF Enter, Exit, Boot
  <2> QED
    BY <1>c, <1>z, <2>1 DEF Executed
<1>2. CASE Crash
  <2>1. execs' = <<>> /\ UNCHANGED <<done, scenario>> /\ lc' = NoLife
    BY <1>2 DEF Crash
  <2> QED
    BY <1>c, <1>z, <2>1, CountEmpty DEF Executed
<1>3. CASE Reply \/ MoveToBreakeven
  <2>1. UNCHANGED <<execs, done, scenario>> /\ lc'.filled = lc.filled
    BY <1>3, Parts DEF Reply, MoveToBreakeven, Lifecycles
  <2> QED
    BY <2>1 DEF Executed
<1>4. CASE \E o \in Order : Fill(o)
  BY <1>4, CoveredFill
<1>5. CASE OnExecution
  BY <1>5, CoveredExecution
<1> QED
  BY <1>0, <1>1, <1>2, <1>3, <1>4, <1>5
  DEF Next, vars, StopHit, RestSync, Placed, Refused, ReplyLost, OnOrder

(* With any fault but a replay, and with any number of lives, labels are   *)
(* never booked for more than was executed of their orders.                *)
THEOREM NothingOverbooked == Spec => []NeverOverbooked
<1>1. Init => Covered
  <2> SUFFICES ASSUME Init, NEW l \in Label
               PROVE  lc.filled[l] + Count(execs, OfLabel(l)) <= Executed(l)
    BY DEF Covered
  <2>1. lc.filled[l] = 0 /\ Count(execs, OfLabel(l)) = 0
    BY CountEmpty DEF Init, NoLife
  <2>2. \A o \in OfLabel(l) : done[o] \in Nat
    BY OfLabelIs DEF Init, NoOrders
  <2>3. Executed(l) \in Nat
    BY <2>2, OfLabelIs, SumType DEF Executed
  <2> QED
    BY <2>1, <2>3
<1>2. TypeInv /\ Covered => NeverOverbooked
  <2> SUFFICES ASSUME TypeInv, Covered, Only(FaultNames \ {"replayed"}), NEW l \in Label
               PROVE  lc.filled[l] + Cardinality({i \in DOMAIN execs : execs[i][1] = l})
                        <= SumFunctionOnSet(done, {l} \X (1 .. MaxLives))
    BY DEF NeverOverbooked
  <2>1. "replayed" \notin Faults
    BY DEF Only
  <2> QED
    BY <2>1, NeverOverbookedSays DEF Covered, Executed, OfLabel
<1> QED
  BY <1>1, <1>2, CoveredStep, Typed, PTL DEF Spec

----------------------------------------------------------------------------
(* An exit closes the position: what is tracked is never less than the     *)
(* position and the executions still to be reported.                       *)
Exact == "replayed" \notin Faults /\ "syncRaces" \notin Faults

Tracks ==
  Exact => /\ up /\ lc.open => tracked >= pos + Len(execs)
           /\ ~up => execs = <<>> /\ ~lc.open

LEMMA OpenStays ==
  ASSUME TypeInv, \/ StopHit \/ RestSync \/ Placed \/ Reply \/ Refused \/ ReplyLost
                  \/ (\E o \in Order : Fill(o) \/ OnOrder(o))
                  \/ OnExecution \/ MoveToBreakeven
  PROVE  lc'.open = lc.open
<1>1. CASE OnExecution
  <2>1. Head(execs)[1] \in Label
    BY <1>1, OnExecutionQueue DEF Order
  <2> QED
    BY <1>1, <2>1, Parts, BookedType DEF OnExecution
<1>2. CASE Reply \/ MoveToBreakeven
  BY <1>2, Parts DEF Reply, MoveToBreakeven, Lifecycles
<1> QED
  BY <1>1, <1>2 DEF StopHit, RestSync, Placed, Refused, ReplyLost, Fill, OnOrder

LEMMA TracksStep == TypeInv /\ Tracks /\ [Next]_vars => Tracks'
<1> SUFFICES ASSUME TypeInv, Tracks, [Next]_vars, Exact
             PROVE  /\ up' /\ lc'.open => tracked' >= pos' + Len(execs')
                    /\ ~up' => execs' = <<>> /\ ~lc'.open
  BY DEF Tracks, Exact, Faults, Next, vars, Enter, StopHit, Exit, RestSync, Placed, Reply,
     Refused, ReplyLost, Fill, OnOrder, OnExecution, MoveToBreakeven, Crash, Boot
<1>p. /\ pos \in Nat /\ tracked \in Nat /\ Len(execs) \in Nat
      /\ up /\ lc.open => tracked >= pos + Len(execs)
      /\ ~up => execs = <<>> /\ ~lc.open
  BY Parts DEF Tracks
<1>e. Len(<<>>) = 0
  OBVIOUS
<1>0. CASE UNCHANGED <<up, lc, tracked, pos, execs>>
  BY <1>p, <1>0
<1>1. CASE \E size \in scenario.sizes : Enter(size)
  <2>1. PICK size \in scenario.sizes : Enter(size)
    BY <1>1
  <2>2. size \in Nat
    BY Parts
  <2> QED
    BY <1>e, <2>1, <2>2 DEF Enter
<1>2. CASE StopHit
  BY <1>p, <1>2 DEF StopHit
<1>3. CASE Exit
  BY <1>3, NoLifeType DEF Exit
<1>4. CASE RestSync
  BY <1>p, <1>e, <1>4 DEF RestSync, Exact
<1>5. CASE Placed \/ Reply \/ Refused \/ ReplyLost \/ (\E o \in Order : OnOrder(o)) \/ MoveToBreakeven
  <2>1. lc'.open = lc.open
    BY <1>5, OpenStays
  <2>2. UNCHANGED <<up, tracked, pos, execs>>
    BY <1>5 DEF Placed, Reply, Refused, ReplyLost, OnOrder, MoveToBreakeven
  <2> QED
    BY <1>p, <2>1, <2>2
<1>6. CASE \E o \in Order : Fill(o)
  <2>1. PICK o \in Order : Fill(o)
    BY <1>6
  <2>2. /\ pos > 0 /\ pos' = pos - 1 /\ UNCHANGED <<tracked, lc, up>>
        /\ up => Len(execs') = Len(execs) + 1
        /\ ~up => execs' = execs
    BY <2>1, FillEffect
  <2> QED
    BY <1>p, <2>2
<1>7. CASE OnExecution
  <2>1. lc'.open = lc.open
    BY <1>7, OpenStays
  <2>2. Len(execs') = Len(execs) - 1
    BY <1>7, OnExecutionQueue DEF Exact
  <2>3. up /\ UNCHANGED <<pos, up>> /\ tracked' >= tracked - 1 /\ tracked' \in Nat
    BY <1>p, <1>7 DEF OnExecution, Delivers
  <2> QED
    BY <1>p, <2>1, <2>2, <2>3
<1>8. CASE Crash
  BY <1>8, NoLifeType DEF Crash
<1>9. CASE Boot
  BY <1>p, <1>e, <1>9 DEF Boot
<1> QED
  BY <1>0, <1>1, <1>2, <1>3, <1>4, <1>5, <1>6, <1>7, <1>8, <1>9 DEF Next, vars

(* When the bot gives a position up nothing of it stays open, whatever is  *)
(* lost, overtaken, reordered or cut off by a crash, and whatever the      *)
(* sizes.                                                                  *)
THEOREM ExitLeavesNothing == Spec => ExitCloses
<1>1. Init => Tracks
  BY NoLifeType DEF Init, Tracks
<1>2. TypeInv /\ Tracks /\ [Next]_vars
        => [Only(FaultNames \ {"replayed", "syncRaces"})
              /\ lc.open /\ ~lc'.open /\ up'
            => pos' = 0]_vars
  <2> SUFFICES ASSUME TypeInv, Tracks, Next, Only(FaultNames \ {"replayed", "syncRaces"}),
                      lc.open, ~lc'.open, up'
               PROVE  pos' = 0
    OBVIOUS
  <2>1. Exact
    BY DEF Only, Exact
  <2>2. /\ pos \in Nat /\ tracked \in Nat /\ Len(execs) \in Nat
        /\ up /\ tracked >= pos + Len(execs)
    BY <2>1, Parts DEF Tracks
  <2>3. CASE Exit
    BY <2>2, <2>3 DEF Exit
  <2>4. CASE \E size \in scenario.sizes : Enter(size)
    BY <2>4, NoLifeType DEF Enter
  <2>5. CASE Crash \/ Boot
    BY <2>2, <2>5 DEF Crash, Boot
  <2> QED
    BY <2>3, <2>4, <2>5, OpenStays DEF Next
<1> QED
  BY <1>1, <1>2, TracksStep, Typed, PTL DEF Spec, ExitCloses

----------------------------------------------------------------------------
(* Without a crash there is one life at a time: what rests, and what is on *)
(* its way, belongs to the present one.                                    *)
Lives ==
  "crash" \notin Faults =>
    /\ up
    /\ \A o \in Order : /\ o[2] > life => done[o] = 0
                        /\ left[o] > 0 => o[2] = life
    /\ \A i \in DOMAIN execs : execs[i][2] = life
    /\ pos = 0 => left = NoOrders

LEMMA NothingRests == \A o \in Order : NoOrders[o] = 0
BY DEF NoOrders

LEMMA LivesStep == TypeInv /\ Lives /\ [Next]_vars => Lives'
<1> SUFFICES ASSUME TypeInv, Lives, [Next]_vars, "crash" \notin Faults
             PROVE  /\ up'
                    /\ \A o \in Order : /\ o[2] > life' => done'[o] = 0
                                        /\ left'[o] > 0 => o[2] = life'
                    /\ \A i \in DOMAIN execs' : execs'[i][2] = life'
                    /\ pos' = 0 => left' = NoOrders
  BY DEF Lives, Faults, Next, vars, Enter, StopHit, Exit, RestSync, Placed, Reply,
     Refused, ReplyLost, Fill, OnOrder, OnExecution, MoveToBreakeven, Crash, Boot
<1>p. /\ pos \in Nat /\ life \in Nat /\ execs \in Seq(Order)
      /\ left \in [Order -> Nat] /\ done \in [Order -> Nat]
  BY Parts
<1>o. \A o \in Order : o[1] \in Label /\ o[2] \in Nat
  BY Constants DEF Order
<1>l. /\ up
      /\ \A o \in Order : o[2] > life => done[o] = 0
      /\ \A o \in Order : left[o] > 0 => o[2] = life
      /\ \A i \in DOMAIN execs : execs[i][2] = life
      /\ pos = 0 => left = NoOrders
  BY DEF Lives
<1>0. CASE UNCHANGED <<up, life, done, left, execs, pos>>
  BY <1>l, <1>0
<1>1. CASE \E size \in scenario.sizes : Enter(size)
  <2>1. PICK size \in scenario.sizes : Enter(size)
    BY <1>1
  <2>2. /\ pos' = size /\ size > 0 /\ left' = left /\ left = NoOrders /\ done' = done
        /\ execs' = <<>> /\ life' = life + 1 /\ up'
    BY <1>l, <2>1, Parts DEF Enter
  <2>3. \A o \in Order : o[2] > life' => done'[o] = 0
    BY <1>p, <1>o, <1>l, <2>2
  <2> QED
    BY <2>2, <2>3, NothingRests
<1>2. CASE StopHit \/ Exit
  <2>1. /\ UNCHANGED <<up, life, done, execs>>
        /\ (left' = left /\ pos' # 0) \/ left' = NoOrders
    BY <1>2 DEF StopHit, Exit
  <2> QED
    BY <1>l, <2>1, NothingRests
<1>3. CASE Placed \/ ReplyLost
  <2> DEFINE l == ensure.label
  <2>1. /\ UNCHANGED <<up, life, done, execs, pos>> /\ pos > 0 /\ life > 0 /\ l \in Label
        /\ left' = [left EXCEPT ![Own(l)] = left[Own(l)] + Plan(ensure.size)[l]]
    BY <1>3, AcceptType DEF Placed, ReplyLost
  <2>2. Own(l)[2] = life
    BY DEF Own
  <2>3. \A o \in Order : left'[o] > 0 => o[2] = life
    BY <1>p, <1>l, <2>1, <2>2
  <2> QED
    BY <1>p, <1>l, <2>1, <2>3
<1>4. CASE \E o \in Order : Fill(o)
  <2>1. PICK o \in Order : Fill(o)
    BY <1>4
  <2>2. /\ left[o] > 0 /\ pos > 0 /\ pos' = pos - 1 /\ UNCHANGED <<up, life>>
        /\ left' = IF pos = 1 THEN NoOrders ELSE [left EXCEPT ![o] = @ - 1]
        /\ done' = [done EXCEPT ![o] = @ + 1]
        /\ execs' = Append(execs, o)
    BY <1>l, <2>1, FillEffect
  <2>3. o[2] = life
    BY <1>l, <2>2
  <2>4. \A x \in Order : x[2] > life => done'[x] = 0
    BY <1>p, <1>o, <1>l, <2>2, <2>3
  <2>5. \A x \in Order : left'[x] > 0 => x[2] = life
    BY <1>p, <1>l, <2>2, <2>3, NothingRests
  <2>6. \A i \in DOMAIN execs' : execs'[i][2] = life
    BY <1>p, <1>l, <2>2, <2>3, AppendProperties
  <2> QED
    BY <1>l, <1>p, <2>2, <2>4, <2>5, <2>6
<1>5. CASE OnExecution
  <2>1. /\ UNCHANGED <<up, life, done, left, pos>>
        /\ execs # <<>>
        /\ Tail(execs) \in Seq(Order) /\ Head(execs) \in Order
        /\ execs' \in {Tail(execs), Append(Tail(execs), Head(execs))}
    BY <1>5, OnExecutionQueue DEF OnExecution
  <2>2. Head(execs)[2] = life /\ \A i \in DOMAIN Tail(execs) : Tail(execs)[i][2] = life
    BY <1>p, <1>l, <2>1, HeadAndTail
  <2>3. \A i \in DOMAIN execs' : execs'[i][2] = life
    BY <2>1, <2>2, AppendProperties
  <2> QED
    BY <1>l, <2>1, <2>3
<1> QED
  BY <1>l, <1>0, <1>1, <1>2, <1>3, <1>4, <1>5
  DEF Next, vars, RestSync, Reply, Refused, OnOrder, MoveToBreakeven, Crash, Boot

LEMMA Lived == Spec => []Lives
<1>1. Init => Lives
  <2> SUFFICES ASSUME Init PROVE Lives
    OBVIOUS
  <2>1. /\ up /\ left = NoOrders /\ done = NoOrders /\ execs = <<>>
    BY DEF Init
  <2> QED
    BY <2>1, NothingRests DEF Lives
<1> QED
  BY <1>1, LivesStep, Typed, PTL DEF Spec

----------------------------------------------------------------------------
(* The two topics together lose no fill: an execution on its way is of an  *)
(* order whose update is known or on its way as well.                      *)
Announced == Only({"placeFails", "replyLost", "overtakes", "syncRaces"})

Accounted ==
  Announced =>
    /\ \A i \in DOMAIN execs : execs[i] \in updates \cup known
    /\ lc.open => \A l \in Label : lc.filled[l] + Count(execs, {Own(l)}) = done[Own(l)]

LEMMA UnderWayIs ==
  ASSUME NEW o
  PROVE  UnderWay(o) = Count(execs, {o})
BY DEF UnderWay, Count

LEMMA OwnCount ==
  ASSUME TypeInv, NEW l \in Label
  PROVE  Count(execs, {Own(l)}) \in Nat /\ lc.filled[l] \in Nat
<1>1. Count(execs, {Own(l)}) \in Nat
  BY Parts, CountType
<1> QED
  BY <1>1, Parts DEF Lifecycles

LEMMA AccountedFill ==
  ASSUME TypeInv, Lives, Accounted, Announced, NEW o \in Order, Fill(o)
  PROVE  /\ \A i \in DOMAIN execs' : execs'[i] \in updates' \cup known'
         /\ lc'.open => \A l \in Label : lc'.filled[l] + Count(execs', {Own(l)'}) = done'[Own(l)']
<1>1. /\ left[o] > 0 /\ UNCHANGED <<known, life, lc>>
      /\ done' = [done EXCEPT ![o] = @ + 1]
      /\ execs' = Append(execs, o) /\ updates' = updates \cup {o}
  BY FillEffect DEF Lives, Announced, Only
<1>2. /\ execs \in Seq(Order) /\ done \in [Order -> Nat]
      /\ \A i \in DOMAIN execs : execs[i] \in updates \cup known
  BY Parts DEF Accounted
<1>3. \A i \in DOMAIN execs' : execs'[i] \in updates' \cup known'
  BY <1>1, <1>2, AppendProperties
<1>4. ASSUME lc'.open, NEW l \in Label
      PROVE  lc'.filled[l] + Count(execs', {Own(l)'}) = done'[Own(l)']
  <2>1. Own(l)' = Own(l) /\ Own(l) \in Order /\ lc.open
    BY <1>1, <1>4, OwnType, Parts DEF Own, Begun
  <2>2. Count(execs', {Own(l)}) = Count(execs, {Own(l)}) + (IF o \in {Own(l)} THEN 1 ELSE 0)
    BY <1>1, <1>2, CountAppend
  <2>3. lc.filled[l] + Count(execs, {Own(l)}) = done[Own(l)]
    BY <2>1 DEF Accounted
  <2> QED
    BY <1>1, <1>2, <2>1, <2>2, <2>3, OwnCount
<1> QED
  BY <1>3, <1>4

LEMMA AccountedExecution ==
  ASSUME LinkedOrders, TypeInv, Lives, Accounted, Announced, OnExecution
  PROVE  /\ \A i \in DOMAIN execs' : execs'[i] \in updates' \cup known'
         /\ lc'.open => \A l \in Label : lc'.filled[l] + Count(execs', {Own(l)'}) = done'[Own(l)']
<1> DEFINE o == Head(execs)
<1>1. /\ execs \in Seq(Order) /\ execs # <<>> /\ o \in Order /\ o[1] \in Label
      /\ execs' = Tail(execs) /\ execs' \in Seq(Order)
  BY OnExecutionQueue, Parts DEF Announced, Only, Order
<1>2. \A i \in DOMAIN execs : execs[i] \in updates \cup known
  BY DEF Accounted
<1>3. o \in known
  <2>1. o \notin updates
    BY DEF OnExecution, Announced, Only
  <2>2. o \in updates \cup known
    BY <1>1, <1>2, HeadAndTail
  <2> QED
    BY <2>1, <2>2
<1>4. UNCHANGED <<updates, known, done, life>>
  BY DEF OnExecution
<1>5. \A i \in DOMAIN execs' : execs'[i] \in updates' \cup known'
  BY <1>1, <1>2, <1>4, HeadAndTail
<1>6. ASSUME lc'.open, NEW l \in Label
      PROVE  lc'.filled[l] + Count(execs', {Own(l)'}) = done'[Own(l)']
  <2>1. lc.open /\ lc' = Booked(o[1])
    <3>1. lc.open
      BY <1>6, OpenStays
    <3> QED
      BY <1>3, <3>1 DEF OnExecution
  <2>2. lc'.filled = [lc.filled EXCEPT ![o[1]] = lc.filled[o[1]] + 1]
    BY <1>1, <2>1, Parts, BookedType
  <2>3. Own(l)' = Own(l) /\ Own(l) \in Order /\ Own(l)[1] = l
    BY <1>4, <2>1, OwnType, Parts DEF Own, Begun
  <2>4. Count(execs, {Own(l)}) = Count(execs', {Own(l)}) + (IF o \in {Own(l)} THEN 1 ELSE 0)
    BY <1>1, CountTail
  <2>5. lc.filled[l] + Count(execs, {Own(l)}) = done[Own(l)]
    BY <2>1 DEF Accounted
  <2>6. Count(execs', {Own(l)}) \in Nat /\ lc.filled \in [Label -> Nat]
    BY <1>1, CountType, Parts DEF Lifecycles
  <2>7. o = Own(l) <=> o[1] = l
    <3>1. o[2] = life
      BY <1>1, HeadAndTail DEF Lives, Announced, Only
    <3> QED
      BY <1>1, <2>1, <3>1, OwnType, Parts DEF Begun
  <2> QED
    BY <1>1, <1>4, <2>2, <2>3, <2>4, <2>5, <2>6, <2>7
<1> QED
  BY <1>5, <1>6

LEMMA AccountedStep ==
  ASSUME LinkedOrders
  PROVE  TypeInv /\ Lives /\ Accounted /\ [Next]_vars => Accounted'
<1> SUFFICES ASSUME TypeInv, Lives, Accounted, [Next]_vars, Announced
             PROVE  /\ \A i \in DOMAIN execs' : execs'[i] \in updates' \cup known'
                    /\ lc'.open => \A l \in Label :
                         lc'.filled[l] + Count(execs', {Own(l)'}) = done'[Own(l)']
  BY DEF Accounted, Announced, Only, Faults, Next, vars, Enter, StopHit, Exit, RestSync, Placed,
     Reply, Refused, ReplyLost, Fill, OnOrder, OnExecution, MoveToBreakeven, Crash, Boot
<1>a. /\ \A i \in DOMAIN execs : execs[i] \in updates \cup known
      /\ lc.open => \A l \in Label : lc.filled[l] + Count(execs, {Own(l)}) = done[Own(l)]
  BY DEF Accounted
<1>1. CASE UNCHANGED <<execs, known, done, life>> /\ updates' = updates /\ lc' = lc
  BY <1>a, <1>1 DEF Own
<1>2. CASE \E size \in scenario.sizes : Enter(size)
  <2>1. PICK size \in scenario.sizes : Enter(size)
    BY <1>2
  <2>2. execs' = <<>> /\ life' = life + 1 /\ lc' = NewLife /\ done' = done /\ life' \in 1 .. MaxLives
    BY <2>1, Parts, Constants DEF Enter
  <2>3. ASSUME NEW l \in Label
        PROVE  lc'.filled[l] + Count(execs', {Own(l)'}) = done'[Own(l)']
    <3>1. Own(l)' \in Order /\ Own(l)'[2] > life
      BY <2>2, Parts DEF Own, Order
    <3>2. done'[Own(l)'] = 0
      BY <2>2, <3>1 DEF Lives, Announced, Only
    <3> QED
      BY <2>2, <3>2, NoLifeType, CountEmpty
  <2> QED
    BY <2>2, <2>3
<1>3. CASE Exit
  BY <1>a, <1>3, NoLifeType DEF Exit
<1>4. CASE Placed \/ ReplyLost
  <2>1. UNCHANGED <<execs, known, done, life, lc>> /\ updates \subseteq updates'
    BY <1>4, AcceptType DEF Placed, ReplyLost
  <2> QED
    BY <1>a, <2>1 DEF Own
<1>5. CASE Reply \/ MoveToBreakeven
  <2>1. /\ UNCHANGED <<execs, known, done, life, updates>>
        /\ lc'.open = lc.open /\ lc'.filled = lc.filled
    BY <1>5, Parts DEF Reply, MoveToBreakeven, Lifecycles
  <2> QED
    BY <1>a, <2>1 DEF Own
<1>6. CASE \E o \in Order : Fill(o)
  BY <1>6, AccountedFill
<1>7. CASE \E o \in Order : OnOrder(o)
  <2>1. UNCHANGED <<execs, done, life, lc>> /\ updates \cup known = updates' \cup known'
    BY <1>7 DEF OnOrder
  <2> QED
    BY <1>a, <2>1 DEF Own
<1>8. CASE OnExecution
  BY <1>8, AccountedExecution
<1> QED
  BY <1>1, <1>2, <1>3, <1>4, <1>5, <1>6, <1>7, <1>8
  DEF Next, vars, StopHit, RestSync, Refused, Crash, Boot, Lives, Announced, Only

(* With linked order ids, the fills of the position that is held are all   *)
(* booked or on their way, for every size, plan and number of lives.       *)
THEOREM FillsAreAccounted ==
  ASSUME LinkedOrders
  PROVE  Spec => []FillsAccounted
<1>1. Init => Accounted
  BY NoLifeType DEF Init, Accounted
<1>2. TypeInv /\ Accounted => FillsAccounted
  <2> SUFFICES ASSUME TypeInv, Accounted, Announced, lc.open, NEW l \in Label
               PROVE  lc.filled[l] + UnderWay(Own(l)) = done[Own(l)]
    BY DEF FillsAccounted, Announced
  <2>1. Own(l) \in Order
    BY OwnType, Parts DEF Begun
  <2> QED
    BY <2>1, UnderWayIs DEF Accounted
<1> QED
  BY <1>1, <1>2, AccountedStep, Lived, Typed, PTL DEF Spec

----------------------------------------------------------------------------
(* Orders are placed once per life as long as every reply arrives and the  *)
(* bot does not restart: what an order of the life has executed and has    *)
(* left is what was planned for it, and no more.                           *)
Serial == Only({"placeFails", "overtakes", "reordered", "syncRaces"})
Total(l) == left[Own(l)] + done[Own(l)]
Pending(l) == ensure.at = "reply" /\ ensure.label = l

OncePlaced ==
  \A l \in Label :
    /\ l \in lc.placed => lc.planned[l] > 0 /\ Total(l) <= lc.planned[l]
    /\ Pending(l) => Total(l) <= Plan(ensure.size)[l]
    /\ l \notin lc.placed /\ ~Pending(l) => Total(l) = 0

OnceInTurn ==
  ensure.at # "idle" =>
    /\ ensure.label \in Wanted(ensure.size) /\ ensure.label \notin lc.placed
    /\ ensure.label = "tp1" => lc.placed = {}
    /\ ensure.label = "tp2" /\ "tp1" \in lc.placed
         => lc.planned["tp1"] = Plan(ensure.size)["tp1"]

OnceBooked ==
  \A l \in Label : lc.filled[l] + Count(execs, {Own(l)}) <= done[Own(l)]

Once == Serial /\ lc.open => OncePlaced /\ OnceInTurn /\ OnceBooked

LEMMA TotalType ==
  ASSUME TypeInv, life > 0, NEW l \in Label
  PROVE  /\ Own(l) \in Order /\ left[Own(l)] \in Nat /\ done[Own(l)] \in Nat /\ Total(l) \in Nat
         /\ lc.filled[l] \in Nat /\ Count(execs, {Own(l)}) \in Nat /\ lc.planned[l] \in Nat
BY OwnType, OwnCount, Parts DEF Total, Lifecycles

(* Fills move steps of an order from what is left to what is done; a stop  *)
(* or an exit takes what is left away.                                     *)
LEMMA TotalShrinks ==
  ASSUME TypeInv, life > 0, NEW l \in Label,
         \/ StopHit \/ Exit \/ (\E o \in Order : Fill(o))
         \/ UNCHANGED <<left, done, life>>
  PROVE  /\ Own(l)' = Own(l)
         /\ Total(l)' <= Total(l) /\ done'[Own(l)] >= done[Own(l)]
         /\ left'[Own(l)] <= left[Own(l)] /\ left'[Own(l)] \in Nat /\ done'[Own(l)] \in Nat
<1>t. /\ Own(l) \in Order /\ left[Own(l)] \in Nat /\ done[Own(l)] \in Nat
      /\ left \in [Order -> Nat] /\ done \in [Order -> Nat]
  BY TotalType, Parts
<1>1. CASE StopHit \/ Exit \/ UNCHANGED <<left, done, life>>
  <2>1. Own(l)' = Own(l) /\ done' = done /\ left' \in {left, NoOrders}
    BY <1>1 DEF StopHit, Exit, Own
  <2> QED
    BY <1>t, <2>1, NothingRests DEF Total
<1>2. CASE \E o \in Order : Fill(o)
  <2>1. PICK o \in Order : Fill(o)
    BY <1>2
  <2>2. /\ left[o] > 0 /\ life' = life
        /\ left' = IF pos = 1 THEN NoOrders ELSE [left EXCEPT ![o] = @ - 1]
        /\ done' = [done EXCEPT ![o] = @ + 1]
    BY <2>1, FillEffect
  <2>3. Own(l)' = Own(l)
    BY <2>2 DEF Own
  <2>4. /\ left'[Own(l)] = IF pos = 1 THEN 0
                           ELSE IF o = Own(l) THEN left[Own(l)] - 1 ELSE left[Own(l)]
        /\ done'[Own(l)] = IF o = Own(l) THEN done[Own(l)] + 1 ELSE done[Own(l)]
    BY <1>t, <2>2, NothingRests
  <2>5. o = Own(l) => left[Own(l)] > 0
    BY <2>2
  <2> QED
    BY <1>t, <2>3, <2>4, <2>5 DEF Total
<1> QED
  BY <1>1, <1>2

LEMMA TotalPlaced ==
  ASSUME TypeInv, Accept, UNCHANGED <<done, life>>, NEW l \in Label
  PROVE  /\ Own(l)' = Own(l) /\ done'[Own(l)] = done[Own(l)]
         /\ left'[Own(l)] = IF l = ensure.label THEN left[Own(l)] + Plan(ensure.size)[l]
                            ELSE left[Own(l)]
         /\ Total(l)' = IF l = ensure.label THEN Total(l) + Plan(ensure.size)[l] ELSE Total(l)
<1> DEFINE k == ensure.label
<1>1. /\ life > 0 /\ k \in Label /\ Own(k) \in Order
      /\ left' = [left EXCEPT ![Own(k)] = left[Own(k)] + Plan(ensure.size)[k]]
  BY AcceptType
<1>2. /\ Own(l) \in Order /\ left[Own(l)] \in Nat /\ done[Own(l)] \in Nat
      /\ left \in [Order -> Nat]
  BY <1>1, TotalType, Parts
<1>3. Own(l) = Own(k) <=> l = k
  BY DEF Own
<1>4. Own(l)' = Own(l)
  BY DEF Own
<1>5. left'[Own(l)] = IF l = k THEN left[Own(l)] + Plan(ensure.size)[l] ELSE left[Own(l)]
  BY <1>1, <1>2, <1>3
<1>6. Plan(ensure.size)[l] \in Nat
  BY Parts, PlanType DEF Placements
<1> QED
  BY <1>2, <1>4, <1>5, <1>6 DEF Total

(* The steps that neither place nor start a life keep what was placed.     *)
LEMMA OnceBetween ==
  ASSUME TypeInv, Once, Serial, lc.open,
         \/ StopHit \/ (\E o \in Order : Fill(o) \/ OnOrder(o))
         \/ OnExecution \/ MoveToBreakeven \/ UNCHANGED vars
  PROVE  OncePlaced' /\ OnceInTurn'
<1>t. life > 0
  BY Parts DEF Begun
<1>1. UNCHANGED ensure /\ lc'.placed = lc.placed /\ lc'.planned = lc.planned
  <2>1. CASE OnExecution
    <3>1. Head(execs)[1] \in Label
      BY <2>1, OnExecutionQueue DEF Order
    <3> QED
      BY <2>1, <3>1, Parts, BookedType DEF OnExecution
  <2>2. CASE MoveToBreakeven
    BY <2>2, Parts DEF MoveToBreakeven, Lifecycles
  <2> QED
    BY <2>1, <2>2 DEF StopHit, Fill, OnOrder, vars
<1>2. ASSUME NEW l \in Label
      PROVE  Total(l)' <= Total(l) /\ Total(l) \in Nat /\ Total(l)' \in Nat /\ lc.planned[l] \in Nat
             /\ Plan(ensure.size)[l] \in Nat
  <2>1. \/ StopHit \/ (\E o \in Order : Fill(o)) \/ UNCHANGED <<left, done, life>>
    BY DEF OnOrder, OnExecution, MoveToBreakeven, vars
  <2>2. Plan(ensure.size)[l] \in Nat
    BY Parts, PlanType DEF Placements
  <2>3. /\ Own(l)' = Own(l) /\ Total(l)' <= Total(l)
        /\ left'[Own(l)] \in Nat /\ done'[Own(l)] \in Nat
    BY <1>t, <2>1, TotalShrinks
  <2>4. Total(l)' \in Nat
    BY <2>3 DEF Total
  <2> QED
    BY <1>t, <2>2, <2>3, <2>4, TotalType
<1>3. OncePlaced'
  <2> SUFFICES ASSUME NEW l \in Label
               PROVE  /\ l \in lc.placed => lc.planned[l] > 0 /\ Total(l)' <= lc.planned[l]
                      /\ Pending(l) => Total(l)' <= Plan(ensure.size)[l]
                      /\ l \notin lc.placed /\ ~Pending(l) => Total(l)' = 0
    BY <1>1 DEF OncePlaced, Pending
  <2> QED
    BY <1>2 DEF Once, OncePlaced
<1>4. OnceInTurn'
  BY <1>1 DEF Once, OnceInTurn
<1> QED
  BY <1>3, <1>4

LEMMA OnceEnter ==
  ASSUME TypeInv, Lives, Serial, NEW size \in scenario.sizes, Enter(size)
  PROVE  OncePlaced' /\ OnceInTurn' /\ OnceBooked'
<1>1. /\ execs' = <<>> /\ life' = life + 1 /\ life' \in 1 .. MaxLives
      /\ lc' = NewLife /\ done' = done /\ left' = left /\ left = NoOrders
      /\ ensure'.at = "idle"
  BY Parts, Constants, RestingType DEF Enter, Lives, Serial, Only
<1>2. ASSUME NEW l \in Label
      PROVE  /\ Total(l)' = 0 /\ ~Pending(l)'
             /\ lc'.filled[l] = 0 /\ Count(execs', {Own(l)'}) = 0 /\ done'[Own(l)'] = 0
  <2>1. Own(l)' \in Order /\ Own(l)'[2] > life
    BY <1>1, Parts DEF Own, Order
  <2>2. left'[Own(l)'] = 0 /\ done'[Own(l)'] = 0
    BY <1>1, <2>1, NothingRests DEF Lives, Serial, Only
  <2>3. lc'.filled[l] = 0 /\ Count(execs', {Own(l)'}) = 0
    BY <1>1, NoLifeType, CountEmpty
  <2> QED
    BY <1>1, <2>2, <2>3 DEF Total, Pending
<1>3. lc'.placed = {}
  BY <1>1, NoLifeType
<1>4. OncePlaced'
  BY <1>2, <1>3 DEF OncePlaced
<1>5. OnceInTurn'
  BY <1>1 DEF OnceInTurn
<1>6. OnceBooked'
  BY <1>2 DEF OnceBooked
<1> QED
  BY <1>4, <1>5, <1>6

LEMMA OnceStart ==
  ASSUME TypeInv, Once, Serial, lc.open, RestSync
  PROVE  OncePlaced' /\ OnceInTurn'
<1>1. /\ ensure.at = "idle" /\ ensure' = Start(pos) /\ UNCHANGED <<left, done, life, lc>>
  BY RestingType DEF RestSync
<1>2. /\ ensure'.at # "idle" =>
           /\ ensure'.at = "place" /\ ensure'.label \in Wanted(ensure'.size) /\ lc.placed = {}
  BY <1>1, Parts, StartType
<1>3. \A l \in Label : Total(l)' = Total(l) /\ ~Pending(l) /\ ~Pending(l)'
  BY <1>1, <1>2 DEF Total, Own, Pending
<1>4. OncePlaced'
  BY <1>1, <1>3 DEF Once, OncePlaced
<1>5. OnceInTurn'
  BY <1>1, <1>2 DEF OnceInTurn
<1> QED
  BY <1>4, <1>5

LEMMA OncePlacing ==
  ASSUME TypeInv, Once, Serial, lc.open, Placed
  PROVE  OncePlaced' /\ OnceInTurn'
<1> DEFINE k == ensure.label
<1>1. /\ ensure.at = "place" /\ ensure' = [ensure EXCEPT !.at = "reply"]
      /\ UNCHANGED <<done, life, lc>> /\ k \in Label
      /\ k \notin lc.placed /\ ensure.size \in Nat
  BY AcceptType, Parts DEF Placed, Accept, Once, OnceInTurn, Placements
<1>2. /\ ensure'.at = "reply" /\ ensure'.label = k /\ ensure'.size = ensure.size
  BY <1>1, Parts DEF Placements
<1>3. ASSUME NEW l \in Label
      PROVE  /\ Total(l)' = IF l = k THEN Total(l) + Plan(ensure.size)[l] ELSE Total(l)
             /\ Total(l) \in Nat /\ Plan(ensure.size)[l] \in Nat
             /\ ~Pending(l) /\ (Pending(l)' <=> l = k)
  <2>1. life > 0
    BY Parts DEF Begun
  <2> QED
    BY <1>1, <1>2, <2>1, TotalPlaced, TotalType, PlanType DEF Placed, Pending
<1>4. OncePlaced'
  <2> SUFFICES ASSUME NEW l \in Label
               PROVE  /\ l \in lc.placed => lc.planned[l] > 0 /\ Total(l)' <= lc.planned[l]
                      /\ Pending(l)' => Total(l)' <= Plan(ensure.size)[l]
                      /\ l \notin lc.placed /\ ~Pending(l)' => Total(l)' = 0
    BY <1>1, <1>2 DEF OncePlaced
  <2> QED
    BY <1>1, <1>3 DEF Once, OncePlaced
<1>5. OnceInTurn'
  BY <1>1, <1>2 DEF Once, OnceInTurn
<1> QED
  BY <1>4, <1>5

LEMMA OnceAnswered ==
  ASSUME TypeInv, Once, Serial, lc.open, Reply \/ Refused
  PROVE  OncePlaced' /\ OnceInTurn'
<1> DEFINE k == ensure.label
           plan == Plan(ensure.size)
<1>1. /\ ensure.at # "idle" /\ ensure' = AfterPlacing /\ UNCHANGED <<left, done, life>>
      /\ k \in Label /\ ensure.size \in Nat /\ plan \in [Label -> Nat]
      /\ lc.planned \in [Label -> Nat] /\ lc.placed \subseteq Label
  BY Parts, PlanType DEF Reply, Refused, Placements, Lifecycles
<1>2. /\ plan[k] > 0 /\ k \notin lc.placed
      /\ k = "tp1" => lc.placed = {}
      /\ k = "tp2" /\ "tp1" \in lc.placed => lc.planned["tp1"] = plan["tp1"]
  BY <1>1 DEF Once, OnceInTurn, Wanted
<1>3. /\ ensure'.at # "idle" =>
           /\ ensure'.at = "place" /\ ensure'.label = "tp2" /\ ensure'.size = ensure.size
           /\ "tp2" \in Wanted(ensure.size) /\ k = "tp1"
  BY <1>1, Parts, AfterPlacingType
<1>4. \/ Refused /\ lc' = lc /\ \A l \in Label : ~Pending(l)
      \/ Reply /\ lc'.placed = lc.placed \cup {k} /\ lc'.planned = [lc.planned EXCEPT ![k] = plan[k]]
               /\ Pending(k)
  BY <1>1, Parts DEF Reply, Refused, Pending, Lifecycles
<1>5. \A l \in Label : Total(l)' = Total(l) /\ ~Pending(l)'
  BY <1>1, <1>3 DEF Total, Own, Pending
<1> HIDE DEF plan, k
<1>6. ASSUME NEW l \in Label
      PROVE  /\ l \in lc'.placed => lc'.planned[l] > 0 /\ Total(l) <= lc'.planned[l]
             /\ l \notin lc'.placed => Total(l) = 0
  <2>1. Pending(l) => l = k
    BY DEF Pending, k
  <2>2. /\ l \in lc.placed => lc.planned[l] > 0 /\ Total(l) <= lc.planned[l]
        /\ Pending(l) => Total(l) <= plan[l]
        /\ l \notin lc.placed /\ ~Pending(l) => Total(l) = 0
    BY DEF Once, OncePlaced, plan
  <2> QED
    BY <1>1, <1>2, <1>4, <2>1, <2>2
<1>7. OncePlaced'
  BY <1>5, <1>6 DEF OncePlaced
<1>8. OnceInTurn'
  <2> SUFFICES ASSUME ensure'.at # "idle"
               PROVE  /\ ensure'.label \in Wanted(ensure'.size) /\ ensure'.label \notin lc'.placed
                      /\ ensure'.label = "tp1" => lc'.placed = {}
                      /\ ensure'.label = "tp2" /\ "tp1" \in lc'.placed
                           => lc'.planned["tp1"] = Plan(ensure'.size)["tp1"]
    BY DEF OnceInTurn
  <2>1. /\ ensure'.label = "tp2" /\ ensure'.size = ensure.size /\ k = "tp1"
        /\ "tp2" \in Wanted(ensure.size) /\ lc.placed = {}
    BY <1>2, <1>3
  <2>2. lc'.placed \subseteq {"tp1"} /\ ("tp1" \in lc'.placed => lc'.planned["tp1"] = plan["tp1"])
    BY <1>1, <1>4, <2>1
  <2> QED
    BY <2>1, <2>2 DEF plan
<1> QED
  BY <1>7, <1>8

(* What is booked of the present orders is covered by what they executed.  *)
LEMMA OnceBookedStep ==
  ASSUME TypeInv, Lives, Once, Serial, lc.open, Next,
         ~ \E size \in scenario.sizes : Enter(size), lc'.open
  PROVE  OnceBooked' /\ life' = life
<1>t. life > 0
  BY Parts DEF Begun
<1>b. \A l \in Label : /\ lc.filled[l] + Count(execs, {Own(l)}) <= done[Own(l)]
                       /\ Own(l) \in Order /\ done[Own(l)] \in Nat
                       /\ lc.filled[l] \in Nat /\ Count(execs, {Own(l)}) \in Nat
  BY <1>t, TotalType DEF Once, OnceBooked
<1>1. CASE UNCHANGED <<execs, done, life>> /\ lc'.filled = lc.filled
  BY <1>b, <1>1 DEF OnceBooked, Own
<1>2. CASE \E o \in Order : Fill(o)
  <2>1. PICK o \in Order : Fill(o)
    BY <1>2
  <2>2. /\ done' = [done EXCEPT ![o] = @ + 1] /\ execs' = Append(execs, o)
        /\ UNCHANGED <<life, lc>> /\ execs \in Seq(Order) /\ done \in [Order -> Nat]
    BY <2>1, FillEffect, Parts DEF Lives, Serial, Only
  <2>3. ASSUME NEW l \in Label
        PROVE  lc'.filled[l] + Count(execs', {Own(l)'}) <= done'[Own(l)']
    <3>1. Own(l)' = Own(l)
      BY <2>2 DEF Own
    <3>2. Count(execs', {Own(l)}) = Count(execs, {Own(l)}) + (IF o \in {Own(l)} THEN 1 ELSE 0)
      BY <2>2, CountAppend
    <3>3. done'[Own(l)] = IF o = Own(l) THEN done[Own(l)] + 1 ELSE done[Own(l)]
      BY <1>b, <2>2
    <3>4. lc'.filled[l] = lc.filled[l]
      BY <2>2
    <3>5. lc.filled[l] + Count(execs', {Own(l)}) <= done'[Own(l)]
      <4>1. o \in {Own(l)} <=> o = Own(l)
        OBVIOUS
      <4> QED
        BY <1>b, <3>2, <3>3, <4>1
    <3> QED
      BY <3>1, <3>4, <3>5
  <2> QED
    BY <2>2, <2>3 DEF OnceBooked
<1>3. CASE OnExecution
  <2> DEFINE o == Head(execs)
  <2>1. /\ execs' = Tail(execs) /\ execs \in Seq(Order) /\ execs # <<>> /\ execs' \in Seq(Order)
        /\ o \in Order /\ o[1] \in Label /\ UNCHANGED <<life, done>>
    BY <1>3, OnExecutionQueue, Parts DEF Serial, Only, Order, OnExecution
  <2>2. o[2] = life
    BY <2>1, HeadAndTail DEF Lives, Serial, Only
  <2>3. lc'.filled \in {lc.filled, [lc.filled EXCEPT ![o[1]] = lc.filled[o[1]] + 1]}
        /\ lc.filled \in [Label -> Nat]
    BY <1>3, <2>1, Parts, BookedType DEF OnExecution, Lifecycles
  <2>4. ASSUME NEW l \in Label
        PROVE  lc'.filled[l] + Count(execs', {Own(l)'}) <= done'[Own(l)']
    <3>1. Own(l)' = Own(l)
      BY <2>1 DEF Own
    <3>2. Count(execs, {Own(l)}) = Count(execs', {Own(l)}) + (IF o \in {Own(l)} THEN 1 ELSE 0)
      BY <2>1, CountTail
    <3>3. o = Own(l) <=> o[1] = l
      BY <1>t, <2>1, <2>2, OwnType
    <3>4. Count(execs', {Own(l)}) \in Nat
      BY <2>1, CountType
    <3>5. lc'.filled[l] <= lc.filled[l] + (IF o[1] = l THEN 1 ELSE 0) /\ lc'.filled[l] \in Nat
      BY <1>b, <2>1, <2>3
    <3>6. lc'.filled[l] + Count(execs', {Own(l)}) <= done[Own(l)]
      BY <1>b, <3>2, <3>3, <3>4, <3>5
    <3> QED
      BY <2>1, <3>1, <3>6
  <2> QED
    BY <2>1, <2>4 DEF OnceBooked
<1>4. CASE Reply \/ MoveToBreakeven
  <2>1. UNCHANGED <<execs, done, life>> /\ lc'.filled = lc.filled
    BY <1>4, Parts DEF Reply, MoveToBreakeven, Lifecycles
  <2> QED
    BY <1>1, <2>1
<1>5. CASE Exit
  BY <1>5, NoLifeType DEF Exit
<1> QED
  BY <1>1, <1>2, <1>3, <1>4, <1>5
  DEF Next, StopHit, RestSync, Placed, Refused, ReplyLost, OnOrder, Crash, Boot, Lives, Serial, Only

LEMMA OnceStep == TypeInv /\ Lives /\ Once /\ [Next]_vars => Once'
<1> SUFFICES ASSUME TypeInv, Lives, Once, [Next]_vars, Serial, lc'.open
             PROVE  OncePlaced' /\ OnceInTurn' /\ OnceBooked'
  BY DEF Once, Serial, Only, Faults, Next, vars, Enter, StopHit, Exit, RestSync, Placed, Reply,
     Refused, ReplyLost, Fill, OnOrder, OnExecution, MoveToBreakeven, Crash, Boot
<1>s. up /\ "crash" \notin Faults /\ "replyLost" \notin Faults
  BY DEF Lives, Serial, Only
<1>1. CASE \E size \in scenario.sizes : Enter(size)
  BY <1>1, OnceEnter
<1>2. CASE ~ (\E size \in scenario.sizes : Enter(size)) /\ Next
  <2>1. lc.open
    <3>1. ~Exit /\ ~Crash /\ ~Boot
      BY <1>s, NoLifeType DEF Exit, Crash, Boot
    <3> QED
      BY <1>2, <3>1, OpenStays DEF Next
  <2>2. OnceBooked'
    BY <1>2, <2>1, OnceBookedStep
  <2>3. OncePlaced' /\ OnceInTurn'
    <3>1. ~Exit /\ ~Crash /\ ~Boot /\ ~ReplyLost
      BY <1>s, NoLifeType DEF Exit, Crash, Boot, ReplyLost
    <3> QED
      BY <1>2, <2>1, <3>1, OnceBetween, OnceStart, OncePlacing, OnceAnswered DEF Next
  <2> QED
    BY <2>2, <2>3
<1>3. CASE UNCHANGED vars
  <2>1. lc.open
    BY <1>3 DEF vars
  <2>2. OncePlaced' /\ OnceInTurn'
    BY <1>3, <2>1, OnceBetween
  <2>3. OnceBooked'
    BY <1>3, <2>1 DEF Once, OnceBooked, vars, Own
  <2> QED
    BY <2>2, <2>3
<1> QED
  BY <1>1, <1>2, <1>3

LEMMA PlacedOnce == Spec => []Once
<1>1. Init => Once
  BY NoLifeType DEF Init, Once
<1> QED
  BY <1>1, OnceStep, Lived, Typed, PTL DEF Spec

----------------------------------------------------------------------------
(* The phase follows complete orders.  An execution is delivered only when *)
(* the reply to its order has been seen, so it is compared with what was   *)
(* planned, and of that nothing more can be left than was not executed.    *)
InStep == Only({"placeFails", "reordered", "syncRaces"})

Complete(o) == done[o] > 0 /\ 100 * done[o] >= 99 * (done[o] + left[o])
Honest == InStep /\ lc.open /\ lc.phase # "open" => Complete(Own(lc.phase))

LEMMA ExecutionOwn ==
  ASSUME TypeInv, Lives, Once, Serial, lc.open, OnExecution
  PROVE  LET o == Head(execs)
         IN /\ o[1] \in Label /\ o = Own(o[1])
            /\ Count(execs, {o}) > 0
            /\ lc.filled[o[1]] + 1 <= done[o]
            /\ lc'.open /\ lc'.phase \in {lc.phase, o[1]} /\ UNCHANGED <<left, done, life>>
<1> DEFINE o == Head(execs)
<1>1. /\ execs \in Seq(Order) /\ execs # <<>> /\ o \in Order /\ o[1] \in Label /\ life > 0
  BY OnExecutionQueue, Parts DEF Order, Begun
<1>2. o[2] = life /\ 1 \in DOMAIN execs /\ execs[1] = o
  BY <1>1, HeadAndTail DEF Lives, Serial, Only
<1>3. o = Own(o[1])
  BY <1>1, <1>2, OwnType
<1>4. Count(execs, {o}) > 0
  BY <1>1, <1>2, CountType
<1>5. lc.filled[o[1]] + Count(execs, {o}) <= done[o]
  BY <1>1, <1>3 DEF Once, OnceBooked
<1>6. lc.filled[o[1]] \in Nat /\ done[o] \in Nat /\ Count(execs, {o}) \in Nat
  BY <1>1, <1>3, TotalType
<1>7. lc.filled[o[1]] + 1 <= done[o]
  BY <1>4, <1>5, <1>6
<1>8. lc'.open /\ lc'.phase \in {lc.phase, o[1]} /\ UNCHANGED <<left, done, life>>
  BY <1>1, OpenStays, Parts, BookedType DEF OnExecution
<1> QED
  BY <1>1, <1>3, <1>4, <1>7, <1>8

LEMMA HonestExecution ==
  ASSUME TypeInv, Lives, Once, Honest, InStep, lc.open, OnExecution, lc'.phase # "open"
  PROVE  Complete(Own(lc'.phase))
<1> DEFINE o == Head(execs)
           l == o[1]
<1>0. Serial
  BY DEF InStep, Serial, Only
<1>1. /\ l \in Label /\ o = Own(l) /\ lc.filled[l] + 1 <= done[o] /\ lc'.phase \in {lc.phase, l}
      /\ life > 0
  BY <1>0, ExecutionOwn, Parts DEF Begun
<1>2. CASE lc'.phase = lc.phase
  BY <1>2 DEF Honest
<1>3. CASE lc'.phase # lc.phase /\ lc'.phase = l
  <2>1. lc' = Booked(l)
    BY <1>3 DEF OnExecution
  <2>2. /\ left[o] \in Nat /\ done[o] \in Nat /\ Total(l) = left[o] + done[o]
        /\ lc.filled[l] \in Nat /\ lc.planned[l] \in Nat
    BY <1>1, TotalType DEF Total
  <2>3. lc.planned[l] > 0 /\ Total(l) <= lc.planned[l]
    <3>1. ~Pending(l)
      BY DEF OnExecution, Delivers, InStep, Only, Pending
    <3>2. Total(l) > 0
      BY <1>1, <2>2
    <3> QED
      BY <1>0, <1>1, <3>1, <3>2 DEF Once, OncePlaced
  <2>4. 100 * (lc.filled[l] + 1) >= 99 * lc.planned[l]
    BY <1>1, <1>3, <2>1, <2>3, Parts, BookedType
  <2>5. done[o] > 0 /\ 100 * done[o] >= 99 * (done[o] + left[o])
    BY <1>1, <2>2, <2>3, <2>4
  <2> QED
    BY <1>1, <1>3, <2>5 DEF Complete
<1> QED
  BY <1>1, <1>2, <1>3

LEMMA HonestStep == TypeInv /\ Lives /\ Once /\ Honest /\ [Next]_vars => Honest'
<1> SUFFICES ASSUME TypeInv, Lives, Once, Honest, [Next]_vars, InStep, lc'.open, lc'.phase # "open"
             PROVE  Complete(Own(lc.phase))'
  BY DEF Honest, InStep, Only, Faults, Next, vars, Enter, StopHit, Exit, RestSync, Placed, Reply,
     Refused, ReplyLost, Fill, OnOrder, OnExecution, MoveToBreakeven, Crash, Boot
<1>s. up /\ "crash" \notin Faults /\ "replyLost" \notin Faults /\ Serial
  BY DEF Lives, InStep, Serial, Only
<1>1. \A size \in scenario.sizes : ~Enter(size)
  BY NoLifeType DEF Enter
<1>2. ~Exit /\ ~Crash /\ ~Boot /\ ~ReplyLost
  BY <1>s, NoLifeType DEF Exit, Crash, Boot, ReplyLost
<1>3. CASE OnExecution
  <2>1. lc.open
    BY <1>3, OpenStays
  <2>2. Complete(Own(lc'.phase))
    BY <1>3, <2>1, HonestExecution
  <2> QED
    BY <1>3, <2>2 DEF OnExecution, Complete, Own
<1>4. CASE ~OnExecution
  <2>1. lc.open /\ lc'.phase = lc.phase
    <3>1. CASE Reply \/ MoveToBreakeven
      BY <3>1, Parts DEF Reply, MoveToBreakeven, Lifecycles
    <3> QED
      BY <1>1, <1>2, <1>4, <3>1
      DEF Next, vars, StopHit, RestSync, Placed, Refused, Fill, OnOrder
  <2>p. PICK l \in Label : l = lc.phase
    BY <2>1, Parts DEF Lifecycles
  <2> DEFINE o == Own(l)
  <2>2. l \in Label /\ life > 0 /\ Complete(o)
    BY <2>1, <2>p, Parts DEF Honest, Begun
  <2>3. left[o] \in Nat /\ done[o] \in Nat /\ Total(l) = left[o] + done[o]
    BY <2>2, TotalType DEF Total
  <2>4. /\ Own(lc.phase)' = o
        /\ done'[o] >= done[o] /\ left'[o] <= left[o]
        /\ left'[o] \in Nat /\ done'[o] \in Nat
    <3>1. CASE Placed
      <4>1. /\ l # ensure.label
        <5>1. ensure.label \notin lc.placed /\ ~Pending(ensure.label) /\ ensure.label \in Label
          BY <1>s, <2>1, <3>1, AcceptType DEF Once, OnceInTurn, Placed, Accept, Pending
        <5>2. Total(ensure.label) = 0
          BY <1>s, <2>1, <5>1 DEF Once, OncePlaced
        <5> QED
          BY <2>2, <2>3, <5>2 DEF Complete
      <4>2. /\ Own(l)' = o /\ done'[o] = done[o] /\ left'[o] = left[o]
        BY <2>2, <3>1, <4>1, TotalPlaced DEF Placed
      <4>3. Own(lc.phase)' = Own(l)'
        BY <2>1, <2>p DEF Own
      <4> QED
        BY <2>3, <4>2, <4>3
    <3>2. CASE ~Placed
      <4>1. StopHit \/ (\E p \in Order : Fill(p)) \/ UNCHANGED <<left, done, life>>
        BY <1>1, <1>2, <1>4, <3>2
        DEF Next, vars, RestSync, Reply, Refused, OnOrder, MoveToBreakeven
      <4>2. /\ Own(l)' = o /\ done'[o] >= done[o] /\ left'[o] <= left[o]
            /\ left'[o] \in Nat /\ done'[o] \in Nat
        BY <2>2, <4>1, TotalShrinks
      <4>3. Own(lc.phase)' = Own(l)'
        BY <2>1, <2>p DEF Own
      <4> QED
        BY <4>2, <4>3
    <3> QED
      BY <3>1, <3>2
  <2>5. done'[o] > 0 /\ 100 * done'[o] >= 99 * (done'[o] + left'[o])
    <3>1. done[o] > 0 /\ 100 * done[o] >= 99 * (done[o] + left[o])
      BY <2>2 DEF Complete
    <3>2. \A d, r, e, s \in Nat :
            d > 0 /\ 100 * d >= 99 * (d + r) /\ e >= d /\ s <= r => e > 0 /\ 100 * e >= 99 * (e + s)
      OBVIOUS
    <3> QED
      BY <2>3, <2>4, <3>1, <3>2
  <2> QED
    BY <2>4, <2>5 DEF Complete
<1> QED
  BY <1>3, <1>4

(* The stop is moved for no less than a completely executed order of the   *)
(* very position, but for the 1 % the code tolerates, whatever the sizes.  *)
THEOREM PhaseIsHonest == Spec => []PhaseHonest
<1>1. Init => Honest
  BY NoLifeType DEF Init, Honest
<1>2. Honest => PhaseHonest
  BY DEF Honest, PhaseHonest, InStep, Complete
<1> QED
  BY <1>1, <1>2, HonestStep, PlacedOnce, Lived, Typed, PTL DEF Spec

----------------------------------------------------------------------------
(* The phase never goes back: TP2 is executed after all of TP1, and the    *)
(* executions on their way keep that order.                                *)
Tp1 == Own("tp1")
Tp2 == Own("tp2")

Forward ==
  /\ lc.phase # "open" => done[Own(lc.phase)] > 0
  /\ done[Tp2] > 0 => left[Tp1] = 0
  /\ \A i, j \in DOMAIN execs : i < j /\ execs[i] = Tp2 => execs[j] = Tp2
  /\ lc.phase = "tp2" => \A i \in DOMAIN execs : execs[i] = Tp2

Phases == Serial /\ lc.open => Forward

LEMMA TpOrders ==
  ASSUME TypeInv, life > 0
  PROVE  /\ Tp1 \in Order /\ Tp2 \in Order /\ Tp1 # Tp2 /\ Tp1[1] = "tp1" /\ Tp2[1] = "tp2"
         /\ Own("tp1") = Tp1 /\ Own("tp2") = Tp2
         /\ left[Tp1] \in Nat /\ left[Tp2] \in Nat /\ done[Tp1] \in Nat /\ done[Tp2] \in Nat
         /\ \A o \in Order : o[2] = life => o \in {Tp1, Tp2}
<1>1. "tp1" \in Label /\ "tp2" \in Label /\ Label = {"tp1", "tp2"}
  BY DEF Label
<1>2. \A o \in Order : o[1] \in Label
  BY DEF Order
<1> QED
  BY <1>1, <1>2, OwnType, TotalType DEF Tp1, Tp2

LEMMA ForwardFill ==
  ASSUME TypeInv, Lives, Once, Serial, lc.open, Forward, NEW o \in Order, Fill(o)
  PROVE  Forward'
<1>1. /\ left[o] > 0 /\ UNCHANGED <<life, lc>>
      /\ left' = IF pos = 1 THEN NoOrders ELSE [left EXCEPT ![o] = @ - 1]
      /\ done' = [done EXCEPT ![o] = @ + 1]
      /\ execs' = Append(execs, o)
  BY FillEffect DEF Lives, Serial, Only
<1>2. /\ execs \in Seq(Order) /\ left \in [Order -> Nat] /\ done \in [Order -> Nat] /\ life > 0
  BY Parts DEF Begun
<1>3. o \in {Tp1, Tp2} /\ (o = Tp2 => left[Tp1] = 0)
  <2>1. o[2] = life
    BY <1>1 DEF Lives, Serial, Only
  <2>2. o[1] = "tp2" => left[Tp1] = 0
    BY <1>2, TpOrders DEF Fill
  <2> QED
    BY <1>2, <2>1, <2>2, TpOrders
<1>4. Tp1' = Tp1 /\ Tp2' = Tp2
  BY <1>1 DEF Tp1, Tp2, Own
<1>5. \A x \in Order : done'[x] >= done[x] /\ done'[x] \in Nat /\ done[x] \in Nat
  BY <1>1, <1>2
<1>6. lc.phase # "open" => done'[Own(lc.phase)'] > 0
  <2> SUFFICES ASSUME lc.phase # "open" PROVE done'[Own(lc.phase)'] > 0
    OBVIOUS
  <2>1. lc.phase \in Label /\ Own(lc.phase)' = Own(lc.phase)
    BY <1>1, Parts DEF Lifecycles, Own
  <2>2. Own(lc.phase) \in Order /\ done[Own(lc.phase)] > 0
    BY <1>2, <2>1, OwnType DEF Forward
  <2> QED
    BY <1>5, <2>1, <2>2
<1>7. done'[Tp2] > 0 => left'[Tp1] = 0
  BY <1>1, <1>2, <1>3, TpOrders, NothingRests DEF Forward
<1>8. o = Tp1 => done[Tp2] = 0
  BY <1>1, <1>2, TpOrders DEF Forward
<1>9. o = Tp1 => \A i \in DOMAIN execs : execs[i] # Tp2
  <2> SUFFICES ASSUME o = Tp1, NEW i \in DOMAIN execs, execs[i] = Tp2 PROVE FALSE
    OBVIOUS
  <2>1. Count(execs, {Own("tp2")}) > 0
    BY <1>2, TpOrders, CountType
  <2>2. lc.filled["tp2"] + Count(execs, {Own("tp2")}) <= done[Own("tp2")]
    BY DEF Once, OnceBooked, Label
  <2>3. lc.filled["tp2"] \in Nat /\ Count(execs, {Own("tp2")}) \in Nat
    BY OwnCount DEF Label
  <2> QED
    BY <1>2, <1>8, <2>1, <2>2, <2>3, TpOrders
<1>10. /\ DOMAIN execs' = 1 .. Len(execs) + 1 /\ DOMAIN execs = 1 .. Len(execs) /\ Len(execs) \in Nat
       /\ execs'[Len(execs) + 1] = o /\ \A i \in DOMAIN execs : execs'[i] = execs[i]
  BY <1>1, <1>2, AppendProperties, LenProperties
<1>11. \A i, j \in DOMAIN execs' : i < j /\ execs'[i] = Tp2 => execs'[j] = Tp2
  BY <1>3, <1>9, <1>10 DEF Forward
<1>12. lc.phase = "tp2" => \A i \in DOMAIN execs' : execs'[i] = Tp2
  <2>1. lc.phase = "tp2" => done[Tp2] > 0
    BY <1>2, TpOrders DEF Forward
  <2>2. lc.phase = "tp2" => o = Tp2
    BY <1>3, <1>8, <2>1
  <2> QED
    BY <1>10, <2>2 DEF Forward
<1> QED
  BY <1>1, <1>4, <1>6, <1>7, <1>11, <1>12 DEF Forward

LEMMA ForwardExecution ==
  ASSUME TypeInv, Lives, Once, Serial, lc.open, Forward, OnExecution
  PROVE  Forward'
<1> DEFINE o == Head(execs)
<1>1. /\ o[1] \in Label /\ o = Own(o[1]) /\ lc'.phase \in {lc.phase, o[1]}
      /\ lc.filled[o[1]] + 1 <= done[o] /\ UNCHANGED <<left, done, life>>
  BY ExecutionOwn
<1>2. /\ execs \in Seq(Order) /\ execs # <<>> /\ execs' = Tail(execs) /\ life > 0
      /\ lc.filled[o[1]] \in Nat /\ lc.phase \in {"open"} \cup Label
  BY <1>1, OnExecutionQueue, Parts DEF Serial, Only, Begun, Lifecycles
<1>3. Tp1' = Tp1 /\ Tp2' = Tp2 /\ Own(lc.phase)' = Own(lc'.phase)
  BY <1>1 DEF Tp1, Tp2, Own
<1>4. /\ 1 \in DOMAIN execs /\ execs[1] = o
      /\ \A i \in DOMAIN execs' : /\ i \in Nat /\ i > 0 /\ i + 1 \in DOMAIN execs
                                  /\ execs'[i] = execs[i + 1]
  BY <1>2, HeadAndTail
<1>5. lc'.phase # "open" => done[Own(lc'.phase)] > 0
  <2>1. done[o] \in Nat
    BY <1>1, <1>2, TotalType
  <2>2. done[o] > 0
    BY <1>1, <1>2, <2>1
  <2> QED
    BY <1>1, <2>2 DEF Forward
<1>6. \A i, j \in DOMAIN execs' : i < j /\ execs'[i] = Tp2 => execs'[j] = Tp2
  BY <1>4 DEF Forward
<1>7. lc'.phase = "tp2" => \A i \in DOMAIN execs' : execs'[i] = Tp2
  <2>1. CASE lc.phase = "tp2"
    BY <1>4, <2>1 DEF Forward
  <2>2. CASE lc'.phase = "tp2" /\ lc.phase # "tp2"
    <3>1. execs[1] = Tp2
      BY <1>1, <1>2, <1>4, <2>2, TpOrders
    <3> QED
      BY <1>4, <3>1 DEF Forward
  <2> QED
    BY <2>1, <2>2
<1> QED
  BY <1>1, <1>3, <1>5, <1>6, <1>7 DEF Forward

LEMMA ForwardPlaced ==
  ASSUME TypeInv, Once, Serial, lc.open, Forward, Placed
  PROVE  Forward'
<1>1. /\ UNCHANGED <<done, life, lc, execs>> /\ ensure.label \in Label /\ life > 0
      /\ ensure.label \notin lc.placed /\ ensure.at = "place"
      /\ ensure.label = "tp1" => lc.placed = {}
  BY AcceptType DEF Placed, Accept, Once, OnceInTurn
<1>2. Tp1' = Tp1 /\ Tp2' = Tp2 /\ Own(lc.phase)' = Own(lc.phase)
  BY <1>1 DEF Tp1, Tp2, Own
<1>3. done'[Tp2] > 0 => left'[Tp1] = 0
  <2>1. CASE ensure.label = "tp1"
    <3>1. Total("tp2") = 0
      BY <1>1, <2>1 DEF Once, OncePlaced, Pending, Label
    <3>2. done[Tp2] = 0
      BY <1>1, <3>1, TpOrders DEF Total
    <3> QED
      BY <1>1, <1>2, <3>2
  <2>2. CASE ensure.label # "tp1"
    <3>1. left'[Own("tp1")] = left[Own("tp1")]
      BY <1>1, <2>2, TotalPlaced DEF Placed, Label
    <3> QED
      BY <1>1, <1>2, <3>1, TpOrders DEF Forward
  <2> QED
    BY <2>1, <2>2
<1> QED
  BY <1>1, <1>2, <1>3 DEF Forward

LEMMA PhasesStep == TypeInv /\ Lives /\ Once /\ Phases /\ [Next]_vars => Phases'
<1> SUFFICES ASSUME TypeInv, Lives, Once, Phases, [Next]_vars, Serial, lc'.open
             PROVE  Forward'
  BY DEF Phases, Serial, Only, Faults, Next, vars, Enter, StopHit, Exit, RestSync, Placed, Reply,
     Refused, ReplyLost, Fill, OnOrder, OnExecution, MoveToBreakeven, Crash, Boot
<1>s. up /\ "crash" \notin Faults /\ "replyLost" \notin Faults
  BY DEF Lives, Serial, Only
<1>n. ~Exit /\ ~Crash /\ ~Boot /\ ~ReplyLost
  BY <1>s, NoLifeType DEF Exit, Crash, Boot, ReplyLost
<1>1. CASE \E size \in scenario.sizes : Enter(size)
  <2>1. PICK size \in scenario.sizes : Enter(size)
    BY <1>1
  <2>2. /\ execs' = <<>> /\ life' = life + 1 /\ life' \in 1 .. MaxLives
        /\ lc'.phase = "open" /\ done' = done
    BY <2>1, Parts, Constants, NoLifeType DEF Enter
  <2>3. Tp2' \in Order /\ Tp2'[2] > life
    BY <2>2, Parts DEF Tp2, Own, Order, Label
  <2>4. done'[Tp2'] = 0
    BY <2>2, <2>3 DEF Lives, Serial, Only
  <2> QED
    BY <2>2, <2>4 DEF Forward
<1>2. CASE ~(\E size \in scenario.sizes : Enter(size)) /\ [Next]_vars
  <2>1. lc.open
    BY <1>n, <1>2, OpenStays DEF Next, vars
  <2>2. Forward /\ life > 0
    BY <2>1, Parts DEF Phases, Begun
  <2>3. CASE \E o \in Order : Fill(o)
    BY <2>1, <2>2, <2>3, ForwardFill
  <2>4. CASE OnExecution
    BY <2>1, <2>2, <2>4, ForwardExecution
  <2>5. CASE Placed
    BY <2>1, <2>2, <2>5, ForwardPlaced
  <2>6. CASE StopHit \/ RestSync \/ Reply \/ Refused \/ (\E o \in Order : OnOrder(o))
             \/ MoveToBreakeven \/ UNCHANGED vars
    <3>1. /\ UNCHANGED <<done, life, execs>> /\ left' \in {left, NoOrders}
          /\ lc'.phase = lc.phase
      BY <2>6, Parts
      DEF StopHit, RestSync, Reply, Refused, OnOrder, MoveToBreakeven, vars, Lifecycles
    <3>2. Tp1' = Tp1 /\ Tp2' = Tp2 /\ Own(lc.phase)' = Own(lc.phase)
      BY <3>1 DEF Tp1, Tp2, Own
    <3>3. left'[Tp1] = 0 \/ left'[Tp1] = left[Tp1]
      BY <2>2, <3>1, TpOrders, NothingRests
    <3> QED
      BY <2>2, <3>1, <3>2, <3>3 DEF Forward
  <2> QED
    BY <1>n, <1>2, <2>3, <2>4, <2>5, <2>6 DEF Next
<1> QED
  BY <1>1, <1>2

(* The phase goes from open to TP1 to TP2 and never back, although orders  *)
(* are refused, executions overtake replies and updates, and the position  *)
(* list races them.                                                        *)
THEOREM PhaseNeverBack == Spec => PhaseMonotone
<1>1. Init => Phases
  BY NoLifeType DEF Init, Phases
<1>2. TypeInv /\ Lives /\ Once /\ Phases /\ [Next]_vars
        => [Only({"placeFails", "overtakes", "reordered", "syncRaces"})
              /\ life' = life /\ lc.open /\ lc'.open
            => \/ lc'.phase = lc.phase
               \/ lc.phase = "open"
               \/ lc'.phase = "tp2"]_vars
  <2> SUFFICES ASSUME TypeInv, Lives, Once, Phases, Next, Serial, life' = life, lc.open, lc'.open,
                      lc'.phase # lc.phase, lc.phase # "open"
               PROVE  lc'.phase = "tp2"
    BY DEF Serial
  <2>1. OnExecution
    <3>1. \A size \in scenario.sizes : ~Enter(size)
      BY Parts DEF Enter
    <3>2. ~Exit /\ ~Crash /\ ~Boot
      BY NoLifeType DEF Exit, Crash, Boot, Lives, Serial, Only
    <3>3. ~Reply /\ ~MoveToBreakeven
      BY Parts DEF Reply, MoveToBreakeven, Lifecycles
    <3> QED
      BY <3>1, <3>2, <3>3
      DEF Next, StopHit, RestSync, Placed, Refused, ReplyLost, Fill, OnOrder
  <2> DEFINE o == Head(execs)
  <2>2. o[1] \in Label /\ o = Own(o[1]) /\ lc'.phase = o[1] /\ life > 0
    BY <2>1, ExecutionOwn, Parts DEF Begun
  <2>3. lc.phase = "tp2" => o = Tp2
    <3>1. execs \in Seq(Order) /\ execs # <<>>
      BY <2>1, OnExecutionQueue, Parts
    <3> QED
      BY <3>1, HeadAndTail DEF Phases, Forward
  <2>4. lc.phase \in {"tp1", "tp2"}
    BY Parts DEF Lifecycles, Label
  <2> QED
    BY <2>2, <2>3, <2>4, TpOrders DEF Label
<1> QED
  BY <1>1, <1>2, PhasesStep, PlacedOnce, Lived, Typed, PTL DEF Spec, PhaseMonotone

----------------------------------------------------------------------------
(* The ladder fits.  While the bot is placing, the position and what has   *)
(* been executed of it are the size the plan was made for.                 *)
Orderly == Only({"placeFails", "overtakes", "reordered"})

Fits ==
  /\ lc.open \/ pos = 0
  /\ lc.open /\ ensure.at # "idle" /\ pos > 0 => pos + done[Tp1] + done[Tp2] = ensure.size
  /\ pos > 0 => left[Tp1] + left[Tp2] <= pos

Ladder == Orderly => Fits

LEMMA FitsEnter ==
  ASSUME TypeInv, Lives, Orderly, NEW size \in scenario.sizes, Enter(size)
  PROVE  Fits'
<1>1. /\ life' = life + 1 /\ life' \in 1 .. MaxLives /\ left' = left /\ left = NoOrders
      /\ lc'.open /\ ensure'.at = "idle" /\ pos' = size /\ size \in Nat
  BY Parts, Constants, RestingType, NoLifeType DEF Enter, Lives, Orderly, Only
<1>2. Tp1' \in Order /\ Tp2' \in Order
  BY <1>1, Parts DEF Tp1, Tp2, Own, Order, Label
<1>3. left'[Tp1'] = 0 /\ left'[Tp2'] = 0
  BY <1>1, <1>2, NothingRests
<1> QED
  BY <1>1, <1>3 DEF Fits

LEMMA FitsFill ==
  ASSUME TypeInv, Lives, Orderly, Fits, NEW o \in Order, Fill(o)
  PROVE  Fits'
<1>1. /\ left[o] > 0 /\ pos > 0 /\ pos' = pos - 1 /\ UNCHANGED <<life, lc, ensure>>
      /\ left' = IF pos = 1 THEN NoOrders ELSE [left EXCEPT ![o] = @ - 1]
      /\ done' = [done EXCEPT ![o] = @ + 1]
  BY FillEffect
<1>2. /\ pos \in Nat /\ left \in [Order -> Nat] /\ done \in [Order -> Nat] /\ lc.open /\ life > 0
  BY <1>1, Parts DEF Fits, Begun
<1>3. o \in {Tp1, Tp2}
  <2>1. o[2] = life
    BY <1>1 DEF Lives, Orderly, Only
  <2> QED
    BY <1>2, <2>1, TpOrders
<1>4. Tp1' = Tp1 /\ Tp2' = Tp2
  BY <1>1 DEF Tp1, Tp2, Own
<1>5. /\ left[Tp1] \in Nat /\ left[Tp2] \in Nat /\ done[Tp1] \in Nat /\ done[Tp2] \in Nat
      /\ Tp1 \in Order /\ Tp2 \in Order /\ Tp1 # Tp2
  BY <1>2, TpOrders
<1>6. /\ done'[Tp1] = IF o = Tp1 THEN done[Tp1] + 1 ELSE done[Tp1]
      /\ done'[Tp2] = IF o = Tp2 THEN done[Tp2] + 1 ELSE done[Tp2]
  BY <1>1, <1>2, <1>5
<1>7. pos > 1 => /\ left'[Tp1] = IF o = Tp1 THEN left[Tp1] - 1 ELSE left[Tp1]
                 /\ left'[Tp2] = IF o = Tp2 THEN left[Tp2] - 1 ELSE left[Tp2]
  BY <1>1, <1>2, <1>5
<1>8. done'[Tp1] + done'[Tp2] = done[Tp1] + done[Tp2] + 1
  BY <1>3, <1>5, <1>6
<1>9. pos > 1 => left'[Tp1] + left'[Tp2] = left[Tp1] + left[Tp2] - 1
  BY <1>3, <1>5, <1>7
<1>10. lc'.open /\ ensure'.at # "idle" /\ pos' > 0 => pos' + done'[Tp1] + done'[Tp2] = ensure'.size
  <2>1. ensure.at # "idle" => pos + done[Tp1] + done[Tp2] = ensure.size
    BY <1>1, <1>2 DEF Fits
  <2>2. done'[Tp1] \in Nat /\ done'[Tp2] \in Nat
    BY <1>5, <1>6
  <2>3. ensure' = ensure /\ pos' = pos - 1
    BY <1>1
  <2> QED
    BY <1>2, <1>5, <1>8, <2>1, <2>2, <2>3
<1>11. pos' > 0 => left'[Tp1] + left'[Tp2] <= pos'
  <2>1. left[Tp1] + left[Tp2] <= pos /\ pos' = pos - 1
    BY <1>1 DEF Fits
  <2> QED
    BY <1>2, <1>5, <1>9, <2>1
<1> QED
  BY <1>1, <1>2, <1>4, <1>10, <1>11 DEF Fits

LEMMA FitsStart ==
  ASSUME TypeInv, Lives, Once, Orderly, Fits, RestSync
  PROVE  Fits'
<1>1. /\ ensure.at = "idle" /\ ensure' = Start(pos)
      /\ UNCHANGED <<pos, left, done, life, lc>> /\ pos \in Nat
  BY RestingType, Parts DEF RestSync
<1>2. Tp1' = Tp1 /\ Tp2' = Tp2
  BY <1>1 DEF Tp1, Tp2, Own
<1>3. ASSUME lc.open, ensure'.at # "idle"
      PROVE  pos + done[Tp1] + done[Tp2] = ensure'.size
  <2>1. ensure'.size = pos /\ lc.placed = {} /\ life > 0
    BY <1>1, <1>3, StartType, Parts DEF Begun
  <2>2. Total("tp1") = 0 /\ Total("tp2") = 0
    BY <1>1, <1>3, <2>1 DEF Once, OncePlaced, Pending, Label, Orderly, Serial, Only
  <2>3. done[Tp1] = 0 /\ done[Tp2] = 0
    BY <2>1, <2>2, TpOrders DEF Total
  <2> QED
    BY <1>1, <2>1, <2>3
<1> QED
  BY <1>1, <1>2, <1>3 DEF Fits

LEMMA FitsPlaced ==
  ASSUME TypeInv, Lives, Once, Orderly, Fits, Placed
  PROVE  Fits'
<1> DEFINE k == ensure.label
           plan == Plan(ensure.size)
<1>1. /\ ensure.at = "place" /\ ensure'.size = ensure.size /\ k \in Label /\ pos > 0 /\ pos \in Nat
      /\ UNCHANGED <<pos, done, life, lc>> /\ lc.open /\ life > 0 /\ ensure.size \in Nat
  BY AcceptType, Parts DEF Placed, Placements, Fits
<1>2. Tp1' = Tp1 /\ Tp2' = Tp2 /\ Serial
  BY <1>1 DEF Tp1, Tp2, Own, Orderly, Serial, Only
<1>3. /\ k \notin lc.placed
      /\ k = "tp1" => lc.placed = {}
      /\ k = "tp2" /\ "tp1" \in lc.placed => lc.planned["tp1"] = plan["tp1"]
      /\ \A l \in Label : /\ l \in lc.placed => Total(l) <= lc.planned[l]
                          /\ l \notin lc.placed => Total(l) = 0
  BY <1>1, <1>2 DEF Once, OnceInTurn, OncePlaced, Pending
<1>4. /\ pos + done[Tp1] + done[Tp2] = ensure.size
      /\ plan["tp1"] \in Nat /\ plan["tp2"] \in Nat /\ plan["tp1"] + plan["tp2"] <= ensure.size
      /\ left[Tp1] \in Nat /\ left[Tp2] \in Nat /\ done[Tp1] \in Nat /\ done[Tp2] \in Nat
      /\ Total("tp1") = left[Tp1] + done[Tp1] /\ Total("tp2") = left[Tp2] + done[Tp2]
  BY <1>1, TpOrders, PlanType DEF Fits, Total, Label
<1>5. /\ left'[Tp1] = IF k = "tp1" THEN left[Tp1] + plan["tp1"] ELSE left[Tp1]
      /\ left'[Tp2] = IF k = "tp2" THEN left[Tp2] + plan["tp2"] ELSE left[Tp2]
  BY <1>1, TpOrders, TotalPlaced DEF Placed, Label
<1> HIDE DEF plan, k
<1>6. left'[Tp1] + left'[Tp2] <= pos
  <2>1. CASE k = "tp1"
    <3>1. Total("tp1") = 0 /\ Total("tp2") = 0
      BY <1>3, <2>1 DEF Label
    <3>2. /\ left[Tp1] = 0 /\ done[Tp1] = 0 /\ left[Tp2] = 0 /\ done[Tp2] = 0
      BY <1>4, <3>1
    <3>3. left'[Tp1] = plan["tp1"] /\ left'[Tp2] = 0
      BY <1>4, <1>5, <2>1, <3>2
    <3>4. plan["tp1"] <= pos
      BY <1>1, <1>4, <3>2
    <3> QED
      BY <1>4, <3>3, <3>4
  <2>2. CASE k = "tp2"
    <3>1. Total("tp2") = 0 /\ Total("tp1") <= plan["tp1"]
      BY <1>3, <1>4, <2>2 DEF Label
    <3> QED
      BY <1>1, <1>4, <1>5, <2>2, <3>1
  <2> QED
    BY <1>1, <2>1, <2>2 DEF Label
<1> QED
  BY <1>1, <1>2, <1>4, <1>6 DEF Fits

LEMMA LadderStep == TypeInv /\ Tracks /\ Lives /\ Once /\ Ladder /\ [Next]_vars => Ladder'
<1> SUFFICES ASSUME TypeInv, Tracks, Lives, Once, Ladder, [Next]_vars, Orderly
             PROVE  Fits'
  BY DEF Ladder, Orderly, Only, Faults, Next, vars, Enter, StopHit, Exit, RestSync, Placed, Reply,
     Refused, ReplyLost, Fill, OnOrder, OnExecution, MoveToBreakeven, Crash, Boot
<1>f. Fits /\ pos \in Nat
  BY Parts DEF Ladder
<1>n. ~Crash /\ ~Boot /\ ~ReplyLost
  BY DEF Crash, Boot, ReplyLost, Lives, Orderly, Only
<1>1. CASE \E size \in scenario.sizes : Enter(size)
  BY <1>1, FitsEnter
<1>2. CASE StopHit \/ Exit
  <2>1. pos' = 0
    <3>1. CASE Exit
      <4>1. tracked >= pos + Len(execs)
        BY <3>1 DEF Exit, Tracks, Exact, Orderly, Only
      <4> QED
        BY <3>1, <4>1, Parts DEF Exit
    <3> QED
      BY <1>2, <3>1 DEF StopHit
  <2> QED
    BY <2>1 DEF Fits
<1>3. CASE RestSync
  BY <1>f, <1>3, FitsStart
<1>4. CASE Placed
  BY <1>f, <1>4, FitsPlaced
<1>5. CASE Reply \/ Refused
  <2>1. /\ UNCHANGED <<pos, left, done, life>> /\ lc'.open = lc.open /\ ensure.at # "idle"
        /\ ensure'.at # "idle" => ensure'.size = ensure.size
    BY <1>5, OpenStays, Parts, AfterPlacingType DEF Reply, Refused
  <2>2. Tp1' = Tp1 /\ Tp2' = Tp2
    BY <2>1 DEF Tp1, Tp2, Own
  <2> QED
    BY <1>f, <2>1, <2>2 DEF Fits
<1>6. CASE \E o \in Order : Fill(o)
  BY <1>f, <1>6, FitsFill
<1>7. CASE (\E o \in Order : OnOrder(o)) \/ OnExecution \/ MoveToBreakeven \/ UNCHANGED vars
  <2>1. /\ UNCHANGED <<pos, left, done, life, ensure>> /\ lc'.open = lc.open
    BY <1>7, OpenStays DEF OnOrder, OnExecution, MoveToBreakeven, vars
  <2>2. Tp1' = Tp1 /\ Tp2' = Tp2
    BY <2>1 DEF Tp1, Tp2, Own
  <2> QED
    BY <1>f, <2>1, <2>2 DEF Fits
<1> QED
  BY <1>n, <1>1, <1>2, <1>3, <1>4, <1>5, <1>6, <1>7 DEF Next

LEMMA LeftOver ==
  ASSUME TypeInv, Lives, Orderly, Fits
  PROVE  SumFunction(left) <= pos
<1>1. /\ left \in [Order -> Nat] /\ DOMAIN left = Order /\ pos \in Nat /\ IsFiniteSet(Order)
  <2>1. IsFiniteSet(Label) /\ IsFiniteSet(1 .. MaxLives)
    <3>1. Label = {"tp1"} \cup {"tp2"} /\ IsFiniteSet({"tp1"}) /\ IsFiniteSet({"tp2"})
      BY FS_Singleton DEF Label
    <3>2. IsFiniteSet(Label)
      BY <3>1, FS_Union
    <3>3. IsFiniteSet(1 .. MaxLives)
      BY FS_Interval, Constants
    <3> QED
      BY <3>2, <3>3
  <2> QED
    BY <2>1, Parts, FS_Product DEF Order
<1>2. SumFunction(left) = SumFunctionOnSet(left, Order)
  BY <1>1 DEF SumFunction
<1>3. CASE pos = 0
  <2>1. \A o \in Order : left[o] = 0
    BY <1>3, NothingRests DEF Lives, Orderly, Only
  <2> QED
    BY <1>1, <1>2, <1>3, <2>1, SumNothing
<1>4. CASE pos > 0
  <2>1. life > 0
    BY <1>4, Parts DEF Fits, Begun
  <2>2. /\ Tp1 \in Order /\ Tp2 \in Order /\ Tp1 # Tp2 /\ left[Tp1] + left[Tp2] <= pos
        /\ \A o \in Order : left[o] \in Nat
    BY <1>1, <1>4, <2>1, TpOrders DEF Fits
  <2>3. \A o \in Order \ {Tp1, Tp2} : left[o] = 0
    <3>1. \A o \in Order : left[o] > 0 => o[2] = life
      BY DEF Lives, Orderly, Only
    <3> QED
      BY <2>1, <2>2, <3>1, TpOrders
  <2>4. SumFunctionOnSet(left, Order) = left[Tp1] + left[Tp2]
    BY <1>1, <2>2, <2>3, SumOfTwo
  <2> QED
    BY <1>2, <2>2, <2>4
<1> QED
  BY <1>1, <1>3, <1>4

(* The orders that rest to reduce the position never exceed it, for every  *)
(* size, minimum and percentages, and although orders are refused and      *)
(* executions overtake replies and updates.                                *)
THEOREM LadderAlwaysFits == Spec => []LadderFits
<1>1. Init => Ladder
  <2> SUFFICES ASSUME Init PROVE Fits
    BY DEF Ladder
  <2>1. pos = 0 /\ ~lc.open
    BY NoLifeType DEF Init
  <2> QED
    BY <2>1 DEF Fits
<1>2. Init => Tracks
  BY NoLifeType DEF Init, Tracks
<1>3. TypeInv /\ Lives /\ Ladder => LadderFits
  BY LeftOver DEF Ladder, LadderFits, Orderly
<1> QED
  BY <1>1, <1>2, <1>3, LadderStep, TracksStep, PlacedOnce, Lived, Typed, PTL DEF Spec
===============================================================================
