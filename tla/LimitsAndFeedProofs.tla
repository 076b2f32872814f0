------------------------ MODULE LimitsAndFeedProofs ------------------------
(***************************************************************************)
(* Theorems about two parts of the bot that share no state: RiskGate, for  *)
(* any symbols and limits, with stage 5 and without, and MarketFeed, for   *)
(* any universes, sizes of the shards and numbers of late openings.        *)
(***************************************************************************)
EXTENDS RiskGate, MarketFeed, FiniteSetTheorems, SequenceTheorems, TLAPS

Cycles == [at : {"idle", "entering"}, todo : SUBSET (Symbol \X Side),
           longs : 0..Cardinality(Symbol), shorts : 0..Cardinality(Symbol),
           fresh : BOOLEAN]

LEMMA Constants ==
  /\ IsFiniteSet(Symbol) /\ Cardinality(Symbol) \in Nat
  /\ MaxPositions \in Nat /\ MaxPositions > 0 /\ MaxPerSide \in Nat /\ MaxPerSide > 0
  /\ ErrorThreshold \in Nat /\ ErrorThreshold > 0
  /\ MaxTradesPerHour \in Nat /\ MaxTradesPerHour > 0
  /\ LossLimit \in Nat /\ LossLimit > 0 /\ Hour \in Nat /\ Hour > 0
  /\ Stage5 \in BOOLEAN
BY GateAssumption, FS_CardinalityType

(* What a set of symbols counts, with one symbol more, and one less.       *)
LEMMA Counts ==
  ASSUME NEW S \in SUBSET Symbol
  PROVE  /\ IsFiniteSet(S) /\ Cardinality(S) \in 0..Cardinality(Symbol)
         /\ \A T \in SUBSET S : Cardinality(T) <= Cardinality(S)
         /\ \A T \in SUBSET Symbol, s \in Symbol :
              T \subseteq S \cup {s} => Cardinality(T) <= Cardinality(S) + 1
<1>1. IsFiniteSet(S) /\ Cardinality(S) <= Cardinality(Symbol) /\ Cardinality(S) \in Nat
  BY Constants, FS_Subset, FS_CardinalityType
<1>2. ASSUME NEW T \in SUBSET S PROVE Cardinality(T) <= Cardinality(S)
  BY <1>1, FS_Subset
<1>3. ASSUME NEW T \in SUBSET Symbol, NEW s \in Symbol, T \subseteq S \cup {s}
      PROVE  Cardinality(T) <= Cardinality(S) + 1
  <2>1. IsFiniteSet(S \cup {s}) /\ Cardinality(S \cup {s}) <= Cardinality(S) + 1
    BY <1>1, FS_AddElement
  <2>2. Cardinality(S \cup {s}) \in Nat /\ Cardinality(T) \in Nat
    BY <2>1, FS_CardinalityType, Constants, FS_Subset
  <2>3. Cardinality(T) <= Cardinality(S \cup {s})
    BY <2>1, <1>3, FS_Subset
  <2> QED
    BY <1>1, <2>1, <2>2, <2>3
<1> QED
  BY <1>1, <1>2, <1>3

LEMMA HeldCounts ==
  ASSUME NEW d
  PROVE  Held(d) \in SUBSET Symbol /\ Cardinality(Held(d)) \in 0..Cardinality(Symbol)
BY Counts DEF Held

(* Some entries of a sequence are no more than all of them.                *)
LEMMA SomeEntries ==
  ASSUME NEW S, NEW s \in Seq(S), NEW I \in SUBSET DOMAIN s
  PROVE  Cardinality(I) \in Nat /\ Cardinality(I) <= Len(s)
<1>1. DOMAIN s = 1 .. Len(s) /\ Len(s) \in Nat
  OBVIOUS
<1>2. \A n \in Nat : IsFiniteSet(1 .. n) /\ Cardinality(1 .. n) = n
  <2> TAKE n \in Nat
  <2>1. IsFiniteSet(1 .. n) /\ Cardinality(1 .. n) = IF 1 > n THEN 0 ELSE n - 1 + 1
    BY FS_Interval
  <2> QED
    BY <2>1
<1>3. IsFiniteSet(1 .. Len(s)) /\ Cardinality(1 .. Len(s)) = Len(s)
  BY <1>1, <1>2
<1>4. IsFiniteSet(I) /\ Cardinality(I) <= Cardinality(1 .. Len(s))
  BY <1>1, <1>3, FS_Subset
<1> QED
  BY <1>3, <1>4, FS_CardinalityType

(* An entry is recorded at the end of the window, which grows by one at    *)
(* most.                                                                   *)
LEMMA RecordTradeType ==
  ASSUME window \in Seq(Age), RecordTrade
  PROVE  window' \in Seq(Age) /\ Len(window') <= Len(window) + 1
<1> DEFINE longer == Append(window, 0)
           old == Cardinality({i \in DOMAIN longer : longer[i] = Hour})
<1>1. longer \in Seq(Age) /\ Len(longer) = Len(window) + 1
  BY Constants, AppendProperties DEF Age
<1>2. old \in Nat
  BY <1>1, SomeEntries
<1>3. window' = SubSeq(longer, old + 1, Len(longer))
  BY DEF RecordTrade
<1> HIDE DEF longer, old
<1>4. \A i \in old + 1 .. Len(longer) : longer[i] \in Age
  <2>1. \A i \in 1 .. Len(longer) : longer[i] \in Age
    BY <1>1, ElementOfSeq
  <2> QED
    BY <1>1, <1>2, <2>1
<1>5. /\ SubSeq(longer, old + 1, Len(longer)) \in Seq(Age)
      /\ Len(SubSeq(longer, old + 1, Len(longer)))
           = IF old + 1 <= Len(longer) THEN Len(longer) - (old + 1) + 1 ELSE 0
  <2>1. old + 1 \in Int /\ Len(longer) \in Int
    BY <1>1, <1>2
  <2> QED
    BY <1>4, <2>1, SubSeqProperties
<1> QED
  BY <1>1, <1>2, <1>3, <1>5

LEMMA TickWindow ==
  ASSUME window \in Seq(Age), window' = [i \in DOMAIN window |-> Older(window[i])]
  PROVE  window' \in Seq(Age) /\ Len(window') = Len(window)
<1>1. Len(window) \in Nat /\ DOMAIN window = 1 .. Len(window)
  OBVIOUS
<1>2. \A i \in 1 .. Len(window) : Older(window[i]) \in Age
  <2>1. \A i \in 1 .. Len(window) : window[i] \in Age
    BY ElementOfSeq
  <2> QED
    BY <2>1, Constants DEF Older, Age
<1> QED
  BY <1>1, <1>2, IsASeq

LEMMA NoCycleType == NoCycle \in Cycles
BY Constants DEF NoCycle, Cycles

LEMMA TypeStep == TypeOK /\ [Next]_vars => TypeOK'
<1> SUFFICES ASSUME TypeOK, [Next]_vars PROVE TypeOK'
  OBVIOUS
<1> USE Constants DEF TypeOK, Side
<1>0. CASE UNCHANGED vars
  BY <1>0 DEF vars
<1>1. CASE KillSwitch
  BY <1>1 DEF KillSwitch
<1>2. CASE \E x \in Signals : CycleStart(x)
  <2>1. PICK x \in Signals : CycleStart(x)
    BY <1>2
  <2>2. cycle' \in Cycles
    <3>1. PICK longs, shorts, fresh, todo :
            /\ longs = Cardinality(Held("Buy")) /\ shorts = Cardinality(Held("Sell"))
            /\ fresh \in BOOLEAN /\ todo \subseteq x
            /\ cycle' = [at |-> "entering", longs |-> longs, shorts |-> shorts,
                         fresh |-> fresh, todo |-> todo]
      BY <2>1 DEF CycleStart
    <3>2. x \subseteq Symbol \X Side
      BY DEF Signals
    <3> QED
      BY <3>1, <3>2, HeldCounts DEF Cycles
  <2> QED
    BY <2>1, <2>2 DEF CycleStart, Cycles
<1>3. CASE \E x \in Symbol \X Side : Enter(x)
  <2>1. PICK x \in Symbol \X Side : Enter(x)
    BY <1>3
  <2>2. cycle' \in Cycles
    BY <2>1 DEF Enter, Done, Cycles
  <2>3. window' \in Seq(Age)
    BY <2>1, RecordTradeType DEF Enter
  <2> QED
    BY <2>1, <2>2, <2>3 DEF Enter, Cycles
<1>4. CASE \E x \in Symbol \X Side : OrderFails(x) \/ Reject(x)
  <2>1. PICK x \in Symbol \X Side : OrderFails(x) \/ Reject(x)
    BY <1>4
  <2>2. cycle' \in Cycles
    <3>1. cycle' = [cycle EXCEPT !.todo = @ \ {x}] /\ cycle \in Cycles
      BY <2>1 DEF OrderFails, Reject, Done, Cycles
    <3> QED
      BY <3>1 DEF Cycles
  <2>3. errors' \in 0..ErrorThreshold /\ errorAge' \in Age
    BY <2>1 DEF OrderFails, Reject, RecordApiError, Age
  <2> QED
    BY <2>1, <2>2, <2>3 DEF OrderFails, Reject, Cycles
<1>5. CASE CycleEnd
  BY <1>5, NoCycleType DEF CycleEnd, Cycles
<1>6. CASE \E s \in Symbol, lost \in {0, 1} : Leave(s, lost)
  BY <1>6 DEF Leave
<1>7. CASE EquityFails
  BY <1>7 DEF EquityFails, RecordApiError, Age
<1>8. CASE Tick
  <2>1. window' \in Seq(Age)
    BY <1>8, TickWindow DEF Tick
  <2>2. errorAge' \in Age
    BY <1>8 DEF Tick, Older, Age
  <2> QED
    BY <1>8, <2>1, <2>2 DEF Tick
<1> QED
  BY <1>0, <1>1, <1>2, <1>3, <1>4, <1>5, <1>6, <1>7, <1>8 DEF Next, Entering

(* Types are preserved by every step, for all values of the constants.     *)
THEOREM TypeCorrect == Spec => []TypeOK
<1>1. Init => TypeOK
  <2> SUFFICES ASSUME Init PROVE TypeOK
    OBVIOUS
  <2>1. side \in [Symbol -> Side \cup {"none"}] /\ window \in Seq(Age) /\ late \subseteq Symbol
    BY DEF Init
  <2>2. errors \in 0..ErrorThreshold /\ errorAge \in Age /\ loss \in 0..LossLimit
    BY Constants DEF Init, Age
  <2>3. cycle \in Cycles
    BY NoCycleType DEF Init
  <2> QED
    BY <2>1, <2>2, <2>3 DEF Init, TypeOK, Cycles
<1> QED
  BY <1>1, TypeStep, PTL DEF Spec

----------------------------------------------------------------------------
(* An order passes while there is room in all and, if it is checked with   *)
(* fresh counts, on its side.                                              *)
LEMMA EnterStep ==
  ASSUME TypeOK, SideLimit, NEW x \in Symbol \X Side, Enter(x)
  PROVE  SideLimit'
<1>1. x[1] \in Symbol /\ x[2] \in Side
  BY DEF Side
<1>2. /\ Count < MaxPositions
      /\ cycle.fresh => Cardinality(Held("Buy")) < MaxPerSide /\ Cardinality(Held("Sell")) < MaxPerSide
  BY DEF Enter, Passes, CanOpen
<1>3. side' = [side EXCEPT ![x[1]] = x[2]]
  BY DEF Enter
<1>4. ASSUME NEW d \in Side
      PROVE  /\ Held(d)' \in SUBSET Symbol
             /\ d = x[2] => Held(d)' \subseteq Held(d) \cup {x[1]}
             /\ d # x[2] => Held(d)' \subseteq Held(d)
  BY <1>1, <1>3 DEF Held, TypeOK
<1>5. ASSUME NEW d \in Side
      PROVE  /\ d = x[2] => Cardinality(Held(d)') <= Cardinality(Held(d)) + 1
             /\ d # x[2] => Cardinality(Held(d)') <= Cardinality(Held(d))
             /\ Cardinality(Held(d)') \in Nat /\ Cardinality(Held(d)) \in Nat
  BY <1>1, <1>4, Counts, HeldCounts
<1>6. Count' <= MaxPositions
  BY <1>1, <1>2, <1>5, Constants DEF Count, Side
<1>7. ASSUME NEW d \in Side
      PROVE  Cardinality(Held(d)' \ late') <= MaxPerSide
  <2>1. Cardinality(Held(d)' \ late') \in Nat /\ Cardinality(Held(d) \ late) \in Nat
    BY <1>4, Counts, HeldCounts
  <2>2. Cardinality(Held(d)' \ late') <= Cardinality(Held(d)')
    BY <1>4, Counts
  <2>3. CASE cycle.fresh
    BY <1>2, <1>5, <2>1, <2>2, <2>3, Constants DEF Side
  <2>4. CASE ~cycle.fresh
    <3>1. late' = late \cup {x[1]}
      BY <2>4 DEF Enter
    <3>2. Held(d)' \ late' \subseteq Held(d) \ late
      BY <1>4, <3>1
    <3>3. Cardinality(Held(d)' \ late') <= Cardinality(Held(d) \ late)
      BY <3>2, HeldCounts, Counts
    <3> QED
      BY <3>3, <2>1, Constants DEF SideLimit
  <2> QED
    BY <2>3, <2>4
<1> QED
  BY <1>6, <1>7 DEF SideLimit

(* A position that leaves makes room; nothing else changes the book.       *)
LEMMA LeaveStep ==
  ASSUME TypeOK, SideLimit, NEW s \in Symbol, NEW lost \in {0, 1}, Leave(s, lost)
  PROVE  SideLimit'
<1>1. side' = [side EXCEPT ![s] = "none"] /\ late' = late \ {s}
  BY DEF Leave
<1>2. ASSUME NEW d \in Side
      PROVE  Held(d)' \subseteq Held(d) /\ Held(d)' \ late' \subseteq Held(d) \ late
  BY <1>1 DEF Held, TypeOK, Side
<1>3. ASSUME NEW d \in Side
      PROVE  /\ Cardinality(Held(d)') <= Cardinality(Held(d))
             /\ Cardinality(Held(d)' \ late') <= Cardinality(Held(d) \ late)
             /\ {Cardinality(Held(d)'), Cardinality(Held(d)),
                 Cardinality(Held(d)' \ late'), Cardinality(Held(d) \ late)} \subseteq Nat
  BY <1>2, HeldCounts, Counts
<1> QED
  BY <1>3, Constants DEF SideLimit, Count, Side

(* The limits hold at every order, for any number of symbols, orders in a  *)
(* cycle and positions that leave meanwhile.                               *)
THEOREM SidesLimited == Spec => []SideLimit
<1>1. Init => SideLimit
  <2> SUFFICES ASSUME Init PROVE SideLimit
    OBVIOUS
  <2>1. ASSUME NEW d \in Side PROVE Held(d) = {} /\ Held(d) \ late = {}
    BY DEF Init, Held, Side
  <2>2. Cardinality({}) = 0
    BY FS_EmptySet
  <2>3. Count = 0
    BY <2>1, <2>2 DEF Count, Side
  <2> QED
    BY <2>1, <2>2, <2>3, Constants DEF SideLimit
<1>2. TypeOK /\ SideLimit /\ [Next]_vars => SideLimit'
  <2> SUFFICES ASSUME TypeOK, SideLimit, [Next]_vars PROVE SideLimit'
    OBVIOUS
  <2>1. CASE UNCHANGED <<side, late>>
    BY <2>1 DEF SideLimit, Count, Held
  <2>2. CASE \E x \in Symbol \X Side : Enter(x)
    BY <2>2, EnterStep
  <2>3. CASE \E s \in Symbol, lost \in {0, 1} : Leave(s, lost)
    BY <2>3, LeaveStep
  <2> QED
    BY <2>1, <2>2, <2>3 DEF Next, vars, Entering, KillSwitch, CycleStart, OrderFails,
       Reject, CycleEnd, EquityFails, Tick
<1> QED
  BY <1>1, <1>2, TypeCorrect, PTL DEF Spec

----------------------------------------------------------------------------
(* The window never holds more entries than the limit, those of more than  *)
(* an hour ago included: an entry is recorded only below it.               *)
WindowFits == Len(window) <= MaxTradesPerHour

LEMMA WindowStep == TypeOK /\ WindowFits /\ [Next]_vars => WindowFits'
<1> SUFFICES ASSUME TypeOK, WindowFits, [Next]_vars PROVE WindowFits'
  OBVIOUS
<1>0. window \in Seq(Age)
  BY DEF TypeOK
<1>1. CASE UNCHANGED window
  BY <1>1 DEF WindowFits
<1>2. CASE \E x \in Symbol \X Side : Enter(x)
  <2>1. PICK x \in Symbol \X Side : Enter(x)
    BY <1>2
  <2>2. Len(window) < MaxTradesPerHour
    BY <2>1 DEF Enter, Passes, CanOpen, Trades
  <2>3. window' \in Seq(Age) /\ Len(window') <= Len(window) + 1
    BY <1>0, <2>1, RecordTradeType DEF Enter
  <2> QED
    BY <1>0, <2>2, <2>3, Constants DEF WindowFits
<1>3. CASE Tick
  BY <1>0, <1>3, TickWindow DEF Tick, WindowFits
<1> QED
  BY <1>1, <1>2, <1>3 DEF Next, vars, Entering, KillSwitch, CycleStart, OrderFails,
     Reject, CycleEnd, Leave, EquityFails

(* Never more orders in an hour than configured, whatever fails, leaves or *)
(* is counted with stale positions meanwhile.                              *)
THEOREM HourLimited == Spec => []HourlyLimit
<1>1. Init => WindowFits
  BY Constants, EmptySeq DEF Init, WindowFits
<1>2. TypeOK /\ WindowFits => HourlyLimit
  <2> SUFFICES ASSUME TypeOK, WindowFits PROVE HourlyLimit
    OBVIOUS
  <2>1. window \in Seq(Age) /\ Len(window) \in Nat
    BY DEF TypeOK
  <2>2. Cardinality({i \in DOMAIN window : window[i] < Hour}) \in Nat
        /\ Cardinality({i \in DOMAIN window : window[i] < Hour}) <= Len(window)
    BY <2>1, SomeEntries
  <2> QED
    BY <2>1, <2>2, Constants DEF HourlyLimit, WindowFits
<1> QED
  BY <1>1, <1>2, WindowStep, TypeCorrect, PTL DEF Spec

----------------------------------------------------------------------------
(***************************************************************************)
(* Ranks.  The ranks of a finite set of numbers are 1 .. its size, each    *)
(* the rank of one element.                                                *)
(***************************************************************************)
LEMMA Interval ==
  ASSUME NEW m \in Nat, NEW n \in Nat
  PROVE  /\ IsFiniteSet(m .. n)
         /\ Cardinality(1 .. n) = n
         /\ m > 0 => Cardinality(m .. (m + n - 1)) = n
<1>1. IsFiniteSet(m .. n)
  BY FS_Interval
<1>2. Cardinality(1 .. n) = n
  <2>1. Cardinality(1 .. n) = IF 1 > n THEN 0 ELSE n - 1 + 1
    BY FS_Interval
  <2> QED
    BY <2>1
<1>3. Cardinality(m .. (m + n - 1)) = n
  <2>1. m + n - 1 \in Int
    OBVIOUS
  <2>2. Cardinality(m .. (m + n - 1)) = IF m > m + n - 1 THEN 0 ELSE (m + n - 1) - m + 1
    BY <2>1, FS_Interval
  <2> QED
    BY <2>2
<1> QED
  BY <1>1, <1>2, <1>3

LEMMA RankType ==
  ASSUME NEW S \in SUBSET Nat, IsFiniteSet(S), NEW s \in S
  PROVE  Rank(s, S) \in 1 .. Cardinality(S)
<1> DEFINE T == {t \in S : t <= s}
<1>1. IsFiniteSet(T) /\ Cardinality(T) <= Cardinality(S) /\ T # {}
  BY FS_Subset
<1>2. Cardinality(T) \in Nat /\ Cardinality(T) # 0 /\ Cardinality(S) \in Nat
  BY <1>1, FS_CardinalityType, FS_EmptySet
<1> QED
  BY <1>1, <1>2 DEF Rank

LEMMA RankOrder ==
  ASSUME NEW S \in SUBSET Nat, IsFiniteSet(S), NEW s \in S, NEW t \in S, s < t
  PROVE  Rank(s, S) < Rank(t, S)
<1> DEFINE A == {u \in S : u <= s}
           B == {u \in S : u <= t}
<1>1. A \subseteq B /\ t \in B /\ t \notin A
  <2>1. s \in Nat /\ t \in Nat
    OBVIOUS
  <2>2. \A u \in S : u <= s => u <= t
    BY <2>1
  <2>3. A \subseteq B
    BY <2>2
  <2>4. t <= t /\ ~(t <= s)
    BY <2>1
  <2> QED
    BY <2>3, <2>4
<1>2. IsFiniteSet(A) /\ IsFiniteSet(B)
  BY FS_Subset
<1> HIDE DEF A, B
<1>3. Cardinality(A) <= Cardinality(B) /\ Cardinality(A) # Cardinality(B)
  BY <1>1, <1>2, FS_Subset
<1>4. Cardinality(A) \in Nat /\ Cardinality(B) \in Nat
  BY <1>2, FS_CardinalityType
<1> QED
  BY <1>3, <1>4 DEF Rank, A, B

LEMMA RankUnique ==
  ASSUME NEW S \in SUBSET Nat, IsFiniteSet(S), NEW s \in S, NEW t \in S,
         Rank(s, S) = Rank(t, S)
  PROVE  s = t
<1>1. Rank(s, S) \in Nat /\ Rank(t, S) \in Nat
  BY RankType, FS_CardinalityType
<1>2. s < t \/ t < s \/ s = t
  OBVIOUS
<1> QED
  BY <1>1, <1>2, RankOrder

LEMMA RankOnto ==
  ASSUME NEW S \in SUBSET Nat, IsFiniteSet(S), NEW n \in 1 .. Cardinality(S)
  PROVE  \E s \in S : Rank(s, S) = n
<1> DEFINE f == [s \in S |-> Rank(s, S)]
           R == 1 .. Cardinality(S)
<1>1. Cardinality(S) \in Nat
  BY FS_CardinalityType
<1>2. IsFiniteSet(R) /\ Cardinality(R) = Cardinality(S)
  BY <1>1, Interval
<1>3. f \in [S -> R]
  BY RankType
<1>4. \A s, t \in S : f[s] = f[t] => s = t
  BY RankUnique
<1>5. f \in Injection(S, R)
  BY <1>3, <1>4 DEF Injection, IsInjective
<1> HIDE DEF f, R
<1>6. f \in Surjection(S, R)
  BY <1>2, <1>5, FS_Injection
<1>7. \E s \in S : f[s] = n
  BY <1>6 DEF Surjection, R
<1> QED
  BY <1>7 DEF f

(* Elements whose ranks lie between two bounds.                            *)
LEMMA RanksBetween ==
  ASSUME NEW S \in SUBSET Nat, IsFiniteSet(S), NEW m \in Nat, NEW n \in Nat,
         NEW T \in SUBSET S, \A t \in T : m < Rank(t, S) /\ Rank(t, S) <= m + n
  PROVE  IsFiniteSet(T) /\ Cardinality(T) \in Nat /\ Cardinality(T) <= n
<1> DEFINE f == [t \in T |-> Rank(t, S)]
           R == (m + 1) .. ((m + 1) + n - 1)
<1>1. IsFiniteSet(T) /\ Cardinality(T) \in Nat
  BY FS_Subset, FS_CardinalityType
<1>2. IsFiniteSet(R) /\ Cardinality(R) = n
  <2>1. m + 1 \in Nat /\ (m + 1) + n - 1 \in Nat
    OBVIOUS
  <2> QED
    BY <2>1, Interval
<1>3. ASSUME NEW t \in T PROVE Rank(t, S) \in R
  <2>1. Rank(t, S) \in Nat
    BY RankType, FS_CardinalityType
  <2> QED
    BY <2>1
<1>4. f \in [T -> R]
  BY <1>3
<1>5. \A s, t \in T : f[s] = f[t] => s = t
  BY RankUnique
<1>6. f \in Injection(T, R)
  BY <1>4, <1>5 DEF Injection, IsInjective
<1> HIDE DEF f, R
<1>7. Cardinality(T) <= Cardinality(R)
  BY <1>2, <1>6, FS_Injection
<1> QED
  BY <1>1, <1>2, <1>7

LEMMA FirstFew ==
  ASSUME NEW S \in SUBSET Nat, IsFiniteSet(S), NEW n \in Nat
  PROVE  /\ First(n, S) \in SUBSET S /\ IsFiniteSet(First(n, S))
         /\ Cardinality(First(n, S)) \in Nat /\ Cardinality(First(n, S)) <= n
<1>1. \A t \in First(n, S) : 0 < Rank(t, S) /\ Rank(t, S) <= 0 + n
  <2> TAKE t \in First(n, S)
  <2>1. t \in S /\ Rank(t, S) <= n
    BY DEF First
  <2>2. Rank(t, S) \in Nat \ {0}
    BY <2>1, RankType, FS_CardinalityType
  <2> QED
    BY <2>1, <2>2
<1>2. First(n, S) \in SUBSET S
  BY DEF First
<1> QED
  BY <1>1, <1>2, RanksBetween

(***************************************************************************)
(* Chunks.  They split a set up into parts of at most PerShard.            *)
(***************************************************************************)
LEMMA Feeding ==
  /\ MaxSymbol \in Nat \ {0} /\ StreamCap \in Nat \ {0} /\ PerShard \in Nat \ {0}
  /\ StaleAfter \in Nat \ {0} /\ Backoff \in Nat \ {0} /\ MaxOutlasts \in Nat
  /\ Instrument \in SUBSET Nat /\ IsFiniteSet(Instrument) /\ Slot \in SUBSET Nat /\ IsFiniteSet(Slot)
  /\ \A S \in SUBSET Instrument : /\ S \in SUBSET Nat /\ IsFiniteSet(S)
                              /\ Cardinality(S) \in Nat
  /\ 0 \notin Slot
<1>1. /\ MaxSymbol \in Nat \ {0} /\ StreamCap \in Nat \ {0} /\ PerShard \in Nat \ {0}
      /\ StaleAfter \in Nat \ {0} /\ Backoff \in Nat \ {0} /\ MaxOutlasts \in Nat
  BY FeedAssumption
<1>2. Instrument \in SUBSET Nat /\ IsFiniteSet(Instrument)
  BY <1>1, Interval DEF Instrument
<1>3. Slot \in SUBSET Nat /\ IsFiniteSet(Slot) /\ 0 \notin Slot
  BY <1>1, Interval DEF Slot
<1>4. \A S \in SUBSET Instrument : S \in SUBSET Nat /\ IsFiniteSet(S) /\ Cardinality(S) \in Nat
  BY <1>2, FS_Subset, FS_CardinalityType
<1> QED
  BY <1>1, <1>2, <1>3, <1>4

LEMMA RoundUp ==
  ASSUME NEW n \in Nat, NEW p \in Nat \ {0}
  PROVE  LET c == (n + p - 1) \div p IN
         c \in Nat /\ n <= c * p /\ c * p <= n + p - 1 /\ c <= n
<1> DEFINE c == (n + p - 1) \div p
<1>1. c \in Nat /\ c * p <= n + p - 1 /\ n + p - 1 < c * p + p
  OBVIOUS
<1>2. c <= n
  <2> SUFFICES ASSUME c >= n + 1 PROVE FALSE
    BY <1>1
  <2> HIDE DEF c
  <2>1. c * p >= (n + 1) * p
    BY <1>1
  <2>2. (n + 1) * p = n * p + p /\ n * p >= n
    OBVIOUS
  <2> QED
    BY <1>1, <2>1, <2>2
<1> HIDE DEF c
<1>3. c * p \in Nat
  BY <1>1
<1>4. n <= c * p
  BY <1>1, <1>3
<1> QED
  BY <1>1, <1>2, <1>4 DEF c

(* The chunk of a rank is the one it is rounded up to.                     *)
LEMMA OneChunk ==
  ASSUME NEW r \in Nat, NEW p \in Nat \ {0}, NEW i \in Nat, NEW j \in Nat,
         (i - 1) * p < r, r <= i * p, (j - 1) * p < r, r <= j * p
  PROVE  i = j
<1>1. ASSUME NEW a \in Nat, NEW b \in Nat, (b - 1) * p < r, r <= a * p, a < b PROVE FALSE
  <2>1. a <= b - 1 /\ b - 1 \in Nat
    BY <1>1
  <2>2. a * p <= (b - 1) * p
    BY <2>1
  <2>3. a * p \in Nat /\ (b - 1) * p \in Nat
    BY <2>1
  <2> QED
    BY <1>1, <2>2, <2>3
<1> QED
  BY <1>1

LEMMA ChunksSplit ==
  ASSUME NEW S \in SUBSET Instrument
  PROVE  /\ Chunks(S) \in Nat /\ Chunks(S) <= Cardinality(S)
         /\ UNION {Chunk(S, i) : i \in 1 .. Chunks(S)} = S
         /\ \A i, j \in 1 .. Chunks(S) : i # j => Chunk(S, i) \cap Chunk(S, j) = {}
         /\ \A i \in 1 .. Chunks(S) : Cardinality(Chunk(S, i)) \in 1 .. PerShard
<1> DEFINE n == Cardinality(S)
           c == Chunks(S)
<1>1. /\ S \in SUBSET Nat /\ IsFiniteSet(S) /\ n \in Nat /\ PerShard \in Nat \ {0}
  BY Feeding
<1>2. c \in Nat /\ n <= c * PerShard /\ c * PerShard <= n + PerShard - 1 /\ c <= n
  BY <1>1, RoundUp DEF Chunks
<1>3. \A s \in S : Rank(s, S) \in 1 .. n
  BY <1>1, RankType
<1> HIDE DEF n, c
<1>4. ASSUME NEW s \in S PROVE \E i \in 1 .. c : s \in Chunk(S, i)
  <2> DEFINE r == Rank(s, S)
             i == (r + PerShard - 1) \div PerShard
  <2>1. r \in Nat \ {0} /\ r <= n
    BY <1>1, <1>3
  <2>2. /\ i \in Nat /\ r <= i * PerShard /\ i * PerShard <= r + PerShard - 1
    BY <1>1, <2>1, RoundUp
  <2> HIDE DEF r, i
  <2>3. i # 0
    BY <1>1, <2>1, <2>2
  <2>4. (i - 1) * PerShard = i * PerShard - PerShard /\ i * PerShard \in Nat
    BY <1>1, <2>2
  <2>5. (i - 1) * PerShard < r
    BY <1>1, <2>1, <2>2, <2>4
  <2>6. i <= c
    <3> SUFFICES ASSUME i >= c + 1 PROVE FALSE
      BY <1>2, <2>2
    <3>1. i - 1 >= c /\ i - 1 \in Nat
      BY <1>2, <2>2
    <3>2. (i - 1) * PerShard >= c * PerShard
      BY <1>1, <1>2, <3>1
    <3>3. c * PerShard \in Nat
      BY <1>1, <1>2
    <3> QED
      BY <1>1, <1>2, <2>1, <2>4, <2>5, <3>2, <3>3
  <2> QED
    BY <1>2, <2>2, <2>3, <2>5, <2>6 DEF Chunk, r
<1>5. UNION {Chunk(S, i) : i \in 1 .. c} = S
  BY <1>4 DEF Chunk
<1>6. ASSUME NEW i \in 1 .. c, NEW j \in 1 .. c, i # j
      PROVE  Chunk(S, i) \cap Chunk(S, j) = {}
  <2> SUFFICES ASSUME NEW s \in S, s \in Chunk(S, i), s \in Chunk(S, j) PROVE FALSE
    BY DEF Chunk
  <2>1. Rank(s, S) \in Nat /\ i \in Nat /\ j \in Nat
    BY <1>1, <1>2, <1>3
  <2> QED
    BY <1>1, <1>6, <2>1, OneChunk DEF Chunk
<1>7. ASSUME NEW i \in 1 .. c PROVE Cardinality(Chunk(S, i)) \in 1 .. PerShard
  <2> DEFINE m == (i - 1) * PerShard
             C == Chunk(S, i)
  <2>1. i \in Nat \ {0} /\ i <= c
    BY <1>2
  <2>2. m \in Nat /\ i * PerShard = m + PerShard /\ m + 1 \in Nat
    BY <1>1, <2>1
  <2>3. m + PerShard <= n + PerShard - 1
    <3>1. i * PerShard <= c * PerShard /\ i * PerShard \in Nat /\ c * PerShard \in Nat
      BY <1>1, <1>2, <2>1
    <3> QED
      BY <1>1, <1>2, <2>2, <3>1
  <2>4. m + 1 \in 1 .. n
    BY <1>1, <2>2, <2>3
  <2>5. PICK s \in S : Rank(s, S) = m + 1
    BY <1>1, <2>4, RankOnto DEF n
  <2>6. s \in C
    BY <1>1, <2>2, <2>5 DEF Chunk
  <2>7. C \in SUBSET S /\ \A t \in C : m < Rank(t, S) /\ Rank(t, S) <= m + PerShard
    BY <2>2 DEF Chunk
  <2> HIDE DEF m, C
  <2>8. IsFiniteSet(C) /\ Cardinality(C) \in Nat /\ Cardinality(C) <= PerShard
    BY <1>1, <2>2, <2>7, RanksBetween
  <2>9. Cardinality(C) # 0
    BY <2>6, <2>8, FS_EmptySet
  <2> QED
    BY <1>1, <2>8, <2>9 DEF C
<1> QED
  BY <1>2, <1>5, <1>6, <1>7 DEF c, n

(***************************************************************************)
(* Starting connections: a slot stays as it is, or it was free and opens   *)
(* one of the shards; no shard is opened twice.                            *)
(***************************************************************************)
Feeds0 == [Slot -> [at : {"none", "opening", "live", "silent"},
                    shard : 0 .. MaxShards, syms : SUBSET Instrument]]

LEMMA StartedIs ==
  ASSUME NEW f \in Feeds0, NEW syms
  PROVE  /\ Started(f, syms) = [k \in Slot |-> Started(f, syms)[k]]
         /\ \A k \in Slot :
              \/ Started(f, syms)[k] = f[k]
              \/ /\ f[k].at = "none"
                 /\ \E i \in DOMAIN syms : Started(f, syms)[k] = Opening(i, syms[i])
         /\ \A k, l \in Slot :
              /\ Started(f, syms)[k] # f[k] /\ Started(f, syms)[l] # f[l]
              /\ Started(f, syms)[k].shard = Started(f, syms)[l].shard
              => k = l
<1> DEFINE Free == {k \in Slot : f[k].at = "none"}
           Nth(k) == {i \in DOMAIN syms :
                        Cardinality({j \in DOMAIN syms : j <= i}) = Rank(k, Free)}
           g == Started(f, syms)
<1>1. Free \in SUBSET Nat /\ IsFiniteSet(Free)
  BY Feeding, FS_Subset
<1>2. g = [k \in Slot |-> IF k \in Free /\ Nth(k) # {}
                          THEN LET i == CHOOSE i \in Nth(k) : TRUE IN Opening(i, syms[i])
                          ELSE f[k]]
  BY DEF Started
<1> HIDE DEF g
<1>3. ASSUME NEW k \in Slot, g[k] # f[k]
      PROVE  /\ k \in Free
             /\ g[k].shard \in Nth(k) /\ g[k] = Opening(g[k].shard, syms[g[k].shard])
  <2>1. k \in Free /\ Nth(k) # {}
    BY <1>2, <1>3
  <2> DEFINE i == CHOOSE i \in Nth(k) : TRUE
  <2>2. i \in Nth(k) /\ g[k] = Opening(i, syms[i])
    BY <1>2, <2>1
  <2> HIDE DEF i, Nth, Free
  <2> QED
    BY <2>1, <2>2 DEF Opening
<1>4. ASSUME NEW k \in Slot, NEW l \in Slot, g[k] # f[k], g[l] # f[l],
             g[k].shard = g[l].shard
      PROVE  k = l
  <2>1. k \in Free /\ l \in Free /\ Rank(k, Free) = Rank(l, Free)
    BY <1>3, <1>4
  <2> HIDE DEF Free
  <2> QED
    BY <1>1, <2>1, RankUnique
<1>5. \A k \in Slot : g[k] = f[k] \/ /\ f[k].at = "none"
                                     /\ \E i \in DOMAIN syms : g[k] = Opening(i, syms[i])
  BY <1>3
<1> QED
  BY <1>2, <1>4, <1>5 DEF g

(***************************************************************************)
(* The structure: shards are the chunks of the symbols; what is opened or  *)
(* open for a shard carries its symbols; a shard knows of an open          *)
(* connection of its own or of none.                                       *)
(***************************************************************************)
Matches(f, list) ==
  \A k \in Slot :
    /\ f[k].at = "none" => f[k] = NoFeed
    /\ f[k].shard # 0 => f[k].shard \in DOMAIN list /\ f[k].syms = list[f[k].shard].syms

Knows(f, list) ==
  \A i \in DOMAIN list :
    list[i].ws # 0 => /\ list[i].ws \in Slot /\ f[list[i].ws].shard = i
                      /\ f[list[i].ws].at \in {"live", "silent"}

Loops ==
  /\ pc = "sleep" => symbols = First(StreamCap, universe) /\ at = 1
  /\ pc = "restart" => at \in DOMAIN shards
  /\ Cardinality(symbols) <= StreamCap

Shard == [syms : SUBSET Instrument, ws : Slot \cup {0}, heard : BOOLEAN,
          age : MessageAge, since : 0 .. Backoff]

FeedInv ==
  /\ FeedTypeOK
  /\ \A i \in DOMAIN shards : shards[i].syms = Chunk(symbols, i)
  /\ Matches(feed, shards) /\ Knows(feed, shards)
  /\ Loops

(* Starting keeps all of that.                                             *)
LEMMA StartedKeeps ==
  ASSUME NEW f \in Feeds0, NEW list, NEW D \in SUBSET (1 .. MaxShards), D \subseteq DOMAIN list,
         NEW syms, DOMAIN syms = D,
         \A i \in D : syms[i] \in SUBSET Instrument /\ syms[i] = list[i].syms,
         Matches(f, list), Knows(f, list)
  PROVE  /\ Started(f, syms) \in Feeds0
         /\ Matches(Started(f, syms), list) /\ Knows(Started(f, syms), list)
<1> DEFINE g == Started(f, syms)
<1>1. /\ g = [k \in Slot |-> g[k]]
      /\ \A k \in Slot : g[k] = f[k] \/ /\ f[k].at = "none"
                                        /\ \E i \in D : g[k] = Opening(i, syms[i])
  BY StartedIs
<1> HIDE DEF g
<1>2. MaxShards \in Nat /\ 0 \notin D
  BY Feeding DEF MaxShards
<1>3. ASSUME NEW k \in Slot
      PROVE  /\ g[k] \in [at : {"none", "opening", "live", "silent"},
                          shard : 0 .. MaxShards, syms : SUBSET Instrument]
             /\ g[k].at = "none" => g[k] = NoFeed
             /\ g[k].shard # 0 =>
                  g[k].shard \in DOMAIN list /\ g[k].syms = list[g[k].shard].syms
  <2>1. CASE g[k] = f[k]
    BY <2>1 DEF Feeds0, Matches
  <2>2. ASSUME NEW i \in D, g[k] = Opening(i, syms[i])
        PROVE  /\ g[k] \in [at : {"none", "opening", "live", "silent"},
                            shard : 0 .. MaxShards, syms : SUBSET Instrument]
               /\ g[k].at # "none" /\ g[k].shard = i /\ g[k].syms = list[i].syms
    <3>1. i \in 0 .. MaxShards
      BY <1>2
    <3> QED
      BY <2>2, <3>1 DEF Opening
  <2> QED
    BY <1>1, <2>1, <2>2
<1>4. g \in Feeds0
  BY <1>1, <1>3 DEF Feeds0
<1>5. Matches(g, list)
  BY <1>3 DEF Matches
<1>6. Knows(g, list)
  BY <1>1 DEF Knows
<1> QED
  BY <1>4, <1>5, <1>6 DEF g

LEMMA BuiltIs ==
  ASSUME NEW S \in SUBSET Instrument, Cardinality(S) <= StreamCap
  PROVE  /\ DOMAIN Built(S) = 1 .. Chunks(S) /\ DOMAIN Lists(Built(S)) = 1 .. Chunks(S)
         /\ Chunks(S) \in Nat /\ Chunks(S) <= MaxShards
         /\ \A i \in 1 .. Chunks(S) :
              /\ Built(S)[i] \in Shard /\ Built(S)[i].syms = Chunk(S, i) /\ Built(S)[i].ws = 0
              /\ Lists(Built(S))[i] = Chunk(S, i) /\ Chunk(S, i) \in SUBSET Instrument
<1>1. Chunks(S) \in Nat /\ Chunks(S) <= Cardinality(S) /\ Cardinality(S) \in Nat
      /\ StreamCap \in Nat /\ Backoff \in Nat /\ StaleAfter \in Nat
  BY ChunksSplit, Feeding
<1>2. Chunks(S) <= MaxShards
  BY <1>1 DEF MaxShards
<1>3. \A i \in 1 .. Chunks(S) : Chunk(S, i) \in SUBSET Instrument
  BY DEF Chunk
<1>4. \A i \in 1 .. Chunks(S) : NewShard(Chunk(S, i)) \in Shard
  BY <1>1, <1>3 DEF NewShard, Shard, MessageAge
<1> QED
  BY <1>1, <1>2, <1>3, <1>4 DEF Built, Lists, NewShard

(* New shards with nothing left of the old ones.                           *)
LEMMA BuiltStarts ==
  ASSUME NEW S \in SUBSET Instrument, Cardinality(S) <= StreamCap, NEW f \in Feeds0,
         \A k \in Slot : f[k].shard = 0 /\ (f[k].at = "none" => f[k] = NoFeed)
  PROVE  /\ Started(f, Lists(Built(S))) \in Feeds0
         /\ Matches(Started(f, Lists(Built(S))), Built(S))
         /\ Knows(Started(f, Lists(Built(S))), Built(S))
<1> DEFINE D == 1 .. Chunks(S)
<1>1. /\ DOMAIN Built(S) = D /\ DOMAIN Lists(Built(S)) = D
      /\ \A i \in D : /\ Built(S)[i].syms = Chunk(S, i) /\ Built(S)[i].ws = 0
                      /\ Lists(Built(S))[i] = Chunk(S, i) /\ Chunk(S, i) \in SUBSET Instrument
      /\ Chunks(S) \in Nat /\ Chunks(S) <= MaxShards
  BY BuiltIs
<1>2. D \in SUBSET (1 .. MaxShards)
  BY <1>1, Feeding DEF MaxShards
<1>3. Matches(f, Built(S)) /\ Knows(f, Built(S))
  BY <1>1 DEF Matches, Knows
<1> HIDE DEF D
<1> QED
  BY <1>1, <1>2, <1>3, StartedKeeps

LEMMA FeedFacts ==
  ASSUME FeedInv
  PROVE  /\ universe \in Universes /\ universe \in SUBSET Instrument
         /\ symbols \in SUBSET Instrument /\ Cardinality(symbols) <= StreamCap
         /\ DOMAIN shards = 1 .. Chunks(symbols)
         /\ Chunks(symbols) \in Nat /\ Chunks(symbols) <= MaxShards /\ MaxShards \in Nat
         /\ \A i \in DOMAIN shards : shards[i] \in Shard /\ i \in 1 .. MaxShards
         /\ feed \in Feeds0
<1>1. /\ universe \in Universes /\ symbols \in SUBSET Instrument /\ feed \in Feeds0
      /\ DOMAIN shards = 1 .. Chunks(symbols)
      /\ \A i \in DOMAIN shards : shards[i] \in Shard
      /\ Cardinality(symbols) <= StreamCap
  BY DEF FeedInv, FeedTypeOK, Feeds0, Shard, Loops
<1>2. universe \in SUBSET Instrument
  BY <1>1, FeedAssumption DEF Instrument
<1>3. Chunks(symbols) \in Nat /\ Chunks(symbols) <= MaxShards
  BY <1>1, BuiltIs
<1>4. MaxShards \in Nat
  BY Feeding DEF MaxShards
<1> QED
  BY <1>1, <1>2, <1>3, <1>4

(* A shard stopped: the connection it knew of is closed.                   *)
LEMMA StoppedIs ==
  ASSUME FeedInv, NEW i \in DOMAIN shards
  PROVE  /\ Stopped(feed, i) \in Feeds0
         /\ \A k \in Slot : Stopped(feed, i)[k] = IF k = shards[i].ws THEN NoFeed ELSE feed[k]
<1>1. feed \in Feeds0 /\ shards[i].ws \in Slot \cup {0} /\ 0 \notin Slot /\ MaxShards \in Nat
  BY FeedFacts, Feeding DEF Shard
<1>2. NoFeed \in [at : {"none", "opening", "live", "silent"},
                  shard : 0 .. MaxShards, syms : SUBSET Instrument]
  BY <1>1 DEF NoFeed
<1> QED
  BY <1>1, <1>2 DEF Stopped, Feeds0

LEMMA AllStoppedIs ==
  ASSUME FeedInv
  PROVE  /\ AllStopped \in Feeds0
         /\ \A k \in Slot :
              /\ AllStopped[k].shard = 0
              /\ AllStopped[k].at = "none" => AllStopped[k] = NoFeed
              /\ AllStopped[k].syms \subseteq feed[k].syms
              /\ (\E i \in DOMAIN shards : shards[i].ws = k) => AllStopped[k].syms = {}
<1>1. feed \in Feeds0 /\ MaxShards \in Nat /\ Matches(feed, shards)
  BY FeedFacts DEF FeedInv
<1>2. ASSUME NEW k \in Slot
      PROVE  /\ AllStopped[k] \in [at : {"none", "opening", "live", "silent"},
                                   shard : 0 .. MaxShards, syms : SUBSET Instrument]
             /\ AllStopped[k].shard = 0
             /\ AllStopped[k].at = "none" => AllStopped[k] = NoFeed
             /\ AllStopped[k].syms \subseteq feed[k].syms
             /\ (\E i \in DOMAIN shards : shards[i].ws = k) => AllStopped[k].syms = {}
  <2>1. CASE \E i \in DOMAIN shards : shards[i].ws = k
    <3>1. AllStopped[k] = NoFeed
      BY <2>1 DEF AllStopped
    <3> QED
      BY <1>1, <3>1 DEF NoFeed
  <2>2. CASE ~ \E i \in DOMAIN shards : shards[i].ws = k
    <3>1. AllStopped[k] = [feed[k] EXCEPT !.shard = 0]
      BY <2>2 DEF AllStopped
    <3>2. feed[k] \in [at : {"none", "opening", "live", "silent"},
                       shard : 0 .. MaxShards, syms : SUBSET Instrument]
      BY <1>1 DEF Feeds0
    <3>3. feed[k].at = "none" => feed[k] = NoFeed
      BY <1>1 DEF Matches
    <3>4. /\ AllStopped[k].at = feed[k].at /\ AllStopped[k].shard = 0
          /\ AllStopped[k].syms = feed[k].syms
          /\ AllStopped[k] \in [at : {"none", "opening", "live", "silent"},
                                shard : 0 .. MaxShards, syms : SUBSET Instrument]
      BY <1>1, <3>1, <3>2
    <3>5. AllStopped[k].at = "none" => AllStopped[k] = NoFeed
      BY <3>1, <3>3, <3>4 DEF NoFeed
    <3> QED
      BY <2>2, <3>4, <3>5
  <2> QED
    BY <2>1, <2>2
<1>3. AllStopped \in Feeds0
  BY <1>2 DEF Feeds0, AllStopped
<1> QED
  BY <1>2, <1>3

LEMMA FeedStep == FeedInv /\ [FeedNext]_feedVars => FeedInv'
<1> SUFFICES ASSUME FeedInv, [FeedNext]_feedVars PROVE FeedInv'
  OBVIOUS
<1>0. /\ universe \in Universes /\ universe \in SUBSET Instrument
      /\ symbols \in SUBSET Instrument /\ Cardinality(symbols) <= StreamCap
      /\ DOMAIN shards = 1 .. Chunks(symbols)
      /\ Chunks(symbols) \in Nat /\ Chunks(symbols) <= MaxShards /\ MaxShards \in Nat
      /\ \A i \in DOMAIN shards : /\ shards[i] \in Shard /\ i \in 1 .. MaxShards
                                  /\ shards[i].syms = Chunk(symbols, i)
      /\ feed \in Feeds0 /\ Matches(feed, shards) /\ Knows(feed, shards)
      /\ pc \in {"monitor", "restart", "sleep"} /\ at \in 1 .. MaxShards + 1
      /\ outlasted \in 0 .. MaxOutlasts
      /\ StreamCap \in Nat \ {0} /\ Backoff \in Nat \ {0} /\ StaleAfter \in Nat \ {0}
      /\ MaxOutlasts \in Nat /\ Slot \subseteq Nat /\ 0 \notin Slot
  BY FeedFacts, Feeding DEF FeedInv, FeedTypeOK
(* A step is well typed if its parts are.                                  *)
<1>1. ASSUME symbols' \in SUBSET Instrument, universe' \in Universes,
             DOMAIN shards' = 1 .. Chunks(symbols'),
             \A i \in DOMAIN shards' : shards'[i] \in Shard /\ shards'[i].syms = Chunk(symbols', i),
             feed' \in Feeds0, Matches(feed', shards'), Knows(feed', shards'),
             pc' \in {"monitor", "restart", "sleep"}, at' \in 1 .. MaxShards + 1,
             outlasted' \in 0 .. MaxOutlasts, Loops'
      PROVE  FeedInv'
  BY <1>1 DEF FeedInv, FeedTypeOK, Matches, Knows, Shard, Feeds0
<1>2. CASE RefreshUniverse
  <2>1. Loops'
    BY <1>0, <1>2 DEF RefreshUniverse, Loops
  <2> QED
    BY <1>0, <1>1, <1>2, <2>1 DEF RefreshUniverse
<1>3. CASE PassesOver
  <2>1. at' \in 1 .. MaxShards + 1
    BY <1>0, <1>3 DEF PassesOver
  <2>2. Loops'
    BY <1>0, <1>3 DEF PassesOver, Loops
  <2> QED
    BY <1>0, <1>1, <1>3, <2>1, <2>2 DEF PassesOver
<1>4. ASSUME NEW i \in DOMAIN shards, NEW z \in Shard, z.syms = shards[i].syms,
             shards' = [shards EXCEPT ![i] = z], feed' \in Feeds0,
             Matches(feed', shards), Knows(feed', shards'),
             UNCHANGED <<universe, symbols>>, pc' \in {"monitor", "restart", "sleep"},
             at' \in 1 .. MaxShards + 1, outlasted' \in 0 .. MaxOutlasts, Loops'
      PROVE  FeedInv'
  <2>1. /\ DOMAIN shards' = DOMAIN shards
        /\ \A j \in DOMAIN shards : shards'[j] = IF j = i THEN z ELSE shards[j]
    BY <1>4
  <2>2. \A j \in DOMAIN shards' : shards'[j] \in Shard /\ shards'[j].syms = Chunk(symbols', j)
    BY <1>0, <1>4, <2>1
  <2>3. Matches(feed', shards')
    BY <1>4, <2>1 DEF Matches
  <2> QED
    BY <1>0, <1>1, <1>4, <2>1, <2>2, <2>3
<1>5. CASE ReconnectStops
  <2> DEFINE z == [shards[at] EXCEPT !.since = 0, !.ws = 0]
  <2>1. /\ at \in DOMAIN shards /\ shards' = [shards EXCEPT ![at] = z]
        /\ feed' = Stopped(feed, at) /\ pc' = "restart"
        /\ UNCHANGED <<universe, symbols, at>>
        /\ outlasted' = outlasted + Cardinality(Pending(at)) /\ outlasted' <= MaxOutlasts
    BY <1>5 DEF ReconnectStops, Outlast
  <2>2. z \in Shard /\ z.syms = shards[at].syms /\ z.ws = 0
    <3>1. shards[at] \in Shard /\ 0 \in 0 .. Backoff /\ 0 \in Slot \cup {0}
      BY <1>0, <2>1
    <3> QED
      BY <3>1 DEF Shard
  <2>3. /\ feed' \in Feeds0
        /\ \A k \in Slot : feed'[k] = IF k = shards[at].ws THEN NoFeed ELSE feed[k]
    BY <2>1, StoppedIs
  <2> HIDE DEF z
  <2>4. Matches(feed', shards)
    BY <1>0, <2>3 DEF Matches, NoFeed
  <2>5. Knows(feed', shards')
    <3> SUFFICES ASSUME NEW j \in DOMAIN shards', shards'[j].ws # 0
                 PROVE  /\ shards'[j].ws \in Slot /\ feed'[shards'[j].ws].shard = j
                        /\ feed'[shards'[j].ws].at \in {"live", "silent"}
      BY DEF Knows
    <3>1. j \in DOMAIN shards /\ j # at /\ shards'[j] = shards[j]
      BY <2>1, <2>2
    <3>2. /\ shards[j].ws \in Slot /\ feed[shards[j].ws].shard = j
          /\ feed[shards[j].ws].at \in {"live", "silent"}
      BY <1>0, <3>1 DEF Knows
    <3>3. shards[j].ws # shards[at].ws
      BY <1>0, <2>1, <3>1, <3>2 DEF Knows
    <3> QED
      BY <2>3, <3>1, <3>2, <3>3
  <2>6. outlasted' \in 0 .. MaxOutlasts
    <3>1. IsFiniteSet(Pending(at))
      BY Feeding, FS_Subset DEF Pending
    <3>2. Cardinality(Pending(at)) \in Nat
      BY <3>1, FS_CardinalityType
    <3> QED
      BY <1>0, <2>1, <3>2
  <2>7. Loops'
    BY <1>0, <2>1 DEF Loops
  <2> QED
    BY <1>0, <1>4, <2>1, <2>2, <2>3, <2>4, <2>5, <2>6, <2>7
<1>6. CASE ReconnectStarts
  <2> DEFINE syms == [i \in {at} |-> shards[i].syms]
  <2>1. /\ pc = "restart" /\ pc' = "monitor" /\ at' = at + 1 /\ feed' = Started(feed, syms)
        /\ UNCHANGED <<universe, symbols, shards, outlasted>>
    BY <1>6 DEF ReconnectStarts
  <2>2. at \in DOMAIN shards
    BY <2>1 DEF FeedInv, Loops
  <2>3. /\ DOMAIN syms = {at}
        /\ {at} \in SUBSET (1 .. MaxShards) /\ {at} \subseteq DOMAIN shards
        /\ \A i \in {at} : syms[i] \in SUBSET Instrument /\ syms[i] = shards[i].syms
    BY <1>0, <2>2 DEF Shard
  <2> HIDE DEF syms
  <2>4. feed' \in Feeds0 /\ Matches(feed', shards) /\ Knows(feed', shards)
    BY <1>0, <2>1, <2>3, StartedKeeps
  <2>5. at' \in 1 .. MaxShards + 1
    BY <1>0, <2>1, <2>2
  <2>6. Loops'
    BY <1>0, <2>1 DEF Loops
  <2> QED
    BY <1>0, <1>1, <2>1, <2>4, <2>5, <2>6
<1>7. CASE Keeps
  <2>1. at' = 1 /\ 1 \in 1 .. MaxShards + 1
    BY <1>0, <1>7 DEF Keeps
  <2>2. Loops'
    BY <1>0, <1>7 DEF Keeps, Loops
  <2> QED
    BY <1>0, <1>1, <1>7, <2>1, <2>2 DEF Keeps
<1>8. CASE Rebuilds
  <2> DEFINE S == First(StreamCap, universe)
             g == Started(AllStopped, Lists(Built(S)))
             P == UNION {Pending(i) : i \in DOMAIN shards}
  <2>1. /\ symbols' = S /\ shards' = Built(S) /\ feed' = g
        /\ pc' = "sleep" /\ at' = 1 /\ universe' = universe
        /\ outlasted' = outlasted + Cardinality(P) /\ outlasted' <= MaxOutlasts
    BY <1>8 DEF Rebuilds, Outlast
  <2>2. S \in SUBSET Instrument /\ Cardinality(S) <= StreamCap
    BY <1>0, Feeding, FirstFew
  <2>3. /\ AllStopped \in Feeds0
        /\ \A k \in Slot : AllStopped[k].shard = 0
                           /\ (AllStopped[k].at = "none" => AllStopped[k] = NoFeed)
    BY AllStoppedIs
  <2> HIDE DEF S
  <2>4. g \in Feeds0 /\ Matches(g, Built(S)) /\ Knows(g, Built(S))
    BY <2>2, <2>3, BuiltStarts
  <2>5. /\ DOMAIN Built(S) = 1 .. Chunks(S)
        /\ \A i \in DOMAIN Built(S) : Built(S)[i] \in Shard /\ Built(S)[i].syms = Chunk(S, i)
    BY <2>2, BuiltIs
  <2>6. outlasted' \in 0 .. MaxOutlasts
    <3>1. P \in SUBSET Slot
      BY DEF Pending
    <3> HIDE DEF P
    <3>2. IsFiniteSet(P)
      BY <3>1, Feeding, FS_Subset
    <3>3. Cardinality(P) \in Nat
      BY <3>2, FS_CardinalityType
    <3> QED
      BY <1>0, <2>1, <3>3
  <2>7. Loops'
    BY <2>1, <2>2 DEF Loops, S
  <2>8. 1 \in 1 .. MaxShards + 1
    BY <1>0
  <2> QED
    BY <1>0, <1>1, <2>1, <2>2, <2>4, <2>5, <2>6, <2>7, <2>8
<1>9. ASSUME NEW k \in Slot, Opened(k) PROVE FeedInv'
  <2>1. /\ feed[k].at = "opening" /\ feed' = [feed EXCEPT ![k].at = "live"]
        /\ UNCHANGED <<universe, symbols, pc, at, outlasted>>
    BY <1>9 DEF Opened
  <2>2. /\ feed' \in Feeds0
        /\ feed'[k].at = "live" /\ feed'[k].shard = feed[k].shard /\ feed'[k].syms = feed[k].syms
        /\ \A l \in Slot : l # k => feed'[l] = feed[l]
    BY <1>0, <2>1 DEF Feeds0
  <2>3. Matches(feed', shards)
    BY <1>0, <2>2 DEF Matches
  <2>4. Knows(feed', shards)
    BY <1>0, <2>1, <2>2 DEF Knows
  <2>5. Loops' \/ shards' # shards
    BY <2>1 DEF FeedInv, Loops
  <2>6. CASE feed[k].shard = 0
    <3>1. shards' = shards
      BY <1>9, <2>6 DEF Opened
    <3> QED
      BY <1>0, <1>1, <2>1, <2>2, <2>3, <2>4, <2>5, <3>1
  <2>7. CASE feed[k].shard # 0
    <3> DEFINE i == feed[k].shard
               z == [shards[i] EXCEPT !.ws = k]
    <3>1. i \in DOMAIN shards /\ shards' = [shards EXCEPT ![i] = z]
      BY <1>0, <1>9, <2>7 DEF Opened, Matches
    <3>2. z \in Shard /\ z.syms = shards[i].syms /\ z.ws = k
      BY <1>0, <3>1 DEF Shard
    <3> HIDE DEF i, z
    <3>3. /\ DOMAIN shards' = DOMAIN shards
          /\ \A j \in DOMAIN shards : shards'[j] = IF j = i THEN z ELSE shards[j]
      BY <3>1
    <3>4. Knows(feed', shards')
      BY <2>2, <2>4, <3>1, <3>2, <3>3 DEF Knows, i
    <3>5. Loops'
      BY <2>1, <3>3 DEF FeedInv, Loops
    <3> QED
      BY <1>0, <1>4, <2>1, <2>2, <2>3, <3>1, <3>2, <3>4, <3>5
  <2> QED
    BY <2>6, <2>7
<1>10. ASSUME NEW k \in Slot, OpenFails(k) PROVE FeedInv'
  <2>1. /\ feed[k].at = "opening" /\ feed' = [feed EXCEPT ![k] = NoFeed]
        /\ UNCHANGED <<universe, symbols, shards, pc, at, outlasted>>
    BY <1>10 DEF OpenFails
  <2>2. NoFeed \in [at : {"none", "opening", "live", "silent"},
                    shard : 0 .. MaxShards, syms : SUBSET Instrument]
    BY <1>0 DEF NoFeed
  <2>3. feed' \in Feeds0 /\ \A l \in Slot : feed'[l] = IF l = k THEN NoFeed ELSE feed[l]
    BY <1>0, <2>1, <2>2 DEF Feeds0
  <2>4. Matches(feed', shards) /\ Knows(feed', shards)
    BY <1>0, <2>1, <2>3 DEF Matches, Knows, NoFeed
  <2>5. Loops'
    BY <2>1 DEF FeedInv, Loops
  <2> QED
    BY <1>0, <1>1, <2>1, <2>3, <2>4, <2>5
<1>11. ASSUME NEW k \in Slot, Message(k) PROVE FeedInv'
  <2> DEFINE i == feed[k].shard
             z == [shards[i] EXCEPT !.heard = TRUE, !.age = 0]
  <2>1. /\ i # 0 /\ UNCHANGED <<universe, symbols, feed, pc, at, outlasted>>
        /\ shards' = [shards EXCEPT ![i] = z]
    BY <1>11 DEF Message
  <2>2. i \in DOMAIN shards
    BY <1>0, <2>1 DEF Matches
  <2>3. z \in Shard /\ z.syms = shards[i].syms /\ z.ws = shards[i].ws
    <3>1. shards[i] \in Shard /\ 0 \in MessageAge
      BY <1>0, <2>2 DEF MessageAge
    <3> QED
      BY <3>1 DEF Shard
  <2> HIDE DEF i, z
  <2>4. /\ DOMAIN shards' = DOMAIN shards
        /\ \A j \in DOMAIN shards : shards'[j] = IF j = i THEN z ELSE shards[j]
    BY <2>1
  <2>5. Knows(feed', shards') /\ Loops'
    BY <1>0, <2>1, <2>2, <2>3, <2>4 DEF Knows, FeedInv, Loops
  <2> QED
    BY <1>0, <1>4, <2>1, <2>2, <2>3, <2>5
<1>12. ASSUME NEW k \in Slot, GoesSilent(k) \/ Recovers(k) PROVE FeedInv'
  <2>1. PICK new \in {"live", "silent"} :
          /\ feed' = [feed EXCEPT ![k].at = new]
          /\ feed[k].shard # 0
          /\ UNCHANGED <<universe, symbols, shards, pc, at, outlasted>>
    BY <1>12 DEF GoesSilent, Recovers
  <2>2. /\ feed' \in Feeds0
        /\ feed'[k].at = new /\ feed'[k].shard = feed[k].shard /\ feed'[k].syms = feed[k].syms
        /\ \A l \in Slot : l # k => feed'[l] = feed[l]
    BY <1>0, <2>1 DEF Feeds0
  <2>3. Matches(feed', shards)
    BY <1>0, <2>1, <2>2 DEF Matches
  <2>4. Knows(feed', shards)
    BY <1>0, <2>2 DEF Knows
  <2>5. Loops'
    BY <2>1 DEF FeedInv, Loops
  <2> QED
    BY <1>0, <1>1, <2>1, <2>2, <2>3, <2>4, <2>5
<1>13. CASE FeedTick
  <2>1. /\ DOMAIN shards' = DOMAIN shards
        /\ \A i \in DOMAIN shards : shards'[i] =
             [shards[i] EXCEPT !.age = IF shards[i].heard THEN Aged(@, StaleAfter + 1) ELSE 0,
                               !.since = Aged(@, Backoff)]
        /\ UNCHANGED <<universe, symbols, feed, pc, at, outlasted>>
    BY <1>13 DEF FeedTick
  <2>2. ASSUME NEW i \in DOMAIN shards
        PROVE  shards'[i] \in Shard /\ shards'[i].syms = shards[i].syms
               /\ shards'[i].ws = shards[i].ws
    <3>1. /\ shards[i] \in Shard /\ shards[i].age \in 0 .. StaleAfter + 1
          /\ shards[i].since \in 0 .. Backoff
      BY <1>0 DEF Shard, MessageAge
    <3>2. Aged(shards[i].since, Backoff) \in 0 .. Backoff
      BY <1>0, <3>1 DEF Aged
    <3>3. (IF shards[i].heard THEN Aged(shards[i].age, StaleAfter + 1) ELSE 0) \in MessageAge
      BY <1>0, <3>1 DEF Aged, MessageAge
    <3> QED
      BY <2>1, <3>1, <3>2, <3>3 DEF Shard
  <2>3. Matches(feed', shards') /\ Knows(feed', shards') /\ Loops'
    BY <1>0, <2>1, <2>2 DEF Matches, Knows, FeedInv, Loops
  <2> QED
    BY <1>0, <1>1, <2>1, <2>2, <2>3
<1>14. CASE UNCHANGED feedVars
  BY <1>14 DEF feedVars, FeedInv, FeedTypeOK, Matches, Knows, Loops
<1> QED
  BY <1>2, <1>3, <1>5, <1>6, <1>7, <1>8, <1>9, <1>10, <1>11, <1>12, <1>13, <1>14
     DEF FeedNext, Loop, Network

LEMMA FeedStart == FeedInit => FeedInv
<1> SUFFICES ASSUME FeedInit PROVE FeedInv
  OBVIOUS
<1> DEFINE S == First(StreamCap, universe)
           f == [k \in Slot |-> NoFeed]
<1>1. /\ universe \in Universes /\ symbols = S /\ shards = Built(S)
      /\ feed = Started(f, Lists(Built(S))) /\ pc = "sleep" /\ at = 1 /\ outlasted = 0
  BY DEF FeedInit
<1>2. universe \in SUBSET Instrument
  BY <1>1, FeedAssumption DEF Instrument
<1>3. S \in SUBSET Instrument /\ Cardinality(S) <= StreamCap
  BY <1>2, Feeding, FirstFew
<1>4. MaxShards \in Nat /\ MaxOutlasts \in Nat
  BY Feeding DEF MaxShards
<1>5. f \in Feeds0 /\ \A k \in Slot : f[k].shard = 0 /\ (f[k].at = "none" => f[k] = NoFeed)
  BY <1>4 DEF Feeds0, NoFeed
<1> HIDE DEF S, f
<1>6. feed \in Feeds0 /\ Matches(feed, shards) /\ Knows(feed, shards)
  BY <1>1, <1>3, <1>5, BuiltStarts
<1>7. /\ DOMAIN shards = 1 .. Chunks(symbols)
      /\ \A i \in DOMAIN shards : shards[i] \in Shard /\ shards[i].syms = Chunk(symbols, i)
  BY <1>1, <1>3, BuiltIs
<1>8. Loops
  BY <1>1, <1>3 DEF Loops, S
<1>9. 1 \in 1 .. MaxShards + 1 /\ 0 \in 0 .. MaxOutlasts
  BY <1>4
<1> QED
  BY <1>1, <1>3, <1>6, <1>7, <1>8, <1>9 DEF FeedInv, FeedTypeOK, Feeds0, Shard

LEMMA FeedStructured == FeedSpec => []FeedInv
BY FeedStart, FeedStep, PTL DEF FeedSpec

(* A shard knows of a slot or of none, a connection is of a shard or of    *)
(* none, ages stay within their thresholds: for any universes and sizes.   *)
THEOREM FeedTypeCorrect == FeedSpec => []FeedTypeOK
<1>1. FeedInv => FeedTypeOK
  BY DEF FeedInv
<1> QED
  BY <1>1, FeedStructured, PTL

(* Between two rounds of the refresh loop the shards split up the streamed *)
(* part of the universe, and what is opened or open for a shard carries    *)
(* its symbols, however shards were reconnected and rebuilt.               *)
THEOREM ShardsFollowUniverse == FeedSpec => []FollowsUniverse
<1>1. ASSUME FeedInv PROVE FollowsUniverse
  <2> SUFFICES ASSUME pc = "sleep"
               PROVE  /\ UNION {shards[i].syms : i \in DOMAIN shards} = First(StreamCap, universe)
                      /\ \A i \in DOMAIN shards :
                           /\ Cardinality(shards[i].syms) \in 1 .. PerShard
                           /\ \A j \in DOMAIN shards \ {i} : shards[i].syms \cap shards[j].syms = {}
                      /\ \A k \in Slot : feed[k].shard # 0 => feed[k].syms = shards[feed[k].shard].syms
    BY DEF FollowsUniverse
  <2>1. /\ symbols = First(StreamCap, universe) /\ symbols \in SUBSET Instrument
        /\ DOMAIN shards = 1 .. Chunks(symbols)
        /\ \A i \in DOMAIN shards : shards[i].syms = Chunk(symbols, i)
    BY <1>1, FeedFacts DEF FeedInv, Loops
  <2>2. UNION {shards[i].syms : i \in DOMAIN shards} = UNION {Chunk(symbols, i) : i \in 1 .. Chunks(symbols)}
    BY <2>1
  <2>3. \A k \in Slot : feed[k].shard # 0 => feed[k].syms = shards[feed[k].shard].syms
    BY <1>1 DEF FeedInv, Matches
  <2> QED
    BY <2>1, <2>2, <2>3, ChunksSplit
<1> QED
  BY <1>1, FeedStructured, PTL

(***************************************************************************)
(* Counting: as many connections carry a symbol as openings outlasted a    *)
(* stop, and one more when its shard has a connection or is opening one.   *)
(***************************************************************************)
Carriers(f, s) == {k \in Slot : s \in f[k].syms}

Serving(i) ==
  /\ shards[i].ws # 0 \/ Pending(i) # {}
  /\ ~ (pc = "restart" /\ at = i)

CountInv ==
  /\ \A i \in DOMAIN shards, s \in Instrument : s \in shards[i].syms =>
       Cardinality(Carriers(feed, s)) <= (IF Serving(i) THEN outlasted + 1 ELSE outlasted)
  /\ \A s \in Instrument \ symbols : Cardinality(Carriers(feed, s)) <= outlasted

LEMMA CarriersType ==
  ASSUME NEW f, NEW s
  PROVE  /\ IsFiniteSet(Carriers(f, s)) /\ Cardinality(Carriers(f, s)) \in Nat
         /\ \A K \in SUBSET Carriers(f, s) :
              Cardinality(K) \in Nat /\ Cardinality(K) <= Cardinality(Carriers(f, s))
<1>1. Carriers(f, s) \in SUBSET Slot
  BY DEF Carriers
<1>2. IsFiniteSet(Carriers(f, s)) /\ Cardinality(Carriers(f, s)) \in Nat
  BY <1>1, Feeding, FS_Subset, FS_CardinalityType
<1>3. \A K \in SUBSET Carriers(f, s) :
        Cardinality(K) \in Nat /\ Cardinality(K) <= Cardinality(Carriers(f, s))
  BY <1>2, FS_Subset, FS_CardinalityType
<1> QED
  BY <1>2, <1>3

(* Where nothing is stopped or started.                                    *)
LEMMA CountKept ==
  ASSUME FeedInv, FeedInv', CountInv, UNCHANGED <<symbols, outlasted>>,
         \A s \in Instrument : Carriers(feed', s) \in SUBSET Carriers(feed, s),
         \A i \in DOMAIN shards : Serving(i) => Serving(i)'
  PROVE  CountInv'
<1>1. /\ DOMAIN shards' = DOMAIN shards
      /\ \A i \in DOMAIN shards : shards'[i].syms = shards[i].syms
      /\ outlasted \in Nat
  BY Feeding DEF FeedInv, FeedTypeOK
<1>2. \A s \in Instrument : /\ Cardinality(Carriers(feed, s)) \in Nat
                        /\ Cardinality(Carriers(feed', s)) \in Nat
                        /\ Cardinality(Carriers(feed', s)) <= Cardinality(Carriers(feed, s))
  BY CarriersType
<1>3. ASSUME NEW i \in DOMAIN shards, NEW s \in Instrument, s \in shards[i].syms
      PROVE  Cardinality(Carriers(feed', s)) <= (IF Serving(i)' THEN outlasted + 1 ELSE outlasted)
  <2>1. Cardinality(Carriers(feed, s)) <= (IF Serving(i) THEN outlasted + 1 ELSE outlasted)
    BY <1>3 DEF CountInv
  <2>2. Serving(i) => Serving(i)'
    OBVIOUS
  <2> HIDE DEF Serving
  <2> QED
    BY <1>1, <1>2, <2>1, <2>2
<1>4. \A s \in Instrument \ symbols : Cardinality(Carriers(feed', s)) <= outlasted
  BY <1>1, <1>2 DEF CountInv
<1> QED
  BY <1>1, <1>3, <1>4 DEF CountInv

(* A shard that is stopped leaves no connection but those that outlasted   *)
(* a stop.                                                                 *)
LEMMA StoppedCarries ==
  ASSUME FeedInv, CountInv, NEW i \in DOMAIN shards, NEW s \in shards[i].syms, NEW f,
         \A k \in Slot : f[k].syms \subseteq feed[k].syms,
         shards[i].ws # 0 => f[shards[i].ws].syms = {},
         NEW n \in Nat, n >= outlasted, Pending(i) # {} => n >= outlasted + 1
  PROVE  Cardinality(Carriers(f, s)) <= n
<1> DEFINE C == Carriers(feed, s)
           D == Carriers(f, s)
<1>1. outlasted \in Nat /\ s \in Instrument
  BY Feeding, FeedFacts DEF FeedInv, FeedTypeOK, Shard
<1>2. /\ IsFiniteSet(C) /\ Cardinality(C) \in Nat /\ Cardinality(D) \in Nat
      /\ \A K \in SUBSET C : Cardinality(K) <= Cardinality(C)
  BY CarriersType
<1>3. D \in SUBSET C
  BY DEF Carriers
<1>4. Cardinality(C) <= outlasted + 1
  BY <1>1, <1>2 DEF CountInv
<1>5. CASE shards[i].ws # 0
  <2> DEFINE k == shards[i].ws
  <2>1. k \in Slot /\ feed[k].shard = i
    BY <1>5 DEF FeedInv, Knows
  <2>2. i # 0
    BY FeedFacts
  <2>3. feed[k].syms = shards[i].syms
    BY <2>1, <2>2 DEF FeedInv, Matches
  <2>4. k \in C /\ k \notin D
    BY <1>5, <2>1, <2>3 DEF Carriers
  <2> HIDE DEF C, D, k
  <2>5. /\ IsFiniteSet(C \ {k}) /\ Cardinality(C \ {k}) = Cardinality(C) - 1
    BY <1>2, <2>4, FS_RemoveElement
  <2>6. D \subseteq C \ {k}
    BY <1>3, <2>4
  <2>7. Cardinality(D) <= Cardinality(C \ {k})
    BY <2>5, <2>6, FS_Subset
  <2> QED
    BY <1>1, <1>2, <1>4, <2>5, <2>7 DEF D
<1>6. CASE shards[i].ws = 0
  <2>1. Cardinality(D) <= Cardinality(C)
    BY <1>2, <1>3
  <2>2. CASE Pending(i) # {}
    BY <1>1, <1>2, <1>4, <2>1, <2>2
  <2>3. CASE Pending(i) = {}
    <3>1. ~ Serving(i)
      BY <1>6, <2>3 DEF Serving
    <3>2. Cardinality(C) <= outlasted
      BY <1>1, <3>1 DEF CountInv
    <3> QED
      BY <1>1, <1>2, <2>1, <3>2
  <2> QED
    BY <2>2, <2>3
<1> QED
  BY <1>5, <1>6

(* What is started adds one connection for each symbol, if it does.        *)
LEMMA StartedCarries ==
  ASSUME NEW f \in Feeds0, NEW syms, NEW i \in DOMAIN syms, NEW s,
         \A j \in DOMAIN syms \ {i} : s \notin syms[j]
  PROVE  LET g == Started(f, syms) IN
         Cardinality(Carriers(g, s)) <=
           Cardinality(Carriers(f, s))
             + (IF \E k \in Slot : g[k].at = "opening" /\ g[k].shard = i THEN 1 ELSE 0)
<1> DEFINE g == Started(f, syms)
           new == {k \in Slot : g[k] # f[k] /\ g[k].shard = i}
           C == Carriers(f, s)
           D == Carriers(g, s)
<1>1. /\ \A k \in Slot : g[k] = f[k] \/ \E j \in DOMAIN syms : g[k] = Opening(j, syms[j])
      /\ \A k, l \in Slot : g[k] # f[k] /\ g[l] # f[l] /\ g[k].shard = g[l].shard => k = l
  BY StartedIs
<1>2. IsFiniteSet(C) /\ Cardinality(C) \in Nat /\ Cardinality(D) \in Nat
  BY CarriersType
<1> HIDE DEF g
<1>3. D \subseteq C \cup new
  <2> SUFFICES ASSUME NEW k \in Slot, s \in g[k].syms, g[k] # f[k] PROVE g[k].shard = i
    BY DEF Carriers
  <2>1. PICK j \in DOMAIN syms : g[k] = Opening(j, syms[j])
    BY <1>1
  <2>2. g[k].syms = syms[j] /\ g[k].shard = j
    BY <2>1 DEF Opening
  <2> QED
    BY <2>2
<1>4. CASE new = {}
  <2> HIDE DEF C, D, new
  <2>1. Cardinality(D) <= Cardinality(C)
    BY <1>2, <1>3, <1>4, FS_Subset
  <2> QED
    BY <1>2, <2>1 DEF C, D, g
<1>5. CASE new # {}
  <2>1. PICK k \in Slot : g[k] # f[k] /\ g[k].shard = i
    BY <1>5
  <2>2. new \subseteq {k}
    BY <1>1, <2>1
  <2>3. g[k].at = "opening"
    <3>1. PICK j \in DOMAIN syms : g[k] = Opening(j, syms[j])
      BY <1>1, <2>1
    <3> QED
      BY <3>1 DEF Opening
  <2> HIDE DEF C, D, new
  <2>4. IsFiniteSet(C \cup {k}) /\ Cardinality(C \cup {k}) <= Cardinality(C) + 1
    <3>1. /\ IsFiniteSet(C \cup {k})
          /\ \/ Cardinality(C \cup {k}) = Cardinality(C)
             \/ Cardinality(C \cup {k}) = Cardinality(C) + 1
      BY <1>2, FS_AddElement
    <3> QED
      BY <1>2, <3>1
  <2>5. D \subseteq C \cup {k}
    BY <1>3, <2>2
  <2>6. Cardinality(D) <= Cardinality(C \cup {k}) /\ Cardinality(C \cup {k}) \in Nat
    BY <2>4, <2>5, FS_Subset, FS_CardinalityType
  <2> QED
    BY <1>2, <2>1, <2>3, <2>4, <2>6 DEF C, D, g
<1> QED
  BY <1>4, <1>5

LEMMA StartedOthers ==
  ASSUME NEW f \in Feeds0, NEW syms, NEW s, \A j \in DOMAIN syms : s \notin syms[j]
  PROVE  Carriers(Started(f, syms), s) \in SUBSET Carriers(f, s)
<1> SUFFICES ASSUME NEW k \in Slot, s \in Started(f, syms)[k].syms PROVE s \in f[k].syms
  BY DEF Carriers
<1>1. \/ Started(f, syms)[k] = f[k]
      \/ \E j \in DOMAIN syms : Started(f, syms)[k] = Opening(j, syms[j])
  BY StartedIs
<1>2. \A j \in DOMAIN syms : Opening(j, syms[j]).syms = syms[j]
  BY DEF Opening
<1> QED
  BY <1>1, <1>2

LEMMA OutlastFacts ==
  ASSUME NEW n \in Nat, NEW P \in SUBSET Slot
  PROVE  /\ Cardinality(P) \in Nat
         /\ n + Cardinality(P) \in Nat /\ n + Cardinality(P) >= n
         /\ P # {} => n + Cardinality(P) >= n + 1
<1>1. IsFiniteSet(P)
  BY Feeding, FS_Subset
<1>2. Cardinality(P) \in Nat /\ (P # {} => Cardinality(P) # 0)
  BY <1>1, FS_CardinalityType, FS_EmptySet
<1> QED
  BY <1>2

(* A symbol is in one shard.                                               *)
LEMMA OneShard ==
  ASSUME FeedInv, NEW i \in DOMAIN shards, NEW j \in DOMAIN shards,
         NEW s, s \in shards[i].syms, s \in shards[j].syms
  PROVE  i = j
BY FeedFacts, ChunksSplit DEF FeedInv

LEMMA CountReconnectStops ==
  ASSUME FeedInv, FeedInv', CountInv, ReconnectStops PROVE CountInv'
<1>1. /\ at \in DOMAIN shards /\ feed' = Stopped(feed, at) /\ pc = "monitor" /\ pc' = "restart"
      /\ shards' = [shards EXCEPT ![at].since = 0, ![at].ws = 0]
      /\ UNCHANGED <<universe, symbols, at>>
      /\ outlasted' = outlasted + Cardinality(Pending(at))
  BY DEF ReconnectStops, Outlast
<1>2. outlasted \in Nat /\ Pending(at) \in SUBSET Slot
  BY Feeding DEF FeedInv, FeedTypeOK, Pending
<1>3. /\ outlasted' \in Nat /\ outlasted' >= outlasted
      /\ Pending(at) # {} => outlasted' >= outlasted + 1
  BY <1>1, <1>2, OutlastFacts
<1>4. \A k \in Slot : feed'[k] = IF k = shards[at].ws THEN NoFeed ELSE feed[k]
  BY <1>1, StoppedIs
<1>5. /\ \A k \in Slot : feed'[k].syms \subseteq feed[k].syms
      /\ shards[at].ws # 0 => feed'[shards[at].ws].syms = {}
  <2>1. shards[at].ws \in Slot \cup {0}
    BY <1>1, FeedFacts DEF Shard
  <2> QED
    BY <1>4, <2>1 DEF NoFeed
<1>6. /\ DOMAIN shards' = DOMAIN shards
      /\ \A i \in DOMAIN shards : shards'[i].syms = shards[i].syms
      /\ \A i \in DOMAIN shards : i # at => shards'[i] = shards[i]
  <2>1. DOMAIN shards' = DOMAIN shards
    BY <1>1
  <2> QED
    BY <1>1, <2>1 DEF FeedInv
<1>7. \A s \in Instrument :
        /\ Cardinality(Carriers(feed, s)) \in Nat /\ Cardinality(Carriers(feed', s)) \in Nat
        /\ Cardinality(Carriers(feed', s)) <= Cardinality(Carriers(feed, s))
  <2> TAKE s \in Instrument
  <2>1. Carriers(feed', s) \in SUBSET Carriers(feed, s)
    BY <1>5 DEF Carriers
  <2> QED
    BY <2>1, CarriersType
<1>8. ASSUME NEW i \in DOMAIN shards, NEW s \in Instrument, s \in shards[i].syms
      PROVE  Cardinality(Carriers(feed', s)) <= (IF Serving(i)' THEN outlasted' + 1 ELSE outlasted')
  <2>1. CASE i = at
    <3>1. Cardinality(Carriers(feed', s)) <= outlasted'
      BY <1>1, <1>3, <1>5, <1>8, <2>1, StoppedCarries
    <3> HIDE DEF Serving
    <3> QED
      BY <1>3, <1>7, <3>1
  <2>2. CASE i # at
    <3>1. Serving(i) => Serving(i)'
      <4>1. ASSUME NEW k \in Pending(i) PROVE k \in Pending(i)'
        <5>1. k \in Slot /\ feed[k].at = "opening" /\ feed[k].shard = i
          BY DEF Pending
        <5>2. shards[at].ws # 0 => feed[shards[at].ws].shard = at
          BY <1>1 DEF FeedInv, Knows
        <5>3. shards[at].ws # k
          BY <2>2, <5>1, <5>2, Feeding
        <5> QED
          BY <1>4, <5>1, <5>3 DEF Pending
      <4>2. Pending(i) # {} => Pending(i)' # {}
        BY <4>1
      <4> QED
        BY <1>1, <1>6, <2>2, <4>2 DEF Serving
    <3>2. Cardinality(Carriers(feed, s)) <= (IF Serving(i) THEN outlasted + 1 ELSE outlasted)
      BY <1>8 DEF CountInv
    <3> HIDE DEF Serving
    <3> QED
      BY <1>2, <1>3, <1>7, <3>1, <3>2
  <2> QED
    BY <2>1, <2>2
<1>9. ASSUME NEW s \in Instrument \ symbols PROVE Cardinality(Carriers(feed', s)) <= outlasted'
  <2>1. Cardinality(Carriers(feed, s)) <= outlasted
    BY DEF CountInv
  <2> QED
    BY <1>2, <1>3, <1>7, <2>1
<1> QED
  BY <1>1, <1>6, <1>8, <1>9 DEF CountInv

LEMMA CountReconnectStarts ==
  ASSUME FeedInv, FeedInv', CountInv, ReconnectStarts PROVE CountInv'
<1> DEFINE syms == [i \in {at} |-> shards[i].syms]
<1>1. /\ pc = "restart" /\ pc' = "monitor" /\ feed' = Started(feed, syms)
      /\ UNCHANGED <<universe, symbols, shards, outlasted>>
  BY DEF ReconnectStarts
<1>2. at \in DOMAIN shards /\ at \in Nat \ {0} /\ outlasted \in Nat /\ feed \in Feeds0
  BY <1>1, FeedFacts, Feeding DEF FeedInv, Loops, FeedTypeOK
<1>3. DOMAIN syms = {at} /\ syms[at] = shards[at].syms
  OBVIOUS
<1> HIDE DEF syms
<1>4. ASSUME NEW i \in DOMAIN shards, NEW s \in Instrument, s \in shards[i].syms
      PROVE  Cardinality(Carriers(feed', s)) <= (IF Serving(i)' THEN outlasted' + 1 ELSE outlasted')
  <2>1. Cardinality(Carriers(feed, s)) <= (IF Serving(i) THEN outlasted + 1 ELSE outlasted)
    BY <1>4 DEF CountInv
  <2>2. Cardinality(Carriers(feed, s)) \in Nat /\ Cardinality(Carriers(feed', s)) \in Nat
    BY CarriersType
  <2>3. CASE i = at
    <3>1. ~ Serving(i)
      BY <1>1, <2>3 DEF Serving
    <3>2. Cardinality(Carriers(feed', s)) <=
            Cardinality(Carriers(feed, s))
              + (IF \E k \in Slot : feed'[k].at = "opening" /\ feed'[k].shard = at THEN 1 ELSE 0)
      BY <1>1, <1>2, <1>3, StartedCarries
    <3>3. (\E k \in Slot : feed'[k].at = "opening" /\ feed'[k].shard = at) => Serving(i)'
      BY <1>1, <2>3 DEF Serving, Pending
    <3>4. Cardinality(Carriers(feed, s)) <= outlasted
      BY <2>1, <3>1
    <3> HIDE DEF Serving
    <3> QED
      BY <1>1, <1>2, <2>2, <3>2, <3>3, <3>4
  <2>4. CASE i # at
    <3>1. s \notin shards[at].syms
      BY <1>2, <1>4, <2>4, OneShard
    <3>2. Carriers(feed', s) \in SUBSET Carriers(feed, s)
      BY <1>1, <1>2, <1>3, <3>1, StartedOthers
    <3>3. Cardinality(Carriers(feed', s)) <= Cardinality(Carriers(feed, s))
      BY <3>2, CarriersType
    <3>4. Serving(i) => Serving(i)'
      <4>1. ASSUME NEW k \in Pending(i) PROVE k \in Pending(i)'
        <5>1. k \in Slot /\ feed[k].at = "opening" /\ feed[k].shard = i
          BY DEF Pending
        <5>2. feed'[k] = feed[k]
          BY <1>1, <1>2, <5>1, StartedIs
        <5> QED
          BY <5>1, <5>2 DEF Pending
      <4>2. Pending(i) # {} => Pending(i)' # {}
        BY <4>1
      <4> QED
        BY <1>1, <4>2 DEF Serving
    <3> HIDE DEF Serving
    <3> QED
      BY <1>1, <1>2, <2>1, <2>2, <3>3, <3>4
  <2> QED
    BY <2>3, <2>4
<1>5. ASSUME NEW s \in Instrument \ symbols PROVE Cardinality(Carriers(feed', s)) <= outlasted'
  <2>1. Cardinality(Carriers(feed, s)) <= outlasted
    BY DEF CountInv
  <2>2. s \notin shards[at].syms
    BY <1>2 DEF FeedInv, Chunk
  <2>3. Carriers(feed', s) \in SUBSET Carriers(feed, s)
    BY <1>1, <1>2, <1>3, <2>2, StartedOthers
  <2>4. /\ Cardinality(Carriers(feed', s)) <= Cardinality(Carriers(feed, s))
        /\ Cardinality(Carriers(feed, s)) \in Nat /\ Cardinality(Carriers(feed', s)) \in Nat
    BY <2>3, CarriersType
  <2> QED
    BY <1>1, <1>2, <2>1, <2>4
<1> QED
  BY <1>1, <1>4, <1>5 DEF CountInv

(* Shards that are built: where only openings that outlasted a stop carry  *)
(* a symbol, its shard adds one.                                           *)
BuiltFrom(f) ==
  /\ FeedInv /\ pc = "sleep"
  /\ shards = Built(symbols) /\ feed = Started(f, Lists(shards))
  /\ \A s \in Instrument : Cardinality(Carriers(f, s)) <= outlasted

LEMMA BuiltCounts == (\E f \in Feeds0 : BuiltFrom(f)) => CountInv
<1> SUFFICES ASSUME NEW f \in Feeds0, BuiltFrom(f) PROVE CountInv
  OBVIOUS
<1> DEFINE D == DOMAIN shards
           L == Lists(shards)
<1>1. /\ symbols \in SUBSET Instrument /\ outlasted \in Nat
      /\ D = 1 .. Chunks(symbols) /\ \A i \in D : shards[i].syms = Chunk(symbols, i)
      /\ feed = Started(f, L) /\ pc = "sleep"
      /\ \A s \in Instrument : Cardinality(Carriers(f, s)) <= outlasted
  BY Feeding DEF BuiltFrom, FeedInv, FeedTypeOK
<1>2. DOMAIN L = D /\ \A i \in D : L[i] = Chunk(symbols, i)
  BY <1>1 DEF Lists
<1> HIDE DEF D, L
<1>3. ASSUME NEW i \in D, NEW s \in Instrument, s \in shards[i].syms
      PROVE  Cardinality(Carriers(feed, s)) <= (IF Serving(i) THEN outlasted + 1 ELSE outlasted)
  <2>1. s \in Chunk(symbols, i)
    BY <1>1, <1>3
  <2>2. \A j \in DOMAIN L \ {i} : s \notin L[j]
    BY <1>1, <1>2, <2>1, ChunksSplit
  <2>3. Cardinality(Carriers(feed, s)) <=
          Cardinality(Carriers(f, s))
            + (IF \E k \in Slot : feed[k].at = "opening" /\ feed[k].shard = i THEN 1 ELSE 0)
    <3>1. i \in DOMAIN L
      BY <1>2
    <3>2. Cardinality(Carriers(Started(f, L), s)) <=
            Cardinality(Carriers(f, s))
              + (IF \E k \in Slot : Started(f, L)[k].at = "opening" /\ Started(f, L)[k].shard = i
                 THEN 1 ELSE 0)
      BY <2>2, <3>1, StartedCarries
    <3>3. feed = Started(f, L)
      BY <1>1
    <3> QED
      BY <3>2, <3>3
  <2>4. (\E k \in Slot : feed[k].at = "opening" /\ feed[k].shard = i) => Serving(i)
    BY <1>1 DEF Serving, Pending
  <2>5. /\ Cardinality(Carriers(f, s)) \in Nat /\ Cardinality(Carriers(feed, s)) \in Nat
        /\ Cardinality(Carriers(f, s)) <= outlasted
    BY <1>1, CarriersType
  <2> HIDE DEF Serving
  <2> QED
    BY <1>1, <2>3, <2>4, <2>5
<1>4. ASSUME NEW s \in Instrument \ symbols PROVE Cardinality(Carriers(feed, s)) <= outlasted
  <2>1. \A j \in DOMAIN L : s \notin L[j]
    BY <1>2 DEF Chunk
  <2>2. Carriers(feed, s) \in SUBSET Carriers(f, s)
    BY <1>1, <2>1, StartedOthers
  <2>3. /\ Cardinality(Carriers(feed, s)) <= Cardinality(Carriers(f, s))
        /\ Cardinality(Carriers(f, s)) \in Nat /\ Cardinality(Carriers(feed, s)) \in Nat
        /\ Cardinality(Carriers(f, s)) <= outlasted
    BY <1>1, <2>2, CarriersType
  <2> QED
    BY <1>1, <2>3
<1> QED
  BY <1>3, <1>4 DEF CountInv, D

LEMMA BuiltCountsThen == (\E f \in Feeds0 : BuiltFrom(f))' => CountInv'
BY BuiltCounts, PTL

LEMMA CountRebuilds ==
  ASSUME FeedInv, FeedInv', CountInv, Rebuilds PROVE CountInv'
<1> DEFINE P == UNION {Pending(i) : i \in DOMAIN shards}
<1>1. /\ shards' = Built(symbols') /\ feed' = Started(AllStopped, Lists(shards')) /\ pc' = "sleep"
      /\ outlasted' = outlasted + Cardinality(P)
  BY DEF Rebuilds, Outlast
<1>2. outlasted \in Nat /\ P \in SUBSET Slot
  BY Feeding DEF FeedInv, FeedTypeOK, Pending
<1>3. \A i \in DOMAIN shards : Pending(i) # {} => P # {}
  OBVIOUS
<1> HIDE DEF P
<1>4. /\ outlasted' \in Nat /\ outlasted' >= outlasted
      /\ P # {} => outlasted' >= outlasted + 1
  BY <1>1, <1>2, OutlastFacts
<1>5. /\ AllStopped \in Feeds0
      /\ \A k \in Slot :
           /\ AllStopped[k].syms \subseteq feed[k].syms
           /\ (\E i \in DOMAIN shards : shards[i].ws = k) => AllStopped[k].syms = {}
  BY AllStoppedIs
<1>6. ASSUME NEW s \in Instrument PROVE Cardinality(Carriers(AllStopped, s)) <= outlasted'
  <2>1. CASE s \in symbols
    <3>1. PICK i \in DOMAIN shards : s \in shards[i].syms
      <4>1. \E i \in 1 .. Chunks(symbols) : s \in Chunk(symbols, i)
        BY <2>1, FeedFacts, ChunksSplit
      <4> QED
        BY <4>1, FeedFacts DEF FeedInv
    <3>2. shards[i].ws # 0 => shards[i].ws \in Slot
      BY DEF FeedInv, Knows
    <3>3. shards[i].ws # 0 => AllStopped[shards[i].ws].syms = {}
      BY <1>5, <3>2
    <3> HIDE DEF P
    <3> QED
      BY <1>3, <1>4, <1>5, <3>1, <3>3, StoppedCarries
  <2>2. CASE s \notin symbols
    <3>1. Cardinality(Carriers(feed, s)) <= outlasted
      BY <2>2 DEF CountInv
    <3>2. Carriers(AllStopped, s) \in SUBSET Carriers(feed, s)
      BY <1>5 DEF Carriers
    <3>3. /\ Cardinality(Carriers(AllStopped, s)) <= Cardinality(Carriers(feed, s))
          /\ Cardinality(Carriers(AllStopped, s)) \in Nat
          /\ Cardinality(Carriers(feed, s)) \in Nat
      BY <3>2, CarriersType
    <3> QED
      BY <1>2, <1>4, <3>1, <3>3
  <2> QED
    BY <2>1, <2>2
<1>7. \E f \in Feeds0 :
        /\ FeedInv' /\ pc' = "sleep"
        /\ shards' = Built(symbols') /\ feed' = Started(f, Lists(shards'))
        /\ \A s \in Instrument : Cardinality(Carriers(f, s)) <= outlasted'
  BY <1>1, <1>5, <1>6
<1> QED
  BY <1>7, BuiltCountsThen DEF BuiltFrom

(* An opening that fails.                                                  *)
LEMMA CountOpenFails ==
  ASSUME FeedInv, FeedInv', CountInv, NEW k \in Slot, OpenFails(k) PROVE CountInv'
<1>1. /\ feed[k].at = "opening" /\ feed' = [feed EXCEPT ![k] = NoFeed]
      /\ UNCHANGED <<universe, symbols, shards, pc, at, outlasted>>
  BY DEF OpenFails
<1>2. /\ \A l \in Slot : feed'[l] = IF l = k THEN NoFeed ELSE feed[l]
  BY <1>1, FeedFacts DEF Feeds0
<1>0. outlasted' = outlasted /\ outlasted \in Nat
  BY <1>1, Feeding DEF FeedInv, FeedTypeOK
<1>3. \A s \in Instrument : Carriers(feed', s) = Carriers(feed, s) \ {k}
  BY <1>2 DEF Carriers, NoFeed
<1>4. \A s \in Instrument :
        /\ Cardinality(Carriers(feed, s)) \in Nat /\ Cardinality(Carriers(feed', s)) \in Nat
        /\ Cardinality(Carriers(feed', s)) <= Cardinality(Carriers(feed, s))
  BY <1>3, CarriersType
<1>5. ASSUME NEW i \in DOMAIN shards, NEW s \in Instrument, s \in shards[i].syms
      PROVE  Cardinality(Carriers(feed', s)) <= (IF Serving(i)' THEN outlasted' + 1 ELSE outlasted')
  <2>1. Cardinality(Carriers(feed, s)) <= (IF Serving(i) THEN outlasted + 1 ELSE outlasted)
    BY <1>5 DEF CountInv
  <2>2. CASE feed[k].shard = i
    <3>1. feed[k].syms = shards[i].syms
      BY <2>2, FeedFacts DEF FeedInv, Matches
    <3>2. k \in Carriers(feed, s)
      BY <1>5, <3>1 DEF Carriers
    <3>3. Cardinality(Carriers(feed', s)) = Cardinality(Carriers(feed, s)) - 1
      BY <1>3, <3>2, CarriersType, FS_RemoveElement
    <3> HIDE DEF Serving
    <3> QED
      BY <1>0, <1>4, <2>1, <3>3
  <2>3. CASE feed[k].shard # i
    <3>1. Serving(i) => Serving(i)'
      <4>1. ASSUME NEW l \in Pending(i) PROVE l \in Pending(i)'
        BY <1>2, <2>3 DEF Pending
      <4>2. Pending(i) # {} => Pending(i)' # {}
        BY <4>1
      <4> QED
        BY <1>1, <4>2 DEF Serving
    <3> HIDE DEF Serving
    <3> QED
      BY <1>0, <1>4, <2>1, <3>1
  <2> QED
    BY <2>2, <2>3
<1>6. ASSUME NEW s \in Instrument \ symbols PROVE Cardinality(Carriers(feed', s)) <= outlasted'
  <2>1. Cardinality(Carriers(feed, s)) <= outlasted
    BY DEF CountInv
  <2> QED
    BY <1>0, <1>4, <2>1
<1> QED
  BY <1>1, <1>5, <1>6 DEF CountInv

LEMMA CountStep == FeedInv /\ FeedInv' /\ CountInv /\ [FeedNext]_feedVars => CountInv'
<1> SUFFICES ASSUME FeedInv, FeedInv', CountInv, [FeedNext]_feedVars PROVE CountInv'
  OBVIOUS
<1>0. feed \in Feeds0 /\ \A i \in DOMAIN shards : i # 0
  BY FeedFacts
(* The shards that are served stay so, and the connections what they are.  *)
<1>1. ASSUME UNCHANGED <<symbols, outlasted>>, pc' # "restart" \/ UNCHANGED <<pc, at>>,
             \A k \in Slot : feed'[k].syms \subseteq feed[k].syms,
             \A i \in DOMAIN shards :
               shards[i].ws # 0 \/ Pending(i) # {} => shards'[i].ws # 0 \/ Pending(i)' # {}
      PROVE  CountInv'
  <2>1. \A i \in DOMAIN shards : Serving(i) => Serving(i)'
    BY <1>1 DEF Serving
  <2>2. \A s \in Instrument : Carriers(feed', s) \in SUBSET Carriers(feed, s)
    BY <1>1 DEF Carriers
  <2> QED
    BY <1>1, <2>1, <2>2, CountKept
<1>2. CASE RefreshUniverse \/ PassesOver \/ Keeps \/ UNCHANGED feedVars
  <2>1. /\ UNCHANGED <<symbols, outlasted, shards, feed>>
        /\ pc' # "restart" \/ UNCHANGED <<pc, at>>
    BY <1>2 DEF RefreshUniverse, PassesOver, Keeps, feedVars
  <2>2. \A i \in DOMAIN shards : Pending(i)' = Pending(i)
    BY <2>1 DEF Pending
  <2> QED
    BY <1>1, <2>1, <2>2
<1>3. CASE ReconnectStops
  BY <1>3, CountReconnectStops
<1>4. CASE ReconnectStarts
  BY <1>4, CountReconnectStarts
<1>5. CASE Rebuilds
  BY <1>5, CountRebuilds
<1>6. ASSUME NEW k \in Slot, Opened(k) PROVE CountInv'
  <2>1. /\ feed[k].at = "opening" /\ feed' = [feed EXCEPT ![k].at = "live"]
        /\ UNCHANGED <<universe, symbols, pc, at, outlasted>>
        /\ shards' = IF feed[k].shard = 0 THEN shards
                     ELSE [shards EXCEPT ![feed[k].shard].ws = k]
    BY <1>6 DEF Opened
  <2>2. /\ feed'[k].syms = feed[k].syms
        /\ \A l \in Slot : l # k => feed'[l] = feed[l]
    BY <1>0, <2>1 DEF Feeds0
  <2>3. ASSUME NEW i \in DOMAIN shards, shards[i].ws # 0 \/ Pending(i) # {}
        PROVE  shards'[i].ws # 0 \/ Pending(i)' # {}
    <3>1. CASE feed[k].shard = i
      <4>1. shards'[i].ws = k /\ k # 0
        <5>1. shards[i] \in Shard
          BY FeedFacts
        <5>2. shards' = [shards EXCEPT ![i].ws = k]
          BY <1>0, <2>1, <3>1
        <5> QED
          BY <5>1, <5>2, Feeding DEF Shard
      <4> QED
        BY <4>1
    <3>2. CASE feed[k].shard # i
      <4>1. shards'[i].ws = shards[i].ws
        BY <2>1, <3>2
      <4>2. ASSUME NEW l \in Pending(i) PROVE l \in Pending(i)'
        BY <2>2, <3>2 DEF Pending
      <4> QED
        BY <2>3, <4>1, <4>2
    <3> QED
      BY <3>1, <3>2
  <2>4. \A l \in Slot : feed'[l].syms \subseteq feed[l].syms
    BY <2>2
  <2> QED
    BY <1>1, <2>1, <2>3, <2>4
<1>7. ASSUME NEW k \in Slot, OpenFails(k) PROVE CountInv'
  BY <1>7, CountOpenFails
<1>8. ASSUME NEW k \in Slot, Message(k) PROVE CountInv'
  <2>1. /\ shards' = [shards EXCEPT ![feed[k].shard].heard = TRUE, ![feed[k].shard].age = 0]
        /\ UNCHANGED <<universe, symbols, feed, pc, at, outlasted>>
    BY <1>8 DEF Message
  <2>2. ASSUME NEW i \in DOMAIN shards
        PROVE  shards'[i].ws = shards[i].ws /\ Pending(i)' = Pending(i)
    <3>1. shards[i] \in Shard
      BY FeedFacts
    <3> QED
      BY <2>1, <3>1 DEF Pending, Shard
  <2> QED
    BY <1>1, <2>1, <2>2
<1>9. ASSUME NEW k \in Slot, GoesSilent(k) \/ Recovers(k) PROVE CountInv'
  <2>1. PICK new \in {"live", "silent"} :
          /\ feed' = [feed EXCEPT ![k].at = new] /\ feed[k].at # "opening"
          /\ UNCHANGED <<universe, symbols, shards, pc, at, outlasted>>
    BY <1>9 DEF GoesSilent, Recovers
  <2>2. /\ feed'[k].syms = feed[k].syms
        /\ \A l \in Slot : l # k => feed'[l] = feed[l]
    BY <1>0, <2>1 DEF Feeds0
  <2>3. ASSUME NEW i \in DOMAIN shards, NEW l \in Pending(i) PROVE l \in Pending(i)'
    BY <2>1, <2>2 DEF Pending
  <2>4. \A l \in Slot : feed'[l].syms \subseteq feed[l].syms
    BY <2>2
  <2> QED
    BY <1>1, <2>1, <2>3, <2>4
<1>10. CASE FeedTick
  <2>1. /\ UNCHANGED <<universe, symbols, feed, pc, at, outlasted>>
        /\ \A i \in DOMAIN shards : shards'[i] =
             [shards[i] EXCEPT !.age = IF shards[i].heard THEN Aged(@, StaleAfter + 1) ELSE 0,
                               !.since = Aged(@, Backoff)]
    BY <1>10 DEF FeedTick
  <2>2. ASSUME NEW i \in DOMAIN shards
        PROVE  shards'[i].ws = shards[i].ws /\ Pending(i)' = Pending(i)
    <3>1. shards[i] \in Shard
      BY FeedFacts
    <3> QED
      BY <2>1, <3>1 DEF Pending, Shard
  <2> QED
    BY <1>1, <2>1, <2>2
<1> QED
  BY <1>2, <1>3, <1>4, <1>5, <1>6, <1>7, <1>8, <1>9, <1>10 DEF FeedNext, Loop, Network

LEMMA CountStart == FeedInit /\ FeedInv => CountInv
<1> SUFFICES ASSUME FeedInit, FeedInv PROVE CountInv
  OBVIOUS
<1> DEFINE f == [k \in Slot |-> NoFeed]
<1>1. shards = Built(symbols) /\ feed = Started(f, Lists(shards)) /\ pc = "sleep" /\ outlasted = 0
  BY DEF FeedInit
<1>2. MaxShards \in Nat
  BY FeedFacts
<1>3. f \in Feeds0
  BY <1>2 DEF Feeds0, NoFeed
<1>4. ASSUME NEW s \in Instrument PROVE Cardinality(Carriers(f, s)) <= outlasted
  <2>1. Carriers(f, s) = {}
    BY DEF Carriers, NoFeed
  <2> HIDE DEF f
  <2> QED
    BY <1>1, <2>1, FS_EmptySet
<1> HIDE DEF f
<1> QED
  BY <1>1, <1>3, <1>4, BuiltCounts DEF BuiltFrom

(* Each symbol has one connection that delivers its trades, and one more   *)
(* for each opening that outlasted the stop of its shard: the refresh      *)
(* loop, however often it reconnects and rebuilds, and whatever openings   *)
(* fail or come late, multiplies nothing else.                             *)
THEOREM TradesCountOnce == FeedSpec => []OneFeed
<1>1. ASSUME FeedInv, CountInv PROVE OneFeed
  <2> SUFFICES ASSUME NEW s \in Instrument PROVE Cardinality(Feeds(s)) <= 1 + outlasted
    BY DEF OneFeed
  <2>1. outlasted \in Nat
    BY <1>1, Feeding DEF FeedInv, FeedTypeOK
  <2>2. Feeds(s) \in SUBSET Carriers(feed, s)
    BY DEF Feeds, Carriers
  <2>3. /\ Cardinality(Feeds(s)) \in Nat /\ Cardinality(Carriers(feed, s)) \in Nat
        /\ Cardinality(Feeds(s)) <= Cardinality(Carriers(feed, s))
    BY <2>2, CarriersType
  <2>4. Cardinality(Carriers(feed, s)) <= outlasted + 1
    <3>1. CASE s \in symbols
      <4>1. \E i \in 1 .. Chunks(symbols) : s \in Chunk(symbols, i)
        BY <1>1, <3>1, FeedFacts, ChunksSplit
      <4>2. PICK i \in DOMAIN shards : s \in shards[i].syms
        BY <1>1, <4>1, FeedFacts DEF FeedInv
      <4>3. Cardinality(Carriers(feed, s)) <= (IF Serving(i) THEN outlasted + 1 ELSE outlasted)
        BY <1>1, <4>2 DEF CountInv
      <4> HIDE DEF Serving
      <4> QED
        BY <2>1, <2>3, <4>3
    <3>2. CASE s \notin symbols
      <4>1. Cardinality(Carriers(feed, s)) <= outlasted
        BY <1>1, <3>2 DEF CountInv
      <4> QED
        BY <2>1, <2>3, <4>1
    <3> QED
      BY <3>1, <3>2
  <2> QED
    BY <2>1, <2>3, <2>4
<1>2. FeedSpec => []CountInv
  <2>1. FeedInit => FeedInv
    BY FeedStart
  <2> QED
    BY <2>1, CountStart, CountStep, FeedStructured, PTL DEF FeedSpec
<1> QED
  BY <1>1, <1>2, FeedStructured, PTL
============================================================================
