------------------------- MODULE AllocationProofs -------------------------
(***************************************************************************)
(* Proofs about Allocation: its types; that what a cycle grants never      *)
(* takes a budget beyond its cap; that higher scores go first; and that    *)
(* entries leave the open risk within the total budget.  They hold for     *)
(* every number of symbols, clusters and candidates and every              *)
(* configuration of the budgets, the last for a total budget alone.        *)
(***************************************************************************)
EXTENDS Allocation, FiniteSetTheorems, TLAPS

Grant == {g \in [risk : Nat, num : Nat, den : Nat \ {0}, room : BOOLEAN] :
            ~g.room => g.risk = 0}

(* Division and rounding stay among the integers.                          *)
LEMMA DivNat == ASSUME NEW a \in Nat, NEW b \in Nat \ {0}
                PROVE  a \div b \in Nat
  OBVIOUS

LEMMA RoundInt == ASSUME NEW a \in Nat, NEW b \in Nat \ {0}
                  PROVE  RoundHalfEven(a, b) \in Int
  BY DEF RoundHalfEven

LEMMA MulNat == ASSUME NEW a \in Nat, NEW b \in Nat
                PROVE  a * b \in Nat
  OBVIOUS

LEMMA MulPos == ASSUME NEW a \in Nat \ {0}, NEW b \in Nat \ {0}
                PROVE  a * b \in Nat \ {0}
  OBVIOUS

LEMMA AtLeastPos == ASSUME NEW a \in Nat \ {0}, NEW b \in Int
                    PROVE  AtLeast(a, b) \in Nat \ {0}
  BY DEF AtLeast

(***************************************************************************)
(* One budget: what is left of a grant fits it, or is nothing.             *)
(***************************************************************************)
LEMMA FitGrant ==
  ASSUME NEW g \in Grant, NEW used \in Nat, NEW cap \in Nat
  PROVE  /\ Fit(g, used, cap) \in Grant
         /\ Fit(g, used, cap).risk <= g.risk
         /\ Fit(g, used, cap).risk = 0 \/ used + Fit(g, used, cap).risk <= cap
<1>1. CASE ~g.room \/ used + g.risk <= cap
  BY <1>1 DEF Fit, Grant
<1>2. CASE g.room /\ used + g.risk > cap /\ cap <= used
  BY <1>2 DEF Fit, Grant, Nothing
<1>3. CASE g.room /\ used + g.risk > cap /\ cap > used
  <2>1. Fit(g, used, cap)
          = [risk |-> cap - used, num |-> cap - used, den |-> g.risk, room |-> TRUE]
    BY <1>3 DEF Fit, Grant
  <2>2. cap - used \in Nat /\ g.risk \in Nat \ {0} /\ cap - used <= g.risk
    BY <1>3 DEF Grant
  <2>3. QED
    BY <2>1, <2>2 DEF Grant
<1>4. QED
  BY <1>1, <1>2, <1>3 DEF Grant

LEMMA FitIfAnyGrant ==
  ASSUME NEW g \in Grant, NEW used \in Nat, NEW budget \in Nat, cycle.equity \in Nat
  PROVE  /\ FitIfAny(g, used, budget) \in Grant
         /\ FitIfAny(g, used, budget).risk <= g.risk
         /\ \/ budget = 0
            \/ FitIfAny(g, used, budget).risk = 0
            \/ used + FitIfAny(g, used, budget).risk <= budget * cycle.equity
<1>1. budget * cycle.equity \in Nat
  BY MulNat
<1>2. CASE budget = 0
  BY <1>2 DEF FitIfAny, Grant
<1>3. CASE budget # 0
  BY <1>1, <1>3, FitGrant DEF FitIfAny
<1>4. QED
  BY <1>2, <1>3

(* The weighting only takes away.                                          *)
LEMMA WeighGrant ==
  ASSUME NEW g \in Grant, limits \in Limits, cycle.equity \in Nat
  PROVE  Weigh(g) \in Grant /\ Weigh(g).risk <= g.risk
<1>1. limits.total \in Nat /\ MaxPositions \in Nat \ {0}
  BY AllocationAssumption DEF Limit
<1>2. TwiceShare \in Nat
  <2>1. (2 * limits.total) * cycle.equity \in Nat
    BY <1>1, MulNat
  <2>2. QED
    BY <1>1, <2>1, DivNat DEF TwiceShare
<1>3. CASE g.room /\ limits.weighted /\ ~Resized(g) /\ g.risk > TwiceShare
  <2>1. /\ Weigh(g) = [risk |-> TwiceShare, num |-> TwiceShare, den |-> g.risk, room |-> TRUE]
        /\ g.risk \in Nat \ {0}
    BY <1>2, <1>3 DEF Weigh, Grant
  <2>2. QED
    BY <1>2, <1>3, <2>1 DEF Grant
<1>4. CASE ~(g.room /\ limits.weighted /\ ~Resized(g) /\ g.risk > TwiceShare)
  BY <1>4 DEF Weigh, Grant
<1>5. QED
  BY <1>3, <1>4

(***************************************************************************)
(* All budgets: the risk granted to a candidate fits each budget that      *)
(* concerns it, or is nothing.                                             *)
(***************************************************************************)
FitsBudgets(c, r) ==
  /\ r = 0 \/ cycle.used.total + r <= limits.total * cycle.equity
  /\ \/ r = 0 \/ limits.side[c.side] = 0
     \/ cycle.used.side[c.side] + r <= limits.side[c.side] * cycle.equity
  /\ \/ r = 0 \/ c.cluster = NoCluster \/ limits.cluster = 0
     \/ cycle.used.cluster[c.cluster] + r <= limits.cluster * cycle.equity

LEMMA GrantedFits ==
  ASSUME TypeOK, NEW c \in Candidate
  PROVE  Granted(c) \in Grant /\ FitsBudgets(c, Granted(c).risk)
<1> DEFINE total == Fit(Whole(c), cycle.used.total, limits.total * cycle.equity)
           side == FitIfAny(total, cycle.used.side[c.side], limits.side[c.side])
           both == IF c.cluster = NoCluster THEN side
                   ELSE FitIfAny(side, cycle.used.cluster[c.cluster], limits.cluster)
<1>1. /\ limits \in Limits /\ limits \in Limit
      /\ limits.total \in Nat /\ limits.side[c.side] \in Nat /\ limits.cluster \in Nat
  BY AllocationAssumption DEF TypeOK, Limit, Candidate
<1>2. cycle.equity \in Nat
  BY AllocationAssumption DEF TypeOK
<1>3. /\ cycle.used.total \in Nat /\ cycle.used.side[c.side] \in Nat
      /\ c.cluster # NoCluster => cycle.used.cluster[c.cluster] \in Nat
  BY DEF TypeOK, Budget, Candidate
<1>4. Whole(c) \in Grant
  <2>1. c.qty \in Nat /\ c.dist \in Nat
    BY AllocationAssumption DEF Candidate
  <2>2. c.qty * c.dist \in Nat
    BY <2>1, MulNat
  <2>3. QED
    BY <2>2 DEF Whole, Grant
<1>5. /\ total \in Grant
      /\ total.risk = 0 \/ cycle.used.total + total.risk <= limits.total * cycle.equity
  <2>1. limits.total * cycle.equity \in Nat
    BY <1>1, <1>2, MulNat
  <2>2. QED
    BY <1>3, <1>4, <2>1, FitGrant
<1>6. /\ side \in Grant /\ side.risk <= total.risk
      /\ \/ limits.side[c.side] = 0 \/ side.risk = 0
         \/ cycle.used.side[c.side] + side.risk <= limits.side[c.side] * cycle.equity
  <2> HIDE DEF total
  <2>1. QED
    BY <1>1, <1>2, <1>3, <1>5, FitIfAnyGrant
<1>7. /\ both \in Grant /\ both.risk <= side.risk
      /\ \/ c.cluster = NoCluster \/ limits.cluster = 0 \/ both.risk = 0
         \/ cycle.used.cluster[c.cluster] + both.risk <= limits.cluster * cycle.equity
  <2> HIDE DEF side
  <2>1. CASE c.cluster = NoCluster
    BY <1>6, <2>1 DEF Grant
  <2>2. CASE c.cluster # NoCluster
    BY <1>1, <1>2, <1>3, <1>6, <2>2, FitIfAnyGrant
  <2>3. QED
    BY <2>1, <2>2
<1>8. Granted(c) = Weigh(both)
  BY DEF Granted
<1>9. Granted(c) \in Grant /\ Granted(c).risk <= both.risk
  <2> HIDE DEF both
  <2>1. QED
    BY <1>1, <1>2, <1>7, <1>8, WeighGrant
<1>10. QED
  <2> HIDE DEF total, side, both
  <2> DEFINE r == Granted(c).risk
  <2>1. /\ r \in Nat /\ both.risk \in Nat /\ side.risk \in Nat /\ total.risk \in Nat
        /\ r <= both.risk /\ r <= side.risk /\ r <= total.risk
    BY <1>5, <1>6, <1>7, <1>9 DEF Grant
  <2>2. /\ limits.total * cycle.equity \in Nat
        /\ limits.side[c.side] * cycle.equity \in Nat
        /\ limits.cluster * cycle.equity \in Nat
    BY <1>1, <1>2, MulNat
  <2> HIDE DEF r
  <2>3. r = 0 \/ cycle.used.total + r <= limits.total * cycle.equity
    BY <1>3, <1>5, <2>1, <2>2
  <2>4. \/ r = 0 \/ limits.side[c.side] = 0
        \/ cycle.used.side[c.side] + r <= limits.side[c.side] * cycle.equity
    BY <1>3, <1>6, <2>1, <2>2
  <2>5. \/ r = 0 \/ c.cluster = NoCluster \/ limits.cluster = 0
        \/ cycle.used.cluster[c.cluster] + r <= limits.cluster * cycle.equity
    BY <1>3, <1>7, <2>1, <2>2
  <2>6. QED
    BY <1>9, <2>3, <2>4, <2>5 DEF FitsBudgets, r

(* A decision is one, for the candidate and with its risk or none.         *)
LEMMA DecideType ==
  ASSUME NEW c \in Candidate, NEW g \in Grant
  PROVE  /\ Decide(c, g) \in Decision
         /\ Decide(c, g).for = c
         /\ Decide(c, g).risk = 0 \/ Decide(c, g).risk = g.risk
<1>1. CASE ~g.room
  BY <1>1 DEF Decide, Decision
<1>2. CASE g.room /\ c.qty * g.num < MinQty * g.den
  BY <1>2 DEF Decide, Decision
<1>3. CASE g.room /\ ~(c.qty * g.num < MinQty * g.den)
  <2> DEFINE q == AtLeast(MinQty, RoundHalfEven(c.qty * g.num, g.den))
  <2>1. c.qty \in Nat /\ g.num \in Nat /\ g.den \in Nat \ {0} /\ g.risk \in Nat
    BY DEF Candidate, Grant
  <2>2. c.qty * g.num \in Nat
    BY <2>1, MulNat
  <2>3. q \in Nat \ {0}
    BY <2>1, <2>2, RoundInt, AtLeastPos, AllocationAssumption
  <2>4. Decide(c, g) = [for |-> c, qty |-> q, risk |-> g.risk, why |-> "granted"]
    BY <1>3 DEF Decide
  <2> HIDE DEF q
  <2>5. QED
    BY <2>1, <2>3, <2>4 DEF Decision
<1>4. QED
  BY <1>1, <1>2, <1>3

(* Charging keeps a budget state one, and adds to the right budgets.       *)
LEMMA ChargedBudget ==
  ASSUME NEW used \in Budget, NEW x \in Charge
  PROVE  /\ Charged(used, x) \in Budget
         /\ Charged(used, x).total = used.total + x.risk
         /\ \A d \in Side : Charged(used, x).side[d]
                              = IF d = x.side THEN used.side[d] + x.risk ELSE used.side[d]
         /\ \A k \in Cluster : Charged(used, x).cluster[k]
                              = used.cluster[k] + IF k = x.cluster THEN x.risk ELSE 0
  BY DEF Charged, Budget, Charge

LEMMA DecisionCharge ==
  ASSUME NEW d \in Decision
  PROVE  [side |-> d.for.side, cluster |-> d.for.cluster, risk |-> d.risk] \in Charge
  BY DEF Decision, Candidate, Charge

LEMMA SignalCandidate == ASSUME TypeOK, NEW c \in Signals PROVE c \in Candidate
<1>1. PICK s \in Symbol, d \in Side, r \in Score, x \in Distance, m \in MaxQty :
        c = [sym |-> s, side |-> d, score |-> r, qty |-> BaseQty(x, m), dist |-> x,
             cluster |-> cycle.cluster[s]]
  BY DEF Signals
<1>2. BaseQty(x, m) \in Nat \ {0}
  <2>1. RiskPerTrade * equity \in Nat
    BY AllocationAssumption, MulNat DEF TypeOK
  <2>2. RoundHalfEven(RiskPerTrade * equity, x) \in Int
    BY <2>1, RoundInt, AllocationAssumption
  <2>3. AtMost(m, RoundHalfEven(RiskPerTrade * equity, x)) \in Int
    BY <2>2, AllocationAssumption DEF AtMost
  <2>4. QED
    BY <2>3, AtLeastPos, AllocationAssumption DEF BaseQty
<1>3. cycle.cluster[s] \in Cluster \cup {NoCluster}
  BY DEF TypeOK
<1>4. QED
  BY <1>1, <1>2, <1>3 DEF Candidate

LEMMA IdleType == /\ NoBudget \in Budget
                  /\ Idle.cluster \in [Symbol -> Cluster \cup {NoCluster}]
                  /\ Idle.listed = {} /\ Idle.offers = {} /\ Idle.tried = {}
                  /\ Idle.decided \in Seq(Decision)
  BY DEF NoBudget, Budget, Idle

(***************************************************************************)
(* Every state is well typed: sizes are positive, risks and budgets are    *)
(* never negative, and what is placed was granted.                         *)
(***************************************************************************)
CycleType == [at : {"idle", "tally", "offer", "allocate", "place", "late"},
              equity : Equity \cup {0}, start : Budget, used : Budget,
              cluster : [Symbol -> Cluster \cup {NoCluster}],
              listed : SUBSET (Symbol \X Charge), offers : SUBSET Candidate,
              decided : Seq(Decision), tried : SUBSET Symbol]

LEMMA TypeStep == TypeOK /\ [Next]_vars => TypeOK'
<1> SUFFICES ASSUME TypeOK, [Next]_vars PROVE TypeOK'
  OBVIOUS
<1>0. /\ limits \in Limits /\ book \in [Symbol -> Position \cup {None}]
      /\ equity \in Equity /\ cycle \in CycleType
  BY DEF TypeOK, CycleType
<1>1. ASSUME NEW clusters \in [Symbol -> Cluster \cup {NoCluster}], CycleStart(clusters)
      PROVE  TypeOK'
  <2> DEFINE L == {<<s, [side |-> book[s].side, cluster |-> clusters[s],
                         risk |-> RiskOf(book[s])]>> : s \in Held}
  <2>1. ASSUME NEW s \in Held
        PROVE  [side |-> book[s].side, cluster |-> clusters[s],
                risk |-> RiskOf(book[s])] \in Charge
    <3>1. book[s] \in Position
      BY <1>0 DEF Held
    <3>2. book[s].size \in Nat /\ book[s].dist \in Nat /\ book[s].side \in Side
      BY <3>1, AllocationAssumption DEF Position
    <3>3. RiskOf(book[s]) \in Nat
      BY <3>2, MulNat DEF RiskOf
    <3>4. QED
      BY <3>2, <3>3 DEF Charge, Held
  <2>2. L \in SUBSET (Symbol \X Charge)
    BY <2>1 DEF Held
  <2>3. cycle' = [Idle EXCEPT !.at = "tally", !.equity = equity, !.cluster = clusters,
                              !.listed = L]
    BY <1>1 DEF CycleStart
  <2> HIDE DEF L
  <2>4. cycle' \in CycleType
    BY <1>0, <2>2, <2>3, IdleType DEF CycleType, Idle
  <2>5. QED
    BY <1>0, <1>1, <2>4 DEF CycleStart, TypeOK, CycleType
<1>2. ASSUME NEW x \in cycle.listed, Tally(x) PROVE TypeOK'
  <2>1. x[2] \in Charge /\ cycle.used \in Budget
    BY <1>0 DEF CycleType
  <2>2. Charged(cycle.used, x[2]) \in Budget
    BY <2>1, ChargedBudget
  <2>3. cycle' \in CycleType
    BY <1>0, <1>2, <2>2 DEF Tally, CycleType
  <2>4. QED
    BY <1>0, <1>2, <2>3 DEF Tally, TypeOK, CycleType
<1>3. CASE Tallied
  <2>1. cycle' \in CycleType
    BY <1>0, <1>3 DEF Tallied, CycleType
  <2>2. QED
    BY <1>0, <1>3, <2>1 DEF Tallied, TypeOK, CycleType
<1>4. ASSUME NEW c \in Signals, Offer(c) PROVE TypeOK'
  <2>1. cycle' \in CycleType
    BY <1>0, <1>4, SignalCandidate DEF Offer, CycleType
  <2>2. QED
    BY <1>0, <1>4, <2>1 DEF Offer, TypeOK, CycleType
<1>5. ASSUME NEW c \in Signals, PlaceLate(c) PROVE TypeOK'
  <2> DEFINE g == Weigh(Whole(c))
             q == AtLeast(MinQty, RoundHalfEven(c.qty * g.num, g.den))
  <2>1. c \in Candidate
    BY SignalCandidate
  <2>2. Whole(c) \in Grant
    <3>1. c.qty \in Nat /\ c.dist \in Nat
      BY <2>1, AllocationAssumption DEF Candidate
    <3>2. c.qty * c.dist \in Nat
      BY <3>1, MulNat
    <3>3. QED
      BY <3>2 DEF Whole, Grant
  <2>3. g \in Grant
    BY <1>0, <2>2, WeighGrant, AllocationAssumption DEF CycleType
  <2>4. q \in Nat \ {0}
    <3> HIDE DEF g
    <3>1. c.qty * g.num \in Nat
      BY <2>1, <2>3, MulNat DEF Candidate, Grant
    <3>2. RoundHalfEven(c.qty * g.num, g.den) \in Int
      BY <2>3, <3>1, RoundInt DEF Grant
    <3>3. QED
      BY <3>2, AtLeastPos, AllocationAssumption
  <2>5. book' = [book EXCEPT ![c.sym] = [side |-> c.side, size |-> q, dist |-> c.dist]]
    BY <1>5 DEF PlaceLate, Enter
  <2>6. c.sym \in Symbol /\ c.side \in Side /\ c.dist \in Distance
    BY <2>1 DEF Candidate
  <2> HIDE DEF q
  <2>7. book' \in [Symbol -> Position \cup {None}]
    BY <1>0, <2>4, <2>5, <2>6 DEF Position
  <2>8. cycle' \in CycleType
    BY <1>0, <1>5, <2>6 DEF PlaceLate, CycleType
  <2>9. QED
    BY <1>0, <1>5, <2>7, <2>8 DEF PlaceLate, TypeOK, CycleType
<1>6. CASE Collected
  <2>1. cycle' \in CycleType
    BY <1>0, <1>6 DEF Collected, CycleType
  <2>2. QED
    BY <1>0, <1>6, <2>1 DEF Collected, TypeOK, CycleType
<1>7. ASSUME NEW c \in cycle.offers, Allocate(c) PROVE TypeOK'
  <2> DEFINE d == Decide(c, Granted(c))
  <2>1. c \in Candidate
    BY <1>0 DEF CycleType
  <2>2. d \in Decision
    BY <2>1, GrantedFits, DecideType
  <2>3. cycle' = [cycle EXCEPT !.offers = @ \ {c}, !.used = Booked(@, d),
                               !.decided = Append(@, d)]
    BY <1>7 DEF Allocate
  <2> HIDE DEF d
  <2>4. Booked(cycle.used, d) \in Budget
    BY <1>0, <2>2, ChargedBudget, DecisionCharge DEF Booked, CycleType
  <2>5. Append(cycle.decided, d) \in Seq(Decision) /\ cycle.offers \ {c} \in SUBSET Candidate
    BY <1>0, <2>2 DEF CycleType
  <2>6. cycle' \in CycleType
    BY <1>0, <2>3, <2>4, <2>5 DEF CycleType
  <2>7. QED
    BY <1>0, <1>7, <2>6 DEF Allocate, TypeOK, CycleType
<1>8. CASE Allocated
  <2>1. cycle' \in CycleType
    BY <1>0, <1>8, IdleType DEF Allocated, CycleType, Idle
  <2>2. QED
    BY <1>0, <1>8, <2>1 DEF Allocated, TypeOK, CycleType
<1>9. CASE Place
  <2> DEFINE d == Head(cycle.decided)
  <2>1. cycle.decided \in Seq(Decision) /\ cycle.decided # <<>>
    BY <1>0, <1>9 DEF Place, CycleType
  <2>2. d \in Decision /\ Tail(cycle.decided) \in Seq(Decision)
    BY <2>1
  <2>3. /\ d.why = "granted"
        /\ book' = [book EXCEPT ![d.for.sym] =
                      [side |-> d.for.side, size |-> d.qty, dist |-> d.for.dist]]
    BY <1>9 DEF Place, Enter
  <2>4. cycle' = [cycle EXCEPT !.decided = Tail(@)]
    BY <1>9 DEF Place
  <2> HIDE DEF d
  <2>5. /\ d.qty \in Nat \ {0} /\ d.for.sym \in Symbol
        /\ d.for.side \in Side /\ d.for.dist \in Distance
    BY <2>2, <2>3 DEF Decision, Candidate
  <2>6. book' \in [Symbol -> Position \cup {None}]
    BY <1>0, <2>3, <2>5 DEF Position
  <2>7. cycle' \in CycleType
    BY <1>0, <2>2, <2>4 DEF CycleType
  <2>8. QED
    BY <1>0, <1>9, <2>6, <2>7 DEF Place, TypeOK, CycleType
<1>10. CASE Skip
  <2>1. Tail(cycle.decided) \in Seq(Decision)
    BY <1>0, <1>10 DEF Skip, CycleType
  <2>2. cycle' \in CycleType
    BY <1>0, <1>10, <2>1 DEF Skip, CycleType
  <2>3. QED
    BY <1>0, <1>10, <2>2 DEF Skip, TypeOK, CycleType
<1>11. CASE CycleEnd
  <2>1. cycle' \in CycleType
    BY <1>11, IdleType DEF CycleEnd, CycleType, Idle
  <2>2. QED
    BY <1>0, <1>11, <2>1 DEF CycleEnd, TypeOK, CycleType
<1>12. ASSUME NEW s \in Symbol, Leave(s) PROVE TypeOK'
  BY <1>0, <1>12 DEF Leave, TypeOK, CycleType
<1>13. ASSUME NEW s \in Symbol, Lighten(s) PROVE TypeOK'
  <2>1. book[s] \in Position /\ book[s].size \in Nat /\ book[s].size > 1
    BY <1>0, <1>13 DEF Lighten, None, Position
  <2>2. RoundHalfEven(book[s].size, 2) \in Nat \ {0}
    BY <2>1 DEF RoundHalfEven
  <2>3. book' = [book EXCEPT ![s].size = RoundHalfEven(@, 2)]
    BY <1>13 DEF Lighten
  <2>4. book' \in [Symbol -> Position \cup {None}]
    BY <1>0, <2>1, <2>2, <2>3 DEF Position
  <2>5. QED
    BY <1>0, <1>13, <2>4 DEF Lighten, TypeOK, CycleType
<1>14. CASE EquityMoves
  BY <1>0, <1>14 DEF EquityMoves, TypeOK, CycleType
<1>15. CASE UNCHANGED vars
  BY <1>0, <1>15 DEF vars, TypeOK, CycleType
<1>16. QED
  BY <1>1, <1>2, <1>3, <1>4, <1>5, <1>6, <1>7, <1>8, <1>9, <1>10, <1>11,
     <1>12, <1>13, <1>14, <1>15 DEF Next

THEOREM TypeCorrect == Spec => []TypeOK
<1>1. Init => TypeOK
  BY IdleType DEF Init, TypeOK, Idle
<1>2. QED
  BY <1>1, TypeStep, PTL DEF Spec

(***************************************************************************)
(* The running budgets of a cycle never exceed their caps, but where the   *)
(* positions of the start already did: each grant fits the room that the   *)
(* grants before it left.                                                  *)
(***************************************************************************)
LEMMA WithinGrows ==
  ASSUME NEW used \in Nat, NEW start \in Nat, NEW budget \in Nat, NEW r \in Nat,
         cycle.equity \in Nat, Within(used, start, budget),
         r = 0 \/ budget = 0 \/ used + r <= budget * cycle.equity
  PROVE  Within(used + r, start, budget)
<1>1. budget * cycle.equity \in Nat
  BY MulNat
<1>2. QED
  BY <1>1 DEF Within, Larger

LEMMA WithinStarts ==
  ASSUME NEW used \in Nat, NEW budget \in Nat, cycle.equity \in Nat
  PROVE  Within(used, used, budget)
<1>1. budget * cycle.equity \in Nat
  BY MulNat
<1>2. QED
  BY <1>1 DEF Within, Larger

LEMMA BudgetsStep == TypeOK /\ BudgetsHeld /\ [Next]_vars => BudgetsHeld'
<1> SUFFICES ASSUME TypeOK, BudgetsHeld, [Next]_vars PROVE BudgetsHeld'
  OBVIOUS
<1>0. /\ limits \in Limits /\ cycle.equity \in Nat
      /\ limits.total \in Nat /\ limits.cluster \in Nat
      /\ \A d \in Side : limits.side[d] \in Nat
      /\ cycle.used \in Budget /\ cycle.start \in Budget
  BY AllocationAssumption DEF TypeOK, Limit
<1>1. CASE Tallied
  <2>1. /\ cycle'.start = cycle.used /\ cycle'.used = cycle.used
        /\ cycle'.equity = cycle.equity /\ limits' = limits
    BY <1>1 DEF Tallied, TypeOK
  <2>2. /\ Within(cycle.used.total, cycle.used.total, limits.total)
        /\ \A d \in Side : Within(cycle.used.side[d], cycle.used.side[d], limits.side[d])
        /\ \A k \in Cluster :
             Within(cycle.used.cluster[k], cycle.used.cluster[k], limits.cluster)
    BY <1>0, WithinStarts DEF Budget
  <2>3. QED
    BY <2>1, <2>2 DEF BudgetsHeld, Within, Larger
<1>2. ASSUME NEW c \in cycle.offers, Allocate(c) PROVE BudgetsHeld'
  <2> DEFINE d == Decide(c, Granted(c))
             x == [side |-> c.side, cluster |-> c.cluster, risk |-> d.risk]
  <2>1. c \in Candidate
    BY DEF TypeOK
  <2>2. Granted(c) \in Grant /\ FitsBudgets(c, Granted(c).risk)
    BY <2>1, GrantedFits
  <2>3. /\ d \in Decision /\ d.for = c /\ d.risk \in Nat
        /\ d.risk = 0 \/ d.risk = Granted(c).risk
    <3>1. d \in Decision /\ d.for = c /\ (d.risk = 0 \/ d.risk = Granted(c).risk)
      BY <2>1, <2>2, DecideType
    <3>2. QED
      BY <3>1 DEF Decision
  <2>4. /\ cycle'.used = Charged(cycle.used, x) /\ cycle'.start = cycle.start
        /\ cycle'.equity = cycle.equity /\ limits' = limits
    <3>1. cycle'.used = Booked(cycle.used, d)
      BY <1>2 DEF Allocate, TypeOK
    <3>2. /\ cycle'.start = cycle.start /\ cycle'.equity = cycle.equity
          /\ limits' = limits
      BY <1>2 DEF Allocate, TypeOK
    <3>3. QED
      BY <2>3, <3>1, <3>2 DEF Booked
  <2>5. x \in Charge
    BY <2>1, <2>3 DEF Candidate, Charge
  <2>6. FitsBudgets(c, d.risk)
    BY <2>2, <2>3 DEF FitsBudgets
  <2>7. /\ Within(cycle.used.total, cycle.start.total, limits.total)
        /\ \A e \in Side : Within(cycle.used.side[e], cycle.start.side[e], limits.side[e])
        /\ \A k \in Cluster :
             Within(cycle.used.cluster[k], cycle.start.cluster[k], limits.cluster)
    BY <1>2 DEF BudgetsHeld, Allocate
  <2> HIDE DEF d
  <2>8. Within(cycle'.used.total, cycle.start.total, limits.total)
    <3>1. cycle'.used.total = cycle.used.total + d.risk
      BY <1>0, <2>4, <2>5, ChargedBudget
    <3>2. cycle.used.total \in Nat /\ cycle.start.total \in Nat
      BY <1>0 DEF Budget
    <3>3. QED
      BY <1>0, <2>3, <2>6, <2>7, <3>1, <3>2, WithinGrows DEF FitsBudgets
  <2>9. ASSUME NEW e \in Side
        PROVE  Within(cycle'.used.side[e], cycle.start.side[e], limits.side[e])
    <3>1. cycle'.used.side[e]
            = IF e = c.side THEN cycle.used.side[e] + d.risk ELSE cycle.used.side[e]
      BY <1>0, <2>4, <2>5, ChargedBudget
    <3>2. cycle.used.side[e] \in Nat /\ cycle.start.side[e] \in Nat
      BY <1>0 DEF Budget
    <3>3. CASE e = c.side
      <4>1. \/ d.risk = 0 \/ limits.side[e] = 0
            \/ cycle.used.side[e] + d.risk <= limits.side[e] * cycle.equity
        BY <2>6, <3>3 DEF FitsBudgets
      <4>2. Within(cycle.used.side[e] + d.risk, cycle.start.side[e], limits.side[e])
        BY <1>0, <2>3, <2>7, <3>2, <4>1, WithinGrows
      <4>3. QED
        BY <3>1, <3>3, <4>2
    <3>4. CASE e # c.side
      BY <2>7, <3>1, <3>4
    <3>5. QED
      BY <3>3, <3>4
  <2>10. ASSUME NEW k \in Cluster
         PROVE  Within(cycle'.used.cluster[k], cycle.start.cluster[k], limits.cluster)
    <3>1. cycle'.used.cluster[k]
            = cycle.used.cluster[k] + IF k = c.cluster THEN d.risk ELSE 0
      BY <1>0, <2>4, <2>5, ChargedBudget
    <3>2. cycle.used.cluster[k] \in Nat /\ cycle.start.cluster[k] \in Nat
      BY <1>0 DEF Budget
    <3>3. CASE k = c.cluster
      <4>1. c.cluster # NoCluster
        BY <3>3, AllocationAssumption
      <4>2. \/ d.risk = 0 \/ limits.cluster = 0
            \/ cycle.used.cluster[k] + d.risk <= limits.cluster * cycle.equity
        BY <2>6, <3>3, <4>1 DEF FitsBudgets
      <4>3. Within(cycle.used.cluster[k] + d.risk, cycle.start.cluster[k], limits.cluster)
        BY <1>0, <2>3, <2>7, <3>2, <4>2, WithinGrows
      <4>4. QED
        BY <3>1, <3>3, <4>3
    <3>4. CASE k # c.cluster
      BY <2>7, <3>1, <3>2, <3>4
    <3>5. QED
      BY <3>3, <3>4
  <2>11. QED
    BY <2>4, <2>8, <2>9, <2>10 DEF BudgetsHeld, Within, Larger
<1>3. ASSUME NEW c \in Signals, Offer(c) PROVE BudgetsHeld'
  <2>1. /\ cycle'.used = cycle.used /\ cycle'.start = cycle.start
        /\ cycle'.equity = cycle.equity /\ cycle'.at = cycle.at /\ limits' = limits
    BY <1>3 DEF Offer, TypeOK
  <2>2. QED
    BY <2>1 DEF BudgetsHeld, Within, Larger
<1>4. CASE Collected
  <2>1. /\ cycle'.used = cycle.used /\ cycle'.start = cycle.start
        /\ cycle'.equity = cycle.equity /\ limits' = limits /\ cycle.at = "offer"
    BY <1>4 DEF Collected, TypeOK
  <2>2. QED
    BY <2>1 DEF BudgetsHeld, Within, Larger
<1>5. ASSUME cycle' = cycle, limits' = limits PROVE BudgetsHeld'
  BY <1>5 DEF BudgetsHeld, Within, Larger
<1>6. ASSUME cycle'.at \notin {"offer", "allocate"} PROVE BudgetsHeld'
  BY <1>6 DEF BudgetsHeld
<1>7. ASSUME NEW clusters \in [Symbol -> Cluster \cup {NoCluster}], CycleStart(clusters)
      PROVE  BudgetsHeld'
  BY <1>6, <1>7 DEF CycleStart, Idle
<1>8. ASSUME NEW y \in cycle.listed, Tally(y) PROVE BudgetsHeld'
  <2>1. cycle'.at = "tally"
    BY <1>8 DEF Tally, TypeOK
  <2>2. QED
    BY <1>6, <2>1
<1>9. CASE Place \/ Skip \/ \E c \in Signals : PlaceLate(c)
  <2>1. cycle'.at \in {"place", "late"}
    BY <1>9 DEF Place, Skip, PlaceLate, TypeOK
  <2>2. QED
    BY <1>6, <2>1
<1>10. CASE Allocated \/ CycleEnd
  <2>1. CASE Allocated
    BY <1>6, <2>1 DEF Allocated, Idle
  <2>2. CASE CycleEnd
    BY <1>6, <2>2 DEF CycleEnd, Idle
  <2>3. QED
    BY <1>10, <2>1, <2>2
<1>11. CASE EquityMoves \/ (\E s \in Symbol : Leave(s) \/ Lighten(s)) \/ UNCHANGED vars
  BY <1>5, <1>11 DEF EquityMoves, Leave, Lighten, vars
<1>12. QED
  BY <1>1, <1>2, <1>3, <1>4, <1>7, <1>8, <1>9, <1>10, <1>11 DEF Next

THEOREM GrantsStayInBudget == Spec => []BudgetsHeld
<1>1. Init => BudgetsHeld
  BY DEF Init, BudgetsHeld, Idle
<1>2. QED
  BY <1>1, BudgetsStep, TypeCorrect, PTL DEF Spec

(***************************************************************************)
(* Higher scores first.  A candidate is refused for want of room exactly   *)
(* when one of its budgets is full; a full budget stays full; and whoever  *)
(* is still to be allocated has no higher score than those who were.       *)
(***************************************************************************)
Full(d, k) ==
  \/ limits.total * cycle.equity <= cycle.used.total
  \/ /\ limits.side[d] # 0
     /\ limits.side[d] * cycle.equity <= cycle.used.side[d]
  \/ /\ k # NoCluster /\ limits.cluster # 0
     /\ limits.cluster * cycle.equity <= cycle.used.cluster[k]

LEMMA FitRoom ==
  ASSUME NEW g \in Grant, g.room => g.risk > 0, NEW used \in Nat, NEW cap \in Nat
  PROVE  /\ Fit(g, used, cap).room <=> g.room /\ ~(cap <= used)
         /\ Fit(g, used, cap).room => Fit(g, used, cap).risk > 0
<1>1. CASE ~g.room
  BY <1>1 DEF Fit, Grant
<1>2. CASE g.room /\ used + g.risk <= cap
  BY <1>2 DEF Fit, Grant
<1>3. CASE g.room /\ used + g.risk > cap /\ cap <= used
  BY <1>3 DEF Fit, Grant, Nothing
<1>4. CASE g.room /\ used + g.risk > cap /\ cap > used
  BY <1>4 DEF Fit, Grant
<1>5. QED
  BY <1>1, <1>2, <1>3, <1>4 DEF Grant

LEMMA FitIfAnyRoom ==
  ASSUME NEW g \in Grant, g.room => g.risk > 0, NEW used \in Nat, NEW budget \in Nat,
         cycle.equity \in Nat
  PROVE  /\ FitIfAny(g, used, budget).room
              <=> g.room /\ ~(budget # 0 /\ budget * cycle.equity <= used)
         /\ FitIfAny(g, used, budget).room => FitIfAny(g, used, budget).risk > 0
<1>1. budget * cycle.equity \in Nat
  BY MulNat
<1>2. CASE budget = 0
  BY <1>2 DEF FitIfAny, Grant
<1>3. CASE budget # 0
  BY <1>1, <1>3, FitRoom DEF FitIfAny
<1>4. QED
  BY <1>2, <1>3

LEMMA RoomIffNotFull ==
  ASSUME TypeOK, NEW c \in Candidate
  PROVE  Granted(c).room <=> ~Full(c.side, c.cluster)
<1> DEFINE total == Fit(Whole(c), cycle.used.total, limits.total * cycle.equity)
           side == FitIfAny(total, cycle.used.side[c.side], limits.side[c.side])
           both == IF c.cluster = NoCluster THEN side
                   ELSE FitIfAny(side, cycle.used.cluster[c.cluster], limits.cluster)
<1>1. /\ limits.total \in Nat /\ limits.side[c.side] \in Nat /\ limits.cluster \in Nat
      /\ cycle.equity \in Nat /\ limits.total * cycle.equity \in Nat
  <2>1. /\ limits.total \in Nat /\ limits.side[c.side] \in Nat
        /\ limits.cluster \in Nat /\ cycle.equity \in Nat
    BY AllocationAssumption DEF TypeOK, Limit, Candidate
  <2>2. QED
    BY <2>1, MulNat
<1>2. /\ cycle.used.total \in Nat /\ cycle.used.side[c.side] \in Nat
      /\ c.cluster # NoCluster => cycle.used.cluster[c.cluster] \in Nat
  BY DEF TypeOK, Budget, Candidate
<1>3. Whole(c) \in Grant /\ Whole(c).room /\ Whole(c).risk > 0
  <2>1. c.qty \in Nat \ {0} /\ c.dist \in Nat \ {0}
    BY AllocationAssumption DEF Candidate
  <2>2. c.qty * c.dist \in Nat \ {0}
    BY <2>1, MulPos
  <2>3. QED
    BY <2>2 DEF Whole, Grant
<1>4. /\ total \in Grant /\ (total.room => total.risk > 0)
      /\ total.room <=> ~(limits.total * cycle.equity <= cycle.used.total)
  BY <1>1, <1>2, <1>3, FitGrant, FitRoom
<1>5. /\ side \in Grant /\ (side.room => side.risk > 0)
      /\ side.room <=> /\ total.room
                       /\ ~(/\ limits.side[c.side] # 0
                            /\ limits.side[c.side] * cycle.equity
                                 <= cycle.used.side[c.side])
  <2> HIDE DEF total
  <2>1. QED
    BY <1>1, <1>2, <1>4, FitIfAnyGrant, FitIfAnyRoom
<1>6. /\ both \in Grant
      /\ both.room <=> /\ side.room
                       /\ ~(/\ c.cluster # NoCluster /\ limits.cluster # 0
                            /\ limits.cluster * cycle.equity
                                 <= cycle.used.cluster[c.cluster])
  <2> HIDE DEF side
  <2>1. CASE c.cluster = NoCluster
    BY <1>5, <2>1 DEF Grant
  <2>2. CASE c.cluster # NoCluster
    BY <1>1, <1>2, <1>5, <2>2, FitIfAnyGrant, FitIfAnyRoom
  <2>3. QED
    BY <2>1, <2>2
<1>7. Granted(c).room <=> both.room
  <2>1. Granted(c) = Weigh(both)
    BY DEF Granted
  <2> HIDE DEF both
  <2>2. QED
    BY <1>6, <2>1 DEF Weigh, Grant
<1>8. QED
  <2> HIDE DEF total, side, both
  <2>1. QED
    BY <1>4, <1>5, <1>6, <1>7 DEF Full

ScoresInOrder ==
  \A i \in DOMAIN cycle.decided, o \in cycle.offers :
    o.score <= cycle.decided[i].for.score
RefusedAreFull ==
  \A i \in DOMAIN cycle.decided :
    cycle.decided[i].why = "no_room"
      => Full(cycle.decided[i].for.side, cycle.decided[i].for.cluster)

OrderInv ==
  /\ HigherScoreFirst
  /\ cycle.at \in {"idle", "tally", "offer", "late"} => cycle.decided = <<>>
  /\ cycle.at = "allocate" => ScoresInOrder /\ RefusedAreFull

LEMMA AllocateKeepsOrder ==
  ASSUME TypeOK, OrderInv, NEW c \in cycle.offers, Allocate(c)
  PROVE  OrderInv'
<1> DEFINE d == Decide(c, Granted(c))
           n == Len(cycle.decided)
<1>1. c \in Candidate /\ cycle.decided \in Seq(Decision) /\ n \in Nat
  BY DEF TypeOK
<1>2. /\ cycle'.decided = Append(cycle.decided, d) /\ cycle'.offers = cycle.offers \ {c}
      /\ cycle'.used = Booked(cycle.used, d) /\ cycle'.at = "allocate"
      /\ cycle'.equity = cycle.equity /\ limits' = limits /\ cycle.at = "allocate"
      /\ \A o \in cycle.offers : o.score <= c.score
  BY DEF Allocate, TypeOK
<1>3. /\ d \in Decision /\ d.for = c
      /\ d.why = "no_room" <=> Full(c.side, c.cluster)
  <2>1. d \in Decision /\ d.for = c
    BY <1>1, GrantedFits, DecideType
  <2>2. d.why = "no_room" <=> ~Granted(c).room
    BY DEF Decide
  <2>3. QED
    BY <1>1, <2>1, <2>2, RoomIffNotFull
<1> HIDE DEF d
<1>4. /\ DOMAIN cycle'.decided = 1..(n + 1) /\ DOMAIN cycle.decided = 1..n
      /\ \A i \in 1..n : cycle'.decided[i] = cycle.decided[i]
      /\ cycle'.decided[n + 1] = d
  BY <1>1, <1>2, <1>3
<1>5. \A i \in 1..n : cycle.decided[i] \in Decision /\ cycle.decided[i].for \in Candidate
  BY <1>1 DEF Decision
<1>6. ScoresInOrder /\ RefusedAreFull /\ HigherScoreFirst
  BY <1>2 DEF OrderInv
<1>7. ScoresInOrder'
  BY <1>2, <1>3, <1>4, <1>6 DEF ScoresInOrder
<1>8. ASSUME NEW e \in Side, NEW k \in Cluster \cup {NoCluster}, Full(e, k)
      PROVE  Full(e, k)'
  <2> DEFINE x == [side |-> d.for.side, cluster |-> d.for.cluster, risk |-> d.risk]
  <2>1. cycle.used \in Budget /\ x \in Charge /\ d.risk \in Nat
    BY <1>3, DecisionCharge DEF TypeOK, Decision
  <2>2. /\ limits.total \in Nat /\ limits.side[e] \in Nat
        /\ limits.cluster \in Nat /\ cycle.equity \in Nat
    BY AllocationAssumption DEF TypeOK, Limit
  <2>3. cycle'.used = Charged(cycle.used, x)
    BY <1>2 DEF Booked
  <2>4. /\ cycle'.used.total = cycle.used.total + d.risk
        /\ cycle'.used.side[e] = cycle.used.side[e]
             \/ cycle'.used.side[e] = cycle.used.side[e] + d.risk
        /\ k # NoCluster => \/ cycle'.used.cluster[k] = cycle.used.cluster[k] + 0
                            \/ cycle'.used.cluster[k] = cycle.used.cluster[k] + d.risk
    BY <2>1, <2>3, ChargedBudget
  <2>5. /\ cycle.used.total \in Nat /\ cycle.used.side[e] \in Nat
        /\ k # NoCluster => cycle.used.cluster[k] \in Nat
    BY <2>1 DEF Budget
  <2>6. /\ limits.total * cycle.equity \in Nat /\ limits.side[e] * cycle.equity \in Nat
        /\ limits.cluster * cycle.equity \in Nat
    BY <2>2, MulNat
  <2>7. QED
    BY <1>2, <1>8, <2>1, <2>4, <2>5, <2>6 DEF Full
<1>9. RefusedAreFull'
  <2> SUFFICES ASSUME NEW i \in DOMAIN cycle'.decided, cycle'.decided[i].why = "no_room"
               PROVE  Full(cycle.decided[i].for.side, cycle.decided[i].for.cluster)'
    BY DEF RefusedAreFull
  <2>1. CASE i \in 1..n
    <3>1. Full(cycle.decided[i].for.side, cycle.decided[i].for.cluster)
      BY <1>4, <1>6, <2>1 DEF RefusedAreFull
    <3>2. /\ cycle.decided[i].for.side \in Side
          /\ cycle.decided[i].for.cluster \in Cluster \cup {NoCluster}
      BY <1>5, <2>1 DEF Candidate
    <3>3. Full(cycle.decided[i].for.side, cycle.decided[i].for.cluster)
            => \E e \in Side, k \in Cluster \cup {NoCluster} :
                 /\ e = cycle'.decided[i].for.side /\ k = cycle'.decided[i].for.cluster
                 /\ Full(e, k)'
      BY <1>4, <1>8, <2>1, <3>2
    <3>4. QED
      BY <3>1, <3>3 DEF Full
  <2>2. CASE i = n + 1
    <3>1. Full(c.side, c.cluster)
      BY <1>3, <1>4, <2>2
    <3>2. c.side \in Side /\ c.cluster \in Cluster \cup {NoCluster}
      BY <1>1 DEF Candidate
    <3>3. Full(c.side, c.cluster)'
      BY <1>8, <3>1, <3>2
    <3>4. cycle'.decided[i].for = c
      BY <1>3, <1>4, <2>2
    <3>5. QED
      BY <3>3, <3>4 DEF Full
  <2>3. QED
    BY <1>4, <2>1, <2>2
<1>10. HigherScoreFirst'
  <2> SUFFICES ASSUME NEW i \in 1..(n + 1), NEW j \in 1..(n + 1),
                      cycle'.decided[i].for.score > cycle'.decided[j].for.score,
                      cycle'.decided[i].why = "no_room",
                      cycle'.decided[i].for.side = cycle'.decided[j].for.side,
                      cycle'.decided[i].for.cluster = cycle'.decided[j].for.cluster
               PROVE  cycle'.decided[j].why # "granted"
    BY <1>4 DEF HigherScoreFirst
  <2>1. CASE i \in 1..n /\ j \in 1..n
    BY <1>4, <1>6, <2>1 DEF HigherScoreFirst
  <2>2. CASE i \in 1..n /\ j = n + 1
    <3>1. Full(c.side, c.cluster)
      BY <1>3, <1>4, <1>6, <2>2 DEF RefusedAreFull
    <3>2. QED
      BY <1>3, <1>4, <2>2, <3>1
  <2>3. CASE i = n + 1 /\ j \in 1..n
    <3>1. c.score <= cycle.decided[j].for.score
      BY <1>4, <1>6, <2>3 DEF ScoresInOrder
    <3>2. c.score \in Nat /\ cycle.decided[j].for.score \in Nat
      BY <1>1, <1>5, <2>3, AllocationAssumption DEF Candidate
    <3>3. cycle'.decided[i].for = c /\ cycle'.decided[j] = cycle.decided[j]
      BY <1>3, <1>4, <2>3
    <3>4. QED
      BY <3>1, <3>2, <3>3
  <2>4. CASE i = n + 1 /\ j = n + 1
    BY <1>3, <1>4, <2>4
  <2>5. QED
    BY <2>1, <2>2, <2>3, <2>4
<1>11. QED
  BY <1>2, <1>7, <1>9, <1>10 DEF OrderInv

LEMMA OrderStep == TypeOK /\ OrderInv /\ [Next]_vars => OrderInv'
<1> SUFFICES ASSUME TypeOK, OrderInv, [Next]_vars PROVE OrderInv'
  OBVIOUS
<1>1. ASSUME NEW c \in cycle.offers, Allocate(c) PROVE OrderInv'
  BY <1>1, AllocateKeepsOrder
<1>2. ASSUME cycle'.decided = <<>> PROVE OrderInv'
  BY <1>2 DEF OrderInv, HigherScoreFirst, ScoresInOrder, RefusedAreFull
<1>3. ASSUME NEW clusters \in [Symbol -> Cluster \cup {NoCluster}], CycleStart(clusters)
      PROVE  OrderInv'
  BY <1>2, <1>3 DEF CycleStart, Idle
<1>4. ASSUME NEW y \in cycle.listed, Tally(y) PROVE OrderInv'
  <2>1. cycle'.decided = <<>>
    BY <1>4 DEF Tally, TypeOK, OrderInv
  <2>2. QED
    BY <1>2, <2>1
<1>5. CASE Tallied \/ Collected \/ \E c \in Signals : Offer(c) \/ PlaceLate(c)
  <2>1. cycle'.decided = <<>>
    BY <1>5 DEF Tallied, Collected, Offer, PlaceLate, TypeOK, OrderInv
  <2>2. QED
    BY <1>2, <2>1
<1>6. CASE Allocated
  <2>1. cycle'.decided = cycle.decided /\ cycle'.at = "place"
    BY <1>6 DEF Allocated, Idle
  <2>2. QED
    BY <2>1 DEF OrderInv, HigherScoreFirst
<1>7. CASE Place \/ Skip
  <2>1. /\ cycle'.decided = Tail(cycle.decided) /\ cycle'.at = "place"
        /\ cycle.decided # <<>> /\ cycle.decided \in Seq(Decision)
    BY <1>7 DEF Place, Skip, TypeOK
  <2>2. \A i \in DOMAIN cycle'.decided :
          i + 1 \in DOMAIN cycle.decided /\ cycle'.decided[i] = cycle.decided[i + 1]
    BY <2>1
  <2>3. HigherScoreFirst'
    BY <2>2 DEF OrderInv, HigherScoreFirst
  <2>4. QED
    BY <2>1, <2>3 DEF OrderInv
<1>8. CASE CycleEnd
  BY <1>2, <1>8 DEF CycleEnd, Idle
<1>9. CASE EquityMoves \/ (\E s \in Symbol : Leave(s) \/ Lighten(s)) \/ UNCHANGED vars
  <2>1. cycle' = cycle /\ limits' = limits
    BY <1>9 DEF EquityMoves, Leave, Lighten, vars
  <2>2. QED
    BY <2>1 DEF OrderInv, HigherScoreFirst, ScoresInOrder, RefusedAreFull, Full
<1>10. QED
  BY <1>1, <1>3, <1>4, <1>5, <1>6, <1>7, <1>8, <1>9 DEF Next

THEOREM ScoresDecide == Spec => []HigherScoreFirst
<1>1. Init => OrderInv
  BY DEF Init, OrderInv, HigherScoreFirst, Idle
<1>2. OrderInv => HigherScoreFirst
  BY DEF OrderInv
<1>3. QED
  BY <1>1, <1>2, OrderStep, TypeCorrect, PTL DEF Spec

(***************************************************************************)
(* Sums over finite sets.  The fold behind SumFunctionOnSet is a recursive *)
(* function on the subsets of its set; induction over them is the search   *)
(* for a smallest counterexample.                                          *)
(***************************************************************************)

(* Induction over a finite set, as the smallest counterexample.            *)
LEMMA SmallestSubset ==
  ASSUME NEW S, IsFiniteSet(S), NEW T \in SUBSET (SUBSET S), T # {}
  PROVE  \E t \in T : \A u \in T : u \subseteq t => u = t
<1>1. IsWellFoundedOn(StrictSubsetOrdering(S), SUBSET S)
  BY FS_FiniteSubsetsOfFinite, FS_StrictSubsetOrderingWellFounded
<1>2. \E t \in T : \A u \in T : ~(<<u, t>> \in StrictSubsetOrdering(S))
  BY <1>1, WFMin
<1> QED
  BY <1>2 DEF StrictSubsetOrdering

First(s) == CHOOSE x \in s : TRUE
Sums(f, S) == CHOOSE g : g = [s \in SUBSET S |->
  IF s = {} THEN 0 ELSE LET x == CHOOSE x \in s : TRUE IN f[x] + g[s \ {x}]]

(* g adds f up over the subsets in D.                                      *)
Adds(g, f, D) == g = [s \in D |-> IF s = {} THEN 0 ELSE f[First(s)] + g[s \ {First(s)}]]

LEMMA SumIs ==
  ASSUME NEW f, NEW S
  PROVE  SumFunctionOnSet(f, S) = Sums(f, S)[S]
BY DEF SumFunctionOnSet, FoldFunctionOnSet, MapThenFoldSet, Sums

UpTo(S, n) == {s \in SUBSET S : Cardinality(s) <= n}

LEMMA SumsExist ==
  ASSUME NEW f, NEW S, IsFiniteSet(S)
  PROVE  Adds(Sums(f, S), f, SUBSET S)
<1> DEFINE Bad == {n \in Nat : ~ \E g : Adds(g, f, UpTo(S, n))}
<1>1. Bad = {}
  <2> SUFFICES ASSUME Bad # {} PROVE FALSE
    OBVIOUS
  <2>1. PICK n \in Bad : \A m \in Bad : ~(m < n)
    <3>1. Bad \subseteq Nat
      OBVIOUS
    <3> HIDE DEF Bad
    <3>2. PICK n \in Bad : \A m \in Bad : ~(<<m, n>> \in OpToRel(<, Nat))
      BY <3>1, NatLessThanWellFounded, WFMin
    <3> QED
      BY <3>1, <3>2 DEF OpToRel
  <2>2. CASE n = 0
    <3>1. UpTo(S, 0) = {{}}
      BY FS_EmptySet, FS_Subset, FS_CardinalityType DEF UpTo
    <3>2. Adds([s \in {{}} |-> 0], f, {{}})
      BY DEF Adds
    <3> QED
      BY <2>1, <2>2, <3>1, <3>2
  <2>3. CASE n # 0
    <3>1. n - 1 \in Nat /\ n - 1 \notin Bad
      BY <2>1, <2>3
    <3>2. PICK g : Adds(g, f, UpTo(S, n - 1))
      BY <3>1
    <3> DEFINE h == [s \in UpTo(S, n) |-> IF s = {} THEN 0 ELSE f[First(s)] + g[s \ {First(s)}]]
    <3>3. ASSUME NEW s \in UpTo(S, n), s # {}
          PROVE  h[s \ {First(s)}] = g[s \ {First(s)}]
      <4> DEFINE t == s \ {First(s)}
      <4>1. First(s) \in s
        BY <3>3 DEF First
      <4>2. IsFiniteSet(s) /\ Cardinality(s) \in Nat /\ Cardinality(s) <= n
        BY FS_Subset, FS_CardinalityType DEF UpTo
      <4>3. t \in SUBSET S /\ Cardinality(t) = Cardinality(s) - 1
        BY <4>1, <4>2, FS_RemoveElement DEF UpTo
      <4>4. t \in UpTo(S, n) /\ t \in UpTo(S, n - 1)
        BY <4>2, <4>3, <2>1 DEF UpTo
      <4>5. h[t] = IF t = {} THEN 0 ELSE f[First(t)] + g[t \ {First(t)}]
        BY <4>4
      <4>6. g[t] = IF t = {} THEN 0 ELSE f[First(t)] + g[t \ {First(t)}]
        BY <3>2, <4>4 DEF Adds
      <4> QED
        BY <4>5, <4>6
    <3>4. Adds(h, f, UpTo(S, n))
      <4> HIDE DEF h
      <4>1. h = [s \in UpTo(S, n) |-> IF s = {} THEN 0 ELSE f[First(s)] + g[s \ {First(s)}]]
        BY DEF h
      <4>2. h = [s \in UpTo(S, n) |-> IF s = {} THEN 0 ELSE f[First(s)] + h[s \ {First(s)}]]
        BY <4>1, <3>3
      <4> QED
        BY <4>2 DEF Adds
    <3> QED
      BY <2>1, <3>4
  <2> QED
    BY <2>2, <2>3
<1>2. UpTo(S, Cardinality(S)) = SUBSET S /\ Cardinality(S) \in Nat
  BY FS_Subset, FS_CardinalityType DEF UpTo
<1>3. PICK g : Adds(g, f, SUBSET S)
  <2>1. Cardinality(S) \notin Bad
    BY <1>1
  <2>2. \E g : Adds(g, f, UpTo(S, Cardinality(S)))
    BY <1>2, <2>1
  <2> QED
    BY <1>2, <2>2
<1>4. g = [s \in SUBSET S |-> IF s = {} THEN 0 ELSE LET x == CHOOSE x \in s : TRUE IN f[x] + g[s \ {x}]]
  BY <1>3 DEF Adds, First
<1>5. Sums(f, S) = [s \in SUBSET S |-> IF s = {} THEN 0 ELSE LET x == CHOOSE x \in s : TRUE IN f[x] + Sums(f, S)[s \ {x}]]
  BY <1>4 DEF Sums
<1> QED
  BY <1>5 DEF Adds, First

(* What the sums over the subsets of T are does not depend on T.           *)
LEMMA SumsAgree ==
  ASSUME NEW f, NEW S, IsFiniteSet(S), NEW T \in SUBSET S
  PROVE  SumFunctionOnSet(f, T) = Sums(f, S)[T]
<1> DEFINE Bad == {s \in SUBSET T : Sums(f, T)[s] # Sums(f, S)[s]}
<1>1. IsFiniteSet(T)
  BY FS_Subset
<1>2. Adds(Sums(f, S), f, SUBSET S) /\ Adds(Sums(f, T), f, SUBSET T)
  BY <1>1, SumsExist
<1>3. Bad = {}
  <2> SUFFICES ASSUME Bad # {} PROVE FALSE
    OBVIOUS
  <2>1. PICK s \in Bad : \A u \in Bad : u \subseteq s => u = s
    <3>1. Bad \in SUBSET (SUBSET T)
      OBVIOUS
    <3> HIDE DEF Bad
    <3> QED
      BY <1>1, <3>1, SmallestSubset
  <2>2. s \in SUBSET T /\ s \in SUBSET S
    OBVIOUS
  <2>3. /\ Sums(f, S)[s] = IF s = {} THEN 0 ELSE f[First(s)] + Sums(f, S)[s \ {First(s)}]
        /\ Sums(f, T)[s] = IF s = {} THEN 0 ELSE f[First(s)] + Sums(f, T)[s \ {First(s)}]
    BY <1>2, <2>2 DEF Adds
  <2>4. s # {}
    BY <2>3
  <2>5. First(s) \in s
    BY <2>4 DEF First
  <2>6. s \ {First(s)} \notin Bad
    BY <2>1, <2>5
  <2> QED
    BY <2>2, <2>3, <2>6
<1> QED
  BY <1>3, SumIs

(* The sum over a set, its first element taken out.                        *)
LEMMA SumFirst ==
  ASSUME NEW f, NEW S, IsFiniteSet(S)
  PROVE  SumFunctionOnSet(f, S) =
           IF S = {} THEN 0 ELSE f[First(S)] + SumFunctionOnSet(f, S \ {First(S)})
<1>1. Sums(f, S)[S] = IF S = {} THEN 0 ELSE f[First(S)] + Sums(f, S)[S \ {First(S)}]
  <2>1. Adds(Sums(f, S), f, SUBSET S) /\ S \in SUBSET S
    BY SumsExist
  <2> QED
    BY <2>1 DEF Adds
<1>2. SumFunctionOnSet(f, S) = Sums(f, S)[S]
  BY SumIs
<1>3. SumFunctionOnSet(f, S \ {First(S)}) = Sums(f, S)[S \ {First(S)}]
  BY SumsAgree
<1> QED
  BY <1>1, <1>2, <1>3

(* A sum of integers is one.                                               *)
LEMMA SumType ==
  ASSUME NEW f, NEW S, IsFiniteSet(S), \A x \in S : f[x] \in Int
  PROVE  SumFunctionOnSet(f, S) \in Int
<1> DEFINE Bad == {s \in SUBSET S : SumFunctionOnSet(f, s) \notin Int}
<1>1. Bad = {}
  <2> SUFFICES ASSUME Bad # {} PROVE FALSE
    OBVIOUS
  <2>1. PICK s \in Bad : \A u \in Bad : u \subseteq s => u = s
    <3>1. Bad \in SUBSET (SUBSET S)
      OBVIOUS
    <3> HIDE DEF Bad
    <3> QED
      BY <3>1, SmallestSubset
  <2>2. s \in SUBSET S /\ IsFiniteSet(s)
    BY FS_Subset
  <2>3. SumFunctionOnSet(f, s)
          = IF s = {} THEN 0 ELSE f[First(s)] + SumFunctionOnSet(f, s \ {First(s)})
    BY <2>2, SumFirst
  <2>4. s # {}
    BY <2>3
  <2>5. First(s) \in s
    BY <2>4 DEF First
  <2>6. s \ {First(s)} \notin Bad
    BY <2>1, <2>5
  <2>7. SumFunctionOnSet(f, s \ {First(s)}) \in Int
    BY <2>2, <2>6
  <2>8. SumFunctionOnSet(f, s) \in Int
    BY <2>2, <2>3, <2>5, <2>7
  <2> QED
    BY <2>8
<1>2. S \notin Bad
  BY <1>1
<1> QED
  BY <1>2

(* The summands may be taken in any order.                                 *)
LEMMA SumTakeOut ==
  ASSUME NEW f, NEW S, IsFiniteSet(S), \A x \in S : f[x] \in Int, NEW y \in S
  PROVE  SumFunctionOnSet(f, S) = f[y] + SumFunctionOnSet(f, S \ {y})
<1> DEFINE Bad == {s \in SUBSET S : \E z \in s :
                     SumFunctionOnSet(f, s) # f[z] + SumFunctionOnSet(f, s \ {z})}
<1>1. Bad = {}
  <2> SUFFICES ASSUME Bad # {} PROVE FALSE
    OBVIOUS
  <2>1. PICK s \in Bad : \A u \in Bad : u \subseteq s => u = s
    <3>1. Bad \in SUBSET (SUBSET S)
      OBVIOUS
    <3> HIDE DEF Bad
    <3> QED
      BY <3>1, SmallestSubset
  <2>2. PICK z \in s : SumFunctionOnSet(f, s) # f[z] + SumFunctionOnSet(f, s \ {z})
    OBVIOUS
  <2> DEFINE x == First(s)
  <2>3. s \in SUBSET S /\ x \in s
    BY <2>2 DEF First
  <2> HIDE DEF x
  <2>4. \A u \in SUBSET S : IsFiniteSet(u) /\ SumFunctionOnSet(f, u) \in Int
    BY FS_Subset, SumType
  <2>5. SumFunctionOnSet(f, s) = f[x] + SumFunctionOnSet(f, s \ {x})
    BY <2>3, <2>4, SumFirst DEF x
  <2>6. x # z
    BY <2>2, <2>5
  <2>7. s \ {x} \notin Bad /\ s \ {z} \notin Bad
    BY <2>1, <2>2, <2>3
  <2>8. /\ SumFunctionOnSet(f, s \ {x}) = f[z] + SumFunctionOnSet(f, (s \ {x}) \ {z})
        /\ SumFunctionOnSet(f, s \ {z}) = f[x] + SumFunctionOnSet(f, (s \ {z}) \ {x})
    BY <2>2, <2>3, <2>6, <2>7
  <2>9. (s \ {x}) \ {z} = (s \ {z}) \ {x}
    OBVIOUS
  <2>10. SumFunctionOnSet(f, (s \ {x}) \ {z}) \in Int /\ f[x] \in Int /\ f[z] \in Int
    BY <2>2, <2>3, <2>4
  <2> DEFINE rest == SumFunctionOnSet(f, (s \ {x}) \ {z})
  <2>11. f[x] + (f[z] + rest) = f[z] + (f[x] + rest)
    <3> HIDE DEF rest
    <3>1. \A a, b, c \in Int : a + (b + c) = b + (a + c)
      OBVIOUS
    <3> QED
      BY <2>10, <3>1 DEF rest
  <2>12. f[x] + SumFunctionOnSet(f, s \ {x}) = f[z] + SumFunctionOnSet(f, s \ {z})
    BY <2>8, <2>9, <2>11
  <2> QED
    BY <2>2, <2>5, <2>12
<1>2. S \notin Bad
  BY <1>1
<1> QED
  BY <1>2
(* Sums are ordered as their summands.                                     *)
LEMMA SumOrder ==
  ASSUME NEW f, NEW g, NEW S, IsFiniteSet(S),
         \A x \in S : f[x] \in Int /\ g[x] \in Int /\ f[x] <= g[x]
  PROVE  SumFunctionOnSet(f, S) <= SumFunctionOnSet(g, S)
<1> DEFINE Bad == {s \in SUBSET S : ~(SumFunctionOnSet(f, s) <= SumFunctionOnSet(g, s))}
<1>1. Bad = {}
  <2> SUFFICES ASSUME Bad # {} PROVE FALSE
    OBVIOUS
  <2>1. PICK s \in Bad : \A u \in Bad : u \subseteq s => u = s
    <3>1. Bad \in SUBSET (SUBSET S)
      OBVIOUS
    <3> HIDE DEF Bad
    <3> QED
      BY <3>1, SmallestSubset
  <2>2. s \in SUBSET S /\ IsFiniteSet(s)
    BY FS_Subset
  <2>3. /\ SumFunctionOnSet(f, s)
            = IF s = {} THEN 0 ELSE f[First(s)] + SumFunctionOnSet(f, s \ {First(s)})
        /\ SumFunctionOnSet(g, s)
            = IF s = {} THEN 0 ELSE g[First(s)] + SumFunctionOnSet(g, s \ {First(s)})
    BY <2>2, SumFirst
  <2>4. s # {}
    BY <2>3
  <2>5. First(s) \in s
    BY <2>4 DEF First
  <2>6. SumFunctionOnSet(f, s \ {First(s)}) <= SumFunctionOnSet(g, s \ {First(s)})
    BY <2>1, <2>2, <2>5
  <2>7. /\ SumFunctionOnSet(f, s \ {First(s)}) \in Int
        /\ SumFunctionOnSet(g, s \ {First(s)}) \in Int
        /\ f[First(s)] \in Int /\ g[First(s)] \in Int /\ f[First(s)] <= g[First(s)]
    BY <2>2, <2>5, FS_Subset, SumType
  <2>8. SumFunctionOnSet(f, s) <= SumFunctionOnSet(g, s)
    BY <2>3, <2>4, <2>6, <2>7
  <2> QED
    BY <2>8
<1>2. S \notin Bad
  BY <1>1
<1> QED
  BY <1>2

(* A sum of nothing positive is not positive.                              *)
LEMMA SumNotPositive ==
  ASSUME NEW f, NEW S, IsFiniteSet(S), \A x \in S : f[x] \in Int /\ f[x] <= 0
  PROVE  SumFunctionOnSet(f, S) <= 0
<1> DEFINE Bad == {s \in SUBSET S : ~(SumFunctionOnSet(f, s) <= 0)}
<1>1. Bad = {}
  <2> SUFFICES ASSUME Bad # {} PROVE FALSE
    OBVIOUS
  <2>1. PICK s \in Bad : \A u \in Bad : u \subseteq s => u = s
    <3>1. Bad \in SUBSET (SUBSET S)
      OBVIOUS
    <3> HIDE DEF Bad
    <3> QED
      BY <3>1, SmallestSubset
  <2>2. s \in SUBSET S /\ IsFiniteSet(s)
    BY FS_Subset
  <2>3. SumFunctionOnSet(f, s)
          = IF s = {} THEN 0 ELSE f[First(s)] + SumFunctionOnSet(f, s \ {First(s)})
    BY <2>2, SumFirst
  <2>4. s # {}
    BY <2>3
  <2>5. First(s) \in s
    BY <2>4 DEF First
  <2>6. SumFunctionOnSet(f, s \ {First(s)}) <= 0
    BY <2>1, <2>2, <2>5
  <2>7. /\ SumFunctionOnSet(f, s \ {First(s)}) \in Int
        /\ f[First(s)] \in Int /\ f[First(s)] <= 0
    BY <2>2, <2>5, FS_Subset, SumType
  <2>8. SumFunctionOnSet(f, s) <= 0
    BY <2>3, <2>4, <2>6, <2>7
  <2> QED
    BY <2>8
<1>2. S \notin Bad
  BY <1>1
<1> QED
  BY <1>2

(* One summand changed.                                                    *)
LEMMA SumChange ==
  ASSUME NEW S, IsFiniteSet(S), NEW f \in [S -> Int], NEW g \in [S -> Int],
         NEW y \in S, \A x \in S : x # y => g[x] = f[x]
  PROVE  SumFunctionOnSet(g, S) = SumFunctionOnSet(f, S) - f[y] + g[y]
<1>1. SumFunctionOnSet(f, S) = f[y] + SumFunctionOnSet(f, S \ {y})
  BY SumTakeOut
<1>2. SumFunctionOnSet(g, S) = g[y] + SumFunctionOnSet(g, S \ {y})
  BY SumTakeOut
<1>3. IsFiniteSet(S \ {y})
  BY FS_Subset
<1>4. /\ SumFunctionOnSet(g, S \ {y}) <= SumFunctionOnSet(f, S \ {y})
      /\ SumFunctionOnSet(f, S \ {y}) <= SumFunctionOnSet(g, S \ {y})
  BY <1>3, SumOrder
<1>5. SumFunctionOnSet(f, S \ {y}) \in Int /\ SumFunctionOnSet(g, S \ {y}) \in Int
  BY <1>3, SumType
<1> QED
  BY <1>1, <1>2, <1>4, <1>5

(***************************************************************************)
(* The total budget and the orders.  With a total budget alone, a quantity *)
(* stands for no more risk than was booked for it, but for half a step.    *)
(***************************************************************************)
LEMMA RoundBound ==
  ASSUME NEW n \in Nat, NEW d \in Nat \ {0}
  PROVE  2 * (d * RoundHalfEven(n, d)) <= 2 * n + d
<1> DEFINE q == n \div d
           m == n % d
<1>1. q \in Nat /\ m \in Nat /\ n = d * q + m
  OBVIOUS
<1>2. \/ RoundHalfEven(n, d) = q
      \/ RoundHalfEven(n, d) = q + 1 /\ d <= 2 * m
  BY <1>1 DEF RoundHalfEven
<1> HIDE DEF q, m
<1>3. d * q \in Nat /\ d * (q + 1) = d * q + d
  BY <1>1
<1> QED
  BY <1>1, <1>2, <1>3

LEMMA Cancel ==
  ASSUME NEW a \in Nat \ {0}, NEW x \in Int, NEW y \in Int, a * x <= a * y
  PROVE  x <= y
<1> SUFFICES ASSUME x >= y + 1 PROVE FALSE
  OBVIOUS
<1> DEFINE z == x - y - 1
<1>1. z \in Nat /\ x = y + 1 + z
  OBVIOUS
<1> HIDE DEF z
<1>2. a * x = a * y + a + a * z
  BY <1>1
<1>3. a * z \in Nat /\ a * y \in Int
  BY <1>1, MulNat
<1> QED
  BY <1>2, <1>3

(* A size of n steps, each worth risk d, cut down to risk r.               *)
LEMMA CutRounds ==
  ASSUME NEW n \in Nat \ {0}, NEW d \in Nat \ {0}, NEW r \in Nat
  PROVE  2 * (d * RoundHalfEven(n * r, n * d)) <= 2 * r + d
<1> DEFINE q == RoundHalfEven(n * r, n * d)
<1>1. n * r \in Nat /\ n * d \in Nat \ {0} /\ q \in Int
  BY MulNat, MulPos, RoundInt
<1>2. 2 * ((n * d) * q) <= 2 * (n * r) + n * d
  BY <1>1, RoundBound
<1> HIDE DEF q
<1>3. /\ d * q \in Int
      /\ n * (2 * (d * q)) = 2 * ((n * d) * q)
      /\ n * (2 * r + d) = 2 * (n * r) + n * d
  BY <1>1
<1>4. 2 * (d * q) \in Int /\ 2 * r + d \in Int
  BY <1>3
<1>5. n * (2 * (d * q)) <= n * (2 * r + d)
  BY <1>2, <1>3
<1> QED
  BY <1>4, <1>5, Cancel DEF q

(* Cut is a grant of risk r out of the whole of c.                         *)
Cut(c, r) == [risk |-> r, num |-> r, den |-> c.qty * c.dist, room |-> TRUE]

(* A grant is the whole, nothing, or one cut.                              *)
LEMMA GrantedOnce ==
  ASSUME TypeOK, TotalOnly, NEW c \in Candidate
  PROVE  \/ ~Granted(c).room
         \/ Granted(c) = Whole(c)
         \/ \E r \in Nat : Granted(c) = Cut(c, r)
<1> DEFINE cap == limits.total * cycle.equity
           total == Fit(Whole(c), cycle.used.total, cap)
<1>1. /\ limits.total \in Nat /\ cycle.equity \in Nat /\ cycle.used.total \in Nat
      /\ MaxPositions \in Nat \ {0}
  BY AllocationAssumption DEF TypeOK, Limit, Budget
<1>2. cap \in Nat /\ (2 * limits.total) * cycle.equity \in Nat
  BY <1>1, MulNat
<1>3. TwiceShare \in Nat
  BY <1>1, <1>2, DivNat DEF TwiceShare
<1>4. Granted(c) = Weigh(total)
  BY DEF Granted, FitIfAny, TotalOnly, Candidate
<1>5. c.qty \in Nat \ {0} /\ c.dist \in Nat \ {0} /\ c.qty * c.dist \in Nat \ {0}
  BY AllocationAssumption, MulPos DEF Candidate
<1> HIDE DEF cap
<1>6. CASE total = Whole(c)
  <2>1. Weigh(Whole(c)) = Whole(c) \/ Weigh(Whole(c)) = Cut(c, TwiceShare)
    BY DEF Weigh, Whole, Cut
  <2> QED
    BY <1>3, <1>4, <1>6, <2>1
<1>7. CASE total = Nothing
  BY <1>4, <1>7 DEF Weigh, Nothing
<1>8. CASE total # Whole(c) /\ total # Nothing
  <2> DEFINE r == cap - cycle.used.total
  <2>1. total = Cut(c, r) /\ r \in Nat /\ r < c.qty * c.dist
    BY <1>1, <1>2, <1>5, <1>8 DEF Fit, Whole, Cut
  <2>2. Weigh(Cut(c, r)) = Cut(c, r)
    BY <2>1 DEF Weigh, Cut, Resized
  <2> QED
    BY <1>4, <2>1, <2>2
<1> QED
  BY <1>6, <1>7, <1>8

(* What a decision allows is a quantity for its risk, within the total.    *)
HalfStepFor(d) == 2 * (d.qty * d.for.dist) - d.for.dist <= 2 * d.risk

LEMMA DecisionRounds ==
  ASSUME TypeOK, TotalOnly, NEW c \in Candidate, Decide(c, Granted(c)).why = "granted"
  PROVE  /\ HalfStepFor(Decide(c, Granted(c)))
         /\ cycle.used.total + Decide(c, Granted(c)).risk <= limits.total * cycle.equity
<1> DEFINE g == Granted(c)
           n == RoundHalfEven(c.qty * g.num, g.den)
           d == Decide(c, g)
<1>1. g \in Grant /\ FitsBudgets(c, g.risk)
  BY GrantedFits
<1>2. /\ c.qty \in Nat \ {0} /\ c.dist \in Nat \ {0} /\ c.qty * c.dist \in Nat \ {0}
      /\ MinQty \in Nat \ {0}
  BY AllocationAssumption, MulPos DEF Candidate
<1>3. c.qty * g.num \in Nat /\ MinQty * g.den \in Nat /\ g.risk \in Nat
  BY <1>1, <1>2, MulNat DEF Grant
<1>4. g.room /\ c.qty * g.num >= MinQty * g.den
  <2>1. g.room /\ ~(c.qty * g.num < MinQty * g.den)
    <3> HIDE DEF g
    <3>1. Decide(c, g).why = "granted"
      BY DEF g
    <3> QED
      BY <3>1, Zenon DEF Decide
  <2> QED
    BY <1>3, <2>1
<1>5. d = [for |-> c, qty |-> AtLeast(MinQty, n), risk |-> g.risk, why |-> "granted"]
  <2>1. ~(c.qty * g.num < MinQty * g.den)
    BY <1>4, <1>3
  <2> HIDE DEF g
  <2> QED
    BY <1>4, <2>1 DEF Decide
<1>6. n \in Int
  BY <1>1, <1>3, RoundInt DEF Grant
<1>7. 2 * (MinQty * c.dist) <= 2 * g.risk + c.dist /\ 2 * (n * c.dist) <= 2 * g.risk + c.dist
  <2>1. CASE g = Whole(c)
    <3>1. n = c.qty /\ MinQty <= c.qty /\ g.risk = c.qty * c.dist
      BY <1>4, <1>2, <2>1 DEF Whole, RoundHalfEven
    <3>2. MinQty * c.dist <= c.qty * c.dist
      BY <1>2, <3>1
    <3>3. MinQty * c.dist \in Nat
      BY <1>2, MulNat
    <3> QED
      BY <1>2, <3>1, <3>2, <3>3
  <2>2. ASSUME NEW r \in Nat, g = Cut(c, r)
        PROVE  2 * (MinQty * c.dist) <= 2 * g.risk + c.dist
               /\ 2 * (n * c.dist) <= 2 * g.risk + c.dist
    <3>1. g.risk = r /\ g.num = r /\ g.den = c.qty * c.dist
      BY <2>2 DEF Cut
    <3>2. 2 * (c.dist * n) <= 2 * r + c.dist
      BY <1>2, <3>1, CutRounds
    <3>3. c.dist * n = n * c.dist
      BY <1>2, <1>6
    <3>4. MinQty * c.dist \in Nat /\ c.qty * (MinQty * c.dist) = MinQty * (c.qty * c.dist)
      BY <1>2, MulNat
    <3>5. MinQty * c.dist <= r
      BY <1>4, <1>2, <3>1, <3>4, Cancel
    <3> QED
      BY <1>2, <3>1, <3>2, <3>3, <3>4, <3>5
  <2> QED
    BY <1>4, <2>1, <2>2, GrantedOnce
<1>8. HalfStepFor(d)
  <2>1. d.qty = MinQty \/ d.qty = n
    BY <1>5 DEF AtLeast
  <2>2. d.for = c /\ d.risk = g.risk
    BY <1>5
  <2>3. MinQty * c.dist \in Int /\ n * c.dist \in Int
    BY <1>2, <1>6
  <2> HIDE DEF n, d
  <2> QED
    BY <1>2, <1>3, <1>7, <2>1, <2>2, <2>3 DEF HalfStepFor
<1>9. cycle.used.total + g.risk <= limits.total * cycle.equity
  <2>1. ~(limits.total * cycle.equity <= cycle.used.total)
    BY <1>4, RoomIffNotFull DEF Full
  <2>2. /\ limits.total \in Nat /\ cycle.equity \in Nat /\ cycle.used.total \in Nat
    BY AllocationAssumption DEF TypeOK, Limit, Budget
  <2>3. limits.total * cycle.equity \in Nat
    BY <2>2, MulNat
  <2> QED
    BY <1>1, <1>3, <2>1, <2>2, <2>3 DEF FitsBudgets
<1> QED
  BY <1>5, <1>8, <1>9

(* An entry of the second pass: within the risk it was compared with.      *)
LEMMA LateRounds ==
  ASSUME TypeOK, NEW c \in Signals
  PROVE  LET g == Weigh(Whole(c))
             q == AtLeast(MinQty, RoundHalfEven(c.qty * g.num, g.den))
         IN  2 * (q * c.dist) - c.dist <= 2 * (c.qty * c.dist)
<1> DEFINE g == Weigh(Whole(c))
           n == RoundHalfEven(c.qty * g.num, g.den)
           q == AtLeast(MinQty, n)
<1>1. c \in Candidate
  BY SignalCandidate
<1>2. /\ c.qty \in Nat \ {0} /\ c.dist \in Nat \ {0} /\ c.qty * c.dist \in Nat \ {0}
      /\ MinQty \in Nat \ {0}
  BY <1>1, AllocationAssumption, MulPos DEF Candidate
<1>3. MinQty <= c.qty
  <2>1. PICK s \in Symbol, d \in Side, r \in Score, x \in Distance, m \in MaxQty :
          c = [sym |-> s, side |-> d, score |-> r, qty |-> BaseQty(x, m), dist |-> x,
               cluster |-> cycle.cluster[s]]
    BY DEF Signals
  <2>2. c.qty = BaseQty(x, m)
    BY <2>1
  <2> QED
    BY <1>2, <2>2 DEF BaseQty, AtLeast
<1>4. n \in Int /\ 2 * (n * c.dist) <= 2 * (c.qty * c.dist) + c.dist
  <2>1. CASE g = Whole(c)
    <3>1. n = c.qty
      BY <1>2, <2>1 DEF Whole, RoundHalfEven
    <3> QED
      BY <1>2, <3>1
  <2>2. CASE g # Whole(c)
    <3>1. g = Cut(c, TwiceShare) /\ TwiceShare < c.qty * c.dist
      BY <1>2, <2>2 DEF Weigh, Whole, Cut
    <3>2. TwiceShare \in Nat
      <4>1. limits.total \in Nat /\ cycle.equity \in Nat /\ MaxPositions \in Nat \ {0}
        BY AllocationAssumption DEF TypeOK, Limit
      <4>2. (2 * limits.total) * cycle.equity \in Nat
        BY <4>1, MulNat
      <4> QED
        BY <4>1, <4>2, DivNat DEF TwiceShare
    <3>3. n = RoundHalfEven(c.qty * TwiceShare, c.qty * c.dist)
      BY <3>1 DEF Cut
    <3>4. c.qty * TwiceShare \in Nat /\ n \in Int
      BY <1>2, <3>2, <3>3, MulNat, RoundInt
    <3>5. 2 * (c.dist * n) <= 2 * TwiceShare + c.dist
      BY <1>2, <3>2, <3>3, CutRounds
    <3>6. c.dist * n = n * c.dist /\ n * c.dist \in Int
      BY <1>2, <3>4
    <3> QED
      BY <1>2, <3>1, <3>2, <3>4, <3>5, <3>6
  <2> QED
    BY <2>1, <2>2
<1>5. MinQty * c.dist <= c.qty * c.dist /\ MinQty * c.dist \in Nat
  BY <1>2, <1>3, MulNat
<1>6. q = MinQty \/ q = n
  BY DEF AtLeast
<1> HIDE DEF n, q
<1>7. n * c.dist \in Int
  BY <1>2, <1>4
<1>8. 2 * (q * c.dist) - c.dist <= 2 * (c.qty * c.dist)
  BY <1>2, <1>4, <1>5, <1>6, <1>7
<1> QED
  BY <1>8 DEF q, n

(***************************************************************************)
(* The load of a cycle: what the positions of the book stand for, less     *)
(* half a step each, and what the granted decisions will add, less what    *)
(* the budgets in use are still to be charged with.                        *)
(***************************************************************************)
ChargeIn(L, s) ==
  IF \E x \in L : x[1] = s THEN (CHOOSE x \in L : x[1] = s)[2].risk ELSE 0

GrantIn(D, s) ==
  IF \E i \in DOMAIN D : D[i].for.sym = s /\ D[i].why = "granted"
  THEN D[CHOOSE i \in DOMAIN D : D[i].for.sym = s /\ D[i].why = "granted"].risk
  ELSE 0

OneEach(L) == \A x, y \in L : x[1] = y[1] => x = y
OneDecision(D) == \A i, j \in DOMAIN D : D[i].for.sym = D[j].for.sym => i = j

LEMMA ChargeType ==
  ASSUME NEW L \in SUBSET (Symbol \X Charge), NEW s
  PROVE  ChargeIn(L, s) \in Nat
<1>1. CASE \E x \in L : x[1] = s
  <2> DEFINE x == CHOOSE y \in L : y[1] = s
  <2>1. x \in L
    BY <1>1
  <2> HIDE DEF x
  <2>2. x[2] \in Charge
    BY <2>1
  <2>3. x[2].risk \in Nat
    BY <2>2 DEF Charge
  <2> QED
    BY <1>1, <2>3 DEF ChargeIn, x
<1> QED
  BY <1>1 DEF ChargeIn

LEMMA ChargeIs ==
  ASSUME NEW L, OneEach(L), NEW x \in L
  PROVE  ChargeIn(L, x[1]) = x[2].risk
<1>1. (CHOOSE y \in L : y[1] = x[1]) = x
  BY DEF OneEach
<1> QED
  BY <1>1 DEF ChargeIn

LEMMA ChargeTaken ==
  ASSUME NEW L, OneEach(L), NEW x \in L, NEW s
  PROVE  /\ OneEach(L \ {x})
         /\ ChargeIn(L \ {x}, s) = IF s = x[1] THEN 0 ELSE ChargeIn(L, s)
<1>1. OneEach(L \ {x})
  BY DEF OneEach
<1>2. CASE s = x[1]
  BY <1>2 DEF ChargeIn, OneEach
<1>3. CASE s # x[1] /\ \E y \in L : y[1] = s
  <2>1. PICK y \in L : y[1] = s
    BY <1>3
  <2>2. y \in L \ {x}
    BY <1>3, <2>1
  <2>3. ChargeIn(L, s) = y[2].risk /\ ChargeIn(L \ {x}, s) = y[2].risk
    BY <1>1, <2>1, <2>2, ChargeIs
  <2> QED
    BY <1>1, <1>3, <2>3
<1>4. CASE s # x[1] /\ ~ \E y \in L : y[1] = s
  BY <1>1, <1>4 DEF ChargeIn
<1> QED
  BY <1>1, <1>2, <1>3, <1>4

LEMMA GrantType ==
  ASSUME NEW D \in Seq(Decision), NEW s
  PROVE  GrantIn(D, s) \in Nat
<1>1. CASE \E i \in DOMAIN D : D[i].for.sym = s /\ D[i].why = "granted"
  <2> DEFINE i == CHOOSE k \in DOMAIN D : D[k].for.sym = s /\ D[k].why = "granted"
  <2>1. i \in DOMAIN D
    BY <1>1
  <2> HIDE DEF i
  <2>2. D[i] \in Decision
    BY <2>1
  <2>3. D[i].risk \in Nat
    BY <2>2 DEF Decision
  <2> QED
    BY <1>1, <2>3 DEF GrantIn, i
<1> QED
  BY <1>1 DEF GrantIn

LEMMA GrantIs ==
  ASSUME NEW D, OneDecision(D), NEW i \in DOMAIN D
  PROVE  GrantIn(D, D[i].for.sym) = IF D[i].why = "granted" THEN D[i].risk ELSE 0
<1>1. CASE D[i].why = "granted"
  <2>1. (CHOOSE k \in DOMAIN D : D[k].for.sym = D[i].for.sym /\ D[k].why = "granted") = i
    BY <1>1 DEF OneDecision
  <2> QED
    BY <1>1, <2>1 DEF GrantIn
<1>2. CASE D[i].why # "granted"
  BY <1>2 DEF GrantIn, OneDecision
<1> QED
  BY <1>1, <1>2

LEMMA NoGrant ==
  ASSUME NEW D, NEW s, \A i \in DOMAIN D : D[i].for.sym # s
  PROVE  GrantIn(D, s) = 0
BY DEF GrantIn

(* A decision more, and one less.                                          *)
LEMMA GrantAppended ==
  ASSUME NEW D \in Seq(Decision), OneDecision(D), NEW d \in Decision, NEW s,
         \A i \in DOMAIN D : D[i].for.sym # d.for.sym
  PROVE  /\ OneDecision(Append(D, d))
         /\ GrantIn(Append(D, d), s) = IF s # d.for.sym THEN GrantIn(D, s)
                                       ELSE IF d.why = "granted" THEN d.risk ELSE 0
<1> DEFINE E == Append(D, d)
           n == Len(D)
<1>1. /\ n \in Nat /\ DOMAIN D = 1..n /\ DOMAIN E = 1..(n + 1)
      /\ \A i \in 1..n : E[i] = D[i]
      /\ E[n + 1] = d
  OBVIOUS
<1> HIDE DEF E, n
<1>2. OneDecision(E)
  BY <1>1 DEF OneDecision
<1>3. CASE s = d.for.sym
  <2>1. n + 1 \in DOMAIN E
    BY <1>1
  <2>2. GrantIn(E, E[n + 1].for.sym) = IF E[n + 1].why = "granted" THEN E[n + 1].risk ELSE 0
    BY <1>2, <2>1, GrantIs
  <2> QED
    BY <1>1, <1>2, <1>3, <2>2 DEF E
<1>4. CASE s # d.for.sym /\ \E i \in DOMAIN D : D[i].for.sym = s
  <2>1. PICK i \in DOMAIN D : D[i].for.sym = s
    BY <1>4
  <2>2. i \in DOMAIN E /\ E[i] = D[i]
    BY <1>1, <2>1
  <2>3. GrantIn(D, D[i].for.sym) = GrantIn(E, E[i].for.sym)
    BY <1>2, <2>1, <2>2, GrantIs
  <2> QED
    BY <1>2, <1>4, <2>1, <2>2, <2>3 DEF E
<1>5. CASE s # d.for.sym /\ ~ \E i \in DOMAIN D : D[i].for.sym = s
  <2>1. \A i \in DOMAIN E : E[i].for.sym # s
    BY <1>1, <1>5
  <2>2. GrantIn(D, s) = 0 /\ GrantIn(E, s) = 0
    BY <1>5, <2>1, NoGrant
  <2> QED
    BY <1>2, <1>5, <2>2 DEF E
<1> QED
  BY <1>3, <1>4, <1>5

LEMMA GrantTaken ==
  ASSUME NEW D \in Seq(Decision), OneDecision(D), D # <<>>, NEW s
  PROVE  /\ OneDecision(Tail(D))
         /\ \A i \in DOMAIN Tail(D) :
              /\ i + 1 \in DOMAIN D /\ Tail(D)[i] = D[i + 1]
              /\ Tail(D)[i].for.sym # Head(D).for.sym
         /\ GrantIn(Tail(D), s) = IF s = Head(D).for.sym THEN 0 ELSE GrantIn(D, s)
<1> DEFINE E == Tail(D)
           n == Len(D)
<1>1. /\ n \in Nat \ {0} /\ DOMAIN D = 1..n /\ DOMAIN E = 1..(n - 1)
      /\ \A i \in 1..(n - 1) : E[i] = D[i + 1] /\ i + 1 \in 1..n
      /\ Head(D) = D[1]
  OBVIOUS
<1> HIDE DEF E, n
<1>2. OneDecision(E)
  BY <1>1 DEF OneDecision
<1>3. \A i \in DOMAIN E : /\ i + 1 \in DOMAIN D /\ E[i] = D[i + 1]
                          /\ E[i].for.sym # D[1].for.sym
  BY <1>1 DEF OneDecision
<1>4. CASE s = D[1].for.sym
  <2>1. GrantIn(E, s) = 0
    BY <1>3, <1>4, NoGrant
  <2> QED
    BY <1>1, <1>2, <1>3, <1>4, <2>1 DEF E
<1>5. CASE s # D[1].for.sym /\ \E i \in DOMAIN D : D[i].for.sym = s
  <2>1. PICK i \in DOMAIN D : D[i].for.sym = s
    BY <1>5
  <2>2. i - 1 \in DOMAIN E /\ E[i - 1] = D[i]
    <3>1. i # 1 /\ i \in 1..n
      BY <1>1, <1>5, <2>1
    <3>2. i - 1 \in 1..(n - 1) /\ (i - 1) + 1 = i
      BY <1>1, <3>1
    <3> QED
      BY <1>1, <3>2
  <2>3. GrantIn(D, D[i].for.sym) = GrantIn(E, E[i - 1].for.sym)
    BY <1>2, <2>1, <2>2, GrantIs
  <2> QED
    BY <1>1, <1>2, <1>3, <1>5, <2>1, <2>2, <2>3 DEF E
<1>6. CASE s # D[1].for.sym /\ ~ \E i \in DOMAIN D : D[i].for.sym = s
  <2>1. GrantIn(D, s) = 0 /\ GrantIn(E, s) = 0
    BY <1>3, <1>6, NoGrant
  <2> QED
    BY <1>1, <1>2, <1>3, <1>6, <2>1 DEF E
<1> QED
  BY <1>4, <1>5, <1>6

(***************************************************************************)
(* A symbol is charged once, offered once and decided on once, and it is   *)
(* not held until its order is placed.                                     *)
(***************************************************************************)
Stages ==
  /\ cycle.at # "tally" => cycle.listed = {}
  /\ cycle.at \notin {"offer", "allocate"} => cycle.offers = {}
  /\ cycle.at \notin {"allocate", "place"} => cycle.decided = <<>>
  /\ cycle.at \in {"offer", "late"} => cycle.used = cycle.start
  /\ cycle.at # "late" => cycle.tried = {}

OncePerSymbol ==
  /\ OneEach(cycle.listed)
  /\ \A o, p \in cycle.offers : o.sym = p.sym => o = p
  /\ OneDecision(cycle.decided)
  /\ \A i \in DOMAIN cycle.decided, o \in cycle.offers :
       cycle.decided[i].for.sym # o.sym

NotHeldYet ==
  /\ \A o \in cycle.offers : book[o.sym] = None
  /\ \A i \in DOMAIN cycle.decided : book[cycle.decided[i].for.sym] = None

SymbolInv == Stages /\ OncePerSymbol /\ NotHeldYet

LEMMA SymbolStep == TypeOK /\ SymbolInv /\ [Next]_vars => SymbolInv'
<1> SUFFICES ASSUME TypeOK, SymbolInv, [Next]_vars PROVE SymbolInv'
  OBVIOUS
<1>0. /\ cycle \in CycleType /\ cycle.decided \in Seq(Decision)
      /\ book \in [Symbol -> Position \cup {None}]
      /\ DOMAIN (<<>>) = {}
  BY DEF TypeOK, CycleType
<1>1. ASSUME NEW clusters \in [Symbol -> Cluster \cup {NoCluster}], CycleStart(clusters)
      PROVE  SymbolInv'
  <2>1. /\ cycle'.at = "tally" /\ cycle'.offers = {} /\ cycle'.decided = <<>>
        /\ cycle'.tried = {}
        /\ cycle'.listed = {<<s, [side |-> book[s].side, cluster |-> clusters[s],
                                  risk |-> RiskOf(book[s])]>> : s \in Held}
    BY <1>1 DEF CycleStart, Idle
  <2>2. OneEach(cycle'.listed)
    BY <2>1 DEF OneEach
  <2> QED
    BY <1>0, <2>1, <2>2 DEF SymbolInv, Stages, OncePerSymbol, NotHeldYet, OneDecision, OneEach
<1>2. ASSUME NEW x \in cycle.listed, Tally(x) PROVE SymbolInv'
  <2>1. /\ cycle'.at = "tally" /\ cycle.at = "tally" /\ cycle'.offers = cycle.offers
        /\ cycle'.decided = cycle.decided /\ cycle'.listed = cycle.listed \ {x}
        /\ book' = book /\ cycle'.tried = cycle.tried
    BY <1>0, <1>2 DEF Tally, CycleType
  <2> QED
    BY <1>0, <2>1 DEF SymbolInv, Stages, OncePerSymbol, NotHeldYet, OneEach, OneDecision
<1>3. CASE Tallied
  <2>1. /\ cycle'.at = "offer" /\ cycle'.used = cycle'.start /\ cycle'.listed = {}
        /\ cycle'.offers = {} /\ cycle'.decided = <<>> /\ book' = book
        /\ cycle'.tried = {}
    BY <1>0, <1>3 DEF Tallied, CycleType, SymbolInv, Stages
  <2> QED
    BY <1>0, <2>1 DEF SymbolInv, Stages, OncePerSymbol, NotHeldYet, OneEach, OneDecision
<1>4. ASSUME NEW c \in Signals, Offer(c) PROVE SymbolInv'
  <2>1. /\ cycle'.at = "offer" /\ cycle'.used = cycle'.start /\ cycle'.listed = {}
        /\ cycle'.offers = cycle.offers \cup {c} /\ cycle'.decided = <<>> /\ book' = book
        /\ book[c.sym] = None /\ cycle'.tried = {}
        /\ \A o \in cycle.offers : o.sym # c.sym
    BY <1>0, <1>4 DEF Offer, CycleType, SymbolInv, Stages
  <2> QED
    BY <1>0, <2>1 DEF SymbolInv, Stages, OncePerSymbol, NotHeldYet, OneEach, OneDecision
<1>5. ASSUME NEW c \in Signals, PlaceLate(c) PROVE SymbolInv'
  <2>1. /\ cycle'.at = "late" /\ cycle'.used = cycle'.start /\ cycle'.listed = {}
        /\ cycle'.offers = {} /\ cycle'.decided = <<>>
    BY <1>0, <1>5 DEF PlaceLate, CycleType, SymbolInv, Stages
  <2> QED
    BY <1>0, <2>1 DEF SymbolInv, Stages, OncePerSymbol, NotHeldYet, OneEach, OneDecision
<1>6. CASE Collected
  <2>1. /\ cycle'.at \in {"late", "allocate"} /\ cycle'.used = cycle'.start
        /\ cycle'.at = "late" => cycle'.offers = {}
        /\ cycle'.listed = {} /\ cycle'.offers = cycle.offers
        /\ cycle'.decided = <<>> /\ cycle.decided = <<>> /\ book' = book
        /\ cycle'.tried = {}
    BY <1>0, <1>6 DEF Collected, CycleType, SymbolInv, Stages
  <2> QED
    BY <1>0, <2>1 DEF SymbolInv, Stages, OncePerSymbol, NotHeldYet, OneEach, OneDecision
<1>7. ASSUME NEW c \in cycle.offers, Allocate(c) PROVE SymbolInv'
  <2> DEFINE d == Decide(c, Granted(c))
             D == cycle.decided
  <2>1. c \in Candidate
    BY <1>0 DEF CycleType
  <2>2. d \in Decision /\ d.for = c
    BY <2>1, GrantedFits, DecideType
  <2>3. /\ cycle'.at = "allocate" /\ cycle'.listed = {}
        /\ cycle'.offers = cycle.offers \ {c}
        /\ cycle'.decided = Append(D, d) /\ book' = book /\ cycle'.tried = {}
    BY <1>0, <1>7 DEF Allocate, CycleType, SymbolInv, Stages
  <2> HIDE DEF d
  <2>4. /\ OneDecision(D)
        /\ \A i \in DOMAIN D : D[i].for.sym # d.for.sym
    BY <2>2 DEF SymbolInv, OncePerSymbol
  <2>5. OneDecision(Append(D, d))
    BY <1>0, <2>2, <2>4, GrantAppended
  <2>6. \A i \in DOMAIN Append(D, d) :
          \/ i \in DOMAIN D /\ Append(D, d)[i] = D[i]
          \/ Append(D, d)[i] = d
    <3>1. DOMAIN D = 1..Len(D) /\ DOMAIN Append(D, d) = 1..(Len(D) + 1)
      BY <1>0
    <3> QED
      BY <1>0, <3>1
  <2>7. Stages'
    BY <2>3 DEF Stages
  <2>8. OncePerSymbol'
    BY <2>2, <2>3, <2>5, <2>6 DEF SymbolInv, OncePerSymbol, OneEach
  <2>9. NotHeldYet'
    BY <1>7, <2>2, <2>3, <2>6 DEF SymbolInv, NotHeldYet
  <2> QED
    BY <2>7, <2>8, <2>9 DEF SymbolInv
<1>8. CASE Allocated
  <2>1. /\ cycle'.at = "place" /\ cycle'.listed = {} /\ cycle'.offers = {}
        /\ cycle'.decided = cycle.decided /\ book' = book /\ cycle'.tried = {}
    BY <1>8 DEF Allocated, Idle
  <2> QED
    BY <2>1 DEF SymbolInv, Stages, OncePerSymbol, NotHeldYet, OneEach
<1>9. CASE Place \/ Skip
  <2> DEFINE D == cycle.decided
  <2>1. /\ cycle.at = "place" /\ D # <<>> /\ cycle'.at = "place"
        /\ cycle'.decided = Tail(D)
        /\ cycle'.listed = cycle.listed /\ cycle'.offers = cycle.offers
        /\ cycle'.tried = cycle.tried
    BY <1>0, <1>9 DEF Place, Skip, CycleType
  <2>2. cycle.listed = {} /\ cycle.offers = {} /\ cycle.tried = {}
    BY <2>1 DEF SymbolInv, Stages
  <2>3. /\ OneDecision(Tail(D))
        /\ \A i \in DOMAIN Tail(D) :
             /\ i + 1 \in DOMAIN D /\ Tail(D)[i] = D[i + 1]
             /\ Tail(D)[i].for.sym # Head(D).for.sym
    BY <1>0, <2>1, GrantTaken DEF SymbolInv, OncePerSymbol
  <2>4. Stages' /\ OncePerSymbol'
    BY <2>1, <2>2, <2>3 DEF Stages, OncePerSymbol, OneEach
  <2>5. ASSUME NEW i \in DOMAIN Tail(D) PROVE book'[Tail(D)[i].for.sym] = None
    <3>1. book[Tail(D)[i].for.sym] = None
      BY <2>3 DEF SymbolInv, NotHeldYet
    <3>2. CASE Skip
      BY <3>1, <3>2 DEF Skip
    <3>3. CASE Place
      <4>1. book' = [book EXCEPT ![Head(D).for.sym] =
                       [side |-> Head(D).for.side, size |-> Head(D).qty,
                        dist |-> Head(D).for.dist]]
        BY <3>3 DEF Place, Enter
      <4> QED
        BY <1>0, <2>3, <3>1, <4>1
    <3> QED
      BY <1>9, <3>2, <3>3
  <2>6. NotHeldYet'
    BY <2>1, <2>2, <2>5 DEF NotHeldYet
  <2> QED
    BY <2>4, <2>6 DEF SymbolInv
<1>10. CASE CycleEnd
  <2>1. cycle' = Idle
    BY <1>10 DEF CycleEnd
  <2> QED
    BY <1>0, <2>1 DEF SymbolInv, Stages, OncePerSymbol, NotHeldYet, OneEach, OneDecision, Idle
<1>11. ASSUME cycle' = cycle, \A s \in Symbol : book[s] = None => book'[s] = None
       PROVE  SymbolInv'
  <2>1. \A o \in cycle.offers : o.sym \in Symbol
    BY <1>0 DEF CycleType, Candidate
  <2>2. \A i \in DOMAIN cycle.decided : cycle.decided[i].for.sym \in Symbol
    BY <1>0 DEF Decision, Candidate
  <2> QED
    BY <1>11, <2>1, <2>2 DEF SymbolInv, Stages, OncePerSymbol, NotHeldYet, OneEach, OneDecision
<1>12. ASSUME NEW s \in Symbol, Leave(s) \/ Lighten(s) PROVE SymbolInv'
  <2>1. CASE Leave(s)
    BY <1>0, <1>11, <2>1 DEF Leave
  <2>2. CASE Lighten(s)
    <3>1. book[s] # None /\ book' = [book EXCEPT ![s].size = RoundHalfEven(@, 2)]
      BY <2>2 DEF Lighten, None
    <3> QED
      BY <1>0, <1>11, <2>2, <3>1 DEF Lighten
  <2> QED
    BY <1>12, <2>1, <2>2
<1>13. CASE EquityMoves \/ UNCHANGED vars
  BY <1>11, <1>13 DEF EquityMoves, vars
<1> QED
  BY <1>1, <1>2, <1>3, <1>4, <1>5, <1>6, <1>7, <1>8, <1>9, <1>10, <1>12, <1>13 DEF Next

LoadAt(b, D, L, s) == LessHalfStep(b[s]) + 2 * GrantIn(D, s) - 2 * ChargeIn(L, s)
TotalLoad(b, D, L) == SumFunctionOnSet([s \in Symbol |-> LoadAt(b, D, L, s)], Symbol)

Books == [Symbol -> Position \cup {None}]
Listings == SUBSET (Symbol \X Charge)

LEMMA PositionLoad ==
  ASSUME NEW b \in Books, NEW s \in Symbol
  PROVE  /\ LessHalfStep(b[s]) \in Nat
         /\ RiskOf(b[s]) \in Nat
         /\ LessHalfStep(b[s]) <= 2 * RiskOf(b[s])
         /\ b[s] = None => LessHalfStep(b[s]) = 0
<1>1. CASE b[s] = None
  BY <1>1 DEF LessHalfStep, RiskOf, None
<1>2. CASE b[s] # None
  <2>1. b[s].size \in Nat \ {0} /\ b[s].dist \in Nat \ {0}
    BY <1>2, AllocationAssumption DEF Books, Position
  <2>2. b[s].size * b[s].dist \in Nat /\ b[s].dist <= b[s].size * b[s].dist
    BY <2>1
  <2> QED
    BY <1>2, <2>1, <2>2 DEF LessHalfStep, RiskOf
<1> QED
  BY <1>1, <1>2

LEMMA LoadType ==
  ASSUME NEW b \in Books, NEW D \in Seq(Decision), NEW L \in Listings
  PROVE  /\ \A s \in Symbol : LoadAt(b, D, L, s) \in Int
         /\ TotalLoad(b, D, L) \in Int
<1>1. ASSUME NEW s \in Symbol PROVE LoadAt(b, D, L, s) \in Int
  <2>1. LessHalfStep(b[s]) \in Nat /\ GrantIn(D, s) \in Nat /\ ChargeIn(L, s) \in Nat
    BY PositionLoad, GrantType, ChargeType DEF Listings
  <2> QED
    BY <2>1 DEF LoadAt
<1> QED
  BY <1>1, SumType, AllocationAssumption DEF TotalLoad

(* What one symbol's load moves by, the total moves by.                    *)
LEMMA LoadMoves ==
  ASSUME NEW b \in Books, NEW D \in Seq(Decision), NEW L \in Listings,
         NEW c \in Books, NEW E \in Seq(Decision), NEW M \in Listings,
         NEW y \in Symbol,
         \A x \in Symbol : x # y => LoadAt(c, E, M, x) = LoadAt(b, D, L, x)
  PROVE  TotalLoad(c, E, M) = TotalLoad(b, D, L) - LoadAt(b, D, L, y) + LoadAt(c, E, M, y)
<1> DEFINE f == [s \in Symbol |-> LoadAt(b, D, L, s)]
           g == [s \in Symbol |-> LoadAt(c, E, M, s)]
<1>1. f \in [Symbol -> Int] /\ g \in [Symbol -> Int]
  BY LoadType
<1>2. \A x \in Symbol : x # y => g[x] = f[x]
  OBVIOUS
<1>3. f[y] = LoadAt(b, D, L, y) /\ g[y] = LoadAt(c, E, M, y)
  OBVIOUS
<1> HIDE DEF f, g
<1>4. SumFunctionOnSet(g, Symbol) = SumFunctionOnSet(f, Symbol) - f[y] + g[y]
  BY <1>1, <1>2, SumChange, AllocationAssumption
<1> QED
  BY <1>3, <1>4 DEF f, g, TotalLoad

(* Loads no greater make no greater total.                                 *)
LEMMA LoadOrder ==
  ASSUME NEW b \in Books, NEW D \in Seq(Decision), NEW L \in Listings,
         NEW c \in Books, NEW E \in Seq(Decision), NEW M \in Listings,
         \A x \in Symbol : LoadAt(c, E, M, x) <= LoadAt(b, D, L, x)
  PROVE  TotalLoad(c, E, M) <= TotalLoad(b, D, L)
<1>1. \A x \in Symbol : LoadAt(b, D, L, x) \in Int /\ LoadAt(c, E, M, x) \in Int
  BY LoadType
<1> QED
  BY <1>1, SumOrder, AllocationAssumption DEF TotalLoad

Granting(D) == \E i \in DOMAIN D : D[i].why = "granted"

Rounded ==
  \A i \in DOMAIN cycle.decided :
    cycle.decided[i].why = "granted" => HalfStepFor(cycle.decided[i])

CycleLoad == TotalLoad(book, cycle.decided, cycle.listed)
Cap == limits.total * cycle.equity

(* Until the decisions are placed the load is covered by the budget in     *)
(* use, which granting keeps within the cap; from then on the cap itself   *)
(* covers it.                                                              *)
Loaded ==
  /\ \/ cycle.at \in {"tally", "offer", "allocate"}
     \/ cycle.at = "late" /\ cycle.tried = {}
     => CycleLoad <= 2 * cycle.used.total
  /\ cycle.at = "allocate" /\ Granting(cycle.decided) => cycle.used.total <= Cap
  /\ cycle.at = "place" /\ Granting(cycle.decided) => CycleLoad <= 2 * Cap

LoadInv == TotalOnly => Rounded /\ Loaded

LEMMA StateTypes ==
  ASSUME TypeOK
  PROVE  /\ book \in Books /\ cycle.decided \in Seq(Decision) /\ cycle.listed \in Listings
         /\ cycle.used.total \in Nat /\ cycle.start.total \in Nat /\ Cap \in Nat
         /\ CycleLoad \in Int
<1>1. book \in Books /\ cycle.decided \in Seq(Decision) /\ cycle.listed \in Listings
  BY DEF TypeOK, Books, Listings
<1>2. cycle.used.total \in Nat /\ cycle.start.total \in Nat
  BY DEF TypeOK, Budget
<1>3. limits.total \in Nat /\ cycle.equity \in Nat
  BY AllocationAssumption DEF TypeOK, Limit
<1>4. Cap \in Nat
  BY <1>3, MulNat DEF Cap
<1> QED
  BY <1>1, <1>2, <1>4, LoadType DEF CycleLoad

(* At the start of a cycle everything is still to be charged.              *)
LEMMA StartLoad ==
  ASSUME TypeOK, TypeOK', NEW clusters \in [Symbol -> Cluster \cup {NoCluster}],
         CycleStart(clusters)
  PROVE  TotalLoad(book', cycle'.decided, cycle'.listed) <= 0
<1> DEFINE L == {<<s, [side |-> book[s].side, cluster |-> clusters[s],
                       risk |-> RiskOf(book[s])]>> : s \in Held}
<1>1. cycle'.decided = <<>> /\ cycle'.listed = L /\ book' = book
  BY DEF CycleStart, Idle
<1>2. book \in Books /\ <<>> \in Seq(Decision) /\ L \in Listings
  BY <1>1 DEF TypeOK, Books, Listings
<1>3. OneEach(L)
  BY DEF OneEach
<1>4. ASSUME NEW s \in Symbol PROVE LoadAt(book, <<>>, L, s) <= 0
  <2>1. GrantIn(<<>>, s) = 0
    BY DEF GrantIn
  <2>2. /\ LessHalfStep(book[s]) \in Nat /\ RiskOf(book[s]) \in Nat
        /\ LessHalfStep(book[s]) <= 2 * RiskOf(book[s])
        /\ book[s] = None => LessHalfStep(book[s]) = 0
    BY <1>2, PositionLoad
  <2>3. ChargeIn(L, s) \in Nat
    BY <1>2, ChargeType DEF Listings
  <2>4. CASE s \in Held
    <3> DEFINE x == <<s, [side |-> book[s].side, cluster |-> clusters[s],
                          risk |-> RiskOf(book[s])]>>
    <3>1. x \in L /\ x[1] = s /\ x[2].risk = RiskOf(book[s])
      BY <2>4
    <3> HIDE DEF x, L
    <3>2. ChargeIn(L, x[1]) = x[2].risk
      BY <1>3, <3>1, ChargeIs
    <3> QED
      BY <2>1, <2>2, <3>1, <3>2 DEF LoadAt
  <2>5. CASE s \notin Held
    <3>1. LessHalfStep(book[s]) = 0
      BY <2>2, <2>5 DEF Held
    <3> HIDE DEF L
    <3> QED
      BY <2>1, <2>3, <3>1 DEF LoadAt
  <2> QED
    BY <2>4, <2>5
<1> HIDE DEF L
<1>5. \A s \in Symbol : LoadAt(book, <<>>, L, s) \in Int
  BY <1>2, LoadType
<1>6. TotalLoad(book, <<>>, L) <= 0
  BY <1>4, <1>5, SumNotPositive, AllocationAssumption DEF TotalLoad
<1> QED
  BY <1>1, <1>6

(* A position charged.                                                     *)
LEMMA TallyLoad ==
  ASSUME TypeOK, TypeOK', SymbolInv, NEW x \in cycle.listed, Tally(x)
  PROVE  /\ CycleLoad' = CycleLoad + 2 * x[2].risk
         /\ cycle'.used.total = cycle.used.total + x[2].risk
         /\ x[2].risk \in Nat
<1> DEFINE D == cycle.decided
           L == cycle.listed
<1>1. /\ book' = book /\ cycle'.decided = D /\ cycle'.listed = L \ {x}
      /\ cycle'.used = Charged(cycle.used, x[2])
  BY DEF Tally, TypeOK
<1>2. book \in Books /\ D \in Seq(Decision) /\ L \in Listings /\ L \ {x} \in Listings
      /\ CycleLoad \in Int
  BY StateTypes DEF Listings
<1>3. x[1] \in Symbol /\ x[2] \in Charge /\ x[2].risk \in Nat /\ cycle.used \in Budget
  BY DEF TypeOK, Charge
<1>4. OneEach(L)
  BY DEF SymbolInv, OncePerSymbol
<1> HIDE DEF L, D
<1>5. \A s \in Symbol : ChargeIn(L \ {x}, s) = IF s = x[1] THEN 0 ELSE ChargeIn(L, s)
  BY <1>4, ChargeTaken DEF L
<1>6. ChargeIn(L, x[1]) = x[2].risk
  BY <1>4, ChargeIs DEF L
<1>7. \A s \in Symbol : s # x[1] => LoadAt(book, D, L \ {x}, s) = LoadAt(book, D, L, s)
  BY <1>5 DEF LoadAt
<1>8. TotalLoad(book, D, L \ {x})
        = TotalLoad(book, D, L) - LoadAt(book, D, L, x[1]) + LoadAt(book, D, L \ {x}, x[1])
  BY <1>2, <1>3, <1>7, LoadMoves
<1>9. LessHalfStep(book[x[1]]) \in Nat /\ GrantIn(D, x[1]) \in Nat
  BY <1>2, <1>3, PositionLoad, GrantType
<1>10. /\ LoadAt(book, D, L \ {x}, x[1]) = LoadAt(book, D, L, x[1]) + 2 * x[2].risk
       /\ LoadAt(book, D, L, x[1]) \in Int
  <2>1. ChargeIn(L \ {x}, x[1]) = 0
    BY <1>3, <1>5
  <2> QED
    BY <1>3, <1>6, <1>9, <2>1 DEF LoadAt
<1>11. TotalLoad(book, D, L) \in Int
  BY <1>2, LoadType
<1>12. TotalLoad(book, D, L \ {x}) = TotalLoad(book, D, L) + 2 * x[2].risk
  BY <1>3, <1>8, <1>10, <1>11
<1>13. CycleLoad = TotalLoad(book, D, L) /\ CycleLoad' = TotalLoad(book, D, L \ {x})
  BY <1>1 DEF CycleLoad, D, L
<1>14. cycle'.used.total = cycle.used.total + x[2].risk
  BY <1>1, <1>3, ChargedBudget
<1> QED
  BY <1>3, <1>12, <1>13, <1>14

(* A candidate decided on.                                                 *)
LEMMA AllocateLoad ==
  ASSUME TypeOK, TypeOK', SymbolInv, NEW c \in cycle.offers, Allocate(c)
  PROVE  LET d == Decide(c, Granted(c)) IN
         /\ CycleLoad' = CycleLoad + IF d.why = "granted" THEN 2 * d.risk ELSE 0
         /\ cycle'.used.total = cycle.used.total + d.risk
         /\ cycle'.decided = Append(cycle.decided, d)
         /\ d.risk \in Nat /\ c \in Candidate
<1> DEFINE d == Decide(c, Granted(c))
           D == cycle.decided
           L == cycle.listed
           E == Append(D, d)
           k == IF d.why = "granted" THEN d.risk ELSE 0
<1>1. c \in Candidate
  BY DEF TypeOK
<1>2. d \in Decision /\ d.for = c
  BY <1>1, GrantedFits, DecideType
<1>3. /\ book' = book /\ cycle'.decided = E /\ cycle'.listed = L
      /\ cycle'.used = Booked(cycle.used, d)
  BY DEF Allocate, TypeOK
<1> HIDE DEF d, E
<1>4. book \in Books /\ D \in Seq(Decision) /\ L \in Listings /\ E \in Seq(Decision)
  BY <1>2, StateTypes DEF E
<1>5. /\ d.risk \in Nat /\ c.sym \in Symbol
      /\ [side |-> d.for.side, cluster |-> d.for.cluster, risk |-> d.risk] \in Charge
      /\ cycle.used \in Budget
  BY <1>1, <1>2, DecisionCharge DEF Decision, Candidate, TypeOK
<1>6. OneDecision(D) /\ \A i \in DOMAIN D : D[i].for.sym # d.for.sym
  BY <1>2 DEF SymbolInv, OncePerSymbol
<1> HIDE DEF D, L
<1>7. \A s \in Symbol : GrantIn(E, s) = IF s # c.sym THEN GrantIn(D, s) ELSE k
  BY <1>2, <1>4, <1>6, GrantAppended DEF E
<1>8. GrantIn(D, c.sym) = 0
  BY <1>2, <1>6, NoGrant
<1>9. \A s \in Symbol : s # c.sym => LoadAt(book, E, L, s) = LoadAt(book, D, L, s)
  BY <1>7 DEF LoadAt
<1>10. TotalLoad(book, E, L)
         = TotalLoad(book, D, L) - LoadAt(book, D, L, c.sym) + LoadAt(book, E, L, c.sym)
  BY <1>4, <1>5, <1>9, LoadMoves
<1>11. LessHalfStep(book[c.sym]) \in Nat /\ ChargeIn(L, c.sym) \in Nat /\ k \in Nat
  BY <1>4, <1>5, PositionLoad, ChargeType DEF Listings
<1>12. LoadAt(book, E, L, c.sym) = LoadAt(book, D, L, c.sym) + 2 * k
       /\ LoadAt(book, D, L, c.sym) \in Int
  BY <1>5, <1>7, <1>8, <1>11 DEF LoadAt
<1>13. TotalLoad(book, D, L) \in Int
  BY <1>4, LoadType
<1>14. TotalLoad(book, E, L) = TotalLoad(book, D, L) + 2 * k
  BY <1>10, <1>11, <1>12, <1>13
<1>15. CycleLoad = TotalLoad(book, D, L) /\ CycleLoad' = TotalLoad(book, E, L)
  BY <1>3 DEF CycleLoad, D, L
<1>16. cycle'.used.total = cycle.used.total + d.risk
  BY <1>3, <1>5, ChargedBudget DEF Booked
<1> QED
  BY <1>1, <1>3, <1>5, <1>14, <1>15, <1>16 DEF d, D, E

(* A decision taken up: what it was granted is gone, and if an order was   *)
(* placed its position stands for no more, but for half a step.            *)
LEMMA SkipLoad ==
  ASSUME TypeOK, TypeOK', SymbolInv, Skip
  PROVE  CycleLoad' <= CycleLoad
<1> DEFINE D == cycle.decided
           L == cycle.listed
           y == Head(D).for.sym
<1>1. /\ book' = book /\ cycle'.decided = Tail(D) /\ cycle'.listed = L /\ D # <<>>
  BY DEF Skip, TypeOK
<1>2. book \in Books /\ D \in Seq(Decision) /\ L \in Listings /\ Tail(D) \in Seq(Decision)
  BY <1>1, StateTypes
<1>3. OneDecision(D)
  BY DEF SymbolInv, OncePerSymbol
<1> HIDE DEF D, L, y
<1>4. \A s \in Symbol : GrantIn(Tail(D), s) = IF s = y THEN 0 ELSE GrantIn(D, s)
  BY <1>1, <1>2, <1>3, GrantTaken DEF y
<1>5. ASSUME NEW s \in Symbol
      PROVE  LoadAt(book, Tail(D), L, s) <= LoadAt(book, D, L, s)
  <2>1. /\ GrantIn(Tail(D), s) \in Nat /\ GrantIn(D, s) \in Nat /\ ChargeIn(L, s) \in Nat
        /\ LessHalfStep(book[s]) \in Nat
    BY <1>2, GrantType, ChargeType, PositionLoad DEF Listings
  <2>2. GrantIn(Tail(D), s) <= GrantIn(D, s)
    BY <1>4, <2>1
  <2> QED
    BY <2>1, <2>2 DEF LoadAt
<1>6. TotalLoad(book, Tail(D), L) <= TotalLoad(book, D, L)
  BY <1>2, <1>5, LoadOrder
<1> QED
  BY <1>1, <1>6 DEF CycleLoad, D, L

LEMMA PlaceLoad ==
  ASSUME TypeOK, TypeOK', SymbolInv, Rounded, Loaded, Place
  PROVE  CycleLoad' <= CycleLoad /\ CycleLoad <= 2 * Cap
<1> DEFINE D == cycle.decided
           L == cycle.listed
           d == Head(D)
           y == d.for.sym
<1>1. /\ cycle'.decided = Tail(D) /\ cycle'.listed = L /\ D # <<>>
      /\ d.why = "granted" /\ cycle.at = "place"
      /\ book' = [book EXCEPT ![y] = [side |-> d.for.side, size |-> d.qty,
                                      dist |-> d.for.dist]]
  BY DEF Place, Enter, TypeOK
<1>2. /\ book \in Books /\ D \in Seq(Decision) /\ L \in Listings
      /\ Tail(D) \in Seq(Decision) /\ book' \in Books
  BY <1>1, StateTypes DEF TypeOK, Books
<1>3. OneDecision(D)
  BY DEF SymbolInv, OncePerSymbol
<1>4. 1 \in DOMAIN D /\ D[1] = d /\ d \in Decision
  BY <1>1, <1>2
<1>5. /\ HalfStepFor(d)
      /\ book[y] = None
      /\ CycleLoad <= 2 * Cap
  <2>1. Granting(D)
    BY <1>1, <1>4 DEF Granting
  <2> QED
    BY <1>1, <1>4, <2>1 DEF Rounded, SymbolInv, NotHeldYet, Loaded
<1>6. /\ d.for.dist \in Nat /\ d.qty \in Nat /\ d.risk \in Nat /\ y \in Symbol
      /\ d.qty * d.for.dist \in Nat
  <2>1. d.for.dist \in Nat /\ d.qty \in Nat /\ d.risk \in Nat /\ y \in Symbol
    BY <1>4, AllocationAssumption DEF Decision, Candidate
  <2> QED
    BY <2>1, MulNat
<1>7. book'[y].size = d.qty /\ book'[y].dist = d.for.dist
  BY <1>1, <1>2, <1>6 DEF Books
<1>8. \A s \in Symbol : s # y => book'[s] = book[s]
  BY <1>1
<1> HIDE DEF D, L, d, y
<1>9. \A s \in Symbol : GrantIn(Tail(D), s) = IF s = y THEN 0 ELSE GrantIn(D, s)
  BY <1>1, <1>2, <1>3, GrantTaken DEF y, d
<1>10. GrantIn(D, y) = d.risk
  BY <1>1, <1>3, <1>4, GrantIs DEF y
<1>11. ASSUME NEW s \in Symbol
       PROVE  LoadAt(book', Tail(D), L, s) <= LoadAt(book, D, L, s)
  <2>1. CASE s # y
    <3>1. LoadAt(book', Tail(D), L, s) = LoadAt(book, D, L, s)
      BY <1>8, <1>9, <2>1 DEF LoadAt
    <3>2. LoadAt(book, D, L, s) \in Int
      BY <1>2, LoadType
    <3> QED
      BY <3>1, <3>2
  <2>2. CASE s = y
    <3>1. LessHalfStep(book'[y]) = 2 * (d.qty * d.for.dist) - d.for.dist
      BY <1>7 DEF LessHalfStep, RiskOf
    <3>2. LessHalfStep(book[y]) = 0 /\ ChargeIn(L, y) \in Nat
      BY <1>2, <1>5, <1>6, PositionLoad, ChargeType DEF Listings
    <3>3. GrantIn(Tail(D), y) = 0
      BY <1>6, <1>9
    <3>4. LoadAt(book', Tail(D), L, y)
            = 2 * (d.qty * d.for.dist) - d.for.dist - 2 * ChargeIn(L, y)
      BY <1>6, <3>1, <3>2, <3>3 DEF LoadAt
    <3>5. LoadAt(book, D, L, y) = 2 * d.risk - 2 * ChargeIn(L, y)
      BY <1>6, <1>10, <3>2 DEF LoadAt
    <3> QED
      BY <1>5, <1>6, <2>2, <3>2, <3>4, <3>5 DEF HalfStepFor
  <2> QED
    BY <2>1, <2>2
<1>12. TotalLoad(book', Tail(D), L) <= TotalLoad(book, D, L)
  BY <1>2, <1>11, LoadOrder
<1> QED
  BY <1>1, <1>5, <1>12 DEF CycleLoad, D, L

(* Positions that leave or shrink.                                         *)
LEMMA FallingLoad ==
  ASSUME TypeOK, TypeOK', cycle' = cycle,
         \A s \in Symbol : LessHalfStep(book'[s]) <= LessHalfStep(book[s])
  PROVE  CycleLoad' <= CycleLoad
<1> DEFINE D == cycle.decided
           L == cycle.listed
<1>1. book \in Books /\ D \in Seq(Decision) /\ L \in Listings /\ book' \in Books
  BY StateTypes DEF TypeOK, Books
<1> HIDE DEF D, L
<1>2. ASSUME NEW s \in Symbol PROVE LoadAt(book', D, L, s) <= LoadAt(book, D, L, s)
  <2>1. /\ GrantIn(D, s) \in Nat /\ ChargeIn(L, s) \in Nat
        /\ LessHalfStep(book[s]) \in Nat /\ LessHalfStep(book'[s]) \in Nat
    BY <1>1, GrantType, ChargeType, PositionLoad DEF Listings
  <2> QED
    BY <2>1 DEF LoadAt
<1>3. TotalLoad(book', D, L) <= TotalLoad(book, D, L)
  BY <1>1, <1>2, LoadOrder
<1> QED
  BY <1>3 DEF CycleLoad, D, L

(* The first entry of a second pass.                                       *)
LEMMA LateLoad ==
  ASSUME TypeOK, TypeOK', SymbolInv, TotalOnly, Loaded, cycle.tried = {},
         NEW c \in Signals, PlaceLate(c)
  PROVE  CycleLoad' <= 2 * Cap
<1> DEFINE D == cycle.decided
           L == cycle.listed
           y == c.sym
           g == Weigh(Whole(c))
           q == AtLeast(MinQty, RoundHalfEven(c.qty * g.num, g.den))
<1>1. /\ cycle'.decided = D /\ cycle'.listed = L /\ cycle.at = "late"
      /\ book[y] = None /\ FitsAlone(c, c.qty * c.dist)
      /\ book' = [book EXCEPT ![y] = [side |-> c.side, size |-> q, dist |-> c.dist]]
  BY DEF PlaceLate, Enter, TypeOK
<1>2. /\ book \in Books /\ D \in Seq(Decision) /\ L \in Listings /\ book' \in Books
      /\ cycle.start.total \in Nat /\ Cap \in Nat /\ CycleLoad \in Int
  BY StateTypes DEF TypeOK, Books
<1>3. c \in Candidate /\ c.dist \in Nat /\ c.qty \in Nat /\ y \in Symbol
      /\ c.qty * c.dist \in Nat
  BY SignalCandidate, MulNat, AllocationAssumption DEF Candidate
<1>4. cycle.start.total + c.qty * c.dist <= Cap
  <2>1. limits.total \in Nat \ {0}
    BY AllocationAssumption DEF TypeOK, Limit
  <2> QED
    BY <1>1, <2>1 DEF FitsAlone, Fits, Cap
<1>5. CycleLoad <= 2 * cycle.start.total
  BY <1>1 DEF Loaded, SymbolInv, Stages
<1>6. 2 * (q * c.dist) - c.dist <= 2 * (c.qty * c.dist)
  BY LateRounds
<1>7. /\ book'[y].size = q /\ book'[y].dist = c.dist
      /\ \A s \in Symbol : s # y => book'[s] = book[s]
  BY <1>1, <1>2, <1>3 DEF Books
<1> HIDE DEF D, L, g, q, y
<1>8. \A s \in Symbol : s # y => LoadAt(book', D, L, s) = LoadAt(book, D, L, s)
  BY <1>7 DEF LoadAt
<1>9. TotalLoad(book', D, L)
        = TotalLoad(book, D, L) - LoadAt(book, D, L, y) + LoadAt(book', D, L, y)
  BY <1>2, <1>3, <1>8, LoadMoves
<1>10. /\ LessHalfStep(book[y]) = 0
       /\ LessHalfStep(book'[y]) = 2 * (q * c.dist) - c.dist
       /\ LessHalfStep(book'[y]) \in Nat
  BY <1>1, <1>2, <1>3, <1>7, PositionLoad DEF LessHalfStep, RiskOf
<1>11. GrantIn(D, y) \in Nat /\ ChargeIn(L, y) \in Nat
  BY <1>2, GrantType, ChargeType DEF Listings
<1>12. LoadAt(book', D, L, y) - LoadAt(book, D, L, y) = LessHalfStep(book'[y])
  BY <1>10, <1>11 DEF LoadAt
<1>13. LoadAt(book', D, L, y) \in Int /\ LoadAt(book, D, L, y) \in Int
       /\ TotalLoad(book, D, L) \in Int
  BY <1>2, <1>3, LoadType
<1>14. TotalLoad(book', D, L) = TotalLoad(book, D, L) + LessHalfStep(book'[y])
  BY <1>9, <1>10, <1>12, <1>13
<1>15. CycleLoad = TotalLoad(book, D, L) /\ CycleLoad' = TotalLoad(book', D, L)
  BY <1>1 DEF CycleLoad, D, L
<1>16. LessHalfStep(book'[y]) <= 2 * (c.qty * c.dist)
  BY <1>6, <1>10
<1> QED
  BY <1>2, <1>3, <1>4, <1>5, <1>10, <1>14, <1>15, <1>16

LEMMA NextTypes ==
  ASSUME TypeOK'
  PROVE  CycleLoad' \in Int /\ cycle'.used.total \in Nat
<1>1. book' \in Books /\ cycle'.decided \in Seq(Decision) /\ cycle'.listed \in Listings
  BY DEF TypeOK, Books, Listings
<1>2. cycle'.used.total \in Nat
  BY DEF TypeOK, Budget
<1> QED
  BY <1>1, <1>2, LoadType DEF CycleLoad

LEMMA LoadStep ==
  TypeOK /\ TypeOK' /\ SymbolInv /\ SymbolInv' /\ LoadInv /\ [Next]_vars => LoadInv'
<1> SUFFICES ASSUME TypeOK, TypeOK', SymbolInv, SymbolInv', LoadInv, [Next]_vars, TotalOnly'
             PROVE  Rounded' /\ Loaded'
  BY DEF LoadInv
<1>0. limits' = limits
  BY DEF Next, vars, CycleStart, Tally, Tallied, Offer, PlaceLate, Collected, Allocate,
         Allocated, Place, Skip, CycleEnd, Leave, Lighten, EquityMoves
<1>1. TotalOnly /\ Rounded /\ Loaded
  BY <1>0 DEF TotalOnly, LoadInv
<1>2. /\ CycleLoad \in Int /\ CycleLoad' \in Int
      /\ cycle.used.total \in Nat /\ cycle'.used.total \in Nat /\ Cap \in Nat
      /\ cycle.decided \in Seq(Decision)
  BY StateTypes, NextTypes
<1>3. ASSUME NEW clusters \in [Symbol -> Cluster \cup {NoCluster}], CycleStart(clusters)
      PROVE  Rounded' /\ Loaded'
  <2>1. CycleLoad' <= 0
    BY <1>3, StartLoad DEF CycleLoad
  <2>2. cycle'.at = "tally" /\ cycle'.decided = <<>>
    BY <1>3 DEF CycleStart, Idle
  <2> QED
    BY <1>2, <2>1, <2>2 DEF Rounded, Loaded
<1>4. ASSUME NEW x \in cycle.listed, Tally(x) PROVE Rounded' /\ Loaded'
  <2>1. /\ CycleLoad' = CycleLoad + 2 * x[2].risk
        /\ cycle'.used.total = cycle.used.total + x[2].risk
        /\ x[2].risk \in Nat
    BY <1>4, TallyLoad
  <2>2. cycle'.at = "tally" /\ cycle.at = "tally" /\ cycle'.decided = cycle.decided
    BY <1>4 DEF Tally, TypeOK
  <2>3. CycleLoad <= 2 * cycle.used.total
    BY <1>1, <2>2 DEF Loaded
  <2>4. CycleLoad' <= 2 * cycle'.used.total
    BY <1>2, <2>1, <2>3
  <2> QED
    BY <1>1, <2>2, <2>4 DEF Rounded, Loaded
<1>5. ASSUME NEW c \in cycle.offers, Allocate(c) PROVE Rounded' /\ Loaded'
  <2> DEFINE d == Decide(c, Granted(c))
             D == cycle.decided
  <2>1. /\ CycleLoad' = CycleLoad + IF d.why = "granted" THEN 2 * d.risk ELSE 0
        /\ cycle'.used.total = cycle.used.total + d.risk
        /\ cycle'.decided = Append(D, d)
        /\ d.risk \in Nat /\ c \in Candidate
    BY <1>5, AllocateLoad
  <2>2. d.why = "granted" => HalfStepFor(d) /\ cycle.used.total + d.risk <= Cap
    BY <1>1, <2>1, DecisionRounds DEF Cap
  <2>3. d.why # "granted" => d.risk = 0
    BY DEF Decide
  <2>4. cycle'.at = "allocate" /\ cycle.at = "allocate" /\ Cap' = Cap
    BY <1>0, <1>5 DEF Allocate, TypeOK, Cap
  <2> HIDE DEF d
  <2>5. ASSUME NEW i \in DOMAIN Append(D, d)
        PROVE  \/ i \in DOMAIN D /\ Append(D, d)[i] = D[i]
               \/ Append(D, d)[i] = d
    BY <1>2, <2>5
  <2>6. Rounded'
    BY <1>1, <2>1, <2>2, <2>5 DEF Rounded, HalfStepFor
  <2>7. CycleLoad' <= 2 * cycle'.used.total
    <3>1. CycleLoad <= 2 * cycle.used.total
      BY <1>1, <2>4 DEF Loaded
    <3> QED
      BY <1>2, <2>1, <3>1
  <2>8. Granting(Append(D, d)) => cycle'.used.total <= Cap'
    <3>1. CASE d.why = "granted"
      BY <2>1, <2>2, <2>4, <3>1
    <3>2. CASE d.why # "granted"
      <4>1. Granting(Append(D, d)) => Granting(D)
        BY <2>5, <3>2 DEF Granting
      <4>2. Granting(D) => cycle.used.total <= Cap
        BY <1>1, <2>4 DEF Loaded
      <4> QED
        BY <1>2, <2>1, <2>3, <2>4, <3>2, <4>1, <4>2
    <3> QED
      BY <3>1, <3>2
  <2> QED
    BY <2>1, <2>4, <2>6, <2>7, <2>8 DEF Loaded
<1>6. CASE Allocated
  <2>1. /\ cycle'.at = "place" /\ cycle.at = "allocate" /\ cycle'.decided = cycle.decided
        /\ cycle'.equity = cycle.equity /\ cycle'.listed = {} /\ book' = book
    BY <1>6 DEF Allocated, Idle
  <2>2. cycle.listed = {}
    BY <2>1 DEF SymbolInv, Stages
  <2>3. CycleLoad' = CycleLoad /\ Cap' = Cap
    BY <1>0, <2>1, <2>2 DEF CycleLoad, Cap
  <2>4. Granting(cycle.decided) => CycleLoad <= 2 * Cap
    BY <1>1, <1>2, <2>1 DEF Loaded
  <2> QED
    BY <1>1, <2>1, <2>3, <2>4 DEF Rounded, Loaded
<1>7. CASE Place \/ Skip
  <2>1. /\ cycle'.at = "place" /\ cycle.at = "place" /\ cycle.decided # <<>>
        /\ cycle'.decided = Tail(cycle.decided) /\ cycle'.equity = cycle.equity
    BY <1>7 DEF Place, Skip, TypeOK
  <2>2. CycleLoad' <= CycleLoad /\ Cap' = Cap
    BY <1>0, <1>1, <1>7, <2>1, PlaceLoad, SkipLoad DEF Cap
  <2>3. \A i \in DOMAIN cycle'.decided :
          i + 1 \in DOMAIN cycle.decided /\ cycle'.decided[i] = cycle.decided[i + 1]
    BY <1>2, <2>1
  <2>4. Rounded'
    BY <1>1, <2>3 DEF Rounded, HalfStepFor
  <2>5. Granting(cycle'.decided) => Granting(cycle.decided)
    BY <2>3 DEF Granting
  <2>6. Granting(cycle.decided) => CycleLoad <= 2 * Cap
    BY <1>1, <2>1 DEF Loaded
  <2>7. Granting(cycle'.decided) => CycleLoad' <= 2 * Cap'
    BY <1>2, <2>2, <2>5, <2>6
  <2> QED
    BY <2>1, <2>4, <2>7 DEF Loaded
<1>8. ASSUME NEW c \in Signals, PlaceLate(c) PROVE Rounded' /\ Loaded'
  <2>1. cycle'.at = "late" /\ cycle'.tried # {} /\ cycle'.decided = cycle.decided
    BY <1>8 DEF PlaceLate, TypeOK
  <2> QED
    BY <1>1, <2>1 DEF Rounded, Loaded
<1>9. ASSUME cycle'.decided = cycle.decided, cycle'.used = cycle.used,
             cycle'.equity = cycle.equity, CycleLoad' <= CycleLoad,
             \/ cycle'.at = cycle.at /\ cycle'.tried = cycle.tried
             \/ /\ cycle.at \in {"tally", "offer"}
                /\ cycle'.at \in {"offer", "late", "allocate"}
      PROVE  Rounded' /\ Loaded'
  <2>1. Rounded' /\ Cap' = Cap
    BY <1>0, <1>1, <1>9 DEF Rounded, Cap
  <2>2. CASE cycle'.at = cycle.at /\ cycle'.tried = cycle.tried
    BY <1>1, <1>2, <1>9, <2>1, <2>2 DEF Loaded
  <2>3. CASE cycle.at \in {"tally", "offer"} /\ cycle'.at \in {"offer", "late", "allocate"}
    <3>1. cycle.decided = <<>>
      BY <2>3 DEF SymbolInv, Stages
    <3>2. CycleLoad <= 2 * cycle.used.total
      BY <1>1, <2>3 DEF Loaded
    <3>3. CycleLoad' <= 2 * cycle'.used.total /\ ~Granting(cycle'.decided)
      BY <1>2, <1>9, <3>1, <3>2 DEF Granting
    <3> QED
      BY <2>1, <2>3, <3>3 DEF Loaded
  <2> QED
    BY <1>9, <2>2, <2>3
<1>10. CASE Tallied \/ Collected \/ \E c \in Signals : Offer(c)
  <2>1. /\ cycle'.decided = cycle.decided /\ cycle'.used = cycle.used
        /\ cycle'.equity = cycle.equity /\ cycle'.listed = cycle.listed /\ book' = book
        /\ cycle.at \in {"tally", "offer"}
        /\ cycle'.at \in {"offer", "late", "allocate"}
    BY <1>10 DEF Tallied, Collected, Offer, TypeOK
  <2>2. CycleLoad' = CycleLoad
    BY <2>1 DEF CycleLoad
  <2> QED
    BY <1>2, <1>9, <2>1, <2>2
<1>11. CASE CycleEnd
  <2>1. cycle'.at = "idle" /\ cycle'.decided = <<>>
    BY <1>11 DEF CycleEnd, Idle
  <2> QED
    BY <2>1 DEF Rounded, Loaded
<1>12. ASSUME NEW s \in Symbol, Leave(s) \/ Lighten(s) PROVE Rounded' /\ Loaded'
  <2>1. book \in Books /\ book' \in Books /\ cycle' = cycle
    BY <1>12 DEF TypeOK, Books, Leave, Lighten
  <2>2. \A x \in Symbol : LessHalfStep(book'[x]) <= LessHalfStep(book[x])
    <3> SUFFICES ASSUME NEW x \in Symbol
                 PROVE  LessHalfStep(book'[x]) <= LessHalfStep(book[x])
      OBVIOUS
    <3>1. LessHalfStep(book[x]) \in Nat
      BY <2>1, PositionLoad
    <3>2. CASE x # s
      <4>1. book'[x] = book[x]
        BY <1>12, <2>1, <3>2 DEF Leave, Lighten, Books
      <4> QED
        BY <3>1, <4>1
    <3>3. CASE x = s /\ Leave(s)
      <4>1. book'[s] = None
        BY <2>1, <3>3 DEF Leave, Books
      <4> QED
        BY <2>1, <3>1, <3>3, <4>1, PositionLoad
    <3>4. CASE x = s /\ Lighten(s)
      <4>1. book[s] \in Position /\ book[s].size \in Nat /\ book[s].size > 1
            /\ book[s].dist \in Nat
        BY <2>1, <3>4, AllocationAssumption DEF Lighten, None, Position, Books
      <4>2. /\ book'[s].size = RoundHalfEven(book[s].size, 2)
            /\ book'[s].dist = book[s].dist
        BY <2>1, <3>4, <4>1 DEF Lighten, Books, Position
      <4>3. book'[s].size \in Nat /\ book'[s].size <= book[s].size
        BY <4>1, <4>2 DEF RoundHalfEven
      <4>4. book'[s].size * book[s].dist <= book[s].size * book[s].dist
        BY <4>1, <4>3
      <4>5. book'[s].size * book[s].dist \in Nat /\ book[s].size * book[s].dist \in Nat
        BY <4>1, <4>3, MulNat
      <4> QED
        BY <3>4, <4>1, <4>2, <4>4, <4>5 DEF LessHalfStep, RiskOf
    <3> QED
      BY <1>12, <3>2, <3>3, <3>4
  <2>3. CycleLoad' <= CycleLoad
    BY <2>1, <2>2, FallingLoad
  <2> QED
    BY <1>9, <2>1, <2>3
<1>13. CASE EquityMoves \/ UNCHANGED vars
  <2>1. cycle' = cycle /\ book' = book
    BY <1>13 DEF EquityMoves, vars
  <2>2. CycleLoad' = CycleLoad
    BY <2>1 DEF CycleLoad
  <2> QED
    BY <1>2, <1>9, <2>1, <2>2
<1> QED
  BY <1>3, <1>4, <1>5, <1>6, <1>7, <1>8, <1>10, <1>11, <1>12, <1>13 DEF Next

(* What the open positions stand for, less half a step each, is no more    *)
(* than the load once nothing is left to be charged.                       *)
LEMMA WithinLoad ==
  ASSUME TypeOK, TypeOK', cycle'.listed = {}, CycleLoad' <= 2 * Cap
  PROVE  WithinTotal(book')
<1> DEFINE f == [s \in Symbol |-> LessHalfStep(book'[s])]
           h == [s \in Symbol |-> LoadAt(book', cycle'.decided, {}, s)]
<1>1. book' \in Books /\ cycle'.decided \in Seq(Decision) /\ {} \in Listings
  BY DEF TypeOK, Books, Listings
<1>2. ASSUME NEW s \in Symbol
      PROVE  /\ LessHalfStep(book'[s]) \in Int
             /\ LoadAt(book', cycle'.decided, {}, s) \in Int
             /\ LessHalfStep(book'[s]) <= LoadAt(book', cycle'.decided, {}, s)
  <2>1. LessHalfStep(book'[s]) \in Nat /\ GrantIn(cycle'.decided, s) \in Nat
    BY <1>1, PositionLoad, GrantType
  <2>2. ChargeIn({}, s) = 0
    BY DEF ChargeIn
  <2> QED
    BY <2>1, <2>2 DEF LoadAt
<1>3. \A s \in Symbol : f[s] \in Int /\ h[s] \in Int /\ f[s] <= h[s]
  BY <1>2
<1> HIDE DEF f, h
<1>4. SumFunctionOnSet(f, Symbol) <= SumFunctionOnSet(h, Symbol)
  BY <1>3, SumOrder, AllocationAssumption
<1>5. SumFunctionOnSet(f, Symbol) \in Int /\ SumFunctionOnSet(h, Symbol) \in Int
  BY <1>3, SumType, AllocationAssumption
<1>6. SumFunctionOnSet(h, Symbol) = CycleLoad'
  BY DEF h, CycleLoad, TotalLoad
<1>7. Cap \in Nat
  BY StateTypes
<1>8. SumFunctionOnSet(f, Symbol) <= 2 * Cap
  BY <1>4, <1>5, <1>6, <1>7
<1>9. 2 * Cap = 2 * limits.total * cycle.equity
  <2>1. limits.total \in Nat /\ cycle.equity \in Nat
    BY AllocationAssumption DEF TypeOK, Limit
  <2> QED
    BY <2>1 DEF Cap
<1> QED
  BY <1>8, <1>9 DEF WithinTotal, f

(* Nothing else enters a position.                                         *)
LEMMA EnteringIs ==
  ASSUME TypeOK, Next, Entering
  PROVE  Place \/ \E c \in Signals : PlaceLate(c)
<1>1. PICK s \in Symbol : book[s] = None /\ book'[s] # None
  BY DEF Entering
<1>2. ASSUME NEW x \in Symbol, Leave(x) \/ Lighten(x) PROVE FALSE
  <2>1. book[x] # None /\ book \in [Symbol -> Position \cup {None}]
    BY <1>2 DEF Leave, Lighten, None, TypeOK
  <2> QED
    BY <1>1, <1>2, <2>1 DEF Leave, Lighten
<1> QED
  BY <1>1, <1>2 DEF Next, CycleStart, Tally, Tallied, Offer, Collected, Allocate,
     Allocated, Skip, CycleEnd, EquityMoves

LEMMA EntryStep ==
  ASSUME TypeOK, TypeOK', SymbolInv, LoadInv, Next, Entering, TotalOnly, cycle.tried = {}
  PROVE  WithinTotal(book')
<1>1. Rounded /\ Loaded
  BY DEF LoadInv
<1>2. CASE Place
  <2>1. CycleLoad' <= CycleLoad /\ CycleLoad <= 2 * Cap
    BY <1>1, <1>2, PlaceLoad
  <2>2. CycleLoad' <= 2 * Cap
    BY <2>1, StateTypes, NextTypes
  <2>3. cycle'.listed = {}
    BY <1>2 DEF Place, TypeOK, SymbolInv, Stages
  <2> QED
    BY <2>2, <2>3, WithinLoad
<1>3. ASSUME NEW c \in Signals, PlaceLate(c) PROVE WithinTotal(book')
  <2>1. CycleLoad' <= 2 * Cap
    BY <1>1, <1>3, LateLoad
  <2>2. cycle'.listed = {}
    BY <1>3 DEF PlaceLate, TypeOK, SymbolInv, Stages
  <2> QED
    BY <2>1, <2>2, WithinLoad
<1> QED
  BY <1>2, <1>3, EnteringIs

LEMMA LoadHolds == Spec => [](TypeOK /\ SymbolInv /\ LoadInv)
<1>1. Init => TypeOK
  BY IdleType DEF Init, TypeOK, Idle
<1>2. Init => SymbolInv /\ LoadInv
  BY DEF Init, Idle, SymbolInv, Stages, OncePerSymbol, NotHeldYet, OneEach, OneDecision,
         LoadInv, Rounded, Loaded
<1> QED
  BY <1>1, <1>2, TypeStep, SymbolStep, LoadStep, PTL DEF Spec

(* With a total budget alone, every entry from the decisions of a cycle    *)
(* and the first of a second pass leave the open risk within the budget    *)
(* (allocate_candidate_set, allocate_risk and the entries of main.py).     *)
(* Later entries of a second pass are compared with the budgets of the     *)
(* start, which do not know of the first.                                  *)
THEOREM EntriesStayWithinTotal ==
  Spec => [][Entering /\ TotalOnly /\ cycle.tried = {} => WithinTotal(book')]_vars
<1>1. TypeOK /\ TypeOK' /\ SymbolInv /\ LoadInv /\ [Next]_vars
        => [Entering /\ TotalOnly /\ cycle.tried = {} => WithinTotal(book')]_vars
  BY EntryStep
<1> QED
  BY <1>1, LoadHolds, PTL DEF Spec

(* With at most one entry in a second pass, that is every entry.           *)
THEOREM OneLateEntryStaysWithinTotal ==
  ASSUME MaxLate <= 1
  PROVE  Spec => EntryWithinTotal
<1>1. ASSUME TypeOK, TypeOK', SymbolInv, LoadInv, Next, Entering, TotalOnly
      PROVE  WithinTotal(book')
  <2>1. cycle.tried = {}
    <3>1. CASE Place
      BY <1>1, <3>1 DEF Place, SymbolInv, Stages
    <3>2. ASSUME NEW c \in Signals, PlaceLate(c) PROVE cycle.tried = {}
      <4>1. Cardinality(cycle.tried) < MaxLate
        BY <3>2 DEF PlaceLate
      <4>2. IsFiniteSet(cycle.tried)
        BY <1>1, FS_Subset, AllocationAssumption DEF TypeOK
      <4>3. Cardinality(cycle.tried) \in Nat
        BY <4>2, FS_CardinalityType
      <4>4. Cardinality(cycle.tried) = 0
        BY <4>1, <4>3, AllocationAssumption
      <4> QED
        BY <4>2, <4>4, FS_EmptySet
    <3> QED
      BY <1>1, <3>1, <3>2, EnteringIs
  <2> QED
    BY <1>1, <2>1, EntryStep
<1>2. TypeOK /\ TypeOK' /\ SymbolInv /\ LoadInv /\ [Next]_vars
        => [Entering /\ TotalOnly => WithinTotal(book')]_vars
  BY <1>1
<1> QED
  BY <1>2, LoadHolds, PTL DEF Spec, EntryWithinTotal
============================================================================
