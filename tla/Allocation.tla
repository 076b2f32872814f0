----------------------------- MODULE Allocation -----------------------------
(***************************************************************************)
(* Risk budgets of stage 5: src/src/portfolio/allocator.py and            *)
(* risk_budget.py as the scoring loop of src/src/main.py uses them.        *)
(*                                                                         *)
(* A cycle of the loop reads the budgets in use from the tracked           *)
(* positions, collects candidates, allocates risk to them in the order of  *)
(* their scores and places the orders.  If it finds no candidate it goes   *)
(* through its signals a second time and sizes each one alone against the  *)
(* budgets of the start.  Positions leave and shrink, and equity changes,  *)
(* at any moment.                                                          *)
(*                                                                         *)
(* Abstractions: a quantity is a number of quantity steps; a position is   *)
(* its side, its size and the distance of its stop, which stays where it   *)
(* is (one moved to the entry price counts as no risk, like an exit); risk *)
(* is size times distance; budgets and the risk per trade are multiples of *)
(* equity.  The other limits of can_open_position are in RiskGate: here    *)
(* they are among the reasons for which a candidate is not offered or not  *)
(* entered.                                                                *)
(***************************************************************************)
EXTENDS Integers, FiniteSets, Sequences, FiniteSetsExt, Functions

CONSTANTS
  Symbol,
  Cluster,          (* what correlation.py groups symbols into             *)
  NoCluster,        (* no cluster: no features, or stage 4 is off          *)
  Distance,         (* distances of a stop, in units of risk per step      *)
  Score,            (* absolute values of scores                           *)
  Equity,           (* values equity takes                                 *)
  RiskPerTrade,     (* config.risk.risk_per_trade_pct                      *)
  MaxQty,           (* sizes the notional caps allow                       *)
  MinQty,           (* the least size of an order                          *)
  MaxPositions,     (* config.risk.max_concurrent_positions                *)
  Limits,           (* configurations: the budgets and ScoreWeighted       *)
  MaxLate           (* bound: entries of a second pass                     *)

Side == {"Buy", "Sell"}

(* total is max_total_risk_pct, side max_long_ and max_short_risk_pct,     *)
(* cluster max_cluster_risk_pct; 0 is no budget.  weighted: is             *)
(* allocation_method "capped_score_weighted"?  stage4: are symbols grouped *)
(* into clusters?                                                          *)
Limit == [total : Nat \ {0}, side : [Side -> Nat], cluster : Nat,
          weighted : BOOLEAN, stage4 : BOOLEAN]

ASSUME AllocationAssumption ==
  /\ IsFiniteSet(Symbol) /\ IsFiniteSet(Cluster)
  /\ NoCluster \notin Cluster
  /\ Distance \cup Score \cup Equity \cup MaxQty \subseteq Nat \ {0}
  /\ {RiskPerTrade, MinQty, MaxPositions} \subseteq Nat \ {0}
  /\ Limits \subseteq Limit
  /\ MaxLate \in Nat

None == [side |-> "none", size |-> 0, dist |-> 0]
Position == [side : Side, size : Nat \ {0}, dist : Distance]

(* CandidateForAllocation: qty is the size of its base sizing.             *)
Candidate == [sym : Symbol, side : Side, score : Score, qty : Nat \ {0},
              dist : Distance, cluster : Cluster \cup {NoCluster}]

(* AllocationDecision: the size, the risk that is booked for it, and why   *)
(* there is none.                                                          *)
Decision == {d \in [for : Candidate, qty : Nat, risk : Nat,
                    why : {"granted", "no_room", "min_qty"}] :
               d.why = "granted" => d.qty > 0}

(* What a budget state is charged with: a position or a decision.          *)
Charge == [side : Side, cluster : Cluster \cup {NoCluster}, risk : Nat]

(* RiskBudgetState.                                                        *)
Budget == [total : Nat, side : [Side -> Nat], cluster : [Cluster -> Nat]]

VARIABLES
  limits,   (* the configuration                                           *)
  book,     (* PositionManager._positions                                  *)
  equity,   (* the equity read last                                        *)
  cycle     (* the cycle in progress                                       *)

vars == <<limits, book, equity, cycle>>

NoBudget == [total |-> 0, side |-> [d \in Side |-> 0], cluster |-> [k \in Cluster |-> 0]]

Idle == [at |-> "idle", equity |-> 0, start |-> NoBudget, used |-> NoBudget,
         cluster |-> [s \in Symbol |-> NoCluster],
         listed |-> {}, offers |-> {}, decided |-> <<>>, tried |-> {}]

TypeOK ==
  /\ limits \in Limits
  /\ book \in [Symbol -> Position \cup {None}]
  /\ equity \in Equity
  /\ cycle \in [at : {"idle", "tally", "offer", "allocate", "place", "late"},
                equity : Equity \cup {0}, start : Budget, used : Budget,
                cluster : [Symbol -> Cluster \cup {NoCluster}],
                listed : SUBSET (Symbol \X Charge), offers : SUBSET Candidate, decided : Seq(Decision), tried : SUBSET Symbol]

Init ==
  /\ limits \in Limits
  /\ book = [s \in Symbol |-> None]
  /\ equity \in Equity
  /\ cycle = Idle

----------------------------------------------------------------------------
Held == {s \in Symbol : book[s] # None}
RiskOf(p) == p.size * p.dist
RiskOver(S) == MapThenSumSet(LAMBDA s : RiskOf(book[s]), S)

(* Python's round of n/d.                                                  *)
RoundHalfEven(n, d) ==
  LET q == n \div d
      twice == 2 * (n % d)
  IN IF twice > d \/ (twice = d /\ q % 2 = 1) THEN q + 1 ELSE q

AtLeast(min, n) == IF n < min THEN min ELSE n
AtMost(max, n) == IF n > max THEN max ELSE n

(* compute_position_size: the risk per trade over the distance, within the *)
(* notional caps, in steps.                                                *)
BaseQty(dist, max) ==
  AtLeast(MinQty, AtMost(max, RoundHalfEven(RiskPerTrade * equity, dist)))

(* The parts of can_open_position that look at positions and at risk.      *)
CanOpen(risk) ==
  /\ Cardinality(Held) < MaxPositions
  /\ risk <= limits.total * equity

----------------------------------------------------------------------------
(* A grant is the risk left to a candidate and its quantity as a fraction  *)
(* num/den of the base size.                                               *)
Whole(c) == [risk |-> c.qty * c.dist, num |-> 1, den |-> 1, room |-> TRUE]
Nothing == [risk |-> 0, num |-> 0, den |-> 1, room |-> FALSE]
Resized(g) == g.num # g.den

(* Mutant: a candidate that does not fit is let through as it is when      *)
(* there is any room.                                                      *)
FitWhole(g, used, cap) ==
  IF ~g.room \/ used + g.risk <= cap THEN g
  ELSE IF cap <= used THEN Nothing ELSE [g EXCEPT !.num = 1]

(* One budget of allocate_candidate_set: a candidate that does not fit is  *)
(* cut down to the room there is.  The risk is what an earlier budget left *)
(* of it; the quantity is always scaled from the base size.                *)
Fit(g, used, cap) ==
  IF ~g.room \/ used + g.risk <= cap THEN g
  ELSE IF cap <= used THEN Nothing
  ELSE [risk |-> cap - used, num |-> cap - used, den |-> g.risk, room |-> TRUE]

(* A budget of 0 is none.                                                  *)
FitIfAny(g, used, budget) ==
  IF budget = 0 THEN g ELSE Fit(g, used, budget * cycle.equity)

(* capped_score_weighted: at most twice an equal share of the total.       *)
TwiceShare == (2 * limits.total * cycle.equity) \div MaxPositions

Weigh(g) ==
  IF g.room /\ limits.weighted /\ ~Resized(g) /\ g.risk > TwiceShare
  THEN [risk |-> TwiceShare, num |-> TwiceShare, den |-> g.risk, room |-> TRUE]
  ELSE g

(* The budgets in the order of the code.                                   *)
Granted(c) ==
  LET total == Fit(Whole(c), cycle.used.total, limits.total * cycle.equity)
      side == FitIfAny(total, cycle.used.side[c.side], limits.side[c.side])
      both == IF c.cluster = NoCluster THEN side
              ELSE FitIfAny(side, cycle.used.cluster[c.cluster], limits.cluster)
  IN Weigh(both)

(* Mutant: the least size is looked at neither before nor after rounding.  *)
DecideUnclipped(c, g) ==
  IF ~g.room THEN [for |-> c, qty |-> 0, risk |-> 0, why |-> "no_room"]
  ELSE [for |-> c, qty |-> RoundHalfEven(c.qty * g.num, g.den),
        risk |-> g.risk, why |-> "granted"]

(* Too small an order is refused, any other is rounded to steps.           *)
Decide(c, g) ==
  IF ~g.room THEN [for |-> c, qty |-> 0, risk |-> 0, why |-> "no_room"]
  ELSE IF c.qty * g.num < MinQty * g.den
  THEN [for |-> c, qty |-> 0, risk |-> 0, why |-> "min_qty"]
  ELSE [for |-> c, qty |-> AtLeast(MinQty, RoundHalfEven(c.qty * g.num, g.den)),
        risk |-> g.risk, why |-> "granted"]

(* A budget state charged with a position or a decision.                   *)
Charged(used, x) ==
  [total   |-> used.total + x.risk,
   side    |-> [used.side EXCEPT ![x.side] = @ + x.risk],
   cluster |-> [k \in Cluster |->
                  used.cluster[k] + IF k = x.cluster THEN x.risk ELSE 0]]

Booked(used, d) ==
  Charged(used, [side |-> d.for.side, cluster |-> d.for.cluster, risk |-> d.risk])

----------------------------------------------------------------------------
(* A cycle lists the positions and groups the symbols ...                  *)
CycleStart(clusters) ==
  /\ cycle.at = "idle"
  /\ limits.stage4 \/ clusters = [s \in Symbol |-> NoCluster]
  /\ cycle' = [Idle EXCEPT
       !.at = "tally", !.equity = equity, !.cluster = clusters,
       !.listed = {<<s, [side |-> book[s].side, cluster |-> clusters[s],
                         risk |-> RiskOf(book[s])]>> : s \in Held}]
  /\ UNCHANGED <<limits, book, equity>>

(* ... and charges them to the budgets, one by one (build_budget_state).   *)
Tally(x) ==
  /\ cycle.at = "tally" /\ x \in cycle.listed
  /\ cycle' = [cycle EXCEPT !.listed = @ \ {x}, !.used = Charged(@, x[2])]
  /\ UNCHANGED <<limits, book, equity>>

(* These are the budgets in use.                                           *)
Tallied ==
  /\ cycle.at = "tally" /\ cycle.listed = {}
  /\ cycle' = [cycle EXCEPT !.at = "offer", !.start = cycle.used]
  /\ UNCHANGED <<limits, book, equity>>

(* A signal that passes every check becomes a candidate.                   *)
Offer(c) ==
  /\ cycle.at = "offer"
  /\ \A o \in cycle.offers : o.sym # c.sym
  /\ book[c.sym] = None /\ CanOpen(cycle.start.total)
  /\ cycle' = [cycle EXCEPT !.offers = @ \cup {c}]
  /\ UNCHANGED <<limits, book, equity>>

(* All signals have been looked at.                                        *)
Collected ==
  /\ cycle.at = "offer"
  /\ cycle' = [cycle EXCEPT !.at = IF cycle.offers = {} THEN "late" ELSE "allocate"]
  /\ UNCHANGED <<limits, book, equity>>

(* Mutant: candidates are allocated in the order of the signals.           *)
AllocateUnsorted(c) ==
  LET d == Decide(c, Granted(c))
  IN /\ cycle.at = "allocate" /\ c \in cycle.offers
     /\ cycle' = [cycle EXCEPT !.offers = @ \ {c}, !.used = Booked(@, d),
                               !.decided = Append(@, d)]
     /\ UNCHANGED <<limits, book, equity>>

(* Mutant: the running budgets are not updated.                            *)
AllocateUnbooked(c) ==
  LET d == Decide(c, Granted(c))
  IN /\ cycle.at = "allocate" /\ c \in cycle.offers
     /\ \A o \in cycle.offers : o.score <= c.score
     /\ cycle' = [cycle EXCEPT !.offers = @ \ {c}, !.decided = Append(@, d)]
     /\ UNCHANGED <<limits, book, equity>>

(* The candidate with the highest score is next.                           *)
Allocate(c) ==
  LET d == Decide(c, Granted(c))
  IN /\ cycle.at = "allocate" /\ c \in cycle.offers
     /\ \A o \in cycle.offers : o.score <= c.score
     /\ cycle' = [cycle EXCEPT !.offers = @ \ {c}, !.used = Booked(@, d),
                               !.decided = Append(@, d)]
     /\ UNCHANGED <<limits, book, equity>>

(* The decisions become orders, in their order; the running budgets were   *)
(* a copy and are gone.                                                    *)
Allocated ==
  /\ cycle.at = "allocate" /\ cycle.offers = {}
  /\ cycle' = [Idle EXCEPT !.at = "place", !.equity = cycle.equity,
                           !.decided = cycle.decided]
  /\ UNCHANGED <<limits, book, equity>>

Enter(c, qty) ==
  book' = [book EXCEPT ![c.sym] = [side |-> c.side, size |-> qty, dist |-> c.dist]]

(* An order is placed, after another look at the limits ...                *)
Place ==
  /\ cycle.at = "place" /\ cycle.decided # <<>>
  /\ LET d == Head(cycle.decided)
     IN d.why = "granted" /\ CanOpen(RiskOver(Symbol)) /\ Enter(d.for, d.qty)
  /\ cycle' = [cycle EXCEPT !.decided = Tail(@)]
  /\ UNCHANGED <<limits, equity>>

(* ... or the decision is a refusal, a limit is reached, or the order      *)
(* fails.                                                                  *)
Skip ==
  /\ cycle.at = "place" /\ cycle.decided # <<>>
  /\ cycle' = [cycle EXCEPT !.decided = Tail(@)]
  /\ UNCHANGED <<limits, book, equity>>

(* check_total_risk_budget and its siblings: a budget with what is in use  *)
(* of it.                                                                  *)
Fits(used, budget, risk) == budget = 0 \/ used + risk <= budget * cycle.equity

(* allocate_risk compares a candidate with the budgets of the start: it    *)
(* fits or is refused.                                                     *)
FitsAlone(c, risk) ==
  /\ Fits(cycle.start.total, limits.total, risk)
  /\ Fits(cycle.start.side[c.side], limits.side[c.side], risk)
  /\ c.cluster # NoCluster
       => Fits(cycle.start.cluster[c.cluster], limits.cluster, risk)

(* The second pass: allocate_risk.  A signal can pass now because its      *)
(* position has left or because the available balance has changed.         *)
PlaceLate(c) ==
  LET g == Weigh(Whole(c))
  IN /\ cycle.at = "late"
     /\ c.sym \notin cycle.tried /\ Cardinality(cycle.tried) < MaxLate
     /\ book[c.sym] = None /\ CanOpen(cycle.start.total)
     /\ FitsAlone(c, c.qty * c.dist)
     /\ Enter(c, AtLeast(MinQty, RoundHalfEven(c.qty * g.num, g.den)))
     /\ cycle' = [cycle EXCEPT !.tried = @ \cup {c.sym}]
     /\ UNCHANGED <<limits, equity>>

(* The cycle is over.                                                      *)
CycleEnd ==
  /\ cycle.at = "late" \/ (cycle.at = "place" /\ cycle.decided = <<>>)
  /\ cycle' = Idle
  /\ UNCHANGED <<limits, book, equity>>

----------------------------------------------------------------------------
(* A position leaves the book.                                             *)
Leave(s) ==
  /\ book[s] # None
  /\ book' = [book EXCEPT ![s] = None]
  /\ UNCHANGED <<limits, equity, cycle>>

(* A partial exit: half the position is left.                              *)
Lighten(s) ==
  /\ book[s].size > 1
  /\ book' = [book EXCEPT ![s].size = RoundHalfEven(@, 2)]
  /\ UNCHANGED <<limits, equity, cycle>>

(* The context refresh reads another equity.                               *)
EquityMoves ==
  /\ equity' \in Equity \ {equity}
  /\ UNCHANGED <<limits, book, cycle>>

(* Candidates of a cycle.                                                  *)
Signals ==
  {[sym |-> s, side |-> d, score |-> r, qty |-> BaseQty(x, m), dist |-> x,
    cluster |-> cycle.cluster[s]] :
     s \in Symbol, d \in Side, r \in Score, x \in Distance, m \in MaxQty}

Next ==
  \/ \E clusters \in [Symbol -> Cluster \cup {NoCluster}] : CycleStart(clusters)
  \/ \E x \in cycle.listed : Tally(x)
  \/ Tallied
  \/ \E c \in Signals : Offer(c) \/ PlaceLate(c)
  \/ Collected
  \/ \E c \in cycle.offers : Allocate(c)
  \/ Allocated \/ Place \/ Skip \/ CycleEnd
  \/ \E s \in Symbol : Leave(s) \/ Lighten(s)
  \/ EquityMoves

Spec == Init /\ [][Next]_vars

----------------------------------------------------------------------------
Larger(m, n) == IF m < n THEN n ELSE m

(* What a cycle grants never takes a budget beyond its cap, unless the     *)
(* positions it started with already did: then nothing is granted on it    *)
(* (allocate_candidate_set over all candidates of the cycle).              *)
Within(used, start, budget) ==
  budget = 0 \/ used <= Larger(start, budget * cycle.equity)

BudgetsHeld ==
  cycle.at \in {"offer", "allocate"} =>
  /\ Within(cycle.used.total, cycle.start.total, limits.total)
  /\ \A d \in Side : Within(cycle.used.side[d], cycle.start.side[d], limits.side[d])
  /\ \A k \in Cluster :
       Within(cycle.used.cluster[k], cycle.start.cluster[k], limits.cluster)

(* Higher scores first: when a candidate is refused for want of room, no   *)
(* candidate of a lower score gets any in the same budgets.                *)
HigherScoreFirst ==
  \A i, j \in DOMAIN cycle.decided :
    LET d == cycle.decided[i]
        e == cycle.decided[j]
    IN /\ d.for.score > e.for.score /\ d.why = "no_room"
       /\ d.for.side = e.for.side /\ d.for.cluster = e.for.cluster
       => e.why # "granted"

(* The risk of the open positions after an entry: within the total budget  *)
(* of the cycle, but for half a step that rounding may add to each         *)
(* position (the orders main.py places from the decisions).                *)
LessHalfStep(p) == 2 * RiskOf(p) - p.dist
WithinTotal(b) ==
  SumFunctionOnSet([s \in Symbol |-> LessHalfStep(b[s])], Symbol)
    <= 2 * limits.total * cycle.equity

Entering == \E s \in Symbol : book[s] = None /\ book'[s] # None

(* With a total budget alone, which is the default, every entry leaves the *)
(* open risk within that budget, whatever leaves or shrinks meanwhile.     *)
TotalOnly == limits.cluster = 0 /\ \A d \in Side : limits.side[d] = 0
EntryWithinTotal == [][Entering /\ TotalOnly => WithinTotal(book')]_vars

(* The same for every configuration of the budgets: a candidate cut by two *)
(* budgets gets more quantity than its risk stands for.                    *)
EveryEntryWithinTotal == [][Entering => WithinTotal(book')]_vars
============================================================================
