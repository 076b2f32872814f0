---------------------------- MODULE TakeProfit ----------------------------
(***************************************************************************)
(* The take-profit ladder of one symbol: from the position the             *)
(* reconciliation loop reads, through the two reduce-only orders it places *)
(* (_ensure_tp_orders_for_position), to the fills the private stream       *)
(* reports (_on_execution, _handle_tp_execution in src/src/main.py,        *)
(* storage/reconciliation.py) and the stop the lifecycle loop then moves   *)
(* to the entry price.                                                     *)
(*                                                                         *)
(* The stream has two topics.  An order update tells the bot the label of  *)
(* an order id; an execution carries only the id, and is taken for a       *)
(* take-profit fill only if the update has been seen.  The reply to the    *)
(* REST call that placed the order travels on a third path.                *)
(*                                                                         *)
(* Abstractions: quantities are whole steps of the symbol's qty_step and a *)
(* fill is one step; prices are left out except that TP1 is reached before *)
(* TP2; the minimum quantity stands for the minimum notional as well;      *)
(* entries, exits and reconciliation are steps of their own, their races   *)
(* are in PositionBook.tla.  The orders of one lifecycle entry with one    *)
(* label are counted together.                                             *)
(***************************************************************************)
EXTENDS Integers, Sequences, FiniteSets, Functions

CONSTANTS
  Scenarios,    (* the disturbances and bounds a behaviour may have        *)
  Tp1Pct, Tp2Pct, (* config.stop_tp.tp1_pct and tp2_pct, in percent        *)
  MinQty,       (* the symbol's minimum order quantity, in steps           *)
  LinkedOrders, (* config.execution.idempotent_order_link                  *)
  MaxLives,     (* bound: lifecycle entries registered for the symbol      *)
  MaxBooked     (* bound: steps booked against one label before a replay   *)

FaultNames ==
  {"placeFails", (* an order is refused                                    *)
   "replyLost",  (* an order rests but its placement reports a failure     *)
   "overtakes",  (* the stream is faster than the reply to a placement     *)
   "reordered",  (* an execution arrives before the update of its order    *)
   "replayed",   (* an execution is delivered again                        *)
   "syncRaces",  (* a position list is applied with executions on their way *)
   "crash"}

(* fair: do the loops, the stream and the exchange go on for ever?         *)
(* sizes: possible sizes of an entry, in quantity steps; messages bounds   *)
(* the undelivered executions, resting the steps resting of one order.     *)
ScenarioSet ==
  [faults : SUBSET FaultNames, fair : BOOLEAN, sizes : SUBSET (Nat \ {0}),
   messages : Nat, resting : Nat]

ASSUME LadderAssumption ==
  /\ Scenarios \subseteq ScenarioSet
  /\ Tp1Pct \in Nat /\ Tp2Pct \in Nat
  /\ MinQty \in Nat \ {0}
  /\ LinkedOrders \in BOOLEAN
  /\ MaxLives \in Nat \ {0} /\ MaxBooked \in Nat

Label == {"tp1", "tp2"}
Order == Label \X (1..MaxLives)

VARIABLES
  pos,       (* the exchange's position, unsigned                          *)
  left,      (* what rests of each order at the exchange                   *)
  done,      (* what the exchange has executed of each order               *)
  updates,   (* order updates on their way                                 *)
  execs,     (* executions on their way, oldest first                      *)
  known,     (* ReconciliationStore.orders                                 *)
  tracked,   (* size in PositionManager, 0 if there is no entry            *)
  life,      (* how many lifecycle entries have been registered            *)
  lc,        (* the lifecycle entry                                        *)
  ensure,    (* the placement in progress in the reconciliation loop       *)
  up,        (* is the bot process running?                                *)
  scenario   (* the scenario of this behaviour                             *)

vars == <<pos, left, done, updates, execs, known, tracked, life, lc, ensure, up,
          scenario>>

Faults == scenario.faults
Only(tolerated) == Faults \subseteq tolerated

NoLife == [open |-> FALSE, placed |-> {}, planned |-> [l \in Label |-> 0],
           filled |-> [l \in Label |-> 0], phase |-> "open", moved |-> FALSE]
NewLife == [NoLife EXCEPT !.open = TRUE]
Resting == [at |-> "idle", label |-> "tp1", size |-> 0]
NoOrders == [o \in Order |-> 0]

TypeOK ==
  /\ pos \in Nat /\ tracked \in Nat
  /\ left \in [Order -> Nat] /\ done \in [Order -> Nat]
  /\ updates \subseteq Order /\ known \subseteq Order
  /\ execs \in Seq(Order)
  /\ life \in 0..MaxLives
  /\ lc \in [open : BOOLEAN, placed : SUBSET Label, planned : [Label -> Nat],
             filled : [Label -> Nat], phase : {"open"} \cup Label, moved : BOOLEAN]
  /\ ensure \in [at : {"idle", "place", "reply"}, label : Label, size : Nat]
  /\ up \in BOOLEAN /\ scenario \in Scenarios

----------------------------------------------------------------------------
(* The plan.  Python's round of n/d: to the nearest, ties to the even one. *)
RoundHalfEven(n, d) ==
  LET q == n \div d
      r == 2 * (n % d)
  IN IF r > d \/ (r = d /\ q % 2 = 1) THEN q + 1 ELSE q

(* _tp_fractions: percentages that sum to more than 100 are scaled.        *)
Whole == IF Tp1Pct + Tp2Pct > 100 THEN Tp1Pct + Tp2Pct ELSE 100

Valid(q) == IF q < MinQty THEN 0 ELSE q

(* Mutant: TP2 is rounded on its own and not clipped.                      *)
PlanUnclipped(size) ==
  [l \in Label |-> Valid(RoundHalfEven(size * (IF l = "tp1" THEN Tp1Pct ELSE Tp2Pct), Whole))]

(* What _ensure_tp_orders_for_position wants to place for a position.      *)
Plan(size) ==
  LET q1 == RoundHalfEven(size * Tp1Pct, Whole)
      q2 == RoundHalfEven(size * Tp2Pct, Whole)
      clipped == IF q1 + q2 <= size THEN q2
                 ELSE IF q1 <= size THEN size - q1 ELSE 0
  IN [l \in Label |-> Valid(IF l = "tp1" THEN q1 ELSE clipped)]

Wanted(size) == {l \in Label : Plan(size)[l] > 0}
----------------------------------------------------------------------------
Init ==
  /\ pos = 0 /\ left = NoOrders /\ done = NoOrders
  /\ updates = {} /\ execs = <<>> /\ known = {}
  /\ tracked = 0 /\ life = 0 /\ lc = NoLife
  /\ ensure = Resting /\ up = TRUE
  /\ scenario \in Scenarios

Own(l) == <<l, life>>

(* Mutant: the previous position's counters are kept.                      *)
EnterKeepsFilled(size) ==
  /\ up /\ pos = 0 /\ tracked = 0
  /\ ensure = Resting /\ execs = <<>>
  /\ life < MaxLives
  /\ pos' = size /\ tracked' = size
  /\ life' = life + 1
  /\ lc' = [NewLife EXCEPT !.filled = lc.filled]
  /\ UNCHANGED <<left, done, updates, execs, known, ensure, up, scenario>>

(* The scoring loop opens a position and registers a new lifecycle entry.  *)
(* It is taken to be slower than the stream: the fills of an earlier       *)
(* position have been delivered by then.                                   *)
Enter(size) ==
  /\ up /\ pos = 0 /\ tracked = 0
  /\ ensure = Resting /\ execs = <<>>
  /\ life < MaxLives
  /\ pos' = size /\ tracked' = size
  /\ life' = life + 1
  /\ lc' = NewLife
  /\ UNCHANGED <<left, done, updates, execs, known, ensure, up, scenario>>

(* A stop loss, or a close by hand; reduce-only orders are cancelled.      *)
StopHit ==
  /\ pos > 0
  /\ pos' = 0 /\ left' = NoOrders
  /\ UNCHANGED <<done, updates, execs, known, tracked, life, lc, ensure, up, scenario>>

(* The lifecycle loop closes what is tracked and forgets the symbol.       *)
Exit ==
  /\ up /\ lc.open
  /\ pos' = IF tracked >= pos THEN 0 ELSE pos - tracked
  /\ left' = IF pos' = 0 THEN NoOrders ELSE left
  /\ lc' = NoLife /\ tracked' = 0
  /\ UNCHANGED <<done, updates, execs, known, life, ensure, up, scenario>>

----------------------------------------------------------------------------
(* The reconciliation loop takes the exchange's size and, unless the       *)
(* lifecycle entry has an order id already, sets out to place the plan.    *)
Start(size) ==
  LET first == CHOOSE l \in Wanted(size) : l = "tp1" \/ "tp1" \notin Wanted(size)
  IN IF lc.open /\ lc.placed = {} /\ Wanted(size) # {}
     THEN [at |-> "place", label |-> first, size |-> size]
     ELSE Resting

RestSync ==
  /\ up /\ ensure = Resting
  /\ "syncRaces" \in Faults \/ execs = <<>>
  /\ tracked' = pos
  /\ ensure' = Start(pos)
  /\ UNCHANGED <<pos, left, done, updates, execs, known, life, lc, up, scenario>>

(* Mutant: the second order is forgotten.                                  *)
AfterPlacingStops == Resting

AfterPlacing ==
  IF ensure.label = "tp1" /\ "tp2" \in Wanted(ensure.size)
  THEN [ensure EXCEPT !.at = "place", !.label = "tp2"]
  ELSE Resting

(* The exchange accepts the order and announces it on the stream ...       *)
Accept ==
  LET o == Own(ensure.label)
  IN /\ ensure.at = "place"
     /\ pos > 0
     /\ left' = [left EXCEPT ![o] = @ + Plan(ensure.size)[ensure.label]]
     /\ left'[o] <= scenario.resting
     /\ updates' = updates \cup {o}

Placed ==
  /\ Accept
  /\ ensure' = [ensure EXCEPT !.at = "reply"]
  /\ UNCHANGED <<pos, done, execs, known, tracked, life, lc, up, scenario>>

(* ... and the reply makes the bot remember the order, unless the entry    *)
(* has been removed meanwhile.                                             *)
Reply ==
  /\ ensure.at = "reply"
  /\ lc' = IF lc.open
           THEN [lc EXCEPT !.placed = @ \cup {ensure.label},
                           !.planned[ensure.label] = Plan(ensure.size)[ensure.label]]
           ELSE lc
  /\ ensure' = AfterPlacing
  /\ UNCHANGED <<pos, left, done, updates, execs, known, tracked, life, up, scenario>>

(* The placement fails for the bot: refused, always so for a position that *)
(* is gone, or accepted by the exchange while every reply is lost.         *)
Refused ==
  /\ ensure.at = "place"
  /\ "placeFails" \in Faults \/ pos = 0
  /\ ensure' = AfterPlacing
  /\ UNCHANGED <<pos, left, done, updates, execs, known, tracked, life, lc, up, scenario>>

ReplyLost ==
  /\ "replyLost" \in Faults
  /\ Accept
  /\ ensure' = AfterPlacing
  /\ UNCHANGED <<pos, done, execs, known, tracked, life, lc, up, scenario>>

----------------------------------------------------------------------------
(* The exchange executes one step of a resting order, TP1 orders first.    *)
Fill(o) ==
  /\ left[o] > 0 /\ pos > 0
  /\ o[1] = "tp2" => \A p \in Order : p[1] = "tp1" => left[p] = 0
  /\ pos' = pos - 1
  /\ left' = IF pos = 1 THEN NoOrders ELSE [left EXCEPT ![o] = @ - 1]
  /\ done' = [done EXCEPT ![o] = @ + 1]
  /\ IF up
     THEN /\ Len(execs) < scenario.messages
          /\ updates' = updates \cup {o} /\ execs' = Append(execs, o)
     ELSE UNCHANGED <<updates, execs>>
  /\ UNCHANGED <<known, tracked, life, lc, ensure, up, scenario>>

Delivers == up /\ ("overtakes" \in Faults \/ ensure.at # "reply")

(* ReconciliationStore.on_order_update.                                    *)
OnOrder(o) ==
  /\ Delivers
  /\ o \in updates
  /\ updates' = updates \ {o} /\ known' = known \cup {o}
  /\ UNCHANGED <<pos, left, done, execs, tracked, life, lc, ensure, up, scenario>>

(* Mutant: any fill counts as a complete one.                              *)
BookedAnyCompletes(l) ==
  [lc EXCEPT !.filled[l] = @ + 1, !.phase = l]

(* Mutant: a fill counts as complete only beyond the planned quantity.     *)
BookedStrict(l) ==
  LET filled == lc.filled[l] + 1
      planned == IF lc.planned[l] > 0 THEN lc.planned[l] ELSE filled
  IN [lc EXCEPT !.filled[l] = filled,
                !.phase = IF filled > planned THEN l ELSE @]

(* Mutant: a partial fill puts the phase back.                             *)
BookedResets(l) ==
  LET filled == lc.filled[l] + 1
      planned == IF lc.planned[l] > 0 THEN lc.planned[l] ELSE filled
  IN [lc EXCEPT !.filled[l] = filled,
                !.phase = IF 100 * filled >= 99 * planned THEN l ELSE "open"]

(* Mutant: a fill is added to its counter twice.                           *)
BookedTwice(l) ==
  LET filled == lc.filled[l] + 2
  IN [lc EXCEPT !.filled[l] = filled,
                !.phase = IF 100 * filled >= 99 * lc.planned[l] THEN l ELSE @]

(* _handle_tp_execution: the entry after one more step of label l.         *)
Booked(l) ==
  LET filled == lc.filled[l] + 1
      planned == IF lc.planned[l] > 0 THEN lc.planned[l] ELSE filled
  IN [lc EXCEPT !.filled[l] = filled,
                !.phase = IF 100 * filled >= 99 * planned THEN l ELSE @]

(* Mutant: the first take-profit fill removes the tracked position.        *)
OnExecutionRemoves ==
  LET o == Head(execs)
      isTpFill == o \in known /\ LinkedOrders /\ lc.open
      again == "replayed" \in Faults /\ lc.filled[o[1]] < MaxBooked
  IN /\ Delivers
     /\ execs # <<>>
     /\ "reordered" \in Faults \/ o \notin updates
     /\ execs' \in {Tail(execs)} \cup {Append(Tail(execs), o) : x \in {y \in {o} : again}}
     /\ lc' = IF isTpFill THEN Booked(o[1]) ELSE lc
     /\ tracked' = IF isTpFill /\ tracked > 0 THEN 0 ELSE tracked
     /\ UNCHANGED <<pos, left, done, updates, known, life, ensure, up, scenario>>

(* _on_execution: a take-profit fill is one of an order whose update, with *)
(* a labelled link id, has been seen; others change no position.  An       *)
(* execution id that was seen before is not recognised.                    *)
OnExecution ==
  LET o == Head(execs)
      isTpFill == o \in known /\ LinkedOrders /\ lc.open
      again == "replayed" \in Faults /\ lc.filled[o[1]] < MaxBooked
  IN /\ Delivers
     /\ execs # <<>>
     /\ "reordered" \in Faults \/ o \notin updates
     /\ execs' \in {Tail(execs)} \cup {Append(Tail(execs), o) : x \in {y \in {o} : again}}
     /\ lc' = IF isTpFill THEN Booked(o[1]) ELSE lc
     /\ tracked' = IF isTpFill /\ tracked > 0 THEN tracked - 1 ELSE tracked
     /\ UNCHANGED <<pos, left, done, updates, known, life, ensure, up, scenario>>

(* Mutant: the entry becomes a runner, a phase no reader expects here.     *)
MoveToBreakevenRunner ==
  /\ up /\ lc.open
  /\ lc.phase # "open" /\ ~lc.moved
  /\ pos > 0
  /\ lc' = [lc EXCEPT !.moved = TRUE, !.phase = "runner"]
  /\ UNCHANGED <<pos, left, done, updates, execs, known, tracked, life, ensure, up, scenario>>

(* The lifecycle loop moves the stop to the entry price after TP1.         *)
MoveToBreakeven ==
  /\ up /\ lc.open
  /\ lc.phase # "open" /\ ~lc.moved
  /\ pos > 0
  /\ lc' = [lc EXCEPT !.moved = TRUE]
  /\ UNCHANGED <<pos, left, done, updates, execs, known, tracked, life, ensure, up, scenario>>

----------------------------------------------------------------------------
(* The process dies, and _boot adopts the position it finds as an orphan.  *)
Crash ==
  /\ "crash" \in Faults
  /\ up /\ up' = FALSE
  /\ updates' = {} /\ execs' = <<>> /\ known' = {}
  /\ tracked' = 0 /\ lc' = NoLife /\ ensure' = Resting
  /\ UNCHANGED <<pos, left, done, life, scenario>>

Boot ==
  /\ ~up /\ up' = TRUE
  /\ tracked' = pos
  /\ IF pos > 0
     THEN life < MaxLives /\ life' = life + 1 /\ lc' = NewLife
     ELSE UNCHANGED <<life, lc>>
  /\ UNCHANGED <<pos, left, done, updates, execs, known, ensure, scenario>>

Next ==
  \/ \E size \in scenario.sizes : Enter(size)
  \/ StopHit \/ Exit
  \/ RestSync \/ Placed \/ Reply \/ Refused \/ ReplyLost
  \/ \E o \in Order : Fill(o) \/ OnOrder(o)
  \/ OnExecution \/ MoveToBreakeven
  \/ Crash \/ Boot

Spec == Init /\ [][Next]_vars

(* In a fair scenario the loops repeat, the stream delivers, a placement   *)
(* is answered and the exchange does not refuse orders for ever.           *)
Fairness ==
  /\ WF_vars(scenario.fair /\ RestSync)
  /\ WF_vars(scenario.fair /\ (Placed \/ Refused \/ ReplyLost))
  /\ SF_vars(scenario.fair /\ Placed) /\ WF_vars(scenario.fair /\ Reply)
  /\ \A o \in Order : WF_vars(scenario.fair /\ OnOrder(o))
  /\ WF_vars(scenario.fair /\ OnExecution)
  /\ WF_vars(scenario.fair /\ MoveToBreakeven)
  /\ WF_vars(scenario.fair /\ Boot)

FairSpec == Spec /\ Fairness

----------------------------------------------------------------------------
(* Each property names the faults it survives; with any other fault alone  *)
(* the code violates it.                                                   *)

(* Safety: "TP1+TP2 never exceeds position size" - what rests at the       *)
(* exchange to reduce the position is no more than the position.           *)
LadderFits ==
  Only({"placeFails", "overtakes", "reordered"}) => SumFunction(left) <= pos

(* Safety: the phase that lets the lifecycle loop move the stop is reached *)
(* only when an order of this very position has been executed completely,  *)
(* or all but the 1 % the code leaves to rounding: of an order of less     *)
(* than 100 steps, nothing.                                                *)
PhaseHonest ==
  Only({"placeFails", "reordered", "syncRaces"})
    /\ lc.open /\ lc.phase # "open"
  => LET o == Own(lc.phase)
     IN done[o] > 0 /\ 100 * done[o] >= 99 * (done[o] + left[o])

(* Safety: the fills booked in the lifecycle entry and those on their way  *)
(* are exactly what the exchange executed for this position; none is lost  *)
(* between the two topics, none counted twice.                             *)
UnderWay(o) == Cardinality({i \in DOMAIN execs : execs[i] = o})
FillsAccounted ==
  Only({"placeFails", "replyLost", "overtakes", "syncRaces"})
    /\ up /\ lc.open
  => \A l \in Label : lc.filled[l] + UnderWay(Own(l)) = done[Own(l)]

(* Safety with any fault but a replay: what is booked against a label is   *)
(* never more than the exchange executed of orders with that label.        *)
NeverOverbooked ==
  Only(FaultNames \ {"replayed"}) =>
    \A l \in Label :
       lc.filled[l] + Cardinality({i \in DOMAIN execs : execs[i][1] = l})
          <= SumFunctionOnSet(done, {l} \X (1..MaxLives))

(* Action property: when the lifecycle loop gives a position up - its time *)
(* stop, flow reversal or another exit - nothing of it is left open.       *)
ExitCloses ==
  [][Only(FaultNames \ {"replayed", "syncRaces"})
       /\ lc.open /\ ~lc'.open /\ up'
     => pos' = 0]_vars

(* Action property: within one lifecycle entry the phase goes from open to *)
(* TP1 to TP2 and never back.                                              *)
PhaseMonotone ==
  [][Only({"placeFails", "overtakes", "reordered", "syncRaces"})
       /\ life' = life /\ lc.open /\ lc'.open
     => \/ lc'.phase = lc.phase
        \/ lc.phase = "open"
        \/ lc'.phase = "tp2"]_vars

(* Liveness: once TP1 has been executed completely, the stop is moved to   *)
(* the entry price, unless the position ends first.                        *)
Tp1Complete ==
  life > 0 /\ pos > 0 /\ done[Own("tp1")] > 0 /\ left[Own("tp1")] = 0
BreakevenFollows ==
  scenario.fair /\ Only(FaultNames \ {"reordered"}) /\ Tp1Complete
    ~> (lc.moved \/ pos = 0 \/ ~lc.open \/ ~up)

(* Liveness: "Ensure TP1/TP2 reduce-only orders exist for a given position *)
(* record" - a position with a lifecycle entry gets both orders, unless it *)
(* ends first or is reduced.                                               *)
LadderCompleted ==
  \A n \in UNION {s.sizes : s \in {x \in Scenarios : x.fair}}, l \in Label :
     scenario.fair /\ Only(FaultNames \ {"placeFails", "replyLost"})
       /\ up /\ lc.open /\ pos = n /\ l \in Wanted(n)
        ~> (l \in lc.placed \/ pos < n \/ ~lc.open \/ ~up)
============================================================================
