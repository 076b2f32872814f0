-------------------------- MODULE AutomationProofs --------------------------
(***************************************************************************)
(* For any number of concurrent cycles, lost anywhere: the types, and that *)
(* no candidate is adopted without a shadow run of its own.  The latter    *)
(* rests on an invariant: whoever notes a candidate as shadowed, the row   *)
(* or a cycle's copy of an older row, a shadow run of it has been started. *)
(* For one cycle at a time, lost early at most: that no candidate is lost  *)
(* or outlives its run, none has two shadow runs, and adoptions keep their *)
(* distance.  This rests on where the last results are: in the row, or in  *)
(* the copy that is going to be written.                                   *)
(***************************************************************************)
EXTENDS Automation, TLAPS

USE AutomationAssumption

LEMMA OlderBounded ==
  ASSUME NEW limit \in Nat, NEW last \in Nat, limit <= last, NEW age \in 0 .. last
  PROVE  Older(age, limit) \in 0 .. last
BY DEF Older

LEMMA NoCycleType == NewSnapshot \in Snapshot /\ NoCycle \in Cycle
BY DEF NoCycle, Cycle, NewSnapshot, Snapshot, Step, State, Blocked, MaybeConfig,
       Unevaluated, Unoptimized

LEMMA GotoType ==
  ASSUME TypeOK, NEW p \in Proc, NEW step \in Step, NEW snap \in Snapshot,
         Goto(p, step, snap)
  PROVE  /\ cycle' \in [Proc -> Cycle]
         /\ cycle'[p].snap = snap
         /\ \A q \in Proc \ {p} : cycle'[q] = cycle[q]
<1>1. cycle \in [Proc -> Cycle]
  BY DEF TypeOK
<1> DEFINE new == [cycle[p] EXCEPT !.at = step, !.snap = snap]
<1>2. cycle' = [cycle EXCEPT ![p] = new]
  BY <1>1 DEF Goto, Cycle
<1>3. new \in Cycle /\ new.snap = snap
  BY <1>1 DEF Cycle
<1> HIDE DEF new
<1> QED BY <1>1, <1>2, <1>3

LEMMA NoCycleStep ==
  ASSUME TypeOK, NEW p \in Proc, cycle' = [cycle EXCEPT ![p] = NoCycle]
  PROVE  /\ cycle' \in [Proc -> Cycle]
         /\ cycle'[p].snap = NewSnapshot
         /\ \A q \in Proc \ {p} : cycle'[q] = cycle[q]
<1>1. cycle \in [Proc -> Cycle]
  BY DEF TypeOK
<1>2. NoCycle.snap = NewSnapshot
  BY DEF NoCycle
<1> QED BY <1>1, <1>2, NoCycleType

LEMMA SnapType ==
  ASSUME TypeOK, NEW p \in Proc
  PROVE  Snap(p) \in Snapshot
BY DEF TypeOK, Cycle, Snap

LEMMA TransitionType ==
  ASSUME NEW snap \in Snapshot, NEW state \in State
  PROVE  /\ Transition(snap, state) \in Snapshot
         /\ Transition(snap, state).shadow = snap.shadow
BY DEF Transition, Snapshot

(* The registry's and the surroundings' steps leave the cycles alone.      *)
LEMMA OutsideTypes ==
  ASSUME TypeOK, Surroundings
  PROVE  TypeOK'
<1> USE DEF TypeOK, MaybeConfig, registry, records, results
<1>1. ASSUME NEW c \in Config, Seed(c) PROVE TypeOK'
  BY <1>1 DEF Seed, Register, Fresh
<1>2. CASE BotRejects
  BY <1>2 DEF BotRejects, Rejects
<1>3. row.best \in MaybeConfig
  BY DEF Snapshot
<1>4. CASE OperatorRejects
  BY <1>3, <1>4 DEF OperatorRejects, Rejects
<1>5. ASSUME NEW c \in Config, OperatorActivates(c) PROVE TypeOK'
  BY <1>5 DEF OperatorActivates
<1>6. CASE LoseStop
  BY <1>6 DEF LoseStop
<1>7. CASE KillSwitch
  BY <1>7 DEF KillSwitch, RowAge
<1> QED BY <1>1, <1>2, <1>4, <1>5, <1>6, <1>7 DEF Surroundings

LEMMA BotTypes ==
  ASSUME TypeOK, Bot
  PROVE  TypeOK'
<1> USE DEF TypeOK, registry, records, results, RowAge
<1>1. CASE RecordBreach
  BY <1>1 DEF RecordBreach
<1>2. CASE Trade
  BY <1>2 DEF Trade, GateBreached
<1>3. CASE ProtectionAudit
  BY <1>3 DEF ProtectionAudit
<1>4. CASE Restart
  BY <1>4 DEF Restart, Expired
<1> QED BY <1>1, <1>2, <1>3, <1>4 DEF Bot

(* Time only makes rows older, and no row older than its kind may be.      *)
LEMMA TickTypes ==
  ASSUME TypeOK, Tick
  PROVE  TypeOK'
<1>1. /\ mismatchAge' \in RowAge /\ breachAge' \in RowAge /\ killAge' \in RowAge
      /\ adoptedAge' \in 0 .. AdoptGap
  BY OlderBounded DEF Tick, TypeOK, RowAge, Expired
<1>2. /\ Older(row.evalAge, EvalGap) \in 0 .. Unevaluated
      /\ Older(row.optAge, OptGap) \in 0 .. Unoptimized
      /\ Older(row.adoptAge, AdoptGap) \in 0 .. AdoptGap
  <2>1. /\ row.evalAge \in 0 .. Unevaluated /\ row.optAge \in 0 .. Unoptimized
        /\ row.adoptAge \in 0 .. AdoptGap
    BY DEF TypeOK, Snapshot
  <2>2. /\ EvalGap \in Nat /\ Unevaluated \in Nat /\ EvalGap <= Unevaluated
        /\ OptGap \in Nat /\ Unoptimized \in Nat /\ OptGap <= Unoptimized
        /\ AdoptGap \in Nat /\ AdoptGap <= AdoptGap
    BY DEF Unevaluated, Unoptimized
  <2> QED BY <2>1, <2>2, OlderBounded
<1>3. row' \in Snapshot
  <2>1. row' = [row EXCEPT !.evalAge = Older(row.evalAge, EvalGap),
                           !.optAge = Older(row.optAge, OptGap),
                           !.adoptAge = Older(row.adoptAge, AdoptGap)]
    BY DEF Tick
  <2> QED BY <2>1, <1>2 DEF TypeOK, Snapshot
<1>4. trades' \in 0 .. MaxTrades
  BY DEF Tick, TypeOK
<1>5. UNCHANGED <<registry, bot, protected, lastRun, shadows, adopted, cycle>>
  BY DEF Tick
<1> QED BY <1>1, <1>3, <1>4, <1>5 DEF TypeOK, registry

(* What a cycle holds keeps its type from step to step.                    *)
LEMMA CycleTypes ==
  ASSUME TypeOK, NEW p \in Proc,
         \/ CycleOff(p) \/ CycleStart(p) \/ AfterReadiness(p) \/ AfterJudgement(p)
         \/ AfterEvaluation(p) \/ AfterOptimizer(p) \/ Lose(p)
  PROVE  TypeOK'
<1> USE DEF registry, records, results
<1>snap. /\ Snap(p) \in Snapshot /\ row \in Snapshot
         /\ Snap(p).best \in MaybeConfig
  BY SnapType DEF TypeOK, Snapshot
<1>state. {"readiness", "judged", "evaluated", "optimized", "shadowed", "adopted"} \subseteq Step
  BY DEF Step
<1>1. CASE CycleOff(p)
  <2>1. row' \in Snapshot
    BY <1>1, <1>snap, TransitionType DEF CycleOff, State
  <2> QED BY <1>1, <2>1 DEF CycleOff, TypeOK
<1>2. CASE CycleStart(p)
  <2>1. TradeCount \in Nat
    BY DEF TradeCount, TypeOK
  <2>2. Breaches \in BOOLEAN /\ Killed \in BOOLEAN
    BY DEF Breaches, Killed
  <2>3. active \in MaybeConfig
    BY DEF TypeOK
  <2>4. [at |-> "readiness", snap |-> row, base |-> active, trades |-> TradeCount,
         breached |-> Breaches, killed |-> Killed] \in Cycle
    BY <1>snap, <1>state, <2>1, <2>2, <2>3 DEF Cycle
  <2> QED BY <1>2, <2>4 DEF CycleStart, TypeOK
<1>3. CASE BlockKill(p)
  <2>1. row' \in Snapshot /\ cycle' \in [Proc -> Cycle]
    BY <1>3, <1>snap, TransitionType, NoCycleStep DEF BlockKill, Persist, State, Blocked
  <2> QED BY <1>3, <2>1 DEF BlockKill, TypeOK
<1>4. CASE Judge(p)
  <2>1. cycle' \in [Proc -> Cycle]
    BY <1>4, <1>snap, <1>state, GotoType DEF Judge
  <2> QED BY <1>4, <2>1 DEF Judge, Rejects, TypeOK, MaybeConfig
<1>5. CASE BlockBurnIn(p)
  <2>1. row' \in Snapshot /\ cycle' \in [Proc -> Cycle]
    BY <1>5, <1>snap, TransitionType, NoCycleStep DEF BlockBurnIn, Persist, State, Blocked
  <2> QED BY <1>5, <2>1 DEF BlockBurnIn, TypeOK
<1>6. CASE WaitForTrades(p)
  <2>1. row' \in Snapshot /\ cycle' \in [Proc -> Cycle]
    BY <1>6, <1>snap, TransitionType, NoCycleStep DEF WaitForTrades, Persist, State
  <2> QED BY <1>6, <2>1 DEF WaitForTrades, TypeOK
<1>7. CASE Evaluate(p)
  <2>1. /\ Transition(Snap(p), "EVALUATING") \in Snapshot
        /\ Transition(Snap(p), "READY_FOR_EVALUATION") \in Snapshot
    BY <1>snap, TransitionType DEF State
  <2>2. [Transition(Snap(p), "EVALUATING") EXCEPT !.evalAge = 0] \in Snapshot
    BY <2>1 DEF Snapshot, Unevaluated
  <2>3. cycle' \in [Proc -> Cycle]
    BY <1>7, <1>state, <2>1, <2>2, GotoType DEF Evaluate
  <2> QED BY <1>7, <2>3 DEF Evaluate, TypeOK
<1>8. CASE OptimizerIdle(p)
  <2>1. cycle' \in [Proc -> Cycle]
    BY <1>8, <1>snap, <1>state, GotoType DEF OptimizerIdle
  <2> QED BY <1>8, <2>1 DEF OptimizerIdle, TypeOK
<1>9. ASSUME NEW c \in MaybeConfig, Optimize(p, c) PROVE TypeOK'
  <2> DEFINE state == IF c = NoConfig THEN "OPTIMIZING" ELSE "CANDIDATE_AVAILABLE"
             snap == [Transition(Snap(p), state) EXCEPT !.optAge = 0, !.best = c]
  <2>1. Transition(Snap(p), state) \in Snapshot
    BY <1>snap, TransitionType DEF State
  <2> HIDE DEF state
  <2>0. c \in MaybeConfig /\ 0 \in 0 .. Unoptimized
    BY DEF Unoptimized
  <2>2. snap \in Snapshot
    BY <2>0, <2>1 DEF Snapshot
  <2>3. Goto(p, "optimized", snap)
    BY <1>9 DEF Optimize, state
  <2> HIDE DEF snap
  <2>4. cycle' \in [Proc -> Cycle]
    BY <1>state, <2>2, <2>3, GotoType
  <2>5. /\ rejected' \subseteq Config /\ adopted' \subseteq Config
        /\ shadows' \in [Config -> Nat]
    BY <1>9 DEF Optimize, Register, TypeOK
  <2> QED BY <1>9, <2>4, <2>5 DEF Optimize, TypeOK
<1>10. CASE Shadow(p)
  <2> DEFINE snap == [Transition(Snap(p), "SHADOW_RUNNING") EXCEPT !.shadow = Snap(p).best]
  <2>1. Transition(Snap(p), "SHADOW_RUNNING") \in Snapshot
    BY <1>snap, TransitionType DEF State
  <2>2. snap \in Snapshot
    BY <1>snap, <2>1 DEF Snapshot
  <2>3. Goto(p, "shadowed", snap)
    BY <1>10 DEF Shadow
  <2> HIDE DEF snap
  <2>4. cycle' \in [Proc -> Cycle]
    BY <1>state, <2>2, <2>3, GotoType
  <2>5. Snap(p).best \in Config
    BY <1>10, <1>snap DEF Shadow, ShadowDue, MaybeConfig
  <2>6. shadows' = [shadows EXCEPT ![Snap(p).best] = shadows[Snap(p).best] + 1]
    BY <1>10 DEF Shadow
  <2>7. shadows' \in [Config -> Nat]
    BY <2>5, <2>6 DEF TypeOK
  <2> QED BY <1>10, <2>4, <2>7 DEF Shadow, TypeOK
<1>11. CASE NoShadow(p)
  <2>1. cycle' \in [Proc -> Cycle]
    BY <1>11, <1>snap, <1>state, GotoType DEF NoShadow
  <2> QED BY <1>11, <2>1 DEF NoShadow, TypeOK
<1>12. CASE Adopt(p)
  <2> DEFINE snap == [Transition(Snap(p), "DEMO_AUTO_ADOPTED") EXCEPT !.adoptAge = 0]
  <2>1. Transition(Snap(p), "DEMO_AUTO_ADOPTED") \in Snapshot
    BY <1>snap, TransitionType DEF State
  <2>2. snap \in Snapshot
    BY <2>1 DEF Snapshot
  <2>3. Goto(p, "adopted", snap)
    BY <1>12 DEF Adopt
  <2> HIDE DEF snap
  <2>4. cycle' \in [Proc -> Cycle]
    BY <1>state, <2>2, <2>3, GotoType
  <2>5. Snap(p).best \in Config
    BY <1>12, <1>snap DEF Adopt, AdoptionDue, MaybeConfig
  <2> QED BY <1>12, <2>4, <2>5 DEF Adopt, TypeOK, MaybeConfig
<1>13. CASE PersistAdoption(p)
  <2>1. row' \in Snapshot /\ cycle' \in [Proc -> Cycle]
    BY <1>13, <1>snap, NoCycleStep DEF PersistAdoption, Persist
  <2> QED BY <1>13, <2>1 DEF PersistAdoption, TypeOK
<1>14. CASE Recommend(p)
  <2>1. FinalState(Snap(p)) \in State
    BY DEF FinalState, State
  <2>2. row' \in Snapshot /\ cycle' \in [Proc -> Cycle]
    BY <1>14, <1>snap, <2>1, TransitionType, NoCycleStep DEF Recommend, Persist
  <2> QED BY <1>14, <2>2 DEF Recommend, TypeOK
<1>15. CASE Lose(p)
  <2>1. cycle' \in [Proc -> Cycle]
    BY <1>15, NoCycleStep DEF Lose
  <2> QED BY <1>15, <2>1 DEF Lose, TypeOK
<1> QED
  BY <1>1, <1>2, <1>3, <1>4, <1>5, <1>6, <1>7, <1>8, <1>9, <1>10, <1>11, <1>12,
     <1>13, <1>14, <1>15
  DEF AfterReadiness, AfterJudgement, AfterEvaluation, AfterOptimizer

LEMMA TypeStep ==
  ASSUME TypeOK, [Next]_vars
  PROVE  TypeOK'
<1>1. CASE Next
  BY <1>1, CycleTypes, BotTypes, OutsideTypes, TickTypes DEF Next
<1>2. CASE UNCHANGED vars
  BY <1>2 DEF TypeOK, vars, registry, records, results
<1> QED BY <1>1, <1>2

(* The state of the automation and of the records it reads has its types.  *)
THEOREM TypeCorrect == Spec => []TypeOK
<1>1. Init => TypeOK
  BY NoCycleType DEF Init, TypeOK, MaybeConfig, RowAge, Expired
<1>2. TypeOK /\ [Next]_vars => TypeOK'
  BY TypeStep
<1> QED BY <1>1, <1>2, PTL DEF Spec

----------------------------------------------------------------------------
Noted(snap) == snap.shadow # NoConfig => shadows[snap.shadow] > 0
ShadowInv == Noted(row) /\ \A p \in Proc : Noted(Snap(p))

(* Identifiers in use keep their shadow runs.                              *)
LEMMA ShadowsKept ==
  ASSUME TypeOK, [Next]_vars, NEW d \in Config \ Fresh
  PROVE  shadows'[d] >= shadows[d]
<1> USE DEF results
<1>0. shadows \in [Config -> Nat] /\ shadows[d] \in Nat
  BY DEF TypeOK
<1>1. ASSUME NEW c \in Config, Register(c) PROVE shadows'[d] = shadows[d]
  BY <1>0, <1>1 DEF Register
<1>2. ASSUME NEW p \in Proc, Shadow(p) PROVE shadows'[d] >= shadows[d]
  <2>1. shadows' = [shadows EXCEPT ![Snap(p).best] = shadows[Snap(p).best] + 1]
    BY <1>2 DEF Shadow
  <2> QED BY <1>0, <2>1
<1>3. ASSUME NEW p \in Proc, NEW c \in MaybeConfig, Optimize(p, c)
      PROVE  shadows'[d] = shadows[d]
  BY <1>1, <1>3 DEF Optimize, MaybeConfig
<1>4. ASSUME NEW c \in Config, Seed(c) PROVE shadows'[d] = shadows[d]
  BY <1>1, <1>4 DEF Seed
<1>5. ASSUME NEW p \in Proc,
             \/ CycleOff(p) \/ CycleStart(p) \/ AfterReadiness(p) \/ AfterJudgement(p)
             \/ OptimizerIdle(p) \/ NoShadow(p) \/ Adopt(p) \/ PersistAdoption(p)
             \/ Recommend(p) \/ Lose(p)
      PROVE  shadows' = shadows
  BY <1>5 DEF CycleOff, CycleStart, AfterReadiness, BlockKill, Judge, AfterJudgement,
     BlockBurnIn, WaitForTrades, Evaluate, OptimizerIdle, NoShadow, Adopt,
     PersistAdoption, Recommend, Lose
<1>6. ASSUME Bot \/ Tick \/ BotRejects \/ OperatorRejects
             \/ (\E c \in Config : OperatorActivates(c))
             \/ LoseStop \/ KillSwitch \/ UNCHANGED vars
      PROVE  shadows' = shadows
  BY <1>6 DEF Bot, RecordBreach, Trade, ProtectionAudit, Restart, Tick, BotRejects,
     OperatorRejects, OperatorActivates, LoseStop, KillSwitch, vars
<1> QED
  BY <1>0, <1>2, <1>3, <1>4, <1>5, <1>6 DEF Next, AfterEvaluation, AfterOptimizer, Surroundings

(* What is noted in the row or by a cycle is an identifier in use, so that *)
(* a snapshot taken over from either of them stays true.                   *)
LEMMA NotedStays ==
  ASSUME TypeOK, ShadowInv, [Next]_vars, NEW snap, NEW taken,
         taken = row \/ \E p \in Proc : taken = Snap(p),
         snap.shadow = taken.shadow
  PROVE  snap.shadow # NoConfig => shadows'[snap.shadow] > 0
<1>1. taken \in Snapshot /\ Noted(taken)
  BY SnapType DEF TypeOK, ShadowInv
<1>2. CASE taken.shadow = NoConfig
  BY <1>2
<1>3. CASE taken.shadow # NoConfig
  <2>1. taken.shadow \in Config /\ shadows[taken.shadow] > 0
    BY <1>1, <1>3 DEF Snapshot, MaybeConfig, Noted
  <2>2. taken.shadow \notin Fresh
    BY DEF Fresh, Snap
  <2>3. shadows'[taken.shadow] >= shadows[taken.shadow]
    BY <2>1, <2>2, ShadowsKept
  <2>4. shadows[taken.shadow] \in Nat /\ shadows'[taken.shadow] \in Nat
    <3>1. TypeOK'
      BY TypeStep
    <3> QED BY <2>1, <3>1 DEF TypeOK
  <2> QED BY <2>1, <2>3, <2>4
<1> QED BY <1>2, <1>3

LEMMA ShadowStep ==
  ASSUME TypeOK, ShadowInv, [Next]_vars
  PROVE  ShadowInv'
<1> USE DEF registry, records, results
<1>types. /\ cycle \in [Proc -> Cycle] /\ row \in Snapshot
          /\ \A p \in Proc : Snap(p) \in Snapshot
  BY SnapType DEF TypeOK
<1>new. NewSnapshot.shadow = NoConfig
  BY DEF NewSnapshot
<1>same. ASSUME row'.shadow = row.shadow, cycle' = cycle PROVE ShadowInv'
  BY <1>same, NotedStays DEF ShadowInv, Noted, Snap
(* A cycle that goes on.                                                   *)
<1>goto. ASSUME NEW p \in Proc, NEW step \in Step, NEW snap \in Snapshot,
                Goto(p, step, snap), row' = row,
                snap.shadow = Snap(p).shadow \/ shadows'[snap.shadow] > 0
         PROVE  ShadowInv'
  <2>1. Noted(row)'
    BY <1>goto, NotedStays DEF Noted
  <2>2. ASSUME NEW q \in Proc \ {p} PROVE Noted(Snap(q))'
    <3>1. Snap(q)' = Snap(q)
      BY <1>goto, GotoType DEF Snap
    <3> QED BY <3>1, NotedStays DEF Noted
  <2>3. Noted(Snap(p))'
    <3>1. Snap(p)' = snap
      BY <1>goto, GotoType DEF Snap
    <3>2. CASE snap.shadow = Snap(p).shadow
      BY <3>1, <3>2, NotedStays DEF Noted
    <3>3. CASE shadows'[snap.shadow] > 0
      BY <3>1, <3>3 DEF Noted
    <3> QED BY <1>goto, <3>2, <3>3
  <2> QED BY <2>1, <2>2, <2>3 DEF ShadowInv
(* A cycle that ends, with its snapshot written to the row or lost.        *)
<1>end. ASSUME NEW p \in Proc, cycle' = [cycle EXCEPT ![p] = NoCycle],
               row' = row \/ row'.shadow = Snap(p).shadow
        PROVE  ShadowInv'
  <2>1. Noted(row)'
    BY <1>end, NotedStays DEF Noted
  <2>2. ASSUME NEW q \in Proc \ {p} PROVE Noted(Snap(q))'
    <3>1. Snap(q)' = Snap(q)
      BY <1>end, NoCycleStep DEF Snap
    <3> QED BY <3>1, NotedStays DEF Noted
  <2>3. Noted(Snap(p))'
    BY <1>end, <1>new, NoCycleStep DEF Noted, Snap
  <2> QED BY <2>1, <2>2, <2>3 DEF ShadowInv
<1>1. CASE Bot
  BY <1>1, <1>same DEF Bot, RecordBreach, Trade, ProtectionAudit, Restart
<1>2. CASE Surroundings
  BY <1>2, <1>same DEF Surroundings, Seed, BotRejects, OperatorRejects,
     OperatorActivates, LoseStop, KillSwitch
<1>3. CASE Tick
  <2>1. row'.shadow = row.shadow /\ cycle' = cycle
    BY <1>3, <1>types DEF Tick, Snapshot
  <2> QED BY <2>1, <1>same
<1>4. CASE UNCHANGED vars
  BY <1>4, <1>same DEF vars
<1>5. ASSUME NEW p \in Proc,
             \/ BlockKill(p) \/ BlockBurnIn(p) \/ WaitForTrades(p) \/ Recommend(p)
             \/ PersistAdoption(p) \/ Lose(p)
      PROVE  ShadowInv'
  <2>1. \A state \in State : Transition(Snap(p), state).shadow = Snap(p).shadow
    BY <1>types, TransitionType
  <2>2. {"BLOCKED_BY_KILL_SWITCH", "BLOCKED_BY_BURNIN", "WAITING_FOR_BURNIN_DATA",
         FinalState(Snap(p))} \subseteq State
    BY DEF State, Blocked, FinalState
  <2>3. /\ cycle' = [cycle EXCEPT ![p] = NoCycle]
        /\ row' = row \/ row'.shadow = Snap(p).shadow
    BY <1>5, <2>1, <2>2 DEF BlockKill, BlockBurnIn, WaitForTrades, Recommend,
       PersistAdoption, Lose, Persist
  <2> QED BY <2>3, <1>end
<1>6. ASSUME NEW p \in Proc, CycleOff(p) PROVE ShadowInv'
  BY <1>6, <1>types, <1>same, TransitionType DEF CycleOff, State
<1>7. ASSUME NEW p \in Proc, CycleStart(p) PROVE ShadowInv'
  <2>1. row' = row /\ Snap(p)' = row /\ \A q \in Proc \ {p} : Snap(q)' = Snap(q)
    BY <1>7, <1>types DEF CycleStart, Snap
  <2>2. Noted(row)' /\ Noted(Snap(p))' /\ \A q \in Proc \ {p} : Noted(Snap(q))'
    BY <2>1, NotedStays DEF Noted
  <2> QED BY <2>2 DEF ShadowInv
<1>steps. {"judged", "evaluated", "optimized", "shadowed", "adopted"} \subseteq Step
  BY DEF Step
<1>8. ASSUME NEW p \in Proc, Judge(p) \/ OptimizerIdle(p) \/ NoShadow(p) PROVE ShadowInv'
  <2>1. \E step \in Step : Goto(p, step, Snap(p))
    BY <1>8, <1>steps DEF Judge, OptimizerIdle, NoShadow
  <2>2. row' = row
    BY <1>8 DEF Judge, OptimizerIdle, NoShadow
  <2> QED BY <2>1, <2>2, <1>types, <1>goto
<1>9. ASSUME NEW p \in Proc, Evaluate(p) PROVE ShadowInv'
  <2> DEFINE done == Transition(Snap(p), "EVALUATING")
             snap == IF EvaluationDue(p) THEN [done EXCEPT !.evalAge = 0]
                     ELSE Transition(Snap(p), "READY_FOR_EVALUATION")
  <2>1. snap \in Snapshot /\ snap.shadow = Snap(p).shadow
    <3>1. /\ done \in Snapshot /\ done.shadow = Snap(p).shadow
          /\ Transition(Snap(p), "READY_FOR_EVALUATION") \in Snapshot
          /\ Transition(Snap(p), "READY_FOR_EVALUATION").shadow = Snap(p).shadow
      BY <1>types, TransitionType DEF State
    <3> HIDE DEF done
    <3>2. /\ [done EXCEPT !.evalAge = 0] \in Snapshot
          /\ [done EXCEPT !.evalAge = 0].shadow = done.shadow
      BY <3>1 DEF Snapshot, Unevaluated
    <3> QED BY <3>1, <3>2
  <2>2. Goto(p, "evaluated", snap) /\ row' = row
    BY <1>9 DEF Evaluate
  <2> HIDE DEF snap
  <2> QED BY <2>1, <2>2, <1>goto, <1>steps
<1>10. ASSUME NEW p \in Proc, NEW c \in MaybeConfig, Optimize(p, c) PROVE ShadowInv'
  <2> DEFINE state == IF c = NoConfig THEN "OPTIMIZING" ELSE "CANDIDATE_AVAILABLE"
             found == Transition(Snap(p), state)
             snap == [found EXCEPT !.optAge = 0, !.best = c]
  <2>1. found \in Snapshot /\ found.shadow = Snap(p).shadow
    BY <1>types, TransitionType DEF State
  <2>2. Goto(p, "optimized", snap) /\ row' = row
    BY <1>10 DEF Optimize
  <2> HIDE DEF found
  <2>3. c \in MaybeConfig /\ 0 \in 0 .. Unoptimized
    BY DEF Unoptimized
  <2>4. snap \in Snapshot /\ snap.shadow = found.shadow
    BY <2>1, <2>3 DEF Snapshot
  <2> HIDE DEF snap
  <2> QED BY <2>1, <2>2, <2>4, <1>goto, <1>steps
<1>11. ASSUME NEW p \in Proc, Shadow(p) PROVE ShadowInv'
  <2> DEFINE running == Transition(Snap(p), "SHADOW_RUNNING")
             snap == [running EXCEPT !.shadow = Snap(p).best]
  <2>1. running \in Snapshot /\ Snap(p).best \in Config
    BY <1>11, <1>types, TransitionType DEF State, Shadow, ShadowDue, Snapshot, MaybeConfig
  <2>2. Goto(p, "shadowed", snap) /\ row' = row
    BY <1>11 DEF Shadow
  <2>3. shadows' = [shadows EXCEPT ![Snap(p).best] = shadows[Snap(p).best] + 1]
    BY <1>11 DEF Shadow
  <2> HIDE DEF running
  <2>4. snap \in Snapshot /\ snap.shadow = Snap(p).best
    BY <2>1 DEF Snapshot, MaybeConfig
  <2>5. shadows'[Snap(p).best] > 0
    BY <2>1, <2>3 DEF TypeOK
  <2> HIDE DEF snap
  <2> QED BY <2>2, <2>4, <2>5, <1>goto, <1>steps
<1>12. ASSUME NEW p \in Proc, Adopt(p) PROVE ShadowInv'
  <2> DEFINE done == Transition(Snap(p), "DEMO_AUTO_ADOPTED")
             snap == [done EXCEPT !.adoptAge = 0]
  <2>1. done \in Snapshot /\ done.shadow = Snap(p).shadow
    BY <1>types, TransitionType DEF State
  <2>2. Goto(p, "adopted", snap) /\ row' = row
    BY <1>12 DEF Adopt
  <2> HIDE DEF done
  <2>3. snap \in Snapshot /\ snap.shadow = done.shadow
    BY <2>1 DEF Snapshot
  <2> HIDE DEF snap
  <2> QED BY <2>1, <2>2, <2>3, <1>goto, <1>steps
<1> QED
  BY <1>1, <1>2, <1>3, <1>4, <1>5, <1>6, <1>7, <1>8, <1>9, <1>10, <1>11, <1>12
  DEF Next, AfterReadiness, AfterJudgement, AfterEvaluation, AfterOptimizer

(* Only the activation itself takes a cycle from "shadowed" to "adopted".  *)
LEMMA OnlyAdoptAdopts ==
  ASSUME TypeOK, Next, NEW p \in Proc, Adopting(p)
  PROVE  Adopt(p)
<1>1. cycle[p].at = "shadowed" /\ cycle'[p].at = "adopted" /\ cycle' # cycle
  BY DEF Adopting, At
<1>2. cycle \in [Proc -> Cycle] /\ NoCycle.at = "idle"
  BY DEF TypeOK, NoCycle
<1>3. ~(Bot \/ Surroundings \/ Tick)
  BY <1>1 DEF Bot, RecordBreach, Trade, ProtectionAudit, Restart, Surroundings, Seed,
     BotRejects, OperatorRejects, OperatorActivates, LoseStop, KillSwitch, Tick, results
<1>4. PICK q \in Proc :
        \/ CycleOff(q) \/ CycleStart(q) \/ AfterReadiness(q) \/ AfterJudgement(q)
        \/ AfterEvaluation(q) \/ AfterOptimizer(q) \/ Lose(q)
  BY <1>3 DEF Next
<1>5. ASSUME NEW r \in Proc, NEW step, NEW snap, Goto(r, step, snap)
      PROVE  cycle'[r].at = step /\ \A s \in Proc \ {r} : cycle'[s] = cycle[s]
  BY <1>2, <1>5 DEF Goto, Cycle
<1>6. q = p
  <2> SUFFICES ASSUME q # p PROVE FALSE
    OBVIOUS
  <2>1. cycle'[p] = cycle[p]
    BY <1>2, <1>4, <1>5 DEF CycleOff, CycleStart, AfterReadiness, BlockKill, Judge,
       AfterJudgement, BlockBurnIn, WaitForTrades, Evaluate, AfterEvaluation,
       OptimizerIdle, Optimize, AfterOptimizer, Shadow, NoShadow, Adopt,
       PersistAdoption, Recommend, Lose, Persist, results
  <2> QED BY <2>1, <1>1
<1>7. ~(PersistAdoption(p) \/ Recommend(p) \/ Lose(p))
  BY <1>1, <1>2 DEF PersistAdoption, Recommend, Lose, Persist
<1> QED
  BY <1>1, <1>4, <1>6, <1>7 DEF At, CycleOff, CycleStart, AfterReadiness, BlockKill, Judge,
     AfterJudgement, BlockBurnIn, WaitForTrades, Evaluate, AfterEvaluation,
     OptimizerIdle, Optimize, AfterOptimizer, Shadow, NoShadow

(* require_shadow_before_demo_adoption is kept by any number of cycles     *)
(* that overlap and are lost anywhere: the candidate a cycle activates has *)
(* a row of its own in shadow_runs.                                        *)
THEOREM AdoptedWasShadowed == Spec => ShadowedFirst
<1>1. Init => TypeOK /\ ShadowInv
  BY NoCycleType DEF Init, TypeOK, MaybeConfig, RowAge, Expired, ShadowInv, Noted, Snap,
     NoCycle, NewSnapshot
<1>2. TypeOK /\ ShadowInv /\ [Next]_vars => (TypeOK /\ ShadowInv)'
  BY TypeStep, ShadowStep
<1>3. TypeOK /\ ShadowInv /\ [Next]_vars =>
        [\A p \in Proc : Adopting(p) /\ RequireShadow => shadows[active'] > 0]_vars
  <2> SUFFICES ASSUME TypeOK, ShadowInv, Next, NEW p \in Proc, Adopting(p), RequireShadow
               PROVE  shadows[active'] > 0
    OBVIOUS
  <2>1. Adopt(p)
    BY OnlyAdoptAdopts
  <2>2. /\ active' = Snap(p).best /\ Snap(p).best # NoConfig
        /\ Snap(p).shadow = Snap(p).best
    BY <2>1 DEF Adopt, AdoptionDue
  <2> QED BY <2>2 DEF ShadowInv, Noted
<1> QED BY <1>1, <1>2, <1>3, PTL DEF Spec, ShadowedFirst

----------------------------------------------------------------------------
(* One cycle at a time, lost before the optimizer's result at the latest.  *)
(* Until the optimizer is due the row is up to date, and so is a copy of   *)
(* it: it names the newest run's candidate and the time of the last        *)
(* adoption, and a candidate it does not note as shadowed has no shadow    *)
(* run.  After that the copy is, until it is written.                      *)
Before == {"idle", "readiness", "judged", "evaluated"}

Current(snap) ==
  /\ snap.best = lastRun
  /\ snap.adoptAge = adoptedAge
  /\ snap.best \in {NoConfig, snap.shadow} \/ shadows[snap.best] = 0

CurrentInv ==
  /\ \A p \in Proc : /\ cycle[p].at \in Before => Current(row)
                     /\ cycle[p].at # "idle" => Current(Snap(p))
  /\ ShadowOnce

LEMMA TransitionKeeps ==
  ASSUME NEW snap \in Snapshot, NEW state \in State
  PROVE  /\ Transition(snap, state) \in Snapshot
         /\ Transition(snap, state).best = snap.best
         /\ Transition(snap, state).shadow = snap.shadow
         /\ Transition(snap, state).adoptAge = snap.adoptAge
BY DEF Transition, Snapshot

(* A snapshot with the same candidate, note and time stays up to date.     *)
LEMMA CurrentStays ==
  ASSUME NEW snap, NEW taken, Current(taken),
         snap.best = taken.best, snap.shadow = taken.shadow, snap.adoptAge = taken.adoptAge,
         UNCHANGED <<lastRun, adoptedAge>>,
         taken.best \in {NoConfig, taken.shadow} \/ shadows'[taken.best] = shadows[taken.best]
  PROVE  snap.best = lastRun' /\ snap.adoptAge = adoptedAge'
         /\ (snap.best \in {NoConfig, snap.shadow} \/ shadows'[snap.best] = 0)
BY DEF Current

LEMMA CurrentStep ==
  ASSUME NEW timer, Proc = {timer}, Lossy \subseteq Before,
         TypeOK, CurrentInv, [Next]_vars
  PROVE  CurrentInv'
<1> USE DEF registry, records, results
<1>types. /\ cycle \in [Proc -> Cycle] /\ row \in Snapshot /\ timer \in Proc
          /\ Snap(timer) \in Snapshot /\ shadows \in [Config -> Nat]
  BY SnapType DEF TypeOK
<1>new. NoCycle.at = "idle"
  BY DEF NoCycle
<1>steps. {"judged", "evaluated", "optimized", "shadowed", "adopted"} \subseteq Step \ {"idle"}
  BY DEF Step
<1>used. /\ row.best \in Config => row.best \notin Fresh
         /\ Snap(timer).best \in Config => Snap(timer).best \notin Fresh
  BY <1>types DEF Fresh, Snap
<1>best. row.best \in MaybeConfig /\ Snap(timer).best \in MaybeConfig
  BY <1>types DEF Snapshot
(* Steps beside the cycle.                                                 *)
<1>same. ASSUME row' = row, cycle' = cycle, UNCHANGED <<lastRun, adoptedAge>>,
                \A d \in Config \ Fresh : shadows'[d] = shadows[d], ShadowOnce'
         PROVE  CurrentInv'
  <2>1. Current(row) => Current(row)'
    BY <1>same, <1>used, <1>best, CurrentStays DEF Current, MaybeConfig
  <2>2. Current(Snap(timer)) => Current(Snap(timer))'
    <3>1. Snap(timer)' = Snap(timer)
      BY <1>same DEF Snap
    <3> QED BY <3>1, <1>same, <1>used, <1>best, CurrentStays DEF Current, MaybeConfig
  <2> QED BY <2>1, <2>2, <1>same DEF CurrentInv
(* A cycle that goes on with another snapshot ...                          *)
<1>goto. ASSUME NEW step \in Step \ {"idle"}, NEW snap \in Snapshot, Goto(timer, step, snap),
                snap.best = lastRun', snap.adoptAge = adoptedAge',
                snap.best \in {NoConfig, snap.shadow} \/ shadows'[snap.best] = 0,
                step \in Before => Current(row)', ShadowOnce'
         PROVE  CurrentInv'
  <2>1. cycle'[timer].at = step
    BY <1>goto, <1>types DEF Goto, Cycle
  <2>2. Snap(timer)' = snap
    BY <1>goto, <1>types, GotoType DEF Snap
  <2>3. Current(Snap(timer))'
    BY <2>2, <1>goto DEF Current
  <2> QED BY <2>1, <2>3, <1>goto DEF CurrentInv
(* ... and one that ends.                                                  *)
<1>end. ASSUME cycle' = [cycle EXCEPT ![timer] = NoCycle], Current(row)', ShadowOnce'
        PROVE  CurrentInv'
  <2>1. cycle'[timer].at = "idle"
    BY <1>end, <1>types, <1>new
  <2> QED BY <2>1, <1>end DEF CurrentInv
<1>once. shadows' = shadows => ShadowOnce'
  BY DEF CurrentInv, ShadowOnce
<1>register. ASSUME NEW c \in Config, Register(c)
             PROVE  (\A d \in Config \ Fresh : shadows'[d] = shadows[d])
                    /\ ShadowOnce' /\ shadows'[c] = 0
  BY <1>register DEF Register, CurrentInv, ShadowOnce
<1>1. CASE Bot
  BY <1>1, <1>same, <1>once DEF Bot, RecordBreach, Trade, ProtectionAudit, Restart
<1>2. CASE Surroundings
  <2>1. ASSUME NEW c \in Config, Seed(c) PROVE CurrentInv'
    BY <2>1, <1>register, <1>same DEF Seed
  <2>2. CASE BotRejects \/ OperatorRejects \/ (\E c \in Config : OperatorActivates(c))
             \/ LoseStop \/ KillSwitch
    BY <2>2, <1>same, <1>once DEF BotRejects, OperatorRejects, OperatorActivates, LoseStop,
       KillSwitch
  <2> QED BY <1>2, <2>1, <2>2 DEF Surroundings
<1>3. CASE Tick
  <2>1. /\ UNCHANGED <<lastRun, shadows, cycle>> /\ cycle[timer].at = "idle"
        /\ adoptedAge' = Older(adoptedAge, AdoptGap)
        /\ row'.best = row.best /\ row'.shadow = row.shadow
        /\ row'.adoptAge = Older(row.adoptAge, AdoptGap)
    BY <1>3, <1>types DEF Tick, Snapshot, Quiet, At
  <2>2. Current(row)
    BY <2>1, <1>types DEF CurrentInv, Before
  <2>3. Current(row)'
    BY <2>1, <2>2 DEF Current
  <2> QED BY <2>1, <2>3, <1>once DEF CurrentInv
<1>4. CASE UNCHANGED vars
  BY <1>4, <1>same, <1>once DEF vars
<1>5. CASE CycleOff(timer)
  <2>1. /\ row' = Transition(row, "IDLE") /\ cycle' = cycle /\ cycle[timer].at = "idle"
        /\ UNCHANGED <<lastRun, shadows, adoptedAge>>
    BY <1>5 DEF CycleOff, At
  <2>2. Current(row) /\ "IDLE" \in State
    BY <2>1, <1>types DEF CurrentInv, Before, State
  <2>3. Current(row)'
    BY <2>1, <2>2, <1>types, TransitionKeeps DEF Current
  <2> QED BY <2>1, <2>3, <1>once DEF CurrentInv
<1>6. CASE CycleStart(timer)
  <2>1. /\ row' = row /\ Snap(timer)' = row /\ UNCHANGED <<lastRun, shadows, adoptedAge>>
        /\ cycle[timer].at = "idle"
    BY <1>6, <1>types DEF CycleStart, Snap, At
  <2>2. Current(row)' /\ Current(Snap(timer))'
    BY <2>1, <1>types DEF CurrentInv, Before, Current
  <2> QED BY <2>2, <2>1, <1>once DEF CurrentInv
<1>7. ASSUME BlockKill(timer) \/ BlockBurnIn(timer) \/ WaitForTrades(timer)
             \/ Recommend(timer) \/ PersistAdoption(timer)
      PROVE  CurrentInv'
  <2>1. {"BLOCKED_BY_KILL_SWITCH", "BLOCKED_BY_BURNIN", "WAITING_FOR_BURNIN_DATA",
         FinalState(Snap(timer))} \subseteq State
    BY DEF State, Blocked, FinalState
  <2>2. /\ cycle' = [cycle EXCEPT ![timer] = NoCycle]
        /\ row' = Snap(timer) \/ \E state \in State : row' = Transition(Snap(timer), state)
        /\ UNCHANGED <<lastRun, shadows, adoptedAge>> /\ cycle[timer].at # "idle"
    BY <1>7, <2>1 DEF BlockKill, BlockBurnIn, WaitForTrades, Recommend, PersistAdoption,
       Persist, At
  <2>3. Current(Snap(timer))
    BY <2>2, <1>types DEF CurrentInv
  <2>4. row'.best = Snap(timer).best /\ row'.shadow = Snap(timer).shadow
        /\ row'.adoptAge = Snap(timer).adoptAge
    BY <2>2, <1>types, TransitionKeeps
  <2>5. Current(row)'
    BY <2>2, <2>3, <2>4 DEF Current
  <2> QED BY <2>2, <2>5, <1>end, <1>once
<1>8. CASE Lose(timer)
  <2>1. /\ cycle' = [cycle EXCEPT ![timer] = NoCycle] /\ cycle[timer].at \in Before
        /\ UNCHANGED <<row, lastRun, shadows, adoptedAge>>
    BY <1>8 DEF Lose
  <2>2. Current(row)'
    BY <2>1, <1>types DEF CurrentInv, Current
  <2> QED BY <2>1, <2>2, <1>end, <1>once
(* The snapshot changes in nothing that matters here.                      *)
<1>9. ASSUME Judge(timer) \/ OptimizerIdle(timer) \/ NoShadow(timer) \/ Evaluate(timer)
      PROVE  CurrentInv'
  <2> DEFINE done == Transition(Snap(timer), "EVALUATING")
  <2>1. /\ done \in Snapshot /\ done.best = Snap(timer).best
        /\ done.shadow = Snap(timer).shadow /\ done.adoptAge = Snap(timer).adoptAge
    BY <1>types, TransitionKeeps DEF State
  <2>2. /\ [done EXCEPT !.evalAge = 0] \in Snapshot
        /\ [done EXCEPT !.evalAge = 0].best = done.best
        /\ [done EXCEPT !.evalAge = 0].shadow = done.shadow
        /\ [done EXCEPT !.evalAge = 0].adoptAge = done.adoptAge
    <3> HIDE DEF done
    <3> QED BY <2>1 DEF Snapshot, Unevaluated
  <2>3. PICK step \in Step \ {"idle"}, snap \in Snapshot :
          /\ Goto(timer, step, snap)
          /\ snap.best = Snap(timer).best /\ snap.shadow = Snap(timer).shadow
          /\ snap.adoptAge = Snap(timer).adoptAge
          /\ step \in Before => cycle[timer].at \in Before
    <3>1. CASE Judge(timer) \/ OptimizerIdle(timer) \/ NoShadow(timer)
      BY <3>1, <1>types, <1>steps DEF Judge, OptimizerIdle, NoShadow, Before, At
    <3>2. CASE Evaluate(timer)
      <4>1. CASE EvaluationDue(timer)
        <5>1. Goto(timer, "evaluated", [done EXCEPT !.evalAge = 0]) /\ At(timer, "judged")
          BY <3>2, <4>1 DEF Evaluate
        <5> HIDE DEF done
        <5> QED BY <5>1, <2>1, <2>2, <1>steps DEF At, Before
      <4>2. CASE ~EvaluationDue(timer)
        <5>1. /\ Goto(timer, "evaluated", Transition(Snap(timer), "READY_FOR_EVALUATION"))
              /\ At(timer, "judged") /\ "READY_FOR_EVALUATION" \in State
          BY <3>2, <4>2 DEF Evaluate, State
        <5> QED BY <5>1, <1>types, TransitionKeeps, <1>steps DEF At, Before
      <4> QED BY <4>1, <4>2
    <3> QED BY <1>9, <3>1, <3>2
  <2> HIDE DEF done
  <2>4. UNCHANGED <<row, lastRun, shadows, adoptedAge>> /\ cycle[timer].at # "idle"
    BY <1>9 DEF Judge, OptimizerIdle, NoShadow, Evaluate, At
  <2>5. Current(Snap(timer))
    BY <2>4, <1>types DEF CurrentInv
  <2>6. snap.best \in {NoConfig, snap.shadow} \/ shadows'[snap.best] = 0
    BY <2>3, <2>4, <2>5 DEF Current
  <2>7. snap.best = lastRun' /\ snap.adoptAge = adoptedAge'
    BY <2>3, <2>4, <2>5 DEF Current
  <2>8. step \in Before => Current(row)'
    BY <2>3, <2>4, <1>types DEF CurrentInv, Current
  <2> QED BY <2>3, <2>4, <2>6, <2>7, <2>8, <1>goto, <1>once
<1>10. ASSUME NEW c \in MaybeConfig, Optimize(timer, c) PROVE CurrentInv'
  <2> DEFINE state == IF c = NoConfig THEN "OPTIMIZING" ELSE "CANDIDATE_AVAILABLE"
             found == Transition(Snap(timer), state)
             snap == [found EXCEPT !.optAge = 0, !.best = c]
  <2>1. found \in Snapshot /\ found.adoptAge = Snap(timer).adoptAge
    BY <1>types, TransitionKeeps DEF State
  <2>2. /\ Goto(timer, "optimized", snap) /\ lastRun' = c /\ adoptedAge' = adoptedAge
        /\ cycle[timer].at # "idle"
        /\ IF c = NoConfig THEN shadows' = shadows ELSE Register(c)
    BY <1>10 DEF Optimize, At
  <2> HIDE DEF found
  <2>3. 0 \in 0 .. Unoptimized
    BY DEF Unoptimized
  <2>4. snap \in Snapshot /\ snap.best = c /\ snap.adoptAge = found.adoptAge
    BY <2>1, <2>3 DEF Snapshot
  <2> HIDE DEF snap
  <2>5. snap.adoptAge = adoptedAge'
    BY <2>1, <2>2, <2>4, <1>types DEF CurrentInv, Current
  <2>6. ShadowOnce' /\ (c = NoConfig \/ shadows'[c] = 0)
    BY <2>2, <1>register, <1>once DEF MaybeConfig
  <2>7. snap.best = lastRun' /\ (snap.best \in {NoConfig, snap.shadow} \/ shadows'[snap.best] = 0)
    BY <2>2, <2>4, <2>6
  <2>8. "optimized" \in Step \ {"idle"} /\ "optimized" \notin Before
    BY <1>steps DEF Before
  <2> QED BY <2>2, <2>4, <2>5, <2>6, <2>7, <2>8, <1>goto
<1>11. CASE Shadow(timer)
  <2> DEFINE running == Transition(Snap(timer), "SHADOW_RUNNING")
             snap == [running EXCEPT !.shadow = Snap(timer).best]
  <2>1. /\ running \in Snapshot /\ running.best = Snap(timer).best
        /\ running.adoptAge = Snap(timer).adoptAge
    BY <1>types, TransitionKeeps DEF State
  <2>2. /\ Goto(timer, "shadowed", snap) /\ UNCHANGED <<row, lastRun, adoptedAge>>
        /\ cycle[timer].at # "idle" /\ ShadowDue(timer)
        /\ shadows' = [shadows EXCEPT ![Snap(timer).best] = shadows[Snap(timer).best] + 1]
    BY <1>11 DEF Shadow, At
  <2> HIDE DEF running
  <2>3. /\ snap \in Snapshot /\ snap.best = running.best /\ snap.shadow = Snap(timer).best
        /\ snap.adoptAge = running.adoptAge
    BY <2>1, <1>best DEF Snapshot
  <2> HIDE DEF snap
  <2>4. Current(Snap(timer))
    BY <2>2, <1>types DEF CurrentInv
  <2>5. Snap(timer).best \in Config /\ shadows[Snap(timer).best] = 0
    BY <2>2, <2>4, <1>best DEF Current, ShadowDue, MaybeConfig
  <2>6. ShadowOnce'
    BY <2>2, <2>5, <1>types DEF CurrentInv, ShadowOnce
  <2>7. snap.best = lastRun' /\ snap.adoptAge = adoptedAge' /\ snap.best = snap.shadow
    BY <2>1, <2>2, <2>3, <2>4 DEF Current
  <2>8. "shadowed" \in Step \ {"idle"} /\ "shadowed" \notin Before
    BY <1>steps DEF Before
  <2> QED BY <2>2, <2>3, <2>6, <2>7, <2>8, <1>goto
<1>12. CASE Adopt(timer)
  <2> DEFINE done == Transition(Snap(timer), "DEMO_AUTO_ADOPTED")
             snap == [done EXCEPT !.adoptAge = 0]
  <2>1. /\ done \in Snapshot /\ done.best = Snap(timer).best
        /\ done.shadow = Snap(timer).shadow
    BY <1>types, TransitionKeeps DEF State
  <2>2. /\ Goto(timer, "adopted", snap) /\ UNCHANGED <<row, lastRun, shadows>>
        /\ adoptedAge' = 0 /\ cycle[timer].at # "idle"
    BY <1>12 DEF Adopt, At
  <2> HIDE DEF done
  <2>3. /\ snap \in Snapshot /\ snap.best = done.best /\ snap.shadow = done.shadow
        /\ snap.adoptAge = 0
    BY <2>1 DEF Snapshot
  <2> HIDE DEF snap
  <2>4. Current(Snap(timer))
    BY <2>2, <1>types DEF CurrentInv
  <2>5. snap.best = lastRun' /\ (snap.best \in {NoConfig, snap.shadow} \/ shadows'[snap.best] = 0)
    BY <2>1, <2>2, <2>3, <2>4 DEF Current
  <2>6. "adopted" \in Step \ {"idle"} /\ "adopted" \notin Before
    BY <1>steps DEF Before
  <2> QED BY <2>2, <2>3, <2>5, <2>6, <1>goto, <1>once
<1> QED
  BY <1>1, <1>2, <1>3, <1>4, <1>5, <1>6, <1>7, <1>8, <1>9, <1>10, <1>11, <1>12
  DEF Next, AfterReadiness, AfterJudgement, AfterEvaluation, AfterOptimizer

LEMMA CurrentHolds ==
  ASSUME NEW timer, Proc = {timer}, Lossy \subseteq Before
  PROVE  Spec => [](TypeOK /\ CurrentInv)
<1>1. Init => CurrentInv
  BY DEF Init, CurrentInv, Current, ShadowOnce, NewSnapshot, NoCycle, Snap
<1>2. Init => TypeOK
  BY NoCycleType DEF Init, TypeOK, MaybeConfig, RowAge, Expired
<1>3. TypeOK /\ CurrentInv /\ [Next]_vars => TypeOK' /\ CurrentInv'
  BY TypeStep, CurrentStep
<1> QED BY <1>1, <1>2, <1>3, PTL DEF Spec

(* With one cycle at a time, lost before the optimizer's result at the     *)
(* latest, the row names the newest run's candidate between two cycles.    *)
THEOREM RowNamesLatestRun ==
  ASSUME NEW timer, Proc = {timer}, Lossy \subseteq Before
  PROVE  Spec => []LatestRunKept
<1>1. CurrentInv => LatestRunKept
  BY DEF CurrentInv, LatestRunKept, Quiet, At, Current, Before
<1> QED BY <1>1, CurrentHolds, PTL

(* Under the same conditions no candidate has a second shadow run ...      *)
THEOREM OneShadowRun ==
  ASSUME NEW timer, Proc = {timer}, Lossy \subseteq Before
  PROVE  Spec => []ShadowOnce
<1>1. CurrentInv => ShadowOnce
  BY DEF CurrentInv
<1> QED BY <1>1, CurrentHolds, PTL

(* ... and adoptions keep their distance.                                  *)
THEOREM AdoptionsKeepDistance ==
  ASSUME NEW timer, Proc = {timer}, Lossy \subseteq Before
  PROVE  Spec => AdoptionSpaced
<1>1. TypeOK /\ CurrentInv /\ [Next]_vars
        => [\A p \in Proc : Adopting(p) => adoptedAge >= AdoptGap]_vars
  <2> SUFFICES ASSUME TypeOK, CurrentInv, Next, NEW p \in Proc, Adopting(p)
               PROVE  adoptedAge >= AdoptGap
    OBVIOUS
  <2>1. Adopt(p)
    BY OnlyAdoptAdopts
  <2>2. Snap(p).adoptAge >= AdoptGap /\ cycle[p].at = "shadowed"
    BY <2>1 DEF Adopt, AdoptionDue, At
  <2> QED BY <2>2 DEF CurrentInv, Current
<1> QED BY <1>1, CurrentHolds, PTL DEF Spec, AdoptionSpaced
=============================================================================
