----------------------------- MODULE Automation -----------------------------
(***************************************************************************)
(* The automation cycle of a demo instance (src/src/automation) and the    *)
(* burn-in records it works on.                                            *)
(*                                                                         *)
(* The bot (src/src/main.py) counts its trades, audits its stops and fills *)
(* (src/src/validation, src/src/execution/audit.py), and leaves a row for  *)
(* every breached gate.  A cycle reads a window of these rows, judges the  *)
(* probation, may evaluate, optimise, start a shadow run and activate the  *)
(* candidate, and writes the one row of automation_state at its end only:  *)
(* what it does before is committed by others, so a cycle that raises or   *)
(* is killed leaves its effects and loses its memory of them.              *)
(*                                                                         *)
(* Abstractions: time advances between cycles only, which are short        *)
(* against every interval of the configuration; the bot's records wait for *)
(* a cycle under way, which has read them at its start and does not look   *)
(* again (Quiet); of the rows of a kind the newest is kept, those of a     *)
(* configuration the bot no longer runs are dropped; an unrepaired         *)
(* protection mismatch and a drift of execution count alike; identifiers   *)
(* nothing refers to are used again.                                       *)
(***************************************************************************)
EXTENDS Integers

CONSTANTS
  Config, NoConfig,
  Proc,          (* who runs cycles: the timer, an operator's shell        *)
  Window,        (* burn_in_required_report_window_hours and the gates' day *)
  EvalGap, OptGap, AdoptGap,      (* min_hours_between_...                 *)
  EvalTrades, AdoptTrades,        (* min_trades_for_...                    *)
  MaxTrades,     (* burn_in_max_trades_per_day                             *)
  RequireShadow, (* require_shadow_before_demo_adoption                    *)
  Operator,      (* what the operator does: "activate", "reject"            *)
  Lossy          (* where a cycle may be lost                              *)

Step == {"idle", "readiness", "judged", "evaluated", "optimized", "shadowed",
         "adopted"}

ASSUME AutomationAssumption ==
  /\ NoConfig \notin Config
  /\ {Window, EvalGap, OptGap, AdoptGap, EvalTrades, AdoptTrades, MaxTrades} \subseteq Nat
  /\ RequireShadow \in BOOLEAN
  /\ Operator \subseteq {"activate", "reject"}
  /\ Lossy \subseteq Step \ {"idle"}

VARIABLES
  active,     (* config_versions: the active row                           *)
  rejected,   (* config_versions with status "rejected"                    *)
  probation,  (* get_current_probation_status                              *)
  bot,        (* TradingBot._config_id                                     *)
  protected,  (* does the exchange have every stop the lifecycle expects?  *)
  trades,     (* the trades of the bot's configuration in the window       *)
  mismatchAge,(* of the newest unrepaired or drifted audit row             *)
  breachAge,  (* of the newest row of burnin_gate_breaches                 *)
  killAge,    (* of the newest row of kill_switch_events                   *)
  row,        (* automation_state                                          *)
  lastRun,    (* the candidate of the newest row of optimization_runs      *)
  shadows,    (* the number of shadow_runs of each candidate               *)
  adopted,    (* the candidates a cycle has activated                      *)
  adoptedAge, (* the time since the last of these activations              *)
  cycle       (* what each cycle holds                                     *)

registry == <<active, rejected, probation>>
records == <<bot, protected, trades, mismatchAge, breachAge, killAge>>
results == <<lastRun, shadows, adopted, adoptedAge>>
vars == <<registry, records, row, results, cycle>>

(* An age is counted as far as it matters; what has never happened is as   *)
(* old as that, or older where the code tells the two apart.               *)
RowAge == 0 .. Window + 1
Expired == Window + 1
Unevaluated == EvalGap + 1
Unoptimized == OptGap + 1
MaybeConfig == Config \cup {NoConfig}
Blocked == {"BLOCKED_BY_KILL_SWITCH", "BLOCKED_BY_BURNIN"}
State == Blocked \cup
  {"IDLE", "WAITING_FOR_BURNIN_DATA", "READY_FOR_EVALUATION", "EVALUATING",
   "OPTIMIZING", "CANDIDATE_AVAILABLE", "SHADOW_RUNNING",
   "CONTINUE_DEMO_NO_CANDIDATE", "AWAITING_MANUAL_APPROVAL", "DEMO_AUTO_ADOPTED"}

(* AutomationSnapshot, without the fields that are only printed.           *)
Snapshot ==
  [state : State, best : MaybeConfig, shadow : MaybeConfig,
   evalAge : 0 .. Unevaluated, optAge : 0 .. Unoptimized, adoptAge : 0 .. AdoptGap]

NewSnapshot ==
  [state |-> "IDLE", best |-> NoConfig, shadow |-> NoConfig,
   evalAge |-> Unevaluated, optAge |-> Unoptimized, adoptAge |-> AdoptGap]

Cycle ==
  [at : Step, snap : Snapshot, base : MaybeConfig, trades : Nat,
   breached : BOOLEAN, killed : BOOLEAN]

NoCycle ==
  [at |-> "idle", snap |-> NewSnapshot, base |-> NoConfig, trades |-> 0,
   breached |-> FALSE, killed |-> FALSE]

TypeOK ==
  /\ {active, probation, bot, lastRun} \subseteq MaybeConfig
  /\ rejected \subseteq Config /\ adopted \subseteq Config
  /\ protected \in BOOLEAN /\ trades \in 0 .. MaxTrades
  /\ {mismatchAge, breachAge, killAge} \subseteq RowAge /\ adoptedAge \in 0 .. AdoptGap
  /\ row \in Snapshot
  /\ shadows \in [Config -> Nat]
  /\ cycle \in [Proc -> Cycle]

(* The bot runs a configuration that an operator has activated.            *)
Init ==
  /\ active \in Config /\ bot = active
  /\ rejected = {} /\ probation \in {active, NoConfig}
  /\ protected = TRUE /\ trades = 0
  /\ mismatchAge = Expired /\ breachAge = Expired /\ killAge = Expired
  /\ row = NewSnapshot
  /\ lastRun = NoConfig /\ shadows = [c \in Config |-> 0]
  /\ adopted = {} /\ adoptedAge = AdoptGap
  /\ cycle = [p \in Proc |-> NoCycle]

At(p, step) == cycle[p].at = step
Snap(p) == cycle[p].snap
Quiet == \A p \in Proc : At(p, "idle")

----------------------------------------------------------------------------
(* The registry, seen from the cycle.                                      *)
Fresh ==
  {c \in Config : /\ c \notin {active, bot, probation, row.best, row.shadow, lastRun}
                  /\ \A p \in Proc : c \notin {cycle[p].base, cycle[p].snap.best,
                                               cycle[p].snap.shadow}}

(* A new row of config_versions.  Nothing is on record about it, and what  *)
(* is on record about those nothing refers to is forgotten.                *)
Register(c) ==
  /\ c \in Fresh
  /\ rejected' = rejected \ Fresh /\ adopted' = adopted \ Fresh
  /\ shadows' = [d \in Config |-> IF d \in Fresh THEN 0 ELSE shadows[d]]

(* reject_config_version.                                                  *)
Rejects(c) ==
  /\ rejected' = rejected \cup {c}
  /\ active' = IF active = c THEN NoConfig ELSE active
  /\ probation' = IF probation = c THEN NoConfig ELSE probation

(* Demo init or the bot's start registers a configuration when none is     *)
(* active; a seed goes on probation.                                       *)
Seed(c) ==
  /\ active = NoConfig /\ Register(c)
  /\ active' = c /\ probation' \in {c, NoConfig}
  /\ UNCHANGED <<records, row, lastRun, adoptedAge, cycle>>

(* A judge of the bot fails the candidate (DemoProbation.tla).             *)
BotRejects ==
  /\ probation # NoConfig /\ Rejects(probation)
  /\ UNCHANGED <<records, row, results, cycle>>

(* A manual reject; no command calls reject_config_version.                *)
OperatorRejects ==
  /\ "reject" \in Operator /\ row.best # NoConfig /\ row.best \notin rejected
  /\ Rejects(row.best)
  /\ UNCHANGED <<records, row, results, cycle>>

(* config activate, promote, or a rollback: any configuration is active    *)
(* then, one that was on probation before too.                             *)
OperatorActivates(c) ==
  /\ "activate" \in Operator /\ c # active
  /\ active' = c /\ rejected' = rejected \ {c}
  /\ probation' \in IF c \in adopted \cup {row.best} THEN {NoConfig} ELSE {NoConfig, c}
  /\ UNCHANGED <<records, row, results, cycle>>

----------------------------------------------------------------------------
(* The bot and its burn-in records.                                        *)

(* A new configuration takes effect when the bot is started again; the     *)
(* tables say nothing of it yet.                                           *)
Restart ==
  /\ Quiet /\ active \notin {bot, NoConfig}
  /\ bot' = active
  /\ protected' = TRUE /\ trades' = 0
  /\ mismatchAge' = Expired /\ breachAge' = Expired
  /\ UNCHANGED <<killAge, registry, row, results, cycle>>

(* check_burnin_gates, with the counts of the scoring loop.  The notional  *)
(* gate has the form of the one on trades.                                 *)
GateBreached == mismatchAge <= Window \/ trades >= MaxTrades

(* Every cycle of the scoring loop records the breached gates ...          *)
RecordBreach ==
  /\ Quiet /\ GateBreached
  /\ breachAge' = 0
  /\ UNCHANGED <<bot, protected, trades, mismatchAge, killAge, registry, row,
                 results, cycle>>

(* Mutant: entries do not ask the gates.                                   *)
TradeUngated ==
  /\ Quiet
  /\ trades' = trades + 1
  /\ mismatchAge' \in {0, mismatchAge}
  /\ UNCHANGED <<bot, protected, breachAge, killAge, registry, row, results, cycle>>

(* ... and enters only without one.  A fill that differs from what was     *)
(* asked marks its audit row (record_fill).                                *)
Trade ==
  /\ Quiet /\ ~GateBreached
  /\ trades' = trades + 1
  /\ mismatchAge' \in {0, mismatchAge}
  /\ UNCHANGED <<bot, protected, breachAge, killAge, registry, row, results, cycle>>

LoseStop ==
  /\ Quiet /\ protected /\ trades > 0 /\ protected' = FALSE
  /\ UNCHANGED <<bot, trades, mismatchAge, breachAge, killAge, registry, row,
                 results, cycle>>

(* run_protection_audit: the row says unrepaired even when the stop is set *)
(* again right away.                                                       *)
ProtectionAudit ==
  /\ Quiet /\ ~protected
  /\ protected' \in BOOLEAN
  /\ mismatchAge' = 0
  /\ UNCHANGED <<bot, trades, breachAge, killAge, registry, row, results, cycle>>

KillSwitch ==
  /\ Quiet /\ killAge' = 0
  /\ UNCHANGED <<bot, protected, trades, mismatchAge, breachAge, registry, row,
                 results, cycle>>

----------------------------------------------------------------------------
(* The cycle.                                                              *)

(* compute_readiness.  Rows are those of the active configuration, or all  *)
(* of them when none is active; kill-switch events are always all.         *)
Counted == active \in {bot, NoConfig}
TradeCount == IF Counted THEN trades ELSE 0
Breaches == Counted /\ breachAge <= Window
Killed == killAge <= Window

(* The next step of a cycle, with what it changes of its snapshot.         *)
Goto(p, step, snap) == cycle' = [cycle EXCEPT ![p].at = step, ![p].snap = snap]

(* _persist_snapshot and the end of the cycle.                             *)
Persist(p, snap) == row' = snap /\ cycle' = [cycle EXCEPT ![p] = NoCycle]

Transition(snap, state) == [snap EXCEPT !.state = state]

(* Not a demo instance in burn-in, or automation switched off.             *)
CycleOff(p) ==
  /\ At(p, "idle")
  /\ row' = Transition(row, "IDLE")
  /\ UNCHANGED <<registry, records, results, cycle>>

CycleStart(p) ==
  /\ At(p, "idle")
  /\ cycle' = [cycle EXCEPT ![p] =
       [at |-> "readiness", snap |-> row, base |-> active, trades |-> TradeCount,
        breached |-> Breaches, killed |-> Killed]]
  /\ UNCHANGED <<registry, records, row, results>>

BlockKill(p) ==
  /\ At(p, "readiness") /\ cycle[p].killed
  /\ Persist(p, Transition(Snap(p), "BLOCKED_BY_KILL_SWITCH"))
  /\ UNCHANGED <<registry, records, results>>

(* The candidate on probation is judged: not yet, passed or failed.        *)
Judge(p) ==
  /\ At(p, "readiness") /\ ~cycle[p].killed
  /\ \/ UNCHANGED registry
     \/ probation # NoConfig /\ probation' = NoConfig /\ UNCHANGED <<active, rejected>>
     \/ probation # NoConfig /\ Rejects(probation)
  /\ Goto(p, "judged", Snap(p))
  /\ UNCHANGED <<records, row, results>>

(* The breaches are those read before the judgement.                       *)
BlockBurnIn(p) ==
  /\ At(p, "judged") /\ cycle[p].breached
  /\ Persist(p, Transition(Snap(p), "BLOCKED_BY_BURNIN"))
  /\ UNCHANGED <<registry, records, results>>

(* NOT_READY is the classification of a kill switch only, so that          *)
(* BLOCKED_BY_HEALTH is never reached.                                     *)
WaitForTrades(p) ==
  /\ At(p, "judged") /\ ~cycle[p].breached /\ cycle[p].trades = 0
  /\ Persist(p, Transition(Snap(p), "WAITING_FOR_BURNIN_DATA"))
  /\ UNCHANGED <<registry, records, results>>

EvaluationDue(p) ==
  cycle[p].trades >= EvalTrades /\ Snap(p).evalAge >= EvalGap

Evaluate(p) ==
  /\ At(p, "judged") /\ ~cycle[p].breached /\ cycle[p].trades > 0
  /\ Goto(p, "evaluated",
          IF EvaluationDue(p)
          THEN [Transition(Snap(p), "EVALUATING") EXCEPT !.evalAge = 0]
          ELSE Transition(Snap(p), "READY_FOR_EVALUATION"))
  /\ UNCHANGED <<registry, records, row, results>>

OptimizerDue(p) ==
  cycle[p].trades >= EvalTrades /\ Snap(p).optAge >= OptGap

OptimizerIdle(p) ==
  /\ At(p, "evaluated") /\ ~OptimizerDue(p)
  /\ Goto(p, "optimized", Snap(p))
  /\ UNCHANGED <<registry, records, row, results>>

(* Mutant: an optimizer run without a result keeps the earlier candidate.  *)
OptimizeKeeps(p, c) ==
  /\ At(p, "evaluated") /\ OptimizerDue(p)
  /\ lastRun' = c
  /\ Goto(p, "optimized",
          [Transition(Snap(p), IF c = NoConfig THEN "OPTIMIZING" ELSE "CANDIDATE_AVAILABLE")
             EXCEPT !.optAge = 0, !.best = IF c = NoConfig THEN @ ELSE c])
  /\ IF c = NoConfig THEN UNCHANGED <<rejected, shadows, adopted>>
     ELSE Register(c)
  /\ UNCHANGED <<active, probation, records, row, adoptedAge>>

(* run_optimization: a candidate c is generated and registered, or none.   *)
Optimize(p, c) ==
  /\ At(p, "evaluated") /\ OptimizerDue(p)
  /\ lastRun' = c
  /\ Goto(p, "optimized",
          [Transition(Snap(p), IF c = NoConfig THEN "OPTIMIZING" ELSE "CANDIDATE_AVAILABLE")
             EXCEPT !.optAge = 0, !.best = c])
  /\ IF c = NoConfig THEN UNCHANGED <<rejected, shadows, adopted>>
     ELSE Register(c)
  /\ UNCHANGED <<active, probation, records, row, adoptedAge>>

ShadowDue(p) == Snap(p).best \notin {NoConfig, Snap(p).shadow}

(* Mutant: the candidate with a shadow run is not noted.                   *)
ShadowUnnoted(p) ==
  /\ At(p, "optimized") /\ ShadowDue(p)
  /\ shadows' = [shadows EXCEPT ![Snap(p).best] = @ + 1]
  /\ Goto(p, "shadowed", Transition(Snap(p), "SHADOW_RUNNING"))
  /\ UNCHANGED <<registry, records, row, lastRun, adopted, adoptedAge>>

(* ShadowRunner.start inserts a row ...                                    *)
Shadow(p) ==
  /\ At(p, "optimized") /\ ShadowDue(p)
  /\ shadows' = [shadows EXCEPT ![Snap(p).best] = @ + 1]
  /\ Goto(p, "shadowed", [Transition(Snap(p), "SHADOW_RUNNING") EXCEPT !.shadow = Snap(p).best])
  /\ UNCHANGED <<registry, records, row, lastRun, adopted, adoptedAge>>

(* ... or cannot, or there is nothing to start.                            *)
NoShadow(p) ==
  /\ At(p, "optimized")
  /\ Goto(p, "shadowed", Snap(p))
  /\ UNCHANGED <<registry, records, row, results>>

(* Mutant: the candidate need not be the one that has a shadow run.        *)
AdoptionDueAnyShadow(p) ==
  /\ Snap(p).best # NoConfig
  /\ cycle[p].trades >= AdoptTrades
  /\ Snap(p).adoptAge >= AdoptGap
  /\ RequireShadow => Snap(p).shadow # NoConfig

AdoptionDue(p) ==
  /\ Snap(p).best # NoConfig
  /\ cycle[p].trades >= AdoptTrades
  /\ Snap(p).adoptAge >= AdoptGap
  /\ RequireShadow => Snap(p).shadow = Snap(p).best

(* Mutant: the time of the adoption is forgotten.                          *)
AdoptUntimed(p) ==
  /\ At(p, "shadowed") /\ AdoptionDue(p)
  /\ active' = Snap(p).best /\ rejected' = rejected \ {Snap(p).best}
  /\ probation' = NoConfig
  /\ adopted' = adopted \cup {Snap(p).best} /\ adoptedAge' = 0
  /\ Goto(p, "adopted", Transition(Snap(p), "DEMO_AUTO_ADOPTED"))
  /\ UNCHANGED <<records, row, lastRun, shadows>>

(* activate_config_version commits before the cycle notes the adoption.    *)
Adopt(p) ==
  /\ At(p, "shadowed") /\ AdoptionDue(p)
  /\ active' = Snap(p).best /\ rejected' = rejected \ {Snap(p).best}
  /\ probation' = NoConfig
  /\ adopted' = adopted \cup {Snap(p).best} /\ adoptedAge' = 0
  /\ Goto(p, "adopted", [Transition(Snap(p), "DEMO_AUTO_ADOPTED") EXCEPT !.adoptAge = 0])
  /\ UNCHANGED <<records, row, lastRun, shadows>>

PersistAdoption(p) ==
  /\ At(p, "adopted")
  /\ Persist(p, Snap(p))
  /\ UNCHANGED <<registry, records, results>>

(* The recommendation; times and run ids are set together.                 *)
FinalState(snap) ==
  IF snap.best # NoConfig THEN "AWAITING_MANUAL_APPROVAL"
  ELSE IF snap.evalAge # Unevaluated /\ snap.optAge # Unoptimized
       THEN "CONTINUE_DEMO_NO_CANDIDATE" ELSE "READY_FOR_EVALUATION"

Recommend(p) ==
  /\ At(p, "shadowed") /\ ~AdoptionDue(p)
  /\ Persist(p, Transition(Snap(p), FinalState(Snap(p))))
  /\ UNCHANGED <<registry, records, results>>

(* The cycle is killed or an exception leaves it.  Its own error handlers  *)
(* do so too: they name STATE_ERROR, which the module does not import.     *)
Lose(p) ==
  /\ cycle[p].at \in Lossy
  /\ cycle' = [cycle EXCEPT ![p] = NoCycle]
  /\ UNCHANGED <<registry, records, row, results>>

AfterReadiness(p) == BlockKill(p) \/ Judge(p)
AfterJudgement(p) == BlockBurnIn(p) \/ WaitForTrades(p) \/ Evaluate(p)
AfterEvaluation(p) == OptimizerIdle(p) \/ \E c \in MaybeConfig : Optimize(p, c)
AfterOptimizer(p) ==
  Shadow(p) \/ NoShadow(p) \/ Adopt(p) \/ PersistAdoption(p) \/ Recommend(p)

----------------------------------------------------------------------------
(* Time passes; trades leave the window.                                   *)
Older(age, limit) == IF age < limit THEN age + 1 ELSE age

Tick ==
  /\ Quiet
  /\ trades' \in 0 .. trades
  /\ mismatchAge' = Older(mismatchAge, Expired)
  /\ breachAge' = Older(breachAge, Expired) /\ killAge' = Older(killAge, Expired)
  /\ adoptedAge' = Older(adoptedAge, AdoptGap)
  /\ row' = [row EXCEPT !.evalAge = Older(@, EvalGap), !.optAge = Older(@, OptGap),
                        !.adoptAge = Older(@, AdoptGap)]
  /\ UNCHANGED <<registry, bot, protected, lastRun, shadows, adopted, cycle>>

Bot == RecordBreach \/ Trade \/ ProtectionAudit \/ Restart
Surroundings ==
  \/ \E c \in Config : Seed(c)
  \/ BotRejects \/ OperatorRejects \/ \E c \in Config : OperatorActivates(c)
  \/ LoseStop \/ KillSwitch

Next ==
  \/ \E p \in Proc : \/ CycleOff(p) \/ CycleStart(p) \/ AfterReadiness(p) \/ AfterJudgement(p)
                   \/ AfterEvaluation(p) \/ AfterOptimizer(p) \/ Lose(p)
  \/ Bot \/ Surroundings \/ Tick

Spec == Init /\ [][Next]_vars

(* The timer fires, a cycle goes on, the loops of the bot go round, time   *)
(* passes.  No failure lasts: a cycle that may be lost at a step gets past *)
(* it in the end, and a stop that is missing is set in the end.            *)
Repaired == ProtectionAudit /\ protected'

Fairness ==
  /\ SF_vars(Tick) /\ SF_vars(RecordBreach) /\ SF_vars(Repaired)
  /\ \A p \in Proc :
       /\ WF_vars(CycleStart(p)) /\ WF_vars(AfterOptimizer(p))
       /\ SF_vars(AfterReadiness(p)) /\ SF_vars(AfterJudgement(p))
       /\ SF_vars(AfterEvaluation(p))

FairSpec == Spec /\ Fairness

----------------------------------------------------------------------------
(* What a cycle promises.                                                  *)

Adopting(p) == At(p, "shadowed") /\ cycle'[p].at = "adopted"

(* Demo changes its configuration by itself once in                        *)
(* min_hours_between_demo_adoptions at most: the time an activation was    *)
(* committed at is the one the next cycles compare with.                   *)
AdoptionSpaced == [][\A p \in Proc : Adopting(p) => adoptedAge >= AdoptGap]_vars

(* With require_shadow_before_demo_adoption no candidate is activated      *)
(* without a shadow run of its own, whatever was lost or overwritten.      *)
ShadowedFirst ==
  [][\A p \in Proc : Adopting(p) /\ RequireShadow => shadows[active'] > 0]_vars

(* best_candidate_config_id stays in the row after an adoption.  Still, no *)
(* candidate is activated twice, which would undo a rollback or a          *)
(* rejection: an optimizer run replaces it before the next adoption is due. *)
AdoptsOnce == [][\A p \in Proc : Adopting(p) => active' \notin adopted]_vars

(* No rejected candidate is activated.  Holds as long as only the active   *)
(* configuration is rejected.                                              *)
RejectedStaysOut == [][\A p \in Proc : Adopting(p) => active' \notin rejected]_vars

(* A candidate is derived from a configuration that is not rejected.  The  *)
(* cycle reads the active one at its start and may reject it itself.       *)
BaseAccepted ==
  [][\A p \in Proc :
       At(p, "evaluated") /\ cycle'[p].at = "optimized" /\ lastRun' \notin {lastRun, NoConfig}
         => cycle[p].base \notin rejected]_vars

(* "Avoid restarting for the same candidate repeatedly": a candidate has   *)
(* one shadow run, over any number of cycles that find it the best.        *)
ShadowOnce == \A c \in Config : shadows[c] <= 1

(* Between cycles the row names the candidate of the newest optimizer run, *)
(* or none when that run found none: no candidate gets lost or outlives    *)
(* its run.                                                                *)
LatestRunKept == Quiet => row.best = lastRun

(* A block ends when its causes have left the window: mismatches block the *)
(* bot's entries for one window, the breaches this records block the cycle *)
(* for another, and neither prolongs itself.                               *)
Disturbed ==
  \/ LoseStop \/ KillSwitch
  \/ Trade /\ (mismatchAge' = 0 \/ trades' >= MaxTrades)

BlockLifts ==
  <>[][~Disturbed]_vars /\ <>[](trades < MaxTrades) => <>[](row.state \notin Blocked)
=============================================================================
