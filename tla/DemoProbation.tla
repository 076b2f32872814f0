--------------------------- MODULE DemoProbation ---------------------------
(***************************************************************************)
(* The probation of a demo configuration: a seed found by demo init        *)
(* (src/src/warm_start/runner.py) is activated and put on probation, the   *)
(* bot (src/src/main.py) and the automation timer                          *)
(* (src/src/automation/orchestrator.py) judge it by its trades             *)
(* (src/src/demo_probation), and a failed one makes the bot flatten the    *)
(* account and exit with a code that makes scripts/start_demo_research.sh  *)
(* run demo init again.                                                    *)
(*                                                                         *)
(* Two threads of the bot and the timer's process judge independently.     *)
(* Each reads the tables, then updates the probation row, then rejects the *)
(* configuration: three transactions, the first long before the others.    *)
(*                                                                         *)
(* Abstractions: the figures a verdict is computed from are one value; the *)
(* account's exposure is that of one position; one activation is one step  *)
(* (its transactions are in ConfigRegistry.tla); an identifier nothing     *)
(* refers to any more is used again.  stop_demo_on_failure,                *)
(* auto_reject_on_failure and the flatten options are on, as by default.   *)
(***************************************************************************)
EXTENDS Naturals, FiniteSets

CONSTANTS
  Config, NoConfig,
  Stream,      (* does the private stream report trades of the bot's own?  *)
  Timer,       (* is the automation timer installed?                       *)
  Adopt,       (* config.automation.auto_adopt_demo_candidates             *)
  AutoReinit,  (* config.demo_probation.auto_reinit_after_failure          *)
  RequireFlat, (* config.demo_probation.require_flat_before_reinit         *)
  Crashes      (* may demo init or the bot be killed?                      *)

ASSUME ProbationAssumption ==
  /\ IsFiniteSet(Config) /\ NoConfig \notin Config
  /\ {Stream, Timer, Adopt, AutoReinit, RequireFlat, Crashes} \subseteq BOOLEAN

VARIABLES
  active,     (* config_versions: the active row                           *)
  source,     (* config_versions.source of each row, "none" if no row      *)
  rejected,   (* config_versions with status "rejected"                    *)
  row,        (* demo_probation.lifecycle_state, "none" if no row          *)
  evidence,   (* what the tables say since each row's start                *)
  killWindow, (* is there a kill-switch event in the readiness window?     *)
  blocked,    (* does automation_state.state start with "BLOCKED_"?        *)
  best,       (* automation_state.best_candidate_config_id                 *)
  many,       (* are there enough trades to skip the warm start?           *)
  phase,      (* what the start script is doing                            *)
  cfg,        (* the configuration demo init or the bot works with         *)
  running,    (* TradingBot.running                                        *)
  reinit,     (* TradingBot._reinit_requested                              *)
  exposure,   (* the position at the exchange                              *)
  job         (* where each judge is                                       *)

registry == <<active, source, rejected>>
records == <<row, evidence, killWindow, blocked, best, many>>
process == <<phase, cfg, running, reinit>>
vars == <<registry, records, process, exposure, job>>

Judge == {"loop", "stream", "timer"}
Bot == {"loop", "stream"}
MaybeConfig == Config \cup {NoConfig}
At == {"idle", "top", "guard", "enter", "kill", "apply", "reject",
       "flatten", "confirm", "exit", "end"}
NoJob == [at |-> "idle", cfg |-> NoConfig, verdict |-> "none"]

TypeOK ==
  /\ active \in MaybeConfig /\ cfg \in MaybeConfig /\ best \in MaybeConfig
  /\ source \in [Config -> {"none", "bootstrap", "warm_start", "optimizer"}]
  /\ rejected \subseteq Config
  /\ row \in [Config -> {"none", "DEMO_PROBATION", "PASSED", "FAILED"}]
  /\ evidence \in [Config -> {"none", "poor", "good", "damning"}]
  /\ {killWindow, blocked, many, running, reinit} \subseteq BOOLEAN
  /\ phase \in {"init", "seeded", "fallback", "boot", "running", "stopped"}
  /\ exposure \in {"flat", "long", "short"}
  /\ job \in [Judge -> [at : At, cfg : MaybeConfig, verdict : {"none", "PASSED", "FAILED"}]]

Init ==
  /\ active = NoConfig /\ rejected = {}
  /\ source = [c \in Config |-> "none"]
  /\ row = [c \in Config |-> "none"] /\ evidence = [c \in Config |-> "none"]
  /\ killWindow = FALSE /\ blocked = FALSE /\ best = NoConfig /\ many = FALSE
  /\ phase = "init" /\ cfg = NoConfig /\ running = FALSE /\ reinit = FALSE
  /\ exposure = "flat"
  /\ job = [t \in Judge |-> NoJob]

----------------------------------------------------------------------------
(* get_current_probation_status: the active configuration on probation.    *)
Candidate ==
  IF active # NoConfig /\ row[active] = "DEMO_PROBATION" THEN active ELSE NoConfig

(* evaluate_probation.  Damning is a kill-switch event or a burn-in breach *)
(* since the row's start, poor a losing streak, a stall or a failed timer  *)
(* evaluation, good a passed one.                                          *)
Verdict ==
  IF Candidate = NoConfig THEN "none"
  ELSE IF blocked \/ evidence[Candidate] \in {"damning", "poor"} THEN "FAILED"
  ELSE IF evidence[Candidate] = "good" THEN "PASSED"
  ELSE "none"

Goto(t, at) == job' = [job EXCEPT ![t] = [NoJob EXCEPT !.at = at]]
Judged(t) ==
  job' = [job EXCEPT ![t] = [at |-> "apply", cfg |-> active, verdict |-> Verdict]]

Fresh == Config \ ({active, cfg, best} \cup {job[t].cfg : t \in Judge})

(* A new, active row of config_versions.  Nothing is on record about it,   *)
(* and what is on record about those nothing refers to is forgotten.       *)
Cleared(f) == [c \in Config |-> IF c \in Fresh THEN "none" ELSE f[c]]

NewConfig(c, from) ==
  /\ c \in Fresh
  /\ source' = [Cleared(source) EXCEPT ![c] = from]
  /\ rejected' = rejected \ Fresh
  /\ row' = Cleared(row) /\ evidence' = Cleared(evidence)
  /\ active' = c

----------------------------------------------------------------------------
(* Demo init.                                                              *)
(* Mutant: a bootstrap configuration without a candidate counts as fine.   *)
NeededUnlessFailed == ~many \/ (active # NoConfig /\ row[active] = "FAILED")

(* is_warm_start_needed.                                                   *)
Needed ==
  \/ ~many
  \/ active # NoConfig /\ row[active] = "FAILED"
  \/ active # NoConfig /\ Candidate = NoConfig /\ source[active] = "bootstrap"

InitSkip ==
  /\ phase = "init" /\ ~Needed
  /\ phase' = "boot"
  /\ UNCHANGED <<registry, records, cfg, running, reinit, exposure, job>>

(* A passable seed, or the fallback seed, is registered and activated ...  *)
InitSeed(c, found) ==
  /\ phase = "init" /\ Needed
  /\ NewConfig(c, "warm_start")
  /\ cfg' = c
  /\ phase' = found
  /\ UNCHANGED <<killWindow, blocked, best, many, running, reinit, exposure, job>>

(* ... and then put on probation.  After a fallback, demo init reports     *)
(* success or, with require_viable_seed_before_trading, is retried.        *)
InitRegister ==
  /\ phase \in {"seeded", "fallback"}
  /\ row' = [row EXCEPT ![cfg] = "DEMO_PROBATION"]
  /\ evidence' = [evidence EXCEPT ![cfg] = "none"]
  /\ cfg' = NoConfig
  /\ phase' \in (IF phase = "seeded" THEN {"boot"} ELSE {"boot", "init"})
  /\ UNCHANGED <<registry, killWindow, blocked, best, many, running, reinit,
                 exposure, job>>

(* No seed at all, and the script sleeps and retries, or gives up; or the  *)
(* bot cannot start (_boot).                                               *)
InitFails ==
  /\ \/ phase = "init" /\ Needed
     \/ phase = "boot"
  /\ phase' = "stopped"
  /\ UNCHANGED <<registry, records, cfg, running, reinit, exposure, job>>

(* _init_components and the start of run: with no active configuration the *)
(* bot registers its own as active.                                        *)
Boot ==
  /\ phase = "boot"
  /\ phase' = "running" /\ running' = TRUE /\ reinit' = FALSE
  /\ Goto("loop", "top")
  /\ IF active = NoConfig
     THEN \E c \in Fresh : NewConfig(c, "bootstrap") /\ cfg' = c
     ELSE cfg' = active /\ UNCHANGED <<registry, row, evidence>>
  /\ UNCHANGED <<killWindow, blocked, best, many, exposure>>

----------------------------------------------------------------------------
(* The scoring loop judges at the top of every cycle ...                   *)
LoopCheck ==
  /\ running /\ job["loop"].at = "top"
  /\ IF Verdict = "FAILED" THEN Judged("loop") ELSE Goto("loop", "guard")
  /\ UNCHANGED <<registry, records, process, exposure>>

(* _enforce_demo_probation_guard's condition.                              *)
(* Mutant: the guard looks at the probation row only.                      *)
GuardTriggersNever == Candidate = NoConfig /\ row[cfg] = "FAILED" /\ source[cfg] = "bootstrap"

GuardTriggers == Candidate = NoConfig /\ source[cfg] = "bootstrap"

(* ... stops if it trades a bootstrap configuration with no candidate ...  *)
LoopGuard ==
  /\ job["loop"].at = "guard" /\ GuardTriggers
  /\ Goto("loop", IF AutoReinit THEN "flatten" ELSE "exit")
  /\ IF AutoReinit THEN UNCHANGED <<running, reinit>>
                   ELSE running' = FALSE /\ reinit' = FALSE
  /\ UNCHANGED <<registry, records, phase, cfg, exposure>>

(* ... and otherwise places the orders of the cycle, unless a daily limit  *)
(* is reached; that is recorded, judged and always ends the loop.          *)
LoopGoesOn ==
  /\ job["loop"].at = "guard" /\ ~GuardTriggers
  /\ Goto("loop", "enter")
  /\ UNCHANGED <<registry, records, process, exposure>>

LoopKillSwitch ==
  /\ job["loop"].at = "guard" /\ ~GuardTriggers
  /\ killWindow' = TRUE
  /\ evidence' = [c \in Config |-> IF row[c] = "DEMO_PROBATION" THEN "damning" ELSE evidence[c]]
  /\ Goto("loop", "kill")
  /\ UNCHANGED <<registry, row, blocked, best, many, process, exposure>>

LoopKillCheck ==
  /\ job["loop"].at = "kill"
  /\ IF Verdict = "FAILED" THEN Judged("loop") ELSE Goto("loop", "flatten")
  /\ UNCHANGED <<registry, records, process, exposure>>

LoopEnters ==
  /\ job["loop"].at = "enter"
  /\ exposure = "flat" /\ exposure' \in {"long", "short"}
  /\ UNCHANGED <<registry, records, process, job>>

LoopCycleEnds ==
  /\ job["loop"].at = "enter"
  /\ Goto("loop", "top")
  /\ UNCHANGED <<registry, records, process, exposure>>

(* _on_execution judges after a trade of the bot's own.                    *)
StreamCheck ==
  /\ Stream /\ phase = "running"
  /\ job["stream"].at = "idle"
  /\ Verdict = "FAILED" /\ Judged("stream")
  /\ UNCHANGED <<registry, records, process, exposure>>

----------------------------------------------------------------------------
(* Mutant: the state is written as the evaluator's word for the verdict.   *)
ApplyMisspelt(t) ==
  /\ job[t].at = "apply"
  /\ row' = [row EXCEPT ![job[t].cfg] = IF job[t].verdict = "FAILED" THEN "fail" ELSE "pass"]
  /\ job' = [job EXCEPT ![t].at = IF job[t].verdict = "FAILED" THEN "reject" ELSE "end"]
  /\ UNCHANGED <<registry, evidence, killWindow, blocked, best, many, process,
                 exposure>>

(* apply_probation_result: the row of the candidate that was judged is     *)
(* updated, whatever it says by now ...                                    *)
Apply(t) ==
  /\ job[t].at = "apply"
  /\ row' = [row EXCEPT ![job[t].cfg] = job[t].verdict]
  /\ job' = [job EXCEPT ![t].at = IF job[t].verdict = "FAILED"
                                  THEN "reject" ELSE "end"]
  /\ UNCHANGED <<registry, evidence, killWindow, blocked, best, many, process,
                 exposure>>

(* Mutant: the stream's callback rejects the candidate and returns.        *)
RejectGoesOn(t) ==
  /\ job[t].at = "reject"
  /\ rejected' = rejected \cup {job[t].cfg}
  /\ active' = IF active = job[t].cfg THEN NoConfig ELSE active
  /\ Goto(t, IF t = "timer" THEN "end" ELSE IF t = "stream" THEN "idle" ELSE "flatten")
  /\ UNCHANGED <<source, records, process, exposure>>

(* ... and a failed one is rejected, active or not.                        *)
Reject(t) ==
  /\ job[t].at = "reject"
  /\ rejected' = rejected \cup {job[t].cfg}
  /\ active' = IF active = job[t].cfg THEN NoConfig ELSE active
  /\ Goto(t, IF t = "timer" THEN "end" ELSE "flatten")
  /\ UNCHANGED <<source, records, process, exposure>>

(* _stop_on_probation_failure: close the account's positions.  A position  *)
(* is closed with a reduce-only sell, so a short one stays.                *)
Flatten(t) ==
  /\ job[t].at = "flatten"
  /\ exposure' \in {exposure} \cup (IF exposure = "long" THEN {"flat"} ELSE {})
  /\ Goto(t, "confirm")
  /\ UNCHANGED <<registry, records, process>>

Stops(t, again) ==
  /\ reinit' = again /\ running' = FALSE
  /\ Goto(t, IF t = "loop" THEN "exit" ELSE "idle")
  /\ UNCHANGED <<registry, records, phase, cfg, exposure>>

(* The account is seen to be flat before the timeout ...                   *)
Confirm(t) ==
  /\ job[t].at = "confirm" /\ exposure = "flat"
  /\ Stops(t, AutoReinit)

(* Mutant: after the timeout the re-initialisation is requested anyway.    *)
GiveUpRequests(t) ==
  /\ job[t].at = "confirm" /\ exposure # "flat"
  /\ Stops(t, AutoReinit)

(* ... or not.                                                             *)
GiveUp(t) ==
  /\ job[t].at = "confirm" /\ exposure # "flat"
  /\ Stops(t, AutoReinit /\ ~RequireFlat)

(* The process ends with its loop: with code 20 the script runs demo init, *)
(* otherwise it ends too.                                                  *)
Leave(next) ==
  /\ phase' = next /\ cfg' = NoConfig
  /\ running' = FALSE /\ reinit' = FALSE
  /\ job' = [job EXCEPT !["loop"] = NoJob, !["stream"] = NoJob]
  /\ UNCHANGED <<registry, records, exposure>>

Exit ==
  /\ \/ job["loop"].at = "exit"
     \/ job["loop"].at = "top" /\ ~running
  /\ Leave(IF reinit THEN "init" ELSE "stopped")

(* A signal, a crash, and the operator's next start of the script.         *)
Signal ==
  /\ phase = "running" /\ running
  /\ running' = FALSE
  /\ UNCHANGED <<registry, records, phase, cfg, reinit, exposure, job>>

Crash == Crashes /\ phase # "stopped" /\ Leave("stopped")

Restart ==
  /\ phase = "stopped" /\ phase' = "init"
  /\ UNCHANGED <<registry, records, cfg, running, reinit, exposure, job>>

----------------------------------------------------------------------------
(* One cycle of run_demo_automation_cycle.                                 *)
TimerStart ==
  /\ Timer /\ job["timer"].at = "idle"
  /\ IF killWindow
     THEN blocked' = TRUE /\ UNCHANGED job
     ELSE /\ IF Verdict = "none" THEN Goto("timer", "end") ELSE Judged("timer")
          /\ UNCHANGED blocked
  /\ UNCHANGED <<registry, row, evidence, killWindow, best, many, process, exposure>>

(* Burn-in breaches or bad health in the window block; otherwise the cycle *)
(* goes on to the optimizer, and may adopt its candidate.                  *)
TimerEnd ==
  /\ job["timer"].at = "end"
  /\ blocked' \in BOOLEAN
  /\ Goto("timer", "idle")
  /\ UNCHANGED <<registry, row, evidence, killWindow, best, many, process, exposure>>

TimerAdopts(c) ==
  /\ Adopt /\ many /\ job["timer"].at = "end"
  /\ IF c = best
     THEN active' = c /\ rejected' = rejected \ {c} /\ UNCHANGED <<source, row, evidence>>
     ELSE NewConfig(c, "optimizer")
  /\ best' = c /\ blocked' = FALSE
  /\ Goto("timer", "idle")
  /\ UNCHANGED <<killWindow, many, process, exposure>>

----------------------------------------------------------------------------
(* Trades of the running configuration, breaches of its limits included    *)
(* (those of one that is not on probation are never judged); positions     *)
(* that end by themselves; time that passes.                               *)
Trade(what) ==
  /\ phase = "running"
  /\ row[cfg] = "DEMO_PROBATION" /\ evidence[cfg] # "damning"
  /\ evidence' = [evidence EXCEPT ![cfg] = what]
  /\ many' \in {many, TRUE}
  /\ UNCHANGED <<registry, row, killWindow, blocked, best, process, exposure, job>>

PositionEnds ==
  /\ exposure # "flat" /\ exposure' = "flat"
  /\ UNCHANGED <<registry, records, process, job>>

WindowPasses ==
  /\ killWindow /\ killWindow' = FALSE
  /\ UNCHANGED <<registry, row, evidence, blocked, best, many, process, exposure, job>>

InitNext ==
  \/ InitSkip \/ InitRegister \/ InitFails
  \/ \E c \in Config, found \in {"seeded", "fallback"} : InitSeed(c, found)

LoopNext ==
  \/ LoopCheck \/ LoopGuard \/ LoopGoesOn \/ LoopKillSwitch \/ LoopKillCheck
  \/ LoopCycleEnds \/ Exit

StopNext(t) == Apply(t) \/ Reject(t) \/ Flatten(t) \/ Confirm(t) \/ GiveUp(t)

TimerNext == TimerStart \/ TimerEnd \/ \E c \in Config : TimerAdopts(c)

Next ==
  \/ InitNext \/ Boot
  \/ LoopNext \/ LoopEnters \/ StreamCheck
  \/ \E t \in Judge : StopNext(t)
  \/ TimerNext
  \/ \E what \in {"poor", "good", "damning"} : Trade(what)
  \/ PositionEnds \/ WindowPasses \/ Signal \/ Crash \/ Restart

Spec == Init /\ [][Next]_vars

(* The bot's threads and the script go on, and the search for a seed       *)
(* succeeds if it is repeated for ever.  The operator and the market need  *)
(* not do anything.                                                        *)
FairSpec ==
  /\ Spec
  /\ WF_vars(InitSkip) /\ WF_vars(InitRegister) /\ WF_vars(Boot)
  /\ SF_vars(\E c \in Config : InitSeed(c, "seeded"))
  /\ WF_vars(LoopNext)
  /\ \A t \in Bot : WF_vars(StopNext(t))

----------------------------------------------------------------------------
(* Safety, "must pass real Demo validation": no order is placed under a    *)
(* configuration that was never put on probation.                          *)
NeverUnvetted == job["loop"].at = "enter" => row[cfg] # "none"

(* Safety: a configuration recorded as having passed its probation is not  *)
(* one that has been rejected for failing it.                              *)
PassedNotRejected == \A c \in rejected : row[c] # "PASSED"

(* Action property, "do not signal auto-reinit until account is flat": a   *)
(* process that ends with the code for a re-initialisation leaves no       *)
(* position behind.                                                        *)
ReinitOnlyFlat ==
  [][phase = "running" /\ phase' = "init" /\ RequireFlat => exposure = "flat"]_vars

(* Action property, "from real Demo trades and events": whoever judges a   *)
(* candidate to have failed has seen something that happened since its     *)
(* probation started.                                                      *)
OwnEvidence ==
  [][\A t \in Judge :
        job[t].at # "apply" /\ job'[t].at = "apply" /\ job'[t].verdict = "FAILED"
           => evidence[job'[t].cfg] \in {"poor", "damning"}]_vars

(* Liveness, "Failure action: stop Demo runtime on probation failure": a   *)
(* bot whose configuration has failed its probation ends.                  *)
FailureStopsRuntime ==
  (phase = "running" /\ row[cfg] = "FAILED") ~> phase # "running"

(* Liveness: demo init leads to a bot that trades a configuration on       *)
(* probation, through a bot that stops again at once if need be, unless    *)
(* something ends the script.                                              *)
InitLeadsToCandidate ==
  (phase = "init")
     ~> (phase = "stopped" \/ (phase = "running" /\ row[cfg] = "DEMO_PROBATION"))
============================================================================
