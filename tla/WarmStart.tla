------------------------------ MODULE WarmStart ------------------------------
(***************************************************************************)
(* Demo initialisation (src/src/warm_start/runner.py): the search for a    *)
(* seed configuration in batches of random candidates, its checkpoint      *)
(* file, the acceptance of a winner, its activation and registration for   *)
(* probation, the paths taken when that fails, and around it the exit code *)
(* of `demo init` (src/src/cli/stage3_commands.py) with the retry loop of  *)
(* scripts/start_demo_research.sh.                                         *)
(*                                                                         *)
(* Abstractions: a candidate is the first stage that would refuse it; the  *)
(* winner's score is left open, so any candidate that passed the           *)
(* guardrails may be the best; replaying one takes no time or one unit;    *)
(* the settings are one of Setups, whose field print is the fingerprint;   *)
(* warm_start and demo_probation are enabled, require_profitable_seed and  *)
(* the rejection on failed research validation are on, as by default.      *)
(* What the bot does with the seed is in DemoProbation.tla.                *)
(***************************************************************************)
EXTENDS Naturals

CONSTANTS
  Setups,      (* the operator's settings: see Setting                     *)
  Samples,     (* warm_start.batch_n_samples                               *)
  MaxBatches,  (* warm_start.max_batches                                   *)
  Budget,      (* warm_start.max_total_runtime_seconds, in units of time   *)
  Floor,       (* the least time granted to a batch (60 s)                 *)
  MaxKills, MaxEdits  (* bounds of the model: kills, edits of the settings *)

Setting ==
  [until : BOOLEAN,    (* search_until_viable                              *)
   fallback : BOOLEAN, (* allow_fallback_if_no_viable_seed                 *)
   safe : BOOLEAN,     (* fallback_to_safe_seed_on_failure                 *)
   require : BOOLEAN,  (* require_viable_seed_before_trading               *)
   retry : BOOLEAN,    (* retry_init_until_passable                        *)
   retries : Nat,      (* max_init_retry_attempts, 0 for no limit          *)
   print : Nat]        (* the fingerprint                                  *)

ASSUME WarmStartAssumption ==
  /\ Setups \subseteq Setting
  /\ {Samples, MaxBatches, Budget, Floor} \subseteq Nat \ {0}
  /\ {MaxKills, MaxEdits} \subseteq Nat

VARIABLES
  setup,       (* the settings in force                                    *)
  active,      (* the active configuration of the demo database            *)
  enrolled,    (* is it on probation?                                      *)
  many,        (* are there min_local_trades_to_skip_warm_start trades?    *)
  checkpoint,  (* the set of at most one readable checkpoint file          *)
  pc,          (* where the start script, demo init or the bot is          *)
  attempt,     (* DEMO_INIT_ATTEMPT                                        *)
  run,         (* demo init's local state                                  *)
  search,      (* history: what became of the batches of this search       *)
  mishap,      (* history: was the active seed's enrolment lost or cut off?*)
  kills, edits (* history: how often the model killed and edited           *)

database == <<active, enrolled, many>>
script == <<setup, attempt, kills, edits>>
vars == <<database, checkpoint, pc, run, search, mishap, script>>

(* The first stage that refuses a candidate: the guardrails, the profit    *)
(* test, the acceptance (its thresholds or the research validation), none. *)
Kind == {"guarded", "losing", "thin", "sound"}
Seed == Kind \cup {"legacy", "fallback"}
Batch == 0 .. MaxBatches - 1
Least(a, b) == IF a < b THEN a ELSE b
Most(a, b) == IF a < b THEN b ELSE a

Working == {"gather", "resume", "loop", "search", "judge", "activate", "enroll",
            "archive", "legacy", "fallback", "end"}

NewRun == [batch |-> 0, asked |-> 0, spent |-> 0, slice |-> 0, seen |-> {},
           sampled |-> 0, best |-> "none", viable |-> FALSE, success |-> FALSE,
           skipped |-> FALSE, caught |-> FALSE]

NewSearch == [done |-> {}, raised |-> {}, again |-> {}]

TypeOK ==
  /\ setup \in Setups
  /\ active \in Seed \cup {"none", "bootstrap"}
  /\ {enrolled, many, mishap} \subseteq BOOLEAN
  /\ checkpoint \subseteq [print : Nat, last : Batch, asked : Nat]
  /\ \A c, d \in checkpoint : c = d
  /\ pc \in Working \cup {"ready", "sleep", "boot", "trading", "stopped"}
  /\ {attempt, kills, edits} \subseteq Nat
  /\ run \in [batch : 0 .. MaxBatches, asked : Nat, spent : Nat, slice : Nat,
              seen : SUBSET Kind, sampled : 0 .. Samples, best : Seed \cup {"none"},
              viable : BOOLEAN, success : BOOLEAN, skipped : BOOLEAN, caught : BOOLEAN]
  /\ search \in [done : SUBSET Batch, raised : SUBSET Batch, again : SUBSET Batch]

Init ==
  /\ setup \in Setups
  /\ active = "none" /\ enrolled = FALSE /\ many = FALSE
  /\ checkpoint = {}
  /\ pc = "ready" /\ attempt = 1 /\ run = NewRun
  /\ search = NewSearch /\ mishap = FALSE /\ kills = 0 /\ edits = 0

----------------------------------------------------------------------------
(* is_warm_start_needed.  (A configuration that failed its probation is    *)
(* rejected and not active any more.)                                      *)
Needed == ~many \/ (active = "bootstrap" /\ ~enrolled)

Skip ==
  /\ pc = "ready" /\ ~Needed
  /\ pc' = "boot" /\ run' = [NewRun EXCEPT !.skipped = TRUE]
  /\ UNCHANGED <<database, checkpoint, search, mishap, script>>

Begin ==
  /\ pc = "ready" /\ Needed
  /\ pc' = "gather" /\ run' = NewRun
  /\ UNCHANGED <<database, checkpoint, search, mishap, script>>

(* Credentials, symbols and candles.                                       *)
Gather ==
  /\ pc = "gather"
  /\ IF setup.until THEN pc' = "resume" /\ UNCHANGED run
     ELSE pc' = "search" /\ run' = [run EXCEPT !.slice = Budget, !.caught = TRUE]
  /\ UNCHANGED <<database, checkpoint, search, mishap, script>>

Settle == IF setup.safe THEN "fallback" ELSE "end"

GatherFails ==
  /\ pc = "gather" /\ pc' = Settle
  /\ UNCHANGED <<database, checkpoint, run, search, mishap, script>>

(* checkpoint_matches and build_checkpoint_payload.                        *)
Matches(c) == c.print = setup.print
Payload(last, asked) == [print |-> setup.print, last |-> last, asked |-> asked]

(* Mutant: the batch after next.                                           *)
ResumeSkips ==
  /\ pc = "resume" /\ pc' = "loop"
  /\ \E c \in checkpoint :
       /\ Matches(c)
       /\ run' = [run EXCEPT !.batch = Least(c.last + 2, MaxBatches),
                             !.asked = c.asked]
  /\ UNCHANGED <<database, checkpoint, search, mishap, script>>

(* A checkpoint of the same settings is taken up: at the batch after the   *)
(* last one, except that after the first batch (index 0, "or -1") the      *)
(* first is run again.                                                     *)
Resume ==
  /\ pc = "resume" /\ pc' = "loop"
  /\ \E c \in checkpoint :
       /\ Matches(c)
       /\ run' = [run EXCEPT !.batch = IF c.last = 0 THEN 0 ELSE c.last + 1,
                             !.asked = c.asked]
  /\ UNCHANGED <<database, checkpoint, search, mishap, script>>

(* Any other is removed, and the search starts afresh.                     *)
StartFresh ==
  /\ pc = "resume" /\ pc' = "loop"
  /\ ~ \E c \in checkpoint : Matches(c)
  /\ checkpoint' = {} /\ search' = NewSearch
  /\ UNCHANGED <<database, run, mishap, script>>

----------------------------------------------------------------------------
(* One batch: run_warm_start_candidate_search.                             *)
NextBatch ==
  /\ pc = "loop" /\ run.batch < MaxBatches /\ run.spent < Budget
  /\ pc' = "search"
  /\ run' = [run EXCEPT !.slice = Most(Floor, Budget - run.spent), !.best = "none"]
  /\ UNCHANGED <<database, checkpoint, search, mishap, script>>

(* The clock of a batch is that of the whole run (start_time), its limit   *)
(* what remains of the budget.                                             *)
TimedOut == run.spent >= run.slice

Sample(found, time) ==
  /\ pc = "search" /\ run.sampled < Samples /\ ~TimedOut
  /\ run' = [run EXCEPT !.sampled = @ + 1, !.spent = @ + time, !.seen = @ \cup found]
  /\ UNCHANGED <<database, checkpoint, pc, search, mishap, script>>

(* Mutant: the best candidate, past the guardrails or not.                 *)
WinnersUnguarded ==
  IF run.seen = {} THEN {"none"} ELSE {IF k = "losing" THEN "none" ELSE k : k \in run.seen}

(* select_best_candidate among those that passed the guardrails; one that  *)
(* is not profitable is dropped, and no other takes its place.             *)
Winners ==
  LET passed == run.seen \ {"guarded"} IN
  IF passed = {} THEN {"none"} ELSE {IF k = "losing" THEN "none" ELSE k : k \in passed}

(* A batch keeps its candidates to itself.                                 *)
Forgotten == [run EXCEPT !.seen = {}, !.sampled = 0, !.slice = 0]

Complete == pc = "search" /\ (run.sampled = Samples \/ TimedOut)

(* The end of a batch: the totals, and the checkpoint, before the winner   *)
(* is looked at.                                                           *)
BatchEnds ==
  /\ Complete /\ setup.until
  /\ \E best \in Winners :
       /\ run' = [Forgotten EXCEPT !.best = best, !.asked = @ + Samples,
                                   !.batch = IF best = "none" THEN @ + 1 ELSE @]
       /\ checkpoint' = {Payload(run.batch, run.asked + Samples)}
       /\ pc' = IF best = "none" THEN "loop" ELSE "judge"
  /\ search' = [search EXCEPT !.done = @ \cup {run.batch},
                              !.again = @ \cup ({run.batch} \cap search.done)]
  /\ UNCHANGED <<database, mishap, script>>

(* Mutant: a batch that raised is tried again.                             *)
BatchRaisesRepeats ==
  /\ pc = "search" /\ setup.until
  /\ pc' = "loop"
  /\ run' = [Forgotten EXCEPT !.batch = @]
  /\ search' = [search EXCEPT !.raised = @ \cup {run.batch}]
  /\ UNCHANGED <<database, checkpoint, mishap, script>>

(* A batch that raises is given up: all its candidates count as invalid,   *)
(* and no checkpoint is written.                                           *)
BatchRaises ==
  /\ pc = "search" /\ setup.until
  /\ pc' = "loop"
  /\ run' = [Forgotten EXCEPT !.batch = @ + 1, !.asked = @ + Samples]
  /\ search' = [search EXCEPT !.raised = @ \cup {run.batch},
                              !.again = @ \cup ({run.batch} \cap search.done)]
  /\ UNCHANGED <<database, checkpoint, mishap, script>>

(* The batches or the time are used up.                                    *)
Exhausted ==
  /\ pc = "loop" /\ (run.batch = MaxBatches \/ run.spent >= Budget)
  /\ checkpoint' = {} /\ search' = NewSearch
  /\ run' = [run EXCEPT !.viable = FALSE]
  /\ pc' = IF setup.fallback THEN "fallback" ELSE "end"
  /\ UNCHANGED <<database, mishap, script>>

----------------------------------------------------------------------------
(* Without search_until_viable there is one batch and no checkpoint; an    *)
(* exception anywhere, and a batch without a winner, lead to the older     *)
(* path: one replay and the optimizer on a temporary database.  Exceptions *)
(* of that path are caught no more.                                        *)
SingleEnds ==
  /\ Complete /\ ~setup.until
  /\ \E best \in Winners :
       /\ run' = [Forgotten EXCEPT !.best = best, !.caught = (best # "none")]
       /\ pc' = IF best = "none" THEN "legacy" ELSE "judge"
  /\ UNCHANGED <<database, checkpoint, search, mishap, script>>

SingleRaises ==
  /\ run.caught /\ pc \in {"search", "judge", "activate", "fallback", "enroll", "end"}
  /\ pc' = "legacy"
  /\ mishap' = (mishap \/ pc = "enroll")
  /\ run' = [Forgotten EXCEPT !.caught = FALSE]
  /\ UNCHANGED <<database, checkpoint, search, script>>

(* Its winner need not pass the research validation.                       *)
LegacyWins ==
  /\ pc = "legacy" /\ pc' = "activate"
  /\ run' = [run EXCEPT !.best = "legacy"]
  /\ UNCHANGED <<database, checkpoint, search, mishap, script>>

LegacyFails ==
  /\ pc = "legacy" /\ pc' = Settle
  /\ run' \in {run, [run EXCEPT !.viable = FALSE]}
  /\ UNCHANGED <<database, checkpoint, search, mishap, script>>

----------------------------------------------------------------------------
(* passes_warm_start_seed_acceptance, with the research validation of the  *)
(* search.                                                                 *)
Accepts(best) == best \notin {"losing", "thin"}

Judge ==
  /\ pc = "judge"
  /\ IF Accepts(run.best)
     THEN pc' = "activate" /\ run' = [run EXCEPT !.viable = TRUE]
     ELSE IF setup.until
     THEN pc' = "loop" /\ run' = [run EXCEPT !.batch = @ + 1]
     ELSE pc' = Settle /\ UNCHANGED run
  /\ UNCHANGED <<database, checkpoint, search, mishap, script>>

(* register_config_version and activate_config_version; a new              *)
(* configuration is not on probation.                                      *)
Activates(seed) ==
  /\ active' = seed /\ enrolled' = FALSE /\ mishap' = FALSE
  /\ pc' = "enroll"
  /\ UNCHANGED <<many, checkpoint, search, script>>

Activate ==
  /\ pc = "activate" /\ Activates(run.best)
  /\ run' = [run EXCEPT !.success = TRUE, !.viable = TRUE]

(* _apply_fallback_seed.                                                   *)
Fallback ==
  /\ pc = "fallback" /\ Activates("fallback")
  /\ run' = [run EXCEPT !.best = "fallback", !.success = TRUE, !.viable = FALSE]

(* Mutant: the fallback seed is not put on probation.                      *)
EnrollViable ==
  /\ pc = "enroll"
  /\ enrolled' = (run.best # "fallback")
  /\ pc' = IF setup.until /\ run.best \in Kind THEN "archive" ELSE "end"
  /\ UNCHANGED <<active, many, checkpoint, run, search, mishap, script>>

(* _register_probation_candidate_if_enabled.  A write that fails is        *)
(* logged, and demo init goes on.                                          *)
Enroll ==
  /\ pc = "enroll"
  /\ enrolled' \in BOOLEAN /\ mishap' = ~enrolled'
  /\ pc' = IF setup.until /\ run.best \in Kind THEN "archive" ELSE "end"
  /\ UNCHANGED <<active, many, checkpoint, run, search, script>>

Archive ==
  /\ pc = "archive" /\ pc' = "end"
  /\ checkpoint' = {} /\ search' = NewSearch
  /\ UNCHANGED <<database, run, mishap, script>>

----------------------------------------------------------------------------
(* Mutant: success decides.                                                *)
ExitCodeOfSuccess == IF run.success THEN 0 ELSE 1

(* The exit code of `demo init`.                                           *)
ExitCode ==
  IF setup.require /\ ~run.viable
  THEN IF setup.retry /\ (setup.retries = 0 \/ attempt < setup.retries) THEN 21 ELSE 1
  ELSE IF run.success THEN 0 ELSE 1

End ==
  /\ pc = "end"
  /\ pc' = CASE ExitCode = 0 -> "boot" [] ExitCode = 21 -> "sleep" [] OTHER -> "stopped"
  /\ run' = NewRun
  /\ UNCHANGED <<database, checkpoint, search, mishap, script>>

(* run_init_until_success, after the sleep.                                *)
Retry ==
  /\ pc = "sleep"
  /\ IF setup.retries > 0 /\ attempt >= setup.retries
     THEN pc' = "stopped" /\ UNCHANGED attempt
     ELSE pc' = "ready" /\ attempt' = IF setup.retries = 0 THEN attempt ELSE attempt + 1
  /\ UNCHANGED <<database, checkpoint, run, search, mishap, setup, kills, edits>>

(* The bot registers its own configuration if none is active.              *)
Boot ==
  /\ pc = "boot" /\ pc' = "trading"
  /\ active' = IF active = "none" THEN "bootstrap" ELSE active
  /\ UNCHANGED <<enrolled, many, checkpoint, run, search, mishap, script>>

Trades ==
  /\ pc = "trading" /\ ~many /\ many' = TRUE
  /\ UNCHANGED <<active, enrolled, checkpoint, pc, run, search, mishap, script>>

(* Exit code 20: the candidate failed and was rejected, or a bootstrap     *)
(* configuration has no candidate.                                         *)
Reinit ==
  /\ pc = "trading" /\ (enrolled \/ active = "bootstrap")
  /\ active' = IF enrolled THEN "none" ELSE active
  /\ enrolled' = FALSE
  /\ pc' = "ready" /\ attempt' = 1
  /\ UNCHANGED <<many, checkpoint, run, search, mishap, setup, kills, edits>>

RuntimeEnds ==
  /\ pc = "trading" /\ pc' = "stopped"
  /\ UNCHANGED <<database, checkpoint, run, search, mishap, script>>

(* Demo init is killed, or an exception nobody catches ends it: between    *)
(* two of its writes, or while it writes the checkpoint, whose file then   *)
(* cannot be read.                                                         *)
Kill ==
  /\ pc \in Working /\ kills < MaxKills
  /\ kills' = kills + 1 /\ pc' = "stopped"
  /\ mishap' = (mishap \/ pc = "enroll")
  /\ checkpoint' \in {checkpoint} \cup (IF Complete /\ setup.until THEN {{}} ELSE {})
  /\ run' = NewRun
  /\ UNCHANGED <<database, search, setup, attempt, edits>>

Restart ==
  /\ pc = "stopped" /\ pc' = "ready" /\ attempt' = 1
  /\ UNCHANGED <<database, checkpoint, run, search, mishap, setup, kills, edits>>

Edit ==
  /\ pc = "stopped" /\ edits < MaxEdits
  /\ edits' = edits + 1
  /\ setup' \in Setups \ {setup}
  /\ UNCHANGED <<database, checkpoint, pc, run, search, mishap, attempt, kills>>

SearchNext ==
  \/ Resume \/ StartFresh \/ NextBatch \/ BatchEnds \/ BatchRaises \/ Exhausted
  \/ SingleEnds \/ SingleRaises \/ LegacyWins \/ LegacyFails
  \/ \E found \in {{}} \cup {{k} : k \in Kind}, time \in {0, 1} : Sample(found, time)

InitNext ==
  \/ Gather \/ GatherFails \/ SearchNext
  \/ Judge \/ Activate \/ Fallback \/ Enroll \/ Archive \/ End

Next ==
  \/ Skip \/ Begin \/ InitNext \/ Retry
  \/ Boot \/ Trades \/ Reinit \/ RuntimeEnds
  \/ Kill \/ Restart \/ Edit

Spec == Init /\ [][Next]_vars

(* Demo init goes on while it is not killed.                               *)
FairSpec == Spec /\ WF_vars(InitNext)
----------------------------------------------------------------------------
(* Safety: the seed of a search passed the guardrails, the profit test,    *)
(* the acceptance thresholds and the research validation, whichever path   *)
(* demo init took to it and whatever was resumed, raised or killed before; *)
(* otherwise it is the older path's winner or the fallback.                *)
SeedVetted == active \in Kind => active = "sound"

(* Safety: the checkpoint is true.  Every batch up to its last was run, no *)
(* other was, none but the first was run twice, and its totals are those   *)
(* of these batches (the first counts twice if it was run twice).     *)
CheckpointTrue ==
  \A c \in checkpoint :
    /\ search.done \subseteq 0 .. c.last
    /\ 0 .. c.last \subseteq search.done \cup search.raised
    /\ search.again \subseteq {0}
    /\ search.again = {} => c.asked = Samples * (c.last + 1)

(* Safety: the bot trades a seed of demo init only while it is on          *)
(* probation, unless the write that puts it there failed or was cut off    *)
(* after the activation: nothing repeats that write.                       *)
TradesOnProbation == pc = "trading" /\ active \in Seed => enrolled \/ mishap

(* Safety, require_viable_seed_before_trading, "no silent fallback": when  *)
(* demo init searched, the bot trades only with a viable seed, whatever    *)
(* the fallback settings, the retries and the exceptions were.             *)
NoSilentFallback ==
  pc = "trading" /\ setup.require /\ ~run.skipped => active \in {"sound", "legacy"}

(* Liveness: every demo init ends, whatever its batches raise.             *)
InitEnds == pc \in Working ~> pc \notin Working

(* "Total wall-clock limit across all batches": a batch is cut short only  *)
(* when the total is used up.  What remains of the total is compared with  *)
(* the time since the start, so from the second half on every batch is cut *)
(* short before its first candidate.                                       *)
CutShortAtLimit == pc = "search" /\ TimedOut => run.spent >= Budget

(* "Warm-start resumes from next batch": no batch of a search is run       *)
(* twice.                                                                  *)
ResumesAtNext == search.again = {}
=============================================================================
