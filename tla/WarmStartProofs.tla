--------------------------- MODULE WarmStartProofs ---------------------------
(***************************************************************************)
(* Theorems about WarmStart, for every choice of the settings, of the      *)
(* sizes of the search and of the model's bounds, and about the backtest   *)
(* of Backtest, for every series of bars, every archive of candles and     *)
(* every ledger of trades.                                                 *)
(***************************************************************************)
EXTENDS MCWarmStart, FiniteSetTheorems, WellFoundedInduction, TLAPS

Runs == [batch : 0 .. MaxBatches, asked : Nat, spent : Nat, slice : Nat,
         seen : SUBSET Kind, sampled : 0 .. Samples, best : Seed \cup {"none"},
         viable : BOOLEAN, success : BOOLEAN, skipped : BOOLEAN, caught : BOOLEAN]
Searches == [done : SUBSET Batch, raised : SUBSET Batch, again : SUBSET Batch]
Files == [print : Nat, last : Batch, asked : Nat]

(* TypeOK, one part for each kind of variable.                             *)
Scalars ==
  /\ setup \in Setups
  /\ active \in Seed \cup {"none", "bootstrap"}
  /\ enrolled \in BOOLEAN /\ many \in BOOLEAN /\ mishap \in BOOLEAN
  /\ pc \in Working \cup {"ready", "sleep", "boot", "trading", "stopped"}
  /\ attempt \in Nat /\ kills \in Nat /\ edits \in Nat

OneFile == checkpoint \subseteq Files /\ \A c, d \in checkpoint : c = d

InBatch == pc \in {"gather", "search", "judge"} => run.batch \in Batch

TypeInv == Scalars /\ OneFile /\ run \in Runs /\ search \in Searches /\ InBatch

(* What a winner that is judged, and one that is activated, can be.        *)
Filtered ==
  /\ pc = "judge" => run.best \in {"thin", "sound"}
  /\ pc = "activate" => run.best \in {"sound", "legacy"}
  /\ SeedVetted

(* Before its first activation a run has not succeeded; success with a     *)
(* viable seed means that this seed is active.                             *)
Reported ==
  /\ pc \notin {"activate", "enroll", "archive", "legacy", "fallback", "end"} => ~run.success
  /\ run.success /\ run.viable => active \in {"sound", "legacy"}
  /\ NoSilentFallback
  /\ pc = "boot" /\ setup.require /\ ~run.skipped => active \in {"sound", "legacy"}

(* An activation is followed by the registration.                          *)
Registered == active \in Seed /\ pc # "enroll" => enrolled \/ mishap

----------------------------------------------------------------------------
LEMMA Constants ==
  /\ Setups \subseteq Setting
  /\ Samples \in Nat /\ Samples > 0 /\ MaxBatches \in Nat /\ MaxBatches > 0
  /\ Budget \in Nat /\ Budget > 0 /\ Floor \in Nat /\ Floor > 0
BY WarmStartAssumption

LEMMA SettingFields ==
  ASSUME NEW s \in Setups
  PROVE  /\ s.until \in BOOLEAN /\ s.fallback \in BOOLEAN /\ s.safe \in BOOLEAN
         /\ s.require \in BOOLEAN /\ s.retry \in BOOLEAN
         /\ s.retries \in Nat /\ s.print \in Nat
BY Constants DEF Setting

LEMMA WinnersAre ==
  ASSUME run \in Runs
  PROVE  Winners \subseteq {"none", "thin", "sound"}
BY DEF Runs, Winners, Kind

LEMMA NewRunType == NewRun \in Runs
BY Constants DEF NewRun, Runs

LEMMA ForgottenType ==
  ASSUME run \in Runs
  PROVE  /\ Forgotten \in Runs
         /\ Forgotten.batch = run.batch /\ Forgotten.asked = run.asked
         /\ Forgotten.best = run.best /\ Forgotten.success = run.success
         /\ Forgotten.viable = run.viable /\ Forgotten.skipped = run.skipped
<1>1. DOMAIN run = {"batch", "asked", "spent", "slice", "seen", "sampled", "best",
                    "viable", "success", "skipped", "caught"}
  BY DEF Runs
<1>2. 0 \in 0 .. Samples /\ 0 \in Nat /\ {} \in SUBSET Kind
  BY Constants
<1>3. Forgotten \in Runs
  BY <1>2 DEF Forgotten, Runs
<1> QED
  BY <1>1, <1>3 DEF Forgotten

LEMMA PartsAreType == TypeInv => TypeOK
BY DEF TypeInv, Scalars, OneFile, Runs, Searches, Files, TypeOK

LEMMA InitType == Init => TypeInv
<1> SUFFICES ASSUME Init PROVE TypeInv
  OBVIOUS
<1>1. Scalars /\ OneFile /\ InBatch
  BY DEF Init, Scalars, OneFile, InBatch
<1>2. run \in Runs
  BY NewRunType DEF Init
<1>3. search \in Searches
  BY DEF Init, NewSearch, Searches
<1> QED
  BY <1>1, <1>2, <1>3 DEF TypeInv

LEMMA ScalarsStep == TypeInv /\ [Next]_vars => Scalars'
<1> SUFFICES ASSUME TypeInv, [Next]_vars PROVE Scalars'
  OBVIOUS
<1> USE DEF TypeInv, Scalars, database, script
<1>0. CASE UNCHANGED vars
  BY <1>0 DEF vars
<1>1. CASE Skip \/ Begin \/ Gather \/ GatherFails \/ Resume \/ StartFresh
  BY <1>1 DEF Skip, Begin, Gather, GatherFails, Settle, Resume, StartFresh, Working
<1>2. CASE \/ NextBatch \/ BatchEnds \/ BatchRaises \/ Exhausted
           \/ \E found \in {{}} \cup {{k} : k \in Kind}, time \in {0, 1} : Sample(found, time)
  BY <1>2 DEF NextBatch, Sample, BatchEnds, BatchRaises, Exhausted, Working
<1>3. CASE SingleEnds \/ SingleRaises \/ LegacyWins \/ LegacyFails
  BY <1>3 DEF SingleEnds, SingleRaises, LegacyWins, LegacyFails, Settle, Working
<1>4. CASE Judge \/ Enroll \/ Archive \/ End
  BY <1>4 DEF Judge, Settle, Enroll, Archive, End, Working
<1>5. CASE Activate \/ Fallback
  BY <1>5 DEF Activate, Fallback, Activates, Runs, Seed, Working
<1>6. CASE Retry
  <2>1. attempt' \in Nat
    BY <1>6 DEF Retry
  <2> QED
    BY <1>6, <2>1 DEF Retry
<1>7. CASE Boot \/ Trades \/ Reinit \/ RuntimeEnds
  <2>1. attempt' \in Nat
    BY <1>7 DEF Boot, Trades, Reinit, RuntimeEnds
  <2>2. active' \in Seed \cup {"none", "bootstrap"}
    BY <1>7 DEF Boot, Trades, Reinit, RuntimeEnds
  <2>3. CASE Boot \/ Trades
    BY <2>1, <2>2, <2>3 DEF Boot, Trades
  <2>4. CASE Reinit \/ RuntimeEnds
    BY <2>1, <2>2, <2>4 DEF Reinit, RuntimeEnds
  <2> QED
    BY <1>7, <2>3, <2>4
<1>8. CASE Kill
  <2>1. kills' \in Nat
    BY <1>8 DEF Kill
  <2> QED
    BY <1>8, <2>1 DEF Kill
<1>9. CASE Restart \/ Edit
  <2>1. edits' \in Nat /\ attempt' \in Nat
    BY <1>9 DEF Restart, Edit
  <2> QED
    BY <1>9, <2>1 DEF Restart, Edit
<1> QED
  BY <1>0, <1>1, <1>2, <1>3, <1>4, <1>5, <1>6, <1>7, <1>8, <1>9 DEF Next, InitNext, SearchNext

LEMMA FileStep == TypeInv /\ [Next]_vars => OneFile'
<1> SUFFICES ASSUME TypeInv, [Next]_vars PROVE OneFile'
  OBVIOUS
<1> USE DEF TypeInv, OneFile
<1>0. CASE UNCHANGED checkpoint
  BY <1>0
<1>1. CASE StartFresh \/ Exhausted \/ Archive
  BY <1>1 DEF StartFresh, Exhausted, Archive
<1>2. CASE BatchEnds
  <2>1. setup.print \in Nat
    BY SettingFields DEF Scalars
  <2>2. run.batch \in Batch /\ run.asked + Samples \in Nat
    BY <1>2, Constants DEF BatchEnds, Complete, InBatch, Runs
  <2>3. Payload(run.batch, run.asked + Samples) \in Files
    BY <2>1, <2>2 DEF Payload, Files
  <2> QED
    BY <1>2, <2>3 DEF BatchEnds
<1>3. CASE Kill
  BY <1>3, SMTT(30) DEF Kill
<1>4. CASE ~(UNCHANGED checkpoint) /\ ~(StartFresh \/ Exhausted \/ Archive \/ BatchEnds \/ Kill)
  BY <1>4 DEF vars, Next, InitNext, SearchNext, Skip, Begin, Gather, GatherFails, Resume,
     NextBatch, Sample, BatchRaises, SingleEnds, SingleRaises, LegacyWins, LegacyFails,
     Judge, Activate, Fallback, Activates, Enroll, End, Retry, Boot, Trades, Reinit,
     RuntimeEnds, Restart, Edit
<1> QED
  BY <1>0, <1>1, <1>2, <1>3, <1>4

LEMMA SearchStep == TypeInv /\ [Next]_vars => search' \in Searches
<1> SUFFICES ASSUME TypeInv, [Next]_vars PROVE search' \in Searches
  OBVIOUS
<1> USE DEF TypeInv, Searches
<1>0. CASE UNCHANGED search
  BY <1>0
<1>1. CASE StartFresh \/ Exhausted \/ Archive
  BY <1>1 DEF StartFresh, Exhausted, Archive, NewSearch
<1>2. CASE BatchEnds \/ BatchRaises
  <2>1. run.batch \in Batch
    BY <1>2 DEF BatchEnds, BatchRaises, Complete, InBatch
  <2>2. CASE BatchEnds
    BY <2>1, <2>2 DEF BatchEnds
  <2>3. CASE BatchRaises
    BY <2>1, <2>3 DEF BatchRaises
  <2> QED
    BY <1>2, <2>2, <2>3
<1>3. CASE ~(UNCHANGED search) /\ ~(StartFresh \/ Exhausted \/ Archive \/ BatchEnds \/ BatchRaises)
  BY <1>3 DEF vars, Next, InitNext, SearchNext, Skip, Begin, Gather, GatherFails, Resume,
     NextBatch, Sample, SingleEnds, SingleRaises, LegacyWins, LegacyFails,
     Judge, Activate, Fallback, Activates, Enroll, End, Retry, Boot, Trades, Reinit,
     RuntimeEnds, Kill, Restart, Edit
<1> QED
  BY <1>0, <1>1, <1>2, <1>3

LEMMA RunStep == TypeInv /\ [Next]_vars => run' \in Runs
<1> SUFFICES ASSUME TypeInv, [Next]_vars PROVE run' \in Runs
  OBVIOUS
<1> USE DEF TypeInv
<1>f. /\ Forgotten \in Runs
      /\ Forgotten.batch = run.batch /\ Forgotten.asked = run.asked
  BY ForgottenType
<1>0. CASE UNCHANGED run
  BY <1>0
<1>1. CASE Skip
  BY <1>1, NewRunType DEF Skip, Runs
<1>2. CASE Begin \/ End \/ Kill
  BY <1>2, NewRunType DEF Begin, End, Kill
<1>3. CASE Gather
  BY <1>3, Constants DEF Gather, Runs
<1>4. CASE Resume
  <2>1. PICK c \in checkpoint :
          run' = [run EXCEPT !.batch = IF c.last = 0 THEN 0 ELSE c.last + 1, !.asked = c.asked]
    BY <1>4 DEF Resume
  <2>2. c.last \in 0 .. MaxBatches - 1 /\ c.asked \in Nat
    BY DEF OneFile, Files, Batch
  <2>3. (IF c.last = 0 THEN 0 ELSE c.last + 1) \in 0 .. MaxBatches
    BY <2>2, Constants
  <2> QED
    BY <2>1, <2>2, <2>3 DEF Runs
<1>5. CASE NextBatch
  <2>1. run.spent \in Nat /\ run.spent < Budget
    BY <1>5 DEF NextBatch, Runs
  <2>2. Most(Floor, Budget - run.spent) \in Nat
    BY <2>1, Constants DEF Most
  <2>3. "none" \in Seed \cup {"none"}
    OBVIOUS
  <2> QED
    BY <1>5, <2>2, <2>3 DEF NextBatch, Runs
<1>6. ASSUME NEW found \in {{}} \cup {{k} : k \in Kind}, NEW time \in {0, 1},
             Sample(found, time)
      PROVE  run' \in Runs
  <2>1. run.sampled + 1 \in 0 .. Samples
    BY <1>6, Constants DEF Sample, Runs
  <2>2. run.spent + time \in Nat
    BY DEF Runs
  <2>3. run.seen \cup found \in SUBSET Kind
    BY DEF Runs
  <2> QED
    BY <1>6, <2>1, <2>2, <2>3 DEF Sample, Runs
<1>7. CASE BatchEnds
  <2>1. PICK best \in Winners :
          run' = [Forgotten EXCEPT !.best = best, !.asked = @ + Samples,
                                   !.batch = IF best = "none" THEN @ + 1 ELSE @]
    BY <1>7 DEF BatchEnds
  <2>2. best \in Seed \cup {"none"}
    BY <2>1, WinnersAre DEF Seed, Kind
  <2>3. run.asked + Samples \in Nat
    BY Constants DEF Runs
  <2>4. run.batch \in 0 .. MaxBatches /\ run.batch + 1 \in 0 .. MaxBatches
    BY <1>7, Constants DEF BatchEnds, Complete, InBatch, Batch
  <2> QED
    BY <1>f, <2>1, <2>2, <2>3, <2>4 DEF Runs
<1>8. CASE BatchRaises
  <2>1. run.asked + Samples \in Nat
    BY Constants DEF Runs
  <2>2. run.batch + 1 \in 0 .. MaxBatches
    BY <1>8, Constants DEF BatchRaises, InBatch, Batch
  <2> QED
    BY <1>8, <1>f, <2>1, <2>2 DEF BatchRaises, Runs
<1>9. CASE SingleEnds
  <2>1. PICK best \in Winners :
          run' = [Forgotten EXCEPT !.best = best, !.caught = (best # "none")]
    BY <1>9 DEF SingleEnds
  <2>2. best \in Seed \cup {"none"}
    BY <2>1, WinnersAre DEF Seed, Kind
  <2> QED
    BY <1>f, <2>1, <2>2 DEF Runs
<1>10. CASE SingleRaises
  BY <1>10, <1>f DEF SingleRaises, Runs
<1>11. CASE Judge
  <2>1. CASE run' = run
    BY <2>1
  <2>2. CASE run' = [run EXCEPT !.viable = TRUE]
    BY <2>2 DEF Runs
  <2>3. CASE run' = [run EXCEPT !.batch = @ + 1]
    <3>1. run.batch + 1 \in 0 .. MaxBatches
      BY <1>11, Constants DEF Judge, InBatch, Batch
    <3> QED
      BY <2>3, <3>1 DEF Runs
  <2> QED
    BY <1>11, <2>1, <2>2, <2>3 DEF Judge
<1>12. CASE Exhausted \/ LegacyWins \/ LegacyFails \/ Activate \/ Fallback
  BY <1>12 DEF Exhausted, LegacyWins, LegacyFails, Activate, Fallback, Runs, Seed
<1>13. CASE \/ GatherFails \/ StartFresh \/ Enroll \/ Archive \/ Retry \/ Boot \/ Trades
            \/ Reinit \/ RuntimeEnds \/ Restart \/ Edit
  BY <1>13 DEF GatherFails, StartFresh, Enroll, Archive, Retry, Boot, Trades, Reinit,
     RuntimeEnds, Restart, Edit
<1> QED
  BY <1>0, <1>1, <1>2, <1>3, <1>4, <1>5, <1>6, <1>7, <1>8, <1>9, <1>10, <1>11, <1>12, <1>13
  DEF vars, Next, InitNext, SearchNext

(* A batch is entered with batches left, and leaves the number alone until *)
(* its winner is judged.                                                   *)
LEMMA InBatchStep == TypeInv /\ [Next]_vars => InBatch'
<1> SUFFICES ASSUME TypeInv, [Next]_vars PROVE InBatch'
  OBVIOUS
<1> USE DEF TypeInv, InBatch
<1>0. CASE pc' \notin {"gather", "search", "judge"}
  BY <1>0
<1>1. CASE UNCHANGED <<pc, run>>
  BY <1>1
<1>2. CASE Begin
  <2>1. run'.batch = 0 /\ 0 \in Batch
    BY <1>2, Constants DEF Begin, NewRun, Batch
  <2> QED
    BY <2>1
<1>2a. CASE Gather
  <2>1. run'.batch = run.batch
    BY <1>2a DEF Gather, Runs
  <2> QED
    BY <1>2a, <2>1 DEF Gather, Batch
<1>3. CASE NextBatch
  BY <1>3, Constants DEF NextBatch, Runs, Batch
<1>4. ASSUME NEW found \in {{}} \cup {{k} : k \in Kind}, NEW time \in {0, 1},
             Sample(found, time)
      PROVE  InBatch'
  BY <1>4 DEF Sample, Runs
<1>5. CASE BatchEnds \/ SingleEnds
  BY <1>5, ForgottenType DEF BatchEnds, SingleEnds, Complete, Runs
<1> QED
  BY <1>0, <1>1, <1>2, <1>2a, <1>3, <1>4, <1>5
  DEF vars, Next, InitNext, SearchNext, Skip, GatherFails, Settle, Resume, StartFresh,
     BatchRaises, Exhausted, SingleRaises, LegacyWins, LegacyFails, Judge, Activate, Fallback,
     Activates, Enroll, Archive, End, Retry, Boot, Trades, Reinit, RuntimeEnds, Kill, Restart,
     Edit

LEMMA TypeStep == TypeInv /\ [Next]_vars => TypeInv'
BY ScalarsStep, FileStep, RunStep, SearchStep, InBatchStep DEF TypeInv

LEMMA Typed == Spec => []TypeInv
BY InitType, TypeStep, PTL DEF Spec

(* Every variable stays in its domain: no batch past the last, at most one *)
(* checkpoint file, a seed of a known kind.                                *)
THEOREM TypeCorrect == Spec => []TypeOK
BY Typed, PartsAreType, PTL

----------------------------------------------------------------------------
(* The seed on its way from the search to the registry.                    *)
LEMMA FilteredStep == TypeInv /\ Filtered /\ [Next]_vars => Filtered'
<1> SUFFICES ASSUME TypeInv, Filtered, [Next]_vars PROVE Filtered'
  OBVIOUS
<1> USE DEF TypeInv, Filtered, SeedVetted
<1>0. CASE UNCHANGED <<pc, run, active>>
  BY <1>0
<1>1. CASE BatchEnds \/ SingleEnds
  <2>1. pc' = "judge" => run'.best \in {"thin", "sound"}
    <3>1. PICK best \in Winners :
            /\ pc' = "judge" => best # "none"
            /\ \/ run' = [Forgotten EXCEPT !.best = best, !.asked = @ + Samples,
                               !.batch = IF best = "none" THEN @ + 1 ELSE @]
               \/ run' = [Forgotten EXCEPT !.best = best, !.caught = (best # "none")]
      BY <1>1 DEF BatchEnds, SingleEnds
    <3>2. run'.best = best
      BY <3>1, ForgottenType DEF Runs
    <3> QED
      BY <3>1, <3>2, WinnersAre, SMTT(30)
  <2>2. pc' # "activate" /\ active' = active
    BY <1>1 DEF BatchEnds, SingleEnds, database
  <2> QED
    BY <2>1, <2>2
<1>2. CASE Judge
  BY <1>2 DEF Judge, Accepts, Settle, database, Runs
<1>3. CASE LegacyWins
  BY <1>3 DEF LegacyWins, database, Runs
<1>4. CASE Activate \/ Fallback
  BY <1>4 DEF Activate, Fallback, Activates, Kind
<1>5. CASE pc' \notin {"judge", "activate"} /\ (active' = active \/ active' \notin Kind)
  BY <1>5
<1> QED
  BY <1>0, <1>1, <1>2, <1>3, <1>4, <1>5
  DEF vars, Next, InitNext, SearchNext, Skip, Begin, Gather, GatherFails, Settle, Resume,
     StartFresh, NextBatch, Sample, BatchRaises, Exhausted, SingleRaises, LegacyFails,
     Enroll, Archive, End, Retry, Boot, Trades, Reinit, RuntimeEnds, Kill, Restart, Edit,
     database, Kind

(* Whatever is resumed, raised or killed, a seed of the search passed      *)
(* every stage of its acceptance.                                          *)
THEOREM SeedIsVetted == Spec => []SeedVetted
<1>1. Init => Filtered
  BY SMTT(30) DEF Init, Filtered, SeedVetted, Kind
<1> QED
  BY <1>1, FilteredStep, Typed, PTL DEF Spec, Filtered

(* An activation is always followed by the registration, or by a mishap.   *)
LEMMA RegisteredStep == TypeInv /\ Registered /\ [Next]_vars => Registered'
<1> SUFFICES ASSUME TypeInv, Registered, [Next]_vars PROVE Registered'
  OBVIOUS
<1> USE DEF TypeInv, Registered
<1>0. CASE UNCHANGED <<pc, active, enrolled, mishap>>
  BY <1>0
<1>1. CASE Activate \/ Fallback
  BY <1>1 DEF Activate, Fallback, Activates
<1>2. CASE Enroll
  BY <1>2 DEF Enroll, Scalars
<1>3. CASE Kill \/ SingleRaises
  BY <1>3 DEF Kill, SingleRaises, database, Scalars
<1>4. CASE Reinit
  BY <1>4 DEF Reinit, Seed, Kind, Scalars
<1>5. CASE Boot
  BY <1>5 DEF Boot, Seed, Kind
<1>6. CASE pc # "enroll" /\ UNCHANGED <<active, enrolled, mishap>>
  BY <1>6
<1> QED
  BY <1>0, <1>1, <1>2, <1>3, <1>4, <1>5, <1>6
  DEF vars, Next, InitNext, SearchNext, Skip, Begin, Gather, GatherFails, Resume, StartFresh,
     NextBatch, Sample, BatchEnds, BatchRaises, Exhausted, SingleEnds, Complete, LegacyWins,
     LegacyFails, Judge, Archive, End, Retry, Trades, RuntimeEnds, Restart, Edit, database

(* The bot never trades a seed that is not on probation, unless the write  *)
(* that puts it there failed or was cut off.                               *)
THEOREM SeedIsOnProbation == Spec => []TradesOnProbation
<1>1. Init => Registered
  BY DEF Init, Registered, Seed, Kind
<1>2. Registered => TradesOnProbation
  BY DEF Registered, TradesOnProbation
<1> QED
  BY <1>1, <1>2, RegisteredStep, Typed, PTL DEF Spec

(* What the exit code of demo init says of the seed that is active.        *)
LEMMA ReportedStep == TypeInv /\ Filtered /\ Reported /\ [Next]_vars => Reported'
<1> SUFFICES ASSUME TypeInv, Filtered, Reported, [Next]_vars PROVE Reported'
  OBVIOUS
<1> USE DEF TypeInv, Reported, NoSilentFallback
<1>0. CASE UNCHANGED <<pc, run, active, setup>>
  BY <1>0
<1>1. CASE Skip
  BY <1>1 DEF Skip, NewRun, database, script
<1>2. CASE Begin \/ Kill
  BY <1>2 DEF Begin, Kill, NewRun, database, script
<1>3. CASE Gather \/ Resume \/ NextBatch
  BY <1>3 DEF Gather, Resume, NextBatch, Runs, database, script
<1>4. ASSUME NEW found \in {{}} \cup {{k} : k \in Kind}, NEW time \in {0, 1},
             Sample(found, time)
      PROVE  Reported'
  BY <1>4 DEF Sample, Runs, database, script
<1>5. CASE BatchEnds \/ BatchRaises \/ SingleEnds
  <2>1. run' \in Runs /\ run'.success = run.success
    BY <1>5, RunStep, ForgottenType DEF BatchEnds, BatchRaises, SingleEnds, Runs
  <2>2. pc = "search" /\ pc' \in {"loop", "judge", "legacy"} /\ active' = active
    BY <1>5 DEF BatchEnds, BatchRaises, SingleEnds, Complete, database
  <2> QED
    BY <2>1, <2>2 DEF Runs
<1>6. CASE SingleRaises
  <2>1. run'.success = run.success /\ run'.viable = run.viable
    BY <1>6, ForgottenType DEF SingleRaises, Runs
  <2> QED
    BY <1>6, <2>1 DEF SingleRaises, database
<1>7. CASE Judge \/ Exhausted
  BY <1>7 DEF Judge, Exhausted, Settle, Runs, database
<1>8. CASE LegacyWins \/ LegacyFails
  BY <1>8 DEF LegacyWins, LegacyFails, Settle, Runs, database
<1>9. CASE Activate \/ Fallback
  BY <1>9 DEF Activate, Fallback, Activates, Filtered, Runs
<1>10. CASE End
  <2>1. run'.skipped = FALSE /\ run'.success = FALSE
    BY <1>10 DEF End, NewRun
  <2>2. ExitCode = 0 /\ setup.require => run.viable /\ run.success
    BY SettingFields DEF ExitCode, Scalars, Runs
  <2>3. pc' = "boot" => ExitCode = 0
    BY <1>10 DEF End
  <2> QED
    BY <1>10, <2>1, <2>2, <2>3 DEF End, database, script
<1>11. CASE Boot
  BY <1>11 DEF Boot, script
<1>12. CASE \/ GatherFails \/ StartFresh \/ Enroll \/ Archive \/ Retry \/ Trades
            \/ RuntimeEnds \/ Restart \/ Edit
  BY <1>12 DEF GatherFails, Settle, StartFresh, Enroll, Archive, Retry, Trades,
     RuntimeEnds, Restart, Edit, database, script
<1>13. CASE Reinit
  BY <1>13 DEF Reinit, script
<1> QED
  BY <1>0, <1>1, <1>2, <1>3, <1>4, <1>5, <1>6, <1>7, <1>8, <1>9, <1>10, <1>11, <1>12, <1>13
  DEF vars, Next, InitNext, SearchNext, database, script

(* With require_viable_seed_before_trading the bot never starts on a seed  *)
(* that was not viable, after a demo init that searched for one.           *)
THEOREM FallbackIsNotSilent == Spec => []NoSilentFallback
<1>1. Init => Filtered /\ Reported
  BY DEF Init, Filtered, Reported, SeedVetted, NoSilentFallback, NewRun, Kind
<1>2. Reported => NoSilentFallback
  BY DEF Reported
<1> QED
  BY <1>1, <1>2, FilteredStep, ReportedStep, Typed, PTL DEF Spec
----------------------------------------------------------------------------
(* The search and its checkpoint.  Between two batches the search has      *)
(* dealt with those before run.batch (which may be the first again, after  *)
(* a resumption); while the winner of a batch is judged, with that batch   *)
(* too.  Checkpointed says the same of the file.                           *)
Before(n) == {b \in Batch : b < n}

Covers(n) ==
  /\ Before(n) \subseteq search.done \cup search.raised
  /\ search.again \subseteq {0}

Paused ==
  /\ Covers(run.batch) /\ search.done \subseteq {0} \cup Before(run.batch)
  /\ search.again = {} =>
       run.asked = IF run.batch \in search.done THEN Samples ELSE Samples * run.batch

Judging ==
  /\ Covers(run.batch + 1) /\ search.done \subseteq Before(run.batch + 1)
  /\ search.again = {} => run.asked = Samples * (run.batch + 1)

Checkpointed(c) ==
  /\ c.last \in search.done
  /\ Covers(c.last + 1) /\ search.done \subseteq Before(c.last + 1)
  /\ search.again = {} => c.asked = Samples * (c.last + 1)

SearchInv ==
  /\ \A c \in checkpoint : Checkpointed(c)
  /\ pc \in {"gather", "resume"} => run.batch = 0 /\ run.asked = 0
  /\ setup.until /\ pc \in {"loop", "search"} => Paused
  /\ setup.until /\ pc = "judge" => Judging

LEMMA BeforeIs == \A n \in Batch : Before(n + 1) = 0 .. n
BY Constants DEF Before, Batch

LEMMA SearchInvSays == TypeInv /\ SearchInv => CheckpointTrue
<1> SUFFICES ASSUME TypeInv, SearchInv, NEW c \in checkpoint
             PROVE  /\ search.done \subseteq 0 .. c.last
                    /\ 0 .. c.last \subseteq search.done \cup search.raised
                    /\ search.again \subseteq {0}
                    /\ search.again = {} => c.asked = Samples * (c.last + 1)
  BY DEF CheckpointTrue
<1>1. Before(c.last + 1) = 0 .. c.last
  BY BeforeIs DEF TypeInv, OneFile, Files
<1> QED
  BY <1>1 DEF SearchInv, Checkpointed, Covers

(* Where the search stands after batch n, which it had not done before or  *)
(* which is the first.                                                     *)
LEMMA OneMoreBatch ==
  ASSUME TypeInv, Paused, NEW n \in Batch, run.batch = n
  PROVE  /\ Before(n + 1) = Before(n) \cup {n}
         /\ search.again \cup ({n} \cap search.done) \subseteq {0}
         /\ search.again \cup ({n} \cap search.done) = {} =>
              run.asked + Samples = Samples * (n + 1)
         /\ n + 1 \notin search.done
<1> USE DEF TypeInv, Paused, Covers
<1>1. n \in Nat /\ Samples \in Nat
  BY Constants DEF Batch
<1>2. Before(n + 1) = Before(n) \cup {n}
  BY <1>1 DEF Before, Batch
<1>3. n \in search.done => n = 0
  BY <1>1 DEF Before
<1>4. n + 1 \notin search.done
  BY <1>1 DEF Before
<1>5. Samples * (n + 1) = Samples * n + Samples
  BY <1>1
<1> QED
  BY <1>1, <1>2, <1>3, <1>4, <1>5

LEMMA ResumeStep == TypeInv /\ SearchInv /\ Resume => SearchInv'
<1> SUFFICES ASSUME TypeInv, SearchInv, Resume PROVE SearchInv'
  OBVIOUS
<1> USE DEF TypeInv
<1>1. PICK c \in checkpoint :
        run' = [run EXCEPT !.batch = IF c.last = 0 THEN 0 ELSE c.last + 1, !.asked = c.asked]
  BY DEF Resume
<1>2. run'.batch = (IF c.last = 0 THEN 0 ELSE c.last + 1) /\ run'.asked = c.asked
  BY <1>1 DEF Runs
<1>3. c.last \in Batch /\ c.last \in Nat /\ Samples \in Nat /\ 0 \in Batch
  BY Constants DEF OneFile, Files, Batch
<1>4. search' = search /\ checkpoint' = checkpoint /\ pc' = "loop"
  BY DEF Resume
<1>5. Checkpointed(c)
  BY DEF SearchInv
<1>6. CASE c.last = 0
  <2>1. Before(0) = {} /\ Before(0 + 1) = {0} /\ Samples * (0 + 1) = Samples /\ Samples * 0 = 0
    BY <1>3 DEF Before, Batch
  <2>2. run'.batch = 0 /\ search.done \subseteq {0}
    BY <1>2, <1>5, <1>6, <2>1 DEF Checkpointed
  <2>3. Before(run'.batch) = {}
    BY <2>1, <2>2
  <2>4. search.again = {} => run'.asked = Samples
    BY <1>2, <1>5, <1>6, <2>1 DEF Checkpointed
  <2>5. Paused'
    <3>1. search.again \subseteq {0}
      BY <1>5 DEF Checkpointed, Covers
    <3>2. 0 \in search.done
      BY <1>5, <1>6 DEF Checkpointed
    <3> QED
      BY <1>4, <2>2, <2>3, <2>4, <3>1, <3>2 DEF Paused, Covers, Before
  <2> QED
    BY <1>4, <2>5 DEF SearchInv, Checkpointed, Covers, Before
<1>7. CASE c.last # 0
  <2>1. run'.batch = c.last + 1
    BY <1>2, <1>7
  <2>2. c.last + 1 \notin search.done
    BY <1>3, <1>5 DEF Checkpointed, Before
  <2>3. Paused'
    BY <1>2, <1>4, <1>5, <2>1, <2>2 DEF Checkpointed, Paused, Covers, Before
  <2> QED
    BY <1>4, <2>3 DEF SearchInv, Checkpointed, Covers, Before
<1> QED
  BY <1>6, <1>7

LEMMA BatchEndsStep == TypeInv /\ SearchInv /\ BatchEnds => SearchInv'
<1> SUFFICES ASSUME TypeInv, SearchInv, BatchEnds PROVE SearchInv'
  OBVIOUS
<1> USE DEF TypeInv
<1>1. PICK best \in Winners :
        /\ run' = [Forgotten EXCEPT !.best = best, !.asked = @ + Samples,
                                     !.batch = IF best = "none" THEN @ + 1 ELSE @]
        /\ checkpoint' = {Payload(run.batch, run.asked + Samples)}
        /\ pc' = IF best = "none" THEN "loop" ELSE "judge"
  BY DEF BatchEnds
<1>2. /\ run'.batch = IF best = "none" THEN run.batch + 1 ELSE run.batch
      /\ run'.asked = run.asked + Samples
  BY <1>1, ForgottenType DEF Runs
<1>3. PICK n \in Batch : run.batch = n
  BY DEF BatchEnds, Complete, InBatch
<1>4. Paused
  BY DEF BatchEnds, Complete, SearchInv
<1>5. /\ search'.done = search.done \cup {n} /\ search'.raised = search.raised
      /\ search'.again = search.again \cup ({n} \cap search.done)
  BY <1>3 DEF BatchEnds, Searches
<1>6. /\ Before(n + 1) = Before(n) \cup {n}
      /\ search'.again \subseteq {0}
      /\ search'.again = {} => run.asked + Samples = Samples * (n + 1)
      /\ n + 1 \notin search'.done
  BY <1>3, <1>4, <1>5, OneMoreBatch DEF Batch
<1>7. Covers(n + 1)' /\ search'.done \subseteq Before(n + 1)
  BY <1>3, <1>4, <1>5, <1>6, Constants DEF Paused, Covers, Before, Batch
<1>8. \A c \in checkpoint' : Checkpointed(c)'
  <2>1. checkpoint' = {Payload(n, run.asked + Samples)}
    BY <1>1, <1>3
  <2>2. Payload(n, run.asked + Samples).last = n
        /\ Payload(n, run.asked + Samples).asked = run.asked + Samples
    BY DEF Payload
  <2> QED
    BY <1>5, <1>6, <1>7, <2>1, <2>2 DEF Checkpointed, Covers, Before
<1>9. CASE best = "none"
  <2>1. pc' = "loop" /\ run'.batch = n + 1 /\ run'.asked = run.asked + Samples
    BY <1>1, <1>2, <1>3, <1>9
  <2>2. Paused'
    BY <1>6, <1>7, <2>1 DEF Paused, Covers, Before
  <2> QED
    BY <1>8, <2>1, <2>2 DEF SearchInv
<1>10. CASE best # "none"
  <2>1. pc' = "judge" /\ run'.batch = n /\ run'.asked = run.asked + Samples
    BY <1>1, <1>2, <1>3, <1>10
  <2>2. Judging'
    BY <1>6, <1>7, <2>1 DEF Judging, Covers, Before
  <2> QED
    BY <1>8, <2>1, <2>2 DEF SearchInv
<1> QED
  BY <1>9, <1>10

LEMMA BatchRaisesStep == TypeInv /\ SearchInv /\ BatchRaises => SearchInv'
<1> SUFFICES ASSUME TypeInv, SearchInv, BatchRaises PROVE SearchInv'
  OBVIOUS
<1> USE DEF TypeInv
<1>1. run'.batch = run.batch + 1 /\ run'.asked = run.asked + Samples
  BY ForgottenType DEF BatchRaises, Runs
<1>2. PICK n \in Batch : run.batch = n
  BY DEF BatchRaises, InBatch
<1>3. Paused
  BY DEF BatchRaises, SearchInv
<1>4. /\ search'.done = search.done /\ search'.raised = search.raised \cup {n}
      /\ search'.again = search.again \cup ({n} \cap search.done)
  BY <1>2 DEF BatchRaises, Searches
<1>5. /\ Before(n + 1) = Before(n) \cup {n}
      /\ search'.again \subseteq {0}
      /\ search'.again = {} => run.asked + Samples = Samples * (n + 1)
      /\ n + 1 \notin search'.done
  BY <1>2, <1>3, <1>4, OneMoreBatch
<1>6. Paused'
  <2>1. Covers(n + 1)' /\ search'.done \subseteq {0} \cup Before(n + 1)
    BY <1>2, <1>3, <1>4, <1>5 DEF Paused, Covers, Before
  <2> QED
    BY <1>1, <1>2, <1>5, <2>1 DEF Paused, Covers, Before
<1>7. \A c \in checkpoint' : Checkpointed(c)'
  BY <1>4, <1>5 DEF BatchRaises, SearchInv, Checkpointed, Covers, Before
<1> QED
  BY <1>6, <1>7 DEF SearchInv, BatchRaises

LEMMA SearchInvStep == TypeInv /\ SearchInv /\ [Next]_vars => SearchInv'
<1> SUFFICES ASSUME TypeInv, SearchInv, [Next]_vars PROVE SearchInv'
  OBVIOUS
<1> USE DEF TypeInv, SearchInv, Checkpointed, Paused, Judging, Covers, Before, database, script
<1>0. CASE UNCHANGED vars
  BY <1>0 DEF vars
<1>1. CASE Resume
  BY <1>1, ResumeStep
<1>2. CASE BatchEnds
  BY <1>2, BatchEndsStep
<1>3. CASE BatchRaises
  BY <1>3, BatchRaisesStep
<1>4. CASE Begin
  BY <1>4 DEF Begin, NewRun
<1>5. CASE Gather
  <2>1. setup.until => pc' = "resume" /\ run' = run
    BY <1>5 DEF Gather
  <2>2. pc' \in {"resume", "search"} /\ UNCHANGED <<checkpoint, search, setup>>
    BY <1>5 DEF Gather
  <2>3. pc' = "resume" => run' = run
    BY <1>5 DEF Gather
  <2> QED
    BY <1>5, <2>1, <2>2, <2>3 DEF Gather
<1>6. CASE StartFresh
  <2>1. run.batch = 0 /\ run.asked = 0
    BY <1>6 DEF StartFresh
  <2>2. Before(0) = {} /\ Samples * 0 = 0
    BY Constants DEF Batch
  <2> QED
    BY <1>6, <2>1, <2>2 DEF StartFresh, NewSearch
<1>7. CASE NextBatch
  <2>1. run'.batch = run.batch /\ run'.asked = run.asked
    BY <1>7 DEF NextBatch, Runs
  <2> QED
    BY <1>7, <2>1 DEF NextBatch
<1>8. ASSUME NEW found \in {{}} \cup {{k} : k \in Kind}, NEW time \in {0, 1},
             Sample(found, time)
      PROVE  SearchInv'
  <2>1. run'.batch = run.batch /\ run'.asked = run.asked
    BY <1>8 DEF Sample, Runs
  <2> QED
    BY <1>8, <2>1 DEF Sample
<1>9. CASE Judge
  <2>1. CASE pc' = "loop" /\ setup.until
    <3>1. run'.batch = run.batch + 1 /\ run'.asked = run.asked
      BY <1>9, <2>1 DEF Judge, Settle, Runs
    <3>2. Judging /\ run.batch \in Nat
      BY <1>9, <2>1 DEF Judge, Runs
    <3>3. run.batch + 1 \notin search.done
      BY <3>2
    <3>4. Paused'
      BY <1>9, <3>1, <3>2, <3>3 DEF Judge
    <3> QED
      BY <1>9, <2>1, <3>4 DEF Judge
  <2>2. CASE ~(pc' = "loop" /\ setup.until)
    <3>1. pc' \in {"loop", "activate", "fallback", "end"}
      BY <1>9 DEF Judge, Settle
    <3> QED
      BY <1>9, <2>2, <3>1 DEF Judge
  <2> QED
    BY <2>1, <2>2
<1>10. CASE SingleEnds
  BY <1>10 DEF SingleEnds
<1>11. CASE Exhausted \/ Archive
  BY <1>11 DEF Exhausted, Archive, NewSearch
<1>12. CASE Edit
  BY <1>12 DEF Edit
<1>13. CASE Kill
  BY <1>13 DEF Kill
<1>14. CASE /\ pc' \notin {"gather", "resume", "loop", "search", "judge"}
            /\ UNCHANGED <<checkpoint, search>>
  BY <1>14
<1> QED
  BY <1>0, <1>1, <1>2, <1>3, <1>4, <1>5, <1>6, <1>7, <1>8, <1>9, <1>10, <1>11, <1>12, <1>13, <1>14
  DEF Next, InitNext, SearchNext, Skip, GatherFails, Settle, SingleRaises, LegacyWins,
     LegacyFails, Activate, Fallback, Activates, Enroll, End, Retry, Boot, Trades, Reinit,
     RuntimeEnds, Restart

(* Whatever was resumed, raised, killed or edited before, the checkpoint   *)
(* names the batches that were run and counts their candidates.            *)
THEOREM CheckpointIsTrue == Spec => []CheckpointTrue
<1>1. Init => SearchInv
  BY DEF Init, SearchInv
<1> QED
  BY <1>1, SearchInvStep, SearchInvSays, Typed, PTL DEF Spec

----------------------------------------------------------------------------
(* The backtest.  The bars of a symbol are in the order of their times     *)
(* (fetch_klines_for_symbol sorts them), at whatever prices.  The          *)
(* simulation is a recursive function on the number of bars: that it       *)
(* exists, and what holds after each bar, are shown for the smallest       *)
(* number of bars they would fail for.                                     *)
Side == {"Buy", "Sell"}
Bar == [ts : Int, low : Int, high : Int, close : Int, signal : Side \cup {"none"}]
Series == {bars \in Seq(Bar) : \A i, j \in DOMAIN bars : i < j => bars[i].ts < bars[j].ts}

Positions == [side : Side \cup {"none"}, price : Int, ts : Int, bars : Nat]
Reasons == {"stop_loss", "tp1", "tp2", "time_stop", "opposite_signal", "max_hold"}
Trips == [side : Side, from : Int, entry : Int, to : Int, exit : Int, why : Reasons]

Step(s, b, most) == Enters(Exits(s, b, most), b)

(* g is the simulation of the first n bars.                                *)
Simulates(g, bars, n) ==
  g = [k \in 0 .. n |-> IF k = 0 THEN Flat ELSE Step(g[k - 1], bars[k], MaxHoldBars(bars))]

After(bars) == CHOOSE g : Simulates(g, bars, Len(bars))

LEMMA TripsAre ==
  ASSUME NEW bars, Len(bars) >= 2, Len(bars) \in Nat
  PROVE  RoundTrips(bars) = After(bars)[Len(bars)].trips
BY DEF RoundTrips, After, Simulates, Step

LEMMA Smallest ==
  ASSUME NEW Bad \in SUBSET Nat, Bad # {}
  PROVE  \E n \in Bad : \A m \in Bad : n <= m
<1>1. IsWellFoundedOn(OpToRel(<, Nat), Nat)
  BY NatLessThanWellFounded
<1>2. PICK n \in Bad : \A m \in Bad : ~(<<m, n>> \in OpToRel(<, Nat))
  BY <1>1, WFMin
<1>3. ASSUME NEW m \in Bad, m < n
      PROVE  <<m, n>> \in OpToRel(<, Nat)
  BY <1>3, Zenon DEF OpToRel
<1>4. \A m \in Bad : ~(m < n)
  BY <1>2, <1>3
<1> QED
  BY <1>4

LEMMA Simulated ==
  ASSUME NEW bars, Len(bars) \in Nat
  PROVE  /\ After(bars)[0] = Flat
         /\ \A n \in 1 .. Len(bars) :
              After(bars)[n] = Step(After(bars)[n - 1], bars[n], MaxHoldBars(bars))
<1> DEFINE Bad == {n \in Nat : ~ \E g : Simulates(g, bars, n)}
<1>1. Bad = {}
  <2> SUFFICES ASSUME Bad # {} PROVE FALSE
    OBVIOUS
  <2>1. PICK n \in Bad : \A m \in Bad : n <= m
    BY Smallest
  <2>2. CASE n = 0
    <3>1. Simulates([k \in 0 .. 0 |-> Flat], bars, 0)
      BY DEF Simulates
    <3> QED
      BY <2>2, <3>1
  <2>3. CASE n > 0
    <3>1. n \in Nat /\ n - 1 \in Nat /\ n - 1 \notin Bad
      BY <2>1, <2>3
    <3>2. PICK g : Simulates(g, bars, n - 1)
      BY <3>1
    <3> DEFINE h == [k \in 0 .. n |-> IF k = n THEN Step(g[n - 1], bars[n], MaxHoldBars(bars)) ELSE g[k]]
    <3>3. ASSUME NEW k \in 0 .. n
          PROVE  h[k] = IF k = 0 THEN Flat ELSE Step(h[k - 1], bars[k], MaxHoldBars(bars))
      <4>1. CASE k = n
        <5>1. h[k] = Step(g[n - 1], bars[n], MaxHoldBars(bars)) /\ h[k - 1] = g[n - 1]
          BY <2>3, <3>1, <4>1
        <5> QED
          BY <2>3, <4>1, <5>1
      <4>2. CASE k # n
        <5>1. k \in 0 .. n - 1 /\ h[k] = g[k] /\ (k > 0 => h[k - 1] = g[k - 1])
          BY <3>1, <4>2
        <5>2. g[k] = IF k = 0 THEN Flat ELSE Step(g[k - 1], bars[k], MaxHoldBars(bars))
          BY <3>2, <5>1 DEF Simulates
        <5> HIDE DEF h
        <5> QED
          BY <3>1, <5>1, <5>2
      <4> QED
        BY <4>1, <4>2
    <3>4. h = [k \in 0 .. n |-> h[k]]
      OBVIOUS
    <3> HIDE DEF h
    <3>5. Simulates(h, bars, n)
      BY <3>3, <3>4 DEF Simulates
    <3> QED
      BY <3>5
  <2> QED
    BY <2>1, <2>2, <2>3
<1>2. \E g : Simulates(g, bars, Len(bars))
  BY <1>1
<1>3. Simulates(After(bars), bars, Len(bars))
  BY <1>2 DEF After
<1> QED
  BY <1>3 DEF Simulates

(* The state of the simulation after n bars: each round trip is what       *)
(* Conservative asks of it, ...                                            *)
LongestTrip(bars) ==
  LET step == bars[2].ts - bars[1].ts IN IF MaxHold < step THEN step ELSE MaxHold

Calms(t, b, from) ==
  /\ Reached(t, b).worst > -StopAt /\ Reached(t, b).best < Tp1At
  /\ b.signal # Opposite(t.side)
  /\ b.ts - from < MaxHold

AtExit(t, b) ==
  LET gain == Gain(t.side, t.entry, t.exit) IN
  /\ Reached(t, b).worst <= -StopAt => gain = -StopAt
  /\ Reached(t, b).worst > -StopAt /\ Reached(t, b).best >= Tp1At
       => gain = IF Reached(t, b).best >= Tp2At THEN Tp2At ELSE Tp1At

Sound(t, bars) ==
  /\ \A i \in DOMAIN bars : t.from < bars[i].ts /\ bars[i].ts < t.to => Calms(t, bars[i], t.from)
  /\ \A i \in DOMAIN bars : bars[i].ts = t.to => AtExit(t, bars[i])
  /\ Regular(bars) => t.to - t.from <= LongestTrip(bars)

LEMMA SoundTrips ==
  ASSUME NEW bars,
         \A n \in DOMAIN RoundTrips(bars) :
           /\ Sound(RoundTrips(bars)[n], bars)
           /\ n > 1 => RoundTrips(bars)[n - 1].to <= RoundTrips(bars)[n].from
  PROVE  Conservative(bars)
BY DEF Conservative, Sound, Between, Calms, AtExit, LongestTrip
(* ... they are in order, and the position that is open has met nothing    *)
(* but calm bars.                                                          *)
Quiet(p, b) ==
  /\ Worst(p, b) > -StopAt /\ Best(p, b) < Tp1At
  /\ b.signal # Opposite(p.side)
  /\ b.ts - p.ts < MaxHold

Held(p, bars, n) ==
  /\ n > 0 /\ p.ts <= bars[n].ts /\ p.bars < MaxHoldBars(bars)
  /\ \A i \in 1 .. n : p.ts < bars[i].ts => Quiet(p, bars[i])
  /\ Regular(bars) => bars[n].ts = p.ts + p.bars * (bars[2].ts - bars[1].ts)

Simulation(s, bars, n) ==
  /\ s \in [pos : Positions, trips : Seq(Trips)]
  /\ \A k \in DOMAIN s.trips :
       /\ Sound(s.trips[k], bars)
       /\ k > 1 => s.trips[k - 1].to <= s.trips[k].from
       /\ n > 0 /\ s.trips[k].to <= bars[n].ts
       /\ s.pos.side # "none" => s.trips[k].to <= s.pos.ts
  /\ s.pos.side # "none" => Held(s.pos, bars, n)

LEMMA Distances ==
  /\ StopAt \in Nat /\ StopAt > 0 /\ Tp1At \in Nat /\ Tp1At > 0 /\ Tp2At \in Nat /\ Tp1At < Tp2At
  /\ MaxHold \in Nat /\ MaxHold > 0
BY BacktestAssumption

(* A bar more than it was held for before.                                 *)
Ticks(from, held, step, more, before, now) ==
  /\ {from, held, step, more, before, now} \subseteq Int
  /\ more = held + step /\ now - before = step /\ before = from + held

LEMMA TicksAddUp ==
  ASSUME NEW from, NEW held, NEW step, NEW more, NEW before, NEW now,
         Ticks(from, held, step, more, before, now)
  PROVE  now = from + more
BY DEF Ticks

LEMMA LongestHold ==
  ASSUME NEW bars \in Series, Len(bars) >= 2
  PROVE  /\ bars[2].ts - bars[1].ts \in Nat \ {0}
         /\ MaxHoldBars(bars) \in Nat /\ MaxHoldBars(bars) > 0
         /\ MaxHoldBars(bars) * (bars[2].ts - bars[1].ts) <= LongestTrip(bars)
<1> DEFINE step == bars[2].ts - bars[1].ts
<1>1. step \in Nat \ {0}
  <2>1. 1 \in DOMAIN bars /\ 2 \in DOMAIN bars /\ bars \in Seq(Bar)
    BY DEF Series
  <2>2. bars[1].ts < bars[2].ts
    BY <2>1 DEF Series
  <2>3. bars[1].ts \in Int /\ bars[2].ts \in Int
    <3>1. bars[1] \in Bar /\ bars[2] \in Bar
      BY <2>1
    <3> QED
      BY <3>1 DEF Bar
  <2> QED
    BY <2>2, <2>3
<1>2. MaxHold \div step \in Nat /\ (MaxHold \div step) * step <= MaxHold
  <2> HIDE DEF step
  <2> QED
    BY <1>1, Distances
<1> HIDE DEF step
<1>3. MaxHoldBars(bars) = IF MaxHold \div step < 1 THEN 1 ELSE MaxHold \div step
  BY DEF MaxHoldBars, step
<1>4. LongestTrip(bars) = IF MaxHold < step THEN step ELSE MaxHold
  BY DEF LongestTrip, step
<1>5. MaxHoldBars(bars) \in Nat /\ MaxHoldBars(bars) > 0
  BY <1>2, <1>3
<1>6. MaxHoldBars(bars) * step <= LongestTrip(bars)
  <2>1. CASE MaxHold \div step < 1
    BY <1>1, <1>3, <1>4, <2>1, Distances
  <2>2. CASE ~(MaxHold \div step < 1)
    BY <1>1, <1>2, <1>3, <1>4, <2>2, Distances
  <2> QED
    BY <2>1, <2>2
<1> QED
  BY <1>1, <1>5, <1>6 DEF step

LEMMA EntersKeeps ==
  ASSUME NEW bars \in Series, Len(bars) >= 2, NEW n \in 1 .. Len(bars), NEW s,
         Simulation(s, bars, n)
  PROVE  Simulation(Enters(s, bars[n]), bars, n)
<1> DEFINE b == bars[n]
           r == [side |-> b.signal, price |-> b.close, ts |-> b.ts, bars |-> 0]
<1>1. CASE s.pos.side # "none" \/ b.signal = "none"
  BY <1>1 DEF Enters
<1>2. CASE s.pos.side = "none" /\ b.signal # "none"
  <2>1. Enters(s, b) = [s EXCEPT !.pos = r]
    BY <1>2 DEF Enters
  <2>2. b \in Bar
    BY DEF Series
  <2>3. r \in Positions
    BY <2>2 DEF Positions, Bar
  <2>4. Enters(s, b).pos = r /\ Enters(s, b).trips = s.trips
        /\ Enters(s, b) \in [pos : Positions, trips : Seq(Trips)]
    BY <2>1, <2>3 DEF Simulation
  <2>5. Held(r, bars, n)
    <3>1. n > 0 /\ r.ts = bars[n].ts /\ r.bars = 0 /\ bars[n].ts \in Int /\ n \in Nat
      BY <2>2 DEF Bar
    <3>2. 0 < MaxHoldBars(bars) /\ bars[2].ts - bars[1].ts \in Nat
      BY LongestHold
    <3>3. \A i \in 1 .. n : ~(r.ts < bars[i].ts)
      <4> SUFFICES ASSUME NEW i \in 1 .. n PROVE ~(r.ts < bars[i].ts)
        OBVIOUS
      <4>1. i \in DOMAIN bars /\ n \in DOMAIN bars /\ bars[i] \in Bar
        BY DEF Series
      <4>2. i = n \/ bars[i].ts < bars[n].ts
        BY <4>1 DEF Series
      <4> QED
        BY <3>1, <4>1, <4>2 DEF Bar
    <3> HIDE DEF r
    <3> QED
      BY <3>1, <3>2, <3>3 DEF Held
  <2> HIDE DEF r
  <2>6. r.ts = bars[n].ts
    BY DEF r
  <2> QED
    BY <2>4, <2>5, <2>6 DEF Simulation
<1> QED
  BY <1>1, <1>2
LEMMA Later ==
  ASSUME NEW bars \in Series, NEW i \in DOMAIN bars, NEW j \in DOMAIN bars
  PROVE  /\ bars[i].ts \in Int /\ bars[i].low \in Int /\ bars[i].high \in Int
         /\ bars[i].close \in Int /\ bars[i].signal \in Side \cup {"none"}
         /\ i < j <=> bars[i].ts < bars[j].ts
<1>1. bars \in Seq(Bar) /\ bars[i] \in Bar /\ bars[j] \in Bar
  BY DEF Series
<1>2. i \in Nat /\ j \in Nat
  BY <1>1
<1>3. (i < j => bars[i].ts < bars[j].ts) /\ (j < i => bars[j].ts < bars[i].ts)
  BY DEF Series
<1>4. /\ bars[i].ts \in Int /\ bars[i].low \in Int /\ bars[i].high \in Int
      /\ bars[i].close \in Int /\ bars[i].signal \in Side \cup {"none"} /\ bars[j].ts \in Int
  BY <1>1 DEF Bar
<1>5. i = j => bars[i].ts = bars[j].ts
  OBVIOUS
<1> QED
  BY <1>2, <1>3, <1>4, <1>5

LEMMA LevelsAre ==
  ASSUME NEW p \in Positions, p.side # "none", NEW b \in Bar
  PROVE  /\ p.side \in Side /\ Worst(p, b) \in Int /\ Best(p, b) \in Int
         /\ Hit(p, b) = "none" => Worst(p, b) > -StopAt /\ Best(p, b) < Tp1At
BY Distances DEF Positions, Side, Bar, Worst, Best, Gain, Hit

(* The round trip of a position that is closed on a bar for a reason.      *)
LEMMA Closed ==
  ASSUME NEW p \in Positions, p.side # "none", NEW b \in Bar, NEW most,
         Reason(p, b, most) # "none"
  PROVE  LET t == Trip(p, b.ts, ExitPrice(p, b, Reason(p, b, most)), Reason(p, b, most)) IN
         /\ t \in Trips /\ t.side = p.side /\ t.from = p.ts /\ t.entry = p.price /\ t.to = b.ts
         /\ AtExit(t, b)
<1> DEFINE reason == Reason(p, b, most)
           exit == ExitPrice(p, b, reason)
           t == Trip(p, b.ts, exit, reason)
<1>1. reason \in {"stop_loss", "tp2", "tp1", "time_stop", "opposite_signal", "max_hold"}
  BY DEF Reason, Hit
<1>2. p.side \in {"Buy", "Sell"} /\ p.price \in Int /\ p.ts \in Int /\ b.ts \in Int /\ b.close \in Int
  BY DEF Positions, Side, Bar
<1>3. reason \in {"stop_loss", "tp2", "tp1"} =>
        exit = IF p.side = "Buy" THEN p.price + Level(reason) ELSE p.price - Level(reason)
  BY DEF ExitPrice
<1>4. /\ reason = "stop_loss" => Level(reason) = -StopAt
      /\ reason = "tp1" => Level(reason) = Tp1At
      /\ reason = "tp2" => Level(reason) = Tp2At
  BY DEF Level
<1>5. exit \in Int
  <2>1. CASE reason \in {"stop_loss", "tp2", "tp1"}
    BY <1>2, <1>3, <1>4, <2>1, Distances
  <2>2. CASE reason \notin {"stop_loss", "tp2", "tp1"}
    BY <1>2, <2>2 DEF ExitPrice
  <2> QED
    BY <2>1, <2>2
<1>6. reason \in {"stop_loss", "tp2", "tp1"} => Gain(p.side, p.price, exit) = Level(reason)
  <2> HIDE DEF reason, exit
  <2> QED
    BY <1>2, <1>3, <1>4, Distances DEF Gain
<1>7. /\ Hit(p, b) # "none" => reason = Hit(p, b)
      /\ Hit(p, b) \in {"stop_loss", "tp2", "tp1", "none"}
  BY DEF Reason, Hit
<1>8. /\ Worst(p, b) <= -StopAt => Hit(p, b) = "stop_loss"
      /\ ~(Worst(p, b) <= -StopAt) /\ Best(p, b) >= Tp2At => Hit(p, b) = "tp2"
      /\ ~(Worst(p, b) <= -StopAt) /\ ~(Best(p, b) >= Tp2At) /\ Best(p, b) >= Tp1At
           => Hit(p, b) = "tp1"
  BY DEF Hit
<1>9. Worst(p, b) \in Int /\ Best(p, b) \in Int
  BY LevelsAre
<1> HIDE DEF reason, exit
<1>10. /\ t.side = p.side /\ t.from = p.ts /\ t.entry = p.price /\ t.to = b.ts /\ t.exit = exit
       /\ t.why = reason
  BY DEF Trip
<1>11. t \in Trips
  BY <1>1, <1>2, <1>5 DEF Trip, Trips, Side, Reasons
<1>12. Reached(t, b).worst = Worst(p, b) /\ Reached(t, b).best = Best(p, b)
  BY <1>10 DEF Reached, Worst, Best
<1>13. AtExit(t, b)
  <2> HIDE DEF t
  <2> QED
    BY <1>4, <1>6, <1>7, <1>8, <1>9, <1>10, <1>12, Distances DEF AtExit
<1> QED
  BY <1>10, <1>11, <1>13 DEF t, exit, reason
LEMMA Product ==
  ASSUME NEW a \in Nat, NEW m \in Nat, a + 1 <= m, NEW step \in Nat
  PROVE  (a + 1) * step = a * step + step /\ (a + 1) * step <= m * step
OBVIOUS

(* What a position has met that is still open when bar n comes.            *)
LEMMA HeldIs ==
  ASSUME NEW bars \in Series, Len(bars) >= 2, NEW n \in 1 .. Len(bars),
         NEW p \in Positions, p.side # "none", Held(p, bars, n - 1)
  PROVE  /\ n > 1 /\ p.ts < bars[n].ts /\ p.bars + 1 <= MaxHoldBars(bars)
         /\ \A i \in 1 .. n - 1 : p.ts < bars[i].ts => Quiet(p, bars[i])
         /\ Regular(bars) => /\ bars[n].ts = p.ts + (p.bars + 1) * (bars[2].ts - bars[1].ts)
                            /\ bars[n].ts - p.ts <= LongestTrip(bars)
<1> DEFINE step == bars[2].ts - bars[1].ts
<1>1. /\ n \in Nat /\ n > 1 /\ n \in DOMAIN bars /\ n - 1 \in DOMAIN bars
      /\ 1 \in DOMAIN bars /\ 2 \in DOMAIN bars
  <2>1. n - 1 > 0
    BY DEF Held
  <2> QED
    BY <2>1 DEF Series
<1>2. /\ bars[n].ts \in Int /\ bars[n - 1].ts \in Int /\ bars[n - 1].ts < bars[n].ts
      /\ p.ts \in Int /\ p.bars \in Nat /\ p.ts <= bars[n - 1].ts
      /\ MaxHoldBars(bars) \in Nat /\ step \in Nat
      /\ MaxHoldBars(bars) * step <= LongestTrip(bars)
  <2>1. bars[n].ts \in Int /\ bars[n - 1].ts \in Int /\ bars[n - 1].ts < bars[n].ts
    BY <1>1, Later
  <2>2. p.ts \in Int /\ p.bars \in Nat
    BY DEF Positions
  <2> QED
    BY <2>1, <2>2, LongestHold DEF Held
<1>3. p.ts < bars[n].ts
  BY <1>2
<1>4. p.bars + 1 <= MaxHoldBars(bars)
  BY <1>2 DEF Held
<1>5. ASSUME NEW i \in 1 .. n - 1, p.ts < bars[i].ts
      PROVE  Quiet(p, bars[i])
  BY <1>5 DEF Held
<1>6. ASSUME Regular(bars)
      PROVE  /\ bars[n].ts = p.ts + (p.bars + 1) * step
             /\ bars[n].ts - p.ts <= LongestTrip(bars)
  <2>1. bars[n].ts - bars[n - 1].ts = step
    <3>1. CASE n = 2
      BY <3>1
    <3>2. CASE n # 2
      BY <1>1, <1>6, <3>2 DEF Regular
    <3> QED
      BY <3>1, <3>2
  <2>2. bars[n - 1].ts = p.ts + p.bars * step
    BY <1>6 DEF Held
  <2> HIDE DEF step
  <2>3. /\ (p.bars + 1) * step = p.bars * step + step
        /\ (p.bars + 1) * step <= MaxHoldBars(bars) * step
    <3>1. p.bars \in Nat /\ MaxHoldBars(bars) \in Nat /\ step \in Nat
      BY <1>2
    <3> QED
      BY <3>1, <1>4, Product
  <2>4. p.bars * step \in Int
    BY <1>2
  <2>5. LongestTrip(bars) \in Int
    BY <1>2, Distances DEF LongestTrip, step
  <2>6. (p.bars + 1) * step \in Int /\ MaxHoldBars(bars) * step \in Int
    BY <1>2
  <2>7. bars[n].ts = p.ts + (p.bars + 1) * step
    <3> DEFINE held == p.bars * step
               more == (p.bars + 1) * step
               now == bars[n].ts
               before == bars[n - 1].ts
    <3>1. more = held + step /\ held \in Int /\ step \in Int /\ more \in Int
      BY <1>2, <2>3, <2>4, <2>6
    <3>2. now \in Int /\ before \in Int /\ p.ts \in Int
      BY <1>2
    <3>3. now - before = step /\ before = p.ts + held
      BY <2>1, <2>2
    <3> HIDE DEF held, more, now, before
    <3>4. now = p.ts + more
      <4>1. Ticks(p.ts, held, step, more, before, now)
        BY <3>1, <3>2, <3>3 DEF Ticks
      <4> QED
        BY <4>1, TicksAddUp
    <3> QED
      BY <3>4 DEF more, now
  <2>8. bars[n].ts - p.ts <= LongestTrip(bars)
    <3> DEFINE more == (p.bars + 1) * step
               most == MaxHoldBars(bars) * step
    <3>1. /\ more <= most /\ more \in Int /\ most \in Int /\ bars[n].ts = p.ts + more
          /\ most <= LongestTrip(bars)
      BY <1>2, <2>3, <2>6, <2>7
    <3> HIDE DEF more, most
    <3> QED
      BY <1>2, <2>5, <3>1
  <2> QED
    BY <2>7, <2>8
<1> QED
  BY <1>1, <1>3, <1>4, <1>5, <1>6

LEMMA ExitsKeeps ==
  ASSUME NEW bars \in Series, Len(bars) >= 2, NEW n \in 1 .. Len(bars), NEW s,
         Simulation(s, bars, n - 1)
  PROVE  Simulation(Exits(s, bars[n], MaxHoldBars(bars)), bars, n)
<1> DEFINE b == bars[n]
           p == s.pos
           most == MaxHoldBars(bars)
           step == bars[2].ts - bars[1].ts
           next == Exits(s, b, most)
           reason == Reason(p, b, most)
<1>1. /\ bars \in Seq(Bar) /\ b \in Bar /\ b.ts \in Int /\ n \in Nat /\ n > 0 /\ n \in DOMAIN bars
      /\ DOMAIN bars = 1 .. Len(bars)
  <2>1. bars \in Seq(Bar) /\ n \in DOMAIN bars /\ DOMAIN bars = 1 .. Len(bars)
    BY DEF Series
  <2> QED
    BY <2>1, Later
<1>2. n > 1 => n - 1 \in DOMAIN bars /\ bars[n - 1].ts \in Int /\ bars[n - 1].ts < b.ts
  BY <1>1, Later
<1>3. /\ s \in [pos : Positions, trips : Seq(Trips)] /\ p \in Positions /\ s.trips \in Seq(Trips)
      /\ \A k \in DOMAIN s.trips :
           /\ Sound(s.trips[k], bars) /\ s.trips[k].to \in Int
           /\ k > 1 => s.trips[k - 1].to <= s.trips[k].from
           /\ n - 1 > 0 /\ s.trips[k].to <= bars[n - 1].ts
           /\ p.side # "none" => s.trips[k].to <= p.ts
      /\ p.side # "none" => Held(p, bars, n - 1)
  <2>1. s \in [pos : Positions, trips : Seq(Trips)]
    BY DEF Simulation
  <2>2. \A k \in DOMAIN s.trips : s.trips[k] \in Trips
    BY <2>1
  <2>3. \A k \in DOMAIN s.trips : s.trips[k].to \in Int
    BY <2>2 DEF Trips
  <2> QED
    BY <2>1, <2>3 DEF Simulation
<1>4. \A k \in DOMAIN s.trips : s.trips[k].to <= b.ts
  <2> SUFFICES ASSUME NEW k \in DOMAIN s.trips PROVE s.trips[k].to <= b.ts
    OBVIOUS
  <2>1. n > 1 /\ s.trips[k].to \in Int /\ s.trips[k].to <= bars[n - 1].ts
    BY <1>1, <1>3
  <2> HIDE DEF b, p
  <2> QED
    BY <1>1, <1>2, <2>1
<1>5. CASE p.side = "none"
  <2>1. next = s
    BY <1>5 DEF Exits
  <2> QED
    BY <1>1, <1>3, <1>4, <1>5, <2>1 DEF Simulation
<1>6. CASE p.side # "none" /\ reason = "none"
  <2>1. next = [s EXCEPT !.pos.bars = @ + 1]
    BY <1>6 DEF Exits
  <2> DEFINE q == [p EXCEPT !.bars = @ + 1]
  <2>2. next = [s EXCEPT !.pos = q]
    BY <2>1
  <2>3. /\ q \in Positions /\ q.bars = p.bars + 1 /\ q.side = p.side /\ q.ts = p.ts /\ q.price = p.price
        /\ p.bars \in Nat /\ p.ts \in Int
    BY <1>3 DEF Positions
  <2>4. next.pos = q /\ next.trips = s.trips /\ next \in [pos : Positions, trips : Seq(Trips)]
    BY <1>3, <2>2, <2>3
  <2>5. Held(q, bars, n)
    <3>1. /\ n > 1 /\ p.ts < b.ts
          /\ \A i \in 1 .. n - 1 : p.ts < bars[i].ts => Quiet(p, bars[i])
          /\ Regular(bars) => b.ts = p.ts + (p.bars + 1) * step
      BY <1>3, <1>6, HeldIs
    <3>2. /\ Hit(p, b) = "none" /\ ~(b.ts - p.ts >= MaxHold) /\ b.signal # Opposite(p.side)
          /\ ~(p.bars + 1 >= most)
      BY <1>6 DEF Reason
    <3>3. most \in Nat
      BY LongestHold
    <3>4. Quiet(p, b)
      <4>1. Worst(p, b) > -StopAt /\ Best(p, b) < Tp1At
        BY <1>1, <1>3, <1>6, <3>2, LevelsAre
      <4>2. b.ts - p.ts < MaxHold
        BY <1>1, <2>3, <3>2, Distances
      <4> QED
        BY <3>2, <4>1, <4>2 DEF Quiet
    <3>5. ASSUME NEW i \in 1 .. n, q.ts < bars[i].ts
          PROVE  Quiet(q, bars[i])
      <4>1. i = n \/ i \in 1 .. n - 1
        BY <1>1
      <4>2. Quiet(p, bars[i])
        BY <2>3, <3>1, <3>4, <3>5, <4>1
      <4> HIDE DEF q, p
      <4> QED
        BY <2>3, <4>2 DEF Quiet, Worst, Best
    <3>6. q.bars < MaxHoldBars(bars)
      BY <2>3, <3>2, <3>3
    <3>7. q.ts <= bars[n].ts
      BY <1>1, <2>3, <3>1
    <3>8. Regular(bars) => bars[n].ts = q.ts + q.bars * (bars[2].ts - bars[1].ts)
      BY <2>3, <3>1
    <3> HIDE DEF q, p
    <3> QED
      BY <1>1, <3>5, <3>6, <3>7, <3>8 DEF Held
  <2> HIDE DEF q, p, next, b
  <2>6. Simulation(next, bars, n)
    BY <1>1, <1>3, <1>4, <2>3, <2>4, <2>5 DEF Simulation, b
  <2> QED
    BY <2>6 DEF next, b
<1>7. CASE p.side # "none" /\ reason # "none"
  <2> DEFINE t == Trip(p, b.ts, ExitPrice(p, b, reason), reason)
  <2>1. next = [s EXCEPT !.pos.side = "none", !.trips = Append(@, t)]
    BY <1>7 DEF Exits
  <2>2. /\ t \in Trips /\ t.side = p.side /\ t.from = p.ts /\ t.entry = p.price /\ t.to = b.ts
        /\ AtExit(t, b)
    BY <1>1, <1>3, <1>7, Closed
  <2> DEFINE q == [p EXCEPT !.side = "none"]
  <2>3. next = [s EXCEPT !.pos = q, !.trips = Append(@, t)]
    BY <2>1
  <2>4. q \in Positions /\ q.side = "none"
    BY <1>3 DEF Positions
  <2> HIDE DEF t
  <2> HIDE DEF q, p, next
  <2>5. next.pos = q /\ next.trips = Append(s.trips, t) /\ next \in [pos : Positions, trips : Seq(Trips)]
    <3>1. Append(s.trips, t) \in Seq(Trips)
      BY <1>3, <2>2
    <3>2. q \in Positions
      BY <2>4
    <3> QED
      BY <1>3, <2>3, <3>1, <3>2
  <2>6. Sound(t, bars)
    <3>1. /\ p.ts \in Int /\ n > 1
          /\ \A i \in 1 .. n - 1 : p.ts < bars[i].ts => Quiet(p, bars[i])
          /\ Regular(bars) => b.ts - p.ts <= LongestTrip(bars)
      BY <1>3, <1>7, HeldIs DEF Positions, p
    <3>2. ASSUME NEW i \in DOMAIN bars, t.from < bars[i].ts, bars[i].ts < t.to
          PROVE  Calms(t, bars[i], t.from)
      <4>1. i \in 1 .. n - 1
        <5>1. i < n
          BY <1>1, <2>2, <3>2, Later
        <5> QED
          BY <1>1, <5>1
      <4>2. Quiet(p, bars[i])
        BY <2>2, <3>1, <3>2, <4>1
      <4> QED
        BY <2>2, <4>2 DEF Calms, Quiet, Reached, Worst, Best
    <3>3. ASSUME NEW i \in DOMAIN bars, bars[i].ts = t.to
          PROVE  AtExit(t, bars[i])
      <4>1. ~(i < n) /\ ~(n < i)
        BY <1>1, <2>2, <3>3, Later
      <4>2. i = n
        BY <1>1, <4>1
      <4> QED
        BY <2>2, <4>2
    <3> QED
      BY <2>2, <3>1, <3>2, <3>3 DEF Sound
  <2>7. /\ Len(s.trips) \in Nat /\ DOMAIN s.trips = 1 .. Len(s.trips)
        /\ DOMAIN next.trips = 1 .. Len(s.trips) + 1
        /\ \A k \in DOMAIN s.trips : next.trips[k] = s.trips[k]
        /\ next.trips[Len(s.trips) + 1] = t
    BY <1>3, <2>2, <2>5
  <2>8. ASSUME NEW k \in DOMAIN next.trips
        PROVE  /\ Sound(next.trips[k], bars)
               /\ k > 1 => next.trips[k - 1].to <= next.trips[k].from
               /\ next.trips[k].to <= bars[n].ts
    <3>1. CASE k \in DOMAIN s.trips
      <4>1. k > 1 => k - 1 \in DOMAIN s.trips
        BY <2>7
      <4> QED
        BY <1>3, <1>4, <2>7, <3>1, <4>1
    <3>2. CASE k \notin DOMAIN s.trips
      <4>1. k = Len(s.trips) + 1 /\ (k > 1 => k - 1 \in DOMAIN s.trips)
        BY <2>7, <2>8, <3>2
      <4> QED
        BY <1>1, <1>3, <1>7, <2>2, <2>6, <2>7, <4>1, SMTT(30)
    <3> QED
      BY <3>1, <3>2
  <2>9. Simulation(next, bars, n)
    BY <1>1, <2>4, <2>5, <2>8 DEF Simulation
  <2> QED
    BY <2>9 DEF next
<1> QED
  BY <1>5, <1>6, <1>7
LEMMA Keeps ==
  ASSUME NEW bars \in Series, Len(bars) >= 2
  PROVE  \A n \in 0 .. Len(bars) : Simulation(After(bars)[n], bars, n)
<1> DEFINE Bad == {n \in 0 .. Len(bars) : ~Simulation(After(bars)[n], bars, n)}
<1> SUFFICES ASSUME Bad # {} PROVE FALSE
  OBVIOUS
<1>1. Len(bars) \in Nat /\ Bad \in SUBSET Nat
  BY DEF Series
<1>2. PICK n \in Bad : \A m \in Bad : n <= m
  BY <1>1, Smallest
<1>3. n # 0
  <2>1. Simulation(Flat, bars, 0)
    BY DEF Simulation, Flat, Positions
  <2> QED
    BY <1>1, <2>1, Simulated
<1>4. n \in 1 .. Len(bars) /\ n - 1 \in 0 .. Len(bars) /\ ~(n <= n - 1)
  BY <1>1, <1>3
<1>5. Simulation(After(bars)[n - 1], bars, n - 1)
  BY <1>2, <1>4
<1>6. Simulation(Exits(After(bars)[n - 1], bars[n], MaxHoldBars(bars)), bars, n)
  BY <1>4, <1>5, ExitsKeeps
<1>7. Simulation(After(bars)[n], bars, n)
  BY <1>1, <1>4, <1>6, EntersKeeps, Simulated DEF Step
<1> QED
  BY <1>2, <1>7

(* The simulation of every series of bars closes positions conservatively  *)
(* (Conservative; _run_protection_aware_simulation): on the first bar that *)
(* reaches a level, the stop first, one position at a time, and none of    *)
(* them held for longer than max_hold_seconds if no bar is missing.        *)
THEOREM BacktestIsConservative ==
  ASSUME NEW bars \in Series
  PROVE  Conservative(bars)
<1>1. CASE Len(bars) < 2
  <2>1. RoundTrips(bars) = <<>>
    BY <1>1 DEF RoundTrips
  <2> QED
    BY <2>1 DEF Conservative
<1>2. CASE ~(Len(bars) < 2)
  <2>1. Len(bars) \in Nat /\ Len(bars) >= 2
    BY <1>2 DEF Series
  <2>2. Simulation(After(bars)[Len(bars)], bars, Len(bars))
    BY <2>1, Keeps
  <2> QED
    BY <2>1, <2>2, TripsAre, SoundTrips DEF Simulation
<1> QED
  BY <1>1, <1>2

(* The bars the runs check are such bars.                                  *)
LEMMA CheckedBarsAreBars ==
  ASSUME NEW times \in Times, NEW b2 \in Shape, NEW b3 \in Shape, NEW b4 \in Shape,
         NEW signals \in [1 .. 4 -> {"none", "Buy", "Sell"}]
  PROVE  Bars(times, <<Calm, b2, b3, b4>>, signals) \in Series
<1> DEFINE shapes == <<Calm, b2, b3, b4>>
           bars == Bars(times, shapes, signals)
<1>1. /\ DOMAIN times = 1 .. 4 /\ \A i \in 1 .. 4 : times[i] \in Int
      /\ times[1] < times[2] /\ times[2] < times[3] /\ times[3] < times[4]
  <2>1. \E a, c, d, e \in Int : times = <<a, c, d, e>> /\ a < c /\ c < d /\ d < e
    BY DEF Times
  <2>2. PICK a \in Int, c \in Int, d \in Int, e \in Int :
          times = <<a, c, d, e>> /\ a < c /\ c < d /\ d < e
    BY <2>1
  <2>3. times[1] = a /\ times[2] = c /\ times[3] = d /\ times[4] = e /\ DOMAIN times = 1 .. 4
    BY <2>2
  <2>4. \A i \in 1 .. 4 : i = 1 \/ i = 2 \/ i = 3 \/ i = 4
    OBVIOUS
  <2> QED
    BY <2>2, <2>3, <2>4
<1>2. \A shape \in {Calm, b2, b3, b4} : shape.low \in Int /\ shape.high \in Int /\ shape.close \in Int
  BY DEF Shape, Calm
<1>3. \A i \in 1 .. 4 : times[i] \in Int /\ shapes[i] \in {Calm, b2, b3, b4} /\ signals[i] \in Side \cup {"none"}
  <2> SUFFICES ASSUME NEW i \in 1 .. 4
               PROVE  times[i] \in Int /\ shapes[i] \in {Calm, b2, b3, b4}
                      /\ signals[i] \in Side \cup {"none"}
    OBVIOUS
  <2>1. times[i] \in Int /\ signals[i] \in Side \cup {"none"}
    BY <1>1 DEF Side
  <2>2. shapes[1] = Calm /\ shapes[2] = b2 /\ shapes[3] = b3 /\ shapes[4] = b4
    OBVIOUS
  <2>3. i = 1 \/ i = 2 \/ i = 3 \/ i = 4
    OBVIOUS
  <2> QED
    BY <2>1, <2>2, <2>3
<1> HIDE DEF shapes
<1>4. \A i \in 1 .. 4 : bars[i] \in Bar /\ bars[i].ts = times[i]
  BY <1>1, <1>2, <1>3 DEF Bars, Bar
<1>5. DOMAIN bars = 1 .. 4 /\ bars = [i \in 1 .. 4 |-> bars[i]]
  BY <1>1 DEF Bars
<1> HIDE DEF bars
<1>6. bars \in Seq(Bar)
  BY <1>4, <1>5
<1>7. \A i, j \in 1 .. 4 : i < j => times[i] < times[j]
  <2>1. times[1] \in Int /\ times[2] \in Int /\ times[3] \in Int /\ times[4] \in Int
    BY <1>3
  <2> QED
    BY <1>1, <2>1
<1> QED
  BY <1>4, <1>5, <1>6, <1>7 DEF Series, bars, shapes

(* So the backtests of a search do, on the bars the runs check them with.  *)
THEOREM TripsAreConservative == Spec => []TripsConservative
<1>1. TripsConservative
  BY CheckedBarsAreBars, BacktestIsConservative DEF TripsConservative, BarsConservative, AllBars
<1>2. TripsConservative'
  BY CheckedBarsAreBars, BacktestIsConservative DEF TripsConservative, BarsConservative, AllBars
<1> QED
  BY <1>1, <1>2, PTL DEF Spec

----------------------------------------------------------------------------
(* The candles.  Sets of times are sorted by rank: the ranks of a finite   *)
(* set are 1 .. its size, each the rank of one element.                    *)
UpTo(S, t) == {u \in S : u <= t}
Rank(S, t) == Cardinality(UpTo(S, t))

LEMMA RankType ==
  ASSUME NEW S \in SUBSET Nat, IsFiniteSet(S), NEW t \in S
  PROVE  Rank(S, t) \in 1 .. Cardinality(S) /\ Cardinality(S) \in Nat
<1>1. IsFiniteSet(UpTo(S, t)) /\ Cardinality(UpTo(S, t)) <= Cardinality(S) /\ t \in UpTo(S, t)
  BY FS_Subset DEF UpTo
<1>2. /\ Cardinality(UpTo(S, t)) \in Nat /\ Cardinality(UpTo(S, t)) # 0
      /\ Cardinality(S) \in Nat
  BY <1>1, FS_CardinalityType, FS_EmptySet
<1> QED
  BY <1>1, <1>2 DEF Rank

LEMMA RankOrder ==
  ASSUME NEW S \in SUBSET Nat, IsFiniteSet(S), NEW s \in S, NEW t \in S, s < t
  PROVE  Rank(S, s) < Rank(S, t)
<1>1. UpTo(S, s) \subseteq UpTo(S, t) /\ t \in UpTo(S, t) /\ t \notin UpTo(S, s)
  <2>1. s \in Nat /\ t \in Nat /\ t <= t /\ ~(t <= s)
    OBVIOUS
  <2>2. \A u \in S : u <= s => u <= t
    <3> TAKE u \in S
    <3>1. u \in Nat
      OBVIOUS
    <3> QED
      BY <2>1, <3>1
  <2> QED
    BY <2>1, <2>2 DEF UpTo
<1>2. IsFiniteSet(UpTo(S, s)) /\ IsFiniteSet(UpTo(S, t))
  BY FS_Subset DEF UpTo
<1>3. /\ Cardinality(UpTo(S, s)) <= Cardinality(UpTo(S, t))
      /\ Cardinality(UpTo(S, s)) # Cardinality(UpTo(S, t))
  BY <1>1, <1>2, FS_Subset
<1>4. Cardinality(UpTo(S, s)) \in Nat /\ Cardinality(UpTo(S, t)) \in Nat
  BY <1>2, FS_CardinalityType
<1> QED
  BY <1>3, <1>4 DEF Rank

LEMMA RankUnique ==
  ASSUME NEW S \in SUBSET Nat, IsFiniteSet(S), NEW s \in S, NEW t \in S,
         Rank(S, s) = Rank(S, t)
  PROVE  s = t
<1>1. Rank(S, s) \in Nat /\ Rank(S, t) \in Nat
  BY RankType
<1>2. s < t \/ t < s \/ s = t
  OBVIOUS
<1> QED
  BY <1>1, <1>2, RankOrder

LEMMA RankOnto ==
  ASSUME NEW S \in SUBSET Nat, IsFiniteSet(S), NEW n \in 1 .. Cardinality(S)
  PROVE  \E s \in S : Rank(S, s) = n
<1> DEFINE f == [s \in S |-> Rank(S, s)]
           R == 1 .. Cardinality(S)
<1>1. Cardinality(S) \in Nat
  BY FS_CardinalityType
<1>2. IsFiniteSet(R) /\ Cardinality(R) = Cardinality(S)
  <2>1. IsFiniteSet(R)
    BY <1>1, FS_Interval
  <2>2. Cardinality(R) = IF 1 > Cardinality(S) THEN 0 ELSE Cardinality(S) - 1 + 1
    BY <1>1, FS_Interval
  <2> QED
    BY <1>1, <2>1, <2>2
<1>3. f \in [S -> R]
  BY RankType
<1>4. \A s, t \in S : f[s] = f[t] => s = t
  BY RankUnique
<1>5. f \in Injection(S, R)
  BY <1>3, <1>4 DEF Injection, IsInjective
<1> HIDE DEF f, R
<1>6. f \in Surjection(S, R)
  BY <1>2, <1>5, FS_Injection
<1>7. \E s \in S : f[s] = n
  BY <1>6 DEF Surjection, R
<1> QED
  BY <1>7 DEF f

LEMMA AscendingIs ==
  ASSUME NEW S \in SUBSET Nat, IsFiniteSet(S)
  PROVE  /\ Ascending(S) \in Seq(S) /\ Len(Ascending(S)) = Cardinality(S)
         /\ Cardinality(S) \in Nat
         /\ \A i \in 1 .. Cardinality(S) : Ascending(S)[i] \in S /\ Rank(S, Ascending(S)[i]) = i
<1> DEFINE A == Ascending(S)
<1>1. Cardinality(S) \in Nat
  BY FS_CardinalityType
<1>2. A = [i \in 1 .. Cardinality(S) |-> CHOOSE t \in S : Rank(S, t) = i]
  BY DEF Ascending, Rank, UpTo
<1> HIDE DEF A
<1>3. ASSUME NEW i \in 1 .. Cardinality(S) PROVE A[i] \in S /\ Rank(S, A[i]) = i
  <2>1. \E t \in S : Rank(S, t) = i
    BY RankOnto
  <2>2. A[i] = CHOOSE t \in S : Rank(S, t) = i
    BY <1>2
  <2> QED
    BY <2>1, <2>2
<1>4. A \in Seq(S) /\ Len(A) = Cardinality(S)
  BY <1>1, <1>2, <1>3
<1> QED
  BY <1>1, <1>3, <1>4 DEF A

LEMMA AscendingSays ==
  ASSUME NEW S \in SUBSET Nat, IsFiniteSet(S)
  PROVE  ToSet(Ascending(S)) = S
<1>1. \A s \in S : \E i \in 1 .. Cardinality(S) : Ascending(S)[i] = s
  <2> TAKE s \in S
  <2>1. Rank(S, s) \in 1 .. Cardinality(S)
    BY RankType
  <2>2. Ascending(S)[Rank(S, s)] \in S /\ Rank(S, Ascending(S)[Rank(S, s)]) = Rank(S, s)
    BY <2>1, AscendingIs
  <2> DEFINE i == Rank(S, s)
  <2>3. \A x, y \in S : Rank(S, x) = Rank(S, y) => x = y
    BY RankUnique
  <2>4. Ascending(S)[i] = s
    BY <2>2, <2>3, Zenon
  <2> HIDE DEF i
  <2>5. i \in 1 .. Cardinality(S)
    BY <2>1 DEF i
  <2> QED
    BY <2>4, <2>5
<1>2. /\ DOMAIN Ascending(S) = 1 .. Cardinality(S)
      /\ \A i \in 1 .. Cardinality(S) : Ascending(S)[i] \in S
  BY AscendingIs
<1> DEFINE A == Ascending(S)
<1> HIDE DEF A
<1>3. {A[i] : i \in DOMAIN A} = S
  BY <1>1, <1>2, Zenon DEF A
<1> QED
  BY <1>3 DEF A, ToSet

LEMMA AscendingUnique ==
  ASSUME NEW S \in SUBSET Nat, IsFiniteSet(S), NEW q \in Seq(S), Len(q) = Cardinality(S),
         \A i \in 1 .. Cardinality(S) : Rank(S, q[i]) = i
  PROVE  q = Ascending(S)
<1>1. ASSUME NEW i \in 1 .. Cardinality(S) PROVE q[i] = Ascending(S)[i]
  <2>1. q[i] \in S
    BY DEF Seq
  <2>2. /\ Ascending(S)[i] \in S /\ Rank(S, Ascending(S)[i]) = i
        /\ Rank(S, q[i]) = i
    BY AscendingIs
  <2>3. \A x, y \in S : Rank(S, x) = Rank(S, y) => x = y
    BY RankUnique
  <2> QED
    BY <2>1, <2>2, <2>3, Zenon
<1>2. Ascending(S) \in Seq(S) /\ Len(Ascending(S)) = Cardinality(S)
  BY AscendingIs
<1> DEFINE A == Ascending(S)
<1> HIDE DEF A
<1> QED
  BY <1>1, <1>2 DEF A

(* Sorted times followed by sorted later times.                            *)
Joined(S, T) == Ascending(S) \o Ascending(T)

LEMMA AscendingJoin ==
  ASSUME NEW S \in SUBSET Nat, IsFiniteSet(S), NEW T \in SUBSET Nat, IsFiniteSet(T),
         \A s \in S, t \in T : s < t
  PROVE  Joined(S, T) = Ascending(S \cup T)
<1> DEFINE U == S \cup T
           m == Cardinality(S)
           n == Cardinality(T)
           q == Ascending(S) \o Ascending(T)
<1>1. /\ Ascending(S) \in Seq(S) /\ Len(Ascending(S)) = m /\ m \in Nat
      /\ \A i \in 1 .. m : Ascending(S)[i] \in S /\ Rank(S, Ascending(S)[i]) = i
  BY AscendingIs
<1>2. /\ Ascending(T) \in Seq(T) /\ Len(Ascending(T)) = n /\ n \in Nat
      /\ \A i \in 1 .. n : Ascending(T)[i] \in T /\ Rank(T, Ascending(T)[i]) = i
  BY AscendingIs
<1>3. U \in SUBSET Nat /\ IsFiniteSet(U) /\ Cardinality(U) = m + n
  <2>1. S \cap T = {}
    <3> SUFFICES ASSUME NEW x \in S, x \in T PROVE FALSE
      OBVIOUS
    <3>1. x < x /\ x \in Nat
      OBVIOUS
    <3> QED
      BY <3>1
  <2>2. Cardinality(S \cap T) = 0
    BY <2>1, FS_EmptySet
  <2>3. IsFiniteSet(S \cup T) /\ Cardinality(S \cup T) = m + n - Cardinality(S \cap T)
    BY FS_Union
  <2>4. S \cup T \in SUBSET Nat
    OBVIOUS
  <2> HIDE DEF m, n
  <2>5. m + n - 0 = m + n
    BY <1>1, <1>2
  <2> QED
    BY <2>2, <2>3, <2>4, <2>5
<1>4. \A s \in S : Rank(U, s) = Rank(S, s)
  <2> TAKE s \in S
  <2>1. \A t \in T : ~(t <= s)
    <3> TAKE t \in T
    <3>1. s \in Nat /\ t \in Nat /\ s < t
      OBVIOUS
    <3> QED
      BY <3>1
  <2>2. UpTo(U, s) = UpTo(S, s)
    BY <2>1 DEF UpTo
  <2> QED
    BY <2>2 DEF Rank
<1>5. \A t \in T : Rank(U, t) = m + Rank(T, t)
  <2> TAKE t \in T
  <2>1. \A s \in S : s <= t /\ s \notin T
    <3> TAKE s \in S
    <3>1. s \in Nat /\ t \in Nat /\ s < t
      OBVIOUS
    <3>2. s \notin T
      <4> SUFFICES ASSUME s \in T PROVE FALSE
        OBVIOUS
      <4>1. s < s
        OBVIOUS
      <4> QED
        BY <3>1, <4>1
    <3> QED
      BY <3>1, <3>2
  <2>2. UpTo(U, t) = S \cup UpTo(T, t) /\ S \cap UpTo(T, t) = {}
    BY <2>1 DEF UpTo
  <2>3. IsFiniteSet(UpTo(T, t)) /\ Cardinality(UpTo(T, t)) \in Nat
    BY FS_Subset, FS_CardinalityType DEF UpTo
  <2> HIDE DEF U
  <2>4. Cardinality(S \cup UpTo(T, t)) = m + Cardinality(UpTo(T, t)) - Cardinality({})
    BY <2>2, <2>3, FS_Union
  <2> QED
    BY <1>1, <2>2, <2>3, <2>4, FS_EmptySet DEF Rank
<1>6. q \in Seq(U) /\ Len(q) = m + n
  BY <1>1, <1>2
<1>7. ASSUME NEW i \in 1 .. m + n PROVE Rank(U, q[i]) = i
  <2>1. CASE i <= m
    <3>1. q[i] = Ascending(S)[i] /\ i \in 1 .. m
      BY <1>1, <1>2, <2>1
    <3> HIDE DEF q, U
    <3> QED
      BY <1>1, <1>4, <3>1
  <2>2. CASE i > m
    <3>1. q[i] = Ascending(T)[i - m] /\ i - m \in 1 .. n
      BY <1>1, <1>2, <2>2
    <3>2. Ascending(T)[i - m] \in T /\ Rank(T, Ascending(T)[i - m]) = i - m
      BY <1>2, <3>1
    <3> HIDE DEF q, U, m, n
    <3>3. Rank(U, q[i]) = m + (i - m)
      BY <1>5, <3>1, <3>2
    <3> QED
      BY <1>1, <1>2, <3>3
  <2> QED
    BY <1>1, <1>2, <2>1, <2>2
<1> HIDE DEF q, U
<1> QED
  BY <1>3, <1>6, <1>7, AscendingUnique DEF q, U, Joined

(* Of some times, those that remain above a bound are of finitely many.    *)
LEMMA BoundedIsFinite ==
  ASSUME NEW S \in SUBSET Nat, NEW n \in Int, \A t \in S : t <= n
  PROVE  IsFiniteSet(S)
<1>1. IsFiniteSet(0 .. n)
  BY FS_Interval
<1>2. S \in SUBSET (0 .. n)
  OBVIOUS
<1> QED
  BY <1>1, <1>2, FS_Subset

LEMMA Latest ==
  ASSUME NEW S \in SUBSET Nat, S # {}, NEW n \in Int, \A t \in S : t <= n
  PROVE  \E t \in S : \A u \in S : u <= t
<1> DEFINE Back == {k \in Nat : n - k \in S}
<1>1. Back \in SUBSET Nat
  OBVIOUS
<1>2. Back # {}
  <2>1. PICK t \in S : TRUE
    OBVIOUS
  <2>2. t \in Nat /\ t <= n
    BY <2>1
  <2>3. n - t \in Nat /\ n - (n - t) = t
    BY <2>2
  <2>4. n - t \in Back
    BY <2>1, <2>3
  <2> QED
    BY <2>4
<1>3. PICK k \in Back : \A m \in Back : k <= m
  BY <1>1, <1>2, Smallest
<1>4. k \in Nat /\ n - k \in S
  BY <1>3
<1>5. ASSUME NEW u \in S PROVE u <= n - k
  <2>1. u \in Nat /\ u <= n
    OBVIOUS
  <2>2. n - u \in Nat /\ n - (n - u) = u
    BY <2>1
  <2>3. n - u \in Back
    BY <2>2
  <2>4. k <= n - u
    BY <1>3, <2>3
  <2> QED
    BY <1>4, <2>1, <2>4
<1> QED
  BY <1>4, <1>5

(* A request returns every candle from the oldest it returns on, and all   *)
(* of them if it returns fewer than were asked for.                        *)
Above(S, t) == {u \in S : u > t}

LEMMA NewestUp ==
  ASSUME NEW S \in SUBSET Nat, IsFiniteSet(S), NEW s \in Newest(S), NEW t \in S, s <= t
  PROVE  t \in Newest(S)
<1>1. s \in S /\ Cardinality(Above(S, s)) < Limit
  BY DEF Newest, Above
<1>2. Above(S, t) \subseteq Above(S, s)
  <2> SUFFICES ASSUME NEW u \in S, u > t PROVE u > s
    BY DEF Above
  <2>1. u \in Nat /\ s \in Nat /\ t \in Nat
    BY <1>1
  <2> QED
    BY <2>1
<1>3. IsFiniteSet(Above(S, s)) /\ IsFiniteSet(Above(S, t))
  BY FS_Subset DEF Above
<1>4. Cardinality(Above(S, t)) <= Cardinality(Above(S, s))
  BY <1>2, <1>3, FS_Subset
<1>5. /\ Cardinality(Above(S, t)) \in Nat /\ Cardinality(Above(S, s)) \in Nat /\ Limit \in Nat
  BY <1>3, FS_CardinalityType, BacktestAssumption
<1>6. Cardinality(Above(S, t)) < Limit
  BY <1>1, <1>4, <1>5
<1> QED
  BY <1>6 DEF Newest, Above

LEMMA NewestAll ==
  ASSUME NEW S \in SUBSET Nat, NEW n \in Int, \A t \in S : t <= n,
         Cardinality(Newest(S)) < Limit
  PROVE  Newest(S) = S
<1> DEFINE Rest == S \ Newest(S)
<1>1. IsFiniteSet(S)
  BY BoundedIsFinite
<1>2. SUFFICES ASSUME Rest # {} PROVE FALSE
  BY DEF Newest
<1>3. PICK t \in Rest : \A u \in Rest : u <= t
  BY <1>2, Latest
<1>4. t \in S /\ t \notin Newest(S)
  BY <1>3
<1>5. ~(Cardinality(Above(S, t)) < Limit)
  BY <1>4 DEF Newest, Above
<1>6. Above(S, t) \subseteq Newest(S)
  <2> SUFFICES ASSUME NEW u \in S, u > t, u \in Rest PROVE FALSE
    BY DEF Above
  <2>1. u \in Nat /\ t \in Nat /\ u <= t
    BY <1>3, <1>4
  <2> QED
    BY <2>1
<1>7. IsFiniteSet(Newest(S)) /\ IsFiniteSet(Above(S, t))
  BY <1>1, FS_Subset DEF Newest, Above
<1>8. /\ Cardinality(Above(S, t)) <= Cardinality(Newest(S))
      /\ Cardinality(Above(S, t)) \in Nat /\ Cardinality(Newest(S)) \in Nat /\ Limit \in Nat
  BY <1>6, <1>7, FS_Subset, FS_CardinalityType, BacktestAssumption
<1> QED
  BY <1>5, <1>8

LEMMA NewestSome ==
  ASSUME NEW S \in SUBSET Nat, NEW n \in Int, \A t \in S : t <= n, Newest(S) = {}
  PROVE  S = {}
<1>1. Cardinality(Newest(S)) = 0 /\ Limit \in Nat \ {0}
  BY FS_EmptySet, BacktestAssumption
<1>2. Cardinality(Newest(S)) < Limit
  BY <1>1
<1> QED
  BY <1>2, NewestAll

----------------------------------------------------------------------------
(* fetch_klines_for_symbol: what the requests from end on find, f being    *)
(* what those from an earlier time on do.                                  *)
Oldest(chunk) == CHOOSE t \in chunk : \A u \in chunk : t <= u

Requests(a, f, end) ==
  IF end <= a.first \/ Chunk(a, end) = {} THEN <<>>
  ELSE (IF LastChunk(Chunk(a, end)) THEN <<>> ELSE f[Oldest(Chunk(a, end)) - 1])
         \o Ascending(Chunk(a, end) \cap a.first .. a.last)

Requested(f, a, n) == f = [end \in -1 .. n |-> Requests(a, f, end)]
FromEach(a) == CHOOSE f : Requested(f, a, a.last)

LEMMA FetchedIs ==
  ASSUME NEW a
  PROVE  Fetched(a) = FromEach(a)[a.last]
BY DEF Fetched, FromEach, Requested, Requests, Oldest

IsArchive(a) == a.times \in SUBSET Nat /\ a.first \in Nat /\ a.last \in Nat

Started(a, end) == {t \in a.times : t <= end}

LEMMA OldestIs ==
  ASSUME NEW a, IsArchive(a), NEW end \in Int, Chunk(a, end) # {}
  PROVE  /\ Oldest(Chunk(a, end)) \in Chunk(a, end)
         /\ \A u \in Chunk(a, end) : Oldest(Chunk(a, end)) <= u
         /\ Oldest(Chunk(a, end)) - 1 \in -1 .. end - 1
<1> DEFINE C == Chunk(a, end)
<1>1. C \in SUBSET Nat /\ \A t \in C : t <= end
  BY DEF Chunk, Newest, IsArchive
<1>2. C # {}
  OBVIOUS
<1> HIDE DEF C
<1>3. \E t \in C : \A u \in C : t <= u
  BY <1>1, <1>2, Smallest
<1>4. Oldest(C) \in C /\ \A u \in C : Oldest(C) <= u
  BY <1>3 DEF Oldest
<1>5. Oldest(C) - 1 \in -1 .. end - 1
  <2>1. Oldest(C) \in Nat /\ Oldest(C) <= end
    BY <1>1, <1>4
  <2> QED
    BY <2>1
<1> QED
  BY <1>4, <1>5 DEF C

LEMMA RequestsAgree ==
  ASSUME NEW a, IsArchive(a), NEW end \in Int, NEW f, NEW g,
         \A k \in -1 .. end - 1 : f[k] = g[k]
  PROVE  Requests(a, f, end) = Requests(a, g, end)
<1>1. CASE Chunk(a, end) = {}
  BY <1>1 DEF Requests
<1>2. CASE Chunk(a, end) # {}
  <2>1. f[Oldest(Chunk(a, end)) - 1] = g[Oldest(Chunk(a, end)) - 1]
    BY <1>2, OldestIs
  <2> QED
    BY <2>1 DEF Requests
<1> QED
  BY <1>1, <1>2

LEMMA RequestsEnd ==
  ASSUME NEW a, IsArchive(a)
  PROVE  \A end \in -1 .. a.last : FromEach(a)[end] = Requests(a, FromEach(a), end)
<1> DEFINE Bad == {n \in Nat : ~ \E f : Requested(f, a, n - 2)}
<1>1. Bad = {}
  <2> SUFFICES ASSUME Bad # {} PROVE FALSE
    OBVIOUS
  <2>1. PICK n \in Bad : \A m \in Bad : n <= m
    BY Smallest
  <2>2. CASE n = 0
    <3> DEFINE f == [end \in -1 .. -2 |-> <<>>]
    <3>1. f = [end \in -1 .. -2 |-> Requests(a, f, end)]
      OBVIOUS
    <3>2. Requested(f, a, -2)
      BY <3>1 DEF Requested
    <3> HIDE DEF f
    <3>3. n - 2 = -2
      BY <2>2
    <3> QED
      BY <3>2, <3>3
  <2>3. CASE n > 0
    <3>1. n \in Nat /\ n - 1 \in Nat /\ n - 1 \notin Bad
      BY <2>1, <2>3
    <3> DEFINE e == n - 2
    <3>2. e \in Int /\ e >= -1 /\ (n - 1) - 2 = e - 1
      BY <2>3, <3>1
    <3>3. PICK g : Requested(g, a, (n - 1) - 2)
      BY <3>1
    <3>4. \A k \in -1 .. e - 1 : g[k] = Requests(a, g, k)
      BY <3>2, <3>3 DEF Requested
    <3> DEFINE h == [k \in -1 .. e |-> IF k = e THEN Requests(a, g, e) ELSE g[k]]
    <3> HIDE DEF e
    <3>5. h[e] = Requests(a, g, e) /\ \A k \in -1 .. e - 1 : h[k] = g[k]
      BY <3>2
    <3>6. h = [k \in -1 .. e |-> h[k]]
      OBVIOUS
    <3> HIDE DEF h
    <3>7. ASSUME NEW k \in -1 .. e PROVE h[k] = Requests(a, h, k)
      <4>1. Requests(a, h, k) = Requests(a, g, k)
        <5>1. \A j \in -1 .. k - 1 : j \in -1 .. e - 1
          BY <3>2
        <5>2. \A j \in -1 .. k - 1 : h[j] = g[j]
          BY <3>5, <5>1
        <5> QED
          BY <5>2, RequestsAgree
      <4>2. k = e \/ k \in -1 .. e - 1
        BY <3>2
      <4> QED
        BY <3>4, <3>5, <4>1, <4>2
    <3>8. Requested(h, a, e)
      BY <3>6, <3>7 DEF Requested
    <3> QED
      BY <3>8 DEF e
  <2> QED
    BY <2>1, <2>2, <2>3
<1>2. a.last + 2 \in Nat /\ (a.last + 2) - 2 = a.last
  BY DEF IsArchive
<1>3. \E f : Requested(f, a, (a.last + 2) - 2)
  BY <1>1, <1>2
<1>4. \E f : Requested(f, a, a.last)
  BY <1>2, <1>3
<1>5. Requested(FromEach(a), a, a.last)
  BY <1>4 DEF FromEach
<1> QED
  BY <1>5 DEF Requested

(* The candles wanted that start no later than end.                        *)
WantedBy(a, end) == {u \in Wanted(a) : u <= end}
From(S, t) == {u \in S : u >= t}
Spaced(a) == a.bad = {} /\ \A t \in a.times : t + 1 \notin a.times

(* What the requests from end on find: all of them from some time on, and  *)
(* all of them unless end is the very first time and has a candle.         *)
Finds(a, end) ==
  /\ \E t \in -1 .. a.last + 1 : FromEach(a)[end] = Ascending(From(WantedBy(a, end), t))
  /\ Spaced(a) /\ (end > a.first \/ end \notin a.times)
       => FromEach(a)[end] = Ascending(WantedBy(a, end))

LEMMA AscendingNone == Ascending({}) = <<>>
<1>1. Cardinality({}) = 0
  BY FS_EmptySet
<1>2. 1 .. 0 = {}
  OBVIOUS
<1> QED
  BY <1>1, <1>2 DEF Ascending

LEMMA StartedAre ==
  ASSUME NEW a, IsArchive(a), NEW end \in Int
  PROVE  /\ Started(a, end) \in SUBSET Nat /\ IsFiniteSet(Started(a, end))
         /\ \A t \in Started(a, end) : t <= end
         /\ Chunk(a, end) = Newest(Started(a, end)) \ a.bad
         /\ Newest(Started(a, end)) \subseteq Started(a, end)
         /\ Wanted(a) \in SUBSET Nat
<1>1. Started(a, end) \in SUBSET Nat /\ \A t \in Started(a, end) : t <= end
  BY DEF Started, IsArchive
<1> QED
  BY <1>1, BoundedIsFinite DEF Started, Chunk, Newest, Wanted, IsArchive

(* The candles of a request are those wanted from its oldest on.           *)
LEMMA ChunkIs ==
  ASSUME NEW a, IsArchive(a), NEW end \in -1 .. a.last, Chunk(a, end) # {}
  PROVE  Chunk(a, end) \cap a.first .. a.last = From(WantedBy(a, end), Oldest(Chunk(a, end)))
<1> DEFINE C == Chunk(a, end)
           S == Started(a, end)
           o == Oldest(C)
<1>1. a.first \in Nat /\ a.last \in Nat /\ end \in Int /\ end <= a.last
  BY DEF IsArchive
<1>2. S \in SUBSET Nat /\ IsFiniteSet(S) /\ C = Newest(S) \ a.bad /\ Newest(S) \subseteq S
  BY <1>1, StartedAre
<1>3. o \in C /\ \A u \in C : o <= u
  BY <1>1, OldestIs
<1> HIDE DEF C, o
<1>4. ASSUME NEW u \in C, u \in a.first .. a.last
      PROVE  u \in From(WantedBy(a, end), o)
  <2>1. u \in a.times /\ u <= end /\ u \notin a.bad /\ o <= u
    BY <1>2, <1>3 DEF S, Started
  <2>2. u \in Nat /\ o \in Nat /\ a.first <= u /\ u <= a.last
    BY <1>1, <1>2, <1>3, <1>4
  <2>3. u >= o
    BY <2>1, <2>2
  <2> QED
    BY <2>1, <2>2, <2>3 DEF From, WantedBy, Wanted
<1>5. ASSUME NEW u \in From(WantedBy(a, end), o)
      PROVE  u \in C /\ u \in a.first .. a.last
  <2>1. /\ u \in a.times /\ u \notin a.bad /\ a.first <= u /\ u <= a.last /\ u <= end /\ u >= o
    BY DEF From, WantedBy, Wanted
  <2>2. u \in S /\ u \in Nat /\ o \in Newest(S) /\ o \in Nat
    BY <1>2, <1>3, <2>1 DEF S, Started
  <2>3. o <= u
    BY <2>1, <2>2
  <2> HIDE DEF S
  <2>4. u \in Newest(S)
    BY <1>2, <2>2, <2>3, NewestUp
  <2> QED
    BY <1>1, <1>2, <2>1, <2>2, <2>4
<1> QED
  BY <1>4, <1>5 DEF C, o

(* The candles of a request and those found by earlier ones.               *)
AllBefore(S, o) == S \in SUBSET Nat /\ \A u \in S : u < o

LEMMA Earlier ==
  ASSUME NEW a, IsArchive(a), NEW end \in Int, NEW o \in Nat, NEW Old, AllBefore(Old, o)
  PROVE  Joined(Old, From(WantedBy(a, end), o)) = Ascending(Old \cup From(WantedBy(a, end), o))
<1> DEFINE New == From(WantedBy(a, end), o)
<1>1. Wanted(a) \in SUBSET Nat
  BY StartedAre
<1>2. New \in SUBSET Nat /\ \A u \in New : u >= o /\ u <= end
  BY <1>1 DEF WantedBy, From
<1> HIDE DEF New
<1>3. Old \in SUBSET Nat /\ \A u \in Old : u <= o
  <2>1. Old \in SUBSET Nat /\ \A u \in Old : u < o
    BY DEF AllBefore
  <2> QED
    BY <2>1
<1>4. IsFiniteSet(Old) /\ IsFiniteSet(New)
  <2>1. o \in Int
    OBVIOUS
  <2>2. IsFiniteSet(Old)
    BY <1>3, <2>1, BoundedIsFinite
  <2>3. \A u \in New : u <= end
    BY <1>2
  <2>4. IsFiniteSet(New)
    BY <1>2, <2>3, BoundedIsFinite
  <2> QED
    BY <2>2, <2>4
<1>5. \A s \in Old, u \in New : s < u
  <2> TAKE s \in Old, u \in New
  <2>1. s \in Nat /\ u \in Nat /\ s < o /\ u >= o
    BY <1>2, <1>3 DEF AllBefore
  <2> QED
    BY <2>1
<1>6. Joined(Old, New) = Ascending(Old \cup New)
  BY <1>2, <1>3, <1>4, <1>5, AscendingJoin
<1> QED
  BY <1>6 DEF New

LEMMA EarlierFrom ==
  ASSUME NEW a, IsArchive(a), NEW end \in Int, NEW o \in Nat, o <= end, NEW t \in Int
  PROVE  Joined(From(WantedBy(a, o - 1), t), From(WantedBy(a, end), o))
           = Ascending(From(WantedBy(a, end), Lesser(t, o)))
<1>1. Wanted(a) \in SUBSET Nat
  BY StartedAre
<1>2. From(WantedBy(a, o - 1), t) \cup From(WantedBy(a, end), o) = From(WantedBy(a, end), Lesser(t, o))
  <2> SUFFICES ASSUME NEW u \in Wanted(a)
               PROVE  (u <= o - 1 /\ u >= t) \/ (u <= end /\ u >= o)
                        <=> (u <= end /\ u >= Lesser(t, o))
    BY DEF From, WantedBy
  <2>1. u \in Nat
    BY <1>1
  <2> QED
    BY <2>1 DEF Lesser
<1> DEFINE Old == From(WantedBy(a, o - 1), t)
<1>3. AllBefore(Old, o)
  BY <1>1 DEF From, WantedBy, AllBefore
<1> HIDE DEF Old
<1>4. Joined(Old, From(WantedBy(a, end), o)) = Ascending(Old \cup From(WantedBy(a, end), o))
  BY <1>3, Earlier
<1> QED
  BY <1>2, <1>4 DEF Old

LEMMA EarlierAll ==
  ASSUME NEW a, IsArchive(a), NEW end \in Int, NEW o \in Nat, o <= end
  PROVE  Joined(WantedBy(a, o - 1), From(WantedBy(a, end), o)) = Ascending(WantedBy(a, end))
<1>1. Wanted(a) \in SUBSET Nat
  BY StartedAre
<1>2. WantedBy(a, o - 1) \cup From(WantedBy(a, end), o) = WantedBy(a, end)
  <2> SUFFICES ASSUME NEW u \in Wanted(a)
               PROVE  u <= o - 1 \/ (u <= end /\ u >= o) <=> u <= end
    BY DEF From, WantedBy
  <2>1. u \in Nat
    BY <1>1
  <2> QED
    BY <2>1
<1> DEFINE Old == WantedBy(a, o - 1)
<1>3. AllBefore(Old, o)
  BY <1>1 DEF WantedBy, AllBefore
<1> HIDE DEF Old
<1>4. Joined(Old, From(WantedBy(a, end), o)) = Ascending(Old \cup From(WantedBy(a, end), o))
  BY <1>3, Earlier
<1> QED
  BY <1>2, <1>4 DEF Old

(* One more request.                                                       *)
LEMMA FindsStep ==
  ASSUME NEW a, IsArchive(a), NEW end \in -1 .. a.last,
         \A k \in -1 .. end - 1 : Finds(a, k)
  PROVE  Finds(a, end)
<1> DEFINE C == Chunk(a, end)
           S == Started(a, end)
           o == Oldest(C)
           W == WantedBy(a, end)
           got == FromEach(a)[end]
<1>1. a.times \in SUBSET Nat /\ a.first \in Nat /\ a.last \in Nat /\ end \in Int /\ end <= a.last
  BY DEF IsArchive
<1>2. got = Requests(a, FromEach(a), end)
  BY RequestsEnd
<1>3. /\ S \in SUBSET Nat /\ IsFiniteSet(S) /\ C = Newest(S) \ a.bad /\ Newest(S) \subseteq S
      /\ \A t \in S : t <= end
  BY <1>1, StartedAre
<1>4. W \subseteq S /\ \A t \in W : t \in Nat /\ a.first <= t /\ t <= end
  BY <1>1 DEF W, S, WantedBy, Wanted, Started
<1>5. CASE end <= a.first \/ C = {}
  <2>1. got = <<>>
    BY <1>2, <1>5 DEF Requests
  <2>2. From(W, a.last + 1) = {}
    <3> SUFFICES ASSUME NEW u \in W, u >= a.last + 1 PROVE FALSE
      BY DEF From
    <3> HIDE DEF W
    <3> QED
      BY <1>1, <1>4
  <2>3. ASSUME Spaced(a), end > a.first \/ end \notin a.times PROVE W = {}
    <3>1. CASE C = {}
      <4>1. Newest(S) = {}
        BY <1>3, <2>3, <3>1 DEF Spaced
      <4> HIDE DEF S
      <4>2. S = {}
        BY <1>1, <1>3, <4>1, NewestSome
      <4> QED
        BY <1>4, <4>2
    <3>2. CASE end <= a.first
      <4> SUFFICES ASSUME NEW u \in W PROVE FALSE
        OBVIOUS
      <4>1. u \in a.times /\ u \in Nat /\ a.first <= u /\ u <= end
        BY <1>4 DEF W, WantedBy, Wanted
      <4> HIDE DEF W
      <4>2. u = end
        BY <1>1, <3>2, <4>1
      <4> QED
        BY <1>1, <2>3, <3>2, <4>1, <4>2
    <3> QED
      BY <1>5, <3>1, <3>2
  <2>4. a.last + 1 \in -1 .. a.last + 1
    BY <1>1
  <2> HIDE DEF W, got
  <2>5. got = Ascending(From(W, a.last + 1))
    BY <2>1, <2>2, AscendingNone
  <2>6. Spaced(a) /\ (end > a.first \/ end \notin a.times) => got = Ascending(W)
    BY <2>1, <2>3, AscendingNone
  <2> QED
    BY <2>4, <2>5, <2>6 DEF Finds, W, got
<1>6. CASE ~(end <= a.first \/ C = {})
  <2>1. C # {} /\ ~(end <= a.first)
    BY <1>6
  <2>2. got = (IF LastChunk(C) THEN <<>> ELSE FromEach(a)[o - 1]) \o Ascending(From(W, o))
    BY <1>2, <2>1, ChunkIs DEF Requests
  <2>3. o \in C /\ o - 1 \in -1 .. end - 1
    BY <1>1, <2>1, OldestIs
  <2>4. o \in Nat /\ o <= end /\ o \in a.times
    BY <1>3, <2>3 DEF S, Started
  <2>5. o \in -1 .. a.last + 1
    BY <1>1, <2>4
  <2>6. CASE LastChunk(C)
    <3>1. Ascending(From(W, o)) \in Seq(From(W, o))
      <4>1. From(W, o) \in SUBSET Nat /\ IsFiniteSet(From(W, o))
        BY <1>3, <1>4, FS_Subset DEF From
      <4> QED
        BY <4>1, AscendingIs
    <3>2. got = Ascending(From(W, o))
      BY <2>2, <2>6, <3>1
    <3>3. ASSUME Spaced(a) PROVE From(W, o) = W
      <4>1. C = Newest(S)
        BY <1>3, <3>3 DEF Spaced
      <4>2. Cardinality(Newest(S)) < Limit
        BY <2>6, <4>1 DEF LastChunk
      <4> HIDE DEF S
      <4>3. Newest(S) = S
        BY <1>1, <1>3, <4>2, NewestAll
      <4>4. \A u \in W : o <= u
        BY <1>1, <1>4, <2>1, <4>1, <4>3, OldestIs
      <4>5. \A u \in W : u >= o
        BY <1>4, <2>4, <4>4
      <4> QED
        BY <4>5 DEF From
    <3> HIDE DEF got, W
    <3> QED
      BY <2>5, <3>2, <3>3 DEF Finds, got, W
  <2>7. CASE ~LastChunk(C)
    <3>1. got = FromEach(a)[o - 1] \o Ascending(From(W, o))
      BY <2>2, <2>7
    <3>2. Finds(a, o - 1)
      BY <2>3
    <3>3. PICK t \in -1 .. a.last + 1 : FromEach(a)[o - 1] = Ascending(From(WantedBy(a, o - 1), t))
      BY <3>2 DEF Finds
    <3> HIDE DEF o
    <3>4. t \in Int /\ Lesser(t, o) \in -1 .. a.last + 1
      BY <1>1, <2>5, <3>3 DEF Lesser
    <3>5. got = Ascending(From(W, Lesser(t, o)))
      <4>1. Joined(From(WantedBy(a, o - 1), t), From(W, o)) = Ascending(From(W, Lesser(t, o)))
        BY <1>1, <2>4, <3>4, EarlierFrom
      <4> QED
        BY <3>1, <3>3, <4>1 DEF Joined
    <3>6. ASSUME Spaced(a) PROVE got = Ascending(W)
      <4>1. o - 1 \notin a.times
        <5> SUFFICES ASSUME o - 1 \in a.times PROVE FALSE
          OBVIOUS
        <5>1. (o - 1) + 1 = o
          BY <2>4
        <5>2. (o - 1) + 1 \notin a.times
          BY <3>6 DEF Spaced
        <5> QED
          BY <2>4, <5>1, <5>2
      <4>2. FromEach(a)[o - 1] = Ascending(WantedBy(a, o - 1))
        BY <3>2, <3>6, <4>1 DEF Finds
      <4>3. Joined(WantedBy(a, o - 1), From(W, o)) = Ascending(W)
        BY <1>1, <2>4, EarlierAll
      <4> QED
        BY <3>1, <4>2, <4>3 DEF Joined
    <3> HIDE DEF got, W
    <3> QED
      BY <3>4, <3>5, <3>6 DEF Finds, got, W
  <2> QED
    BY <2>6, <2>7
<1> QED
  BY <1>5, <1>6

LEMMA EachFinds ==
  ASSUME NEW a, IsArchive(a)
  PROVE  \A end \in -1 .. a.last : Finds(a, end)
<1> DEFINE Bad == {n \in Nat : n - 1 <= a.last /\ ~Finds(a, n - 1)}
<1>1. Bad = {}
  <2> SUFFICES ASSUME Bad # {} PROVE FALSE
    OBVIOUS
  <2>1. PICK n \in Bad : \A m \in Bad : n <= m
    BY Smallest
  <2>2. n \in Nat /\ n - 1 <= a.last /\ ~Finds(a, n - 1) /\ a.last \in Nat
    BY <2>1 DEF IsArchive
  <2>3. ASSUME NEW k \in -1 .. n - 2 PROVE Finds(a, k)
    <3>1. k + 1 \in Nat /\ ~(n <= k + 1) /\ (k + 1) - 1 = k /\ k <= a.last
      BY <2>2
    <3>2. k + 1 \notin Bad
      BY <2>1, <3>1
    <3> QED
      BY <3>1, <3>2
  <2>4. n - 1 \in -1 .. a.last /\ (n - 1) - 1 = n - 2
    BY <2>2
  <2>5. Finds(a, n - 1)
    BY <2>3, <2>4, FindsStep
  <2> QED
    BY <2>2, <2>5
<1>2. ASSUME NEW end \in -1 .. a.last PROVE Finds(a, end)
  <2>1. end + 1 \in Nat /\ (end + 1) - 1 = end /\ end <= a.last
    BY DEF IsArchive
  <2>2. end + 1 \notin Bad
    BY <1>1
  <2> QED
    BY <2>1, <2>2
<1> QED
  BY <1>2

----------------------------------------------------------------------------
(* The windows of sorted and even times.                                   *)
Rising(s) == \A i, j \in 1 .. Len(s) : i < j => s[i] < s[j]

LEMMA AscendingRises ==
  ASSUME NEW S \in SUBSET Nat, IsFiniteSet(S)
  PROVE  Rising(Ascending(S))
<1> DEFINE A == Ascending(S)
<1>1. /\ Len(A) = Cardinality(S)
      /\ \A i \in 1 .. Cardinality(S) : A[i] \in S /\ Rank(S, A[i]) = i
  BY AscendingIs
<1> HIDE DEF A
<1>2. ASSUME NEW i \in 1 .. Len(A), NEW j \in 1 .. Len(A), i < j PROVE A[i] < A[j]
  <2>1. A[i] \in S /\ A[j] \in S /\ Rank(S, A[i]) = i /\ Rank(S, A[j]) = j
    BY <1>1
  <2>2. i \in Int /\ j \in Int /\ ~(j < i) /\ i # j
    BY <1>2
  <2>3. \A x, y \in S : x < y => Rank(S, x) < Rank(S, y)
    BY RankOrder
  <2>4. ~(A[j] < A[i]) /\ A[i] # A[j]
    BY <2>1, <2>2, <2>3
  <2>5. A[i] \in Nat /\ A[j] \in Nat
    BY <2>1
  <2> QED
    BY <2>4, <2>5
<1> QED
  BY <1>2 DEF Rising, A

(* Half, a third and a fourth of a span of enough steps.                   *)
LEMMA CutsApart ==
  ASSUME NEW n \in {2, 3, 4}, NEW f \in Nat, NEW span \in Nat, NEW d \in Nat \ {0},
         span >= IF n = 2 THEN 7 * d ELSE IF n = 3 THEN 11 * d ELSE 15 * d
  PROVE  /\ \A k \in 0 .. n : f + (k * span) \div n \in Nat
         /\ \A k \in 1 .. n : f + ((k - 1) * span) \div n + 3 * d <= f + (k * span) \div n
         /\ f + (0 * span) \div n = f /\ f + (n * span) \div n = f + span
<1>1. CASE n = 2
  <2>1. (0 * span) \div 2 = 0 /\ (2 * span) \div 2 = span /\ (1 * span) \div 2 \in Nat
    OBVIOUS
  <2>2. 3 * d <= (1 * span) \div 2 /\ (1 * span) \div 2 + 3 * d <= span
    BY <1>1
  <2>3. /\ \A k \in 0 .. 2 : k = 0 \/ k = 1 \/ k = 2
        /\ \A k \in 1 .. 2 : (k = 1 /\ k - 1 = 0) \/ (k = 2 /\ k - 1 = 1)
    OBVIOUS
  <2> QED
    BY <1>1, <2>1, <2>2, <2>3
<1>2. CASE n = 3
  <2>1. /\ (0 * span) \div 3 = 0 /\ (3 * span) \div 3 = span
        /\ (1 * span) \div 3 \in Nat /\ (2 * span) \div 3 \in Nat
    OBVIOUS
  <2>2. /\ 3 * d <= (1 * span) \div 3 /\ (1 * span) \div 3 + 3 * d <= (2 * span) \div 3
        /\ (2 * span) \div 3 + 3 * d <= span
    BY <1>2
  <2>3. /\ \A k \in 0 .. 3 : k = 0 \/ k = 1 \/ k = 2 \/ k = 3
        /\ \A k \in 1 .. 3 : (k = 1 /\ k - 1 = 0) \/ (k = 2 /\ k - 1 = 1) \/ (k = 3 /\ k - 1 = 2)
    OBVIOUS
  <2> QED
    BY <1>2, <2>1, <2>2, <2>3
<1>3. CASE n = 4
  <2>1. /\ (0 * span) \div 4 = 0 /\ (4 * span) \div 4 = span
        /\ (1 * span) \div 4 \in Nat /\ (2 * span) \div 4 \in Nat /\ (3 * span) \div 4 \in Nat
    OBVIOUS
  <2>2. /\ 3 * d <= (1 * span) \div 4 /\ (1 * span) \div 4 + 3 * d <= (2 * span) \div 4
        /\ (2 * span) \div 4 + 3 * d <= (3 * span) \div 4 /\ (3 * span) \div 4 + 3 * d <= span
    BY <1>3
  <2>3. /\ \A k \in 0 .. 4 : k = 0 \/ k = 1 \/ k = 2 \/ k = 3 \/ k = 4
        /\ \A k \in 1 .. 4 : \/ (k = 1 /\ k - 1 = 0) \/ (k = 2 /\ k - 1 = 1)
                             \/ (k = 3 /\ k - 1 = 2) \/ (k = 4 /\ k - 1 = 3)
    OBVIOUS
  <2> QED
    BY <1>3, <2>1, <2>2, <2>3
<1> QED
  BY <1>1, <1>2, <1>3

(* Enough times, one step after the other, make enough steps.              *)
EvenTimes(s) == s \in Seq(Nat) /\ Rising(s) /\ Evenly(s) /\ Len(s) >= 8

LEMMA StepsApart ==
  ASSUME NEW x \in Nat, NEW y \in Nat, NEW d \in Nat
  PROVE  /\ y >= x + 7 * d => y - x >= 7 * d /\ y - x \in Nat
         /\ y >= x + 11 * d => y - x >= 11 * d /\ y - x \in Nat
         /\ y >= x + 15 * d => y - x >= 15 * d /\ y - x \in Nat
OBVIOUS

LEMMA SpanIs ==
  ASSUME NEW s, EvenTimes(s), NEW n \in {2, 3, 4}, Len(s) >= 4 * n
  PROVE  /\ s[2] - s[1] \in Nat \ {0} /\ s[Len(s)] - s[1] \in Nat
         /\ s[Len(s)] - s[1] >= IF n = 2 THEN 7 * (s[2] - s[1])
                                ELSE IF n = 3 THEN 11 * (s[2] - s[1]) ELSE 15 * (s[2] - s[1])
<1> DEFINE N == Len(s)
           d == s[2] - s[1]
<1>1. N \in Nat /\ N >= 8 /\ \A i \in 1 .. N : s[i] \in Nat
  BY DEF EvenTimes
<1>2. \A i \in 2 .. N : s[i] - s[i - 1] = d
  BY DEF EvenTimes, Evenly
<1>3. \A i \in 1 .. N : i = N \/ s[i] < s[N]
  BY <1>1 DEF EvenTimes, Rising
<1>4. s[1] < s[2]
  BY <1>1 DEF EvenTimes, Rising
<1>5. d \in Nat \ {0} /\ s[2] = s[1] + d
  BY <1>1, <1>4
<1> HIDE DEF d, N
<1>6. \A i \in 2 .. N : s[i] = s[i - 1] + d
  <2> TAKE i \in 2 .. N
  <2>1. i \in 1 .. N /\ i - 1 \in 1 .. N
    BY <1>1
  <2>2. s[i] \in Nat /\ s[i - 1] \in Nat /\ s[i] - s[i - 1] = d
    BY <1>1, <1>2, <2>1
  <2> QED
    BY <1>5, <2>2
<1>7. ASSUME NEW i \in 1 .. N, i + 3 <= N PROVE s[i + 3] = s[i] + 3 * d
  <2>1. /\ i + 1 \in 2 .. N /\ (i + 1) - 1 = i /\ i + 2 \in 2 .. N /\ (i + 2) - 1 = i + 1
        /\ i + 3 \in 2 .. N /\ (i + 3) - 1 = i + 2
    BY <1>1, <1>7
  <2>2. s[i + 1] = s[i] + d /\ s[i + 2] = s[i + 1] + d /\ s[i + 3] = s[i + 2] + d
    BY <1>6, <2>1
  <2>3. s[i] \in Nat
    BY <1>1
  <2> QED
    BY <1>5, <2>2, <2>3
<1>8. ASSUME NEW i \in 1 .. N, i + 4 <= N PROVE s[i + 4] = s[i] + 4 * d
  <2>1. /\ i + 1 \in 2 .. N /\ (i + 1) - 1 = i /\ i + 1 \in 1 .. N
        /\ (i + 1) + 3 <= N /\ (i + 1) + 3 = i + 4
    BY <1>1, <1>8
  <2>2. s[i + 1] = s[i] + d /\ s[i + 4] = s[i + 1] + 3 * d
    BY <1>6, <1>7, <2>1
  <2>3. s[i] \in Nat
    BY <1>1
  <2> QED
    BY <1>5, <2>2, <2>3
<1>9. s[1] \in Nat /\ s[N] \in Nat /\ s[N] >= s[8]
  <2>1. 1 \in 1 .. N /\ N \in 1 .. N /\ 8 \in 1 .. N
    BY <1>1
  <2>2. s[1] \in Nat /\ s[N] \in Nat /\ s[8] \in Nat /\ (8 = N \/ s[8] < s[N])
    BY <1>1, <1>3, <2>1
  <2> QED
    BY <2>2
<1>10. s[5] = s[1] + 4 * d /\ s[8] = s[1] + 7 * d
  <2>1. 1 \in 1 .. N /\ 1 + 4 <= N /\ 5 \in 1 .. N /\ 5 + 3 <= N
    BY <1>1
  <2>2. s[1 + 4] = s[1] + 4 * d /\ s[5 + 3] = s[5] + 3 * d
    BY <1>7, <1>8, <2>1
  <2>3. s[5] = s[1] + 4 * d /\ s[8] = s[5] + 3 * d
    BY <2>2
  <2>4. (s[1] + 4 * d) + 3 * d = s[1] + 7 * d
    BY <1>5, <1>9
  <2> QED
    BY <2>3, <2>4
<1>11. CASE n = 2
  <2>1. s[N] >= s[1] + 7 * d
    BY <1>9, <1>10
  <2>2. s[N] - s[1] >= 7 * d /\ s[N] - s[1] \in Nat
    BY <1>5, <1>9, <2>1, StepsApart
  <2> QED
    BY <1>5, <1>11, <2>2 DEF N, d
<1>12. CASE n = 3 \/ n = 4
  <2>1. N >= 12
    BY <1>1, <1>12 DEF N
  <2>2. 5 \in 1 .. N /\ 5 + 4 <= N /\ 9 \in 1 .. N /\ 9 + 3 <= N /\ 12 \in 1 .. N
    BY <1>1, <2>1
  <2>3. s[9] = s[5] + 4 * d /\ s[12] = s[9] + 3 * d
    <3>1. s[5 + 4] = s[5] + 4 * d /\ s[9 + 3] = s[9] + 3 * d
      BY <1>7, <1>8, <2>2
    <3> QED
      BY <3>1
  <2>4. s[9] = s[1] + 8 * d /\ s[12] = s[1] + 11 * d
    <3>1. (s[1] + 4 * d) + 4 * d = s[1] + 8 * d /\ (s[1] + 8 * d) + 3 * d = s[1] + 11 * d
      BY <1>5, <1>9
    <3> QED
      BY <1>10, <2>3, <3>1
  <2>5. s[12] \in Nat /\ (12 = N \/ s[12] < s[N])
    BY <1>1, <1>3, <2>2
  <2>6. s[N] - s[1] >= 11 * d /\ s[N] - s[1] \in Nat
    <3>1. s[N] >= s[12]
      BY <1>9, <2>5
    <3>2. s[N] >= s[1] + 11 * d
      BY <2>4, <3>1
    <3> QED
      BY <1>5, <1>9, <3>2, StepsApart
  <2>7. CASE n = 3
    BY <1>5, <2>6, <2>7 DEF N, d
  <2>8. CASE n = 4
    <3>1. N >= 16
      BY <1>1, <2>8 DEF N
    <3>2. 9 \in 1 .. N /\ 9 + 4 <= N /\ 13 \in 1 .. N /\ 13 + 3 <= N /\ 16 \in 1 .. N
      BY <1>1, <3>1
    <3>3. s[13] = s[9] + 4 * d /\ s[16] = s[13] + 3 * d
      <4>1. s[9 + 4] = s[9] + 4 * d /\ s[13 + 3] = s[13] + 3 * d
        BY <1>7, <1>8, <3>2
      <4> QED
        BY <4>1
    <3>4. (s[1] + 8 * d) + 4 * d = s[1] + 12 * d /\ (s[1] + 12 * d) + 3 * d = s[1] + 15 * d
      BY <1>5, <1>9
    <3>5. s[16] = s[1] + 15 * d
      BY <2>4, <3>3, <3>4
    <3>6. s[16] \in Nat /\ (16 = N \/ s[16] < s[N])
      BY <1>1, <1>3, <3>2
    <3>7. s[N] >= s[16]
      BY <1>9, <3>6
    <3>8. s[N] >= s[1] + 15 * d
      BY <3>5, <3>7
    <3>9. s[N] - s[1] >= 15 * d /\ s[N] - s[1] \in Nat
      BY <1>5, <1>9, <3>8, StepsApart
    <3> QED
      BY <1>5, <2>8, <3>9 DEF N, d
  <2> QED
    BY <1>12, <2>7, <2>8
<1> QED
  BY <1>11, <1>12

LEMMA CutsAre ==
  ASSUME NEW s, EvenTimes(s), NEW n \in {2, 3, 4}, Len(s) >= 4 * n
  PROVE  /\ \A k \in 0 .. n : Cut(s, n, k) \in Nat
         /\ \A k \in 1 .. n : Cut(s, n, k - 1) + 3 * (s[2] - s[1]) <= Cut(s, n, k)
         /\ Cut(s, n, 0) = s[1] /\ Cut(s, n, n) = s[Len(s)]
<1> DEFINE f == s[1]
           span == s[Len(s)] - s[1]
           d == s[2] - s[1]
<1>1. /\ d \in Nat \ {0} /\ span \in Nat
      /\ span >= IF n = 2 THEN 7 * d ELSE IF n = 3 THEN 11 * d ELSE 15 * d
  BY SpanIs
<1>2. f \in Nat /\ s[Len(s)] \in Nat /\ f + span = s[Len(s)]
  BY DEF EvenTimes
<1>3. \A k \in Int : Cut(s, n, k) = f + (k * span) \div n
  BY DEF Cut
<1>4. 0 \in Int /\ n \in Int /\ (\A k \in 0 .. n : k \in Int) /\ \A k \in 1 .. n : k \in Int /\ k - 1 \in Int
  OBVIOUS
<1> HIDE DEF f, span, d
<1>5. /\ \A k \in 0 .. n : f + (k * span) \div n \in Nat
      /\ \A k \in 1 .. n : f + ((k - 1) * span) \div n + 3 * d <= f + (k * span) \div n
      /\ f + (0 * span) \div n = f /\ f + (n * span) \div n = f + span
  BY <1>1, <1>2, CutsApart
<1>6. \A k \in 0 .. n : Cut(s, n, k) \in Nat
  BY <1>3, <1>4, <1>5
<1>7. \A k \in 1 .. n : Cut(s, n, k - 1) + 3 * d <= Cut(s, n, k)
  BY <1>3, <1>4, <1>5
<1>8. Cut(s, n, 0) = f /\ Cut(s, n, n) = f + span
  BY <1>3, <1>4, <1>5
<1> QED
  BY <1>2, <1>6, <1>7, <1>8 DEF f, d

LEMMA UpwardsFour ==
  ASSUME NEW n \in {2, 3, 4}, NEW c, \A j \in 0 .. n : c[j] \in Nat,
         \A j \in 1 .. n : c[j - 1] <= c[j]
  PROVE  \A j, k \in 0 .. n : j <= k => c[j] <= c[k]
<1>1. /\ 0 \in 0 .. n /\ 1 \in 0 .. n /\ 2 \in 0 .. n
      /\ 1 \in 1 .. n /\ 2 \in 1 .. n /\ 1 - 1 = 0 /\ 2 - 1 = 1 /\ 3 - 1 = 2 /\ 4 - 1 = 3
  OBVIOUS
<1>2. c[0] \in Nat /\ c[1] \in Nat /\ c[2] \in Nat /\ c[0] <= c[1] /\ c[1] <= c[2]
  BY <1>1
<1>3. CASE n = 2
  <2>1. \A j \in 0 .. 2 : j = 0 \/ j = 1 \/ j = 2
    OBVIOUS
  <2> QED
    BY <1>2, <1>3, <2>1
<1>4. CASE n = 3
  <2>1. \A j \in 0 .. 3 : j = 0 \/ j = 1 \/ j = 2 \/ j = 3
    OBVIOUS
  <2>2. 3 \in 0 .. n /\ 3 \in 1 .. n
    BY <1>4
  <2>3. c[3] \in Nat /\ c[2] <= c[3]
    BY <1>1, <2>2
  <2> QED
    BY <1>2, <1>4, <2>1, <2>3
<1>5. CASE n = 4
  <2>1. \A j \in 0 .. 4 : j = 0 \/ j = 1 \/ j = 2 \/ j = 3 \/ j = 4
    OBVIOUS
  <2>2. 3 \in 0 .. n /\ 3 \in 1 .. n /\ 4 \in 0 .. n /\ 4 \in 1 .. n
    BY <1>5
  <2>3. c[3] \in Nat /\ c[4] \in Nat /\ c[2] <= c[3] /\ c[3] <= c[4]
    BY <1>1, <2>2
  <2> QED
    BY <1>2, <1>5, <2>1, <2>3
<1> QED
  BY <1>3, <1>4, <1>5

LEMMA CutsRise ==
  ASSUME NEW s, EvenTimes(s), NEW n \in {2, 3, 4}, Len(s) >= 4 * n
  PROVE  \A j, k \in 0 .. n : j <= k => Cut(s, n, j) <= Cut(s, n, k)
<1> DEFINE c == [j \in 0 .. n |-> Cut(s, n, j)]
           d == s[2] - s[1]
<1>1. \A j \in 0 .. n : c[j] = Cut(s, n, j)
  OBVIOUS
<1>2. d \in Nat
  BY SpanIs
<1>3. /\ \A j \in 0 .. n : Cut(s, n, j) \in Nat
      /\ \A j \in 1 .. n : Cut(s, n, j - 1) + 3 * d <= Cut(s, n, j)
  BY CutsAre
<1> HIDE DEF c, d
<1>4. \A j \in 0 .. n : c[j] \in Nat
  BY <1>1, <1>3
<1>5. \A j \in 1 .. n : c[j - 1] <= c[j]
  <2> TAKE j \in 1 .. n
  <2>1. j \in 0 .. n /\ j - 1 \in 0 .. n
    OBVIOUS
  <2>2. c[j - 1] \in Nat /\ c[j] \in Nat /\ c[j - 1] + 3 * d <= c[j]
    BY <1>1, <1>3, <1>4, <2>1
  <2> QED
    BY <1>2, <2>2
<1>6. \A j, k \in 0 .. n : j <= k => c[j] <= c[k]
  BY <1>4, <1>5, UpwardsFour
<1> QED
  BY <1>1, <1>6

LEMMA WindowsAreFinite ==
  ASSUME NEW s \in Seq(Nat), NEW n, NEW k, Cut(s, n, k) \in Nat
  PROVE  Window(s, n, k) \in SUBSET Nat /\ IsFiniteSet(Window(s, n, k))
<1>1. \A i \in DOMAIN s : s[i] \in Nat
  OBVIOUS
<1>2. Window(s, n, k) \in SUBSET Nat
  BY <1>1 DEF Window, ToSet
<1>3. \A t \in Window(s, n, k) : t <= Cut(s, n, k)
  <2> TAKE t \in Window(s, n, k)
  <2>1. t \in Nat /\ t < Cut(s, n, k)
    BY <1>2 DEF Window
  <2> QED
    BY <2>1
<1>4. Cut(s, n, k) \in Int
  OBVIOUS
<1> QED
  BY <1>2, <1>3, <1>4, BoundedIsFinite

(* A window holds at least three times.                                    *)
LEMMA ThreeAtLeast ==
  ASSUME NEW S, IsFiniteSet(S), NEW x \in S, NEW y \in S, NEW z \in S, x # y, x # z, y # z
  PROVE  Cardinality(S) >= 3
<1> DEFINE T == {x, y, z}
<1>1. IsFiniteSet({x}) /\ Cardinality({x}) = 1
  BY FS_Singleton
<1>2. {x} \cup {y} = {x, y} /\ {x, y} \cup {z} = T
  OBVIOUS
<1>3. IsFiniteSet({x, y}) /\ Cardinality({x, y}) = 2
  <2>1. y \notin {x}
    OBVIOUS
  <2>2. /\ IsFiniteSet({x} \cup {y})
        /\ Cardinality({x} \cup {y}) = IF y \in {x} THEN Cardinality({x}) ELSE Cardinality({x}) + 1
    BY <1>1, FS_AddElement
  <2> QED
    BY <1>1, <1>2, <2>1, <2>2
<1>4. IsFiniteSet(T) /\ Cardinality(T) = 3
  <2>1. z \notin {x, y}
    OBVIOUS
  <2>2. /\ IsFiniteSet({x, y} \cup {z})
        /\ Cardinality({x, y} \cup {z})
             = IF z \in {x, y} THEN Cardinality({x, y}) ELSE Cardinality({x, y}) + 1
    BY <1>3, FS_AddElement
  <2> QED
    BY <1>2, <1>3, <2>1, <2>2
<1>5. T \in SUBSET S
  OBVIOUS
<1>6. Cardinality(T) <= Cardinality(S)
  BY <1>5, FS_Subset
<1> QED
  BY <1>4, <1>6, FS_CardinalityType

LEMMA WindowsAreFull ==
  ASSUME NEW s, EvenTimes(s), NEW n \in {2, 3, 4}, Len(s) >= 4 * n, NEW k \in 1 .. n
  PROVE  Cardinality(Window(s, n, k)) \in Nat /\ Cardinality(Window(s, n, k)) >= 3
<1> DEFINE N == Len(s)
           d == s[2] - s[1]
           lo == Cut(s, n, k - 1)
           hi == Cut(s, n, k)
           W == Window(s, n, k)
<1>1. N \in Nat /\ N >= 8 /\ \A i \in 1 .. N : s[i] \in Nat
  BY DEF EvenTimes
<1>2. \A i \in 2 .. N : s[i] - s[i - 1] = d
  BY DEF EvenTimes, Evenly
<1>3. d \in Nat \ {0}
  BY SpanIs
<1>4. /\ lo \in Nat /\ hi \in Nat /\ lo + 3 * d <= hi /\ s[1] <= lo /\ hi <= s[N]
  <2>1. n \in Nat /\ k \in 1 .. n /\ k - 1 \in 0 .. n /\ k \in 0 .. n
    OBVIOUS
  <2>2. /\ \A j \in 0 .. n : Cut(s, n, j) \in Nat
        /\ \A j \in 1 .. n : Cut(s, n, j - 1) + 3 * d <= Cut(s, n, j)
        /\ Cut(s, n, 0) = s[1] /\ Cut(s, n, n) = s[N]
    BY CutsAre
  <2>3. 0 \in 0 .. n /\ n \in 0 .. n /\ 0 <= k - 1 /\ k <= n
    OBVIOUS
  <2>4. Cut(s, n, 0) <= lo /\ hi <= Cut(s, n, n)
    BY <2>1, <2>3, CutsRise
  <2> HIDE DEF d
  <2> QED
    BY <2>1, <2>2, <2>4
<1> DEFINE At == {i \in 1 .. N : s[i] >= lo}
<1> HIDE DEF N, d, lo, hi
<1>5. At \in SUBSET Nat /\ N \in At
  <2>1. N \in 1 .. N /\ s[N] \in Nat
    BY <1>1
  <2> QED
    BY <1>1, <1>3, <1>4, <2>1
<1>6. PICK i \in At : \A j \in At : i <= j
  BY <1>5, Smallest
<1>7. i \in 1 .. N /\ s[i] \in Nat /\ s[i] >= lo
  BY <1>1, <1>6
<1>8. s[i] < lo + d
  <2>1. CASE i = 1
    BY <1>3, <1>4, <1>7, <2>1
  <2>2. CASE i # 1
    <3>1. i \in 2 .. N /\ i - 1 \in 1 .. N /\ ~(i <= i - 1)
      BY <1>1, <1>7, <2>2
    <3>2. ~(s[i - 1] >= lo)
      BY <1>6, <3>1
    <3>3. s[i] - s[i - 1] = d /\ s[i - 1] \in Nat
      BY <1>1, <1>2, <3>1
    <3> QED
      BY <1>3, <1>4, <1>7, <3>2, <3>3
  <2> QED
    BY <2>1, <2>2
<1>9. i + 2 <= N
  <2>1. s[i] + 2 * d < s[N] /\ s[N] \in Nat
    BY <1>1, <1>3, <1>4, <1>7, <1>8
  <2>2. CASE i = N
    BY <1>3, <1>7, <2>1, <2>2
  <2>3. CASE i + 1 = N
    <3>1. N \in 2 .. N /\ N - 1 = i
      BY <1>1, <1>7, <2>3
    <3>2. s[N] - s[i] = d
      BY <1>2, <3>1
    <3> QED
      BY <1>3, <1>7, <2>1, <3>2
  <2> QED
    BY <1>1, <1>7, <2>2, <2>3
<1>10. s[i + 1] = s[i] + d /\ s[i + 2] = s[i] + 2 * d
  <2>1. /\ i + 1 \in 2 .. N /\ (i + 1) - 1 = i /\ i + 2 \in 2 .. N /\ (i + 2) - 1 = i + 1
        /\ i + 1 \in 1 .. N /\ i + 2 \in 1 .. N
    BY <1>1, <1>7, <1>9
  <2>2. s[i + 1] - s[i] = d /\ s[i + 2] - s[i + 1] = d /\ s[i + 1] \in Nat /\ s[i + 2] \in Nat
    BY <1>1, <1>2, <2>1
  <2>3. s[i + 1] = s[i] + d
    BY <1>3, <1>7, <2>2
  <2>4. s[i + 2] = s[i + 1] + d
    BY <1>3, <2>2
  <2>5. (s[i] + d) + d = s[i] + 2 * d
    BY <1>3, <1>7
  <2> QED
    BY <2>3, <2>4, <2>5
<1>11. \A j \in 1 .. N : lo <= s[j] /\ s[j] < hi => s[j] \in W
  BY <1>1 DEF Window, ToSet, EvenTimes, N, lo, hi
<1>12. i + 1 \in 1 .. N /\ i + 2 \in 1 .. N
  BY <1>1, <1>7, <1>9
<1>13. /\ lo <= s[i] /\ s[i] < hi /\ lo <= s[i + 1] /\ s[i + 1] < hi
       /\ lo <= s[i + 2] /\ s[i + 2] < hi
       /\ s[i] # s[i + 1] /\ s[i] # s[i + 2] /\ s[i + 1] # s[i + 2]
  <2> DEFINE x == s[i]
  <2>1. x \in Nat /\ lo <= x /\ x < lo + d
    BY <1>4, <1>7, <1>8
  <2>2. s[i + 1] = x + d /\ s[i + 2] = x + 2 * d
    BY <1>10
  <2> HIDE DEF x
  <2>3. /\ x < hi /\ lo <= x + d /\ x + d < hi /\ lo <= x + 2 * d /\ x + 2 * d < hi
        /\ x # x + d /\ x # x + 2 * d /\ x + d # x + 2 * d
    BY <1>3, <1>4, <2>1
  <2> QED
    BY <2>1, <2>2, <2>3 DEF x
<1>14. s[i] \in W /\ s[i + 1] \in W /\ s[i + 2] \in W
  BY <1>7, <1>11, <1>12, <1>13
<1>15. IsFiniteSet(W)
  BY <1>4, WindowsAreFinite DEF EvenTimes, hi
<1> QED
  BY <1>13, <1>14, <1>15, ThreeAtLeast, FS_CardinalityType

(* The windows hold every time but the last, in their order.               *)
LEMMA WindowsSplit ==
  ASSUME NEW s, EvenTimes(s), NEW n \in {2, 3, 4}, Len(s) >= 4 * n, NEW fewest \in 1 .. 3
  PROVE  SplitUp(s, Windows(s, n, fewest))
<1> DEFINE N == Len(s)
           Ws == Windows(s, n, fewest)
<1>1. N \in Nat /\ N >= 8 /\ DOMAIN s = 1 .. N /\ \A i \in 1 .. N : s[i] \in Nat
  BY DEF EvenTimes
<1>2. \A i, j \in 1 .. N : i < j => s[i] < s[j]
  BY DEF EvenTimes, Rising
<1>3. /\ \A j \in 0 .. n : Cut(s, n, j) \in Nat
      /\ Cut(s, n, 0) = s[1] /\ Cut(s, n, n) = s[N]
  BY CutsAre
<1>4. \A j, k \in 0 .. n : j <= k => Cut(s, n, j) <= Cut(s, n, k)
  BY CutsRise
<1>5. Ws = {Window(s, n, k) : k \in 1 .. n}
  <2>1. \A k \in 1 .. n : Cardinality(Window(s, n, k)) >= fewest
    <3> TAKE k \in 1 .. n
    <3> DEFINE c == Cardinality(Window(s, n, k))
    <3>1. c \in Nat /\ c >= 3
      BY WindowsAreFull
    <3> HIDE DEF c
    <3>2. c >= fewest
      BY <3>1
    <3> QED
      BY <3>2 DEF c
  <2> QED
    BY <2>1 DEF Windows
<1>6. \A k \in 1 .. n : k \in 0 .. n /\ k - 1 \in 0 .. n /\ k <= n
  OBVIOUS
<1>7. ASSUME NEW k \in 1 .. n, NEW t \in Window(s, n, k)
      PROVE  t \in ToSet(s) /\ t # s[N] /\ t \in Nat /\ Cut(s, n, k - 1) <= t /\ t < Cut(s, n, k)
  <2>1. t \in ToSet(s) /\ Cut(s, n, k - 1) <= t /\ t < Cut(s, n, k)
    BY DEF Window
  <2>2. t \in Nat
    BY <1>1, <2>1 DEF ToSet
  <2>3. n \in 0 .. n
    OBVIOUS
  <2>4. Cut(s, n, k) \in Nat /\ s[N] \in Nat /\ Cut(s, n, k) <= s[N]
    BY <1>3, <1>4, <1>6, <2>3
  <2> QED
    BY <2>1, <2>2, <2>4
<1>8. ASSUME NEW t \in ToSet(s), t # s[N]
      PROVE  \E k \in 1 .. n : t \in Window(s, n, k)
  <2>1. PICK i \in 1 .. N : t = s[i]
    BY <1>1, <1>8 DEF ToSet
  <2>2. t \in Nat /\ s[1] <= t /\ t < s[N]
    <3> HIDE DEF N
    <3>1. 1 \in 1 .. N /\ N \in 1 .. N /\ (i = 1 \/ 1 < i) /\ (i = N \/ i < N)
      BY <1>1
    <3>2. (i = 1 \/ s[1] < s[i]) /\ (i = N \/ s[i] < s[N]) /\ s[1] \in Nat /\ s[i] \in Nat
      BY <1>1, <1>2, <3>1
    <3> QED
      BY <1>8, <2>1, <3>2
  <2> DEFINE Past == {k \in 0 .. n : t < Cut(s, n, k)}
  <2>3. Past \in SUBSET Nat /\ n \in Past
    BY <1>3, <2>2
  <2>4. PICK k \in Past : \A j \in Past : k <= j
    BY <2>3, Smallest
  <2>5. k \in 0 .. n /\ t < Cut(s, n, k)
    BY <2>4
  <2>6. k # 0
    BY <1>3, <2>2, <2>5
  <2>7. k \in 1 .. n /\ k - 1 \in 0 .. n /\ ~(k <= k - 1)
    BY <2>5, <2>6
  <2>8. ~(t < Cut(s, n, k - 1))
    BY <2>4, <2>7
  <2>9. Cut(s, n, k - 1) <= t
    BY <1>3, <2>2, <2>7, <2>8
  <2> QED
    BY <1>8, <2>5, <2>7, <2>9 DEF Window
<1>9. UNION Ws = ToSet(s) \ {s[N]}
  BY <1>5, <1>7, <1>8
<1>10. ASSUME NEW j \in 1 .. n, NEW k \in 1 .. n, j < k
       PROVE  \A t \in Window(s, n, j), u \in Window(s, n, k) : t < u
  <2> TAKE t \in Window(s, n, j), u \in Window(s, n, k)
  <2>1. t \in Nat /\ t < Cut(s, n, j) /\ u \in Nat /\ Cut(s, n, k - 1) <= u
    BY <1>7
  <2>2. j \in 0 .. n /\ k - 1 \in 0 .. n /\ j <= k - 1
    BY <1>10
  <2>3. Cut(s, n, j) \in Nat /\ Cut(s, n, k - 1) \in Nat /\ Cut(s, n, j) <= Cut(s, n, k - 1)
    BY <1>3, <1>4, <2>2
  <2> QED
    BY <2>1, <2>3
<1>11. ASSUME NEW v \in Ws, NEW w \in Ws
       PROVE  v = w \/ (\A t \in v, u \in w : t < u) \/ (\A t \in v, u \in w : u < t)
  <2>1. PICK j \in 1 .. n : v = Window(s, n, j)
    BY <1>5
  <2>2. PICK k \in 1 .. n : w = Window(s, n, k)
    BY <1>5
  <2>3. j < k \/ k < j \/ j = k
    OBVIOUS
  <2>4. CASE j < k
    BY <1>10, <2>1, <2>2, <2>4
  <2>5. CASE k < j
    BY <1>10, <2>1, <2>2, <2>5
  <2> QED
    BY <2>1, <2>2, <2>3, <2>4, <2>5
<1> QED
  BY <1>9, <1>11 DEF SplitUp

(* Of candles that are not one unit of time apart, every one that is asked *)
(* for is fetched, once (from some time on, if one cannot be parsed), and  *)
(* those fetched are split up into windows that leave out the last (Once;  *)
(* fetch_klines_for_symbol, _time_windows, _quarter_candles), whatever the *)
(* exchange has of them and however many it returns per request.           *)
THEOREM FetchedOnce ==
  ASSUME NEW a, a.times \in SUBSET Nat, a.first \in Nat, a.last \in Nat,
         a.first < a.last, \A t \in a.times : t + 1 \notin a.times
  PROVE  Once(a)
<1> DEFINE got == Fetched(a)
<1>1. IsArchive(a)
  BY DEF IsArchive
<1>2. a.last \in -1 .. a.last
  OBVIOUS
<1>3. Finds(a, a.last)
  BY <1>1, <1>2, EachFinds
<1>4. WantedBy(a, a.last) = Wanted(a)
  BY DEF WantedBy, Wanted
<1>5. PICK start \in -1 .. a.last + 1 : got = Ascending(From(Wanted(a), start))
  BY <1>3, <1>4, FetchedIs DEF Finds
<1>6. NoGap(a)
  BY <1>5 DEF NoGap, From
<1>7. Wanted(a) \in SUBSET Nat /\ IsFiniteSet(Wanted(a))
  <2> DEFINE S == Wanted(a)
             n == a.last
  <2>1. S \in SUBSET Nat /\ n \in Int /\ \A t \in S : t <= n
    BY DEF Wanted
  <2> HIDE DEF S, n
  <2>2. IsFiniteSet(S)
    BY <2>1, BoundedIsFinite
  <2> QED
    BY <2>1, <2>2 DEF S
<1>8. ASSUME a.bad = {} PROVE ToSet(got) = Wanted(a)
  <2>1. a.last > a.first /\ Spaced(a)
    BY <1>8 DEF Spaced
  <2>2. got = Ascending(Wanted(a))
    BY <1>3, <1>4, <2>1, FetchedIs DEF Finds
  <2> QED
    BY <1>7, <2>2, AscendingSays
<1>9. got \in Seq(Nat) /\ Rising(got)
  <2> DEFINE S == From(Wanted(a), start)
  <2>1. S \in SUBSET Nat /\ IsFiniteSet(S)
    BY <1>7, FS_Subset DEF From
  <2> HIDE DEF S
  <2>2. Ascending(S) \in Seq(S) /\ Rising(Ascending(S))
    BY <2>1, AscendingIs, AscendingRises
  <2>3. Ascending(S) \in Seq(Nat)
    BY <2>1, <2>2
  <2> QED
    BY <1>5, <2>2, <2>3 DEF S
<1> HIDE DEF got
<1>10. ASSUME Evenly(got), NEW n \in {2, 3}, Len(got) >= 4 * n
       PROVE  SplitUp(got, TimeWindows(got, n))
  <2>1. n \in {2, 3, 4} /\ Len(got) >= 8 /\ ~(Len(got) < 4 * n) /\ 3 \in 1 .. 3
    BY <1>9, <1>10
  <2>2. EvenTimes(got)
    BY <1>9, <1>10, <2>1 DEF EvenTimes
  <2> QED
    BY <1>10, <2>1, <2>2, WindowsSplit DEF TimeWindows
<1>11. ASSUME Evenly(got), Len(got) >= 20
       PROVE  SplitUp(got, Quarters(got))
  <2>1. Len(got) >= 8 /\ ~(Len(got) < 20) /\ Len(got) >= 4 * 4
    BY <1>9, <1>11
  <2>2. EvenTimes(got)
    BY <1>9, <1>11, <2>1 DEF EvenTimes
  <2>3. 4 \in {2, 3, 4} /\ 2 \in 1 .. 3
    OBVIOUS
  <2> QED
    BY <2>1, <2>2, <2>3, WindowsSplit DEF Quarters
<1>12. Divided(got)
  BY <1>10, <1>11 DEF Divided
<1> QED
  BY <1>6, <1>8, <1>12 DEF NoneMissing, Once, got

(* The archives the runs check have such candles.                          *)
LEMMA EvenNumbers ==
  ASSUME NEW n \in Nat
  PROVE  /\ Even(n) \in SUBSET Nat
         /\ \A t \in Even(n) : t + 1 \notin Even(n)
<1>1. \A i, j \in 0 .. n : 2 * i + 1 # 2 * j
  OBVIOUS
<1> QED
  BY <1>1 DEF Even

LEMMA CheckedArchives == ArchivesOnce
<1>1. ASSUME NEW n \in 7 .. 21 PROVE Once(Full(n))
  <2> DEFINE a == Full(n)
  <2>1. a.times = Even(n) /\ a.first = 0 /\ a.last = 2 * n
    BY DEF Full
  <2>2. n \in Nat /\ 2 * n \in Nat /\ 0 < 2 * n
    OBVIOUS
  <2> HIDE DEF a
  <2>3. /\ a.times \in SUBSET Nat /\ a.first \in Nat /\ a.last \in Nat
        /\ a.first < a.last /\ \A t \in a.times : t + 1 \notin a.times
    BY <2>1, <2>2, EvenNumbers
  <2>4. Once(a)
    BY <2>3, FetchedOnce
  <2> QED
    BY <2>4 DEF a
<1>2. ASSUME NEW times \in SUBSET Even(6), NEW bad \in {{}} \cup {{t} : t \in Even(6)},
             NEW first \in {0, 3}, NEW last \in {9, 12}
      PROVE  Once(Gappy(times, bad, first, last))
  <2> DEFINE a == Gappy(times, bad, first, last)
  <2>1. a.times = times /\ a.first = first /\ a.last = last
    BY DEF Gappy
  <2>2. times \in SUBSET Nat /\ \A t \in times : t + 1 \notin times
    BY EvenNumbers
  <2>4. first \in Nat /\ last \in Nat /\ first < last
    <3>1. (first = 0 \/ first = 3) /\ (last = 9 \/ last = 12)
      OBVIOUS
    <3> QED
      BY <3>1
  <2> HIDE DEF a
  <2>3. /\ a.times \in SUBSET Nat /\ a.first \in Nat /\ a.last \in Nat
        /\ a.first < a.last /\ \A t \in a.times : t + 1 \notin a.times
    BY <2>1, <2>2, <2>4
  <2>5. Once(a)
    BY <2>3, FetchedOnce
  <2> QED
    BY <2>5 DEF a
<1> QED
  BY <1>1, <1>2 DEF ArchivesOnce

(* Whenever a batch is scored, its candles are fetched and split up once   *)
(* (CandlesOnce).                                                          *)
THEOREM CandlesAreFetchedOnce == Spec => []CandlesOnce
<1>1. CandlesOnce
  BY CheckedArchives DEF CandlesOnce
<1> QED
  BY <1>1, PTL

----------------------------------------------------------------------------
(* The pairing.  A ledger is what compute_realized_pnl_by_pairing reads:   *)
(* rows in the order of their times, each of some quantity.                *)
Kinds == {"entry", "exit", "other"}
LedgerRow == [kind : Kinds, side : Side, qty : Nat \ {0}, ts : Int, price : Int, pnl : Int]

LEMMA RowsAre ==
  ASSUME NEW rows \in Seq(LedgerRow)
  PROVE  /\ Len(rows) \in Nat /\ DOMAIN rows = 1 .. Len(rows)
         /\ \A n \in 1 .. Len(rows) :
              /\ rows[n] \in LedgerRow /\ rows[n].side \in Side
              /\ rows[n].qty \in Nat /\ rows[n].qty > 0
              /\ rows[n].ts \in Int /\ rows[n].price \in Int
<1>1. Len(rows) \in Nat /\ DOMAIN rows = 1 .. Len(rows) /\ \A n \in 1 .. Len(rows) : rows[n] \in LedgerRow
  OBVIOUS
<1>2. \A r \in LedgerRow : r.side \in Side /\ r.qty \in Nat /\ r.qty > 0 /\ r.ts \in Int /\ r.price \in Int
  BY DEF LedgerRow
<1> QED
  BY <1>1, <1>2

(* A recursion on numbers up to N that stays in S has a value at each.     *)
Follows(f, base, step, n) ==
  f[0] = base /\ \A k \in 1 .. n : f[k] = step[<<f[k - 1], k>>]

LEMMA Recursion ==
  ASSUME NEW S, NEW base \in S, NEW N \in Nat, NEW step \in [S \X (1 .. N) -> S]
  PROVE  \E f \in [0 .. N -> S] : Follows(f, base, step, N)
<1> DEFINE Bad == {n \in Nat : n <= N /\ ~ \E f \in [0 .. n -> S] : Follows(f, base, step, n)}
<1> SUFFICES ASSUME Bad # {} PROVE FALSE
  OBVIOUS
<1>1. PICK n \in Bad : \A m \in Bad : n <= m
  BY Smallest
<1>2. n # 0
  <2>1. [k \in 0 .. 0 |-> base] \in [0 .. 0 -> S] /\ Follows([k \in 0 .. 0 |-> base], base, step, 0)
    BY DEF Follows
  <2> QED
    BY <2>1
<1>3. n \in Nat /\ n - 1 \in Nat /\ n \in 1 .. N /\ n - 1 \notin Bad
  BY <1>1, <1>2
<1>4. PICK f \in [0 .. n - 1 -> S] : Follows(f, base, step, n - 1)
  BY <1>3
<1> DEFINE g == [k \in 0 .. n |-> IF k = n THEN step[<<f[n - 1], n>>] ELSE f[k]]
<1>5. g[n] = step[<<f[n - 1], n>>] /\ \A k \in 0 .. n - 1 : g[k] = f[k]
  BY <1>3
<1>6. step[<<f[n - 1], n>>] \in S
  BY <1>3, <1>4
<1>7. g \in [0 .. n -> S]
  BY <1>3, <1>4, <1>6
<1> HIDE DEF g
<1>8. Follows(g, base, step, n)
  <2>1. g[0] = base
    BY <1>3, <1>4, <1>5 DEF Follows
  <2>2. ASSUME NEW k \in 1 .. n PROVE g[k] = step[<<g[k - 1], k>>]
    <3>1. CASE k = n
      <4>1. g[n - 1] = f[n - 1]
        BY <1>3, <1>5
      <4> QED
        BY <1>5, <3>1, <4>1
    <3>2. CASE k # n
      <4>1. k \in 1 .. n - 1 /\ k \in 0 .. n - 1 /\ k - 1 \in 0 .. n - 1
        BY <1>3, <3>2
      <4>2. g[k] = f[k] /\ g[k - 1] = f[k - 1] /\ f[k] = step[<<f[k - 1], k>>]
        BY <1>4, <1>5, <4>1 DEF Follows
      <4> QED
        BY <4>2
    <3> QED
      BY <3>1, <3>2
  <2> QED
    BY <2>1, <2>2 DEF Follows
<1> QED
  BY <1>1, <1>7, <1>8

LEMMA SumsAre ==
  ASSUME NEW w \in Seq(Int)
  PROVE  /\ Sums(w) \in [0 .. Len(w) -> Int] /\ Sums(w)[0] = 0
         /\ \A n \in 1 .. Len(w) : Sums(w)[n] = Sums(w)[n - 1] + w[n]
<1> DEFINE N == Len(w)
           step == [x \in Int \X (1 .. N) |-> x[1] + w[x[2]]]
           Is(g) == g = [n \in 0 .. Len(w) |-> IF n = 0 THEN 0 ELSE g[n - 1] + w[n]]
<1>1. N \in Nat /\ \A n \in 1 .. N : w[n] \in Int
  OBVIOUS
<1>2. step \in [Int \X (1 .. N) -> Int] /\ \A v \in Int, n \in 1 .. N : step[<<v, n>>] = v + w[n]
  BY <1>1
<1> HIDE DEF step, N
<1>3. PICK f \in [0 .. N -> Int] : Follows(f, 0, step, N)
  <2>1. 0 \in Int
    OBVIOUS
  <2> QED
    BY <1>1, <1>2, <2>1, Recursion
<1>4. ASSUME NEW n \in 0 .. N PROVE f[n] = IF n = 0 THEN 0 ELSE f[n - 1] + w[n]
  <2>1. CASE n = 0
    BY <1>3, <2>1 DEF Follows
  <2>2. CASE n # 0
    <3>1. n \in 1 .. N /\ n - 1 \in 0 .. N
      BY <1>1, <2>2
    <3>2. f[n - 1] \in Int
      BY <1>3, <3>1
    <3>3. f[n] = step[<<f[n - 1], n>>]
      BY <1>3, <3>1 DEF Follows
    <3>4. step[<<f[n - 1], n>>] = f[n - 1] + w[n]
      BY <1>2, <3>1, <3>2
    <3> QED
      BY <2>2, <3>3, <3>4
  <2> QED
    BY <2>1, <2>2
<1>5. Is(f)
  BY <1>3, <1>4 DEF N
<1>6. Is(CHOOSE g : Is(g))
  BY <1>5
<1>7. Sums(w) = CHOOSE g : Is(g)
  BY DEF Sums
<1>8. Is(Sums(w))
  BY <1>6, <1>7
<1>9. Sums(w)[0] = 0 /\ \A n \in 1 .. N : Sums(w)[n] = Sums(w)[n - 1] + w[n]
  <2>1. \A n \in 0 .. N : Sums(w)[n] = IF n = 0 THEN 0 ELSE Sums(w)[n - 1] + w[n]
    BY <1>8 DEF N
  <2>2. 0 \in 0 .. N /\ \A n \in 1 .. N : n \in 0 .. N /\ n # 0
    BY <1>1
  <2> QED
    BY <2>1, <2>2
<1>10. \A n \in 0 .. N : Sums(w)[n] \in Int
  <2> DEFINE Bad == {n \in 0 .. N : Sums(w)[n] \notin Int}
  <2> SUFFICES ASSUME Bad # {} PROVE FALSE
    OBVIOUS
  <2>1. PICK n \in Bad : \A m \in Bad : n <= m
    <3>1. Bad \in SUBSET Nat
      BY <1>1
    <3> QED
      BY <3>1, Smallest
  <2>2. n # 0
    BY <1>9
  <2>3. n \in 1 .. N /\ n - 1 \in 0 .. N /\ n - 1 \notin Bad
    BY <1>1, <2>1, <2>2
  <2>4. Sums(w)[n - 1] \in Int /\ w[n] \in Int /\ Sums(w)[n] = Sums(w)[n - 1] + w[n]
    BY <1>1, <1>9, <2>3
  <2> QED
    BY <2>4
<1> QED
  BY <1>8, <1>9, <1>10 DEF N

(* The units entered, numbered, and those of them that were taken.         *)
LEMMA EnteredIs ==
  ASSUME NEW rows \in Seq(LedgerRow), NEW side \in Side
  PROVE  /\ Entered(rows, side) \in [0 .. Len(rows) -> Nat] /\ Entered(rows, side)[0] = 0
         /\ \A n \in 1 .. Len(rows) :
              Entered(rows, side)[n]
                = Entered(rows, side)[n - 1] + IF Enter(rows[n], side) THEN rows[n].qty ELSE 0
<1> DEFINE w == [n \in DOMAIN rows |-> IF Enter(rows[n], side) THEN rows[n].qty ELSE 0]
           e == Entered(rows, side)
           N == Len(rows)
<1>1. N \in Nat /\ DOMAIN rows = 1 .. N /\ \A n \in 1 .. N : rows[n] \in LedgerRow
  OBVIOUS
<1>2. \A n \in 1 .. N : w[n] \in Nat /\ w[n] = IF Enter(rows[n], side) THEN rows[n].qty ELSE 0
  BY <1>1 DEF LedgerRow
<1>3. w \in Seq(Int) /\ Len(w) = N
  <2>1. w = [n \in 1 .. N |-> w[n]]
    BY <1>1
  <2> HIDE DEF w
  <2> QED
    BY <1>1, <1>2, <2>1
<1>4. e = Sums(w)
  BY DEF Entered
<1> HIDE DEF w, N, e
<1>5. e \in [0 .. N -> Int] /\ e[0] = 0 /\ \A n \in 1 .. N : e[n] = e[n - 1] + w[n]
  BY <1>3, <1>4, SumsAre
<1>6. \A n \in 0 .. N : e[n] \in Nat
  <2> DEFINE Bad == {n \in 0 .. N : e[n] \notin Nat}
  <2> SUFFICES ASSUME Bad # {} PROVE FALSE
    OBVIOUS
  <2>1. PICK n \in Bad : \A m \in Bad : n <= m
    <3>1. Bad \in SUBSET Nat
      BY <1>1
    <3> QED
      BY <3>1, Smallest
  <2>2. n \in 1 .. N /\ n - 1 \in 0 .. N /\ n - 1 \notin Bad
    BY <1>1, <1>5, <2>1
  <2>3. e[n - 1] \in Nat /\ w[n] \in Nat /\ e[n] = e[n - 1] + w[n]
    BY <1>2, <1>5, <2>2
  <2> QED
    BY <2>1, <2>3
<1>7. e \in [0 .. N -> Nat]
  BY <1>5, <1>6
<1> QED
  BY <1>2, <1>5, <1>7 DEF e, N

LEMMA EnteredGrows ==
  ASSUME NEW rows \in Seq(LedgerRow), NEW side \in Side,
         NEW m \in 0 .. Len(rows), NEW n \in 0 .. Len(rows), m <= n
  PROVE  Entered(rows, side)[m] <= Entered(rows, side)[n]
<1> DEFINE e == Entered(rows, side)
           N == Len(rows)
<1>1. N \in Nat /\ \A k \in 1 .. N : rows[k].qty \in Nat
  BY RowsAre
<1>2. e \in [0 .. N -> Nat] /\ \A k \in 1 .. N : e[k - 1] <= e[k]
  <2>1. e \in [0 .. N -> Nat]
    BY EnteredIs
  <2>2. ASSUME NEW k \in 1 .. N PROVE e[k - 1] <= e[k]
    <3>1. rows[k].qty \in Nat /\ k - 1 \in 0 .. N
      BY <1>1
    <3>2. e[k] = e[k - 1] + IF Enter(rows[k], side) THEN rows[k].qty ELSE 0
      BY EnteredIs
    <3> HIDE DEF e
    <3> QED
      BY <2>1, <3>1, <3>2
  <2> QED
    BY <2>1, <2>2
<1> HIDE DEF e
<1> DEFINE Bad == {k \in 0 .. N : m <= k /\ ~(e[m] <= e[k])}
<1>3. Bad = {}
  <2> SUFFICES ASSUME Bad # {} PROVE FALSE
    OBVIOUS
  <2>1. PICK k \in Bad : \A j \in Bad : k <= j
    <3>1. Bad \in SUBSET Nat
      BY <1>1
    <3> QED
      BY <3>1, Smallest
  <2>2. k # m
    BY <1>2, <2>1
  <2>3. k \in 1 .. N /\ k - 1 \in 0 .. N /\ m <= k - 1 /\ k - 1 \notin Bad
    BY <1>1, <2>1, <2>2
  <2>4. e[k - 1] \in Nat /\ e[k] \in Nat /\ e[m] \in Nat /\ e[m] <= e[k - 1] /\ e[k - 1] <= e[k]
    BY <1>2, <2>3
  <2> QED
    BY <2>1, <2>4
<1> QED
  BY <1>3 DEF e

(* Of high units, of which low are gone, an exit takes at most qty.        *)
Catches(low, qty, high, end) ==
  low \in Nat /\ qty \in Nat /\ high \in Nat /\ low <= high /\ end = low + Lesser(qty, high - low)

LEMMA CatchesIs ==
  ASSUME NEW low, NEW qty, NEW high, NEW end, Catches(low, qty, high, end)
  PROVE  end \in Nat /\ end <= high
BY DEF Catches, Lesser

LEMMA TakenIs ==
  ASSUME NEW rows \in Seq(LedgerRow), NEW side \in Side
  PROVE  /\ Taken(rows, side)[0] = 0
         /\ \A n \in 1 .. Len(rows) :
              Taken(rows, side)[n]
                = IF rows[n].kind = "exit" /\ rows[n].side = Opposite(side)
                  THEN Taken(rows, side)[n - 1]
                         + Lesser(rows[n].qty, Entered(rows, side)[n] - Taken(rows, side)[n - 1])
                  ELSE Taken(rows, side)[n - 1]
         /\ \A n \in 0 .. Len(rows) :
              Taken(rows, side)[n] \in Nat /\ Taken(rows, side)[n] <= Entered(rows, side)[n]
<1> DEFINE N == Len(rows)
           e == Entered(rows, side)
           t == Taken(rows, side)
           Out(n) == rows[n].kind = "exit" /\ rows[n].side = Opposite(side)
           step == [x \in Int \X (1 .. N) |->
                      IF Out(x[2]) THEN x[1] + Lesser(rows[x[2]].qty, e[x[2]] - x[1]) ELSE x[1]]
           Is(g) == g = [n \in 0 .. Len(rows) |->
                           IF n = 0 THEN 0
                           ELSE IF rows[n].kind = "exit" /\ rows[n].side = Opposite(side)
                           THEN g[n - 1] + Lesser(rows[n].qty, e[n] - g[n - 1])
                           ELSE g[n - 1]]
<1>1. N \in Nat /\ (\A n \in 1 .. N : rows[n].qty \in Nat) /\ e \in [0 .. N -> Nat]
  BY RowsAre, EnteredIs
<1>2. t = CHOOSE g : Is(g)
  BY DEF Taken
<1> HIDE DEF e, t
<1>3. /\ step \in [Int \X (1 .. N) -> Int]
      /\ \A v \in Int, n \in 1 .. N : step[<<v, n>>] = IF Out(n) THEN v + Lesser(rows[n].qty, e[n] - v) ELSE v
  <2>1. ASSUME NEW v \in Int, NEW n \in 1 .. N
        PROVE  (IF Out(n) THEN v + Lesser(rows[n].qty, e[n] - v) ELSE v) \in Int
    <3>1. rows[n].qty \in Int /\ e[n] - v \in Int
      BY <1>1
    <3>2. Lesser(rows[n].qty, e[n] - v) \in Int
      BY <3>1 DEF Lesser
    <3>3. v + Lesser(rows[n].qty, e[n] - v) \in Int
      BY <3>2
    <3> HIDE DEF Out
    <3> QED
      BY <3>3
  <2> HIDE DEF Out
  <2> QED
    BY <2>1
<1>4. PICK f \in [0 .. N -> Int] : Follows(f, 0, step, N)
  <2>1. 0 \in Int
    OBVIOUS
  <2> HIDE DEF step, N
  <2> QED
    BY <1>1, <1>3, <2>1, Recursion
<1> HIDE DEF step
<1>5. ASSUME NEW n \in 0 .. N
      PROVE  f[n] = IF n = 0 THEN 0
                    ELSE IF Out(n) THEN f[n - 1] + Lesser(rows[n].qty, e[n] - f[n - 1]) ELSE f[n - 1]
  <2>1. CASE n = 0
    BY <1>4, <2>1 DEF Follows
  <2>2. CASE n # 0
    <3>1. n \in 1 .. N /\ n - 1 \in 0 .. N
      BY <1>1, <2>2
    <3>2. f[n - 1] \in Int
      BY <1>4, <3>1
    <3>3. f[n] = step[<<f[n - 1], n>>]
      BY <1>4, <3>1 DEF Follows
    <3> HIDE DEF Out
    <3>4. step[<<f[n - 1], n>>] = IF Out(n) THEN f[n - 1] + Lesser(rows[n].qty, e[n] - f[n - 1]) ELSE f[n - 1]
      BY <1>3, <3>1, <3>2
    <3> QED
      BY <2>2, <3>3, <3>4
  <2> QED
    BY <2>1, <2>2
<1>6. Is(f)
  BY <1>4, <1>5
<1>7. Is(t)
  <2>1. Is(CHOOSE g : Is(g))
    BY <1>6
  <2> HIDE DEF Is, t
  <2> QED
    BY <1>2, <2>1
<1>8. /\ t[0] = 0
      /\ \A n \in 1 .. N :
           t[n] = IF Out(n) THEN t[n - 1] + Lesser(rows[n].qty, e[n] - t[n - 1]) ELSE t[n - 1]
  <2>1. \A n \in 0 .. N :
          t[n] = IF n = 0 THEN 0
                 ELSE IF Out(n) THEN t[n - 1] + Lesser(rows[n].qty, e[n] - t[n - 1]) ELSE t[n - 1]
    BY <1>7
  <2> HIDE DEF Out, Is, N
  <2>2. 0 \in 0 .. N /\ \A n \in 1 .. N : n \in 0 .. N /\ n # 0
    BY <1>1
  <2> QED
    BY <2>1, <2>2
<1> HIDE DEF Is
<1>9. \A n \in 0 .. N : t[n] \in Nat /\ t[n] <= e[n]
  <2> DEFINE Bad == {n \in 0 .. N : ~(t[n] \in Nat /\ t[n] <= e[n])}
  <2> SUFFICES ASSUME Bad # {} PROVE FALSE
    OBVIOUS
  <2>1. PICK n \in Bad : \A m \in Bad : n <= m
    <3>1. Bad \in SUBSET Nat
      BY <1>1
    <3> QED
      BY <3>1, Smallest
  <2>2. n # 0
    <3>1. t[0] = 0 /\ e[0] \in Nat
      BY <1>1, <1>8
    <3>2. t[0] \in Nat /\ t[0] <= e[0]
      BY <3>1
    <3> QED
      BY <2>1, <3>2
  <2>3. n \in 1 .. N /\ n - 1 \in 0 .. N /\ n \in 0 .. N /\ n - 1 \notin Bad
    BY <1>1, <2>1, <2>2
  <2>4. t[n - 1] \in Nat /\ t[n - 1] <= e[n - 1] /\ e[n - 1] \in Nat /\ e[n] \in Nat /\ rows[n].qty \in Nat
    BY <1>1, <2>3
  <2>5. e[n - 1] <= e[n]
    <3>1. n - 1 <= n
      BY <1>1, <2>3
    <3> QED
      BY <2>3, <3>1, EnteredGrows DEF e
  <2>6. t[n] = IF Out(n) THEN t[n - 1] + Lesser(rows[n].qty, e[n] - t[n - 1]) ELSE t[n - 1]
    BY <1>8, <2>3
  <2> HIDE DEF Out
  <2>7. t[n] \in Nat /\ t[n] <= e[n]
    <3>1. CASE Out(n)
      <4>1. Catches(t[n - 1], rows[n].qty, e[n], t[n])
        BY <2>4, <2>5, <2>6, <3>1 DEF Catches
      <4> QED
        BY <4>1, CatchesIs
    <3>2. CASE ~Out(n)
      BY <2>4, <2>5, <2>6, <3>2
    <3> QED
      BY <3>1, <3>2
  <2> QED
    BY <2>1, <2>7
<1> QED
  BY <1>8, <1>9 DEF t, e

(* Each unit was entered by one row, and paid for at its price.            *)
LEMMA OwnerIs ==
  ASSUME NEW rows \in Seq(LedgerRow), NEW side \in Side, NEW p \in 1 .. Len(rows), NEW u \in Int,
         Entered(rows, side)[p - 1] < u, u <= Entered(rows, side)[p]
  PROVE  Owner(rows, side, u) = p
<1> DEFINE e == Entered(rows, side)
           Is(n) == e[n - 1] < u /\ u <= e[n]
<1>1. Len(rows) \in Nat /\ DOMAIN rows = 1 .. Len(rows) /\ e \in [0 .. Len(rows) -> Nat]
  BY RowsAre, EnteredIs
<1>2. ASSUME NEW n \in DOMAIN rows, Is(n), n # p PROVE FALSE
  <2>1. n \in 0 .. Len(rows) /\ n - 1 \in 0 .. Len(rows) /\ p \in 0 .. Len(rows) /\ p - 1 \in 0 .. Len(rows)
    BY <1>1
  <2>2. e[n] \in Nat /\ e[n - 1] \in Nat /\ e[p] \in Nat /\ e[p - 1] \in Nat
    BY <1>1, <2>1
  <2>3. CASE n <= p - 1
    <3>1. e[n] <= e[p - 1]
      BY <2>1, <2>3, EnteredGrows
    <3> HIDE DEF e
    <3> QED
      BY <1>2, <2>2, <3>1 DEF e
  <2>4. CASE p <= n - 1
    <3>1. e[p] <= e[n - 1]
      BY <2>1, <2>4, EnteredGrows
    <3> HIDE DEF e
    <3> QED
      BY <1>2, <2>2, <3>1 DEF e
  <2> QED
    BY <1>1, <1>2, <2>3, <2>4
<1>3. p \in DOMAIN rows /\ Is(p)
  BY <1>1
<1>4. Owner(rows, side, u) = CHOOSE n \in DOMAIN rows : Is(n)
  BY DEF Owner
<1> HIDE DEF Is
<1> QED
  BY <1>2, <1>3, <1>4

LEMMA OwnerExists ==
  ASSUME NEW rows \in Seq(LedgerRow), NEW side \in Side, NEW u \in 1 .. Entered(rows, side)[Len(rows)]
  PROVE  Owner(rows, side, u) \in 1 .. Len(rows)
<1> DEFINE e == Entered(rows, side)
           N == Len(rows)
           Some == {n \in 0 .. N : u <= e[n]}
<1>1. N \in Nat /\ e \in [0 .. N -> Nat] /\ e[0] = 0
  BY RowsAre, EnteredIs
<1>2. u \in Int /\ 1 <= u /\ u <= e[N]
  BY <1>1
<1> HIDE DEF e
<1>3. PICK n \in Some : \A m \in Some : n <= m
  <2>1. Some \in SUBSET Nat /\ N \in Some
    BY <1>1, <1>2
  <2> QED
    BY <2>1, Smallest
<1>4. n # 0
  BY <1>1, <1>2, <1>3
<1>5. n \in 1 .. N /\ n - 1 \in 0 .. N /\ n - 1 \notin Some
  BY <1>1, <1>3, <1>4
<1>6. e[n - 1] < u /\ u <= e[n]
  <2>1. e[n - 1] \in Nat
    BY <1>1, <1>5
  <2> QED
    BY <1>2, <1>3, <1>5, <2>1
<1> QED
  BY <1>2, <1>5, <1>6, OwnerIs DEF e

LEMMA PaidIs ==
  ASSUME NEW rows \in Seq(LedgerRow), NEW side \in Side
  PROVE  /\ Paid(rows, side) \in [0 .. Entered(rows, side)[Len(rows)] -> Int]
         /\ \A u \in 1 .. Entered(rows, side)[Len(rows)] :
              Paid(rows, side)[u] = Paid(rows, side)[u - 1] + rows[Owner(rows, side, u)].price
<1> DEFINE total == Entered(rows, side)[Len(rows)]
           w == [u \in 1 .. total |-> rows[Owner(rows, side, u)].price]
<1>1. total \in Nat
  <2>1. Len(rows) \in 0 .. Len(rows)
    BY RowsAre
  <2> QED
    BY <2>1, EnteredIs
<1>2. \A u \in 1 .. total : w[u] \in Int /\ w[u] = rows[Owner(rows, side, u)].price
  BY RowsAre, OwnerExists
<1>3. w = [u \in 1 .. total |-> w[u]]
  OBVIOUS
<1>4. Paid(rows, side) = Sums(w)
  BY DEF Paid
<1> HIDE DEF w, total
<1>5. w \in Seq(Int) /\ Len(w) = total
  BY <1>1, <1>2, <1>3
<1>6. Sums(w) \in [0 .. total -> Int] /\ \A u \in 1 .. total : Sums(w)[u] = Sums(w)[u - 1] + w[u]
  BY <1>5, SumsAre
<1> QED
  BY <1>2, <1>4, <1>6 DEF total

LEMMA PaidOf ==
  ASSUME NEW rows \in Seq(LedgerRow), NEW side \in Side, NEW p \in 1 .. Len(rows),
         NEW lo \in Nat, NEW hi \in Nat,
         Entered(rows, side)[p - 1] <= lo, lo <= hi, hi <= Entered(rows, side)[p]
  PROVE  Paid(rows, side)[hi] = Paid(rows, side)[lo] + (hi - lo) * rows[p].price
<1> DEFINE e == Entered(rows, side)
           paid == Paid(rows, side)
           total == e[Len(rows)]
           price == rows[p].price
<1>1. /\ Len(rows) \in Nat /\ price \in Int /\ e \in [0 .. Len(rows) -> Nat]
      /\ p \in 0 .. Len(rows) /\ p - 1 \in 0 .. Len(rows) /\ Len(rows) \in 0 .. Len(rows) /\ p <= Len(rows)
  BY RowsAre, EnteredIs
<1>2. e[p] <= total
  BY <1>1, EnteredGrows
<1>3. total \in Nat /\ e[p] \in Nat /\ e[p - 1] \in Nat
  BY <1>1
<1>4. paid \in [0 .. total -> Int]
  BY PaidIs
<1>5. ASSUME NEW u \in Nat, lo < u, u <= hi PROVE paid[u] = paid[u - 1] + price
  <2>1. e[p - 1] < u /\ u <= e[p] /\ u \in 1 .. total
    <3> HIDE DEF e, total
    <3> QED
      BY <1>2, <1>3, <1>5 DEF e
  <2>2. Owner(rows, side, u) = p
    BY <2>1, OwnerIs
  <2> QED
    BY <2>1, <2>2, PaidIs
<1>6. hi <= total /\ e[p - 1] <= lo /\ hi <= e[p]
  BY <1>2, <1>3
<1> HIDE DEF e, paid, total, price
<1> DEFINE Bad == {u \in Nat : lo <= u /\ u <= hi /\ paid[u] # paid[lo] + (u - lo) * price}
<1>7. Bad = {}
  <2> SUFFICES ASSUME Bad # {} PROVE FALSE
    OBVIOUS
  <2>1. PICK u \in Bad : \A v \in Bad : u <= v
    BY Smallest
  <2>2. paid[lo] \in Int
    <3>1. lo <= total
      BY <1>3, <1>6
    <3> QED
      BY <1>4, <3>1
  <2>3. u # lo
    <3>1. (lo - lo) * price = 0
      BY <1>1
    <3> QED
      BY <2>1, <2>2, <3>1
  <2>4. u - 1 \in Nat /\ lo <= u - 1 /\ u - 1 <= hi /\ u - 1 \notin Bad /\ lo < u /\ u <= hi
    BY <2>1, <2>3
  <2>5. paid[u - 1] = paid[lo] + (u - 1 - lo) * price /\ paid[u] = paid[u - 1] + price
    BY <1>5, <2>4
  <2>6. (u - lo) * price = (u - 1 - lo) * price + price
    BY <1>1
  <2>7. (u - 1 - lo) * price \in Int
    BY <1>1
  <2> QED
    BY <1>1, <2>1, <2>2, <2>5, <2>6, <2>7
<1> QED
  BY <1>7 DEF paid, price

(* What is queued of a side: x is what is left, the units after the first  *)
(* low up to high, of an entry among the first n rows; and q is left of    *)
(* those rows when the first low units are taken.                          *)
Part(rows, side, n, x, low, high) ==
  \E p \in 1 .. n :
    /\ Enter(rows[p], side) /\ Entered(rows, side)[p - 1] <= low /\ low < high
    /\ high = Entered(rows, side)[p] /\ x = [rows[p] EXCEPT !.qty = high - low]

QueueIs(rows, side, n, q, low) ==
  /\ q \in Seq(LedgerRow)
  /\ \E b \in [0 .. Len(q) -> Nat] :
       /\ b[0] = low /\ b[Len(q)] = Entered(rows, side)[n]
       /\ \A j \in 1 .. Len(q) : Part(rows, side, n, q[j], b[j - 1], b[j])

(* The oldest entry of a queue, once used up and once in part.             *)
LEMMA QueueEmpty ==
  ASSUME NEW rows, NEW side, NEW n, NEW low, QueueIs(rows, side, n, <<>>, low)
  PROVE  low = Entered(rows, side)[n]
BY DEF QueueIs

LEMMA QueueHead ==
  ASSUME NEW rows \in Seq(LedgerRow), NEW side \in Side, NEW n \in 0 .. Len(rows), NEW q, NEW low \in Nat,
         QueueIs(rows, side, n, q, low), q # <<>>
  PROVE  \E p \in 1 .. n :
           /\ Enter(rows[p], side) /\ Entered(rows, side)[p - 1] <= low /\ low < Entered(rows, side)[p]
           /\ Head(q) = [rows[p] EXCEPT !.qty = Entered(rows, side)[p] - low]
           /\ QueueIs(rows, side, n, Tail(q), Entered(rows, side)[p])
           /\ \A k \in Nat : low + k < Entered(rows, side)[p] =>
                QueueIs(rows, side, n, [q EXCEPT ![1].qty = @ - k], low + k)
<1> DEFINE e == Entered(rows, side)
           L == Len(q)
<1>1. /\ Len(rows) \in Nat /\ n \in Nat /\ n <= Len(rows)
      /\ \A i \in 1 .. n : rows[i] \in LedgerRow /\ rows[i].qty \in Nat
  BY RowsAre
<1>2. q \in Seq(LedgerRow) /\ L \in Nat /\ L >= 1
  BY DEF QueueIs
<1>3. PICK b \in [0 .. L -> Nat] :
        b[0] = low /\ b[L] = e[n] /\ \A j \in 1 .. L : Part(rows, side, n, q[j], b[j - 1], b[j])
  BY DEF QueueIs
<1>4. Part(rows, side, n, q[1], low, b[1])
  <2>1. 1 \in 1 .. L /\ 1 - 1 = 0
    BY <1>2
  <2> QED
    BY <1>3, <2>1
<1>5. PICK p \in 1 .. n :
        Enter(rows[p], side) /\ e[p - 1] <= low /\ low < b[1] /\ b[1] = e[p] /\ q[1] = [rows[p] EXCEPT !.qty = b[1] - low]
  BY <1>4 DEF Part
<1>6. Head(q) = q[1] /\ Tail(q) \in Seq(LedgerRow) /\ Len(Tail(q)) = L - 1 /\ \A j \in 1 .. L - 1 : Tail(q)[j] = q[j + 1]
  BY <1>2
<1> HIDE DEF e, L
<1>7. QueueIs(rows, side, n, Tail(q), e[p])
  <2> DEFINE c == [j \in 0 .. L - 1 |-> b[j + 1]]
  <2>1. c \in [0 .. L - 1 -> Nat] /\ c[0] = e[p] /\ c[L - 1] = e[n]
    <3>1. /\ 0 \in 0 .. L - 1 /\ L - 1 \in 0 .. L - 1 /\ (L - 1) + 1 = L /\ 0 + 1 = 1
          /\ \A j \in 0 .. L - 1 : j + 1 \in 0 .. L
      BY <1>2
    <3>2. \A j \in 0 .. L - 1 : b[j + 1] \in Nat
      BY <3>1
    <3>3. c \in [0 .. L - 1 -> Nat]
      BY <3>2
    <3>4. c[0] = b[1] /\ c[L - 1] = b[L]
      BY <3>1
    <3> QED
      BY <1>3, <1>5, <3>3, <3>4
  <2>2. ASSUME NEW j \in 1 .. L - 1 PROVE Part(rows, side, n, Tail(q)[j], c[j - 1], c[j])
    <3>1. j + 1 \in 1 .. L /\ (j + 1) - 1 = j /\ c[j - 1] = b[j] /\ c[j] = b[j + 1]
      BY <1>2
    <3> QED
      BY <1>3, <1>6, <3>1
  <2> HIDE DEF c
  <2> QED
    BY <1>6, <2>1, <2>2 DEF QueueIs, e
<1>8. ASSUME NEW k \in Nat, low + k < e[p]
      PROVE  QueueIs(rows, side, n, [q EXCEPT ![1].qty = @ - k], low + k)
  <2> DEFINE x == [rows[p] EXCEPT !.qty = e[p] - (low + k)]
             d == [q EXCEPT ![1] = x]
             c == [b EXCEPT ![0] = low + k]
  <2>1. e[p] \in Nat
    <3>1. 1 \in 0 .. L
      BY <1>2
    <3> QED
      BY <1>3, <1>5, <3>1
  <2>2. x \in LedgerRow
    <3>1. rows[p] \in LedgerRow /\ e[p] - (low + k) \in Nat \ {0}
      BY <1>1, <1>8, <2>1
    <3> HIDE DEF e
    <3> QED
      BY <3>1 DEF LedgerRow
  <2>3. [q EXCEPT ![1].qty = @ - k] = d
    <3>1. [q[1] EXCEPT !.qty = @ - k] = x
      <4>1. rows[p] \in LedgerRow /\ q[1] = [rows[p] EXCEPT !.qty = e[p] - low]
        BY <1>1, <1>5
      <4>2. (e[p] - low) - k = e[p] - (low + k)
        BY <2>1
      <4>3. q[1].qty - k = e[p] - (low + k)
        BY <4>1, <4>2 DEF LedgerRow
      <4>4. [q[1] EXCEPT !.qty = e[p] - (low + k)] = x
        BY <4>1 DEF LedgerRow
      <4> QED
        BY <4>3, <4>4
    <3>2. [q EXCEPT ![1].qty = @ - k] = [q EXCEPT ![1] = [q[1] EXCEPT !.qty = @ - k]]
      OBVIOUS
    <3> QED
      BY <3>1, <3>2
  <2>4. d \in Seq(LedgerRow) /\ Len(d) = L /\ d[1] = x /\ \A j \in 2 .. L : d[j] = q[j]
    <3> HIDE DEF x
    <3> QED
      BY <1>2, <2>2 DEF L
  <2>5. c \in [0 .. L -> Nat] /\ c[0] = low + k /\ \A j \in 1 .. L : c[j] = b[j]
    BY <1>2, <1>3
  <2> HIDE DEF c, d
  <2>6. ASSUME NEW j \in 1 .. L PROVE Part(rows, side, n, d[j], c[j - 1], c[j])
    <3>1. CASE j = 1
      <4>1. d[j] = x /\ c[j - 1] = low + k /\ c[j] = e[p]
        BY <1>2, <1>5, <2>4, <2>5, <3>1
      <4>2. e[p - 1] <= low + k
        <5>1. e[p - 1] \in Nat
          <6>1. p - 1 \in 0 .. Len(rows)
            BY <1>1
          <6> QED
            BY <6>1, EnteredIs DEF e
        <5> QED
          BY <1>5, <5>1
      <4> QED
        BY <1>5, <1>8, <4>1, <4>2 DEF Part, e
    <3>2. CASE j # 1
      <4>1. d[j] = q[j] /\ c[j - 1] = b[j - 1] /\ c[j] = b[j]
        <5>1. j \in 2 .. L /\ j - 1 \in 1 .. L
          BY <1>2, <3>2
        <5> QED
          BY <2>4, <2>5, <5>1
      <4> QED
        BY <1>3, <4>1
    <3> QED
      BY <3>1, <3>2
  <2>7. c[L] = e[n]
    BY <1>2, <1>3, <2>5
  <2> QED
    BY <2>3, <2>4, <2>5, <2>6, <2>7 DEF QueueIs, e
<1>9. Head(q) = [rows[p] EXCEPT !.qty = e[p] - low]
  BY <1>5, <1>6
<1> QED
  BY <1>5, <1>7, <1>8, <1>9 DEF e

(* A row behind the queue.                                                 *)
LEMMA QueueNext ==
  ASSUME NEW rows \in Seq(LedgerRow), NEW side \in Side, NEW n \in 1 .. Len(rows), NEW q, NEW low \in Nat,
         QueueIs(rows, side, n - 1, q, low)
  PROVE  QueueIs(rows, side, n, IF Enter(rows[n], side) THEN Append(q, rows[n]) ELSE q, low)
<1> DEFINE e == Entered(rows, side)
           L == Len(q)
<1>1. /\ Len(rows) \in Nat /\ rows[n] \in LedgerRow /\ rows[n].qty \in Nat /\ rows[n].qty > 0
      /\ e \in [0 .. Len(rows) -> Nat] /\ n \in 0 .. Len(rows) /\ n - 1 \in 0 .. Len(rows)
  BY RowsAre, EnteredIs
<1>2. q \in Seq(LedgerRow) /\ L \in Nat
  BY DEF QueueIs
<1>3. PICK b \in [0 .. L -> Nat] :
        b[0] = low /\ b[L] = e[n - 1] /\ \A j \in 1 .. L : Part(rows, side, n - 1, q[j], b[j - 1], b[j])
  BY DEF QueueIs
<1>4. \A j \in 1 .. L : Part(rows, side, n, q[j], b[j - 1], b[j])
  <2>1. \A p \in 1 .. n - 1 : p \in 1 .. n
    BY <1>1
  <2> QED
    BY <1>3, <2>1 DEF Part
<1>5. e[n] = e[n - 1] + IF Enter(rows[n], side) THEN rows[n].qty ELSE 0
  BY EnteredIs
<1>6. e[n] \in Nat /\ e[n - 1] \in Nat
  BY <1>1
<1> HIDE DEF e, L
<1>7. CASE ~Enter(rows[n], side)
  <2>1. b[L] = e[n]
    BY <1>3, <1>5, <1>6, <1>7
  <2>2. QueueIs(rows, side, n, q, low)
    BY <1>2, <1>3, <1>4, <2>1 DEF QueueIs, e, L
  <2> QED
    BY <1>7, <2>2
<1>8. CASE Enter(rows[n], side)
  <2> DEFINE c == [j \in 0 .. L + 1 |-> IF j = L + 1 THEN e[n] ELSE b[j]]
             d == Append(q, rows[n])
  <2>1. d \in Seq(LedgerRow) /\ Len(d) = L + 1 /\ d[L + 1] = rows[n] /\ \A j \in 1 .. L : d[j] = q[j]
    BY <1>1, <1>2 DEF L
  <2>2. c \in [0 .. L + 1 -> Nat] /\ c[0] = low /\ c[L + 1] = e[n] /\ \A j \in 0 .. L : c[j] = b[j]
    BY <1>2, <1>3, <1>6
  <2>3. Part(rows, side, n, rows[n], e[n - 1], e[n])
    <3>1. e[n - 1] < e[n] /\ e[n] - e[n - 1] = rows[n].qty
      BY <1>1, <1>5, <1>6, <1>8
    <3>2. rows[n] = [rows[n] EXCEPT !.qty = e[n] - e[n - 1]]
      BY <1>1, <3>1 DEF LedgerRow
    <3>3. n \in 1 .. n /\ e[n - 1] <= e[n - 1]
      BY <1>1, <1>6
    <3> QED
      BY <1>8, <3>1, <3>2, <3>3 DEF Part, e
  <2> HIDE DEF c, d
  <2>4. ASSUME NEW j \in 1 .. L + 1 PROVE Part(rows, side, n, d[j], c[j - 1], c[j])
    <3>1. CASE j = L + 1
      <4>1. d[j] = rows[n] /\ c[j] = e[n] /\ c[j - 1] = e[n - 1]
        BY <1>2, <1>3, <2>1, <2>2, <3>1
      <4> QED
        BY <2>3, <4>1
    <3>2. CASE j # L + 1
      <4>1. j \in 1 .. L /\ d[j] = q[j] /\ c[j - 1] = b[j - 1] /\ c[j] = b[j]
        <5>1. j \in 1 .. L /\ j \in 0 .. L /\ j - 1 \in 0 .. L
          BY <1>2, <3>2
        <5> QED
          BY <2>1, <2>2, <5>1
      <4> QED
        BY <1>4, <4>1
    <3> QED
      BY <3>1, <3>2
  <2>5. QueueIs(rows, side, n, d, low)
    BY <2>1, <2>2, <2>4 DEF QueueIs, e
  <2> QED
    BY <1>8, <2>5 DEF d
<1> QED
  BY <1>7, <1>8

LEMMA QueueLow ==
  ASSUME NEW rows \in Seq(LedgerRow), NEW side \in Side, NEW n \in 0 .. Len(rows), NEW q, NEW low \in Nat,
         QueueIs(rows, side, n, q, low)
  PROVE  low <= Entered(rows, side)[n]
<1> DEFINE e == Entered(rows, side)
<1>1. Len(rows) \in Nat /\ e \in [0 .. Len(rows) -> Nat] /\ e[n] \in Nat
  BY RowsAre, EnteredIs
<1>2. CASE q = <<>>
  BY <1>1, <1>2, QueueEmpty
<1>3. CASE q # <<>>
  <2>1. PICK p \in 1 .. n : low < e[p]
    BY <1>3, QueueHead
  <2>2. p \in 0 .. Len(rows) /\ p <= n /\ e[p] \in Nat
    BY <1>1
  <2>3. e[p] <= e[n]
    BY <2>2, EnteredGrows
  <2> HIDE DEF e
  <2> QED
    BY <1>1, <2>1, <2>2, <2>3 DEF e
<1> QED
  BY <1>2, <1>3

(* The entries used up between two numbers of units taken.                 *)
LEMMA UsedUpIs ==
  ASSUME NEW rows \in Seq(LedgerRow), NEW side \in Side, NEW p \in 1 .. Len(rows), Enter(rows[p], side),
         NEW first \in Nat, NEW low \in Nat, first <= low,
         Entered(rows, side)[p - 1] <= low, low < Entered(rows, side)[p]
  PROVE  /\ UsedUp(rows, side, first, Entered(rows, side)[p]) = UsedUp(rows, side, first, low) \cup {p}
         /\ p \notin UsedUp(rows, side, first, low)
         /\ \A high \in Nat : low <= high /\ high < Entered(rows, side)[p] =>
              UsedUp(rows, side, first, high) = UsedUp(rows, side, first, low)
<1> DEFINE e == Entered(rows, side)
<1>1. Len(rows) \in Nat /\ DOMAIN rows = 1 .. Len(rows) /\ e \in [0 .. Len(rows) -> Nat]
  BY RowsAre, EnteredIs
<1>2. p \in 0 .. Len(rows) /\ p - 1 \in 0 .. Len(rows) /\ e[p] \in Nat /\ e[p - 1] \in Nat
  BY <1>1
<1>3. ASSUME NEW x \in DOMAIN rows, Enter(rows[x], side), x # p
      PROVE  e[x] \in Nat /\ (e[x] <= low \/ e[p] < e[x])
  <2>1. x \in 1 .. Len(rows) /\ x \in 0 .. Len(rows) /\ x - 1 \in 0 .. Len(rows)
    BY <1>1
  <2>2. e[x] \in Nat /\ e[x - 1] \in Nat
    BY <1>1, <2>1
  <2>3. CASE x <= p - 1
    <3>1. e[x] <= e[p - 1]
      BY <1>2, <2>1, <2>3, EnteredGrows
    <3> HIDE DEF e
    <3>2. e[p - 1] <= low
      BY DEF e
    <3> QED
      BY <1>2, <2>2, <3>1, <3>2
  <2>4. CASE p <= x - 1
    <3>1. e[p] <= e[x - 1]
      BY <1>2, <2>1, <2>4, EnteredGrows
    <3>2. e[x] = e[x - 1] + rows[x].qty /\ rows[x].qty \in Nat /\ rows[x].qty > 0
      BY <1>3, <2>1, RowsAre, EnteredIs
    <3> HIDE DEF e
    <3> QED
      BY <1>2, <2>2, <3>1, <3>2
  <2> QED
    BY <1>2, <1>3, <2>1, <2>3, <2>4
<1>4. \A high : UsedUp(rows, side, first, high)
                  = {x \in DOMAIN rows : Enter(rows[x], side) /\ first < e[x] /\ e[x] <= high}
  BY DEF UsedUp
<1>5. e[p - 1] <= low /\ low < e[p] /\ p \in DOMAIN rows
  BY <1>1
<1> HIDE DEF e
<1>6. UsedUp(rows, side, first, e[p]) = UsedUp(rows, side, first, low) \cup {p}
  BY <1>2, <1>3, <1>4, <1>5
<1>7. p \notin UsedUp(rows, side, first, low)
  BY <1>2, <1>4, <1>5
<1>8. ASSUME NEW high \in Nat, low <= high, high < e[p]
      PROVE  UsedUp(rows, side, first, high) = UsedUp(rows, side, first, low)
  <2>1. ASSUME NEW x \in DOMAIN rows, Enter(rows[x], side)
        PROVE  e[x] <= high <=> e[x] <= low
    BY <1>2, <1>3, <1>5, <1>8, <2>1
  <2> QED
    BY <1>4, <2>1
<1> QED
  BY <1>6, <1>7, <1>8 DEF e

LEMMA UsedUpIsFinite ==
  ASSUME NEW rows \in Seq(LedgerRow), NEW side, NEW low, NEW high
  PROVE  IsFiniteSet(UsedUp(rows, side, low, high)) /\ UsedUp(rows, side, low, high) \subseteq 1 .. Len(rows)
<1>1. Len(rows) \in Nat /\ UsedUp(rows, side, low, high) \subseteq 1 .. Len(rows)
  BY RowsAre DEF UsedUp
<1>2. IsFiniteSet(1 .. Len(rows))
  BY <1>1, FS_Interval
<1> QED
  BY <1>1, <1>2, FS_Subset

(* A turn of the loop of an exit: it stops, uses up the oldest entry or    *)
(* takes a part of it.                                                     *)
Matchings == [left : Nat, queue : Seq(LedgerRow), gain : Int, spans : Seq(Int)]

FirstTurn(r, queue) == [left |-> r.qty, queue |-> queue, gain |-> 0, spans |-> <<>>]

Turning(r, queue) ==
  CHOOSE f : f = [k \in 0 .. Len(queue) |-> IF k = 0 THEN FirstTurn(r, queue) ELSE Take(r, f[k - 1])]

Whole(r, m) ==
  [left |-> m.left - Head(m.queue).qty, queue |-> Tail(m.queue),
   gain |-> m.gain + Head(m.queue).qty * Gain(Head(m.queue).side, Head(m.queue).price, r.price),
   spans |-> Append(m.spans, r.ts - Head(m.queue).ts)]

InPart(r, m) ==
  [left |-> 0, queue |-> [m.queue EXCEPT ![1].qty = @ - m.left],
   gain |-> m.gain + m.left * Gain(Head(m.queue).side, Head(m.queue).price, r.price),
   spans |-> m.spans]

LEMMA TakeIs ==
  ASSUME NEW r \in LedgerRow, NEW m \in Matchings
  PROVE  /\ m.left = 0 \/ m.queue = <<>> => Take(r, m) = m
         /\ m.left # 0 /\ m.queue # <<>> =>
              /\ Head(m.queue) \in LedgerRow
              /\ Head(m.queue).qty <= m.left => Take(r, m) = Whole(r, m)
              /\ ~(Head(m.queue).qty <= m.left) => Take(r, m) = InPart(r, m)
<1> DEFINE e == Head(m.queue)
<1>1. m.left \in Nat /\ m.queue \in Seq(LedgerRow)
  BY DEF Matchings
<1>2. ASSUME m.left = 0 \/ m.queue = <<>> PROVE Take(r, m) = m
  BY <1>2 DEF Take
<1>3. ASSUME m.left # 0, m.queue # <<>>
      PROVE  /\ e \in LedgerRow
             /\ e.qty <= m.left => Take(r, m) = Whole(r, m)
             /\ ~(e.qty <= m.left) => Take(r, m) = InPart(r, m)
  <2>1. e \in LedgerRow
    BY <1>1, <1>3
  <2>2. e.qty \in Nat
    BY <2>1 DEF LedgerRow
  <2>3. Take(r, m) =
          LET n == Lesser(m.left, e.qty) IN
          [left |-> m.left - n,
           queue |-> IF n = e.qty THEN Tail(m.queue) ELSE [m.queue EXCEPT ![1].qty = @ - n],
           gain |-> m.gain + n * Gain(e.side, e.price, r.price),
           spans |-> IF n = e.qty THEN Append(m.spans, r.ts - e.ts) ELSE m.spans]
    BY <1>3 DEF Take
  <2> HIDE DEF e
  <2>4. ASSUME e.qty <= m.left PROVE Take(r, m) = Whole(r, m)
    <3>1. Lesser(m.left, e.qty) = e.qty
      BY <1>1, <2>2, <2>4 DEF Lesser
    <3> QED
      BY <2>3, <3>1 DEF Whole, e
  <2>5. ASSUME ~(e.qty <= m.left) PROVE Take(r, m) = InPart(r, m)
    <3>1. Lesser(m.left, e.qty) = m.left /\ m.left # e.qty /\ m.left - m.left = 0
      BY <1>1, <2>2, <2>5 DEF Lesser
    <3> QED
      BY <2>3, <3>1 DEF InPart, e
  <2> QED
    BY <2>1, <2>4, <2>5
<1> QED
  BY <1>2, <1>3

LEMMA TakeType ==
  ASSUME NEW r \in LedgerRow, NEW m \in Matchings
  PROVE  Take(r, m) \in Matchings
<1> DEFINE e == Head(m.queue)
<1>1. m.left \in Nat /\ m.queue \in Seq(LedgerRow) /\ m.gain \in Int /\ m.spans \in Seq(Int)
  BY DEF Matchings
<1>2. CASE m.left = 0 \/ m.queue = <<>>
  BY <1>2, TakeIs
<1>3. CASE m.left # 0 /\ m.queue # <<>>
  <2>1. e \in LedgerRow
    BY <1>3, TakeIs
  <2>2. e.qty \in Nat /\ e.price \in Int /\ e.ts \in Int /\ r.price \in Int /\ r.ts \in Int
    BY <2>1 DEF LedgerRow
  <2>3. Gain(e.side, e.price, r.price) \in Int
    BY <2>2 DEF Gain
  <2>4. CASE e.qty <= m.left
    <3>1. Tail(m.queue) \in Seq(LedgerRow) /\ Append(m.spans, r.ts - e.ts) \in Seq(Int)
      <4>1. r.ts - e.ts \in Int
        BY <2>2
      <4> QED
        BY <1>1, <1>3, <4>1
    <3>2. m.left - e.qty \in Nat /\ m.gain + e.qty * Gain(e.side, e.price, r.price) \in Int
      BY <1>1, <2>2, <2>3, <2>4
    <3>3. Whole(r, m) \in Matchings
      BY <3>1, <3>2 DEF Whole, Matchings
    <3> QED
      BY <1>3, <2>4, <3>3, TakeIs
  <2>5. CASE ~(e.qty <= m.left)
    <3>1. [m.queue EXCEPT ![1].qty = @ - m.left] \in Seq(LedgerRow)
      <4>1. m.queue[1] = e /\ 1 \in 1 .. Len(m.queue)
        BY <1>1, <1>3
      <4>2. e.qty - m.left \in Nat \ {0}
        BY <1>1, <2>2, <2>5
      <4>3. [e EXCEPT !.qty = @ - m.left] \in LedgerRow
        BY <2>1, <4>2 DEF LedgerRow
      <4>4. [m.queue EXCEPT ![1].qty = @ - m.left] = [m.queue EXCEPT ![1] = [m.queue[1] EXCEPT !.qty = @ - m.left]]
        OBVIOUS
      <4> QED
        BY <1>1, <4>1, <4>3, <4>4
    <3>2. m.gain + m.left * Gain(e.side, e.price, r.price) \in Int
      BY <1>1, <2>3
    <3>3. InPart(r, m) \in Matchings
      BY <1>1, <3>1, <3>2 DEF InPart, Matchings
    <3> QED
      BY <1>3, <2>5, <3>3, TakeIs
  <2> QED
    BY <2>4, <2>5
<1> QED
  BY <1>2, <1>3

LEMMA TurningIs ==
  ASSUME NEW r \in LedgerRow, NEW queue \in Seq(LedgerRow)
  PROVE  /\ Matched(r, queue) = Turning(r, queue)[Len(queue)]
         /\ Turning(r, queue)[0] = FirstTurn(r, queue)
         /\ \A k \in 1 .. Len(queue) : Turning(r, queue)[k] = Take(r, Turning(r, queue)[k - 1])
         /\ \A k \in 0 .. Len(queue) : Turning(r, queue)[k] \in Matchings
<1> DEFINE K == Len(queue)
           one == FirstTurn(r, queue)
           step == [x \in Matchings \X (1 .. K) |-> Take(r, x[1])]
           Is(g) == g = [k \in 0 .. Len(queue) |-> IF k = 0 THEN FirstTurn(r, queue) ELSE Take(r, g[k - 1])]
<1>1. K \in Nat /\ one \in Matchings
  BY DEF FirstTurn, Matchings, LedgerRow
<1>2. /\ step \in [Matchings \X (1 .. K) -> Matchings]
      /\ \A m \in Matchings, k \in 1 .. K : step[<<m, k>>] = Take(r, m)
  BY TakeType
<1>3. PICK f \in [0 .. K -> Matchings] : Follows(f, one, step, K)
  <2> HIDE DEF step, K, one
  <2> QED
    BY <1>1, <1>2, Recursion
<1> HIDE DEF step
<1>4. ASSUME NEW k \in 0 .. K
      PROVE  f[k] = IF k = 0 THEN one ELSE Take(r, f[k - 1])
  <2>1. CASE k = 0
    BY <1>3, <2>1 DEF Follows
  <2>2. CASE k # 0
    <3>1. k \in 1 .. K /\ k - 1 \in 0 .. K
      BY <1>1, <2>2
    <3>2. f[k - 1] \in Matchings /\ f[k] = step[<<f[k - 1], k>>]
      BY <1>3, <3>1 DEF Follows
    <3> QED
      BY <1>2, <2>2, <3>1, <3>2
  <2> QED
    BY <2>1, <2>2
<1>5. Is(f)
  BY <1>3, <1>4
<1>6. Is(Turning(r, queue))
  <2>1. Is(CHOOSE g : Is(g))
    BY <1>5
  <2> QED
    BY <2>1 DEF Turning
<1>7. Matched(r, queue) = Turning(r, queue)[Len(queue)]
  BY DEF Matched, Turning, FirstTurn
<1> DEFINE t == Turning(r, queue)
<1>8. \A k \in 0 .. K : t[k] = IF k = 0 THEN one ELSE Take(r, t[k - 1])
  BY <1>6
<1> HIDE DEF t, Is, K, one
<1>9. t[0] = one /\ \A k \in 1 .. K : t[k] = Take(r, t[k - 1])
  <2>1. 0 \in 0 .. K /\ \A k \in 1 .. K : k \in 0 .. K /\ k # 0
    BY <1>1
  <2> QED
    BY <1>8, <2>1
<1>10. \A k \in 0 .. K : t[k] \in Matchings
  <2> DEFINE Bad == {k \in 0 .. K : t[k] \notin Matchings}
  <2> SUFFICES ASSUME Bad # {} PROVE FALSE
    OBVIOUS
  <2>1. PICK k \in Bad : \A j \in Bad : k <= j
    <3>1. Bad \in SUBSET Nat
      BY <1>1
    <3> QED
      BY <3>1, Smallest
  <2>2. k # 0
    BY <1>1, <1>9, <2>1
  <2>3. k \in 1 .. K /\ k - 1 \in 0 .. K /\ k - 1 \notin Bad
    BY <1>1, <2>1, <2>2
  <2>4. t[k] \in Matchings
    BY <1>9, <2>3, TakeType
  <2> QED
    BY <2>1, <2>4
<1> QED
  BY <1>7, <1>9, <1>10 DEF t, K, one

(* The profit of the units taken, and the durations of the entries among   *)
(* them that were used up, whose last unit an exit at ts takes.            *)
LEMMA GainAdds ==
  ASSUME NEW side, NEW a \in Int, NEW b \in Int, NEW x \in Int, NEW c \in Int, NEW d \in Int
  PROVE  Gain(side, a, b) + x * Gain(side, c, d) = Gain(side, a + x * c, b + x * d)
<1>1. x * c \in Int /\ x * d \in Int /\ x * (d - c) = x * d - x * c /\ x * (c - d) = x * c - x * d
  OBVIOUS
<1> QED
  BY <1>1 DEF Gain

Profited(rows, side, price, first, low) ==
  Gain(side, Paid(rows, side)[low] - Paid(rows, side)[first], (low - first) * price)

SpansAre(rows, side, ts, spans, first, low) ==
  /\ spans \in Seq(Int)
  /\ Len(spans) = Cardinality(UsedUp(rows, side, first, low))
  /\ ToSet(spans) = {ts - rows[p].ts : p \in UsedUp(rows, side, first, low)}

LEMMA SpansNone ==
  ASSUME NEW rows \in Seq(LedgerRow), NEW side \in Side, NEW ts, NEW low \in Nat
  PROVE  SpansAre(rows, side, ts, <<>>, low, low)
<1>1. UsedUp(rows, side, low, low) = {}
  <2>1. ASSUME NEW p \in UsedUp(rows, side, low, low) PROVE FALSE
    <3>1. p \in 0 .. Len(rows)
      BY RowsAre DEF UsedUp
    <3>2. Entered(rows, side)[p] \in Nat
      BY <3>1, EnteredIs
    <3> QED
      BY <2>1, <3>2 DEF UsedUp
  <2> QED
    BY <2>1
<1>2. Len(<<>>) = 0 /\ ToSet(<<>>) = {} /\ <<>> \in Seq(Int)
  BY DEF ToSet
<1> QED
  BY <1>1, <1>2, FS_EmptySet DEF SpansAre

LEMMA AppendIs ==
  ASSUME NEW S, NEW s \in Seq(S), NEW x \in S
  PROVE  /\ Append(s, x) \in Seq(S) /\ Len(Append(s, x)) = Len(s) + 1
         /\ ToSet(Append(s, x)) = ToSet(s) \cup {x}
<1>1. /\ Len(s) \in Nat /\ Append(s, x) \in Seq(S) /\ Len(Append(s, x)) = Len(s) + 1
      /\ Append(s, x)[Len(s) + 1] = x /\ \A i \in 1 .. Len(s) : Append(s, x)[i] = s[i]
  OBVIOUS
<1> DEFINE t == Append(s, x)
<1>2. DOMAIN s = 1 .. Len(s) /\ DOMAIN t = 1 .. Len(s) + 1
  BY <1>1
<1> HIDE DEF t
<1>3. ToSet(t) = ToSet(s) \cup {x}
  <2>1. \A i \in 1 .. Len(s) + 1 : i \in 1 .. Len(s) \/ i = Len(s) + 1
    BY <1>1
  <2>2. \A i \in 1 .. Len(s) : i \in 1 .. Len(s) + 1
    BY <1>1
  <2>3. Len(s) + 1 \in 1 .. Len(s) + 1
    BY <1>1
  <2>4. t[Len(s) + 1] = x /\ \A i \in 1 .. Len(s) : t[i] = s[i]
    BY <1>1 DEF t
  <2> QED
    BY <1>2, <2>1, <2>2, <2>3, <2>4 DEF ToSet
<1> QED
  BY <1>1, <1>3 DEF t

LEMMA SpansOneMore ==
  ASSUME NEW rows \in Seq(LedgerRow), NEW side \in Side, NEW p \in 1 .. Len(rows), Enter(rows[p], side),
         NEW first \in Nat, NEW low \in Nat, first <= low,
         Entered(rows, side)[p - 1] <= low, low < Entered(rows, side)[p],
         NEW ts \in Int, NEW spans, SpansAre(rows, side, ts, spans, first, low)
  PROVE  SpansAre(rows, side, ts, Append(spans, ts - rows[p].ts), first, Entered(rows, side)[p])
<1> DEFINE U == UsedUp(rows, side, first, low)
           V == UsedUp(rows, side, first, Entered(rows, side)[p])
           x == ts - rows[p].ts
<1>1. V = U \cup {p} /\ p \notin U
  BY UsedUpIs
<1>2. Cardinality(V) = Cardinality(U) + 1
  BY <1>1, UsedUpIsFinite, FS_AddElement
<1>3. x \in Int
  BY RowsAre
<1>4. spans \in Seq(Int) /\ Len(spans) = Cardinality(U) /\ ToSet(spans) = {ts - rows[q].ts : q \in U}
  BY DEF SpansAre
<1>5. {ts - rows[q].ts : q \in V} = {ts - rows[q].ts : q \in U} \cup {x}
  BY <1>1
<1> HIDE DEF x
<1>6. /\ Append(spans, x) \in Seq(Int) /\ Len(Append(spans, x)) = Len(spans) + 1
      /\ ToSet(Append(spans, x)) = ToSet(spans) \cup {x}
  BY <1>3, <1>4, AppendIs
<1> QED
  BY <1>2, <1>4, <1>5, <1>6 DEF SpansAre, x

(* The loop of the exit n after k turns: what was taken are the next units *)
(* after the first low, what is left of the queue is what comes after.     *)
Loops(rows, n, queue, low, k, m) ==
  LET side == Opposite(rows[n].side)
      now == low + (rows[n].qty - m.left) IN
  /\ m \in Matchings /\ m.left <= rows[n].qty
  /\ QueueIs(rows, side, n - 1, m.queue, now)
  /\ m.gain = Profited(rows, side, rows[n].price, low, now)
  /\ SpansAre(rows, side, rows[n].ts, m.spans, low, now)
  /\ m.left = 0 \/ m.queue = <<>> \/ Len(m.queue) + k <= Len(queue)

LEMMA ExitOf ==
  ASSUME NEW rows \in Seq(LedgerRow), NEW n \in 1 .. Len(rows)
  PROVE  /\ Opposite(rows[n].side) \in Side /\ n - 1 \in 0 .. Len(rows) /\ rows[n] \in LedgerRow
         /\ rows[n].qty \in Nat /\ rows[n].qty > 0 /\ rows[n].price \in Int /\ rows[n].ts \in Int
<1>1. Len(rows) \in Nat /\ rows[n].side \in Side
  BY RowsAre
<1> QED
  BY <1>1, RowsAre DEF Opposite, Side

LEMMA PaidType ==
  ASSUME NEW rows \in Seq(LedgerRow), NEW side \in Side, NEW n \in 0 .. Len(rows),
         NEW low \in Nat, low <= Entered(rows, side)[n]
  PROVE  Paid(rows, side)[low] \in Int
<1> DEFINE e == Entered(rows, side)
<1>1. Len(rows) \in Nat /\ Len(rows) \in 0 .. Len(rows) /\ n <= Len(rows) /\ e \in [0 .. Len(rows) -> Nat]
  BY RowsAre, EnteredIs
<1>2. e[n] <= e[Len(rows)] /\ e[n] \in Nat /\ e[Len(rows)] \in Nat
  BY <1>1, EnteredGrows
<1> HIDE DEF e
<1>3. low \in 0 .. e[Len(rows)]
  BY <1>2 DEF e
<1> QED
  BY <1>3, PaidIs DEF e

LEMMA LoopStarts ==
  ASSUME NEW rows \in Seq(LedgerRow), NEW n \in 1 .. Len(rows), NEW queue, NEW low \in Nat,
         QueueIs(rows, Opposite(rows[n].side), n - 1, queue, low)
  PROVE  Loops(rows, n, queue, low, 0, FirstTurn(rows[n], queue))
<1> DEFINE side == Opposite(rows[n].side)
           m == FirstTurn(rows[n], queue)
           paid == Paid(rows, side)[low]
<1>1. side \in Side /\ n - 1 \in 0 .. Len(rows) /\ rows[n].qty \in Nat /\ rows[n].price \in Int
  BY ExitOf
<1>2. queue \in Seq(LedgerRow) /\ Len(queue) \in Nat
  BY DEF QueueIs
<1>3. m.left = rows[n].qty /\ m.queue = queue /\ m.gain = 0 /\ m.spans = <<>> /\ m \in Matchings
  BY <1>1, <1>2 DEF FirstTurn, Matchings
<1>4. paid \in Int
  <2>1. low <= Entered(rows, side)[n - 1]
    BY <1>1, QueueLow
  <2> QED
    BY <1>1, <2>1, PaidType
<1>5. low + (rows[n].qty - m.left) = low
  BY <1>1, <1>3
<1>6. m.gain = Profited(rows, side, rows[n].price, low, low)
  <2>1. paid - paid = 0 /\ (low - low) * rows[n].price = 0
    BY <1>1, <1>4
  <2> QED
    BY <1>3, <2>1 DEF Profited, Gain
<1>7. SpansAre(rows, side, rows[n].ts, m.spans, low, low)
  BY <1>1, <1>3, SpansNone
<1>8. QueueIs(rows, side, n - 1, m.queue, low) /\ m.left <= rows[n].qty /\ Len(m.queue) + 0 <= Len(queue)
  BY <1>1, <1>2, <1>3
<1> HIDE DEF m, side
<1> QED
  BY <1>3, <1>5, <1>6, <1>7, <1>8 DEF Loops, m, side

(* After the exit has found now - low units, x more make want of them.     *)
Begun(low, qty, left, now) ==
  /\ low \in Nat /\ qty \in Nat /\ left \in Nat /\ left <= qty
  /\ now = low + (qty - left)
Turned(low, qty, left, now, x, want, rest) ==
  /\ Begun(low, qty, left, now)
  /\ want \in Nat /\ now < want /\ x = want - now /\ rest = left - x

LEMMA BegunIs ==
  ASSUME NEW low, NEW qty, NEW left, NEW now, Begun(low, qty, left, now)
  PROVE  now \in Nat /\ low <= now
BY DEF Begun

LEMMA TurnedIs ==
  ASSUME NEW low, NEW qty, NEW left, NEW now, NEW x, NEW want, NEW rest,
         Turned(low, qty, left, now, x, want, rest)
  PROVE  x \in Nat /\ now + x = want /\ rest <= qty /\ low + (qty - rest) = want
BY DEF Turned, Begun

LEMMA OneTurn ==
  ASSUME NEW a \in Nat, NEW b \in Nat, NEW k \in Nat, a + k <= b
  PROVE  (a - 1) + (k + 1) <= b
OBVIOUS

(* The gain of x more units of an entry.                                   *)
LEMMA ProfitGrows ==
  ASSUME NEW rows \in Seq(LedgerRow), NEW side \in Side, NEW p \in 1 .. Len(rows),
         NEW low \in Nat, NEW now \in Nat, NEW x \in Nat, NEW at \in Int, low <= now,
         Entered(rows, side)[p - 1] <= now, now + x <= Entered(rows, side)[p]
  PROVE  Profited(rows, side, at, low, now) + x * Gain(side, rows[p].price, at)
           = Profited(rows, side, at, low, now + x)
<1> DEFINE paid == Paid(rows, side)
           price == rows[p].price
           a == paid[now] - paid[low]
           b == (now - low) * at
<1>1. price \in Int /\ p \in 0 .. Len(rows)
  BY RowsAre
<1>2. Entered(rows, side)[p] \in Nat
  BY <1>1, EnteredIs
<1>3. paid[now] \in Int /\ paid[low] \in Int
  <2>1. now <= Entered(rows, side)[p] /\ low <= Entered(rows, side)[p]
    BY <1>2
  <2> QED
    BY <1>1, <2>1, PaidType
<1>4. paid[now + x] = paid[now] + x * price
  <2>1. now <= now + x /\ now + x \in Nat /\ (now + x) - now = x
    OBVIOUS
  <2>2. paid[now + x] = paid[now] + ((now + x) - now) * price
    BY <2>1, PaidOf
  <2> QED
    BY <2>1, <2>2
<1> HIDE DEF paid, price
<1>5. a \in Int /\ b \in Int /\ x * price \in Int /\ x * at \in Int
  BY <1>1, <1>3
<1>6. paid[now + x] - paid[low] = a + x * price
  BY <1>1, <1>3, <1>4, <1>5
<1>7. ((now + x) - low) * at = b + x * at
  OBVIOUS
<1>8. /\ Profited(rows, side, at, low, now) = Gain(side, a, b)
      /\ Profited(rows, side, at, low, now + x) = Gain(side, paid[now + x] - paid[low], ((now + x) - low) * at)
  BY DEF Profited, paid
<1> HIDE DEF a, b
<1>9. Gain(side, a, b) + x * Gain(side, price, at) = Gain(side, a + x * price, b + x * at)
  BY <1>1, <1>5, GainAdds
<1> QED
  BY <1>6, <1>7, <1>8, <1>9 DEF price

(* The same, of units of the row p.                                        *)
Within(rows, side, p, low, now, x, at) ==
  /\ rows \in Seq(LedgerRow) /\ side \in Side /\ p \in 1 .. Len(rows)
  /\ low \in Nat /\ now \in Nat /\ x \in Nat /\ at \in Int /\ low <= now
  /\ Entered(rows, side)[p - 1] <= now /\ now + x <= Entered(rows, side)[p]

LEMMA ProfitWithin ==
  ASSUME NEW rows, NEW side, NEW p, NEW low, NEW now, NEW x, NEW at, Within(rows, side, p, low, now, x, at)
  PROVE  Profited(rows, side, at, low, now) + x * Gain(side, rows[p].price, at)
           = Profited(rows, side, at, low, now + x)
<1>1. /\ rows \in Seq(LedgerRow) /\ side \in Side /\ p \in 1 .. Len(rows)
      /\ low \in Nat /\ now \in Nat /\ x \in Nat /\ at \in Int /\ low <= now
      /\ Entered(rows, side)[p - 1] <= now /\ now + x <= Entered(rows, side)[p]
  BY DEF Within
<1> QED
  BY <1>1, ProfitGrows

LEMMA LoopTurns ==
  ASSUME NEW rows \in Seq(LedgerRow), NEW n \in 1 .. Len(rows), NEW queue \in Seq(LedgerRow),
         NEW low \in Nat, NEW k \in Nat, NEW m, Loops(rows, n, queue, low, k, m)
  PROVE  Loops(rows, n, queue, low, k + 1, Take(rows[n], m))
<1> DEFINE r == rows[n]
           side == Opposite(r.side)
           e == Entered(rows, side)
           now == low + (r.qty - m.left)
           h == Head(m.queue)
           t == Take(r, m)
<1>1. /\ side \in Side /\ n - 1 \in 0 .. Len(rows) /\ r \in LedgerRow
      /\ r.qty \in Nat /\ r.qty > 0 /\ r.price \in Int /\ r.ts \in Int
  BY ExitOf
<1>2. /\ m \in Matchings /\ m.left \in Nat /\ m.left <= r.qty /\ m.queue \in Seq(LedgerRow)
      /\ m.gain \in Int /\ m.spans \in Seq(Int)
  BY DEF Loops, Matchings
<1>3. /\ QueueIs(rows, side, n - 1, m.queue, now)
      /\ m.gain = Profited(rows, side, r.price, low, now)
      /\ SpansAre(rows, side, r.ts, m.spans, low, now)
      /\ m.left = 0 \/ m.queue = <<>> \/ Len(m.queue) + k <= Len(queue)
  BY DEF Loops
<1>4. t \in Matchings
  BY <1>1, <1>2, TakeType
<1>5. now \in Nat /\ low <= now
  <2>1. Begun(low, r.qty, m.left, now)
    BY <1>1, <1>2 DEF Begun
  <2> QED
    BY <2>1, BegunIs
<1>6. CASE m.left = 0 \/ m.queue = <<>>
  <2>1. t = m
    BY <1>1, <1>2, <1>6, TakeIs
  <2> HIDE DEF t, r, side, now
  <2> QED
    BY <1>2, <1>3, <1>6, <2>1 DEF Loops, t, r, side, now
<1>7. CASE m.left # 0 /\ m.queue # <<>>
  <2>1. PICK p \in 1 .. n - 1 :
          /\ Enter(rows[p], side) /\ e[p - 1] <= now /\ now < e[p]
          /\ h = [rows[p] EXCEPT !.qty = e[p] - now]
          /\ QueueIs(rows, side, n - 1, Tail(m.queue), e[p])
          /\ \A x \in Nat : now + x < e[p] =>
               QueueIs(rows, side, n - 1, [m.queue EXCEPT ![1].qty = @ - x], now + x)
    BY <1>1, <1>3, <1>5, <1>7, QueueHead
  <2>2. p \in 1 .. Len(rows) /\ p \in 0 .. Len(rows) /\ rows[p] \in LedgerRow /\ e[p] \in Nat
    <3>1. Len(rows) \in Nat /\ p \in 1 .. Len(rows) /\ p \in 0 .. Len(rows)
      BY <1>1, RowsAre
    <3> QED
      BY <1>1, <3>1, RowsAre, EnteredIs
  <2>3. h.side = side /\ h.price = rows[p].price /\ h.ts = rows[p].ts /\ h.qty = e[p] - now
    BY <2>1, <2>2 DEF LedgerRow, Enter
  <2>4. rows[p].price \in Int /\ rows[p].ts \in Int
    BY <2>2, RowsAre
  <2>5. e[p] <= e[n - 1] /\ p - 1 \in 0 .. Len(rows)
    BY <1>1, <2>2, EnteredGrows
  <2> HIDE DEF e, h, t, r, side, now
  <2>9. /\ now \in Nat /\ e[p] \in Nat /\ now < e[p] /\ h.qty = e[p] - now
        /\ r.qty \in Nat /\ m.left \in Nat /\ m.left <= r.qty /\ now = low + (r.qty - m.left)
    BY <1>1, <1>2, <1>5, <2>1, <2>2, <2>3 DEF now
  <2>10. /\ side \in Side /\ p \in 1 .. Len(rows) /\ Enter(rows[p], side) /\ now \in Nat /\ low <= now
         /\ Entered(rows, side)[p - 1] <= now /\ now < Entered(rows, side)[p]
    BY <1>1, <1>5, <2>1, <2>2 DEF e
  <2>6. ASSUME NEW x \in Nat, now + x <= e[p]
        PROVE  m.gain + x * Gain(h.side, h.price, r.price) = Profited(rows, side, r.price, low, now + x)
    <3>1. now + x <= Entered(rows, side)[p]
      BY <2>6 DEF e
    <3>2. Profited(rows, side, r.price, low, now) + x * Gain(side, rows[p].price, r.price)
            = Profited(rows, side, r.price, low, now + x)
      <4>1. Within(rows, side, p, low, now, x, r.price)
        BY <1>1, <2>10, <3>1 DEF Within
      <4> QED
        BY <4>1, ProfitWithin
    <3> QED
      BY <1>3, <2>3, <3>2
  <2>7. CASE h.qty <= m.left
    <3>1. t = Whole(r, m)
      BY <1>1, <1>2, <1>7, <2>7, TakeIs DEF h, t
    <3>2. t.left = m.left - h.qty /\ t.queue = Tail(m.queue) /\ t.spans = Append(m.spans, r.ts - rows[p].ts)
      BY <2>3, <3>1 DEF Whole, h
    <3>3. now + h.qty = e[p] /\ h.qty \in Nat /\ t.left <= r.qty /\ low + (r.qty - t.left) = e[p]
      <4>1. Turned(low, r.qty, m.left, now, h.qty, e[p], t.left)
        BY <2>9, <3>2 DEF Turned, Begun
      <4> QED
        BY <4>1, TurnedIs
    <3>4. t.gain = Profited(rows, side, r.price, low, e[p])
      <4>1. t.gain = m.gain + h.qty * Gain(h.side, h.price, r.price)
        BY <3>1 DEF Whole, h
      <4> QED
        BY <2>2, <2>6, <3>3, <4>1
    <3>5. SpansAre(rows, side, r.ts, t.spans, low, e[p])
      BY <1>1, <1>3, <1>5, <2>1, <2>2, <3>2, SpansOneMore DEF e
    <3>6. Len(t.queue) + (k + 1) <= Len(queue)
      <4>1. Len(Tail(m.queue)) = Len(m.queue) - 1 /\ Len(m.queue) \in Nat
        BY <1>2, <1>7
      <4>2. Len(queue) \in Nat
        OBVIOUS
      <4>3. Len(m.queue) + k <= Len(queue)
        BY <1>3, <1>7
      <4>4. (Len(m.queue) - 1) + (k + 1) <= Len(queue)
        BY <4>1, <4>2, <4>3, OneTurn
      <4> QED
        BY <3>2, <4>1, <4>4
    <3> QED
      BY <1>4, <2>1, <3>2, <3>3, <3>4, <3>5, <3>6 DEF Loops, t, r, side
  <2>8. CASE ~(h.qty <= m.left)
    <3>1. t = InPart(r, m)
      BY <1>1, <1>2, <1>7, <2>8, TakeIs DEF h, t
    <3>2. now + m.left < e[p] /\ now <= now + m.left /\ now + m.left \in Nat /\ low + (r.qty - 0) = now + m.left
      <4>1. now + m.left < e[p]
        BY <2>8, <2>9
      <4>2. now <= now + m.left /\ now + m.left \in Nat
        BY <2>9
      <4>3. low + (r.qty - 0) = now + m.left
        BY <2>9
      <4> QED
        BY <4>1, <4>2, <4>3
    <3>3. t.left = 0 /\ t.queue = [m.queue EXCEPT ![1].qty = @ - m.left] /\ t.spans = m.spans
      BY <3>1 DEF InPart
    <3>4. t.gain = Profited(rows, side, r.price, low, now + m.left)
      <4>1. t.gain = m.gain + m.left * Gain(h.side, h.price, r.price)
        BY <3>1 DEF InPart, h
      <4>2. now + m.left <= e[p]
        BY <2>2, <3>2
      <4> QED
        BY <1>2, <2>6, <4>1, <4>2
    <3>5. SpansAre(rows, side, r.ts, t.spans, low, now + m.left)
      <4>1. UsedUp(rows, side, low, now + m.left) = UsedUp(rows, side, low, now)
        <5>1. \A high \in Nat : now <= high /\ high < Entered(rows, side)[p] =>
                UsedUp(rows, side, low, high) = UsedUp(rows, side, low, now)
          BY <2>10, UsedUpIs
        <5> QED
          BY <3>2, <5>1 DEF e
      <4> QED
        BY <1>3, <3>3, <4>1 DEF SpansAre
    <3>6. QueueIs(rows, side, n - 1, t.queue, now + m.left)
      BY <1>2, <2>1, <3>2, <3>3
    <3>7. t.left <= r.qty /\ low + (r.qty - t.left) = now + m.left
      BY <1>1, <3>2, <3>3
    <3> QED
      BY <1>4, <3>3, <3>4, <3>5, <3>6, <3>7 DEF Loops, t, r, side
  <2> QED
    BY <2>7, <2>8 DEF t, r
<1> QED
  BY <1>6, <1>7

(* What an exit takes when its loop has ended: as many units as it asks    *)
(* for, or as are left.                                                    *)
Serving(rows, n, queue, low, high) ==
  /\ QueueIs(rows, Opposite(rows[n].side), n - 1, queue, low)
  /\ high = low + Lesser(rows[n].qty, Entered(rows, Opposite(rows[n].side))[n - 1] - low)
Served(rows, n, m, low, high) ==
  LET side == Opposite(rows[n].side) IN
  /\ m \in Matchings /\ QueueIs(rows, side, n - 1, m.queue, high)
  /\ m.gain = Profited(rows, side, rows[n].price, low, high)
  /\ SpansAre(rows, side, rows[n].ts, m.spans, low, high)
  /\ m.left < rows[n].qty <=> low < high

LEMMA MatchedIs ==
  ASSUME NEW rows \in Seq(LedgerRow), NEW n \in 1 .. Len(rows), NEW queue, NEW low \in Nat, NEW high,
         Serving(rows, n, queue, low, high)
  PROVE  Served(rows, n, Matched(rows[n], queue), low, high)
<1> DEFINE r == rows[n]
           side == Opposite(r.side)
           K == Len(queue)
           t == Turning(r, queue)
           m == Matched(r, queue)
           all == Entered(rows, side)[n - 1]
           now == low + (r.qty - m.left)
<1>1. side \in Side /\ n - 1 \in 0 .. Len(rows) /\ r \in LedgerRow /\ r.qty \in Nat
  BY ExitOf
<1>0. QueueIs(rows, side, n - 1, queue, low) /\ high = low + Lesser(r.qty, all - low)
  BY DEF Serving
<1>2. queue \in Seq(LedgerRow) /\ K \in Nat
  BY <1>0 DEF QueueIs
<1>3. m = t[K] /\ t[0] = FirstTurn(r, queue) /\ \A k \in 1 .. K : t[k] = Take(r, t[k - 1])
  BY <1>1, <1>2, TurningIs
<1>4. \A k \in 0 .. K : Loops(rows, n, queue, low, k, t[k])
  <2> DEFINE Bad == {k \in 0 .. K : ~Loops(rows, n, queue, low, k, t[k])}
  <2> SUFFICES ASSUME Bad # {} PROVE FALSE
    OBVIOUS
  <2>1. PICK k \in Bad : \A j \in Bad : k <= j
    <3>1. Bad \in SUBSET Nat
      BY <1>2
    <3> QED
      BY <3>1, Smallest
  <2>2. k # 0
    <3>1. Loops(rows, n, queue, low, 0, FirstTurn(r, queue))
      BY <1>0, LoopStarts
    <3> QED
      BY <1>3, <2>1, <3>1
  <2> HIDE DEF K, t, r
  <2>3. k \in 1 .. K /\ k - 1 \in 0 .. K /\ k - 1 \in Nat /\ k - 1 \notin Bad /\ (k - 1) + 1 = k
    BY <1>2, <2>1, <2>2
  <2>4. Loops(rows, n, queue, low, k - 1, t[k - 1]) /\ t[k] = Take(r, t[k - 1])
    BY <1>3, <2>3
  <2>5. Loops(rows, n, queue, low, (k - 1) + 1, t[k])
    BY <1>2, <2>3, <2>4, LoopTurns DEF r
  <2> QED
    BY <2>1, <2>3, <2>5
<1>5. Loops(rows, n, queue, low, K, m)
  BY <1>2, <1>3, <1>4
<1>6. /\ m \in Matchings /\ m.left \in Nat /\ m.left <= r.qty /\ m.queue \in Seq(LedgerRow)
      /\ QueueIs(rows, side, n - 1, m.queue, now)
      /\ m.gain = Profited(rows, side, r.price, low, now)
      /\ SpansAre(rows, side, r.ts, m.spans, low, now)
      /\ m.left = 0 \/ m.queue = <<>> \/ Len(m.queue) + K <= K
  BY <1>5 DEF Loops, Matchings
<1>7. all \in Nat
  BY <1>1, EnteredIs
<1>8. now \in Nat
  BY <1>1, <1>6
<1>9. now <= all
  BY <1>1, <1>6, <1>8, QueueLow
<1>10. m.left = 0 \/ now = all
  <2>1. CASE m.left = 0
    BY <2>1
  <2>2. CASE m.left # 0
    <3>1. m.queue = <<>>
      <4>1. Len(m.queue) \in Nat /\ (Len(m.queue) = 0 => m.queue = <<>>)
        BY <1>6
      <4>2. Len(m.queue) + K <= K => Len(m.queue) = 0
        BY <1>2, <4>1
      <4> QED
        BY <1>6, <2>2, <4>1, <4>2
    <3> QED
      BY <1>6, <3>1, QueueEmpty
  <2> QED
    BY <2>1, <2>2
<1>11. high = low + Lesser(r.qty, all - low)
  BY <1>0
<1> HIDE DEF K, t, m, side, r, all
<1>12. now = high /\ (m.left < r.qty <=> low < now)
  <2>1. m.left < r.qty <=> low < now
    BY <1>1, <1>6
  <2>2. CASE m.left = 0
    <3>1. now = low + r.qty
      BY <1>1, <2>2
    <3>2. r.qty <= all - low
      BY <1>1, <1>7, <1>9, <3>1
    <3>3. Lesser(r.qty, all - low) = r.qty
      BY <1>1, <1>7, <3>2 DEF Lesser
    <3> HIDE DEF now
    <3> QED
      BY <1>11, <2>1, <3>1, <3>3
  <2>3. CASE now = all
    <3>1. now <= low + r.qty
      BY <1>1, <1>6
    <3> HIDE DEF now
    <3>2. Lesser(r.qty, all - low) = all - low
      BY <1>1, <1>7, <2>3, <3>1 DEF Lesser
    <3>3. low + (all - low) = all
      BY <1>7
    <3> HIDE DEF now
    <3> QED
      BY <1>11, <2>1, <2>3, <3>2, <3>3
  <2> QED
    BY <1>10, <2>2, <2>3
<1> HIDE DEF now
<1> QED
  BY <1>6, <1>12 DEF m, side, r, Served

(* One row of a ledger.                                                    *)
States == [queue : [Side -> Seq(LedgerRow)], rows : Seq(LedgerRow), spans : Seq(Int)]

LEMMA PairIs ==
  ASSUME NEW s \in States, NEW r \in LedgerRow
  PROVE  /\ r.kind = "entry" => Pair(s, r) = [queue |-> [s.queue EXCEPT ![r.side] = Append(@, r)],
                                              rows |-> Append(s.rows, r), spans |-> s.spans]
         /\ r.kind = "exit" =>
              LET m == Matched(r, s.queue[Opposite(r.side)]) IN
              Pair(s, r) = [queue |-> [s.queue EXCEPT ![Opposite(r.side)] = m.queue],
                            rows |-> Append(s.rows, IF m.left < r.qty THEN [r EXCEPT !.pnl = m.gain] ELSE r),
                            spans |-> s.spans \o m.spans]
         /\ r.kind # "entry" /\ r.kind # "exit" =>
              Pair(s, r) = [queue |-> s.queue, rows |-> Append(s.rows, r), spans |-> s.spans]
<1>1. s = [queue |-> s.queue, rows |-> s.rows, spans |-> s.spans]
  BY DEF States
<1>2. ASSUME r.kind = "entry"
      PROVE  Pair(s, r) = [queue |-> [s.queue EXCEPT ![r.side] = Append(@, r)],
                           rows |-> Append(s.rows, r), spans |-> s.spans]
  <2>1. Pair(s, r) = [s EXCEPT !.queue[r.side] = Append(@, r), !.rows = Append(@, r)]
    BY <1>2 DEF Pair
  <2> QED
    BY <1>1, <2>1
<1>3. ASSUME r.kind = "exit"
      PROVE  LET m == Matched(r, s.queue[Opposite(r.side)]) IN
             Pair(s, r) = [queue |-> [s.queue EXCEPT ![Opposite(r.side)] = m.queue],
                           rows |-> Append(s.rows, IF m.left < r.qty THEN [r EXCEPT !.pnl = m.gain] ELSE r),
                           spans |-> s.spans \o m.spans]
  BY <1>3 DEF Pair
<1>4. ASSUME r.kind # "entry", r.kind # "exit"
      PROVE  Pair(s, r) = [queue |-> s.queue, rows |-> Append(s.rows, r), spans |-> s.spans]
  <2>1. Pair(s, r) = [s EXCEPT !.rows = Append(@, r)]
    BY <1>4 DEF Pair
  <2> QED
    BY <1>1, <2>1
<1> QED
  BY <1>2, <1>3, <1>4

LEMMA PairType ==
  ASSUME NEW s \in States, NEW r \in LedgerRow
  PROVE  Pair(s, r) \in States
<1> DEFINE side == Opposite(r.side)
           m == Matched(r, s.queue[side])
<1>1. s.queue \in [Side -> Seq(LedgerRow)] /\ s.rows \in Seq(LedgerRow) /\ s.spans \in Seq(Int)
  BY DEF States
<1>2. r.side \in Side /\ side \in Side
  BY DEF LedgerRow, Opposite, Side
<1>3. m \in Matchings
  <2>1. s.queue[side] \in Seq(LedgerRow)
    BY <1>1, <1>2
  <2>2. Len(s.queue[side]) \in 0 .. Len(s.queue[side])
    BY <2>1
  <2> QED
    BY <2>1, <2>2, TurningIs
<1> HIDE DEF m, side
<1>4. CASE r.kind = "entry"
  <2>1. [s.queue EXCEPT ![r.side] = Append(@, r)] \in [Side -> Seq(LedgerRow)]
    <3>1. Append(s.queue[r.side], r) \in Seq(LedgerRow)
      BY <1>1, <1>2
    <3> QED
      BY <1>1, <1>2, <3>1
  <2>2. Append(s.rows, r) \in Seq(LedgerRow)
    BY <1>1
  <2>3. Pair(s, r) = [queue |-> [s.queue EXCEPT ![r.side] = Append(@, r)],
                      rows |-> Append(s.rows, r), spans |-> s.spans]
    BY <1>4, PairIs
  <2> QED
    BY <1>1, <2>1, <2>2, <2>3 DEF States
<1>5. CASE r.kind = "exit"
  <2> DEFINE x == IF m.left < r.qty THEN [r EXCEPT !.pnl = m.gain] ELSE r
  <2>1. [s.queue EXCEPT ![side] = m.queue] \in [Side -> Seq(LedgerRow)]
    BY <1>1, <1>2, <1>3 DEF Matchings
  <2>2. x \in LedgerRow
    BY <1>3 DEF Matchings, LedgerRow
  <2>3. Append(s.rows, x) \in Seq(LedgerRow) /\ s.spans \o m.spans \in Seq(Int)
    <3> HIDE DEF x
    <3> QED
      BY <1>1, <1>3, <2>2 DEF Matchings
  <2>4. Pair(s, r) = [queue |-> [s.queue EXCEPT ![side] = m.queue], rows |-> Append(s.rows, x),
                      spans |-> s.spans \o m.spans]
    BY <1>5, PairIs DEF m, side
  <2> HIDE DEF x
  <2> QED
    BY <2>1, <2>3, <2>4 DEF States
<1>6. CASE r.kind # "entry" /\ r.kind # "exit"
  <2>1. Append(s.rows, r) \in Seq(LedgerRow)
    BY <1>1
  <2>2. Pair(s, r) = [queue |-> s.queue, rows |-> Append(s.rows, r), spans |-> s.spans]
    BY <1>6, PairIs
  <2> QED
    BY <1>1, <2>1, <2>2 DEF States
<1> QED
  BY <1>4, <1>5, <1>6

Pairings(rows) ==
  CHOOSE f : f = [n \in 0 .. Len(rows) |-> IF n = 0 THEN Unpaired ELSE Pair(f[n - 1], rows[n])]

LEMMA PairingsAre ==
  ASSUME NEW rows \in Seq(LedgerRow)
  PROVE  /\ Paired(rows) = Pairings(rows)[Len(rows)]
         /\ Pairings(rows)[0] = Unpaired
         /\ \A n \in 1 .. Len(rows) : Pairings(rows)[n] = Pair(Pairings(rows)[n - 1], rows[n])
         /\ \A n \in 0 .. Len(rows) : Pairings(rows)[n] \in States
<1> DEFINE N == Len(rows)
           step == [x \in States \X (1 .. N) |-> Pair(x[1], rows[x[2]])]
           Is(g) == g = [n \in 0 .. Len(rows) |-> IF n = 0 THEN Unpaired ELSE Pair(g[n - 1], rows[n])]
<1>1. N \in Nat /\ Unpaired \in States /\ \A n \in 1 .. N : rows[n] \in LedgerRow
  <2>1. [side \in {"Buy", "Sell"} |-> <<>>] \in [Side -> Seq(LedgerRow)]
    BY DEF Side
  <2>2. Unpaired \in States
    BY <2>1 DEF Unpaired, States
  <2> QED
    BY <2>2, RowsAre
<1>2. /\ step \in [States \X (1 .. N) -> States]
      /\ \A s \in States, n \in 1 .. N : step[<<s, n>>] = Pair(s, rows[n])
  BY <1>1, PairType
<1>3. PICK f \in [0 .. N -> States] : Follows(f, Unpaired, step, N)
  <2> HIDE DEF step, N
  <2> QED
    BY <1>1, <1>2, Recursion
<1> HIDE DEF step
<1>4. ASSUME NEW n \in 0 .. N
      PROVE  f[n] = IF n = 0 THEN Unpaired ELSE Pair(f[n - 1], rows[n])
  <2>1. CASE n = 0
    BY <1>3, <2>1 DEF Follows
  <2>2. CASE n # 0
    <3>1. n \in 1 .. N /\ n - 1 \in 0 .. N
      BY <1>1, <2>2
    <3>2. f[n - 1] \in States /\ f[n] = step[<<f[n - 1], n>>]
      BY <1>3, <3>1 DEF Follows
    <3> QED
      BY <1>2, <2>2, <3>1, <3>2
  <2> QED
    BY <2>1, <2>2
<1>5. Is(f)
  BY <1>3, <1>4
<1>6. Is(Pairings(rows))
  <2>1. Is(CHOOSE g : Is(g))
    BY <1>5
  <2> QED
    BY <2>1 DEF Pairings
<1>7. Paired(rows) = Pairings(rows)[Len(rows)]
  BY DEF Paired, Pairings
<1> DEFINE t == Pairings(rows)
<1>8. \A n \in 0 .. N : t[n] = IF n = 0 THEN Unpaired ELSE Pair(t[n - 1], rows[n])
  BY <1>6
<1> HIDE DEF t, Is, N
<1>9. t[0] = Unpaired /\ \A n \in 1 .. N : t[n] = Pair(t[n - 1], rows[n])
  <2>1. 0 \in 0 .. N /\ \A n \in 1 .. N : n \in 0 .. N /\ n # 0
    BY <1>1
  <2> QED
    BY <1>8, <2>1
<1>10. \A n \in 0 .. N : t[n] \in States
  <2> DEFINE Bad == {n \in 0 .. N : t[n] \notin States}
  <2> SUFFICES ASSUME Bad # {} PROVE FALSE
    OBVIOUS
  <2>1. PICK n \in Bad : \A j \in Bad : n <= j
    <3>1. Bad \in SUBSET Nat
      BY <1>1
    <3> QED
      BY <3>1, Smallest
  <2>2. n # 0
    BY <1>1, <1>9, <2>1
  <2>3. n \in 1 .. N /\ n - 1 \in 0 .. N /\ n - 1 \notin Bad
    BY <1>1, <2>1, <2>2
  <2>4. t[n] \in States
    BY <1>1, <1>9, <2>3, PairType
  <2> QED
    BY <2>1, <2>4
<1> QED
  BY <1>7, <1>9, <1>10 DEF t, N

LEMMA ConcatIs ==
  ASSUME NEW S, NEW s \in Seq(S), NEW t \in Seq(S)
  PROVE  /\ s \o t \in Seq(S) /\ Len(s \o t) = Len(s) + Len(t)
         /\ ToSet(s \o t) = ToSet(s) \cup ToSet(t)
<1> DEFINE u == s \o t
<1>1. Len(s) \in Nat /\ Len(t) \in Nat /\ DOMAIN s = 1 .. Len(s) /\ DOMAIN t = 1 .. Len(t)
  OBVIOUS
<1>2. u \in Seq(S) /\ Len(u) = Len(s) + Len(t)
  OBVIOUS
<1>3. \A i \in 1 .. Len(s) : u[i] = s[i]
  OBVIOUS
<1>4. \A i \in 1 .. Len(t) : u[Len(s) + i] = t[i]
  BY <1>1
<1>5. DOMAIN u = 1 .. Len(s) + Len(t)
  BY <1>2
<1> HIDE DEF u
<1>6. ToSet(u) = ToSet(s) \cup ToSet(t)
  <2>1. ASSUME NEW i \in 1 .. Len(s) + Len(t)
        PROVE  u[i] \in ToSet(s) \cup ToSet(t)
    <3>1. CASE i \in 1 .. Len(s)
      BY <1>1, <1>3, <3>1 DEF ToSet
    <3>2. CASE i \notin 1 .. Len(s)
      <4>1. i - Len(s) \in 1 .. Len(t) /\ Len(s) + (i - Len(s)) = i
        BY <1>1, <3>2
      <4>2. u[i] = t[i - Len(s)]
        BY <1>4, <4>1
      <4> QED
        BY <1>1, <4>1, <4>2 DEF ToSet
    <3> QED
      BY <3>1, <3>2
  <2>2. ASSUME NEW i \in 1 .. Len(s) PROVE s[i] \in ToSet(u)
    <3>1. i \in 1 .. Len(s) + Len(t)
      BY <1>1
    <3> QED
      BY <1>3, <1>5, <3>1 DEF ToSet
  <2>3. ASSUME NEW i \in 1 .. Len(t) PROVE t[i] \in ToSet(u)
    <3>1. Len(s) + i \in 1 .. Len(s) + Len(t)
      BY <1>1
    <3> QED
      BY <1>4, <1>5, <3>1 DEF ToSet
  <2> QED
    BY <1>1, <1>5, <2>1, <2>2, <2>3 DEF ToSet
<1> QED
  BY <1>2, <1>6 DEF u

(* What a ledger's pairing has come to after the first n rows.             *)
Repriced(rows, k) == IF Takes(rows, k) THEN [rows[k] EXCEPT !.pnl = Profit(rows, k)] ELSE rows[k]

EndedAt(rows, n) ==
  IF rows[n].kind = "exit"
  THEN {n} \X UsedUp(rows, Opposite(rows[n].side), Low(rows, n), High(rows, n)) ELSE {}

EndedBy(rows, n) == {x \in Ended(rows) : x[1] <= n}
Spans(rows, ended) == {rows[x[1]].ts - rows[x[2]].ts : x \in ended}

QueuesFit(rows, n, s) == \A side \in Side : QueueIs(rows, side, n, s.queue[side], Taken(rows, side)[n])
RowsFit(rows, n, s) == Len(s.rows) = n /\ \A k \in 1 .. n : s.rows[k] = Repriced(rows, k)
Timed(rows, spans, ended) ==
  spans \in Seq(Int) /\ Len(spans) = Cardinality(ended) /\ ToSet(spans) = Spans(rows, ended)
SpansFit(rows, n, s) == Timed(rows, s.spans, EndedBy(rows, n))

LEMMA EndedOneMore ==
  ASSUME NEW rows \in Seq(LedgerRow), NEW n \in 1 .. Len(rows)
  PROVE  /\ EndedBy(rows, n) = EndedBy(rows, n - 1) \cup EndedAt(rows, n)
         /\ EndedBy(rows, n - 1) \cap EndedAt(rows, n) = {}
         /\ IsFiniteSet(EndedBy(rows, n - 1)) /\ IsFiniteSet(EndedAt(rows, n))
<1> DEFINE D == DOMAIN rows
           Used(k) == UsedUp(rows, Opposite(rows[k].side), Low(rows, k), High(rows, k))
<1>1. Len(rows) \in Nat /\ D = 1 .. Len(rows) /\ n \in D
  BY RowsAre
<1>2. \A k : Used(k) \subseteq D
  BY DEF UsedUp
<1>3. EndedAt(rows, n) = IF rows[n].kind = "exit" THEN {n} \X Used(n) ELSE {}
  BY DEF EndedAt
<1>4. \A k : EndedBy(rows, k) = {x \in D \X D : rows[x[1]].kind = "exit" /\ x[2] \in Used(x[1]) /\ x[1] <= k}
  BY DEF EndedBy, Ended
<1>5. IsFiniteSet(D)
  BY <1>1, FS_Interval
<1> HIDE DEF D, Used
<1>6. \A k \in D : k <= n <=> (k <= n - 1 \/ k = n)
  BY <1>1
<1>7. \A k \in D : ~(k <= n - 1 /\ k = n)
  BY <1>1
<1>8. EndedBy(rows, n) = EndedBy(rows, n - 1) \cup EndedAt(rows, n)
  <2>1. ASSUME NEW x \in EndedBy(rows, n) PROVE x \in EndedBy(rows, n - 1) \cup EndedAt(rows, n)
    <3>1. x \in D \X D /\ rows[x[1]].kind = "exit" /\ x[2] \in Used(x[1]) /\ x[1] <= n
      BY <1>4
    <3>2. x = <<x[1], x[2]>> /\ x[1] \in D
      BY <3>1
    <3>3. CASE x[1] = n
      BY <1>3, <3>1, <3>2, <3>3
    <3>4. CASE x[1] <= n - 1
      BY <1>4, <3>1, <3>4
    <3> QED
      BY <1>6, <3>1, <3>2, <3>3, <3>4
  <2>2. ASSUME NEW x \in EndedBy(rows, n - 1) PROVE x \in EndedBy(rows, n)
    <3>1. x \in D \X D /\ rows[x[1]].kind = "exit" /\ x[2] \in Used(x[1]) /\ x[1] <= n - 1
      BY <1>4
    <3>2. x[1] \in D
      BY <3>1
    <3>3. x[1] <= n
      BY <1>6, <3>1, <3>2
    <3> QED
      BY <1>4, <3>1, <3>3
  <2>3. ASSUME NEW x \in EndedAt(rows, n) PROVE x \in EndedBy(rows, n)
    <3>1. rows[n].kind = "exit" /\ x \in {n} \X Used(n)
      BY <1>3
    <3>2. x = <<n, x[2]>> /\ x[1] = n /\ x[2] \in Used(n) /\ x[2] \in D /\ n <= n
      BY <1>1, <1>2, <3>1
    <3>3. x \in D \X D
      BY <1>1, <3>2
    <3> QED
      BY <1>4, <3>1, <3>2, <3>3
  <2> QED
    BY <2>1, <2>2, <2>3
<1>9. EndedBy(rows, n - 1) \cap EndedAt(rows, n) = {}
  <2>1. ASSUME NEW x \in EndedBy(rows, n - 1), x \in EndedAt(rows, n) PROVE FALSE
    <3>1. x \in D \X D /\ x[1] <= n - 1
      BY <1>4
    <3>2. x[1] = n
      BY <1>3, <2>1
    <3> QED
      BY <1>1, <1>7, <3>1, <3>2
  <2> QED
    BY <2>1
<1>10. IsFiniteSet(D \X D)
  BY <1>5, FS_Product
<1>11. EndedBy(rows, n - 1) \subseteq D \X D /\ EndedAt(rows, n) \subseteq D \X D
  <2>1. EndedBy(rows, n) \subseteq D \X D
    BY <1>4
  <2> QED
    BY <1>8, <2>1
<1> QED
  BY <1>8, <1>9, <1>10, <1>11, FS_Subset

LEMMA SpansAt ==
  ASSUME NEW rows, NEW n, NEW U
  PROVE  Spans(rows, {n} \X U) = {rows[n].ts - rows[p].ts : p \in U}
<1>1. \A p \in U : <<n, p>> \in {n} \X U /\ <<n, p>>[1] = n /\ <<n, p>>[2] = p
  OBVIOUS
<1>2. \A x \in {n} \X U : x[1] = n /\ x[2] \in U
  OBVIOUS
<1> QED
  BY <1>1, <1>2 DEF Spans

LEMMA RowsStep ==
  ASSUME NEW rows \in Seq(LedgerRow), NEW n \in 1 .. Len(rows), NEW s \in States, NEW t,
         RowsFit(rows, n - 1, s), t.rows = Append(s.rows, Repriced(rows, n))
  PROVE  RowsFit(rows, n, t)
<1> DEFINE x == Repriced(rows, n)
<1>1. s.rows \in Seq(LedgerRow) /\ n \in Nat
  BY RowsAre DEF States
<1>2. Len(s.rows) = n - 1 /\ \A k \in 1 .. n - 1 : s.rows[k] = Repriced(rows, k)
  BY DEF RowsFit
<1> HIDE DEF x
<1>3. Len(Append(s.rows, x)) = n /\ Append(s.rows, x)[n] = x /\ \A k \in 1 .. n - 1 : Append(s.rows, x)[k] = s.rows[k]
  BY <1>1, <1>2
<1>4. \A k \in 1 .. n : k = n \/ k \in 1 .. n - 1
  BY <1>1
<1> QED
  BY <1>2, <1>3, <1>4 DEF RowsFit, x

LEMMA TimedTogether ==
  ASSUME NEW rows, NEW old, NEW new, IsFiniteSet(old), IsFiniteSet(new), old \cap new = {},
         NEW s, Timed(rows, s, old), NEW t, Timed(rows, t, new),
         NEW both, both = s \o t, NEW ended, ended = old \cup new
  PROVE  Timed(rows, both, ended)
<1>1. /\ s \in Seq(Int) /\ Len(s) = Cardinality(old) /\ ToSet(s) = Spans(rows, old)
      /\ t \in Seq(Int) /\ Len(t) = Cardinality(new) /\ ToSet(t) = Spans(rows, new)
  BY DEF Timed
<1>2. Cardinality(old \cup new) = Cardinality(old) + Cardinality(new)
  <2>1. Cardinality(old) \in Nat /\ Cardinality(new) \in Nat
    BY FS_CardinalityType
  <2>2. Cardinality(old \cup new) = Cardinality(old) + Cardinality(new) - Cardinality(old \cap new)
    BY FS_Union
  <2>3. Cardinality(old \cap new) = 0
    BY FS_EmptySet
  <2> QED
    BY <2>1, <2>2, <2>3
<1>3. s \o t \in Seq(Int) /\ Len(s \o t) = Len(s) + Len(t)
  BY <1>1, ConcatIs
<1>4. ToSet(s \o t) = ToSet(s) \cup ToSet(t)
  BY <1>1, ConcatIs
<1>5. Spans(rows, old \cup new) = Spans(rows, old) \cup Spans(rows, new)
  BY DEF Spans
<1>6. ToSet(s \o t) = Spans(rows, old \cup new)
  BY <1>1, <1>4, <1>5
<1> QED
  BY <1>1, <1>2, <1>3, <1>6 DEF Timed

LEMMA SpansStep ==
  ASSUME NEW rows \in Seq(LedgerRow), NEW n \in 1 .. Len(rows), NEW s, NEW t, NEW spans,
         SpansFit(rows, n - 1, s), t.spans = s.spans \o spans, Timed(rows, spans, EndedAt(rows, n))
  PROVE  SpansFit(rows, n, t)
<1> DEFINE old == EndedBy(rows, n - 1)
           new == EndedAt(rows, n)
           ended == EndedBy(rows, n)
           u == s.spans
           v == t.spans
<1>1. ended = old \cup new /\ old \cap new = {} /\ IsFiniteSet(old) /\ IsFiniteSet(new)
  BY EndedOneMore
<1>2. Timed(rows, u, old) /\ Timed(rows, spans, new) /\ v = u \o spans
  BY DEF SpansFit
<1> HIDE DEF old, new, ended, u, v
<1>3. Timed(rows, v, ended)
  BY <1>1, <1>2, TimedTogether
<1> QED
  BY <1>3 DEF SpansFit, v, ended

(* A row that is not an exit, ...                                          *)
LEMMA NoExitStep ==
  ASSUME NEW rows \in Seq(LedgerRow), NEW n \in 1 .. Len(rows), NEW s \in States, rows[n].kind # "exit",
         QueuesFit(rows, n - 1, s), RowsFit(rows, n - 1, s), SpansFit(rows, n - 1, s)
  PROVE  LET t == Pair(s, rows[n]) IN QueuesFit(rows, n, t) /\ RowsFit(rows, n, t) /\ SpansFit(rows, n, t)
<1> DEFINE r == rows[n]
           t == Pair(s, r)
<1>1. r \in LedgerRow /\ r.side \in Side /\ n - 1 \in 0 .. Len(rows)
  BY RowsAre
<1>2. s.queue \in [Side -> Seq(LedgerRow)] /\ s.spans \in Seq(Int)
  BY DEF States
<1>3. /\ t.rows = Append(s.rows, r) /\ t.spans = s.spans
      /\ \A side \in Side : t.queue[side] = IF Enter(r, side) THEN Append(s.queue[side], r) ELSE s.queue[side]
  <2>1. CASE r.kind = "entry"
    <3>1. t = [queue |-> [s.queue EXCEPT ![r.side] = Append(@, r)], rows |-> Append(s.rows, r), spans |-> s.spans]
      BY <1>1, <2>1, PairIs
    <3>2. t.queue = [s.queue EXCEPT ![r.side] = Append(@, r)] /\ t.rows = Append(s.rows, r) /\ t.spans = s.spans
      BY <3>1
    <3> HIDE DEF t, r
    <3>3. ASSUME NEW side \in Side
          PROVE  t.queue[side] = IF Enter(r, side) THEN Append(s.queue[side], r) ELSE s.queue[side]
      BY <1>1, <1>2, <2>1, <3>2 DEF Enter
    <3> QED
      BY <3>2, <3>3
  <2>2. CASE r.kind # "entry"
    <3>1. t = [queue |-> s.queue, rows |-> Append(s.rows, r), spans |-> s.spans]
      BY <1>1, <2>2, PairIs
    <3> HIDE DEF t, r
    <3> QED
      BY <2>2, <3>1 DEF Enter
  <2> QED
    BY <2>1, <2>2
<1>4. QueuesFit(rows, n, t)
  <2> SUFFICES ASSUME NEW side \in Side
               PROVE  QueueIs(rows, side, n, t.queue[side], Taken(rows, side)[n])
    BY DEF QueuesFit
  <2>1. Taken(rows, side)[n] = Taken(rows, side)[n - 1]
    BY TakenIs
  <2>2. QueueIs(rows, side, n - 1, s.queue[side], Taken(rows, side)[n - 1]) /\ Taken(rows, side)[n - 1] \in Nat
    BY <1>1, TakenIs DEF QueuesFit
  <2> HIDE DEF t
  <2>3. QueueIs(rows, side, n, IF Enter(rows[n], side) THEN Append(s.queue[side], rows[n]) ELSE s.queue[side],
                Taken(rows, side)[n - 1])
    BY <2>2, QueueNext
  <2> QED
    BY <1>3, <2>1, <2>3
<1>5. RowsFit(rows, n, t)
  <2>1. Repriced(rows, n) = r
    BY DEF Repriced, Takes
  <2> HIDE DEF t
  <2> QED
    BY <1>3, <2>1, RowsStep
<1>6. SpansFit(rows, n, t)
  <2>1. EndedAt(rows, n) = {}
    BY DEF EndedAt
  <2>2. Spans(rows, {}) = {}
    BY DEF Spans
  <2>3. <<>> \in Seq(Int) /\ Len(<<>>) = 0 /\ ToSet(<<>>) = {} /\ s.spans \o <<>> = s.spans
    BY <1>2 DEF ToSet
  <2>4. Timed(rows, <<>>, EndedAt(rows, n))
    BY <2>1, <2>2, <2>3, FS_EmptySet DEF Timed
  <2> HIDE DEF t
  <2>5. t.spans = s.spans \o <<>>
    BY <1>3, <2>3
  <2> QED
    BY <2>4, <2>5, SpansStep
<1> QED
  BY <1>4, <1>5, <1>6

(* ... and one that is.                                                    *)
LEMMA ExitStep ==
  ASSUME NEW rows \in Seq(LedgerRow), NEW n \in 1 .. Len(rows), NEW s \in States, rows[n].kind = "exit",
         QueuesFit(rows, n - 1, s), RowsFit(rows, n - 1, s), SpansFit(rows, n - 1, s)
  PROVE  LET t == Pair(s, rows[n]) IN QueuesFit(rows, n, t) /\ RowsFit(rows, n, t) /\ SpansFit(rows, n, t)
<1> DEFINE r == rows[n]
           out == Opposite(r.side)
           low == Taken(rows, out)[n - 1]
           high == Taken(rows, out)[n]
           m == Matched(r, s.queue[out])
           t == Pair(s, r)
<1>1. r \in LedgerRow /\ r.side \in Side /\ out \in Side /\ n - 1 \in 0 .. Len(rows) /\ n \in 0 .. Len(rows)
  BY RowsAre, ExitOf
<1>2. \A side \in Side : Opposite(side) = r.side <=> side = out
  BY <1>1 DEF Opposite, Side
<1>3. \A side \in Side : side # out => Taken(rows, side)[n] = Taken(rows, side)[n - 1]
  BY <1>2, TakenIs
<1>4. high = low + Lesser(r.qty, Entered(rows, out)[n - 1] - low)
  <2>1. Entered(rows, out)[n] = Entered(rows, out)[n - 1] + 0
    BY <1>1, EnteredIs DEF Enter
  <2>2. Entered(rows, out)[n - 1] \in Nat
    BY <1>1, EnteredIs
  <2>3. high = low + Lesser(r.qty, Entered(rows, out)[n] - low)
    BY <1>1, <1>2, TakenIs
  <2> QED
    BY <2>1, <2>2, <2>3
<1>5. low \in Nat /\ high \in Nat /\ Low(rows, n) = low /\ High(rows, n) = high
  BY <1>1, TakenIs DEF Low, High
<1>6. QueueIs(rows, out, n - 1, s.queue[out], low)
  BY <1>1 DEF QueuesFit
<1>7. /\ m \in Matchings /\ QueueIs(rows, out, n - 1, m.queue, high)
      /\ m.gain = Profited(rows, out, r.price, low, high)
      /\ SpansAre(rows, out, r.ts, m.spans, low, high)
      /\ m.left < r.qty <=> low < high
  <2> HIDE DEF low, high
  <2>1. Serving(rows, n, s.queue[out], low, high)
    BY <1>4, <1>6 DEF Serving
  <2>2. Served(rows, n, m, low, high)
    BY <1>5, <2>1, MatchedIs
  <2> HIDE DEF m
  <2> QED
    BY <2>2 DEF Served
<1>8. t = [queue |-> [s.queue EXCEPT ![out] = m.queue],
           rows |-> Append(s.rows, IF m.left < r.qty THEN [r EXCEPT !.pnl = m.gain] ELSE r),
           spans |-> s.spans \o m.spans]
  BY <1>1, PairIs, ZenonT(20)
<1>9. m.gain = Profit(rows, n) /\ (Takes(rows, n) <=> low < high)
  BY <1>5, <1>7 DEF Profit, Profited, Takes
<1> HIDE DEF t, m
<1>10. /\ t.queue = [s.queue EXCEPT ![out] = m.queue] /\ t.spans = s.spans \o m.spans
       /\ t.rows = Append(s.rows, IF m.left < r.qty THEN [r EXCEPT !.pnl = m.gain] ELSE r)
  BY <1>8
<1>11. QueuesFit(rows, n, t)
  <2> SUFFICES ASSUME NEW side \in Side
               PROVE  QueueIs(rows, side, n, t.queue[side], Taken(rows, side)[n])
    BY DEF QueuesFit
  <2>1. s.queue \in [Side -> Seq(LedgerRow)] /\ ~Enter(rows[n], side)
    BY DEF States, Enter
  <2>2. CASE side = out
    <3>1. t.queue[side] = m.queue
      BY <1>1, <1>10, <2>1, <2>2
    <3>2. QueueIs(rows, out, n, m.queue, high)
      <4> HIDE DEF high, low, out
      <4> QED
        BY <1>1, <1>5, <1>7, <2>1, <2>2, QueueNext
    <3> QED
      BY <2>2, <3>1, <3>2
  <2>3. CASE side # out
    <3>1. t.queue[side] = s.queue[side] /\ Taken(rows, side)[n] = Taken(rows, side)[n - 1]
      BY <1>3, <1>10, <2>1, <2>3
    <3>2. QueueIs(rows, side, n - 1, s.queue[side], Taken(rows, side)[n - 1]) /\ Taken(rows, side)[n - 1] \in Nat
      BY <1>1, TakenIs DEF QueuesFit
    <3>3. QueueIs(rows, side, n, s.queue[side], Taken(rows, side)[n - 1])
      BY <2>1, <3>2, QueueNext
    <3> QED
      BY <3>1, <3>3
  <2> QED
    BY <2>2, <2>3
<1>12. RowsFit(rows, n, t)
  <2>1. Repriced(rows, n) = IF m.left < r.qty THEN [r EXCEPT !.pnl = m.gain] ELSE r
    BY <1>7, <1>9 DEF Repriced
  <2> HIDE DEF r
  <2> QED
    BY <1>10, <2>1, RowsStep
<1>13. SpansFit(rows, n, t)
  <2> DEFINE U == UsedUp(rows, out, low, high)
  <2>1. m.spans \in Seq(Int) /\ Len(m.spans) = Cardinality(U) /\ ToSet(m.spans) = {r.ts - rows[p].ts : p \in U}
    BY <1>7 DEF SpansAre
  <2>2. EndedAt(rows, n) = {n} \X U
    BY <1>5 DEF EndedAt
  <2>3. IsFiniteSet(U) /\ IsFiniteSet({n}) /\ Cardinality({n}) = 1
    BY UsedUpIsFinite, FS_Singleton
  <2> HIDE DEF U
  <2>4. Cardinality({n} \X U) = Cardinality(U)
    <3>1. Cardinality(U) \in Nat
      BY <2>3, FS_CardinalityType
    <3>2. Cardinality({n} \X U) = Cardinality({n}) * Cardinality(U)
      BY <2>3, FS_Product
    <3> QED
      BY <2>3, <3>1, <3>2
  <2>5. Spans(rows, {n} \X U) = ToSet(m.spans)
    <3>1. Spans(rows, {n} \X U) = {r.ts - rows[p].ts : p \in U}
      BY SpansAt
    <3> QED
      BY <2>1, <3>1
  <2> HIDE DEF r, out, low, high
  <2>6. Timed(rows, m.spans, EndedAt(rows, n))
    BY <2>1, <2>2, <2>4, <2>5 DEF Timed
  <2> QED
    BY <1>10, <2>6, SpansStep
<1> QED
  BY <1>11, <1>12, <1>13 DEF t

LEMMA PairingFits ==
  ASSUME NEW rows \in Seq(LedgerRow)
  PROVE  \A n \in 0 .. Len(rows) :
           LET s == Pairings(rows)[n] IN
           s \in States /\ QueuesFit(rows, n, s) /\ RowsFit(rows, n, s) /\ SpansFit(rows, n, s)
<1> DEFINE N == Len(rows)
           f == Pairings(rows)
           Fits(n) == QueuesFit(rows, n, f[n]) /\ RowsFit(rows, n, f[n]) /\ SpansFit(rows, n, f[n])
           Bad == {n \in 0 .. N : ~Fits(n)}
<1>1. N \in Nat
  BY RowsAre
<1>2. f[0] = Unpaired /\ (\A n \in 0 .. N : f[n] \in States) /\ \A n \in 1 .. N : f[n] = Pair(f[n - 1], rows[n])
  BY PairingsAre
<1>3. Fits(0)
  <2>1. 0 \in 0 .. N
    BY <1>1
  <2>2. QueuesFit(rows, 0, Unpaired)
    <3> SUFFICES ASSUME NEW side \in Side
                 PROVE  QueueIs(rows, side, 0, Unpaired.queue[side], Taken(rows, side)[0])
      BY DEF QueuesFit
    <3>1. Unpaired.queue[side] = <<>>
      BY DEF Unpaired, Side
    <3>2. Taken(rows, side)[0] = 0 /\ Entered(rows, side)[0] = 0
      BY TakenIs, EnteredIs
    <3>3. [j \in 0 .. 0 |-> 0] \in [0 .. Len(<<>>) -> Nat] /\ [j \in 0 .. 0 |-> 0][0] = 0 /\ Len(<<>>) = 0
      OBVIOUS
    <3>4. <<>> \in Seq(LedgerRow) /\ \A j \in 1 .. 0 : FALSE
      OBVIOUS
    <3> QED
      BY <3>1, <3>2, <3>3, <3>4 DEF QueueIs
  <2>3. RowsFit(rows, 0, Unpaired)
    BY DEF RowsFit, Unpaired
  <2>4. SpansFit(rows, 0, Unpaired)
    <3>1. EndedBy(rows, 0) = {}
      BY RowsAre DEF EndedBy, Ended
    <3>2. Spans(rows, {}) = {} /\ ToSet(<<>>) = {} /\ <<>> \in Seq(Int) /\ Len(<<>>) = 0
      BY DEF Spans, ToSet
    <3> QED
      BY <3>1, <3>2, FS_EmptySet DEF SpansFit, Timed, Unpaired
  <2> QED
    BY <1>2, <2>2, <2>3, <2>4
<1> HIDE DEF f, N
<1>4. ASSUME NEW n \in 1 .. N, Fits(n - 1) PROVE Fits(n)
  <2>1. n \in 1 .. Len(rows) /\ f[n - 1] \in States /\ f[n] = Pair(f[n - 1], rows[n])
    BY <1>1, <1>2, <1>4 DEF N
  <2>2. CASE rows[n].kind = "exit"
    BY <1>4, <2>1, <2>2, ExitStep
  <2>3. CASE rows[n].kind # "exit"
    BY <1>4, <2>1, <2>3, NoExitStep
  <2> QED
    BY <2>2, <2>3
<1> HIDE DEF Fits
<1>5. Bad = {}
  <2> SUFFICES ASSUME Bad # {} PROVE FALSE
    OBVIOUS
  <2>1. PICK n \in Bad : \A j \in Bad : n <= j
    <3>1. Bad \in SUBSET Nat
      BY <1>1
    <3> QED
      BY <3>1, Smallest
  <2>2. n # 0
    BY <1>3, <2>1
  <2>3. n \in 1 .. N /\ n - 1 \in 0 .. N /\ n - 1 \notin Bad
    BY <1>1, <2>1, <2>2
  <2> QED
    BY <1>4, <2>1, <2>3
<1>6. \A n \in 0 .. N : Fits(n) /\ f[n] \in States
  BY <1>2, <1>5
<1> QED
  BY <1>6 DEF Fits, f, N

(* The pairing of every ledger, of any rows in any quantities, is first    *)
(* in, first out (Fifo; compute_realized_pnl_by_pairing and                *)
(* get_trade_durations_sec): the exits of a side take the units of its     *)
(* entries in their order, each once, are credited with the profits of     *)
(* those, and end the durations of the entries they use up.                *)
THEOREM PairingIsFifo ==
  ASSUME NEW rows \in Seq(LedgerRow)
  PROVE  Fifo(rows)
<1> DEFINE N == Len(rows)
           p == Paired(rows)
<1>1. N \in Nat /\ DOMAIN rows = 1 .. N /\ N \in 0 .. N
  BY RowsAre
<1>2. p = Pairings(rows)[N]
  BY PairingsAre
<1>3. p \in States /\ RowsFit(rows, N, p) /\ SpansFit(rows, N, p)
  BY <1>1, <1>2, PairingFits
<1> HIDE DEF p
<1>4. p.rows = [n \in DOMAIN rows |-> IF Takes(rows, n) THEN [rows[n] EXCEPT !.pnl = Profit(rows, n)] ELSE rows[n]]
  <2>1. p.rows \in Seq(LedgerRow) /\ Len(p.rows) = N /\ \A n \in 1 .. N : p.rows[n] = Repriced(rows, n)
    BY <1>3 DEF States, RowsFit
  <2>2. p.rows = [n \in 1 .. N |-> p.rows[n]]
    BY <2>1
  <2> QED
    BY <1>1, <2>1, <2>2 DEF Repriced
<1>5. EndedBy(rows, N) = Ended(rows)
  BY <1>1 DEF EndedBy, Ended
<1>6. Len(p.spans) = Cardinality(Ended(rows))
  BY <1>3, <1>5 DEF SpansFit, Timed
<1>7. ToSet(p.spans) = {rows[x[1]].ts - rows[x[2]].ts : x \in Ended(rows)}
  BY <1>3, <1>5 DEF SpansFit, Timed, Spans
<1> QED
  BY <1>4, <1>6, <1>7 DEF Fifo, p

(* The rows of round trips: each exit finds its entry, alone in its queue. *)
EntryRow(t) == Row("entry", t.side, t.from, t.entry, 0)
ExitRow(t) == Row("exit", Opposite(t.side), t.to, t.exit, Gain(t.side, t.entry, t.exit))

LEMMA RowType ==
  ASSUME NEW kind \in Kinds, NEW side \in Side, NEW ts \in Int, NEW price \in Int, NEW pnl \in Int
  PROVE  Row(kind, side, ts, price, pnl) \in LedgerRow
<1>1. 1 \in Nat \ {0}
  OBVIOUS
<1>2. LedgerRow = [kind : Kinds, side : Side, qty : Nat \ {0}, ts : Int, price : Int, pnl : Int]
  BY DEF LedgerRow
<1> QED
  BY <1>1, <1>2, Zenon DEF Row

LEMMA TripRows ==
  ASSUME NEW t \in Trips
  PROVE  /\ EntryRow(t) \in LedgerRow /\ ExitRow(t) \in LedgerRow
         /\ t.side \in Side /\ Opposite(t.side) \in Side /\ Opposite(Opposite(t.side)) = t.side
<1>1. t.side \in Side /\ t.from \in Int /\ t.entry \in Int /\ t.to \in Int /\ t.exit \in Int
  BY DEF Trips
<1>2. Opposite(t.side) \in Side /\ Opposite(Opposite(t.side)) = t.side
  BY <1>1 DEF Side, Opposite
<1>3. Gain(t.side, t.entry, t.exit) \in Int
  BY <1>1 DEF Gain
<1>4. "entry" \in Kinds /\ "exit" \in Kinds
  BY DEF Kinds
<1>5. EntryRow(t) \in LedgerRow
  BY <1>1, <1>4, RowType, 0 \in Int DEF EntryRow
<1>6. ExitRow(t) \in LedgerRow
  BY <1>1, <1>2, <1>3, <1>4, RowType DEF ExitRow
<1> QED
  BY <1>1, <1>2, <1>5, <1>6

LEMMA RowsAlternate ==
  ASSUME NEW trips \in Seq(Trips)
  PROVE  /\ Len(trips) \in Nat /\ Rows(trips) \in Seq(LedgerRow) /\ Len(Rows(trips)) = 2 * Len(trips)
         /\ \A k \in 1 .. Len(trips) :
              trips[k] \in Trips /\ Rows(trips)[2 * k - 1] = EntryRow(trips[k]) /\ Rows(trips)[2 * k] = ExitRow(trips[k])
<1> DEFINE K == Len(trips)
           R == Rows(trips)
<1>1. K \in Nat /\ \A k \in 1 .. K : trips[k] \in Trips
  OBVIOUS
<1>2. \A i \in 1 .. 2 * K : R[i] = IF i % 2 = 1 THEN EntryRow(trips[(i + 1) \div 2]) ELSE ExitRow(trips[(i + 1) \div 2])
  BY DEF Rows, EntryRow, ExitRow
<1>3. R = [i \in 1 .. 2 * K |-> R[i]]
  BY DEF Rows
<1> HIDE DEF R, K
<1>4. \A i \in 1 .. 2 * K : (i + 1) \div 2 \in 1 .. K
  BY <1>1
<1>5. \A i \in 1 .. 2 * K : R[i] \in LedgerRow
  BY <1>1, <1>2, <1>4, TripRows
<1>6. R \in Seq(LedgerRow) /\ Len(R) = 2 * K
  <2> DEFINE N == 2 * K
  <2>1. N \in Nat
    BY <1>1
  <2>2. R = [i \in 1 .. N |-> R[i]] /\ \A i \in 1 .. N : R[i] \in LedgerRow
    BY <1>3, <1>5
  <2> HIDE DEF N
  <2>3. R \in Seq(LedgerRow) /\ Len(R) = N
    BY <2>1, <2>2
  <2> QED
    BY <2>3 DEF N
<1>7. ASSUME NEW k \in 1 .. K PROVE R[2 * k - 1] = EntryRow(trips[k]) /\ R[2 * k] = ExitRow(trips[k])
  <2>1. 2 * k - 1 \in 1 .. 2 * K /\ 2 * k \in 1 .. 2 * K
    BY <1>1
  <2>2. (2 * k - 1) % 2 = 1 /\ ((2 * k - 1) + 1) \div 2 = k
    BY <1>1
  <2>3. (2 * k) % 2 = 0 /\ (2 * k + 1) \div 2 = k
    BY <1>1
  <2> QED
    BY <1>2, <2>1, <2>2, <2>3
<1> QED
  BY <1>1, <1>6, <1>7 DEF R, K

Idle(s) == \A side \in Side : s.queue[side] = <<>>

LEMMA OneTrip ==
  ASSUME NEW s \in States, Idle(s), NEW t \in Trips
  PROVE  LET u == Pair(Pair(s, EntryRow(t)), ExitRow(t)) IN
         Idle(u) /\ u.rows = Append(Append(s.rows, EntryRow(t)), ExitRow(t))
<1> DEFINE e == EntryRow(t)
           x == ExitRow(t)
           v == Pair(s, e)
           u == Pair(v, x)
           m == Matched(x, <<e>>)
<1>1. /\ e \in LedgerRow /\ x \in LedgerRow /\ t.side \in Side
      /\ Opposite(t.side) \in Side /\ Opposite(Opposite(t.side)) = t.side
  BY TripRows
<1>2. /\ e.kind = "entry" /\ e.side = t.side /\ e.qty = 1 /\ e.price = t.entry
      /\ x.kind = "exit" /\ x.side = Opposite(t.side) /\ x.qty = 1 /\ x.price = t.exit
      /\ x.pnl = Gain(t.side, t.entry, t.exit)
  BY DEF EntryRow, ExitRow, Row
<1>3. t.entry \in Int /\ t.exit \in Int
  BY DEF Trips
<1> HIDE DEF e, x
<1>4. v = [queue |-> [s.queue EXCEPT ![e.side] = Append(@, e)], rows |-> Append(s.rows, e), spans |-> s.spans]
  BY <1>1, <1>2, PairIs
<1>5. v \in States /\ v.rows = Append(s.rows, e)
  <2>1. v \in States
    BY <1>1, PairType
  <2> HIDE DEF v
  <2>2. v.rows = Append(s.rows, e)
    BY <1>4
  <2> QED
    BY <2>1, <2>2
<1>6. \A side \in Side : v.queue[side] = IF side = t.side THEN <<e>> ELSE <<>>
  <2>1. s.queue \in [Side -> Seq(LedgerRow)] /\ \A side \in Side : s.queue[side] = <<>>
    BY DEF States, Idle
  <2>2. Append(<<>>, e) = <<e>>
    OBVIOUS
  <2>3. v.queue = [s.queue EXCEPT ![t.side] = Append(@, e)]
    BY <1>2, <1>4
  <2> HIDE DEF v
  <2> QED
    BY <1>1, <2>1, <2>2, <2>3
<1> HIDE DEF v, m
<1>7. m.left = 0 /\ m.queue = <<>> /\ m.gain = x.pnl
  <2> DEFINE one == FirstTurn(x, <<e>>)
  <2>1. <<e>> \in Seq(LedgerRow) /\ Len(<<e>>) = 1 /\ 1 \in 1 .. 1 /\ 1 - 1 = 0 /\ 0 \in 0 .. 1
    BY <1>1
  <2>2. m = Turning(x, <<e>>)[1] /\ Turning(x, <<e>>)[1] = Take(x, Turning(x, <<e>>)[0])
    BY <1>1, <2>1, TurningIs DEF m
  <2>3. Turning(x, <<e>>)[0] = one /\ one \in Matchings
    BY <1>1, <2>1, TurningIs
  <2>4. one.left = 1 /\ one.queue = <<e>> /\ one.gain = 0 /\ one.spans = <<>>
    BY <1>2 DEF FirstTurn
  <2>5. Head(<<e>>) = e /\ Tail(<<e>>) = <<>> /\ <<e>> # <<>>
    OBVIOUS
  <2> HIDE DEF one
  <2>6. Take(x, one) = Whole(x, one)
    <3>1. one.left # 0 /\ one.queue # <<>> /\ Head(one.queue).qty <= one.left
      BY <1>2, <2>4, <2>5
    <3> QED
      BY <1>1, <2>3, <3>1, TakeIs
  <2>7. /\ Whole(x, one).left = one.left - Head(one.queue).qty /\ Whole(x, one).queue = Tail(one.queue)
        /\ Whole(x, one).gain
             = one.gain + Head(one.queue).qty * Gain(Head(one.queue).side, Head(one.queue).price, x.price)
    BY DEF Whole
  <2>8. x.pnl \in Int /\ Gain(e.side, e.price, x.price) = x.pnl
    BY <1>1, <1>2 DEF LedgerRow
  <2> QED
    BY <1>2, <2>2, <2>3, <2>4, <2>5, <2>6, <2>7, <2>8
<1>8. u = [queue |-> [v.queue EXCEPT ![t.side] = m.queue],
           rows |-> Append(v.rows, IF m.left < x.qty THEN [x EXCEPT !.pnl = m.gain] ELSE x),
           spans |-> v.spans \o m.spans]
  <2>1. v.queue[Opposite(x.side)] = <<e>> /\ Opposite(x.side) = t.side
    BY <1>1, <1>2, <1>6
  <2> QED
    BY <1>1, <1>2, <1>5, <2>1, PairIs DEF m
<1>9. (IF m.left < x.qty THEN [x EXCEPT !.pnl = m.gain] ELSE x) = x
  BY <1>1, <1>2, <1>7 DEF LedgerRow
<1>10. Idle(u)
  <2>1. v.queue \in [Side -> Seq(LedgerRow)]
    BY <1>5 DEF States
  <2>2. u.queue = [v.queue EXCEPT ![t.side] = m.queue]
    BY <1>8
  <2> HIDE DEF u
  <2> QED
    BY <1>1, <1>6, <1>7, <2>1, <2>2 DEF Idle
<1>11. u.rows = Append(v.rows, x)
  BY <1>8, <1>9
<1> QED
  BY <1>5, <1>10, <1>11 DEF e, x, v

(* The first rows of the trips are paired with what they were recorded.    *)
PairedTo(trips, k) ==
  LET s == Pairings(Rows(trips))[2 * k] IN
  /\ s \in States /\ Idle(s) /\ Len(s.rows) = 2 * k
  /\ \A i \in 1 .. 2 * k : s.rows[i] = Rows(trips)[i]

LEMMA AppendTwo ==
  ASSUME NEW S, NEW w \in Seq(S), NEW a \in S, NEW b \in S, NEW n \in Nat, Len(w) = n,
         NEW v, v = Append(Append(w, a), b)
  PROVE  /\ Len(v) = n + 2 /\ v[n + 1] = a /\ v[n + 2] = b
         /\ \A i \in 1 .. n : v[i] = w[i]
OBVIOUS

LEMMA NextTrip ==
  ASSUME NEW trips \in Seq(Trips), NEW k \in Nat, k + 1 \in 1 .. Len(trips), PairedTo(trips, k)
  PROVE  PairedTo(trips, k + 1)
<1> DEFINE R == Rows(trips)
           e == EntryRow(trips[k + 1])
           x == ExitRow(trips[k + 1])
           s == Pairings(R)[2 * k]
           u == Pairings(R)[2 * (k + 1)]
<1>1. /\ Len(trips) \in Nat /\ R \in Seq(LedgerRow) /\ Len(R) = 2 * Len(trips)
      /\ trips[k + 1] \in Trips /\ R[2 * (k + 1) - 1] = e /\ R[2 * (k + 1)] = x
  BY RowsAlternate
<1>2. /\ 2 * (k + 1) - 1 = 2 * k + 1 /\ 2 * (k + 1) = 2 * k + 2
      /\ (2 * k + 1) - 1 = 2 * k /\ (2 * k + 2) - 1 = 2 * k + 1
  OBVIOUS
<1>3. 2 * k + 1 \in 1 .. 2 * Len(trips) /\ 2 * k + 2 \in 1 .. 2 * Len(trips) /\ 2 * k + 2 \in 0 .. 2 * Len(trips)
  BY <1>1
<1>4. s \in States /\ Idle(s) /\ Len(s.rows) = 2 * k /\ \A i \in 1 .. 2 * k : s.rows[i] = R[i]
  BY DEF PairedTo
<1>5. e \in LedgerRow /\ x \in LedgerRow
  BY <1>1, TripRows
<1>6. R[2 * k + 1] = e /\ R[2 * k + 2] = x
  BY <1>1, <1>2
<1> HIDE DEF R, s, e, x
<1>7. Pairings(R)[2 * k + 1] = Pair(s, e)
  BY <1>1, <1>2, <1>3, <1>6, PairingsAre DEF s
<1>8. u = Pair(Pair(s, e), x) /\ u \in States
  BY <1>1, <1>2, <1>3, <1>6, <1>7, PairingsAre
<1>9. Idle(u) /\ u.rows = Append(Append(s.rows, e), x)
  BY <1>1, <1>4, <1>8, OneTrip DEF e, x
<1> HIDE DEF u
<1>10. s.rows \in Seq(LedgerRow)
  BY <1>4 DEF States
<1>11. /\ Len(u.rows) = 2 * k + 2 /\ u.rows[2 * k + 1] = e /\ u.rows[2 * k + 2] = x
       /\ \A i \in 1 .. 2 * k : u.rows[i] = s.rows[i]
  <2> DEFINE n == 2 * k
             v == u.rows
             w == s.rows
  <2>1. n \in Nat /\ w \in Seq(LedgerRow) /\ Len(w) = n /\ v = Append(Append(w, e), x)
    BY <1>4, <1>9, <1>10
  <2> HIDE DEF n, v, w
  <2>2. /\ Len(v) = n + 2 /\ v[n + 1] = e /\ v[n + 2] = x
        /\ \A i \in 1 .. n : v[i] = w[i]
    BY <1>5, <2>1, AppendTwo
  <2> QED
    BY <2>2 DEF n, v, w
<1>12. \A i \in 1 .. 2 * (k + 1) : i \in 1 .. 2 * k \/ i = 2 * k + 1 \/ i = 2 * k + 2
  OBVIOUS
<1>13. \A i \in 1 .. 2 * (k + 1) : u.rows[i] = R[i]
  BY <1>4, <1>6, <1>11, <1>12
<1> QED
  BY <1>2, <1>8, <1>9, <1>11, <1>13 DEF PairedTo, u, R

LEMMA TripsRecovered ==
  ASSUME NEW trips \in Seq(Trips)
  PROVE  Paired(Rows(trips)).rows = Rows(trips)
<1> DEFINE R == Rows(trips)
           K == Len(trips)
           Bad == {k \in Nat : k <= K /\ ~PairedTo(trips, k)}
<1>1. K \in Nat /\ R \in Seq(LedgerRow) /\ Len(R) = 2 * K
  BY RowsAlternate
<1>2. PairedTo(trips, 0)
  <2>1. Pairings(R)[0] = Unpaired /\ Pairings(R)[0] \in States
    BY <1>1, PairingsAre
  <2>2. Idle(Unpaired) /\ Unpaired.rows = <<>>
    BY DEF Idle, Unpaired, Side
  <2>3. Len(<<>>) = 0 /\ 2 * 0 = 0 /\ 1 .. 0 = {}
    OBVIOUS
  <2> QED
    BY <2>1, <2>2, <2>3 DEF PairedTo
<1>3. Bad = {}
  <2> SUFFICES ASSUME Bad # {} PROVE FALSE
    OBVIOUS
  <2>1. Bad \in SUBSET Nat
    OBVIOUS
  <2>2. PICK n \in Bad : \A m \in Bad : n <= m
    BY <2>1, Smallest
  <2>3. n \in Nat /\ n <= K /\ n # 0 /\ ~PairedTo(trips, n)
    BY <1>2, <2>2
  <2>4. n - 1 \in Nat /\ n - 1 <= K /\ n - 1 \notin Bad /\ (n - 1) + 1 = n /\ n \in 1 .. K
    BY <1>1, <2>2, <2>3
  <2>5. PairedTo(trips, n - 1)
    BY <2>4
  <2> QED
    BY <2>3, <2>4, <2>5, NextTrip
<1>4. PairedTo(trips, K)
  BY <1>1, <1>3
<1> DEFINE s == Pairings(R)[2 * K]
<1>5. s \in States /\ Len(s.rows) = 2 * K /\ \A i \in 1 .. 2 * K : s.rows[i] = R[i]
  BY <1>4 DEF PairedTo
<1>6. Paired(R) = s
  BY <1>1, PairingsAre
<1> HIDE DEF s, R, K
<1>7. s.rows \in Seq(LedgerRow)
  BY <1>5 DEF States
<1>8. s.rows = R
  BY <1>1, <1>5, <1>7
<1> QED
  BY <1>6, <1>8 DEF R

(* The trades of a backtest, and the synthetic ones, are such trips.       *)
LEMMA RoundTripsAreTrips ==
  ASSUME NEW bars \in Series
  PROVE  RoundTrips(bars) \in Seq(Trips)
<1>1. CASE Len(bars) < 2
  <2>1. RoundTrips(bars) = <<>>
    BY <1>1 DEF RoundTrips
  <2> QED
    BY <2>1
<1>2. CASE ~(Len(bars) < 2)
  <2>1. Len(bars) \in Nat /\ Len(bars) >= 2
    BY <1>2 DEF Series
  <2>2. Simulation(After(bars)[Len(bars)], bars, Len(bars))
    BY <2>1, Keeps
  <2>3. After(bars)[Len(bars)].trips \in Seq(Trips)
    BY <2>2 DEF Simulation
  <2> QED
    BY <2>1, <2>3, TripsAre
<1> QED
  BY <1>1, <1>2

Until(bars, i) == Lesser(i + 1 + Hold, Len(bars))
Rise(bars, i) == bars[i + 1].close - bars[i].close
Momentum(bars, i) ==
  [side |-> IF Rise(bars, i) > 0 THEN "Buy" ELSE "Sell", from |-> bars[i + 1].ts, entry |-> bars[i + 1].close,
   to |-> bars[Until(bars, i)].ts, exit |-> bars[Until(bars, i)].close, why |-> "tp1"]

(* The synthetic trades from the bar i on, from those of the later bars.   *)
Scan(bars, f, i) ==
  IF i > Len(bars) - Hold THEN <<>>
  ELSE IF Rise(bars, i) >= Move \/ Rise(bars, i) <= -Move
  THEN <<Momentum(bars, i)>> \o f[Until(bars, i) + 1]
  ELSE f[i + 1]

Scans(f, bars, k) == f = [i \in k .. Len(bars) + 1 |-> Scan(bars, f, i)]
Scanned(bars) == CHOOSE f : Scans(f, bars, 1)

LEMMA SyntheticIs ==
  ASSUME NEW bars
  PROVE  Synthetic(bars) = Scanned(bars)[1]
BY DEF Synthetic, Scanned, Scans, Scan, Momentum, Rise, Until

LEMMA LastIs ==
  ASSUME NEW L \in Nat, NEW i \in 1 .. L + 1, NEW h \in Nat, h > 0, ~(i > L - h)
  PROVE  /\ i \in 1 .. L /\ i + 1 \in 1 .. L /\ i + 1 \in i + 1 .. L + 1
         /\ Lesser(i + 1 + h, L) \in 1 .. L
         /\ Lesser(i + 1 + h, L) + 1 \in i + 1 .. L + 1
BY DEF Lesser

LEMMA Holding == Hold \in Nat /\ Hold > 0
BY BacktestAssumption

LEMMA ScansAgree ==
  ASSUME NEW bars, Len(bars) \in Nat, NEW i \in 1 .. Len(bars) + 1, NEW f, NEW g,
         \A j \in i + 1 .. Len(bars) + 1 : f[j] = g[j]
  PROVE  Scan(bars, f, i) = Scan(bars, g, i)
<1>1. CASE i > Len(bars) - Hold
  BY <1>1 DEF Scan
<1>2. CASE ~(i > Len(bars) - Hold)
  <2>1. i + 1 \in i + 1 .. Len(bars) + 1 /\ Until(bars, i) + 1 \in i + 1 .. Len(bars) + 1
    BY <1>2, LastIs, Holding DEF Until
  <2>2. f[i + 1] = g[i + 1] /\ f[Until(bars, i) + 1] = g[Until(bars, i) + 1]
    BY <2>1
  <2> QED
    BY <2>2 DEF Scan
<1> QED
  BY <1>1, <1>2

LEMMA ScanType ==
  ASSUME NEW bars \in Series, NEW i \in 1 .. Len(bars) + 1, NEW f,
         \A j \in i + 1 .. Len(bars) + 1 : f[j] \in Seq(Trips)
  PROVE  Scan(bars, f, i) \in Seq(Trips)
<1>1. Len(bars) \in Nat /\ \A j \in 1 .. Len(bars) : bars[j].ts \in Int /\ bars[j].close \in Int
  <2>1. bars \in Seq(Bar)
    BY DEF Series
  <2>2. Len(bars) \in Nat /\ \A j \in 1 .. Len(bars) : bars[j] \in Bar
    BY <2>1
  <2> QED
    BY <2>2 DEF Bar
<1>2. CASE i > Len(bars) - Hold
  <2>1. Scan(bars, f, i) = <<>>
    BY <1>2 DEF Scan
  <2> QED
    BY <2>1
<1>3. CASE ~(i > Len(bars) - Hold)
  <2> DEFINE n == Until(bars, i)
             side == IF Rise(bars, i) > 0 THEN "Buy" ELSE "Sell"
             t == Momentum(bars, i)
  <2>1. /\ i \in 1 .. Len(bars) /\ i + 1 \in 1 .. Len(bars) /\ n \in 1 .. Len(bars)
        /\ i + 1 \in i + 1 .. Len(bars) + 1 /\ n + 1 \in i + 1 .. Len(bars) + 1
    BY <1>1, <1>3, LastIs, Holding DEF Until
  <2>2. f[i + 1] \in Seq(Trips) /\ f[n + 1] \in Seq(Trips)
    BY <2>1
  <2>3. side \in Side /\ "tp1" \in Reasons
    BY DEF Side, Reasons
  <2>4. t \in Trips
    <3>1. bars[i + 1].ts \in Int /\ bars[i + 1].close \in Int /\ bars[n].ts \in Int /\ bars[n].close \in Int
      BY <1>1, <2>1
    <3>2. t = [side |-> side, from |-> bars[i + 1].ts, entry |-> bars[i + 1].close,
               to |-> bars[n].ts, exit |-> bars[n].close, why |-> "tp1"]
      BY DEF Momentum
    <3> HIDE DEF side, n, t
    <3> QED
      BY <2>3, <3>1, <3>2 DEF Trips
  <2>5. Scan(bars, f, i) \in {<<t>> \o f[n + 1], f[i + 1]}
    BY <1>3 DEF Scan
  <2> HIDE DEF t, n
  <2>6. <<t>> \in Seq(Trips)
    BY <2>4
  <2>7. <<t>> \o f[n + 1] \in Seq(Trips)
    BY <2>2, <2>6
  <2> QED
    BY <2>2, <2>5, <2>7
<1> QED
  BY <1>2, <1>3

(* The scans that start at the last n bars.                                *)
Late(f, bars, n) ==
  /\ Scans(f, bars, Len(bars) + 1 - n)
  /\ \A i \in Len(bars) + 1 - n .. Len(bars) + 1 : f[i] \in Seq(Trips)

LEMMA LastScan ==
  ASSUME NEW bars \in Series
  PROVE  \E f : Late(f, bars, 0)
<1> DEFINE L == Len(bars)
           f == [i \in L + 1 .. L + 1 |-> <<>>]
<1>1. L \in Nat
  BY DEF Series
<1>2. \A i \in L + 1 .. L + 1 : i = L + 1 /\ i > L - Hold /\ f[i] = <<>>
  BY <1>1, Holding
<1>3. \A i \in L + 1 .. L + 1 : Scan(bars, f, i) = <<>>
  BY <1>2 DEF Scan
<1>4. f = [i \in L + 1 .. L + 1 |-> Scan(bars, f, i)]
  BY <1>3
<1>5. L + 1 - 0 = L + 1
  BY <1>1
<1>6. <<>> \in Seq(Trips)
  OBVIOUS
<1> HIDE DEF f
<1> QED
  BY <1>2, <1>4, <1>5, <1>6 DEF Late, Scans

LEMMA EarlierScan ==
  ASSUME NEW bars \in Series, NEW n \in 1 .. Len(bars), NEW g, Late(g, bars, n - 1)
  PROVE  \E f : Late(f, bars, n)
<1> DEFINE L == Len(bars)
           k == L + 1 - n
           h == [i \in k .. L + 1 |-> IF i = k THEN Scan(bars, g, k) ELSE g[i]]
<1>1. L \in Nat /\ n \in Nat
  BY DEF Series
<1>2. /\ k \in 1 .. L + 1 /\ L + 1 - (n - 1) = k + 1 /\ k \in k .. L + 1
      /\ \A i \in k .. L + 1 : i \in 1 .. L + 1 /\ (i = k \/ i \in k + 1 .. L + 1)
      /\ \A i \in k .. L + 1 : \A j \in i + 1 .. L + 1 : j \in k + 1 .. L + 1
      /\ \A i \in k + 1 .. L + 1 : i \in k .. L + 1 /\ i # k
  BY <1>1
<1>3. h = [i \in k .. L + 1 |-> h[i]]
  OBVIOUS
<1>4. h[k] = Scan(bars, g, k) /\ \A i \in k + 1 .. L + 1 : h[i] = g[i]
  BY <1>2
<1> HIDE DEF L, k, h
<1>5. /\ g = [i \in k + 1 .. L + 1 |-> Scan(bars, g, i)]
      /\ \A i \in k + 1 .. L + 1 : g[i] \in Seq(Trips)
  BY <1>2 DEF Late, Scans, L, k
<1>6. ASSUME NEW i \in k .. L + 1 PROVE h[i] = Scan(bars, h, i) /\ h[i] \in Seq(Trips)
  <2>1. i \in 1 .. L + 1 /\ \A j \in i + 1 .. L + 1 : h[j] = g[j] /\ g[j] \in Seq(Trips)
    BY <1>2, <1>4, <1>5
  <2>2. Scan(bars, h, i) = Scan(bars, g, i)
    BY <1>1, <2>1, ScansAgree DEF L
  <2>3. Scan(bars, g, i) \in Seq(Trips)
    BY <2>1, ScanType DEF L
  <2>4. h[i] = Scan(bars, g, i)
    <3>1. CASE i = k
      BY <1>4, <3>1
    <3>2. CASE i \in k + 1 .. L + 1
      BY <1>4, <1>5, <3>2
    <3> QED
      BY <1>2, <3>1, <3>2
  <2> QED
    BY <2>2, <2>3, <2>4
<1>7. h = [i \in k .. L + 1 |-> Scan(bars, h, i)]
  BY <1>3, <1>6
<1>8. Late(h, bars, n)
  BY <1>6, <1>7 DEF Late, Scans, L, k
<1> QED
  BY <1>8

LEMMA SyntheticAreTrips ==
  ASSUME NEW bars \in Series
  PROVE  Synthetic(bars) \in Seq(Trips)
<1> DEFINE L == Len(bars)
           Bad == {n \in Nat : n <= L /\ ~ \E f : Late(f, bars, n)}
<1>1. L \in Nat
  BY DEF Series
<1>2. Bad = {}
  <2> SUFFICES ASSUME Bad # {} PROVE FALSE
    OBVIOUS
  <2>1. Bad \in SUBSET Nat
    OBVIOUS
  <2>2. PICK n \in Bad : \A m \in Bad : n <= m
    BY <2>1, Smallest
  <2>3. n \in Nat /\ n <= L /\ n # 0
    BY <2>2, LastScan
  <2>4. n - 1 \in Nat /\ n - 1 <= L /\ n - 1 \notin Bad /\ n \in 1 .. L
    BY <1>1, <2>2, <2>3
  <2>5. PICK g : Late(g, bars, n - 1)
    BY <2>4
  <2> QED
    BY <2>2, <2>4, <2>5, EarlierScan
<1>3. PICK f : Late(f, bars, L)
  BY <1>1, <1>2
<1>4. L + 1 - L = 1 /\ 1 \in 1 .. L + 1
  BY <1>1
<1>5. Scans(Scanned(bars), bars, 1)
  BY <1>3, <1>4 DEF Late, Scanned
<1> DEFINE s == Scanned(bars)
<1>6. s = [i \in 1 .. L + 1 |-> Scan(bars, s, i)]
  BY <1>5 DEF Scans
<1>7. \A k \in Nat : k <= L => s[L + 1 - k] \in Seq(Trips)
  <2> DEFINE Untyped == {k \in Nat : k <= L /\ s[L + 1 - k] \notin Seq(Trips)}
  <2> SUFFICES ASSUME Untyped # {} PROVE FALSE
    OBVIOUS
  <2>1. Untyped \in SUBSET Nat
    OBVIOUS
  <2>2. PICK k \in Untyped : \A m \in Untyped : k <= m
    BY <2>1, Smallest
  <2> DEFINE i == L + 1 - k
  <2>3. k \in Nat /\ k <= L /\ s[i] \notin Seq(Trips) /\ i \in 1 .. L + 1
    BY <1>1, <2>2
  <2>4. ASSUME NEW j \in i + 1 .. L + 1 PROVE s[j] \in Seq(Trips)
    <3>1. L + 1 - j \in Nat /\ L + 1 - j <= L /\ ~(k <= L + 1 - j) /\ L + 1 - (L + 1 - j) = j
      BY <1>1, <2>3
    <3> QED
      BY <2>2, <3>1
  <2>5. s[i] = Scan(bars, s, i)
    BY <1>6, <2>3
  <2> QED
    BY <2>3, <2>4, <2>5, ScanType
<1>8. s[1] \in Seq(Trips)
  BY <1>1, <1>4, <1>7
<1> QED
  BY <1>8, SyntheticIs

(* The pairing finds in the rows of the trades of a backtest, and in those *)
(* of the synthetic trades, the profits they were recorded with            *)
(* (Recovered), whatever the bars are.                                     *)
THEOREM BacktestIsRecovered ==
  ASSUME NEW bars \in Series
  PROVE  Recovered(bars)
BY RoundTripsAreTrips, SyntheticAreTrips, TripsRecovered DEF Recovered

(* The ledgers the runs check are ledgers.                                 *)
LEMMA CheckedLedgersAreLedgers ==
  ASSUME NEW what \in [1 .. 4 -> What], NEW qty \in [1 .. 4 -> 1 .. 2]
  PROVE  Ledger(what, qty) \in Seq(LedgerRow)
<1> DEFINE w == Ledger(what, qty)
<1>1. \A x \in What : x[1] \in Kinds /\ x[2] \in Side
  BY DEF What, Kinds, Side
<1>2. ASSUME NEW i \in 1 .. 4 PROVE w[i] \in LedgerRow
  <2> DEFINE kind == what[i][1]
             side == what[i][2]
             n == qty[i]
             t == i * i
             p == i * i * i
  <2>1. kind \in Kinds /\ side \in Side /\ n \in Nat \ {0} /\ t \in Int /\ p \in Int /\ 0 \in Int
    BY <1>1
  <2>2. w[i] = [kind |-> kind, side |-> side, qty |-> n, ts |-> t, price |-> p, pnl |-> 0]
    BY DEF Ledger
  <2> HIDE DEF kind, side, n, t, p, w
  <2> QED
    <3>1. LedgerRow = [kind : Kinds, side : Side, qty : Nat \ {0}, ts : Int, price : Int, pnl : Int]
      BY DEF LedgerRow
    <3>2. [kind |-> kind, side |-> side, qty |-> n, ts |-> t, price |-> p, pnl |-> 0]
            \in [kind : Kinds, side : Side, qty : Nat \ {0}, ts : Int, price : Int, pnl : Int]
      BY <2>1, Zenon
    <3> QED
      BY <2>2, <3>1, <3>2
<1>3. w = [i \in 1 .. 4 |-> w[i]]
  BY DEF Ledger
<1> HIDE DEF w
<1>4. w \in Seq(LedgerRow)
  BY <1>2, <1>3
<1> QED
  BY <1>4 DEF w

(* Whenever a batch is scored, its profits are paired first in, first out, *)
(* and are those of the trades that were simulated (FifoPairing).          *)
THEOREM ProfitsArePairedFifo == Spec => []FifoPairing
<1>1. LedgersFifo
  BY CheckedLedgersAreLedgers, PairingIsFifo DEF LedgersFifo
<1>2. BarsRecovered
  BY CheckedBarsAreBars, BacktestIsRecovered DEF BarsRecovered, AllBars
<1>3. FifoPairing
  BY <1>1, <1>2 DEF FifoPairing
<1> QED
  BY <1>3, PTL
=============================================================================
