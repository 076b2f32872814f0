-------------------------- MODULE DemoProbationProofs --------------------------
(***************************************************************************)
(* Theorems about DemoProbation, for any configurations and any number of  *)
(* re-initialisations: which configurations trade, and from what account a *)
(* re-initialisation is signalled.                                         *)
(***************************************************************************)
EXTENDS DemoProbation, TLAPS

Jobs == [at : At, cfg : MaybeConfig, verdict : {"none", "PASSED", "FAILED"}]
Rows == {"none", "DEMO_PROBATION", "PASSED", "FAILED"}
Words == {"none", "poor", "good", "damning"}

Registry ==
  /\ active \in MaybeConfig
  /\ source \in [Config -> {"none", "bootstrap", "warm_start", "optimizer"}]
  /\ rejected \subseteq Config

Records ==
  /\ row \in [Config -> Rows] /\ evidence \in [Config -> Words]
  /\ killWindow \in BOOLEAN /\ blocked \in BOOLEAN /\ many \in BOOLEAN
  /\ best \in MaybeConfig

Process ==
  /\ cfg \in MaybeConfig /\ running \in BOOLEAN /\ reinit \in BOOLEAN
  /\ phase \in {"init", "seeded", "fallback", "boot", "running", "stopped"}
  /\ exposure \in {"flat", "long", "short"}

Judges ==
  /\ job \in [Judge -> Jobs]
  /\ \A t \in Judge : job[t].at \in {"apply", "reject"} =>
       job[t].verdict # "none" /\ job[t].cfg \in Config

(* TypeOK, and what is applied is a verdict about a configuration.         *)
TypeInv == Registry /\ Records /\ Process /\ Judges

(* The configuration the bot trades is the active one, or none is active   *)
(* any more; a seed is on record from its registration on.                 *)
Vetted ==
  /\ phase \in {"init", "boot", "stopped"} => cfg = NoConfig
  /\ phase \in {"seeded", "fallback"} => cfg # NoConfig
  /\ phase = "running" => cfg # NoConfig /\ active \in {cfg, NoConfig}
  /\ \A c \in Config :
       /\ c \in {active, cfg} => source[c] \in {"bootstrap", "warm_start"}
       /\ source[c] = "warm_start" =>
            row[c] # "none" \/ (c = cfg /\ phase \in {"seeded", "fallback"})
  /\ job["loop"].at # "idle" => phase = "running"
  /\ NeverUnvetted

(* With no judge in the bot but its loop: the request for a                *)
(* re-initialisation is the loop's last step, from a flat account.         *)
Requested ==
  /\ job["stream"].at = "idle"
  /\ job["timer"].at \in {"idle", "apply", "reject", "end"}
  /\ reinit => job["loop"].at = "exit" /\ (RequireFlat => exposure = "flat")

----------------------------------------------------------------------------
LEMMA PartsAreType == TypeInv => TypeOK
BY DEF TypeInv, Registry, Records, Process, Judges, Jobs, Rows, Words, TypeOK

LEMMA NoJobType == NoJob \in Jobs
BY DEF NoJob, Jobs, At, MaybeConfig

(* What the two ways of writing a judge's place leave.                     *)
LEMMA GotoJobs ==
  ASSUME Judges, NEW t \in Judge, NEW at \in At \ {"apply", "reject"}, Goto(t, at)
  PROVE  /\ Judges'
         /\ job'[t].at = at
         /\ \A u \in Judge \ {t} : job'[u] = job[u]
<1>1. [NoJob EXCEPT !.at = at] \in Jobs /\ [NoJob EXCEPT !.at = at].at = at
  BY DEF NoJob, Jobs, MaybeConfig
<1> QED
  BY <1>1 DEF Goto, Judges

LEMMA VerdictType ==
  ASSUME TypeInv
  PROVE  Verdict \in {"none", "PASSED", "FAILED"} /\ (Verdict # "none" => active \in Config)
BY DEF Verdict, Candidate, TypeInv, Registry, MaybeConfig

LEMMA JudgedJobs ==
  ASSUME TypeInv, NEW t \in Judge, Verdict # "none", Judged(t)
  PROVE  /\ Judges'
         /\ job'[t].at = "apply"
         /\ \A u \in Judge \ {t} : job'[u] = job[u]
BY VerdictType DEF Judged, Judges, TypeInv, Registry, Jobs, At

LEMMA AdvanceJobs ==
  ASSUME Judges, NEW t \in Judge, NEW at \in At,
         at \in {"apply", "reject"} => job[t].verdict # "none" /\ job[t].cfg \in Config,
         job' = [job EXCEPT ![t].at = at]
  PROVE  /\ Judges'
         /\ job'[t].at = at
         /\ \A u \in Judge \ {t} : job'[u] = job[u]
BY DEF Judges, Jobs

LEMMA NewConfigType ==
  ASSUME TypeInv, NEW c, NEW from \in {"bootstrap", "warm_start", "optimizer"},
         NewConfig(c, from)
  PROVE  /\ c \in Config /\ Registry'
         /\ row' \in [Config -> Rows] /\ evidence' \in [Config -> Words]
<1>1. c \in Config
  BY DEF NewConfig, Fresh
<1>2. Registry'
  BY <1>1 DEF NewConfig, Cleared, TypeInv, Registry, MaybeConfig
<1>3. row' \in [Config -> Rows] /\ evidence' \in [Config -> Words]
  BY DEF NewConfig, Cleared, TypeInv, Records, Rows, Words
<1> QED
  BY <1>1, <1>2, <1>3

LEMMA InitType == Init => TypeInv
<1> SUFFICES ASSUME Init PROVE TypeInv
  OBVIOUS
<1>1. Registry /\ Records /\ Process
  BY DEF Init, Registry, Records, Process, MaybeConfig, Rows, Words
<1>2. Judges
  BY NoJobType DEF Init, Judges, NoJob
<1> QED
  BY <1>1, <1>2 DEF TypeInv

LEMMA TypeStep == TypeInv /\ [Next]_vars => TypeInv'
<1> SUFFICES ASSUME TypeInv, [Next]_vars PROVE TypeInv'
  OBVIOUS
<1> USE DEF registry, records, process
<1>0. CASE UNCHANGED vars
  BY <1>0 DEF vars, TypeInv, Registry, Records, Process, Judges
<1>1. CASE InitSkip \/ InitRegister \/ InitFails \/ Restart \/ Signal \/ PositionEnds \/ WindowPasses
  <2>1. Registry' /\ Judges'
    BY <1>1 DEF InitSkip, InitRegister, InitFails, Restart, Signal, PositionEnds, WindowPasses,
       TypeInv, Registry, Judges
  <2>2. Records'
    BY <1>1 DEF InitSkip, InitRegister, InitFails, Restart, Signal, PositionEnds, WindowPasses,
       TypeInv, Records, Rows, Words
  <2>3. Process'
    BY <1>1 DEF InitSkip, InitRegister, InitFails, Restart, Signal, PositionEnds, WindowPasses,
       TypeInv, Process, MaybeConfig
  <2> QED
    BY <2>1, <2>2, <2>3 DEF TypeInv
<1>2. CASE \E c \in Config, found \in {"seeded", "fallback"} : InitSeed(c, found)
  <2>1. PICK c \in Config, found \in {"seeded", "fallback"} : InitSeed(c, found)
    BY <1>2
  <2>2. Registry' /\ Records'
    BY <2>1, NewConfigType DEF InitSeed, TypeInv, Records
  <2> QED
    BY <2>1, <2>2 DEF InitSeed, TypeInv, Process, Judges, MaybeConfig
<1>3. CASE Boot
  <2>1. Judges'
    BY <1>3, GotoJobs DEF Boot, TypeInv, Judge, At
  <2>2. /\ Registry' /\ cfg' \in MaybeConfig
        /\ row' \in [Config -> Rows] /\ evidence' \in [Config -> Words]
    <3>1. CASE active = NoConfig
      BY <1>3, <3>1, NewConfigType DEF Boot, MaybeConfig
    <3>2. CASE active # NoConfig
      BY <1>3, <3>2 DEF Boot, TypeInv, Registry, Records
    <3> QED
      BY <3>1, <3>2
  <2> QED
    BY <1>3, <2>1, <2>2 DEF Boot, TypeInv, Records, Process
<1>4. CASE LoopNext \/ LoopEnters \/ StreamCheck
  <2>1. CASE \/ LoopCheck \/ LoopGuard \/ LoopGoesOn \/ LoopKillCheck \/ LoopEnters
             \/ LoopCycleEnds \/ StreamCheck
    <3>1. Judges'
      BY <2>1, GotoJobs, JudgedJobs, VerdictType DEF LoopCheck, LoopGuard, LoopGoesOn,
         LoopKillCheck, LoopEnters, LoopCycleEnds, StreamCheck, TypeInv, Judges, Judge, At
    <3>2. Registry' /\ Records'
      BY <2>1 DEF LoopCheck, LoopGuard, LoopGoesOn, LoopKillCheck, LoopEnters, LoopCycleEnds,
         StreamCheck, TypeInv, Registry, Records
    <3>3. Process'
      BY <2>1 DEF LoopCheck, LoopGuard, LoopGoesOn, LoopKillCheck, LoopEnters, LoopCycleEnds,
         StreamCheck, TypeInv, Process
    <3> QED
      BY <3>1, <3>2, <3>3 DEF TypeInv
  <2>2. CASE LoopKillSwitch
    <3>1. Judges'
      BY <2>2, GotoJobs DEF LoopKillSwitch, TypeInv, Judge, At
    <3> QED
      BY <2>2, <3>1 DEF LoopKillSwitch, TypeInv, Registry, Records, Process, Words
  <2>3. CASE Exit
    <3>1. Leave("init") \/ Leave("stopped")
      BY <2>3 DEF Exit
    <3>2. Judges'
      BY <3>1, NoJobType DEF Leave, TypeInv, Judges, NoJob, Judge
    <3> QED
      BY <3>1, <3>2 DEF Leave, TypeInv, Registry, Records, Process, MaybeConfig
  <2> QED
    BY <1>4, <2>1, <2>2, <2>3 DEF LoopNext
<1>5. ASSUME NEW t \in Judge, StopNext(t) PROVE TypeInv'
  <2>1. CASE Apply(t)
    <3>1. job[t].verdict \in {"PASSED", "FAILED"} /\ job[t].cfg \in Config
      BY <2>1 DEF Apply, TypeInv, Judges, Jobs
    <3>2. row' \in [Config -> Rows]
      BY <2>1, <3>1 DEF Apply, TypeInv, Records, Rows
    <3>3. Judges'
      BY <2>1, <3>1, AdvanceJobs DEF Apply, TypeInv, At
    <3> QED
      BY <2>1, <3>2, <3>3 DEF Apply, TypeInv, Registry, Records, Process
  <2>2. CASE Reject(t)
    <3>1. Judges'
      BY <2>2, GotoJobs DEF Reject, TypeInv, At
    <3>2. Registry'
      <4>1. job[t].cfg \in Config
        BY <2>2 DEF Reject, TypeInv, Judges
      <4> QED
        BY <2>2, <4>1 DEF Reject, TypeInv, Registry, MaybeConfig
    <3> QED
      BY <2>2, <3>1, <3>2 DEF Reject, TypeInv, Records, Process
  <2>3. CASE Flatten(t)
    <3>1. Judges'
      BY <2>3, GotoJobs DEF Flatten, TypeInv, At
    <3> QED
      BY <2>3, <3>1 DEF Flatten, TypeInv, Registry, Records, Process
  <2>4. CASE Confirm(t) \/ GiveUp(t)
    <3>1. \E again \in BOOLEAN : Stops(t, again)
      BY <2>4, ProbationAssumption DEF Confirm, GiveUp
    <3>2. Judges'
      BY <3>1, GotoJobs DEF Stops, TypeInv, At
    <3> QED
      BY <3>1, <3>2 DEF Stops, TypeInv, Registry, Records, Process
  <2> QED
    BY <1>5, <2>1, <2>2, <2>3, <2>4 DEF StopNext
<1>6. CASE TimerNext
  <2>1. CASE TimerStart \/ TimerEnd
    <3>1. Judges'
      BY <2>1, GotoJobs, JudgedJobs DEF TimerStart, TimerEnd, TypeInv, Judges, Judge, At
    <3> QED
      BY <2>1, <3>1 DEF TimerStart, TimerEnd, TypeInv, Registry, Records, Process
  <2>2. CASE \E c \in Config : TimerAdopts(c)
    <3>1. PICK c \in Config : TimerAdopts(c)
      BY <2>2
    <3>2. Judges'
      BY <3>1, GotoJobs DEF TimerAdopts, TypeInv, Judge, At
    <3>3. Registry' /\ row' \in [Config -> Rows] /\ evidence' \in [Config -> Words]
      <4>1. CASE c = best
        BY <3>1, <4>1 DEF TimerAdopts, TypeInv, Registry, Records, MaybeConfig
      <4>2. CASE c # best
        BY <3>1, <4>2, NewConfigType DEF TimerAdopts
      <4> QED
        BY <4>1, <4>2
    <3> QED
      BY <3>1, <3>2, <3>3 DEF TimerAdopts, TypeInv, Records, Process, MaybeConfig
  <2> QED
    BY <1>6, <2>1, <2>2 DEF TimerNext
<1>7. CASE \E what \in {"poor", "good", "damning"} : Trade(what)
  BY <1>7 DEF Trade, TypeInv, Registry, Records, Process, Judges, Words
<1>8. CASE Crash
  <2>1. Judges'
    BY <1>8, NoJobType DEF Crash, Leave, TypeInv, Judges, NoJob, Judge
  <2> QED
    BY <1>8, <2>1 DEF Crash, Leave, TypeInv, Registry, Records, Process, MaybeConfig
<1> QED
  BY <1>0, <1>1, <1>2, <1>3, <1>4, <1>5, <1>6, <1>7, <1>8 DEF Next, InitNext

LEMMA Typed == Spec => []TypeInv
BY InitType, TypeStep, PTL DEF Spec

(* Types are preserved by every step, whoever judges, adopts or crashes.   *)
THEOREM TypeCorrect == Spec => []TypeOK
BY Typed, PartsAreType, PTL

----------------------------------------------------------------------------
(* A configuration that was put on record stays there while it is traded.  *)
LEMMA VettedStep ==
  ASSUME ~Adopt, ~Crashes, TypeInv, Vetted, [Next]_vars
  PROVE  Vetted'
<1> USE DEF registry, records, process
<1>0. CASE UNCHANGED <<active, source, row, phase, cfg, job>>
  BY <1>0 DEF Vetted, NeverUnvetted
<1>1. CASE InitSkip \/ InitFails \/ Restart
  BY <1>1 DEF InitSkip, InitFails, Restart, Vetted, NeverUnvetted
<1>2. CASE \E c \in Config, found \in {"seeded", "fallback"} : InitSeed(c, found)
  <2>1. PICK c \in Config, found \in {"seeded", "fallback"} : InitSeed(c, found)
    BY <1>2
  <2>2. /\ active' = c /\ cfg' = c /\ phase' = found /\ phase = "init" /\ job' = job
        /\ source' = [Cleared(source) EXCEPT ![c] = "warm_start"] /\ row' = Cleared(row)
    BY <2>1 DEF InitSeed, NewConfig
  <2>3. source'[c] = "warm_start"
    BY <2>2 DEF Cleared
  <2>4. ASSUME NEW d \in Config \ {c}, source'[d] = "warm_start" PROVE row'[d] # "none"
    BY <2>2, <2>4 DEF Cleared, Vetted
  <2> QED
    BY <2>2, <2>3, <2>4, ProbationAssumption DEF Vetted, NeverUnvetted
<1>3. CASE InitRegister
  <2>1. /\ phase \in {"seeded", "fallback"} /\ phase' \in {"boot", "init"} /\ cfg' = NoConfig
        /\ row' = [row EXCEPT ![cfg] = "DEMO_PROBATION"]
        /\ active' = active /\ source' = source /\ job' = job
    BY <1>3 DEF InitRegister
  <2> QED
    BY <2>1, ProbationAssumption DEF Vetted, NeverUnvetted, TypeInv, Records, Process, MaybeConfig
<1>4. CASE Boot
  <2>1. phase = "boot" /\ phase' = "running" /\ job'["loop"].at = "top"
    BY <1>4, GotoJobs DEF Boot, TypeInv, Judge, At
  <2>2. CASE active = NoConfig
    <3>1. PICK c \in Fresh : NewConfig(c, "bootstrap") /\ cfg' = c
      BY <1>4, <2>2 DEF Boot
    <3>2. /\ c \in Config /\ active' = c /\ row' = Cleared(row)
          /\ source' = [Cleared(source) EXCEPT ![c] = "bootstrap"]
      BY <3>1, NewConfigType DEF NewConfig
    <3>3. source'[c] = "bootstrap"
      BY <3>2 DEF Cleared
    <3>4. ASSUME NEW d \in Config \ {c}, source'[d] = "warm_start" PROVE row'[d] # "none"
      BY <2>1, <3>2, <3>4 DEF Cleared, Vetted
    <3> QED
      BY <2>1, <3>1, <3>2, <3>3, <3>4, ProbationAssumption DEF Vetted, NeverUnvetted
  <2>3. CASE active # NoConfig
    BY <1>4, <2>1, <2>3 DEF Boot, Vetted, NeverUnvetted
  <2> QED
    BY <2>2, <2>3
<1>5. CASE LoopGoesOn
  <2>1. /\ job["loop"].at = "guard" /\ ~GuardTriggers
        /\ UNCHANGED <<active, source, row, phase, cfg>>
    BY <1>5 DEF LoopGoesOn
  <2>2. phase = "running" /\ cfg \in Config
    BY <2>1 DEF Vetted, TypeInv, Process, MaybeConfig
  <2>3. row[cfg] # "none"
    BY <2>1, <2>2 DEF GuardTriggers, Candidate, Vetted
  <2> QED
    BY <2>1, <2>2, <2>3 DEF Vetted, NeverUnvetted
<1>6. CASE Exit
  <2>1. phase' \in {"init", "stopped"} /\ cfg' = NoConfig /\ job'["loop"] = NoJob
    BY <1>6 DEF Exit, Leave, TypeInv, Judges, Judge
  <2>2. phase = "running" /\ UNCHANGED <<active, source, row>>
    BY <1>6 DEF Exit, Leave, Vetted
  <2> QED
    BY <2>1, <2>2, ProbationAssumption DEF Vetted, NeverUnvetted, NoJob
<1>7. CASE \/ LoopCheck \/ LoopGuard \/ LoopKillSwitch \/ LoopKillCheck \/ LoopCycleEnds
  <2>1. /\ job["loop"].at # "idle" /\ job'["loop"].at # "enter"
        /\ UNCHANGED <<active, source, row, phase, cfg>>
    BY <1>7, GotoJobs, JudgedJobs DEF LoopCheck, LoopGuard, LoopKillSwitch, LoopKillCheck,
       LoopCycleEnds, TypeInv, Judge, At
  <2> QED
    BY <2>1 DEF Vetted, NeverUnvetted
<1>8. CASE StreamCheck \/ TimerStart \/ TimerEnd
  <2>1. job'["loop"] = job["loop"] /\ UNCHANGED <<active, source, row, phase, cfg>>
    BY <1>8, GotoJobs, JudgedJobs DEF StreamCheck, TimerStart, TimerEnd, TypeInv, Judge, At
  <2> QED
    BY <2>1 DEF Vetted, NeverUnvetted
<1>9. ASSUME NEW t \in Judge, StopNext(t) PROVE Vetted'
  <2>1. /\ job["loop"].at # job'["loop"].at => job["loop"].at # "idle" /\ job'["loop"].at # "enter"
        /\ source' = source /\ phase' = phase /\ cfg' = cfg
    <3>1. job[t].at # "idle"
      BY <1>9 DEF StopNext, Apply, Reject, Flatten, Confirm, GiveUp
    <3>2. /\ job'[t].at # "enter" /\ \A u \in Judge \ {t} : job'[u] = job[u]
          /\ source' = source /\ phase' = phase /\ cfg' = cfg
      <4>1. CASE Apply(t)
        BY <4>1, AdvanceJobs DEF Apply, TypeInv, Judges, At
      <4>2. CASE Reject(t) \/ Flatten(t) \/ Confirm(t) \/ GiveUp(t)
        BY <4>2, GotoJobs DEF Reject, Flatten, Confirm, GiveUp, Stops, TypeInv, At
      <4> QED
        BY <1>9, <4>1, <4>2 DEF StopNext
    <3> QED
      BY <3>1, <3>2 DEF Judge
  <2>2. /\ active' \in {active, NoConfig}
        /\ \A c \in Config : row[c] # "none" => row'[c] # "none"
    <3>1. CASE Apply(t)
      BY <3>1 DEF Apply, TypeInv, Judges, Records
    <3>2. CASE Reject(t) \/ Flatten(t) \/ Confirm(t) \/ GiveUp(t)
      BY <3>2 DEF Reject, Flatten, Confirm, GiveUp, Stops
    <3> QED
      BY <1>9, <3>1, <3>2 DEF StopNext
  <2>3. phase = "running" => cfg \in Config
    BY DEF Vetted, TypeInv, Process, MaybeConfig
  <2>4. NeverUnvetted'
    BY <2>1, <2>2, <2>3 DEF Vetted, NeverUnvetted
  <2> QED
    BY <2>1, <2>2, <2>4, ProbationAssumption DEF Vetted
<1> QED
  BY <1>0, <1>1, <1>2, <1>3, <1>4, <1>5, <1>6, <1>7, <1>8, <1>9
  DEF vars, Next, InitNext, LoopNext, LoopEnters, TimerNext, TimerAdopts, Trade,
     PositionEnds, WindowPasses, Signal, Crash

(* No order is placed under a configuration that was never on probation:   *)
(* whichever judges there are, as long as the timer adopts no candidate    *)
(* and demo init is not killed between its two writes.                     *)
THEOREM TradesAreVetted ==
  ASSUME ~Adopt, ~Crashes
  PROVE  Spec => []NeverUnvetted
<1>1. Init => Vetted
  BY ProbationAssumption DEF Init, Vetted, NeverUnvetted, NoJob, Judge
<1>2. TypeInv /\ Vetted /\ [Next]_vars => Vetted'
  BY VettedStep
<1>3. Vetted => NeverUnvetted
  BY DEF Vetted
<1> QED
  BY <1>1, <1>2, <1>3, Typed, PTL DEF Spec

----------------------------------------------------------------------------
(* The loop alone asks for a re-initialisation, and does nothing after.    *)
LEMMA RequestedStep ==
  ASSUME ~Stream, TypeInv, Requested, [Next]_vars
  PROVE  Requested'
<1> USE DEF registry, records, process
<1>0. CASE UNCHANGED <<reinit, exposure, job>>
  BY <1>0 DEF Requested
<1>1. CASE Boot
  <2>1. reinit' = FALSE /\ job'["stream"] = job["stream"] /\ job'["timer"] = job["timer"]
    BY <1>1, GotoJobs DEF Boot, TypeInv, Judge, At
  <2> QED
    BY <2>1 DEF Requested
<1>2. CASE \/ LoopCheck \/ LoopGuard \/ LoopGoesOn \/ LoopKillSwitch \/ LoopKillCheck
           \/ LoopEnters \/ LoopCycleEnds
  <2>1. /\ job["loop"].at # "exit" /\ (reinit' => reinit)
        /\ job'["stream"] = job["stream"] /\ job'["timer"] = job["timer"]
    BY <1>2, GotoJobs, JudgedJobs DEF LoopCheck, LoopGuard, LoopGoesOn, LoopKillSwitch,
       LoopKillCheck, LoopEnters, LoopCycleEnds, TypeInv, Judge, At
  <2> QED
    BY <2>1 DEF Requested
<1>3. CASE Exit \/ Crash
  <2>1. reinit' = FALSE /\ job'["stream"] = NoJob /\ job'["timer"] = job["timer"]
    BY <1>3 DEF Exit, Crash, Leave, TypeInv, Judges, Judge
  <2> QED
    BY <2>1 DEF Requested, NoJob
<1>4. CASE TimerNext
  <2>1. /\ job'["timer"].at \in {"idle", "apply", "end"} /\ reinit' = reinit /\ exposure' = exposure
        /\ job'["loop"] = job["loop"] /\ job'["stream"] = job["stream"]
    <3>1. CASE TimerStart \/ TimerEnd
      BY <3>1, GotoJobs, JudgedJobs DEF TimerStart, TimerEnd, TypeInv, Judge, At, Requested
    <3>2. CASE \E c \in Config : TimerAdopts(c)
      BY <3>2, GotoJobs DEF TimerAdopts, TypeInv, Judge, At
    <3> QED
      BY <1>4, <3>1, <3>2 DEF TimerNext
  <2> QED
    BY <2>1 DEF Requested
<1>5. CASE StopNext("timer")
  <2>1. /\ job'["timer"].at \in {"reject", "end"} /\ reinit' = reinit /\ exposure' = exposure
        /\ job'["loop"] = job["loop"] /\ job'["stream"] = job["stream"]
    BY <1>5, GotoJobs, AdvanceJobs DEF StopNext, Apply, Reject, Flatten, Confirm, GiveUp,
       Requested, TypeInv, Judges, Judge, At
  <2> QED
    BY <2>1 DEF Requested
<1>6. CASE StopNext("loop")
  <2>1. job["loop"].at # "exit" /\ job'["stream"] = job["stream"] /\ job'["timer"] = job["timer"]
    BY <1>6, GotoJobs, AdvanceJobs DEF StopNext, Apply, Reject, Flatten, Confirm, GiveUp, Stops,
       TypeInv, Judges, Judge, At
  <2>2. CASE Apply("loop") \/ Reject("loop") \/ Flatten("loop")
    BY <2>1, <2>2 DEF Apply, Reject, Flatten, Requested
  <2>3. CASE Confirm("loop") \/ GiveUp("loop")
    <3>1. /\ job'["loop"].at = "exit" /\ exposure' = exposure
          /\ reinit' => (RequireFlat => exposure = "flat")
      BY <2>3, GotoJobs, ProbationAssumption DEF Confirm, GiveUp, Stops, TypeInv, Judge, At
    <3> QED
      BY <2>1, <3>1 DEF Requested
  <2> QED
    BY <1>6, <2>2, <2>3 DEF StopNext
<1>7. CASE PositionEnds
  BY <1>7 DEF PositionEnds, Requested
<1>8. ~StreamCheck /\ ~StopNext("stream")
  BY DEF StreamCheck, StopNext, Apply, Reject, Flatten, Confirm, GiveUp, Requested
<1> QED
  BY <1>0, <1>1, <1>2, <1>3, <1>4, <1>5, <1>6, <1>7, <1>8
  DEF vars, Next, InitNext, InitSkip, InitSeed, InitRegister, InitFails, LoopNext, Judge,
     Trade, WindowPasses, Signal, Restart

(* A re-initialisation is signalled only from a flat account, when the     *)
(* scoring loop is the bot's only judge: whatever the timer judges and     *)
(* adopts, and whoever crashes.                                            *)
THEOREM ReinitIsFlat ==
  ASSUME ~Stream
  PROVE  Spec => ReinitOnlyFlat
<1> DEFINE Step == phase = "running" /\ phase' = "init" /\ RequireFlat => exposure = "flat"
<1>1. Init => Requested
  BY DEF Init, Requested, NoJob, Judge
<1>2. TypeInv /\ Requested /\ [Next]_vars => Requested'
  BY RequestedStep
<1>3. TypeInv /\ Requested /\ [Next]_vars => [Step]_vars
  <2> SUFFICES ASSUME Requested, Next, phase = "running", phase' = "init", RequireFlat
               PROVE  exposure = "flat"
    BY DEF Step
  <2>1. CASE Exit
    BY <2>1 DEF Exit, Leave, Requested
  <2>2. CASE ~Exit
    BY <2>2 DEF Next, InitNext, InitSkip, InitSeed, InitRegister, InitFails, Boot, LoopNext,
       LoopCheck, LoopGuard, LoopGoesOn, LoopKillSwitch, LoopKillCheck, LoopCycleEnds,
       LoopEnters, StreamCheck, StopNext, Apply, Reject, Flatten, Confirm, GiveUp, Stops,
       TimerNext, TimerStart, TimerEnd, TimerAdopts, Trade, PositionEnds, WindowPasses,
       Signal, Crash, Leave, Restart, process
  <2> QED
    BY <2>1, <2>2
<1> QED
  BY <1>1, <1>2, <1>3, Typed, PTL DEF Spec, ReinitOnlyFlat, Step
==============================================================================
