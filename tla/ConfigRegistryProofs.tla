----------------------- MODULE ConfigRegistryProofs -----------------------
(***************************************************************************)
(* Proofs about ConfigRegistry for any number of configurations and        *)
(* processes.                                                              *)
(***************************************************************************)
EXTENDS ConfigRegistry, TLAPS

(***************************************************************************)
(* Every state is well typed: a status is one of the seven the code knows  *)
(* (or no row), and a pending call carries rows or "no row".               *)
(***************************************************************************)
LEMMA TypeStep == TypeOK /\ [Next]_vars => TypeOK'
<1> SUFFICES ASSUME TypeOK, [Next]_vars PROVE TypeOK'
  OBVIOUS
<1>0. orderly' \in BOOLEAN
  BY DEF TypeOK, Next, ProcNext, vars
<1> USE <1>0, RegistryAssumption
    DEF TypeOK, Status, CallAt, MaybeConfig, Idle, NoEvent
<1>1. ASSUME NEW p \in Proc, NEW c \in Config, Register(p, c) PROVE TypeOK'
  BY <1>1 DEF Register
<1>2. ASSUME NEW p \in Proc, BootstrapRead(p) PROVE TypeOK'
  BY <1>2 DEF BootstrapRead, Enter
<1>3. ASSUME NEW p \in Proc, BootstrapInsert(p) PROVE TypeOK'
  BY <1>3 DEF BootstrapInsert, Return
<1>4. ASSUME NEW p \in Proc, NEW c \in Config, ActivateRead(p, c) PROVE TypeOK'
  BY <1>4 DEF ActivateRead, Enter, ActiveChoice, ActiveSet
<1>5. ASSUME NEW p \in Proc, ActivateCommit(p) PROVE TypeOK'
  BY <1>5 DEF ActivateCommit, Return
<1>6. ASSUME NEW p \in Proc, ActivateRecord(p) PROVE TypeOK'
  BY <1>6 DEF ActivateRecord, Return
<1>7. ASSUME NEW p \in Proc, NEW c \in Config, Stage(p, c) PROVE TypeOK'
  BY <1>7 DEF Stage, SetStatus
<1>8. ASSUME NEW p \in Proc, NEW c \in Config, Reject(p, c) PROVE TypeOK'
  BY <1>8 DEF Reject, SetStatus
<1>9. ASSUME NEW p \in Proc, RollbackRead(p) PROVE TypeOK'
  BY <1>9 DEF RollbackRead, Enter
<1>10. ASSUME NEW p \in Proc, RollbackCommit(p) PROVE TypeOK'
  BY <1>10 DEF RollbackCommit, Return
<1>11. ASSUME NEW p \in Proc, NEW c \in Config, RollbackToRead(p, c)
       PROVE TypeOK'
  BY <1>11 DEF RollbackToRead, Enter, ActiveSet
<1>12. ASSUME NEW p \in Proc, RollbackToCommit(p) PROVE TypeOK'
  BY <1>12 DEF RollbackToCommit, Return
<1>13. ASSUME NEW p \in Proc, Crash(p) PROVE TypeOK'
  BY <1>13 DEF Crash, Return
<1>14. CASE UNCHANGED vars
  BY <1>14 DEF vars
<1>15. QED
  BY <1>1, <1>2, <1>3, <1>4, <1>5, <1>6, <1>7, <1>8, <1>9, <1>10, <1>11,
     <1>12, <1>13, <1>14 DEF Next, ProcNext, Workflow, Beyond

THEOREM TypeCorrect == Spec => []TypeOK
<1>1. Init => TypeOK
  BY RegistryAssumption
     DEF Init, TypeOK, Status, CallAt, MaybeConfig, Idle, NoEvent
<1>2. QED
  BY <1>1, TypeStep, PTL DEF Spec

(***************************************************************************)
(* When nobody rolls back and no bot bootstraps a configuration, at most   *)
(* one row is active, whatever the interleaving of the processes and       *)
(* wherever they are killed: activation demotes every active row in the    *)
(* transaction that promotes the new one.                                  *)
(***************************************************************************)
THEOREM ActivationKeepsSingleActive ==
  ASSUME Ops \cap {"bootstrap", "rollback", "rollback_to"} = {}
  PROVE  Spec => []SingleActive
<1> DEFINE Safe == /\ TypeOK
                   /\ SingleActive
                   /\ \A p \in Proc : call[p].at \in {"idle", "activate", "record"}
<1>1. Init => Safe
  BY RegistryAssumption DEF Init, TypeOK, Status, CallAt, MaybeConfig, Idle,
     NoEvent, SingleActive, ActiveSet
<1>2. Safe /\ [Next]_vars => Safe'
  <2> SUFFICES ASSUME Safe, [Next]_vars PROVE Safe'
    OBVIOUS
  <2>0. TypeOK'
    BY TypeStep
  <2> USE <2>0 DEF TypeOK, SingleActive, ActiveSet, Idle
  <2>1. ASSUME NEW p \in Proc, NEW c \in Config, Register(p, c) PROVE Safe'
    BY <2>1 DEF Register
  <2>2. ASSUME NEW p \in Proc, NEW c \in Config, ActivateRead(p, c) PROVE Safe'
    BY <2>2 DEF ActivateRead, Enter
  <2>3. ASSUME NEW p \in Proc, ActivateCommit(p) PROVE Safe'
    BY <2>3 DEF ActivateCommit, Return
  <2>4. ASSUME NEW p \in Proc, ActivateRecord(p) PROVE Safe'
    BY <2>4 DEF ActivateRecord, Return
  <2>5. ASSUME NEW p \in Proc, NEW c \in Config, Stage(p, c) \/ Reject(p, c)
        PROVE Safe'
    BY <2>5 DEF Stage, Reject, SetStatus
  <2>6. ASSUME NEW p \in Proc, Crash(p) PROVE Safe'
    BY <2>6 DEF Crash, Return
  <2>7. CASE UNCHANGED vars
    BY <2>7 DEF vars
  <2>8. QED
    BY <2>1, <2>2, <2>3, <2>4, <2>5, <2>6, <2>7
       DEF Next, ProcNext, Workflow, Beyond, BootstrapRead, BootstrapInsert,
           RollbackRead,
           RollbackCommit, RollbackToRead, RollbackToCommit
<1>3. Safe => SingleActive
  OBVIOUS
<1>4. QED
  BY <1>1, <1>2, <1>3, PTL DEF Spec

(***************************************************************************)
(* Flip-flop protection.  When the calls come one at a time (one process,  *)
(* which may be killed at any step), a rolled-back configuration becomes   *)
(* active again only through an explicit activation.                       *)
(*                                                                         *)
(* A rollback activates the "previous" column of the newest promotion      *)
(* event.  The inductive argument is that this configuration never carries *)
(* the status "rolled_back": it was active when the event's activation     *)
(* began, no other call could run before the event was written, and from   *)
(* then on a rollback marks only the event's other column.                 *)
(***************************************************************************)
RolledBack(c) == status[c] = "rolled_back"

PreviousNotRolledBack ==
  lastEvent # NoEvent => /\ lastEvent.promoted \in Config
                         /\ lastEvent.previous \in Config
                         /\ lastEvent.promoted # lastEvent.previous
                         /\ ~RolledBack(lastEvent.previous)

CallInv(k) ==
  /\ k.at = "activate" => /\ k.cfg \in Config
                          /\ k.prev # NoConfig => ~RolledBack(k.prev)
  /\ k.at = "record" => /\ k.cfg \in Config
                        /\ k.prev \in Config
                        /\ k.prev # k.cfg
                        /\ ~RolledBack(k.prev)
  /\ k.at = "rollback" => /\ lastEvent # NoEvent
                          /\ k.cfg = lastEvent.previous
                          /\ k.prev = lastEvent.promoted
  /\ k.at = "rollback_to" => k.cfg \in Config /\ k.prev \in Config

FlipInv ==
  /\ TypeOK
  /\ PreviousNotRolledBack
  /\ \A p \in Proc : CallInv(call[p])

LEMMA FlipInit == Init => FlipInv
BY RegistryAssumption
   DEF Init, TypeOK, Status, CallAt, MaybeConfig, Idle, NoEvent, FlipInv,
       PreviousNotRolledBack, CallInv, RolledBack

LEMMA FlipStep ==
  ASSUME NEW self, Proc = {self}, FlipInv, [Next]_vars
  PROVE  FlipInv'
<1>0. TypeOK'
  BY TypeStep DEF FlipInv
<1> USE <1>0, RegistryAssumption
    DEF FlipInv, PreviousNotRolledBack, CallInv, RolledBack, TypeOK, Idle,
        NoEvent, MaybeConfig
<1>1. ASSUME NEW c \in Config, Register(self, c) PROVE FlipInv'
  BY <1>1 DEF Register, Registered
<1>2. ASSUME BootstrapRead(self) PROVE FlipInv'
  BY <1>2 DEF BootstrapRead, Enter
<1>3. ASSUME BootstrapInsert(self) PROVE FlipInv'
  BY <1>3 DEF BootstrapInsert, Return, Registered
<1>4. ASSUME NEW c \in Config, ActivateRead(self, c) PROVE FlipInv'
  BY <1>4 DEF ActivateRead, Enter, ActiveChoice, ActiveSet
<1>5. ASSUME ActivateCommit(self) PROVE FlipInv'
  BY <1>5 DEF ActivateCommit, Return
<1>6. ASSUME ActivateRecord(self) PROVE FlipInv'
  BY <1>6 DEF ActivateRecord, Return
<1>7. ASSUME NEW c \in Config, Stage(self, c) \/ Reject(self, c)
      PROVE FlipInv'
  BY <1>7 DEF Stage, Reject, SetStatus
<1>8. ASSUME RollbackRead(self) PROVE FlipInv'
  BY <1>8 DEF RollbackRead, Enter
<1>9. ASSUME RollbackCommit(self) PROVE FlipInv'
  BY <1>9 DEF RollbackCommit, Return
<1>10. ASSUME NEW c \in Config, RollbackToRead(self, c) PROVE FlipInv'
  BY <1>10 DEF RollbackToRead, Enter, ActiveSet
<1>11. ASSUME RollbackToCommit(self) PROVE FlipInv'
  BY <1>11 DEF RollbackToCommit, Return
<1>12. ASSUME Crash(self) PROVE FlipInv'
  BY <1>12 DEF Crash, Return
<1>13. CASE UNCHANGED vars
  BY <1>13 DEF vars
<1>14. QED
  BY <1>1, <1>2, <1>3, <1>4, <1>5, <1>6, <1>7, <1>8, <1>9, <1>10, <1>11,
     <1>12, <1>13 DEF Next, ProcNext, Workflow, Beyond

(* The step of NoFlipFlop, from the invariant.                             *)
LEMMA FlipAction ==
  ASSUME NEW self, Proc = {self}, FlipInv, Next,
         NEW c \in Config, RolledBack(c), status'[c] = "active"
  PROVE  ExplicitActivation(c)
<1> USE RegistryAssumption
    DEF FlipInv, PreviousNotRolledBack, CallInv, RolledBack, TypeOK,
        ExplicitActivation
<1>1. ActivateCommit(self) \/ RollbackToCommit(self) \/ RollbackCommit(self)
  BY DEF Next, ProcNext, Workflow, Beyond, Register, BootstrapRead, BootstrapInsert,
     ActivateRead, ActivateRecord, Stage, Reject, SetStatus, RollbackRead,
     RollbackToRead, Crash, Registered
<1>2. CASE ActivateCommit(self)
  BY <1>2 DEF ActivateCommit
<1>3. CASE RollbackToCommit(self)
  BY <1>3 DEF RollbackToCommit
<1>4. CASE RollbackCommit(self)
  BY <1>4 DEF RollbackCommit
<1>5. QED
  BY <1>1, <1>2, <1>3, <1>4

THEOREM SequentialNoFlipFlop ==
  ASSUME NEW self, Proc = {self}
  PROVE  Spec => NoFlipFlop
<1>1. FlipInv /\ [Next]_vars => FlipInv'
  BY FlipStep
<1>2. FlipInv /\ [Next]_vars
        => [\A c \in Config :
              status[c] = "rolled_back" /\ status'[c] = "active"
                 => ExplicitActivation(c)]_vars
  BY FlipAction DEF RolledBack
<1>3. QED
  BY FlipInit, <1>1, <1>2, PTL DEF Spec, NoFlipFlop

(***************************************************************************)
(* The documented workflow.  While calls come one at a time and only       *)
(* promote and roll back, one row is active, and it is one of the two of   *)
(* the newest promotion event; if it is the predecessor, the other one has *)
(* been rolled back.  So a rollback never meets a third configuration,     *)
(* which would stay active beside the one it brings back.                  *)
(***************************************************************************)
OnlyActive(c) == ActiveSet = {c}

EventRows ==
  \/ OnlyActive(lastEvent.promoted)
  \/ OnlyActive(lastEvent.previous) /\ RolledBack(lastEvent.promoted)

OrderlyCall(k) ==
  /\ k.at \in {"idle", "activate", "record", "rollback"}
  /\ k.at = "activate" => k.prev \in ActiveChoice
  /\ k.at = "record" => OnlyActive(k.cfg)
  /\ k.at # "record" /\ lastEvent # NoEvent => EventRows

OrderlyInv ==
  orderly => /\ \A c, d \in ActiveSet : c = d
             /\ \A p \in Proc : OrderlyCall(call[p])
             /\ lastEvent # NoEvent => ActiveSet # {}

WorkflowInv == FlipInv /\ OrderlyInv

LEMMA WorkflowInit == Init => WorkflowInv
<1>1. Init => OrderlyInv
  BY RegistryAssumption
     DEF Init, OrderlyInv, OrderlyCall, ActiveSet, Idle, NoEvent
<1>2. QED
  BY <1>1, FlipInit DEF WorkflowInv

LEMMA WorkflowStep ==
  ASSUME NEW self, Proc = {self}, WorkflowInv, [Next]_vars
  PROVE  WorkflowInv'
<1>1. FlipInv'
  BY FlipStep DEF WorkflowInv
<1>2. OrderlyInv'
  <2> SUFFICES ASSUME orderly' PROVE OrderlyInv'
    BY DEF OrderlyInv
  <2>1. orderly /\ (Workflow(self) \/ UNCHANGED vars)
    BY DEF Next, ProcNext, vars
  <2> USE <2>1, RegistryAssumption
      DEF WorkflowInv, FlipInv, TypeOK, PreviousNotRolledBack, CallInv,
          RolledBack, OrderlyInv, OrderlyCall, EventRows, OnlyActive,
          ActiveChoice, ActiveSet, MaybeConfig, Idle, NoEvent
  <2>2. ASSUME NEW c \in Config, Register(self, c) PROVE OrderlyInv'
    BY <2>2 DEF Register, Registered
  <2>3. ASSUME NEW c \in Config, ActivateRead(self, c) PROVE OrderlyInv'
    BY <2>3 DEF ActivateRead, Enter
  <2>4. ASSUME ActivateCommit(self) PROVE OrderlyInv'
    BY <2>4 DEF ActivateCommit, Return
  <2>5. ASSUME ActivateRecord(self) PROVE OrderlyInv'
    BY <2>5 DEF ActivateRecord, Return
  <2>6. ASSUME RollbackRead(self) PROVE OrderlyInv'
    BY <2>6 DEF RollbackRead, Enter
  <2>7. ASSUME RollbackCommit(self) PROVE OrderlyInv'
    BY <2>7 DEF RollbackCommit, Return
  <2>8. CASE UNCHANGED vars
    BY <2>8 DEF vars
  <2>9. QED
    BY <2>1, <2>2, <2>3, <2>4, <2>5, <2>6, <2>7, <2>8 DEF Workflow
<1>3. QED
  BY <1>1, <1>2 DEF WorkflowInv

THEOREM WorkflowOneActive ==
  ASSUME NEW self, Proc = {self}
  PROVE  Spec => []WorkflowKeepsOneActive
<1>1. WorkflowInv /\ [Next]_vars => WorkflowInv'
  BY WorkflowStep
<1>2. WorkflowInv => WorkflowKeepsOneActive
  BY DEF WorkflowInv, OrderlyInv, WorkflowKeepsOneActive, SingleActive
<1>3. QED
  BY WorkflowInit, <1>1, <1>2, PTL DEF Spec

(* The mapping, without its choices.                                       *)
CurrentIsActive ==
  /\ \A c : OnlyActive(c) => AbstractCurrent = c
  /\ ActiveSet = {} => AbstractCurrent = NoConfig

LEMMA MapCurrent == CurrentIsActive
<1>1. ASSUME NEW c, ActiveSet = {c} PROVE AbstractCurrent = c
  <2>1. \A x \in ActiveSet : x = c
    BY <1>1
  <2>2. (CHOOSE x \in ActiveSet : TRUE) \in ActiveSet
    BY <1>1
  <2>3. ActiveSet # {}
    BY <1>1
  <2>4. QED
    BY <2>1, <2>2, <2>3 DEF AbstractCurrent
<1>2. QED
  BY <1>1 DEF CurrentIsActive, OnlyActive, AbstractCurrent

RetainedIsPrevious ==
  \A self : Proc = {self} =>
    AbstractRetained = IF call[self].at = "record" THEN call[self].prev
                                                  ELSE lastEvent.previous

LEMMA MapRetained == RetainedIsPrevious
<1> SUFFICES ASSUME NEW self, Proc = {self}
             PROVE  AbstractRetained = IF call[self].at = "record"
                                       THEN call[self].prev
                                       ELSE lastEvent.previous
  BY DEF RetainedIsPrevious
<1>1. CASE call[self].at = "record"
  <2>1. Recording = {self}
    BY <1>1 DEF Recording
  <2>2. (CHOOSE p \in Recording : TRUE) \in Recording
    BY <2>1
  <2>3. (CHOOSE p \in Recording : TRUE) = self
    BY <2>1, <2>2
  <2>4. Recording # {}
    BY <2>1
  <2>5. QED
    BY <1>1, <2>3, <2>4 DEF AbstractRetained
<1>2. CASE call[self].at # "record"
  BY <1>2 DEF AbstractRetained, Recording
<1>3. QED
  BY <1>1, <1>2

(* An orderly step of the registry promotes, rolls back or changes nothing *)
(* of what the documentation speaks of.                                    *)
LEMMA RefinementStep ==
  ASSUME NEW self, Proc = {self}, WorkflowInv, WorkflowInv', Next, orderly'
  PROVE  Pointer!PointerNext \/ UNCHANGED Pointer!pointerVars
<1> DEFINE Withdrawn == {c \in Config : status[c] = "rolled_back"}
           at == call[self].at
<1>0. orderly /\ Workflow(self)
  BY DEF Next, ProcNext
<1>1. \/ ActiveSet = {} /\ AbstractCurrent = NoConfig
      \/ \E c \in Config : OnlyActive(c) /\ AbstractCurrent = c
  BY <1>0, MapCurrent DEF CurrentIsActive, WorkflowInv, OrderlyInv, ActiveSet, OnlyActive
<1>2. AbstractRetained = IF at = "record" THEN call[self].prev
                                          ELSE lastEvent.previous
  BY MapRetained DEF RetainedIsPrevious
<1>3. AbstractRetained' = IF at' = "record" THEN call'[self].prev
                                            ELSE lastEvent'.previous
  <2>1. RetainedIsPrevious'
    BY MapRetained, PTL
  <2>2. QED
    BY <2>1 DEF RetainedIsPrevious
<1>4. \A c : OnlyActive(c)' => AbstractCurrent' = c
  <2>1. CurrentIsActive'
    BY MapCurrent, PTL
  <2>2. QED
    BY <2>1 DEF CurrentIsActive
<1>5. ActiveSet' = ActiveSet => AbstractCurrent' = AbstractCurrent
  BY DEF AbstractCurrent
<1> USE <1>0, <1>2, <1>3, RegistryAssumption
    DEF WorkflowInv, FlipInv, TypeOK, Idle, MaybeConfig
<1>6. ASSUME NEW c \in Config, Register(self, c)
      PROVE  UNCHANGED Pointer!pointerVars
  <2>1. ActiveSet' = ActiveSet /\ Withdrawn' = Withdrawn
    BY <1>6 DEF Register, Registered, ActiveSet
  <2>2. AbstractRetained' = AbstractRetained
    BY <1>6 DEF Register
  <2>3. QED
    BY <2>1, <2>2, <1>5 DEF Pointer!pointerVars
<1>7. ASSUME NEW c \in Config, ActivateRead(self, c)
      PROVE  UNCHANGED Pointer!pointerVars
  <2>1. ActiveSet' = ActiveSet /\ Withdrawn' = Withdrawn
    BY <1>7 DEF ActivateRead, ActiveSet
  <2>2. AbstractRetained' = AbstractRetained
    BY <1>7 DEF ActivateRead, Enter
  <2>3. QED
    BY <2>1, <2>2, <1>5 DEF Pointer!pointerVars
<1>8. ASSUME NEW c, c = call[self].cfg, ActivateCommit(self)
      PROVE  Pointer!PointerNext
  <2>1. c \in Config /\ at = "activate" /\ call[self].prev \in ActiveChoice
    BY <1>8 DEF ActivateCommit, CallInv, OrderlyInv, OrderlyCall
  <2>2. OnlyActive(c)'
    BY <1>8, <2>1 DEF ActivateCommit, OnlyActive, ActiveSet
  <2>3. AbstractCurrent' = c
    BY <2>2, <1>4
  <2>4. Withdrawn' = Withdrawn \ {c}
    BY <1>8, <2>1 DEF ActivateCommit
  <2>5. call[self].prev = AbstractCurrent
    BY <2>1, <1>1 DEF ActiveChoice, OnlyActive
  <2>6. AbstractRetained' = IF AbstractCurrent \in {NoConfig, c}
                            THEN AbstractRetained ELSE AbstractCurrent
    BY <1>8, <2>1, <2>5 DEF ActivateCommit, Return, OrderlyInv, OrderlyCall
  <2>7. Pointer!Promote(c)
    BY <2>3, <2>4, <2>6 DEF Pointer!Promote
  <2>8. QED
    BY <2>1, <2>7 DEF Pointer!PointerNext
<1>9. ASSUME ActivateRecord(self) PROVE UNCHANGED Pointer!pointerVars
  <2>1. ActiveSet' = ActiveSet /\ Withdrawn' = Withdrawn
    BY <1>9 DEF ActivateRecord, ActiveSet
  <2>2. AbstractRetained' = AbstractRetained
    BY <1>9 DEF ActivateRecord, Return
  <2>3. QED
    BY <2>1, <2>2, <1>5 DEF Pointer!pointerVars
<1>10. ASSUME RollbackRead(self) PROVE UNCHANGED Pointer!pointerVars
  <2>1. ActiveSet' = ActiveSet /\ Withdrawn' = Withdrawn
    BY <1>10 DEF RollbackRead, ActiveSet
  <2>2. AbstractRetained' = AbstractRetained
    BY <1>10 DEF RollbackRead, Enter
  <2>3. QED
    BY <2>1, <2>2, <1>5 DEF Pointer!pointerVars
<1>11. ASSUME NEW P, P = lastEvent.promoted, NEW Q, Q = lastEvent.previous,
              RollbackCommit(self)
       PROVE  Pointer!PointerNext
  <2>1. /\ at = "rollback" /\ lastEvent # NoEvent
        /\ call[self].cfg = Q /\ call[self].prev = P
        /\ P \in Config /\ Q \in Config /\ P # Q
    BY <1>11 DEF RollbackCommit, CallInv, PreviousNotRolledBack
  <2>2. EventRows
    BY <2>1 DEF OrderlyInv, OrderlyCall
  <2>3. status' = [status EXCEPT ![P] = "rolled_back", ![Q] = "active"]
    BY <1>11, <2>1 DEF RollbackCommit
  <2>4. OnlyActive(Q)'
    BY <1>11, <2>1, <2>2, <2>3 DEF RollbackCommit, EventRows, OnlyActive, ActiveSet
  <2>5. AbstractCurrent' = Q
    BY <2>4, <1>4
  <2>6. AbstractRetained = Q /\ AbstractRetained' = Q
    BY <1>11, <2>1 DEF RollbackCommit, Return
  <2>7. AbstractCurrent \in {P, Q}
    BY <1>11, <2>2, MapCurrent DEF CurrentIsActive, EventRows
  <2>8. ~RolledBack(Q)
    BY <1>11, <2>1 DEF PreviousNotRolledBack
  <2>9. Withdrawn' = Withdrawn \cup {P}
    BY <2>1, <2>3, <2>8 DEF RolledBack
  <2>10. AbstractCurrent = Q => P \in Withdrawn
    BY <1>11, <2>1, <2>2, <1>1 DEF EventRows, RolledBack, OnlyActive, ActiveSet
  <2>11. Withdrawn' = Withdrawn \cup ({AbstractCurrent} \ {AbstractRetained})
    BY <2>1, <2>6, <2>7, <2>9, <2>10
  <2>12. Pointer!Rollback
    BY <2>1, <2>5, <2>6, <2>11 DEF Pointer!Rollback
  <2>13. QED
    BY <2>12 DEF Pointer!PointerNext
<1>12. QED
  BY <1>6, <1>7, <1>8, <1>9, <1>10, <1>11 DEF Workflow

THEOREM RegistryImplementsPointer ==
  ASSUME NEW self, Proc = {self}
  PROVE  Spec => ImplementsPointer
<1>1. Init => Pointer!PointerInit
  <2>1. Init => ActiveSet = {}
    BY DEF Init, ActiveSet
  <2>2. Init => AbstractRetained = NoConfig
    BY MapRetained DEF RetainedIsPrevious, Init, Idle, NoEvent
  <2>3. QED
    BY <2>1, <2>2, MapCurrent DEF CurrentIsActive, Init, Pointer!PointerInit
<1>2. WorkflowInv /\ [Next]_vars => WorkflowInv'
  BY WorkflowStep
<1>3. WorkflowInv /\ WorkflowInv' /\ [Next]_vars
        => [orderly' => Pointer!PointerNext]_(Pointer!pointerVars)
  <2> SUFFICES ASSUME WorkflowInv, WorkflowInv', [Next]_vars, orderly'
               PROVE  Pointer!PointerNext \/ UNCHANGED Pointer!pointerVars
    OBVIOUS
  <2>1. CASE Next
    BY <2>1, RefinementStep
  <2>2. CASE UNCHANGED vars
    BY <2>2 DEF vars, Pointer!pointerVars, AbstractCurrent, AbstractRetained,
       ActiveSet, Recording
  <2>3. QED
    BY <2>1, <2>2
<1>4. QED
  BY <1>1, WorkflowInit, <1>2, <1>3, PTL DEF Spec, ImplementsPointer
============================================================================
