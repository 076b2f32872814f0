-------------------------- MODULE ConfigRegistry --------------------------
(***************************************************************************)
(* The configuration registry of src/src/config/versioning.py: the tables  *)
(* config_versions and promotion_events of one instance's SQLite database, *)
(* shared by the trading bot, the automation timer and the operator's      *)
(* command line, each in a process of its own.                             *)
(*                                                                         *)
(* A call is not one transaction.  Every function reads in autocommit      *)
(* mode, writes in one transaction, and activate_config_version records    *)
(* its promotion event in a second one, so calls of two processes          *)
(* interleave between these steps and a killed process leaves the later    *)
(* ones undone.                                                            *)
(*                                                                         *)
(* Abstractions: a configuration is its identifier; of promotion_events    *)
(* only the newest row is ever read (ORDER BY promoted_at DESC LIMIT 1),   *)
(* so only that row is kept; rollback_events is written and never read by  *)
(* the registry, so it is left out.                                        *)
(***************************************************************************)
EXTENDS Naturals, FiniteSets

CONSTANTS
  Config,      (* identifiers a row of config_versions may have            *)
  NoConfig,    (* what SELECT ... LIMIT 1 returns when no row matches      *)
  Proc,        (* processes with a connection to the database              *)
  Ops,         (* the entry points the deployment uses, see OpNames        *)
  Crashes      (* may a process be killed in the middle of a call?         *)

OpNames == {"register", "bootstrap", "activate", "stage", "reject",
            "rollback", "rollback_to"}

ASSUME RegistryAssumption ==
  /\ NoConfig \notin Config
  /\ Ops \subseteq OpNames
  /\ Crashes \in BOOLEAN

VARIABLES
  status,      (* config_versions.status of each row, "absent" if no row   *)
  lastEvent,   (* the newest row of promotion_events                       *)
  call,        (* the unfinished call of each process                      *)
  orderly      (* history: only promotions and rollbacks so far, none of   *)
               (* them killed                                              *)

vars == <<status, lastEvent, call, orderly>>

Status == {"absent", "candidate", "staged", "active", "rejected",
           "rolled_back", "archived"}

NoEvent == [promoted |-> NoConfig, previous |-> NoConfig]
Idle == [at |-> "idle", cfg |-> NoConfig, prev |-> NoConfig]

MaybeConfig == Config \cup {NoConfig}
CallAt == {"idle", "activate", "record", "rollback", "rollback_to", "bootstrap"}

TypeOK ==
  /\ status \in [Config -> Status]
  /\ lastEvent \in [promoted : MaybeConfig, previous : MaybeConfig]
  /\ call \in [Proc -> [at : CallAt, cfg : MaybeConfig, prev : MaybeConfig]]
  /\ orderly \in BOOLEAN

ActiveSet == {c \in Config : status[c] = "active"}

(* SELECT config_id ... WHERE status = 'active' LIMIT 1: any of the rows.  *)
ActiveChoice == IF ActiveSet = {} THEN {NoConfig} ELSE ActiveSet

Registered(c) == status[c] # "absent"

Enter(p, at, c, prev) ==
  /\ call[p] = Idle
  /\ call' = [call EXCEPT ![p] = [at |-> at, cfg |-> c, prev |-> prev]]

Return(p) == call' = [call EXCEPT ![p] = Idle]

Init ==
  /\ status = [c \in Config |-> "absent"]
  /\ lastEvent = NoEvent
  /\ call = [p \in Proc |-> Idle]
  /\ orderly = TRUE

----------------------------------------------------------------------------
(* register_config_version(status = "candidate"): one INSERT.              *)
Register(p, c) ==
  /\ "register" \in Ops
  /\ call[p] = Idle
  /\ ~Registered(c)
  /\ status' = [status EXCEPT ![c] = "candidate"]
  /\ UNCHANGED <<lastEvent, call>>

(* TradingBot._init_components: with no active row, the bot registers its  *)
(* own configuration with status "active"; nothing is demoted and no       *)
(* promotion event is written.                                             *)
BootstrapRead(p) ==
  /\ "bootstrap" \in Ops
  /\ ActiveSet = {}
  /\ \E c \in Config : ~Registered(c)
  /\ Enter(p, "bootstrap", NoConfig, NoConfig)
  /\ UNCHANGED <<status, lastEvent>>

BootstrapInsert(p) ==
  /\ call[p].at = "bootstrap"
  /\ \E c \in Config :
        /\ ~Registered(c)
        /\ status' = [status EXCEPT ![c] = "active"]
  /\ Return(p)
  /\ UNCHANGED lastEvent

(* activate_config_version: read the row and the current active row ...    *)
ActivateRead(p, c) ==
  /\ {"activate", "rollback_to"} \cap Ops # {}
  /\ Registered(c)
  /\ \E prev \in ActiveChoice : Enter(p, "activate", c, prev)
  /\ UNCHANGED <<status, lastEvent>>

(* ... archive every active row and make the chosen one active ...         *)
ActivateCommit(p) ==
  LET c == call[p].cfg
      demoted(x) == IF status[x] = "active" THEN "archived" ELSE status[x]
      recordsEvent == call[p].prev \notin {NoConfig, c}
  IN /\ call[p].at = "activate"
     /\ status' = [x \in Config |-> IF x = c THEN "active" ELSE demoted(x)]
     /\ IF recordsEvent
        THEN call' = [call EXCEPT ![p] =
                        [at |-> "record", cfg |-> c, prev |-> call[p].prev]]
        ELSE Return(p)
     /\ UNCHANGED lastEvent

(* ... and insert the promotion event in a transaction of its own.         *)
ActivateRecord(p) ==
  /\ call[p].at = "record"
  /\ lastEvent' = [promoted |-> call[p].cfg, previous |-> call[p].prev]
  /\ Return(p)
  /\ UNCHANGED status

(* stage_config_version and reject_config_version: one UPDATE of the row,  *)
(* whatever its status is.                                                 *)
SetStatus(p, c, st) ==
  /\ call[p] = Idle
  /\ Registered(c)
  /\ status' = [status EXCEPT ![c] = st]
  /\ UNCHANGED <<lastEvent, call>>

Stage(p, c) == "stage" \in Ops /\ SetStatus(p, c, "staged")

(* Mutant: a status that no reader looks for.                              *)
RejectMisspelt(p, c) == "reject" \in Ops /\ SetStatus(p, c, "reject")

Reject(p, c) == "reject" \in Ops /\ SetStatus(p, c, "rejected")

(* rollback_to_previous_config: read the newest promotion event ...        *)
RollbackRead(p) ==
  /\ "rollback" \in Ops
  /\ lastEvent # NoEvent
  /\ Enter(p, "rollback", lastEvent.previous, lastEvent.promoted)
  /\ UNCHANGED <<status, lastEvent>>

(* Mutant: the rolled-back configuration keeps its status.                 *)
RollbackCommitKeepsCurrent(p) ==
  /\ call[p].at = "rollback"
  /\ status' = [status EXCEPT ![call[p].cfg] = "active"]
  /\ Return(p)
  /\ UNCHANGED lastEvent

(* Mutant: the rollback records a promotion event of its own.              *)
RollbackCommitRecords(p) ==
  /\ call[p].at = "rollback"
  /\ status' = [status EXCEPT ![call[p].prev] = "rolled_back",
                              ![call[p].cfg] = "active"]
  /\ lastEvent' = [promoted |-> call[p].cfg, previous |-> call[p].prev]
  /\ Return(p)

(* ... mark the configuration it promoted as rolled back and make the one  *)
(* it replaced active, whatever is active now.                             *)
RollbackCommit(p) ==
  /\ call[p].at = "rollback"
  /\ status' = [status EXCEPT ![call[p].prev] = "rolled_back",
                              ![call[p].cfg] = "active"]
  /\ Return(p)
  /\ UNCHANGED lastEvent

(* rollback_to_config: read the active row (with none it is a call of      *)
(* activate_config_version, which ActivateRead covers) ...                 *)
RollbackToRead(p, c) ==
  /\ "rollback_to" \in Ops
  /\ \E cur \in ActiveSet : Enter(p, "rollback_to", c, cur)
  /\ UNCHANGED <<status, lastEvent>>

(* ... then archive it and make the target active, if the target is a row. *)
RollbackToCommit(p) ==
  LET archived == [status EXCEPT ![call[p].prev] = "archived"]
  IN /\ call[p].at = "rollback_to"
     /\ status' = IF Registered(call[p].cfg)
                  THEN [archived EXCEPT ![call[p].cfg] = "active"]
                  ELSE archived
     /\ Return(p)
     /\ UNCHANGED lastEvent

(* The process is killed: what it had not committed is lost.               *)
Crash(p) ==
  /\ Crashes
  /\ call[p] # Idle
  /\ Return(p)
  /\ UNCHANGED <<status, lastEvent>>

(* The workflow of docs/PROMOTION_AND_ROLLBACK.md ...                      *)
Workflow(p) ==
  \/ \E c \in Config : Register(p, c) \/ ActivateRead(p, c)
  \/ ActivateCommit(p)
  \/ ActivateRecord(p)
  \/ RollbackRead(p)
  \/ RollbackCommit(p)

(* ... and what else happens to the tables.                                *)
Beyond(p) ==
  \/ \E c \in Config : Stage(p, c) \/ Reject(p, c) \/ RollbackToRead(p, c)
  \/ BootstrapRead(p)
  \/ BootstrapInsert(p)
  \/ RollbackToCommit(p)
  \/ Crash(p)

ProcNext(p) ==
  \/ Workflow(p) /\ UNCHANGED orderly
  \/ Beyond(p) /\ orderly' = FALSE

Next == \E p \in Proc : ProcNext(p)

Spec == Init /\ [][Next]_vars

----------------------------------------------------------------------------
(* Safety: at no time are two rows active.  get_active_config_id takes an  *)
(* arbitrary one with LIMIT 1, so a second active row makes the bot's      *)
(* configuration at its next start, the probation record it looks up and   *)
(* the next "previous" configuration a matter of chance.                   *)
SingleActive == \A c, d \in ActiveSet : c = d

(* Safety: the documented workflow keeps to one active configuration, also *)
(* when rollbacks follow each other or a promotion of the same row.        *)
WorkflowKeepsOneActive == orderly => SingleActive

(* Action property, the "flip-flop protection" of the documentation: a     *)
(* configuration that was rolled back becomes active again only through an *)
(* explicit activation of that very configuration, never as a by-product   *)
(* of another rollback.                                                    *)
ExplicitActivation(c) ==
  \E p \in Proc : /\ call[p].cfg = c
                  /\ call[p].at \in {"activate", "rollback_to"}

NoFlipFlop ==
  [][\A c \in Config :
        status[c] = "rolled_back" /\ status'[c] = "active"
           => ExplicitActivation(c)]_vars

(* Action property: "Sets current active to `rolled_back`, previous to     *)
(* `active`" - after a rollback no other configuration than the one it     *)
(* brought back is active.                                                 *)
RollbackReplacesActive ==
  [][\A p \in Proc :
        call[p].at = "rollback" /\ call'[p] = Idle /\ status' # status
           => ActiveSet' = {call[p].cfg}]_vars

----------------------------------------------------------------------------
(* Refinement.  The promotion event of an activation that has committed    *)
(* but not yet recorded it is already part of the abstract state.          *)
Recording == {p \in Proc : call[p].at = "record"}

AbstractRetained ==
  IF Recording # {} THEN call[CHOOSE p \in Recording : TRUE].prev
                    ELSE lastEvent.previous

AbstractCurrent == IF ActiveSet = {} THEN NoConfig
                                     ELSE CHOOSE c \in ActiveSet : TRUE

Pointer == INSTANCE ActiveConfig WITH
  current   <- AbstractCurrent,
  retained  <- AbstractRetained,
  withdrawn <- {c \in Config : status[c] = "rolled_back"}

(* Refinement: used by one process at a time for promotions and rollbacks, *)
(* none of them killed, the registry implements the documented workflow.   *)
ImplementsPointer ==
  /\ Pointer!PointerInit
  /\ [][orderly' => Pointer!PointerNext]_(Pointer!pointerVars)
============================================================================
