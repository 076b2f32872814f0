--------------------------- MODULE ActiveConfig ---------------------------
(***************************************************************************)
(* What docs/PROMOTION_AND_ROLLBACK.md promises of the configuration       *)
(* registry: one configuration is active, promoting another one retains    *)
(* the old one for rollback, and a rollback withdraws the active           *)
(* configuration and brings the retained one back.                         *)
(*                                                                         *)
(* ConfigRegistry.tla models the SQLite tables that implement it.          *)
(***************************************************************************)
CONSTANTS Config, NoConfig

VARIABLES
  current,     (* the active configuration, or NoConfig                    *)
  retained,    (* the configuration a rollback would bring back            *)
  withdrawn    (* the configurations whose last status is "rolled_back"    *)

pointerVars == <<current, retained, withdrawn>>

PointerInit ==
  /\ current = NoConfig
  /\ retained = NoConfig
  /\ withdrawn = {}

Promote(c) ==
  /\ current' = c
  /\ retained' = IF current \in {NoConfig, c} THEN retained ELSE current
  /\ withdrawn' = withdrawn \ {c}

Rollback ==
  /\ retained # NoConfig
  /\ current' = retained
  /\ withdrawn' = withdrawn \cup ({current} \ {retained})
  /\ UNCHANGED retained

PointerNext == Rollback \/ \E c \in Config : Promote(c)

PointerSpec == PointerInit /\ [][PointerNext]_pointerVars
===========================================================================
