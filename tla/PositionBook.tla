--------------------------- MODULE PositionBook ---------------------------
(***************************************************************************)
(* The bot's book of open positions against what the exchange holds        *)
(* (src/src/main.py with portfolio/position_manager.py,                    *)
(* portfolio/lifecycle.py and execution/executor.py).                      *)
(*                                                                         *)
(* Four threads of one process share the dictionaries of PositionManager   *)
(* and LifecycleManager without a lock: the scoring loop enters, the       *)
(* lifecycle loop exits, the REST reconciliation loop overwrites the book  *)
(* with a position list the exchange sent some time ago, and the private   *)
(* WebSocket callback books take-profit fills.  Each of the first three    *)
(* makes a REST call in the middle, so another thread can run between what *)
(* it read and what it writes.                                             *)
(*                                                                         *)
(* Abstractions: a position is a signed number of lots, positive for "Buy" *)
(* and 0 for none; why a signal or an exit fires is left open; dictionary  *)
(* operations with no call between them are one step; the bot is not in    *)
(* dry_run.  The sizes of the two take-profit orders and the fills booked  *)
(* against them are refined in TakeProfit.tla, the other limits on entries *)
(* in RiskGate.tla.                                                        *)
(***************************************************************************)
EXTENDS Integers, FiniteSets

CONSTANTS
  Symbol, NoSymbol,
  MaxPositions,  (* config.risk.max_concurrent_positions                   *)
  Lot,           (* lots bought or sold by one entry order                 *)
  Attempts,      (* BybitClient._retry_rest: max_retries                   *)
  LinkedOrders,  (* config.execution.idempotent_order_link                 *)
  RecoverOrphans,(* config.recover_orphan_positions                        *)
  FlattenOnBoot, (* config.emergency_flatten_on_startup                    *)
  Overlap,       (* FALSE: no two threads are between a read and a write   *)
                 (* at the same time, and no fill message is outstanding   *)
                 (* when one starts; TRUE: any interleaving                *)
  Faults,        (* what may go wrong, a subset of FaultNames              *)
  MaxSize,       (* bound: lots a position may reach by repeated entries   *)
  MaxFills       (* bound: undelivered fill messages of one kind           *)

FaultNames == {"lostReply", "closeRejected", "crash", "bootSyncFails",
               "duplicateFill"}

ASSUME BookAssumption ==
  /\ IsFiniteSet(Symbol) /\ NoSymbol \notin Symbol
  /\ MaxPositions \in Nat \ {0}
  /\ Lot \in Nat \ {0}
  /\ Attempts \in Nat \ {0}
  /\ MaxSize \in Nat /\ MaxSize >= Lot
  /\ MaxFills \in Nat \ {0}
  /\ {LinkedOrders, RecoverOrphans, FlattenOnBoot, Overlap} \subseteq BOOLEAN
  /\ Faults \subseteq FaultNames

VARIABLES
  exch,      (* the exchange's position of each symbol                     *)
  tps,       (* symbols with reduce-only TP orders resting at the exchange *)
  fills,     (* undelivered TP fill messages, by symbol and position side  *)
  tracked,   (* PositionManager._positions                                 *)
  lives,     (* the symbols with an entry in LifecycleManager._states      *)
  entry,     (* the scoring loop's order in progress                       *)
  exit,      (* the lifecycle loop's exit in progress                      *)
  rest,      (* the reconciliation loop's position list in progress        *)
  up         (* is the bot process running, past _boot?                    *)

vars == <<exch, tps, fills, tracked, lives, entry, exit, rest, up>>

Side == {1, -1}
Abs(x) == IF x < 0 THEN -x ELSE x
Sign(x) == IF x > 0 THEN 1 ELSE IF x < 0 THEN -1 ELSE 0

(* What is left of a position after a reduce-only order for qty lots of    *)
(* position side d: it can shrink the position to zero, never reverse it.  *)
Reduced(pos, d, qty) ==
  IF Sign(pos) # d THEN pos
  ELSE IF qty >= Abs(pos) THEN 0
  ELSE pos - d * qty

Flat == [s \in Symbol |-> 0]
NoFills == [m \in Symbol \X Side |-> 0]
NoEntry == [at |-> "idle", sym |-> NoSymbol, side |-> 0, tries |-> 0, done |-> 0]
NoExit == [at |-> "idle", sym |-> NoSymbol, pos |-> 0, tries |-> 0]
NoRest == [at |-> "idle", list |-> Flat]

Positions == [Symbol -> Int]
Orders == [at : {"placing", "opened"}, sym : Symbol, side : Side,
           tries : Nat, done : Nat]
Exits == [at : {"closing", "closed"}, sym : Symbol, pos : Int, tries : Nat]

TypeOK ==
  /\ exch \in Positions
  /\ tps \in SUBSET Symbol
  /\ fills \in [Symbol \X Side -> Nat]
  /\ tracked \in Positions
  /\ lives \in SUBSET Symbol
  /\ entry \in Orders \cup {NoEntry}
  /\ exit \in Exits \cup {NoExit}
  /\ rest \in [at : {"idle", "applying"}, list : Positions]
  /\ up \in BOOLEAN

Open(book) == {s \in Symbol : book[s] # 0}

(* The position of s becomes v; the exchange cancels reduce-only orders    *)
(* that no longer have a position to reduce.                               *)
SetExch(s, v) ==
  /\ exch' = [exch EXCEPT ![s] = v]
  /\ tps' = IF Sign(v) = Sign(exch[s]) THEN tps ELSE tps \ {s}

Quiescent ==
  /\ entry.at = "idle" /\ exit.at = "idle" /\ rest.at = "idle"
  /\ fills = NoFills

MayStart == up /\ (Overlap \/ Quiescent)

Init ==
  /\ exch = Flat /\ tps = {} /\ fills = NoFills
  /\ tracked = Flat /\ lives = {}
  /\ entry = NoEntry /\ exit = NoExit /\ rest = NoRest
  /\ up = FALSE

----------------------------------------------------------------------------
(* The exchange on its own: a resting take-profit order fills one lot and  *)
(* the fill is sent on the private stream, possibly twice.  The message    *)
(* never arrives if the stream is reconnecting, or before the end of _boot *)
(* where it is opened.                                                     *)
TpFill(s) ==
  LET d == Sign(exch[s])
      copies == IF "duplicateFill" \in Faults THEN 0..2 ELSE 0..1
  IN /\ s \in tps /\ d # 0
     /\ SetExch(s, exch[s] - d)
     /\ IF up
        THEN \E n \in copies :
               /\ fills[<<s, d>>] + n <= MaxFills
               /\ fills' = [fills EXCEPT ![<<s, d>>] = @ + n]
        ELSE UNCHANGED fills
     /\ UNCHANGED <<tracked, lives, entry, exit, rest, up>>

(* A stop loss closes the position; PositionManager is not told.           *)
StopHit(s) ==
  /\ exch[s] # 0
  /\ SetExch(s, 0)
  /\ UNCHANGED <<fills, tracked, lives, entry, exit, rest, up>>

----------------------------------------------------------------------------
(* Mutant: an off-by-one in the position count.                            *)
EntryStartOneMore(s, d) ==
  /\ MayStart
  /\ entry.at = "idle"
  /\ tracked[s] = 0
  /\ Cardinality(Open(tracked)) <= MaxPositions
  /\ entry' = [at |-> "placing", sym |-> s, side |-> d, tries |-> 0, done |-> 0]
  /\ UNCHANGED <<exch, tps, fills, tracked, lives, exit, rest, up>>

(* The scoring loop (_score_and_enter_loop).  A signal for a symbol that   *)
(* is not tracked passes the position count and becomes a market order.    *)
EntryStart(s, d) ==
  /\ MayStart
  /\ entry.at = "idle"
  /\ tracked[s] = 0
  /\ Cardinality(Open(tracked)) < MaxPositions
  /\ entry' = [at |-> "placing", sym |-> s, side |-> d, tries |-> 0, done |-> 0]
  /\ UNCHANGED <<exch, tps, fills, tracked, lives, exit, rest, up>>

(* The exchange executes the order.  With an order link id it refuses the  *)
(* repetition of an order it has already executed.                         *)
Executes ==
  /\ entry.at = "placing"
  /\ ~(entry.done > 0 /\ LinkedOrders)
  /\ LET v == exch[entry.sym] + entry.side * Lot
     IN Abs(v) <= MaxSize /\ SetExch(entry.sym, v)

AnotherTry(executed) ==
  entry' = IF entry.tries + 1 >= Attempts THEN NoEntry
           ELSE [entry EXCEPT !.tries = @ + 1, !.done = @ + executed]

(* Executor.place_entry returns the order ...                              *)
EntryAccepted ==
  /\ Executes
  /\ entry' = [entry EXCEPT !.at = "opened"]
  /\ UNCHANGED <<fills, tracked, lives, exit, rest, up>>

(* ... or an attempt fails after the exchange executed it ...              *)
EntryReplyLost ==
  /\ "lostReply" \in Faults
  /\ Executes
  /\ AnotherTry(1)
  /\ UNCHANGED <<fills, tracked, lives, exit, rest, up>>

(* ... or before; after the last attempt place_entry returns None and the  *)
(* loop records an API error, nothing else.                                *)
EntryRefused ==
  /\ entry.at = "placing"
  /\ AnotherTry(0)
  /\ UNCHANGED <<exch, tps, fills, tracked, lives, exit, rest, up>>

(* Mutant: a short is booked with the side of a long.                      *)
EntryBookUnsigned ==
  /\ entry.at = "opened"
  /\ tracked' = [tracked EXCEPT ![entry.sym] = Lot]
  /\ lives' = lives \cup {entry.sym}
  /\ entry' = NoEntry
  /\ UNCHANGED <<exch, tps, fills, exit, rest, up>>

(* add_position and lifecycle.register, with the quantity asked for.       *)
EntryBook ==
  /\ entry.at = "opened"
  /\ tracked' = [tracked EXCEPT ![entry.sym] = entry.side * Lot]
  /\ lives' = lives \cup {entry.sym}
  /\ entry' = NoEntry
  /\ UNCHANGED <<exch, tps, fills, exit, rest, up>>

----------------------------------------------------------------------------
(* The lifecycle loop (_lifecycle_loop): time stop, flow reversal,         *)
(* exhaustion or failed breakout of a registered symbol.  With no tracked  *)
(* position there is nothing to close and the entry is just removed.       *)
ExitStart(s) ==
  /\ MayStart
  /\ exit.at = "idle"
  /\ s \in lives
  /\ exit' = [at |-> IF tracked[s] = 0 THEN "closed" ELSE "closing",
              sym |-> s, pos |-> tracked[s], tries |-> 0]
  /\ UNCHANGED <<exch, tps, fills, tracked, lives, entry, rest, up>>

CloseExecutes ==
  /\ exit.at = "closing"
  /\ SetExch(exit.sym, Reduced(exch[exit.sym], Sign(exit.pos), Abs(exit.pos)))

ExitClosed ==
  /\ CloseExecutes
  /\ exit' = [exit EXCEPT !.at = "closed"]
  /\ UNCHANGED <<fills, tracked, lives, entry, rest, up>>

(* A close order carries no link id: after a lost reply it is sent again.  *)
ExitReplyLost ==
  /\ "lostReply" \in Faults
  /\ CloseExecutes
  /\ exit' = [exit EXCEPT !.tries = @ + 1,
                          !.at = IF exit.tries + 1 >= Attempts THEN "closed" ELSE @]
  /\ UNCHANGED <<fills, tracked, lives, entry, rest, up>>

(* Executor.close_position returned False; the loop ignores the result.    *)
ExitRejected ==
  /\ "closeRejected" \in Faults
  /\ exit.at = "closing"
  /\ exit' = [exit EXCEPT !.at = "closed"]
  /\ UNCHANGED <<exch, tps, fills, tracked, lives, entry, rest, up>>

(* Mutant: the exit in progress is not reset completely.                   *)
ExitForgetKeepsSymbol ==
  /\ exit.at = "closed"
  /\ lives' = lives \ {exit.sym}
  /\ tracked' = [tracked EXCEPT ![exit.sym] = 0]
  /\ exit' = [NoExit EXCEPT !.sym = exit.sym]
  /\ UNCHANGED <<exch, tps, fills, entry, rest, up>>

(* lifecycle.remove and remove_position.                                   *)
ExitForget ==
  /\ exit.at = "closed"
  /\ lives' = lives \ {exit.sym}
  /\ tracked' = [tracked EXCEPT ![exit.sym] = 0]
  /\ exit' = NoExit
  /\ UNCHANGED <<exch, tps, fills, entry, rest, up>>

----------------------------------------------------------------------------
(* The reconciliation loop (_run_rest_reconciliation): the exchange        *)
(* answers get_positions ...                                               *)
RestList ==
  /\ MayStart
  /\ rest.at = "idle"
  /\ rest' = [at |-> "applying", list |-> exch]
  /\ UNCHANGED <<exch, tps, fills, tracked, lives, entry, exit, up>>

(* Mutant: the answer is merged into the book, nothing is dropped.         *)
RestApplyMerges ==
  /\ rest.at = "applying"
  /\ tracked' = [s \in Symbol |-> IF rest.list[s] = 0 THEN tracked[s] ELSE rest.list[s]]
  /\ rest' = NoRest
  /\ UNCHANGED <<exch, tps, fills, lives, entry, exit, up>>

(* ... and sync_from_exchange makes the book equal to that answer; then    *)
(* take-profit orders are placed for positions with a lifecycle, those the *)
(* stream has reported since included, if the exchange accepts them.       *)
RestApply ==
  /\ rest.at = "applying"
  /\ tracked' = rest.list
  /\ \E placed \in SUBSET (lives \cap Open(exch)) : tps' = tps \cup placed
  /\ rest' = NoRest
  /\ UNCHANGED <<exch, fills, lives, entry, exit, up>>

----------------------------------------------------------------------------
(* The private stream (_on_execution, _handle_tp_execution): a TP fill is  *)
(* booked only for a symbol with a lifecycle and against a tracked         *)
(* position of the side it reduces.                                        *)
HandleFill(s, d) ==
  /\ up
  /\ fills[<<s, d>>] > 0
  /\ fills' = [fills EXCEPT ![<<s, d>>] = @ - 1]
  /\ tracked' = IF s \in lives
                THEN [tracked EXCEPT ![s] = Reduced(tracked[s], d, 1)]
                ELSE tracked
  /\ UNCHANGED <<exch, tps, lives, entry, exit, rest, up>>

----------------------------------------------------------------------------
(* The process dies: everything in memory is lost, the exchange keeps its  *)
(* positions and orders.                                                   *)
Crash ==
  /\ up
  /\ "crash" \in Faults
  /\ up' = FALSE
  /\ fills' = NoFills /\ tracked' = Flat /\ lives' = {}
  /\ entry' = NoEntry /\ exit' = NoExit /\ rest' = NoRest
  /\ UNCHANGED <<exch, tps>>

(* Mutant: adopted positions get no lifecycle.                             *)
BootSyncNoOrphans ==
  /\ ~up
  /\ ~(FlattenOnBoot /\ Open(exch) # {})
  /\ up' = TRUE
  /\ tracked' = exch
  /\ UNCHANGED <<exch, tps, fills, lives, entry, exit, rest>>

(* _boot without an emergency flatten: adopt the exchange's positions and, *)
(* if configured, register a lifecycle for each of them.                   *)
BootSync ==
  /\ ~up
  /\ ~(FlattenOnBoot /\ Open(exch) # {})
  /\ up' = TRUE
  /\ tracked' = exch
  /\ lives' = IF RecoverOrphans THEN Open(exch) ELSE {}
  /\ UNCHANGED <<exch, tps, fills, entry, exit, rest>>

(* _boot with emergency_flatten_on_startup: close every listed position,   *)
(* then take the book to be empty, whatever the closes returned.           *)
(* Executor.emergency_flatten reads the side of a position from the sign   *)
(* of its size, and the exchange lists sizes without a sign, so each close *)
(* is a reduce-only sell.                                                  *)
BootFlatten ==
  /\ ~up
  /\ FlattenOnBoot /\ Open(exch) # {}
  /\ up' = TRUE
  /\ \E rejected \in SUBSET Symbol :
        /\ "closeRejected" \notin Faults => rejected = {}
        /\ exch' = [s \in Symbol |->
                      IF s \in rejected THEN exch[s]
                      ELSE Reduced(exch[s], 1, Abs(exch[s]))]
  /\ tps' = {s \in tps : exch'[s] # 0}
  /\ UNCHANGED <<fills, tracked, lives, entry, exit, rest>>

(* _boot goes on with an empty book when its position request fails.       *)
BootUnsynced ==
  /\ ~up
  /\ "bootSyncFails" \in Faults
  /\ up' = TRUE
  /\ UNCHANGED <<exch, tps, fills, tracked, lives, entry, exit, rest>>

----------------------------------------------------------------------------
EntryNext == EntryAccepted \/ EntryReplyLost \/ EntryRefused \/ EntryBook
ExitNext == ExitClosed \/ ExitReplyLost \/ ExitRejected \/ ExitForget
RestNext == RestList \/ RestApply
BootNext == BootSync \/ BootFlatten \/ BootUnsynced

Next ==
  \/ \E s \in Symbol :
        \/ TpFill(s)
        \/ StopHit(s)
        \/ ExitStart(s)
        \/ \E d \in Side : EntryStart(s, d) \/ HandleFill(s, d)
  \/ EntryNext \/ ExitNext \/ RestNext \/ BootNext \/ Crash

Spec == Init /\ [][Next]_vars

(* The threads keep running: a REST call returns or raises, the loops      *)
(* sleep and repeat, the stream delivers, and the service manager restarts *)
(* a dead process.  Nothing makes the exchange fill, a signal appear or an *)
(* exit condition hold.                                                    *)
FairSpec ==
  /\ Spec
  /\ WF_vars(EntryNext) /\ WF_vars(ExitNext)
  /\ WF_vars(RestList) /\ WF_vars(RestApply) /\ WF_vars(BootNext)
  /\ \A s \in Symbol, d \in Side : WF_vars(HandleFill(s, d))

----------------------------------------------------------------------------
(* Safety, when no two threads overlap and no call fails: the exchange     *)
(* never holds a position the book understates - once an entry is booked,  *)
(* every position is tracked on its side with at least its size, counting  *)
(* the fills the stream has yet to deliver.                                *)
Booked(s) ==
  /\ Sign(tracked[s]) = Sign(exch[s])
  /\ Abs(tracked[s]) >= Abs(exch[s]) + fills[<<s, Sign(exch[s])>>]

NeverUnderstated ==
  \A s \in Open(exch) : up /\ s # entry.sym => Booked(s)

(* What max_concurrent_positions is for: at most that many symbols are     *)
(* open at the exchange.                                                   *)
PositionLimit == Cardinality(Open(exch)) <= MaxPositions

(* Safety under the same conditions, across crashes and restarts: the      *)
(* position limit, and no symbol holds more than one entry's quantity.     *)
ExposureLimit == PositionLimit /\ \A s \in Symbol : Abs(exch[s]) <= Lot

(* Safety under the same conditions, with orphan recovery: every position  *)
(* at the exchange has a lifecycle, so its time stop and its take-profit   *)
(* orders will be handled.                                                 *)
EveryPositionManaged ==
  \A s \in Open(exch) : up /\ s # entry.sym => s \in lives

(* Liveness, whatever overlaps and fails: once the exchange's positions    *)
(* stop changing and the process stays up, periodic reconciliation makes   *)
(* the book equal to them for good.                                        *)
ReconciliationHeals ==
  <>[][exch' = exch /\ up' = up]_vars
     => <>[](\A s \in Symbol : tracked[s] = exch[s])

(* The lifecycle management README.md and docs/ARCHITECTURE.md describe:   *)
(* a position is closed or comes under a lifecycle, unless the process     *)
(* goes down.                                                              *)
EventuallyManaged ==
  \A s \in Symbol : (exch[s] # 0) ~> (exch[s] = 0 \/ s \in lives \/ ~up)

(* Executor.emergency_flatten, "Close all positions.": a start with        *)
(* emergency_flatten_on_startup leaves no position open.                   *)
FlattenClosesAll == [][FlattenOnBoot /\ BootNext => exch' = Flat]_vars
============================================================================
