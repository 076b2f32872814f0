----------------------------- MODULE RiskGate -----------------------------
(***************************************************************************)
(* The limits on new entries: RiskEngine of src/src/risk/risk_engine.py as *)
(* the scoring loop of src/src/main.py (_score_and_enter_loop) uses it.    *)
(*                                                                         *)
(* A cycle of the loop checks the kill switches, counts the positions of   *)
(* each side, turns signals into candidates and then places one order      *)
(* after the other.  Orders are REST calls: positions leave the book, and  *)
(* losses are reported, between two of them.                               *)
(*                                                                         *)
(* Abstractions: a position is its side; the notional and risk totals are  *)
(* left out (their checks have the form of the count checks); time passes  *)
(* in ticks and only ages are kept, those of an hour or more as one; a     *)
(* signal is one that passed eligibility and sizing.                       *)
(***************************************************************************)
EXTENDS Integers, FiniteSets, Sequences

CONSTANTS
  Symbol,
  MaxPositions,     (* config.risk.max_concurrent_positions                *)
  MaxPerSide,       (* config.risk.max_positions_per_side                  *)
  MaxTradesPerHour, (* config.risk.max_trades_per_hour                     *)
  ErrorThreshold,   (* config.risk.api_error_threshold                     *)
  LossLimit,        (* config.risk.max_daily_realized_loss_usdt, in units  *)
  Hour,             (* ticks in an hour                                    *)
  Stage5            (* config.stage5_enabled                               *)

ASSUME GateAssumption ==
  /\ IsFiniteSet(Symbol)
  /\ {MaxPositions, MaxPerSide, MaxTradesPerHour, ErrorThreshold,
      LossLimit, Hour} \subseteq Nat \ {0}
  /\ Stage5 \in BOOLEAN

Side == {"Buy", "Sell"}
Age == 0..Hour                    (* Hour: an hour old or older            *)

VARIABLES
  side,      (* side of each tracked position, "none" if there is none     *)
  window,    (* _trades_this_hour: the ages of its entries, oldest first   *)
  errors,    (* _api_errors_this_period, up to ErrorThreshold              *)
  errorAge,  (* the age of _last_error_reset_ts                            *)
  loss,      (* the realized loss recorded so far, up to LossLimit         *)
  killed,    (* kill_switch_triggered                                      *)
  cycle,     (* the cycle in progress                                      *)
  running,   (* is the scoring loop running?                               *)
  late       (* history: the positions entered with the counts of a start  *)

vars == <<side, window, errors, errorAge, loss, killed, cycle, running, late>>

NoCycle == [at |-> "idle", todo |-> {}, longs |-> 0, shorts |-> 0, fresh |-> FALSE]

Held(d) == {s \in Symbol : side[s] = d}
Count == Cardinality(Held("Buy")) + Cardinality(Held("Sell"))
Trades == Len(window)

TypeOK ==
  /\ side \in [Symbol -> Side \cup {"none"}]
  /\ window \in Seq(Age)
  /\ errors \in 0..ErrorThreshold /\ errorAge \in Age
  /\ loss \in 0..LossLimit
  /\ killed \in BOOLEAN /\ running \in BOOLEAN
  /\ cycle \in [at : {"idle", "entering"}, todo : SUBSET (Symbol \X Side),
                longs : 0..Cardinality(Symbol), shorts : 0..Cardinality(Symbol),
                fresh : BOOLEAN]
  /\ late \subseteq Symbol

Init ==
  /\ side = [s \in Symbol |-> "none"]
  /\ window = <<>>
  /\ errors = 0 /\ errorAge = Hour
  /\ loss = 0 /\ killed = FALSE
  /\ cycle = NoCycle /\ running = TRUE /\ late = {}

----------------------------------------------------------------------------
(* Mutant: the hourly limit is off by one.                                 *)
CanOpenOneTradeMore(longs, shorts) ==
  /\ ~killed
  /\ Count < MaxPositions
  /\ longs < MaxPerSide /\ shorts < MaxPerSide
  /\ Trades <= MaxTradesPerHour
  /\ errors < ErrorThreshold

(* can_open_position, with the long and short counts of the caller: a full *)
(* side blocks entries of both sides.                                      *)
CanOpen(longs, shorts) ==
  /\ ~killed
  /\ Count < MaxPositions
  /\ longs < MaxPerSide /\ shorts < MaxPerSide
  /\ Trades < MaxTradesPerHour
  /\ errors < ErrorThreshold

(* record_trade appends, then drops what is older than an hour: the first  *)
(* entries, as they stand in the order in which they were recorded.        *)
RecordTrade ==
  LET longer == Append(window, 0)
      old == Cardinality({i \in DOMAIN longer : longer[i] = Hour})
  IN window' = SubSeq(longer, old + 1, Len(longer))

(* record_api_error: the period starts anew at the first error after it.   *)
RecordApiError ==
  IF errorAge = Hour
  THEN errors' = 1 /\ errorAge' = 0
  ELSE /\ errors' = IF errors = ErrorThreshold THEN errors ELSE errors + 1
       /\ UNCHANGED errorAge

----------------------------------------------------------------------------
(* Mutant: the realized loss is not looked at again after the first entry. *)
KillSwitchOnlyAtStart ==
  /\ running /\ cycle = NoCycle
  /\ loss = LossLimit /\ Trades = 0
  /\ killed' = TRUE /\ running' = FALSE
  /\ UNCHANGED <<side, window, errors, errorAge, loss, cycle, late>>

(* A cycle in which a daily limit is reached ends the loop and the process *)
(* (check_daily_drawdown and check_daily_realized_loss).                   *)
KillSwitch ==
  /\ running /\ cycle = NoCycle
  /\ loss = LossLimit
  /\ killed' = TRUE /\ running' = FALSE
  /\ UNCHANGED <<side, window, errors, errorAge, loss, cycle, late>>

(* Otherwise the positions of each side are counted, and the signals that  *)
(* pass can_open_position are candidates.  With stage 5 and a candidate,   *)
(* the orders of the cycle are an allocation of the candidates, checked    *)
(* with fresh counts before each order; without, they are the signals,     *)
(* checked with the counts of the start.                                   *)
CycleStart(signals) ==
  LET longs == Cardinality(Held("Buy"))
      shorts == Cardinality(Held("Sell"))
      open == CanOpen(longs, shorts)
      candidates == {x \in signals : side[x[1]] = "none" /\ open}
      allocated == Stage5 /\ candidates # {}
  IN /\ running /\ cycle = NoCycle
     /\ loss < LossLimit
     /\ cycle' = [at |-> "entering", longs |-> longs, shorts |-> shorts,
                  fresh |-> allocated,
                  todo |-> IF allocated THEN candidates ELSE signals]
     /\ UNCHANGED <<side, window, errors, errorAge, loss, killed, running, late>>

(* Mutant: the allocated orders too are checked with the first counts.     *)
PassesStale(x) ==
  side[x[1]] = "none" /\ CanOpen(cycle.longs, cycle.shorts)

(* The last check before an order.                                         *)
Passes(x) ==
  /\ side[x[1]] = "none" \/ cycle.fresh
  /\ IF cycle.fresh
     THEN CanOpen(Cardinality(Held("Buy")), Cardinality(Held("Sell")))
     ELSE CanOpen(cycle.longs, cycle.shorts)

(* x is dealt with.                                                        *)
Done(x) == cycle' = [cycle EXCEPT !.todo = @ \ {x}]

(* The next order is placed and booked ...                                 *)
Enter(x) ==
  /\ x \in cycle.todo /\ Passes(x)
  /\ RecordTrade
  /\ side' = [side EXCEPT ![x[1]] = x[2]]
  /\ late' = IF cycle.fresh THEN late \ {x[1]} ELSE late \cup {x[1]}
  /\ Done(x)
  /\ UNCHANGED <<errors, errorAge, loss, killed, running>>

(* ... or fails ...                                                        *)
OrderFails(x) ==
  /\ x \in cycle.todo /\ Passes(x)
  /\ RecordApiError
  /\ Done(x)
  /\ UNCHANGED <<side, window, loss, killed, running, late>>

(* ... or is not placed: a limit, or the allocator, rejects it.            *)
Reject(x) ==
  /\ x \in cycle.todo
  /\ ~Passes(x) \/ Stage5
  /\ Done(x)
  /\ UNCHANGED <<side, window, errors, errorAge, loss, killed, running, late>>

CycleEnd ==
  /\ cycle.at = "entering" /\ cycle.todo = {}
  /\ cycle' = NoCycle
  /\ UNCHANGED <<side, window, errors, errorAge, loss, killed, running, late>>

----------------------------------------------------------------------------
(* Mutant: a closed position stays in the book, marked.                    *)
LeaveMarks(s, lost) ==
  /\ running
  /\ side[s] # "none"
  /\ side' = [side EXCEPT ![s] = "closed"]
  /\ late' = late \ {s}
  /\ loss' = IF loss + lost > LossLimit THEN LossLimit ELSE loss + lost
  /\ UNCHANGED <<window, errors, errorAge, killed, cycle, running>>

(* The other threads: a position is closed or dropped, at a loss or not;   *)
(* the equity request of the loop fails; time passes.                      *)
Leave(s, lost) ==
  /\ running
  /\ side[s] # "none"
  /\ side' = [side EXCEPT ![s] = "none"]
  /\ late' = late \ {s}
  /\ loss' = IF loss + lost > LossLimit THEN LossLimit ELSE loss + lost
  /\ UNCHANGED <<window, errors, errorAge, killed, cycle, running>>

EquityFails ==
  /\ running /\ cycle = NoCycle
  /\ RecordApiError
  /\ UNCHANGED <<side, window, loss, killed, cycle, running, late>>

Older(a) == IF a = Hour THEN Hour ELSE a + 1

Tick ==
  /\ running
  /\ window' = [i \in DOMAIN window |-> Older(window[i])]
  /\ errorAge' = Older(errorAge)
  /\ UNCHANGED <<side, errors, loss, killed, cycle, running, late>>

(* One signal at most for a symbol: score_all ranks every symbol once.     *)
Signals == {x \in SUBSET (Symbol \X Side) : \A p, q \in x : p[1] = q[1] => p = q}

Entering ==
  \/ \E x \in Symbol \X Side : Enter(x) \/ OrderFails(x) \/ Reject(x)
  \/ CycleEnd

Next ==
  \/ KillSwitch
  \/ \E x \in Signals : CycleStart(x)
  \/ Entering
  \/ \E s \in Symbol, lost \in {0, 1} : Leave(s, lost)
  \/ EquityFails
  \/ Tick

Spec == Init /\ [][Next]_vars

(* A cycle that has begun comes to its end, and the kill switch is looked  *)
(* at.                                                                     *)
CycleSpec == Spec /\ WF_vars(KillSwitch) /\ WF_vars(Entering)

(* Time passes and the loop goes on; with no signal a cycle is empty.      *)
FairSpec ==
  /\ CycleSpec
  /\ WF_vars(Tick) /\ WF_vars(\E x \in Signals : CycleStart(x))

----------------------------------------------------------------------------
(* Safety, "Max positions per side": the book never holds more positions   *)
(* in all than configured, nor more of one side, however many orders a     *)
(* cycle places and whatever closes meanwhile.  Positions entered with the *)
(* counts of the start of a cycle come on top: without stage 5 every one,  *)
(* with it those of a cycle in which no signal was a candidate.            *)
SideLimit ==
  /\ Count <= MaxPositions
  /\ \A d \in Side : Cardinality(Held(d) \ late) <= MaxPerSide

(* The limit as it is configured.  Those positions exceed it.              *)
SideLimitAlways == \A d \in Side : Cardinality(Held(d)) <= MaxPerSide

(* Safety, "max trades per hour": the orders of the last hour.             *)
HourlyLimit == Cardinality({i \in DOMAIN window : window[i] < Hour}) <= MaxTradesPerHour

(* Liveness, the kill switch: when the realized loss reaches its limit the *)
(* loop ends, even if it is in the middle of a cycle, and stays ended.     *)
LossEndsTrading == (loss = LossLimit) ~> [](~running /\ killed)

(* Liveness: an hour after the last order that filled the window, the      *)
(* hourly limit is no longer in the way.                                   *)
WindowReopens == (running /\ Trades >= MaxTradesPerHour) ~> (Trades < MaxTradesPerHour \/ ~running)

(* Liveness: the circuit breaker closes again when no call fails any more. *)
BreakerReopens ==
  (running /\ errors >= ErrorThreshold) ~> (errors < ErrorThreshold \/ ~running)
============================================================================
