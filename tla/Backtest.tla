------------------------------ MODULE Backtest ------------------------------
(***************************************************************************)
(* What the search of WarmStart.tla scores a candidate by: the candles it  *)
(* fetches (src/src/warm_start/candles.py), the bar-by-bar simulation of   *)
(* the candidate's trades (src/src/warm_start/backtest_engine.py), their   *)
(* pairing into realized profits (src/src/evaluation/datasets.py) and the  *)
(* windows the research validation splits the candles into                 *)
(* (src/src/warm_start/research_validation.py).                            *)
(*                                                                         *)
(* These are sequential computations: operators on the bars of a symbol    *)
(* (ts, low, high, close, signal), on rows of trades (kind, side, qty, ts, *)
(* price, pnl) and on the archive of an exchange (the times of its         *)
(* candles, those that cannot be parsed, and the first and the last time   *)
(* asked for), each with what it is meant to compute.                      *)
(*                                                                         *)
(* Abstractions: one symbol (symbols share nothing but the signals);       *)
(* prices are integers, the ATR at an entry is 1, a quantity of the        *)
(* simulation is 1; the signal of a bar is part of the bar; what tells an  *)
(* entry, an exit and any other row apart (order_link_id) is its kind.     *)
(***************************************************************************)
EXTENDS Integers, FiniteSets, Sequences, SequencesExt

CONSTANTS
  StopAt, Tp1At, Tp2At, (* the distances of the levels from the entry      *)
  MaxHold,    (* stop_tp.max_hold_seconds                                  *)
  Move, Hold, (* what starts a synthetic trade, and its bars               *)
  Cost,       (* fee and slippage of one side, per unit of price           *)
  Limit       (* candles per request                                       *)

ASSUME BacktestAssumption ==
  /\ {StopAt, Tp1At, Tp2At, MaxHold, Move, Hold, Limit} \subseteq Nat \ {0}
  /\ Tp1At < Tp2At /\ Cost \in Nat

Opposite(side) == IF side = "Buy" THEN "Sell" ELSE "Buy"
Gain(side, from, to) == IF side = "Buy" THEN to - from ELSE from - to
Lesser(a, b) == IF a < b THEN a ELSE b
Ascending(S) == [i \in 1 .. Cardinality(S) |-> CHOOSE t \in S : Cardinality({u \in S : u <= t}) = i]

----------------------------------------------------------------------------
(* The simulation.  A position p is its side ("none" if flat), its price,  *)
(* its time, and the bars it was held.                                     *)
Worst(p, b) == Gain(p.side, p.price, IF p.side = "Buy" THEN b.low ELSE b.high)
Best(p, b) == Gain(p.side, p.price, IF p.side = "Buy" THEN b.high ELSE b.low)

(* Mutant: the take profits first.                                         *)
HitHopeful(p, b) ==
  IF Best(p, b) >= Tp2At THEN "tp2"
  ELSE IF Best(p, b) >= Tp1At THEN "tp1"
  ELSE IF Worst(p, b) <= -StopAt THEN "stop_loss" ELSE "none"

(* _intrabar_exit_long and _intrabar_exit_short.                           *)
Hit(p, b) ==
  IF Worst(p, b) <= -StopAt THEN "stop_loss"
  ELSE IF Best(p, b) >= Tp2At THEN "tp2"
  ELSE IF Best(p, b) >= Tp1At THEN "tp1" ELSE "none"

(* The interval is inferred from the first two bars.                       *)
MaxHoldBars(bars) ==
  LET n == MaxHold \div (bars[2].ts - bars[1].ts) IN IF n < 1 THEN 1 ELSE n

(* Why a position is closed on a bar, and at which price.                  *)
Reason(p, b, mostBars) ==
  IF Hit(p, b) # "none" THEN Hit(p, b)
  ELSE IF b.ts - p.ts >= MaxHold THEN "time_stop"
  ELSE IF b.signal = Opposite(p.side) THEN "opposite_signal"
  ELSE IF p.bars + 1 >= mostBars THEN "max_hold" ELSE "none"

Level(reason) == CASE reason = "stop_loss" -> -StopAt [] reason = "tp1" -> Tp1At [] reason = "tp2" -> Tp2At

ExitPrice(p, b, reason) ==
  IF reason \in {"stop_loss", "tp1", "tp2"}
  THEN IF p.side = "Buy" THEN p.price + Level(reason) ELSE p.price - Level(reason)
  ELSE b.close

Trip(p, ts, price, reason) ==
  [side |-> p.side, from |-> p.ts, entry |-> p.price, to |-> ts, exit |-> price, why |-> reason]

Exits(s, b, mostBars) ==
  LET reason == Reason(s.pos, b, mostBars) IN
  IF s.pos.side = "none" THEN s
  ELSE IF reason = "none" THEN [s EXCEPT !.pos.bars = @ + 1]
  ELSE [s EXCEPT !.pos.side = "none",
                 !.trips = Append(@, Trip(s.pos, b.ts, ExitPrice(s.pos, b, reason), reason))]

(* A position that was closed on the bar may be followed by one entered at *)
(* the close of the same bar.                                              *)
Enters(s, b) ==
  IF s.pos.side # "none" \/ b.signal = "none" THEN s
  ELSE [s EXCEPT !.pos = [side |-> b.signal, price |-> b.close, ts |-> b.ts, bars |-> 0]]

(* _run_protection_aware_simulation; what is open at the end is left out.  *)
Flat == [pos |-> [side |-> "none", price |-> 0, ts |-> 0, bars |-> 0], trips |-> <<>>]

RoundTrips(bars) ==
  LET after[n \in 0 .. Len(bars)] ==
        IF n = 0 THEN Flat
        ELSE Enters(Exits(after[n - 1], bars[n], MaxHoldBars(bars)), bars[n]) IN
  IF Len(bars) < 2 THEN <<>> ELSE after[Len(bars)].trips

(* candles_to_synthetic_trades: momentum trades of Hold bars, none of      *)
(* which starts before the bar after the last one's exit.                  *)
Synthetic(bars) ==
  LET TripAt(i, side) == [side |-> side, from |-> bars[i + 1].ts, entry |-> bars[i + 1].close,
                          to |-> bars[Lesser(i + 1 + Hold, Len(bars))].ts,
                          exit |-> bars[Lesser(i + 1 + Hold, Len(bars))].close, why |-> "tp1"]
      Change(i) == bars[i + 1].close - bars[i].close
      trips[i \in 1 .. Len(bars) + 1] ==
        IF i > Len(bars) - Hold THEN <<>>
        ELSE IF Change(i) >= Move \/ Change(i) <= -Move
        THEN <<TripAt(i, IF Change(i) > 0 THEN "Buy" ELSE "Sell")>>
               \o trips[Lesser(i + 1 + Hold, Len(bars)) + 1]
        ELSE trips[i + 1] IN
  trips[1]

(* The two rows of each round trip, in the order they are sorted into.     *)
Row(kind, side, ts, price, pnl) ==
  [kind |-> kind, side |-> side, qty |-> 1, ts |-> ts, price |-> price, pnl |-> pnl]

Rows(trips) ==
  [k \in 1 .. 2 * Len(trips) |->
     LET t == trips[(k + 1) \div 2] IN
     IF k % 2 = 1 THEN Row("entry", t.side, t.from, t.entry, 0)
     ELSE Row("exit", Opposite(t.side), t.to, t.exit, Gain(t.side, t.entry, t.exit))]

----------------------------------------------------------------------------
(* _apply_costs_and_metrics charges each exit the cost of its round trip   *)
(* ...                                                                     *)
Charge(s, r) ==
  IF r.kind = "entry" THEN [s EXCEPT !.stack = Append(@, r.price), !.rows = Append(@, r)]
  ELSE IF s.stack = <<>> THEN [s EXCEPT !.rows = Append(@, r)]
  ELSE LET cost == Cost * (Head(s.stack) + r.price) IN
       [stack |-> Tail(s.stack), total |-> s.total + cost,
        rows |-> Append(s.rows, [r EXCEPT !.pnl = @ - cost])]

Charged(rows) == FoldLeft(Charge, [stack |-> <<>>, total |-> 0, rows |-> <<>>], rows)

(* One turn of the loop of an exit r, which takes what it can of the       *)
(* oldest entry of the queue.  Mutant: an entry is used up by any exit.    *)
TakeWhole(r, m) ==
  LET e == Head(m.queue)
      n == Lesser(m.left, e.qty) IN
  IF m.left = 0 \/ m.queue = <<>> THEN m
  ELSE [left |-> m.left - n, queue |-> Tail(m.queue),
        gain |-> m.gain + n * Gain(e.side, e.price, r.price),
        spans |-> Append(m.spans, r.ts - e.ts)]

Take(r, m) ==
  LET e == Head(m.queue)
      n == Lesser(m.left, e.qty) IN
  IF m.left = 0 \/ m.queue = <<>> THEN m
  ELSE [left |-> m.left - n,
        queue |-> IF n = e.qty THEN Tail(m.queue) ELSE [m.queue EXCEPT ![1].qty = @ - n],
        gain |-> m.gain + n * Gain(e.side, e.price, r.price),
        spans |-> IF n = e.qty THEN Append(m.spans, r.ts - e.ts) ELSE m.spans]

(* The loop: at most one turn for each entry of the queue.                 *)
Matched(r, queue) ==
  LET after[k \in 0 .. Len(queue)] ==
        IF k = 0 THEN [left |-> r.qty, queue |-> queue, gain |-> 0, spans |-> <<>>]
        ELSE Take(r, after[k - 1]) IN
  after[Len(queue)]

(* compute_realized_pnl_by_pairing and get_trade_durations_sec: a queue    *)
(* per side; a row that matches something gets the profit of the match, in *)
(* place of what it said.                                                  *)
Pair(s, r) ==
  LET side == Opposite(r.side)
      m == Matched(r, s.queue[side])
  IN CASE r.kind = "entry" -> [s EXCEPT !.queue[r.side] = Append(@, r), !.rows = Append(@, r)]
       [] r.kind = "exit" ->
            [queue |-> [s.queue EXCEPT ![side] = m.queue],
             rows |-> Append(s.rows, IF m.left < r.qty THEN [r EXCEPT !.pnl = m.gain] ELSE r),
             spans |-> s.spans \o m.spans]
       [] OTHER -> [s EXCEPT !.rows = Append(@, r)]

Unpaired == [queue |-> [side \in {"Buy", "Sell"} |-> <<>>], rows |-> <<>>, spans |-> <<>>]

Paired(rows) ==
  LET after[n \in 0 .. Len(rows)] == IF n = 0 THEN Unpaired ELSE Pair(after[n - 1], rows[n]) IN
  after[Len(rows)]

(* ... but what the metrics are computed from is paired afterwards.        *)
Backtested(bars) == Paired(Charged(Rows(RoundTrips(bars))).rows).rows

----------------------------------------------------------------------------
(* fetch_klines_chunk: the newest Limit candles that start no later than   *)
(* end, without those that cannot be parsed.                               *)
Newest(S) == {t \in S : Cardinality({u \in S : u > t}) < Limit}
Chunk(a, end) == Newest({t \in a.times : t <= end}) \ a.bad

(* Mutant: a full chunk is taken for the last one.                         *)
LastChunkFull(chunk) == Cardinality(chunk) <= Limit

LastChunk(chunk) == Cardinality(chunk) < Limit

(* fetch_klines_for_symbol, backwards from the end.                        *)
Fetched(a) ==
  LET from[end \in -1 .. a.last] ==
        LET chunk == Chunk(a, end)
            oldest == CHOOSE t \in chunk : \A u \in chunk : t <= u IN
        IF end <= a.first \/ chunk = {} THEN <<>>
        ELSE (IF LastChunk(chunk) THEN <<>> ELSE from[oldest - 1])
               \o Ascending(chunk \cap a.first .. a.last) IN
  from[a.last]

(* _time_windows (n windows of at least 4n candles) and _quarter_candles   *)
(* (four of at least 20), of sorted starting times; a window of few        *)
(* candles is dropped.                                                     *)
Cut(times, n, k) == times[1] + (k * (times[Len(times)] - times[1])) \div n
Window(times, n, k) == {t \in ToSet(times) : Cut(times, n, k - 1) <= t /\ t < Cut(times, n, k)}
Windows(times, n, fewest) == {w \in {Window(times, n, k) : k \in 1 .. n} : Cardinality(w) >= fewest}

TimeWindows(times, n) == IF Len(times) < 4 * n THEN {} ELSE Windows(times, n, 3)
Quarters(times) == IF Len(times) < 20 THEN {} ELSE Windows(times, 4, 2)

----------------------------------------------------------------------------
(* Safety, "conservative (stop first) and deterministic": a position is    *)
(* closed on the first bar that reached a level, spoke against it or is    *)
(* too late, on a bar that reached the stop at the loss of the stop, and   *)
(* at no other bar for a level; round trips do not overlap; with no bar    *)
(* missing none lasts longer than max_hold_seconds.                        *)
Between(bars, from, to) == {i \in DOMAIN bars : from < bars[i].ts /\ bars[i].ts < to}
Reached(t, b) == [worst |-> Gain(t.side, t.entry, IF t.side = "Buy" THEN b.low ELSE b.high),
                  best |-> Gain(t.side, t.entry, IF t.side = "Buy" THEN b.high ELSE b.low)]
Regular(bars) == \A i \in 3 .. Len(bars) : bars[i].ts - bars[i - 1].ts = bars[2].ts - bars[1].ts

Conservative(bars) ==
  LET trips == RoundTrips(bars) IN
  \A n \in DOMAIN trips :
    LET t == trips[n]
        gain == Gain(t.side, t.entry, t.exit)
        step == bars[2].ts - bars[1].ts IN
    /\ \A i \in Between(bars, t.from, t.to) :
         /\ Reached(t, bars[i]).worst > -StopAt /\ Reached(t, bars[i]).best < Tp1At
         /\ bars[i].signal # Opposite(t.side)
         /\ bars[i].ts - t.from < MaxHold
    /\ \A i \in DOMAIN bars : bars[i].ts = t.to =>
         /\ Reached(t, bars[i]).worst <= -StopAt => gain = -StopAt
         /\ Reached(t, bars[i]).worst > -StopAt /\ Reached(t, bars[i]).best >= Tp1At
              => gain = IF Reached(t, bars[i]).best >= Tp2At THEN Tp2At ELSE Tp1At
    /\ n > 1 => trips[n - 1].to <= t.from
    /\ Regular(bars) => t.to - t.from <= IF MaxHold < step THEN step ELSE MaxHold

(* Safety, "FIFO": number the units of the entries of a side in the order  *)
(* they were bought or sold.  The exits take them in this order, never one *)
(* twice and never one that is not there yet; an exit's profit is that of  *)
(* the units it takes; an entry's duration ends with its last unit.        *)
Sums(w) == LET sum[n \in 0 .. Len(w)] == IF n = 0 THEN 0 ELSE sum[n - 1] + w[n] IN sum

Enter(r, side) == r.kind = "entry" /\ r.side = side

(* The units of a side entered by the first rows; taken of them; the row   *)
(* that entered a unit; and what was paid for the first units.             *)
Entered(rows, side) == Sums([n \in DOMAIN rows |-> IF Enter(rows[n], side) THEN rows[n].qty ELSE 0])

Taken(rows, side) ==
  LET entered == Entered(rows, side)
      taken[n \in 0 .. Len(rows)] ==
        IF n = 0 THEN 0
        ELSE IF rows[n].kind = "exit" /\ rows[n].side = Opposite(side)
        THEN taken[n - 1] + Lesser(rows[n].qty, entered[n] - taken[n - 1])
        ELSE taken[n - 1] IN
  taken

Owner(rows, side, unit) ==
  LET entered == Entered(rows, side) IN
  CHOOSE n \in DOMAIN rows : entered[n - 1] < unit /\ unit <= entered[n]

Paid(rows, side) ==
  Sums([unit \in 1 .. Entered(rows, side)[Len(rows)] |-> rows[Owner(rows, side, unit)].price])

(* The exit n takes the units after the first Low(n), up to High(n).       *)
Low(rows, n) == Taken(rows, Opposite(rows[n].side))[n - 1]
High(rows, n) == Taken(rows, Opposite(rows[n].side))[n]
Takes(rows, n) == rows[n].kind = "exit" /\ Low(rows, n) < High(rows, n)

Profit(rows, n) ==
  LET side == Opposite(rows[n].side)
      paid == Paid(rows, side) IN
  Gain(side, paid[High(rows, n)] - paid[Low(rows, n)], (High(rows, n) - Low(rows, n)) * rows[n].price)

(* The entries of a side whose last unit is among these.                   *)
UsedUp(rows, side, low, high) ==
  {p \in DOMAIN rows : /\ Enter(rows[p], side)
                       /\ low < Entered(rows, side)[p] /\ Entered(rows, side)[p] <= high}

Ended(rows) ==
  {x \in (DOMAIN rows) \X (DOMAIN rows) :
     /\ rows[x[1]].kind = "exit"
     /\ x[2] \in UsedUp(rows, Opposite(rows[x[1]].side), Low(rows, x[1]), High(rows, x[1]))}

Fifo(rows) ==
  /\ Paired(rows).rows = [n \in DOMAIN rows |-> IF Takes(rows, n) THEN [rows[n] EXCEPT !.pnl = Profit(rows, n)]
                                                 ELSE rows[n]]
  /\ Len(Paired(rows).spans) = Cardinality(Ended(rows))
  /\ ToSet(Paired(rows).spans) = {rows[x[1]].ts - rows[x[2]].ts : x \in Ended(rows)}

(* Safety: the pairing finds in the rows of a backtest, and in those of    *)
(* the synthetic trades, the profits they were recorded with.              *)
Recovered(bars) ==
  \A trips \in {RoundTrips(bars), Synthetic(bars)} : Paired(Rows(trips)).rows = Rows(trips)

(* Safety: what is fetched of a symbol's candles is every one of them from *)
(* some time on, in order and once; all of them if every candle can be     *)
(* parsed.  (The first that cannot ends the search for older ones.)  And   *)
(* the windows of the research validation split up such candles, the last  *)
(* one left out, if none is missing.                                       *)
Wanted(a) == {t \in a.times \ a.bad : a.first <= t /\ t <= a.last}

NoGap(a) == \E t \in -1 .. a.last + 1 : Fetched(a) = Ascending({u \in Wanted(a) : u >= t})
NoneMissing(a) == a.bad = {} => ToSet(Fetched(a)) = Wanted(a)

SplitUp(times, windows) ==
  /\ UNION windows = ToSet(times) \ {times[Len(times)]}
  /\ \A v, w \in windows :
       v = w \/ (\A t \in v, u \in w : t < u) \/ (\A t \in v, u \in w : u < t)

Evenly(times) == \A i \in 2 .. Len(times) : times[i] - times[i - 1] = times[2] - times[1]

Divided(got) ==
  Evenly(got) =>
    /\ \A n \in {2, 3} : Len(got) >= 4 * n => SplitUp(got, TimeWindows(got, n))
    /\ Len(got) >= 20 => SplitUp(got, Quarters(got))

Once(a) == NoGap(a) /\ NoneMissing(a) /\ Divided(Fetched(a))

(* "Applies fee/slippage": the profits the metrics are computed from are   *)
(* net of the costs.  They are not: pairing replaces the charged profits.  *)
SumPnl(rows) == FoldLeft(LAMBDA sum, r : sum + r.pnl, 0, rows)

Net(bars) ==
  LET rows == Rows(RoundTrips(bars)) IN
  SumPnl(Backtested(bars)) = SumPnl(rows) - Charged(rows).total
=============================================================================
