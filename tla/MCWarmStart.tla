----------------------------- MODULE MCWarmStart -----------------------------
(* Model checking of WarmStart, and of the computations of Backtest it     *)
(* rests on.                                                               *)
EXTENDS WarmStart, Backtest

(* The search until a viable seed is found, with retries ...               *)
Patient == [until |-> TRUE, fallback |-> FALSE, safe |-> TRUE, require |-> TRUE,
            retry |-> TRUE, retries |-> 0, print |-> 0]

(* ... with another search space, a fallback seed and a bounded retry ...  *)
Bounded == [Patient EXCEPT !.fallback = TRUE, !.safe = FALSE, !.retries = 2, !.print = 1]

(* ... and the default, one batch and a fallback seed.                     *)
Single == [until |-> FALSE, fallback |-> TRUE, safe |-> TRUE, require |-> FALSE,
           retry |-> FALSE, retries |-> 0, print |-> 2]

Strict == [Single EXCEPT !.safe = FALSE, !.require = TRUE, !.print = 3]

AllSetups == {Patient, Bounded, Single, Strict}

(* Four bars, at the bars' interval or with one missing: a calm one, and   *)
(* three that are calm, rise to a take profit, fall to a stop or do both.  *)
Calm == [low |-> 10, high |-> 10, close |-> 10]
Shape == {Calm, [low |-> 10, high |-> 11, close |-> 11],
          [low |-> 10, high |-> 13, close |-> 12], [low |-> 8, high |-> 10, close |-> 9],
          [low |-> 7, high |-> 13, close |-> 10]}
Times == {<<0, 2, 4, 6>>, <<0, 2, 6, 8>>, <<0, 4, 6, 8>>}
Bars(times, shapes, signals) ==
  [i \in DOMAIN times |-> [ts |-> times[i], low |-> shapes[i].low, high |-> shapes[i].high,
                           close |-> shapes[i].close, signal |-> signals[i]]]
AllBars(Holds(_)) ==
  \A times \in Times, b2, b3, b4 \in Shape, signals \in [1 .. 4 -> {"none", "Buy", "Sell"}] :
    Holds(Bars(times, <<Calm, b2, b3, b4>>, signals))

(* Four rows of entries, exits and others, every price a different one.    *)
What == {<<kind, side>> : kind \in {"entry", "exit"}, side \in {"Buy", "Sell"}} \cup {<<"other", "Sell">>}
Ledger(what, qty) ==
  [i \in DOMAIN what |-> [kind |-> what[i][1], side |-> what[i][2], qty |-> qty[i],
                          ts |-> i * i, price |-> i * i * i, pnl |-> 0]]

(* Candles at even times, some missing, at most one that cannot be parsed, *)
(* and up to 22 in a row.                                                  *)
Even(n) == {2 * i : i \in 0 .. n}
Full(n) == [times |-> Even(n), bad |-> {}, first |-> 0, last |-> 2 * n]
Gappy(times, bad, first, last) == [times |-> times, bad |-> bad, first |-> first, last |-> last]

BarsConservative == AllBars(Conservative)
BarsRecovered == AllBars(Recovered)
LedgersFifo == \A what \in [1 .. 4 -> What], qty \in [1 .. 4 -> 1 .. 2] : Fifo(Ledger(what, qty))
ArchivesOnce ==
  /\ \A n \in 7 .. 21 : Once(Full(n))
  /\ \A times \in SUBSET Even(6), bad \in {{}} \cup {{t} : t \in Even(6)}, first \in {0, 3}, last \in {9, 12} :
       Once(Gappy(times, bad, first, last))

(* Safety: whenever a batch is scored, its backtests close positions       *)
(* conservatively (Conservative), whatever the bars are.                   *)
TripsConservative == pc = "search" => BarsConservative

(* Safety: ... profits are paired first in, first out (Fifo), whatever the *)
(* rows are, and are those of the trades that were simulated (Recovered).  *)
FifoPairing == pc = "search" => LedgersFifo /\ BarsRecovered

(* Safety: ... and candles are fetched and split up once (Once), whatever  *)
(* the exchange has of them.                                               *)
CandlesOnce == pc = "search" => ArchivesOnce

(* "Applies fee/slippage" (Net) does not hold.                             *)
BarsNet == AllBars(Net)
CostsCharged == pc = "search" => BarsNet
==============================================================================
