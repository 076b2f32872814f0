----------------------------- MODULE MCMarketFeed -----------------------------
(* Model checking of MarketFeed.                                           *)
EXTENDS MarketFeed

(* More symbols than are streamed, one of them, none.                      *)
SomeUniverses == {{1, 2, 3, 4}, {2}, {}}
===============================================================================
