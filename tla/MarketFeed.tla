----------------------------- MODULE MarketFeed -----------------------------
(***************************************************************************)
(* The public WebSocket shards (src/src/exchange/ws_shard.py) and the loop *)
(* of the bot that refreshes the universe, reconnects stale shards and     *)
(* rebuilds them when the universe has changed                             *)
(* (src/src/main.py, _run_context_refresh).                                *)
(*                                                                         *)
(* A connection is opened by a thread of its own, and whoever stops a      *)
(* shard knows only of a connection that has been opened.  One whose       *)
(* opening outlasts the stop of its shard is an orphan: nobody closes it,  *)
(* and it delivers to the same callbacks.                                  *)
(*                                                                         *)
(* Abstractions: symbols are numbered in their sorted order; ages are      *)
(* counted up to their thresholds; the REST refreshes the loop does before *)
(* are left out, they read and write nothing of this; the library's own    *)
(* repair of a connection is a connection that delivers again.             *)
(***************************************************************************)
EXTENDS Naturals, FiniteSets

CONSTANTS
  MaxSymbol,   (* the symbols of the exchange are 1 .. MaxSymbol           *)
  StreamCap,   (* how many of the universe are streamed (200)              *)
  PerShard,    (* config.public_ws_max_symbols_per_connection              *)
  StaleAfter,  (* public_ws_stale_timeout_seconds                          *)
  Backoff,     (* shard_reconnect_backoff_seconds                          *)
  Universes,   (* what the filters of the universe may leave               *)
  MaxOutlasts  (* bound of the model: openings that outlast a stop         *)

ASSUME FeedAssumption ==
  /\ {MaxSymbol, StreamCap, PerShard, StaleAfter, Backoff} \subseteq Nat \ {0}
  /\ Universes \subseteq SUBSET (1 .. MaxSymbol)
  /\ MaxOutlasts \in Nat

Instrument == 1 .. MaxSymbol
MaxShards == StreamCap          (* at least one symbol each                *)
Slot == 1 .. StreamCap + MaxOutlasts
MessageAge == 0 .. StaleAfter + 1
Aged(age, limit) == IF age < limit THEN age + 1 ELSE limit

VARIABLES
  universe,   (* UniverseManager.symbols                                   *)
  symbols,    (* PublicWSShardManager.symbols                              *)
  shards,     (* PublicWSShardManager._shards                              *)
  feed,       (* the threads that open connections, and the connections    *)
  pc,         (* where the refresh loop is                                 *)
  at,         (* the shard it looks at                                     *)
  outlasted   (* history: openings that outlasted the stop of their shard  *)

feedVars == <<universe, symbols, shards, feed, pc, at, outlasted>>

(* The first n of a sorted list, and its i-th chunk.                       *)
Rank(s, S) == Cardinality({t \in S : t <= s})
First(n, S) == {s \in S : Rank(s, S) <= n}
Chunk(S, i) == {s \in S : (i - 1) * PerShard < Rank(s, S) /\ Rank(s, S) <= i * PerShard}
Chunks(S) == (Cardinality(S) + PerShard - 1) \div PerShard

NoFeed == [at |-> "none", shard |-> 0, syms |-> {}]
Opening(i, syms) == [at |-> "opening", shard |-> i, syms |-> syms]

(* A new shard never received a message and was never reconnected.         *)
NewShard(syms) == [syms |-> syms, ws |-> 0, heard |-> FALSE, age |-> 0, since |-> Backoff]

FeedTypeOK ==
  /\ universe \in Universes /\ symbols \subseteq Instrument
  /\ DOMAIN shards = 1 .. Chunks(symbols)
  /\ \A i \in DOMAIN shards :
       shards[i] \in [syms : SUBSET Instrument, ws : Slot \cup {0}, heard : BOOLEAN,
                      age : MessageAge, since : 0 .. Backoff]
  /\ feed \in [Slot -> [at : {"none", "opening", "live", "silent"},
                        shard : 0 .. MaxShards, syms : SUBSET Instrument]]
  /\ pc \in {"monitor", "restart", "sleep"}
  /\ at \in 1 .. MaxShards + 1
  /\ outlasted \in 0 .. MaxOutlasts

----------------------------------------------------------------------------
Pending(i) == {k \in Slot : feed[k].at = "opening" /\ feed[k].shard = i}

(* run_in_thread of the shards in the domain of syms, on free slots.       *)
Started(f, syms) ==
  LET Free == {k \in Slot : f[k].at = "none"}
      Nth(k) == {i \in DOMAIN syms :
                   Cardinality({j \in DOMAIN syms : j <= i}) = Rank(k, Free)} IN
  [k \in Slot |-> IF k \in Free /\ Nth(k) # {}
                  THEN LET i == CHOOSE i \in Nth(k) : TRUE IN Opening(i, syms[i])
                  ELSE f[k]]

(* Mutant: the connection is forgotten but not closed.                     *)
StoppedForgets(f, i) == f

(* stop: closes the connection the shard knows of.                         *)
Stopped(f, i) == IF shards[i].ws = 0 THEN f ELSE [f EXCEPT ![shards[i].ws] = NoFeed]

(* The threads that open connections for shards which are stopped now.     *)
Outlast(pending) ==
  /\ outlasted + Cardinality(pending) <= MaxOutlasts
  /\ outlasted' = outlasted + Cardinality(pending)

(* build_shards.                                                           *)
Built(S) == [i \in 1 .. Chunks(S) |-> NewShard(Chunk(S, i))]
Lists(s) == [i \in DOMAIN s |-> s[i].syms]

(* _boot, with the loop about to start.                                    *)
FeedInit ==
  /\ universe \in Universes \ {{}}
  /\ symbols = First(StreamCap, universe)
  /\ shards = Built(symbols)
  /\ feed = Started([k \in Slot |-> NoFeed], Lists(shards))
  /\ pc = "sleep" /\ at = 1 /\ outlasted = 0

----------------------------------------------------------------------------
(* The loop wakes up: refresh_instruments, if it is due and does not fail. *)
RefreshUniverse ==
  /\ pc = "sleep" /\ pc' = "monitor"
  /\ universe' \in Universes
  /\ UNCHANGED <<symbols, shards, feed, at, outlasted>>

(* monitor_and_reconnect, one shard at a time: reconnect_if_stale.         *)
Stale(i) ==
  /\ shards[i].heard /\ shards[i].age > StaleAfter
  /\ shards[i].since >= Backoff

PassesOver ==
  /\ pc = "monitor" /\ at \in DOMAIN shards /\ ~Stale(at)
  /\ at' = at + 1
  /\ UNCHANGED <<universe, symbols, shards, feed, pc, outlasted>>

(* Mutant: the reconnected shard starts with a clean slate.                *)
ReconnectStopsAnew ==
  /\ pc = "monitor" /\ at \in DOMAIN shards /\ Stale(at)
  /\ Outlast(Pending(at))
  /\ shards' = [shards EXCEPT ![at] = [NewShard(@.syms) EXCEPT !.since = 0]]
  /\ feed' = Stopped(feed, at)
  /\ pc' = "restart"
  /\ UNCHANGED <<universe, symbols, at>>

ReconnectStops ==
  /\ pc = "monitor" /\ at \in DOMAIN shards /\ Stale(at)
  /\ Outlast(Pending(at))
  /\ shards' = [shards EXCEPT ![at].since = 0, ![at].ws = 0]
  /\ feed' = Stopped(feed, at)
  /\ pc' = "restart"
  /\ UNCHANGED <<universe, symbols, at>>

(* After a second.                                                         *)
ReconnectStarts ==
  /\ pc = "restart" /\ pc' = "monitor" /\ at' = at + 1
  /\ feed' = Started(feed, [i \in {at} |-> shards[i].syms])
  /\ UNCHANGED <<universe, symbols, shards, outlasted>>

(* refresh_symbols, after the last shard.                                  *)
Monitored == pc = "monitor" /\ at \notin DOMAIN shards

(* Mutant: shards are kept as long as they cover the universe.             *)
KeepsCovered ==
  /\ Monitored /\ First(StreamCap, universe) \subseteq symbols
  /\ pc' = "sleep" /\ at' = 1
  /\ UNCHANGED <<universe, symbols, shards, feed, outlasted>>

Keeps ==
  /\ Monitored /\ First(StreamCap, universe) = symbols
  /\ pc' = "sleep" /\ at' = 1
  /\ UNCHANGED <<universe, symbols, shards, feed, outlasted>>

(* The feeds with every shard stopped; a thread that still opens a         *)
(* connection does so for a shard nobody refers to any more.               *)
AllStopped ==
  [k \in Slot |-> IF \E i \in DOMAIN shards : shards[i].ws = k THEN NoFeed
                  ELSE [feed[k] EXCEPT !.shard = 0]]

(* Mutant: the shards are rebuilt without stopping the old ones.           *)
RebuildsBeside ==
  /\ Monitored /\ First(StreamCap, universe) # symbols
  /\ Outlast(UNION {Pending(i) : i \in DOMAIN shards})
  /\ symbols' = First(StreamCap, universe)
  /\ shards' = Built(symbols')
  /\ feed' = Started([k \in Slot |-> [feed[k] EXCEPT !.shard = 0]], Lists(shards'))
  /\ pc' = "sleep" /\ at' = 1
  /\ UNCHANGED universe

Rebuilds ==
  /\ Monitored /\ First(StreamCap, universe) # symbols
  /\ Outlast(UNION {Pending(i) : i \in DOMAIN shards})
  /\ symbols' = First(StreamCap, universe)
  /\ shards' = Built(symbols')
  /\ feed' = Started(AllStopped, Lists(shards'))
  /\ pc' = "sleep" /\ at' = 1
  /\ UNCHANGED universe

----------------------------------------------------------------------------
(* start: the connection is there and subscribed; its shard may have been  *)
(* discarded, or may have got another connection meanwhile.                *)
Opened(k) ==
  /\ feed[k].at = "opening"
  /\ feed' = [feed EXCEPT ![k].at = "live"]
  /\ shards' = IF feed[k].shard = 0 THEN shards
               ELSE [shards EXCEPT ![feed[k].shard].ws = k]
  /\ UNCHANGED <<universe, symbols, pc, at, outlasted>>

(* The library gives up: the exception ends the thread.                    *)
OpenFails(k) ==
  /\ feed[k].at = "opening"
  /\ feed' = [feed EXCEPT ![k] = NoFeed]
  /\ UNCHANGED <<universe, symbols, shards, pc, at, outlasted>>

(* _trade_handler.                                                         *)
Message(k) ==
  /\ feed[k].at = "live" /\ feed[k].shard # 0
  /\ shards' = [shards EXCEPT ![feed[k].shard].heard = TRUE, ![feed[k].shard].age = 0]
  /\ UNCHANGED <<universe, symbols, feed, pc, at, outlasted>>

GoesSilent(k) ==
  /\ feed[k].at = "live" /\ feed[k].shard # 0
  /\ feed' = [feed EXCEPT ![k].at = "silent"]
  /\ UNCHANGED <<universe, symbols, shards, pc, at, outlasted>>

Recovers(k) ==
  /\ feed[k].at = "silent" /\ feed[k].shard # 0
  /\ feed' = [feed EXCEPT ![k].at = "live"]
  /\ UNCHANGED <<universe, symbols, shards, pc, at, outlasted>>

FeedTick ==
  /\ shards' = [i \in DOMAIN shards |->
                  [shards[i] EXCEPT !.age = IF shards[i].heard THEN Aged(@, StaleAfter + 1) ELSE 0,
                                    !.since = Aged(@, Backoff)]]
  /\ UNCHANGED <<universe, symbols, feed, pc, at, outlasted>>

Loop ==
  \/ RefreshUniverse \/ PassesOver \/ ReconnectStops \/ ReconnectStarts
  \/ Keeps \/ Rebuilds

Network(k) == Opened(k) \/ OpenFails(k) \/ Message(k) \/ GoesSilent(k) \/ Recovers(k)

FeedNext == Loop \/ FeedTick \/ \E k \in Slot : Network(k)

FeedSpec == FeedInit /\ [][FeedNext]_feedVars

(* The loop goes on and time passes; a connection that is being opened, or *)
(* opened again and again, is there at last.                               *)
FairFeedSpec ==
  /\ FeedSpec
  /\ WF_feedVars(Loop) /\ WF_feedVars(FeedTick)
  /\ \A i \in 1 .. MaxShards : SF_feedVars(\E k \in Slot : feed[k].shard = i /\ Opened(k))
----------------------------------------------------------------------------
(* The connections that deliver a symbol's trades.                         *)
Feeds(s) == {k \in Slot : feed[k].at \in {"live", "silent"} /\ s \in feed[k].syms}

(* Safety: each of a symbol's trades is delivered, and counted, once; and  *)
(* once more for every opening that outlasted the stop of its shard, for   *)
(* nobody closes that connection.  However often shards are reconnected    *)
(* and rebuilt, nothing else multiplies the connections.                   *)
OneFeed == \A s \in Instrument : Cardinality(Feeds(s)) <= 1 + outlasted

(* Safety: when the loop sleeps, the shards split up the streamed part of  *)
(* the universe, each symbol in one shard and no shard beyond its limit,   *)
(* and what is opened or open for a shard carries the symbols of that      *)
(* shard.                                                                  *)
FollowsUniverse ==
  pc = "sleep" =>
    /\ UNION {shards[i].syms : i \in DOMAIN shards} = First(StreamCap, universe)
    /\ \A i \in DOMAIN shards :
         /\ Cardinality(shards[i].syms) \in 1 .. PerShard
         /\ \A j \in DOMAIN shards \ {i} : shards[i].syms \cap shards[j].syms = {}
    /\ \A k \in Slot : feed[k].shard # 0 => feed[k].syms = shards[feed[k].shard].syms

(* Liveness: a shard that has been heard of does not stay without a        *)
(* delivering connection, unless the universe changes.                     *)
(* (One that was never heard of does: reconnect_if_stale passes over it.)  *)
Delivers(i) == \E k \in Slot : feed[k].shard = i /\ feed[k].at = "live"

FeedHeals ==
  \A i \in 1 .. MaxShards :
    (i \in DOMAIN shards /\ shards[i].heard)
       ~> (Delivers(i) \/ First(StreamCap, universe) # symbols)
=============================================================================
