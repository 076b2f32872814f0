\* Four symbols, three of them streamed on two shards; one opening outlasts a stop.
CONSTANTS
  MaxSymbol = 4
  StreamCap = 3
  PerShard = 2
  StaleAfter = 1
  Backoff = 1
  Universes <- SomeUniverses
  MaxOutlasts = 1
SPECIFICATION FairFeedSpec
INVARIANTS OneFeed FollowsUniverse
PROPERTY FeedHeals
