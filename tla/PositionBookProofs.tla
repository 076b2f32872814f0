------------------------ MODULE PositionBookProofs ------------------------
(***************************************************************************)
(* Proofs about PositionBook.                                              *)
(***************************************************************************)
EXTENDS PositionBook, FiniteSetTheorems, TLAPS

(* The conditions of the safety properties: no two threads overlap, no     *)
(* call fails, and a restart does not flatten.  Crashes may happen.        *)
Calm ==
  /\ ~Overlap
  /\ Faults \subseteq {"crash"}
  /\ ~FlattenOnBoot

(* A record p of the position of s, signed like it, is at least as large   *)
(* as the position and the fills the stream still has to report.           *)
Dominates(p, s) ==
  exch[s] # 0 => /\ Sign(p) = Sign(exch[s])
                 /\ Abs(p) >= Abs(exch[s]) + fills[<<s, Sign(exch[s])>>]

OneSection ==
  /\ entry.at # "idle" => exit.at = "idle" /\ rest.at = "idle"
  /\ exit.at # "idle" => rest.at = "idle"

Down ==
  ~up => /\ entry.at = "idle" /\ exit.at = "idle" /\ rest.at = "idle"
         /\ fills = NoFills

BookInv ==
  up => /\ \A s \in Symbol : s # entry.sym => Dominates(tracked[s], s)
        /\ Cardinality(Open(tracked)) <= MaxPositions
        /\ RecoverOrphans =>
             \A s \in Symbol : s # entry.sym /\ exch[s] # 0 => s \in lives

EntryInv ==
  /\ entry.at = "idle" => entry.sym = NoSymbol
  /\ entry.at # "idle" =>
       /\ entry.sym \in Symbol /\ entry.side \in Side
       /\ tracked[entry.sym] = 0
       /\ Cardinality(Open(tracked)) < MaxPositions
  /\ entry.at = "placing" =>
       /\ exch[entry.sym] = 0
       /\ \A d \in Side : fills[<<entry.sym, d>>] = 0
  /\ entry.at = "opened" => Dominates(entry.side * Lot, entry.sym)

ExitInv ==
  /\ exit.at # "idle" => exit.sym \in Symbol
  /\ exit.at = "closing" => Dominates(exit.pos, exit.sym)
  /\ exit.at = "closed" => exch[exit.sym] = 0

RestInv ==
  rest.at = "applying" =>
    /\ \A s \in Symbol : Dominates(rest.list[s], s)
    /\ Cardinality(Open(rest.list)) <= MaxPositions

Inv ==
  /\ TypeOK /\ OneSection /\ Down
  /\ ExposureLimit
  /\ BookInv /\ EntryInv /\ ExitInv /\ RestInv


----------------------------------------------------------------------------
(* Type correctness, whatever overlaps and fails.                          *)
LEMMA ReducedType ==
  ASSUME NEW pos \in Int, NEW d \in Int, NEW qty \in Int
  PROVE  Reduced(pos, d, qty) \in Int
BY DEF Reduced, Abs, Sign

LEMMA ReducedByOne ==
  ASSUME NEW pos \in Int, NEW n \in Int
  PROVE  /\ Reduced(pos, n, 1) \in Int
         /\ Reduced(pos, 1, n) \in Int
BY DEF Reduced, Abs, Sign

LEMMA SignType ==
  ASSUME NEW x \in Int
  PROVE  /\ Sign(x) \in Side \cup {0}
         /\ x # 0 => Sign(x) \in Side
         /\ Sign(x) \in Int
         /\ Abs(x) \in Int /\ Abs(x) >= 0
BY DEF Sign, Side, Abs

LEMMA IdleType ==
  /\ Flat \in Positions
  /\ NoFills \in [Symbol \X Side -> Nat]
  /\ NoRest \in [at : {"idle", "applying"}, list : Positions]
BY DEF Flat, Positions, NoFills, NoRest

LEMMA SetExchType ==
  ASSUME TypeOK, NEW s \in Symbol, NEW v \in Int, SetExch(s, v)
  PROVE  /\ exch' \in Positions
         /\ tps' \in SUBSET Symbol
BY DEF TypeOK, SetExch, Positions

LEMMA AnotherTryType ==
  ASSUME entry \in Orders, NEW n \in Nat, AnotherTry(n)
  PROVE  entry' \in Orders \cup {NoEntry}
<1>1. CASE entry.tries + 1 >= Attempts
  BY <1>1 DEF AnotherTry
<1>2. CASE ~(entry.tries + 1 >= Attempts)
  <2>1. entry' = [entry EXCEPT !.tries = @ + 1, !.done = @ + n]
    BY <1>2 DEF AnotherTry
  <2>2. entry.tries + 1 \in Nat /\ entry.done + n \in Nat
    BY DEF Orders
  <2> QED BY <2>1, <2>2 DEF Orders
<1> QED BY <1>1, <1>2

LEMMA Placing ==
  ASSUME TypeOK, entry.at # "idle"
  PROVE  entry \in Orders /\ entry.side \in Side /\ entry.sym \in Symbol
BY DEF TypeOK, Orders, NoEntry

LEMMA Exiting ==
  ASSUME TypeOK, exit.at # "idle"
  PROVE  exit \in Exits /\ exit.sym \in Symbol /\ exit.pos \in Int
BY DEF TypeOK, Exits, NoExit

LEMMA TypeStep == TypeOK /\ [Next]_vars => TypeOK'
<1> SUFFICES ASSUME TypeOK, [Next]_vars PROVE TypeOK'
  OBVIOUS
<1> USE BookAssumption
<1>1. ASSUME NEW s \in Symbol, TpFill(s) PROVE TypeOK'
  <2>1. Sign(exch[s]) \in Side /\ exch[s] - Sign(exch[s]) \in Int
    BY <1>1, SignType DEF TypeOK, TpFill, Positions, Side
  <2>2. exch' \in Positions /\ tps' \in SUBSET Symbol
    BY <1>1, <2>1, SetExchType DEF TpFill
  <2>3. fills' \in [Symbol \X Side -> Nat]
    <3>1. CASE up
      <4>1. PICK n \in 0..2 :
              fills' = [fills EXCEPT ![<<s, Sign(exch[s])>>] = @ + n]
        BY <1>1, <3>1 DEF TpFill
      <4> QED BY <4>1, <2>1 DEF TypeOK
    <3>2. CASE ~up
      BY <1>1, <3>2 DEF TpFill, TypeOK
    <3> QED BY <3>1, <3>2
  <2> QED BY <1>1, <2>2, <2>3 DEF TypeOK, TpFill
<1>2. ASSUME NEW s \in Symbol, StopHit(s) PROVE TypeOK'
  BY <1>2, SetExchType DEF StopHit, TypeOK
<1>3. ASSUME NEW s \in Symbol, ExitStart(s) PROVE TypeOK'
  BY <1>3 DEF ExitStart, TypeOK, Positions, Exits
<1>4. ASSUME NEW s \in Symbol, NEW d \in Side, EntryStart(s, d) PROVE TypeOK'
  BY <1>4 DEF EntryStart, TypeOK, Orders
<1>5. ASSUME NEW s \in Symbol, NEW d \in Side, HandleFill(s, d) PROVE TypeOK'
  <2>1. tracked[s] \in Int /\ d \in Int
    BY DEF TypeOK, Positions, Side
  <2>2. tracked' \in Positions
    <3>1. Reduced(tracked[s], d, 1) \in Int
      BY <2>1, ReducedByOne
    <3> QED BY <1>5, <3>1 DEF HandleFill, TypeOK, Positions
  <2>3. fills' \in [Symbol \X Side -> Nat]
    BY <1>5 DEF HandleFill, TypeOK
  <2> QED BY <1>5, <2>2, <2>3 DEF HandleFill, TypeOK
<1>6. ASSUME Executes PROVE exch' \in Positions /\ tps' \in SUBSET Symbol
  <2>1. entry \in Orders /\ entry.side \in Side /\ entry.sym \in Symbol
    BY <1>6, Placing DEF Executes
  <2>2. exch[entry.sym] + entry.side * Lot \in Int
    BY <2>1 DEF TypeOK, Positions, Side
  <2> QED BY <1>6, <2>1, <2>2, SetExchType DEF Executes
<1>7. ASSUME EntryAccepted PROVE TypeOK'
  <2>1. entry' \in Orders
    BY <1>7, Placing DEF EntryAccepted, Executes, Orders
  <2> QED BY <1>6, <1>7, <2>1 DEF EntryAccepted, TypeOK
<1>8. ASSUME EntryReplyLost PROVE TypeOK'
  <2>1. entry \in Orders
    BY <1>8, Placing DEF EntryReplyLost, Executes
  <2> QED BY <1>6, <1>8, <2>1, AnotherTryType DEF EntryReplyLost, TypeOK
<1>9. ASSUME EntryRefused PROVE TypeOK'
  <2>1. entry \in Orders
    BY <1>9, Placing DEF EntryRefused
  <2> QED BY <1>9, <2>1, AnotherTryType DEF EntryRefused, TypeOK
<1>10. ASSUME EntryBook PROVE TypeOK'
  <2>1. entry.side \in Side /\ entry.sym \in Symbol
    BY <1>10, Placing DEF EntryBook
  <2>2. entry.side * Lot \in Int
    BY <2>1 DEF Side
  <2> QED BY <1>10, <2>1, <2>2 DEF EntryBook, TypeOK, Positions
<1>11. ASSUME CloseExecutes PROVE exch' \in Positions /\ tps' \in SUBSET Symbol
  <2>1. exit.sym \in Symbol /\ exit.pos \in Int
    BY <1>11, Exiting DEF CloseExecutes
  <2>2. Reduced(exch[exit.sym], Sign(exit.pos), Abs(exit.pos)) \in Int
    <3>1. exch[exit.sym] \in Int
      BY <2>1 DEF TypeOK, Positions
    <3>2. Sign(exit.pos) \in Int /\ Abs(exit.pos) \in Int
      BY <2>1, SignType
    <3> QED BY <3>1, <3>2, ReducedType
  <2> QED BY <1>11, <2>1, <2>2, SetExchType DEF CloseExecutes
<1>12. ASSUME ExitClosed PROVE TypeOK'
  <2>1. exit' \in Exits
    BY <1>12, Exiting DEF ExitClosed, CloseExecutes, Exits
  <2> QED BY <1>11, <1>12, <2>1 DEF ExitClosed, TypeOK
<1>13. ASSUME ExitReplyLost PROVE TypeOK'
  <2>1. exit' \in Exits
    <3>1. exit \in Exits /\ exit.tries + 1 \in Nat /\ exit.at = "closing"
      BY <1>13, Exiting DEF ExitReplyLost, CloseExecutes, Exits
    <3>2. CASE exit.tries + 1 >= Attempts
      BY <1>13, <3>1, <3>2 DEF ExitReplyLost, Exits
    <3>3. CASE ~(exit.tries + 1 >= Attempts)
      BY <1>13, <3>1, <3>3 DEF ExitReplyLost, Exits
    <3> QED BY <3>2, <3>3
  <2> QED BY <1>11, <1>13, <2>1 DEF ExitReplyLost, TypeOK
<1>14. ASSUME ExitRejected PROVE TypeOK'
  <2>1. exit' \in Exits
    BY <1>14, Exiting DEF ExitRejected, Exits
  <2> QED BY <1>14, <2>1 DEF ExitRejected, TypeOK
<1>15. ASSUME ExitForget PROVE TypeOK'
  <2>1. tracked' \in Positions
    <3>1. tracked \in [Symbol -> Int] /\ tracked' = [tracked EXCEPT ![exit.sym] = 0]
      BY <1>15 DEF ExitForget, TypeOK, Positions
    <3>2. \A s \in Symbol : tracked'[s] \in Int
      BY <3>1
    <3> QED BY <3>1, <3>2 DEF Positions
  <2>2. lives' \in SUBSET Symbol
    BY <1>15 DEF ExitForget, TypeOK
  <2> QED BY <1>15, <2>1, <2>2 DEF ExitForget, TypeOK
<1>16. ASSUME RestNext PROVE TypeOK'
  <2>1. CASE RestList
    BY <2>1 DEF RestList, TypeOK
  <2>2. CASE RestApply
    <3>1. tps' \in SUBSET Symbol
      BY <2>2 DEF RestApply, TypeOK, Open
    <3>2. tracked' \in Positions
      BY <2>2 DEF RestApply, TypeOK
    <3> QED BY <2>2, <3>1, <3>2, IdleType DEF RestApply, TypeOK
  <2> QED BY <1>16, <2>1, <2>2 DEF RestNext
<1>17. ASSUME BootSync PROVE TypeOK'
  BY <1>17 DEF BootSync, TypeOK, Open
<1>18. ASSUME BootFlatten PROVE TypeOK'
  <2>1. \A s \in Symbol : Reduced(exch[s], 1, Abs(exch[s])) \in Int
    <3>1. TAKE s \in Symbol
    <3>2. exch[s] \in Int /\ Abs(exch[s]) \in Int
      BY SignType DEF TypeOK, Positions
    <3> QED BY <3>2, ReducedByOne
  <2>2. exch' \in Positions
    BY <1>18, <2>1 DEF BootFlatten, TypeOK, Positions
  <2> QED BY <1>18, <2>2 DEF BootFlatten, TypeOK
<1>19. ASSUME BootUnsynced PROVE TypeOK'
  BY <1>19 DEF BootUnsynced, TypeOK
<1>20. ASSUME Crash PROVE TypeOK'
  BY <1>20, IdleType DEF Crash, TypeOK
<1>21. ASSUME UNCHANGED vars PROVE TypeOK'
  BY <1>21 DEF vars, TypeOK
<1> QED
  BY <1>1, <1>2, <1>3, <1>4, <1>5, <1>7, <1>8, <1>9, <1>10, <1>12, <1>13,
     <1>14, <1>15, <1>16, <1>17, <1>18, <1>19, <1>20, <1>21
  DEF Next, EntryNext, ExitNext, BootNext

LEMMA TypeInit == Init => TypeOK
BY IdleType DEF Init, TypeOK

(* The book, the exchange and the calls in progress keep their types.      *)
THEOREM TypeCorrect == Spec => []TypeOK
<1> QED BY TypeInit, TypeStep, PTL DEF Spec

----------------------------------------------------------------------------
(* Facts about Dominates.                                                  *)
LEMMA DominatesReduces ==
  ASSUME NEW e \in Int, NEW p \in Int, Sign(p) = Sign(e), Abs(p) >= Abs(e)
  PROVE  Reduced(e, Sign(p), Abs(p)) = 0
BY DEF Reduced, Sign, Abs

(* A take-profit fill takes one lot and leaves at most one message.        *)
LEMMA DominatesTpFill ==
  ASSUME TypeOK, Calm, NEW s \in Symbol, TpFill(s),
         NEW p \in Int, NEW t \in Symbol, Dominates(p, t)
  PROVE  Dominates(p, t)'
<1> DEFINE d == Sign(exch[s])
<1>1. exch \in [Symbol -> Int] /\ exch[s] \in Int /\ exch[s] # 0
  BY SignType DEF TypeOK, Positions, TpFill, Sign
<1>2. d \in Side
  BY <1>1, SignType
<1>3. exch' = [exch EXCEPT ![s] = exch[s] - d]
  BY DEF TpFill, SetExch
<1>4. \E n \in 0..1 : fills' = [fills EXCEPT ![<<s, d>>] = @ + n]
  <2>1. "duplicateFill" \notin Faults
    BY DEF Calm
  <2>2. CASE up
    BY <2>1, <2>2 DEF TpFill
  <2>3. CASE ~up
    <3>1. fills' = fills
      BY <2>3 DEF TpFill
    <3>2. fills' = [fills EXCEPT ![<<s, d>>] = @ + 0]
      BY <1>2, <3>1 DEF TypeOK
    <3> QED BY <3>2
  <2> QED BY <2>2, <2>3
<1>5. PICK n \in 0..1 : fills' = [fills EXCEPT ![<<s, d>>] = @ + n]
  BY <1>4
<1>6. CASE t # s
  <2>1. exch'[t] = exch[t]
    BY <1>1, <1>3, <1>6
  <2>2. Sign(exch[t]) \in Side => fills'[<<t, Sign(exch[t])>>] = fills[<<t, Sign(exch[t])>>]
    BY <1>5, <1>6 DEF TypeOK
  <2>3. exch[t] # 0 => Sign(exch[t]) \in Side
    BY <1>1, SignType
  <2> QED BY <2>1, <2>2, <2>3 DEF Dominates
<1>7. CASE t = s
  <2> DEFINE f == fills[<<s, d>>]
  <2>1. f \in Nat /\ fills'[<<s, d>>] \in {f, f + 1}
    BY <1>2, <1>5 DEF TypeOK
  <2>2. Sign(p) = d /\ Abs(p) >= Abs(exch[s]) + f
    BY <1>1, <1>7 DEF Dominates
  <2>3. exch'[s] = exch[s] - d
    BY <1>1, <1>3
  <2>4. exch'[s] # 0 => Sign(exch'[s]) = d /\ Abs(exch'[s]) = Abs(exch[s]) - 1
    BY <1>1, <2>3 DEF Sign, Abs
  <2>5. Abs(p) \in Int /\ Abs(exch[s]) \in Int
    BY <1>1, SignType
  <2> HIDE DEF f, d
  <2>6. exch'[s] # 0 => Abs(p) >= Abs(exch'[s]) + fills'[<<s, d>>]
    BY <2>1, <2>2, <2>4, <2>5
  <2> QED BY <1>7, <2>2, <2>4, <2>6 DEF Dominates
<1> QED BY <1>6, <1>7

(* Delivering a message only lowers what is outstanding.                   *)
LEMMA DominatesDeliver ==
  ASSUME TypeOK, NEW s \in Symbol, NEW d \in Side, HandleFill(s, d),
         NEW p \in Int, NEW t \in Symbol, Dominates(p, t)
  PROVE  Dominates(p, t)'
<1>1. exch' = exch /\ fills' = [fills EXCEPT ![<<s, d>>] = @ - 1]
  BY DEF HandleFill
<1>2. \A m \in Symbol \X Side : fills'[m] <= fills[m] /\ fills[m] \in Nat /\ fills'[m] \in Int
  BY <1>1 DEF TypeOK
<1>3. CASE exch[t] # 0
  <2>1. exch[t] \in Int
    BY DEF TypeOK, Positions
  <2>2. <<t, Sign(exch[t])>> \in Symbol \X Side
    BY <1>3, <2>1, SignType
  <2>3. Abs(p) \in Int /\ Abs(exch[t]) \in Int
    BY <2>1, SignType
  <2> QED BY <1>1, <1>2, <1>3, <2>2, <2>3 DEF Dominates
<1>4. CASE exch[t] = 0
  BY <1>1, <1>4 DEF Dominates
<1> QED BY <1>3, <1>4

(* Whoever books the message keeps dominating.                             *)
LEMMA DominatesBooked ==
  ASSUME TypeOK, NEW s \in Symbol, NEW d \in Side, HandleFill(s, d),
         NEW t \in Symbol, Dominates(tracked[t], t)
  PROVE  Dominates(tracked[t], t)'
<1>1. tracked[t] \in Int /\ tracked \in [Symbol -> Int] /\ exch[t] \in Int
  BY DEF TypeOK, Positions
<1>2. CASE tracked'[t] = tracked[t]
  <2>1. \A p \in Int : Dominates(p, t) => Dominates(p, t)'
    BY DominatesDeliver
  <2> QED BY <1>1, <1>2, <2>1 DEF Dominates
<1>3. CASE tracked'[t] # tracked[t]
  <2>1. t = s /\ s \in lives /\ tracked'[s] = Reduced(tracked[s], d, 1)
    BY <1>1, <1>3 DEF HandleFill
  <2>2. Sign(tracked[s]) = d /\ d \in {1, -1}
    BY <1>3, <2>1 DEF Reduced, Side
  <2>3. exch' = exch
    BY DEF HandleFill
  <2>4. CASE exch[s] = 0
    BY <2>1, <2>3, <2>4 DEF Dominates
  <2>5. CASE exch[s] # 0
    <3>1. Sign(exch[s]) = d /\ Abs(tracked[s]) >= Abs(exch[s]) + fills[<<s, d>>]
      BY <2>1, <2>2, <2>5 DEF Dominates
    <3>2. fills[<<s, d>>] \in Nat /\ fills[<<s, d>>] > 0
          /\ fills'[<<s, d>>] = fills[<<s, d>>] - 1
      BY DEF HandleFill, TypeOK
    <3>3. Abs(tracked[s]) >= 2
      BY <1>1, <2>1, <2>5, <3>1, <3>2 DEF Abs
    <3>4. Abs(tracked[s]) \in Int /\ ~(1 >= Abs(tracked[s]))
      BY <1>1, <2>1, <3>3, SignType
    <3>5. tracked'[s] = tracked[s] - d
      <4>1. tracked'[s] = tracked[s] - d * 1
        BY <2>1, <2>2, <3>4 DEF Reduced
      <4> QED BY <2>2, <4>1
    <3>6. Sign(tracked'[s]) = d /\ Abs(tracked'[s]) = Abs(tracked[s]) - 1
      BY <1>1, <2>1, <2>2, <3>3, <3>5 DEF Abs, Sign
    <3>7. Abs(exch[s]) \in Int
      BY <1>1, <2>1, SignType
    <3>8. Abs(tracked'[s]) >= Abs(exch[s]) + fills'[<<s, d>>]
      BY <3>1, <3>2, <3>4, <3>6, <3>7
    <3> QED BY <2>1, <2>3, <3>1, <3>6, <3>8 DEF Dominates
  <2> QED BY <2>4, <2>5
<1> QED BY <1>2, <1>3

(* A step that leaves the exchange's position of t and the messages alone, *)
(* or closes the position, preserves Dominates.                            *)
LEMMA DominatesStable ==
  ASSUME NEW p \in Int, NEW t \in Symbol, Dominates(p, t),
         fills' = fills, exch'[t] \in {0, exch[t]}
  PROVE  Dominates(p, t)'
BY DEF Dominates

----------------------------------------------------------------------------
(* Counting open positions.                                                *)
LEMMA OpenFinite ==
  ASSUME NEW b
  PROVE  IsFiniteSet(Open(b)) /\ Cardinality(Open(b)) \in Nat
<1>1. Open(b) \subseteq Symbol /\ IsFiniteSet(Symbol)
  BY BookAssumption DEF Open
<1> QED BY <1>1, FS_Subset, FS_CardinalityType

LEMMA OpenSubset ==
  ASSUME NEW b, NEW c, Open(b) \subseteq Open(c)
  PROVE  Cardinality(Open(b)) <= Cardinality(Open(c))
BY OpenFinite, FS_Subset

LEMMA OpenOneMore ==
  ASSUME NEW b, NEW c, NEW s \in Symbol, Open(b) \subseteq Open(c) \cup {s},
         Cardinality(Open(c)) < MaxPositions
  PROVE  Cardinality(Open(b)) <= MaxPositions
<1>1. IsFiniteSet(Open(c) \cup {s})
      /\ Cardinality(Open(c) \cup {s}) <= Cardinality(Open(c)) + 1
  BY OpenFinite, FS_AddElement
<1>2. Cardinality(Open(b)) <= Cardinality(Open(c) \cup {s})
  BY <1>1, FS_Subset
<1>3. /\ Cardinality(Open(b)) \in Nat /\ Cardinality(Open(c)) \in Nat
      /\ Cardinality(Open(c) \cup {s}) \in Nat /\ MaxPositions \in Nat
  BY <1>1, OpenFinite, FS_CardinalityType, BookAssumption
<1> QED BY <1>1, <1>2, <1>3

(* A step in which every position stays or shrinks keeps the limit.        *)
LEMMA ExposureShrinks ==
  ASSUME TypeOK, TypeOK', ExposureLimit,
         \A t \in Symbol : /\ Abs(exch'[t]) <= Abs(exch[t])
                           /\ exch[t] = 0 => exch'[t] = 0
  PROVE  ExposureLimit'
<1>1. \A t \in Symbol : Abs(exch'[t]) \in Int /\ Abs(exch[t]) \in Int
  BY SignType DEF TypeOK, Positions
<1>2. Open(exch') \subseteq Open(exch)
  BY DEF Open
<1>3. Cardinality(Open(exch')) <= Cardinality(Open(exch))
  BY <1>2, OpenSubset
<1>4. Cardinality(Open(exch')) <= MaxPositions
  BY <1>3, OpenFinite, BookAssumption DEF ExposureLimit, PositionLimit
<1>5. \A t \in Symbol : Abs(exch'[t]) <= Lot
  BY <1>1, BookAssumption DEF ExposureLimit
<1>6. PositionLimit' /\ (\A t \in Symbol : Abs(exch[t]) <= Lot)'
  BY <1>4, <1>5 DEF PositionLimit, Open
<1> QED BY <1>6 DEF ExposureLimit

(* What the exchange does on its own shrinks one position.                 *)
LEMMA ExchangeShrinks ==
  ASSUME TypeOK, NEW s \in Symbol, TpFill(s) \/ StopHit(s),
         NEW t \in Symbol
  PROVE  /\ Abs(exch'[t]) <= Abs(exch[t])
         /\ exch[t] = 0 => exch'[t] = 0
<1>1. exch \in [Symbol -> Int] /\ exch[s] \in Int /\ exch[t] \in Int
  BY DEF TypeOK, Positions
<1>2. exch[s] # 0
  BY <1>1 DEF TpFill, StopHit, Sign
<1>3. exch' = [exch EXCEPT ![s] = exch[s] - Sign(exch[s])]
      \/ exch' = [exch EXCEPT ![s] = 0]
  BY DEF TpFill, StopHit, SetExch
<1>4. \/ exch'[t] = exch[t]
      \/ t = s /\ exch'[t] \in {0, exch[s] - Sign(exch[s])}
  <2>1. CASE t = s
    BY <1>1, <1>3, <2>1
  <2>2. CASE t # s
    <3>1. PICK v \in {0, exch[s] - Sign(exch[s])} : exch' = [exch EXCEPT ![s] = v]
      BY <1>3
    <3>2. exch'[t] = exch[t]
      BY <1>1, <2>2, <3>1
    <3> QED BY <3>2
  <2> QED BY <2>1, <2>2
<1> QED BY <1>1, <1>2, <1>4 DEF Abs, Sign

(* A step of the exchange alone keeps what the threads know true.          *)
Records == BookInv /\ EntryInv /\ ExitInv /\ RestInv

LEMMA RecordsStable ==
  ASSUME TypeOK, Records,
         UNCHANGED <<tracked, lives, entry, exit, rest, up>>,
         \A p \in Int, t \in Symbol : Dominates(p, t) => Dominates(p, t)',
         \A t \in Symbol : exch[t] = 0 => exch'[t] = 0,
         \A t \in Symbol, d \in Side :
            exch[t] = 0 /\ fills[<<t, d>>] = 0 => fills'[<<t, d>>] = 0
  PROVE  Records'
<1>1. /\ \A s \in Symbol : tracked[s] \in Int
      /\ \A s \in Symbol : rest.list[s] \in Int
  BY DEF TypeOK, Positions
<1>2. BookInv'
  <2>1. \A t \in Symbol : Dominates(tracked[t], t) => Dominates(tracked[t], t)'
    BY <1>1 DEF Dominates
  <2> QED BY <2>1 DEF Records, BookInv, Open
<1>3. EntryInv'
  <2>1. CASE entry.at = "idle"
    BY <2>1 DEF Records, EntryInv
  <2>2. CASE entry.at = "placing"
    <3>1. entry.sym \in Symbol
      BY <2>2 DEF Records, EntryInv
    <3> QED BY <2>2, <3>1 DEF Records, EntryInv, Open
  <2>3. CASE entry.at = "opened"
    <3>1. entry.sym \in Symbol /\ entry.side \in Side
      BY <2>3 DEF Records, EntryInv
    <3>2. entry.side * Lot \in Int
      BY <3>1, BookAssumption DEF Side
    <3>3. Dominates(entry.side * Lot, entry.sym)'
      BY <2>3, <3>1, <3>2 DEF Dominates, Records, EntryInv
    <3> QED BY <2>3, <3>1, <3>3 DEF Records, EntryInv, Open
  <2> QED BY <2>1, <2>2, <2>3 DEF TypeOK, Orders, NoEntry
<1>4. ExitInv'
  <2>1. CASE exit.at = "idle"
    BY <2>1 DEF ExitInv
  <2>2. CASE exit.at # "idle"
    <3>1. exit.sym \in Symbol /\ exit.pos \in Int
      BY <2>2, Exiting
    <3>2. exit.at = "closing" => Dominates(exit.pos, exit.sym)'
      BY <3>1 DEF Dominates, Records, ExitInv
    <3> QED BY <2>2, <3>1, <3>2 DEF Records, ExitInv
  <2> QED BY <2>1, <2>2
<1>5. RestInv'
  <2>1. \A t \in Symbol : Dominates(rest.list[t], t) => Dominates(rest.list[t], t)'
    BY <1>1 DEF Dominates
  <2> QED BY <2>1 DEF Records, RestInv, Open
<1> QED BY <1>2, <1>3, <1>4, <1>5 DEF Records

----------------------------------------------------------------------------
(* The inductive invariant, one lemma per thread.                          *)
LEMMA ExchangeStep ==
  ASSUME Inv, Calm, TypeOK', NEW s \in Symbol, TpFill(s) \/ StopHit(s)
  PROVE  Inv'
<1> USE DEF Inv
<1>1. \A t \in Symbol : Abs(exch'[t]) <= Abs(exch[t]) /\ (exch[t] = 0 => exch'[t] = 0)
  BY ExchangeShrinks
<1>2. ExposureLimit'
  BY <1>1, ExposureShrinks
<1>3. UNCHANGED <<tracked, lives, entry, exit, rest, up>>
  BY DEF TpFill, StopHit
<1>4. \A p \in Int, t \in Symbol : Dominates(p, t) => Dominates(p, t)'
  <2>1. CASE TpFill(s)
    BY <2>1, DominatesTpFill
  <2>2. CASE StopHit(s)
    <3>1. fills' = fills /\ \A t \in Symbol : exch'[t] \in {0, exch[t]}
      BY <2>2 DEF StopHit, SetExch, TypeOK, Positions
    <3> QED BY <3>1, DominatesStable
  <2> QED BY <2>1, <2>2
<1>5. \A t \in Symbol, d \in Side :
         exch[t] = 0 /\ fills[<<t, d>>] = 0 => fills'[<<t, d>>] = 0
  <2>1. CASE TpFill(s)
    <3>1. TAKE t \in Symbol, d \in Side
    <3>2. HAVE exch[t] = 0 /\ fills[<<t, d>>] = 0
    <3>3. t # s
      BY <2>1, <3>2 DEF TpFill, Sign
    <3>4. fills' = fills
          \/ \E n \in 0..2 : fills' = [fills EXCEPT ![<<s, Sign(exch[s])>>] = @ + n]
      BY <2>1 DEF TpFill
    <3> QED BY <3>2, <3>3, <3>4 DEF TypeOK
  <2>2. CASE StopHit(s)
    BY <2>2 DEF StopHit
  <2> QED BY <2>1, <2>2
<1>6. Records'
  BY <1>1, <1>3, <1>4, <1>5, RecordsStable DEF Records
<1>7. OneSection'
  BY <1>3 DEF OneSection
<1>8. Down'
  <2>1. ~up => fills' = fills
    BY DEF TpFill, StopHit
  <2> QED BY <1>3, <2>1 DEF Down, NoFills
<1> QED BY <1>2, <1>6, <1>7, <1>8 DEF Records

LEMMA DeliverStep ==
  ASSUME Inv, Calm, TypeOK', NEW s \in Symbol, NEW d \in Side, HandleFill(s, d)
  PROVE  Inv'
<1> USE DEF Inv
<1>1. /\ UNCHANGED <<exch, tps, lives, entry, exit, rest, up>> /\ up
      /\ fills' = [fills EXCEPT ![<<s, d>>] = @ - 1] /\ fills[<<s, d>>] > 0
  BY DEF HandleFill
<1>2. \A p \in Int, t \in Symbol : Dominates(p, t) => Dominates(p, t)'
  BY DominatesDeliver
<1>3. \A t \in Symbol : tracked[t] = 0 => tracked'[t] = 0
  BY DEF HandleFill, Reduced, Sign, Side, TypeOK, Positions
<1>4. Cardinality(Open(tracked')) <= Cardinality(Open(tracked))
  <2>1. Open(tracked') \subseteq Open(tracked)
    BY <1>3 DEF Open
  <2> QED BY <2>1, OpenSubset
<1>5. /\ Cardinality(Open(tracked)) \in Nat /\ Cardinality(Open(tracked')) \in Nat
      /\ MaxPositions \in Nat
  BY OpenFinite, BookAssumption
<1>6. BookInv'
  <2>1. \A t \in Symbol : Dominates(tracked[t], t) => Dominates(tracked[t], t)'
    BY DominatesBooked
  <2>2. Cardinality(Open(tracked')) <= MaxPositions
    BY <1>1, <1>4, <1>5 DEF BookInv
  <2> QED BY <1>1, <2>1, <2>2 DEF BookInv, Open
<1>7. EntryInv'
  <2>1. CASE entry.at = "idle"
    BY <1>1, <2>1 DEF EntryInv
  <2>2. CASE entry.at # "idle"
    <3>1. entry.sym \in Symbol /\ entry.side \in Side
      BY <2>2 DEF EntryInv
    <3>2. tracked'[entry.sym] = 0
      BY <1>3, <2>2, <3>1 DEF EntryInv
    <3>3. Cardinality(Open(tracked')) < MaxPositions
      BY <1>4, <1>5, <2>2 DEF EntryInv
    <3>4. entry.at = "placing" =>
            \A e \in Side : fills'[<<entry.sym, e>>] = 0
      BY <1>1, <3>1 DEF EntryInv, TypeOK
    <3>5. entry.side * Lot \in Int
      BY <3>1, BookAssumption DEF Side
    <3>6. entry.at = "opened" => Dominates(entry.side * Lot, entry.sym)'
      BY <1>1, <1>2, <3>1, <3>5 DEF EntryInv, Dominates
    <3> QED BY <1>1, <2>2, <3>1, <3>2, <3>3, <3>4, <3>6 DEF EntryInv, Open
  <2> QED BY <2>1, <2>2
<1>8. ExitInv'
  <2>1. CASE exit.at = "idle"
    BY <1>1, <2>1 DEF ExitInv
  <2>2. CASE exit.at # "idle"
    <3>1. exit.sym \in Symbol /\ exit.pos \in Int
      BY <2>2, Exiting
    <3>2. exit.at = "closing" => Dominates(exit.pos, exit.sym)'
      BY <1>1, <1>2, <3>1 DEF Dominates, ExitInv
    <3> QED BY <1>1, <2>2, <3>1, <3>2 DEF ExitInv
  <2> QED BY <2>1, <2>2
<1>9. RestInv'
  <2>1. \A t \in Symbol : rest.list[t] \in Int
    BY DEF TypeOK, Positions
  <2>2. \A t \in Symbol : Dominates(rest.list[t], t) => Dominates(rest.list[t], t)'
    BY <1>1, <1>2, <2>1 DEF Dominates
  <2> QED BY <1>1, <2>2 DEF RestInv, Open
<1>10. ExposureLimit'
  BY <1>1 DEF ExposureLimit, PositionLimit, Open
<1>11. OneSection' /\ Down'
  BY <1>1 DEF OneSection, Down
<1> QED BY <1>6, <1>7, <1>8, <1>9, <1>10, <1>11

LEMMA EntryStep ==
  ASSUME Inv, Calm, TypeOK',
         (\E s \in Symbol, d \in Side : EntryStart(s, d)) \/ EntryNext
  PROVE  Inv'
<1> USE DEF Inv
<1>1. ASSUME NEW s \in Symbol, NEW d \in Side, EntryStart(s, d) PROVE Inv'
  <2>1. /\ UNCHANGED <<exch, fills, tracked, lives, exit, rest, up>> /\ up
        /\ exit.at = "idle" /\ rest.at = "idle" /\ fills = NoFills
        /\ entry.at = "idle" /\ entry.sym = NoSymbol
    BY <1>1 DEF EntryStart, MayStart, Quiescent, Calm, EntryInv
  <2>2. entry'.at = "placing" /\ entry'.sym = s /\ entry'.side = d
    BY <1>1 DEF EntryStart
  <2>3. tracked[s] = 0 /\ Cardinality(Open(tracked)) < MaxPositions
    BY <1>1 DEF EntryStart
  <2>4. exch[s] = 0
    <3>1. s # entry.sym /\ exch[s] \in Int
      BY <2>1, BookAssumption DEF TypeOK, Positions
    <3>2. Dominates(0, s)
      BY <2>1, <2>3, <3>1 DEF BookInv
    <3> QED BY <3>1, <3>2 DEF Dominates, Sign
  <2>5. EntryInv'
    BY <2>1, <2>2, <2>3, <2>4 DEF EntryInv, NoFills, Open
  <2>6. BookInv'
    BY <2>1, <2>2, <2>4, BookAssumption DEF BookInv, Open, Dominates
  <2>7. ExitInv' /\ RestInv' /\ OneSection' /\ Down'
    BY <2>1 DEF ExitInv, RestInv, OneSection, Down
  <2>8. ExposureLimit'
    BY <2>1 DEF ExposureLimit, PositionLimit, Open
  <2> QED BY <2>5, <2>6, <2>7, <2>8
<1>2. ASSUME EntryAccepted PROVE Inv'
  <2> DEFINE s == entry.sym
             v == entry.side * Lot
  <2>1. /\ entry.at = "placing" /\ s \in Symbol /\ entry.side \in {1, -1}
        /\ entry \in Orders
        /\ up /\ exit.at = "idle" /\ rest.at = "idle"
        /\ exch[s] = 0 /\ \A d \in Side : fills[<<s, d>>] = 0
    BY <1>2, Placing DEF EntryAccepted, Executes, EntryInv, OneSection, Down, Side
  <2>2. entry'.at = "opened" /\ entry'.sym = s /\ entry'.side = entry.side
    BY <1>2, <2>1 DEF EntryAccepted, Orders
  <2>3. UNCHANGED <<fills, tracked, lives, exit, rest, up>>
    BY <1>2 DEF EntryAccepted
  <2>4. v \in Int /\ Sign(v) = entry.side /\ Abs(v) = Lot
    BY <2>1, BookAssumption DEF Sign, Abs
  <2>5. exch' = [exch EXCEPT ![s] = v] /\ exch \in [Symbol -> Int]
    <3>1. exch[s] + entry.side * Lot = v
      BY <2>1, <2>4
    <3> QED BY <1>2, <3>1 DEF EntryAccepted, Executes, SetExch, TypeOK, Positions
  <2> HIDE DEF v, s
  <2>6. exch'[s] = v /\ \A t \in Symbol \ {s} : exch'[t] = exch[t]
    BY <2>1, <2>5
  <2>7. BookInv'
    BY <2>1, <2>2, <2>3, <2>6 DEF BookInv, Dominates, Open, s
  <2>8. EntryInv'
    <3>1. fills'[<<s, Sign(v)>>] = 0
      BY <2>1, <2>3, <2>4 DEF Side
    <3>2. v' = v /\ s' = s
      BY <2>2 DEF v, s
    <3>3. Dominates(v, s)'
      BY <2>1, <2>4, <2>6, <3>1, <3>2, BookAssumption DEF Dominates
    <3>4. Dominates(entry.side * Lot, entry.sym)'
      BY <3>3 DEF v, s
    <3> QED BY <2>1, <2>2, <2>3, <3>4 DEF EntryInv, Side, Open, s
  <2>9. ExposureLimit'
    <3>1. Open(exch') \subseteq Open(tracked) \cup {s}
      <4>1. ASSUME NEW t \in Symbol, exch[t] # 0, t # s PROVE tracked[t] # 0
        <5>1. Dominates(tracked[t], t)
          BY <2>1, <4>1 DEF BookInv, s
        <5>2. Sign(tracked[t]) = Sign(exch[t])
          BY <4>1, <5>1 DEF Dominates
        <5>3. exch[t] \in Int /\ tracked[t] \in Int
          BY DEF TypeOK, Positions
        <5> QED BY <4>1, <5>2, <5>3 DEF Sign
      <4> QED BY <2>6, <4>1 DEF Open
    <3>2. Cardinality(Open(tracked)) < MaxPositions
      BY <2>1 DEF EntryInv
    <3>3. Cardinality(Open(exch')) <= MaxPositions
      BY <2>1, <3>1, <3>2, OpenOneMore
    <3>4. \A t \in Symbol : Abs(exch'[t]) <= Lot
      BY <2>4, <2>6, BookAssumption DEF ExposureLimit
    <3>5. PositionLimit' /\ (\A t \in Symbol : Abs(exch[t]) <= Lot)'
      BY <3>3, <3>4 DEF PositionLimit, Open
    <3> QED BY <3>5 DEF ExposureLimit
  <2>10. ExitInv' /\ RestInv' /\ OneSection' /\ Down'
    BY <2>1, <2>3 DEF ExitInv, RestInv, OneSection, Down
  <2> QED BY <2>7, <2>8, <2>9, <2>10
<1>3. ASSUME EntryRefused PROVE Inv'
  <2>1. /\ UNCHANGED <<exch, fills, tracked, lives, exit, rest, up>>
        /\ entry.at = "placing" /\ entry.sym \in Symbol /\ entry \in Orders
        /\ up /\ exit.at = "idle" /\ rest.at = "idle" /\ exch[entry.sym] = 0
    BY <1>3, Placing DEF EntryRefused, OneSection, Down, EntryInv
  <2>2. \/ entry' = NoEntry
        \/ entry'.at = entry.at /\ entry'.sym = entry.sym /\ entry'.side = entry.side
    <3>1. CASE entry.tries + 1 >= Attempts
      BY <1>3, <3>1 DEF EntryRefused, AnotherTry
    <3>2. CASE ~(entry.tries + 1 >= Attempts)
      <4>1. entry' = [entry EXCEPT !.tries = @ + 1, !.done = @ + 0]
        BY <1>3, <3>2 DEF EntryRefused, AnotherTry
      <4> QED BY <2>1, <4>1 DEF Orders
    <3> QED BY <3>1, <3>2
  <2>3. BookInv'
    BY <2>1, <2>2 DEF BookInv, Dominates, Open
  <2>4. EntryInv'
    BY <2>1, <2>2 DEF EntryInv, NoEntry, Open
  <2>5. ExposureLimit'
    BY <2>1 DEF ExposureLimit, PositionLimit, Open
  <2>6. ExitInv' /\ RestInv' /\ OneSection' /\ Down'
    BY <2>1 DEF ExitInv, RestInv, OneSection, Down
  <2> QED BY <2>3, <2>4, <2>5, <2>6
<1>4. ASSUME EntryBook PROVE Inv'
  <2> DEFINE s == entry.sym
             v == entry.side * Lot
  <2>1. /\ UNCHANGED <<exch, fills, exit, rest, up>> /\ entry' = NoEntry
        /\ entry.at = "opened" /\ s \in Symbol /\ entry.side \in {1, -1}
        /\ up /\ exit.at = "idle" /\ rest.at = "idle"
        /\ tracked[s] = 0 /\ Cardinality(Open(tracked)) < MaxPositions
        /\ Dominates(v, s) /\ lives' = lives \cup {s}
    BY <1>4, Placing DEF EntryBook, OneSection, Down, EntryInv, Side
  <2>2. tracked' = [tracked EXCEPT ![s] = v] /\ tracked \in [Symbol -> Int]
    BY <1>4 DEF EntryBook, TypeOK, Positions
  <2> HIDE DEF v, s
  <2>3. tracked'[s] = v /\ \A t \in Symbol \ {s} : tracked'[t] = tracked[t]
    BY <2>1, <2>2
  <2>4. Cardinality(Open(tracked')) <= MaxPositions
    <3>1. Open(tracked') \subseteq Open(tracked) \cup {s}
      BY <2>3 DEF Open
    <3> QED BY <2>1, <3>1, OpenOneMore
  <2>5. \A t \in Symbol : Dominates(tracked[t], t)'
    BY <2>1, <2>3 DEF BookInv, Dominates, s
  <2>6. BookInv'
    BY <2>1, <2>4, <2>5 DEF BookInv, Open, s
  <2>7. EntryInv'
    BY <2>1 DEF EntryInv, NoEntry
  <2>8. ExposureLimit'
    BY <2>1 DEF ExposureLimit, PositionLimit, Open
  <2>9. ExitInv' /\ RestInv' /\ OneSection' /\ Down'
    BY <2>1 DEF ExitInv, RestInv, OneSection, Down
  <2> QED BY <2>6, <2>7, <2>8, <2>9
<1>5. ~EntryReplyLost
  BY DEF EntryReplyLost, Calm
<1> QED BY <1>1, <1>2, <1>3, <1>4, <1>5 DEF EntryNext

LEMMA ExitStep ==
  ASSUME Inv, Calm, TypeOK', (\E s \in Symbol : ExitStart(s)) \/ ExitNext
  PROVE  Inv'
<1> USE DEF Inv
<1>1. ASSUME NEW s \in Symbol, ExitStart(s) PROVE Inv'
  <2>1. /\ UNCHANGED <<exch, fills, tracked, lives, entry, rest, up>> /\ up
        /\ entry.at = "idle" /\ rest.at = "idle" /\ entry.sym = NoSymbol
    BY <1>1 DEF ExitStart, MayStart, Quiescent, Calm, EntryInv
  <2>2. /\ exit'.at = IF tracked[s] = 0 THEN "closed" ELSE "closing"
        /\ exit'.sym = s /\ exit'.pos = tracked[s]
    BY <1>1 DEF ExitStart
  <2>3. Dominates(tracked[s], s)
    BY <2>1, BookAssumption DEF BookInv
  <2>4. tracked[s] = 0 => exch[s] = 0
    BY <2>3 DEF Dominates, Sign, TypeOK, Positions
  <2>5. ExitInv'
    BY <2>1, <2>2, <2>3, <2>4 DEF ExitInv, Dominates
  <2>6. BookInv' /\ EntryInv'
    BY <2>1 DEF BookInv, EntryInv, Dominates, Open
  <2>7. RestInv' /\ OneSection' /\ Down'
    BY <2>1 DEF RestInv, OneSection, Down
  <2>8. ExposureLimit'
    BY <2>1 DEF ExposureLimit, PositionLimit, Open
  <2> QED BY <2>5, <2>6, <2>7, <2>8
<1>2. ASSUME ExitClosed PROVE Inv'
  <2> DEFINE s == exit.sym
  <2>1. /\ exit.at = "closing" /\ s \in Symbol /\ exit.pos \in Int /\ exit \in Exits
        /\ up /\ entry.at = "idle" /\ rest.at = "idle"
        /\ UNCHANGED <<fills, tracked, lives, entry, rest, up>>
        /\ Dominates(exit.pos, s)
    BY <1>2, Exiting DEF ExitClosed, CloseExecutes, ExitInv, OneSection, Down
  <2>2. exit'.at = "closed" /\ exit'.sym = s
    BY <1>2, <2>1 DEF ExitClosed, Exits
  <2>3. exch \in [Symbol -> Int] /\ exch[s] \in Int
    BY <2>1 DEF TypeOK, Positions
  <2>4. Reduced(exch[s], Sign(exit.pos), Abs(exit.pos)) = 0
    <3>1. CASE exch[s] = 0
      BY <2>1, <2>3, <3>1 DEF Reduced, Sign, Abs
    <3>2. CASE exch[s] # 0
      <4>1. <<s, Sign(exch[s])>> \in Symbol \X Side
        BY <2>1, <2>3, <3>2, SignType
      <4>2. fills[<<s, Sign(exch[s])>>] \in Nat
        BY <4>1 DEF TypeOK
      <4>3. Abs(exit.pos) \in Int /\ Abs(exch[s]) \in Int
        BY <2>1, <2>3, SignType
      <4>4. Sign(exit.pos) = Sign(exch[s]) /\ Abs(exit.pos) >= Abs(exch[s])
        BY <2>1, <3>2, <4>2, <4>3 DEF Dominates
      <4> QED BY <2>1, <2>3, <4>4, DominatesReduces
    <3> QED BY <3>1, <3>2
  <2>5. exch' = [exch EXCEPT ![s] = 0]
    BY <1>2, <2>4 DEF ExitClosed, CloseExecutes, SetExch
  <2> HIDE DEF s
  <2>6. exch'[s] = 0 /\ \A t \in Symbol \ {s} : exch'[t] = exch[t]
    BY <2>1, <2>3, <2>5
  <2>7. \A t \in Symbol : exch'[t] \in {0, exch[t]}
    BY <2>6
  <2>8. BookInv'
    BY <2>1, <2>7 DEF BookInv, Dominates, Open
  <2>9. ExitInv'
    BY <2>1, <2>2, <2>6 DEF ExitInv
  <2>10. ExposureLimit'
    <3>1. \A t \in Symbol : Abs(exch'[t]) <= Abs(exch[t]) /\ (exch[t] = 0 => exch'[t] = 0)
      BY <2>7 DEF Abs, TypeOK, Positions
    <3> QED BY <3>1, ExposureShrinks
  <2>11. EntryInv' /\ RestInv' /\ OneSection' /\ Down'
    BY <2>1 DEF EntryInv, RestInv, OneSection, Down
  <2> QED BY <2>8, <2>9, <2>10, <2>11
<1>3. ASSUME ExitForget PROVE Inv'
  <2> DEFINE s == exit.sym
  <2>1. /\ UNCHANGED <<exch, fills, entry, rest, up>> /\ exit' = NoExit
        /\ up /\ entry.at = "idle" /\ rest.at = "idle" /\ s \in Symbol
        /\ exch[s] = 0 /\ lives' = lives \ {s}
    BY <1>3, Exiting DEF ExitForget, ExitInv, OneSection, Down
  <2>2. tracked' = [tracked EXCEPT ![s] = 0] /\ tracked \in [Symbol -> Int]
    BY <1>3 DEF ExitForget, TypeOK, Positions
  <2> HIDE DEF s
  <2>3. tracked'[s] = 0 /\ \A t \in Symbol \ {s} : tracked'[t] = tracked[t]
    BY <2>1, <2>2
  <2>4. Cardinality(Open(tracked')) <= MaxPositions
    <3>1. Open(tracked') \subseteq Open(tracked)
      BY <2>3 DEF Open
    <3>2. Cardinality(Open(tracked')) <= Cardinality(Open(tracked))
      BY <3>1, OpenSubset
    <3>3. Cardinality(Open(tracked)) <= MaxPositions
      BY <2>1 DEF BookInv
    <3> QED BY <3>2, <3>3, OpenFinite, BookAssumption
  <2>5. \A t \in Symbol : t # entry.sym => Dominates(tracked[t], t)'
    BY <2>1, <2>3 DEF BookInv, Dominates
  <2>6. BookInv'
    BY <2>1, <2>4, <2>5 DEF BookInv, Open
  <2>7. ExitInv'
    BY <2>1 DEF ExitInv, NoExit
  <2>8. ExposureLimit'
    BY <2>1 DEF ExposureLimit, PositionLimit, Open
  <2>9. EntryInv' /\ RestInv' /\ OneSection' /\ Down'
    BY <2>1 DEF EntryInv, RestInv, OneSection, Down, NoExit
  <2> QED BY <2>6, <2>7, <2>8, <2>9
<1>4. ~ExitReplyLost /\ ~ExitRejected
  BY DEF ExitReplyLost, ExitRejected, Calm
<1> QED BY <1>1, <1>2, <1>3, <1>4 DEF ExitNext

LEMMA RestStep ==
  ASSUME Inv, Calm, TypeOK', RestNext
  PROVE  Inv'
<1> USE DEF Inv
<1>1. UNCHANGED <<exch, fills, lives, entry, exit, up>> /\ up
      /\ entry.at = "idle" /\ exit.at = "idle" /\ entry.sym = NoSymbol
  BY DEF RestNext, RestList, RestApply, MayStart, Quiescent, Calm, OneSection,
     EntryInv, Down
<1>2. ExposureLimit' /\ EntryInv' /\ ExitInv' /\ Down' /\ OneSection'
  BY <1>1 DEF ExposureLimit, PositionLimit, Open, EntryInv, ExitInv, Down,
     OneSection
<1>3. CASE RestList
  <2>1. /\ rest' = [at |-> "applying", list |-> exch] /\ tracked' = tracked
        /\ fills = NoFills
    BY <1>3 DEF RestList, MayStart, Quiescent, Calm
  <2>2. \A s \in Symbol : Dominates(exch[s], s)'
    <3>1. TAKE s \in Symbol
    <3>2. exch[s] \in Int /\ Abs(exch[s]) \in Int
      BY SignType DEF TypeOK, Positions
    <3>3. exch[s] # 0 => fills[<<s, Sign(exch[s])>>] = 0
      BY <2>1, <3>2, SignType DEF NoFills
    <3> QED BY <1>1, <3>2, <3>3 DEF Dominates
  <2>3. RestInv'
    BY <1>1, <2>1, <2>2 DEF RestInv, Dominates, ExposureLimit, PositionLimit, Open
  <2>4. BookInv'
    BY <1>1, <2>1 DEF BookInv, Dominates, Open
  <2> QED BY <1>2, <2>3, <2>4
<1>4. CASE RestApply
  <2>1. tracked' = rest.list /\ rest' = NoRest /\ rest.at = "applying"
    BY <1>4 DEF RestApply
  <2>2. RestInv'
    BY <2>1 DEF RestInv, NoRest
  <2>3. BookInv'
    BY <1>1, <2>1 DEF BookInv, RestInv, Dominates, Open
  <2> QED BY <1>2, <2>2, <2>3
<1> QED BY <1>3, <1>4 DEF RestNext

LEMMA ProcessStep ==
  ASSUME Inv, Calm, TypeOK', BootNext \/ Crash
  PROVE  Inv'
<1> USE DEF Inv
<1>1. CASE BootSync
  <2>1. /\ UNCHANGED <<exch, fills, entry, exit, rest>> /\ up' = TRUE
        /\ tracked' = exch
        /\ lives' = IF RecoverOrphans THEN Open(exch) ELSE {}
        /\ entry.at = "idle" /\ exit.at = "idle" /\ rest.at = "idle"
        /\ fills = NoFills
    BY <1>1 DEF BootSync, Down
  <2>2. \A s \in Symbol : Dominates(tracked[s], s)'
    <3>1. TAKE s \in Symbol
    <3>2. exch[s] \in Int /\ Abs(exch[s]) \in Int
      BY SignType DEF TypeOK, Positions
    <3>3. exch[s] # 0 => fills[<<s, Sign(exch[s])>>] = 0
      BY <2>1, <3>2, SignType DEF NoFills
    <3> QED BY <2>1, <3>2, <3>3 DEF Dominates
  <2>3. BookInv'
    BY <2>1, <2>2 DEF BookInv, ExposureLimit, PositionLimit, Open
  <2>4. ExposureLimit' /\ EntryInv' /\ ExitInv' /\ RestInv' /\ Down' /\ OneSection'
    BY <2>1 DEF ExposureLimit, PositionLimit, Open, EntryInv, ExitInv, RestInv,
       Down, OneSection
  <2> QED BY <2>3, <2>4
<1>2. CASE Crash
  <2>1. /\ up' = FALSE /\ exch' = exch /\ fills' = NoFills
        /\ entry' = NoEntry /\ exit' = NoExit /\ rest' = NoRest
    BY <1>2 DEF Crash
  <2>2. ExposureLimit' /\ OneSection' /\ Down'
    BY <2>1 DEF ExposureLimit, PositionLimit, Open, OneSection, Down, NoFills,
       NoEntry, NoExit, NoRest
  <2>3. BookInv' /\ EntryInv' /\ ExitInv' /\ RestInv'
    BY <2>1 DEF BookInv, EntryInv, ExitInv, RestInv, NoEntry, NoExit, NoRest
  <2> QED BY <2>2, <2>3
<1>3. ~BootFlatten /\ ~BootUnsynced
  BY DEF BootFlatten, BootUnsynced, Calm
<1> QED BY <1>1, <1>2, <1>3 DEF BootNext

LEMMA InvStep == Inv /\ Calm /\ [Next]_vars => Inv'
<1> SUFFICES ASSUME Inv, Calm, [Next]_vars PROVE Inv'
  OBVIOUS
<1>1. TypeOK'
  BY TypeStep DEF Inv
<1>2. CASE UNCHANGED vars
  BY <1>1, <1>2 DEF vars, Inv, OneSection, Down, ExposureLimit, PositionLimit,
     BookInv, EntryInv, ExitInv, RestInv, Dominates, Open
<1>3. CASE \E s \in Symbol : TpFill(s) \/ StopHit(s)
  BY <1>1, <1>3, ExchangeStep
<1>4. CASE \E s \in Symbol, d \in Side : HandleFill(s, d)
  BY <1>1, <1>4, DeliverStep
<1>5. CASE (\E s \in Symbol, d \in Side : EntryStart(s, d)) \/ EntryNext
  BY <1>1, <1>5, EntryStep
<1>6. CASE (\E s \in Symbol : ExitStart(s)) \/ ExitNext
  BY <1>1, <1>6, ExitStep
<1>7. CASE RestNext
  BY <1>1, <1>7, RestStep
<1>8. CASE BootNext \/ Crash
  BY <1>1, <1>8, ProcessStep
<1> QED BY <1>2, <1>3, <1>4, <1>5, <1>6, <1>7, <1>8 DEF Next

LEMMA InvInit == Init => Inv
<1> SUFFICES ASSUME Init PROVE Inv
  OBVIOUS
<1>1. TypeOK
  BY TypeInit
<1>2. Open(exch) = {}
  BY DEF Init, Flat, Open
<1>3. ExposureLimit
  <2>1. Cardinality(Open(exch)) = 0
    BY <1>2, FS_EmptySet
  <2>2. \A s \in Symbol : Abs(exch[s]) = 0
    BY DEF Init, Flat, Abs
  <2> QED BY <2>1, <2>2, BookAssumption DEF ExposureLimit, PositionLimit
<1>4. OneSection /\ Down
  BY DEF Init, OneSection, Down, NoEntry, NoExit, NoRest
<1>5. BookInv /\ EntryInv /\ ExitInv /\ RestInv
  BY DEF Init, BookInv, EntryInv, ExitInv, RestInv, NoEntry, NoExit, NoRest
<1> QED BY <1>1, <1>3, <1>4, <1>5 DEF Inv

LEMMA InvImplies == Inv => ExposureLimit /\ NeverUnderstated
BY DEF Inv, BookInv, Dominates, NeverUnderstated, Booked, Open

(* When no two threads overlap and no call fails, the exchange never holds *)
(* more positions than configured, nor a symbol more than one entry's lots *)
(* - for any number of symbols, slots and lots, across restarts.           *)
THEOREM ExposureLimited ==
  ASSUME Calm
  PROVE  Spec => []ExposureLimit
<1> QED BY InvInit, InvStep, InvImplies, PTL DEF Spec

(* Under the same conditions the book never understates the exchange.      *)
THEOREM BookCovers ==
  ASSUME Calm
  PROVE  Spec => []NeverUnderstated
<1> QED BY InvInit, InvStep, InvImplies, PTL DEF Spec

(* Under the same conditions, and with orphan recovery, every position of  *)
(* the exchange has a lifecycle that will handle its exit.                 *)
THEOREM PositionsManaged ==
  ASSUME Calm, RecoverOrphans
  PROVE  Spec => []EveryPositionManaged
<1>1. Inv => EveryPositionManaged
  BY DEF Inv, BookInv, EveryPositionManaged, Open
<1> QED BY InvInit, InvStep, <1>1, PTL DEF Spec
===========================================================================
