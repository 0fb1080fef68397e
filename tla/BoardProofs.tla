----------------------------- MODULE BoardProofs -----------------------------
(***************************************************************************)
(* The two boards of planning cards.  First what the list computations of  *)
(* CardOrder preserve, for lanes of any size: the rank of a card of a      *)
(* numbered lane is its position, and removing or splicing a card leaves a *)
(* lane numbered 0 .. n-1.  Then the lists of the manufacturing board,     *)
(* which stay numbered while an operation on one card keeps the order of   *)
(* the others, and the packaging plan, which stays numbered within its     *)
(* places and with no tank twice: for any cards, tanks, contents, places.  *)
(***************************************************************************)
EXTENDS ManufacturingBoard, PackagingBoard, FiniteSetTheorems, TLAPS

-----------------------------------------------------------------------------
(* Numbered lanes. *)

\* A set of numbers has a least one.
LEMMA LeastNumber ==
  ASSUME NEW P, P \subseteq Nat, P # {}
  PROVE  \E k \in P : \A j \in P : k <= j
<1>1. PICK k \in P : \A j \in P : ~ (<<j, k>> \in OpToRel(<, Nat))
  BY NatLessThanWellFounded, WFMin
<1>2. ASSUME NEW j \in P
      PROVE  k <= j
  <2>1. j < k => <<j, k>> \in OpToRel(<, Nat)
    <3>1. <<j, k>> \in Nat \X Nat
      OBVIOUS
    <3> QED BY <3>1 DEF OpToRel
  <2>2. ~ (<<j, k>> \in OpToRel(<, Nat))
    BY <1>1
  <2>3. ~ (j < k)
    BY <2>1, <2>2, Zenon
  <2> QED BY <2>3
<1> QED BY <1>2

\* InSequence, card by card and position by position.
LEMMA NumberedLane ==
  ASSUME NEW row, NEW lane
  PROVE  InSequence(row, lane) <=>
           /\ \A d, e \in lane : row[d].position = row[e].position => d = e
           /\ \A d \in lane : row[d].position \in 0 .. (Cardinality(lane) - 1)
           /\ \A i \in 0 .. (Cardinality(lane) - 1) : \E d \in lane : row[d].position = i
<1> DEFINE S == {row[d].position : d \in lane}
           T == 0 .. (Cardinality(lane) - 1)
<1>1. S \subseteq T <=> \A d \in lane : row[d].position \in T
  OBVIOUS
<1>2. T \subseteq S <=> \A i \in T : \E d \in lane : row[d].position = i
  OBVIOUS
<1> QED BY <1>1, <1>2 DEF InSequence

\* In a numbered lane the cards before d are as many as d's position.
LEMMA RankIsPosition ==
  ASSUME NEW row, NEW lane, IsFiniteSet(lane), InSequence(row, lane), NEW d \in lane
  PROVE  Rank(row, lane, d) = row[d].position
<1> DEFINE p == row[d].position
           S == {e \in lane : row[e].position < p}
           f == [e \in S |-> row[e].position]
<1>1. Cardinality(lane) \in Nat
  BY FS_CardinalityType
<1>2. p \in Nat /\ p < Cardinality(lane)
  BY <1>1 DEF InSequence
<1>3. IsFiniteSet(S)
  BY FS_Subset
<1>4. f \in Bijection(S, 0 .. (p - 1))
  <2>1. f \in [S -> 0 .. (p - 1)]
    BY <1>1, <1>2 DEF InSequence
  <2>2. \A a, b \in S : f[a] = f[b] => a = b
    BY DEF InSequence
  <2>3. ASSUME NEW i \in 0 .. (p - 1)
        PROVE  \E a \in S : f[a] = i
    <3>1. i \in 0 .. (Cardinality(lane) - 1) /\ i < p
      BY <1>1, <1>2
    <3>2. PICK a \in lane : row[a].position = i
      BY <3>1, NumberedLane
    <3>3. a \in S /\ f[a] = i
      BY <3>1, <3>2
    <3> QED BY <3>3
  <2> QED BY <2>1, <2>2, <2>3 DEF Bijection, Injection, Surjection, IsInjective
<1>5. Cardinality(0 .. (p - 1)) = Cardinality(S)
  BY <1>3, <1>4, FS_Bijection DEF ExistsBijection
<1>6. Cardinality(0 .. (p - 1)) = p
  BY <1>2, FS_Interval
<1> QED BY <1>5, <1>6 DEF Rank

\* Leaving card c out of a numbered lane, the rank of another card is its
\* position with the gap of c closed.
LEMMA RankWithout ==
  ASSUME NEW row, NEW lane, IsFiniteSet(lane), InSequence(row, lane),
         NEW c \in lane, NEW d \in lane \ {c}
  PROVE  Rank(row, lane \ {c}, d) = ClosedGap(row, c, d)
<1> DEFINE S == {e \in lane : row[e].position < row[d].position}
<1>1. Cardinality(S) = row[d].position
  BY RankIsPosition DEF Rank
<1>2. IsFiniteSet(S)
  BY FS_Subset
<1>3. row[c].position \in Int /\ row[d].position \in Int /\ row[c].position # row[d].position
  BY FS_CardinalityType DEF InSequence
<1>4. {e \in lane \ {c} : row[e].position < row[d].position} = S \ {c}
  OBVIOUS
<1>5. c \in S <=> row[d].position > row[c].position
  BY <1>3
<1>6. Cardinality(S \ {c}) = IF c \in S THEN Cardinality(S) - 1 ELSE Cardinality(S)
  BY <1>2, FS_RemoveElement
<1> QED BY <1>1, <1>4, <1>5, <1>6 DEF Rank, ClosedGap

\* The lane after a deletion: the gap is closed.
LEMMA RemovalKeepsSequence ==
  ASSUME NEW row, NEW next, NEW lane, IsFiniteSet(lane), InSequence(row, lane),
         NEW c \in lane,
         \A d \in lane \ {c} : next[d].position = ClosedGap(row, c, d)
  PROVE  InSequence(next, lane \ {c})
<1> DEFINE n == Cardinality(lane)
<1>1. n \in Nat /\ Cardinality(lane \ {c}) = n - 1
  BY FS_CardinalityType, FS_RemoveElement
<1>2. \A d \in lane : row[d].position \in 0 .. (n - 1)
  BY DEF InSequence
<1>3. \A d, e \in lane \ {c} : next[d].position = next[e].position => d = e
  <2> SUFFICES ASSUME NEW d \in lane \ {c}, NEW e \in lane \ {c},
                      ClosedGap(row, c, d) = ClosedGap(row, c, e)
               PROVE  d = e
    OBVIOUS
  <2>1. row[d].position # row[c].position /\ row[e].position # row[c].position
    BY DEF InSequence
  <2>2. row[d].position = row[e].position
    BY <1>2, <2>1 DEF ClosedGap
  <2> QED BY <2>2 DEF InSequence
<1>4. \A d \in lane \ {c} : next[d].position \in 0 .. (n - 2)
  <2> TAKE d \in lane \ {c}
  <2>1. row[d].position # row[c].position
    BY DEF InSequence
  <2> QED BY <1>1, <1>2, <2>1 DEF ClosedGap
<1>5. \A i \in 0 .. (n - 2) : \E d \in lane \ {c} : next[d].position = i
  <2> TAKE i \in 0 .. (n - 2)
  <2> DEFINE j == IF i < row[c].position THEN i ELSE i + 1
  <2>1. j \in 0 .. (n - 1) /\ j # row[c].position
    BY <1>1, <1>2
  <2>2. PICK d \in lane : row[d].position = j
    BY <2>1 DEF InSequence
  <2>3. d # c /\ ClosedGap(row, c, d) = i
    BY <1>1, <1>2, <2>1, <2>2 DEF ClosedGap
  <2> QED BY <2>2, <2>3
<1>6. {next[d].position : d \in lane \ {c}} = 0 .. (n - 2)
  BY <1>4, <1>5
<1>7. (n - 1) - 1 = n - 2
  BY <1>1
<1> QED BY <1>1, <1>3, <1>6, <1>7 DEF InSequence

\* The ranks of a lane number it 0 .. n-1.
Ranked(row, lane) ==
  /\ \A d, e \in lane : Rank(row, lane, d) = Rank(row, lane, e) => d = e
  /\ \A d \in lane : Rank(row, lane, d) \in 0 .. (Cardinality(lane) - 1)
  /\ \A i \in 0 .. (Cardinality(lane) - 1) : \E d \in lane : Rank(row, lane, d) = i

\* The lists a move reads (a numbered lane, or one without the moved card) are
\* ranked.
LEMMA RanksInSequence ==
  ASSUME NEW row, NEW lane, IsFiniteSet(lane), InSequence(row, lane), NEW c
  PROVE  Ranked(row, lane \ {c})
<1> DEFINE ranks == [d \in lane \ {c} |-> [position |-> Rank(row, lane \ {c}, d)]]
<1>1. CASE c \in lane
  <2>1. \A d \in lane \ {c} : ranks[d].position = ClosedGap(row, c, d)
    BY <1>1, RankWithout
  <2>2. InSequence(ranks, lane \ {c})
    BY <1>1, <2>1, RemovalKeepsSequence
  <2>3. \A d \in lane \ {c} : ranks[d].position = Rank(row, lane \ {c}, d)
    OBVIOUS
  <2> HIDE DEF ranks
  <2>4. /\ \A d, e \in lane \ {c} : ranks[d].position = ranks[e].position => d = e
        /\ \A d \in lane \ {c} : ranks[d].position \in 0 .. (Cardinality(lane \ {c}) - 1)
        /\ \A i \in 0 .. (Cardinality(lane \ {c}) - 1) :
             \E d \in lane \ {c} : ranks[d].position = i
    BY <2>2, NumberedLane
  <2> QED BY <2>3, <2>4 DEF Ranked
<1>2. CASE c \notin lane
  <2>1. lane \ {c} = lane
    BY <1>2
  <2>2. \A d \in lane : Rank(row, lane, d) = row[d].position
    BY RankIsPosition
  <2>3. /\ \A d, e \in lane : row[d].position = row[e].position => d = e
        /\ \A d \in lane : row[d].position \in 0 .. (Cardinality(lane) - 1)
        /\ \A i \in 0 .. (Cardinality(lane) - 1) : \E d \in lane : row[d].position = i
    BY NumberedLane
  <2>4. Ranked(row, lane)
    BY <2>2, <2>3 DEF Ranked
  <2> QED BY <2>1, <2>4
<1> QED BY <1>1, <1>2

\* The list a move writes: the card c spliced into a ranked lane.
LEMMA SpliceKeepsSequence ==
  ASSUME NEW row, NEW next, NEW lane, IsFiniteSet(lane), Ranked(row, lane),
         NEW c, c \notin lane, NEW p \in Nat,
         next[c].position = SpliceIndex(p, lane),
         \A d \in lane : next[d].position = RankAround(row, lane, d, SpliceIndex(p, lane))
  PROVE  InSequence(next, lane \cup {c})
<1> DEFINE n == Cardinality(lane)
           i == SpliceIndex(p, lane)
           r(d) == Rank(row, lane, d)
<1>1. n \in Nat /\ Cardinality(lane \cup {c}) = n + 1
  BY FS_CardinalityType, FS_AddElement
<1>2. i \in 0 .. n
  BY <1>1 DEF SpliceIndex
<1>3. /\ \A d, e \in lane : r(d) = r(e) => d = e
      /\ \A d \in lane : r(d) \in 0 .. (n - 1)
      /\ \A j \in 0 .. (n - 1) : \E d \in lane : r(d) = j
  BY DEF Ranked
<1>4. \A d \in lane : next[d].position = IF r(d) < i THEN r(d) ELSE r(d) + 1
  BY DEF RankAround
<1> HIDE DEF r
<1> HIDE DEF i
<1>6. next[c].position = i
  BY DEF i
<1>7. \A d, e \in lane \cup {c} : next[d].position = next[e].position => d = e
  BY <1>1, <1>2, <1>3, <1>4, <1>6
<1>8. \A d \in lane \cup {c} : next[d].position \in 0 .. n
  BY <1>1, <1>2, <1>3, <1>4, <1>6
<1>9. \A j \in 0 .. n : \E d \in lane \cup {c} : next[d].position = j
  <2> TAKE j \in 0 .. n
  <2>1. CASE j < i
    <3>1. j \in 0 .. (n - 1)
      BY <1>1, <1>2, <2>1
    <3>2. PICK d \in lane : r(d) = j
      BY <1>3, <3>1
    <3>3. next[d].position = j
      BY <1>4, <2>1, <3>2
    <3> QED BY <3>3
  <2>2. CASE j = i
    BY <1>6, <2>2
  <2>3. CASE j > i
    <3>1. j - 1 \in 0 .. (n - 1) /\ j - 1 >= i
      BY <1>1, <1>2, <2>3
    <3>2. PICK d \in lane : r(d) = j - 1
      BY <1>3, <3>1
    <3>3. next[d].position = j
      BY <1>1, <1>2, <1>4, <3>1, <3>2
    <3> QED BY <3>3
  <2> QED BY <1>1, <1>2, <2>1, <2>2, <2>3
<1>10. {next[d].position : d \in lane \cup {c}} = 0 .. n
  BY <1>8, <1>9
<1>11. (n + 1) - 1 = n
  BY <1>1
<1> QED BY <1>1, <1>7, <1>10, <1>11 DEF InSequence

\* A new card at the end of a numbered lane.
LEMMA AppendKeepsSequence ==
  ASSUME NEW row, NEW next, NEW lane, IsFiniteSet(lane), InSequence(row, lane),
         NEW c, c \notin lane, next[c].position = Cardinality(lane),
         \A d \in lane : next[d].position = row[d].position
  PROVE  InSequence(next, lane \cup {c})
<1> DEFINE n == Cardinality(lane)
<1>1. n \in Nat /\ Cardinality(lane \cup {c}) = n + 1
  BY FS_CardinalityType, FS_AddElement
<1>2. /\ \A d, e \in lane : row[d].position = row[e].position => d = e
      /\ \A d \in lane : row[d].position \in 0 .. (n - 1)
      /\ \A i \in 0 .. (n - 1) : \E d \in lane : row[d].position = i
  BY NumberedLane
<1>3. \A d, e \in lane \cup {c} : next[d].position = next[e].position => d = e
  BY <1>1, <1>2
<1>4. \A d \in lane \cup {c} : next[d].position \in 0 .. ((n + 1) - 1)
  BY <1>1, <1>2
<1>5. ASSUME NEW i \in 0 .. ((n + 1) - 1)
      PROVE  \E d \in lane \cup {c} : next[d].position = i
  <2>1. CASE i = n
    BY <2>1
  <2>2. CASE i # n
    <3>1. i \in 0 .. (n - 1)
      BY <1>1, <2>2
    <3>2. PICK d \in lane : row[d].position = i
      BY <1>2, <3>1
    <3> QED BY <3>2
  <2> QED BY <2>1, <2>2
<1> QED BY <1>1, <1>3, <1>4, <1>5, NumberedLane

\* Only the positions of its own cards matter to a lane.
LEMMA SamePositions ==
  ASSUME NEW row, NEW next, NEW lane, InSequence(row, lane),
         \A d \in lane : next[d].position = row[d].position
  PROVE  InSequence(next, lane)
BY DEF InSequence

\* Reading a numbered lane, with or without one card, keeps its order.
LEMMA RanksKeepOrder ==
  ASSUME NEW row, NEW lane, IsFiniteSet(lane), InSequence(row, lane), NEW c,
         NEW d \in lane \ {c}, NEW e \in lane \ {c}
  PROVE  row[d].position < row[e].position <=>
           Rank(row, lane \ {c}, d) < Rank(row, lane \ {c}, e)
<1>1. /\ \A a, b \in lane : row[a].position = row[b].position => a = b
      /\ \A a \in lane : row[a].position \in 0 .. (Cardinality(lane) - 1)
  BY NumberedLane
<1>2. Cardinality(lane) \in Nat
  BY FS_CardinalityType
<1>3. CASE c \in lane
  <2>1. Rank(row, lane \ {c}, d) = ClosedGap(row, c, d)
    BY <1>3, RankWithout
  <2>2. Rank(row, lane \ {c}, e) = ClosedGap(row, c, e)
    BY <1>3, RankWithout
  <2>3. /\ row[c].position \in Int /\ row[d].position \in Int /\ row[e].position \in Int
        /\ row[c].position # row[d].position /\ row[c].position # row[e].position
    BY <1>1, <1>2, <1>3
  <2> QED BY <2>1, <2>2, <2>3 DEF ClosedGap
<1>4. CASE c \notin lane
  <2>1. lane \ {c} = lane
    BY <1>4
  <2> QED BY <2>1, RankIsPosition
<1> QED BY <1>3, <1>4

\* Closing a gap keeps the order of the remaining cards.
LEMMA ClosedGapKeepsOrder ==
  ASSUME NEW row, NEW lane, IsFiniteSet(lane), InSequence(row, lane), NEW c \in lane,
         NEW d \in lane \ {c}, NEW e \in lane \ {c}
  PROVE  row[d].position < row[e].position <=>
           ClosedGap(row, c, d) < ClosedGap(row, c, e)
<1>1. Rank(row, lane \ {c}, d) = ClosedGap(row, c, d)
  BY RankWithout
<1>2. Rank(row, lane \ {c}, e) = ClosedGap(row, c, e)
  BY RankWithout
<1>3. row[d].position < row[e].position <=>
        Rank(row, lane \ {c}, d) < Rank(row, lane \ {c}, e)
  BY RanksKeepOrder
<1> QED BY <1>1, <1>2, <1>3

-----------------------------------------------------------------------------
(* The manufacturing board. *)

BoardInv == BoardTypeOK /\ ListsInSequence

\* The lane of a tank is finite and its rows have numbers for positions.
LEMMA LaneFacts ==
  ASSUME BoardTypeOK, NEW t, t # NoTank
  PROVE  /\ IsFiniteSet(On(t))
         /\ On(t) \subseteq Planned
         /\ \A c \in On(t) : card[c].position \in Nat
<1>1. On(t) \in SUBSET Cards
  BY DEF On
<1>2. IsFiniteSet(On(t))
  BY <1>1, CardsFinite, FS_Subset
<1>3. \A c \in On(t) : card[c].position \in Nat
  BY DEF On, BoardTypeOK, CardRows, NoCard
<1> QED BY <1>2, <1>3 DEF On, Planned

LEMMA PlannedRows ==
  ASSUME BoardTypeOK, NEW c \in Planned
  PROVE  c \in Cards /\ card[c] \in CardRows /\ card[c].tank \in BoardTanks /\ c \in On(card[c].tank)
BY NoTankIsNoTank DEF Planned, On, BoardTypeOK, NoCard, CardRows

\* A new card goes to the end of its list.
LEMMA NextPositionIsLength ==
  ASSUME BoardTypeOK, ListsInSequence, NEW t \in BoardTanks
  PROVE  NextPosition(t) = Cardinality(On(t))
<1> DEFINE n == Cardinality(On(t))
           P == {card[c].position : c \in On(t)}
           top == CHOOSE p \in P : \A c \in On(t) : card[c].position <= p
<1>1. n \in Nat /\ IsFiniteSet(On(t))
  BY LaneFacts, NoTankIsNoTank, FS_CardinalityType
<1>2. CASE On(t) = {}
  BY <1>2, FS_EmptySet DEF NextPosition
<1>3. CASE On(t) # {}
  <2>1. n > 0
    BY <1>1, <1>3, FS_EmptySet
  <2>2. P = 0 .. (n - 1)
    BY DEF ListsInSequence, InSequence
  <2>3. n - 1 \in P /\ \A c \in On(t) : card[c].position <= n - 1
    BY <1>1, <2>1, <2>2
  <2>4. ASSUME NEW p \in P, \A c \in On(t) : card[c].position <= p
        PROVE  p = n - 1
    <3>1. n - 1 <= p
      BY <2>3, <2>4
    <3> QED BY <1>1, <2>2, <2>4, <3>1
  <2>5. top = n - 1
    BY <2>3, <2>4
  <2>6. NextPosition(t) = top + 1
    BY <1>3, Zenon DEF NextPosition
  <2> HIDE DEF top
  <2> QED BY <1>1, <2>5, <2>6
<1> QED BY <1>2, <1>3

-----------------------------------------------------------------------------
LEMMA CreateKeepsBoard ==
  ASSUME BoardInv, NEW c \in Cards, NEW t \in BoardTanks, NEW o \in Contents,
         CreatePlanningCard(c, t, o)
  PROVE  BoardInv'
<1> USE DEF BoardInv
<1>1. /\ card \in [Cards -> CardRows \cup {NoCard}] /\ c \notin Planned
      /\ card' = [card EXCEPT ![c] = [tank |-> t, position |-> Cardinality(On(t)), order |-> o]]
  BY NextPositionIsLength DEF CreatePlanningCard, BoardTypeOK
<1>2. Cardinality(On(t)) \in Nat
  BY LaneFacts, NoTankIsNoTank, FS_CardinalityType
<1>3. BoardTypeOK'
  BY <1>1, <1>2 DEF BoardTypeOK, CardRows
<1>4. ASSUME NEW s \in BoardTanks
      PROVE  InSequence(card', On(s)')
  <2>1. InSequence(card, On(s)) /\ IsFiniteSet(On(s)) /\ c \notin On(s)
    BY <1>1, LaneFacts, NoTankIsNoTank DEF ListsInSequence
  <2>2. \A d \in On(s) : card'[d].position = card[d].position
    BY <1>1, <2>1 DEF On
  <2>3. CASE s = t
    <3>1. On(s)' = On(s) \cup {c}
      BY <1>1, <2>3 DEF On
    <3>2. card'[c].position = Cardinality(On(s))
      BY <1>1, <2>3
    <3>3. InSequence(card', On(s) \cup {c})
      BY <2>1, <2>2, <3>2, AppendKeepsSequence
    <3> QED BY <3>1, <3>3
  <2>4. CASE s # t
    <3>1. On(s)' = On(s)
      BY <1>1, <2>1, <2>4 DEF On
    <3>2. InSequence(card', On(s))
      BY <2>1, <2>2, SamePositions
    <3> QED BY <3>1, <3>2
  <2> QED BY <2>3, <2>4
<1> QED BY <1>3, <1>4 DEF ListsInSequence

LEMMA UpdateKeepsBoard ==
  ASSUME BoardInv, NEW c \in Cards, NEW o \in Contents, UpdatePlanningCard(c, o)
  PROVE  BoardInv'
<1> USE DEF BoardInv
<1>1. /\ card \in [Cards -> CardRows \cup {NoCard}] /\ c \in Planned
      /\ card' = [card EXCEPT ![c].order = o]
  BY DEF UpdatePlanningCard, BoardTypeOK
<1>2. card[c] \in CardRows
  BY <1>1, PlannedRows
<1>3. BoardTypeOK'
  BY <1>1, <1>2 DEF BoardTypeOK, CardRows
<1>4. \A d \in Cards : card'[d].tank = card[d].tank /\ card'[d].position = card[d].position
  BY <1>1, <1>2 DEF CardRows
<1>5. ASSUME NEW s \in BoardTanks
      PROVE  InSequence(card', On(s)')
  <2>1. On(s)' = On(s) /\ \A d \in On(s) : card'[d].position = card[d].position
    BY <1>4 DEF On
  <2>2. InSequence(card, On(s))
    BY DEF ListsInSequence
  <2> QED BY <2>1, <2>2, SamePositions
<1> QED BY <1>3, <1>5 DEF ListsInSequence

\* A deleted or consumed card leaves its list closed up.
LEMMA WithoutKeepsBoard ==
  ASSUME BoardInv, NEW c \in Planned, card' = Without(c)
  PROVE  BoardInv'
<1> USE DEF BoardInv
<1>1. card \in [Cards -> CardRows \cup {NoCard}] /\ c \in Cards
  BY PlannedRows DEF BoardTypeOK
<1> DEFINE s == card[c].tank
<1>2. s \in BoardTanks /\ s # NoTank /\ c \in On(s) /\ IsFiniteSet(On(s))
  BY PlannedRows, LaneFacts, NoTankIsNoTank
<1>3. card' = [d \in Cards |->
                 IF d = c THEN NoCard
                 ELSE IF card[d].tank = s
                      THEN [card[d] EXCEPT !.position = ClosedGap(card, c, d)]
                 ELSE card[d]]
  BY DEF Without
<1>4. \A d \in On(s) : card[d] \in CardRows
  BY <1>1, <1>2, NoTankIsNoTank DEF On, NoCard
<1>5. \A d \in On(s) : ClosedGap(card, c, d) \in Nat
  BY <1>2, <1>4 DEF ClosedGap, CardRows
<1>6. ASSUME NEW d \in Cards
      PROVE  card'[d] \in CardRows \cup {NoCard}
  <2>1. CASE d = c
    BY <1>3, <2>1
  <2>2. CASE d # c /\ d \in On(s)
    <3>1. card'[d] = [card[d] EXCEPT !.position = ClosedGap(card, c, d)]
      BY <1>3, <2>2 DEF On
    <3>2. card[d] \in CardRows /\ ClosedGap(card, c, d) \in Nat
      BY <1>4, <1>5, <2>2
    <3> QED BY <3>1, <3>2 DEF CardRows
  <2>3. CASE d # c /\ d \notin On(s)
    BY <1>1, <1>3, <2>3 DEF On
  <2> QED BY <2>1, <2>2, <2>3
<1>7. BoardTypeOK'
  <2>1. card' \in [Cards -> CardRows \cup {NoCard}]
    BY <1>3, <1>6
  <2> QED BY <2>1 DEF BoardTypeOK
<1>8. \A d \in Cards \ {c} : card'[d].tank = card[d].tank
  <2> TAKE d \in Cards \ {c}
  <2>1. CASE d \in On(s)
    BY <1>3, <1>4, <2>1 DEF On, CardRows
  <2>2. CASE d \notin On(s)
    BY <1>3, <2>2 DEF On
  <2> QED BY <2>1, <2>2
<1>9. card'[c].tank = NoTank
  BY <1>1, <1>3 DEF NoCard
<1>10. ASSUME NEW r \in BoardTanks
       PROVE  InSequence(card', On(r)')
  <2>1. InSequence(card, On(r)) /\ r # NoTank
    BY NoTankIsNoTank DEF ListsInSequence
  <2>2. CASE r = s
    <3>1. On(r)' = On(r) \ {c}
      BY <1>8, <1>9, <2>1 DEF On
    <3>2. \A d \in On(r) \ {c} : card'[d].position = ClosedGap(card, c, d)
      BY <1>3, <1>4, <2>2 DEF On, CardRows
    <3>3. InSequence(card', On(r) \ {c})
      BY <1>2, <2>1, <2>2, <3>2, RemovalKeepsSequence
    <3> QED BY <3>1, <3>3
  <2>3. CASE r # s
    <3>1. On(r)' = On(r)
      BY <1>8, <1>9, <2>1, <2>3 DEF On
    <3>2. \A d \in On(r) : card'[d].position = card[d].position
      BY <1>3, <2>3 DEF On
    <3>3. InSequence(card', On(r))
      BY <2>1, <3>2, SamePositions
    <3> QED BY <3>1, <3>3
  <2> QED BY <2>2, <2>3
<1> QED BY <1>7, <1>10 DEF ListsInSequence

\* The rows after a move: c between the others of its new list, the others of
\* the list it left closed up.
LEMMA MovedRows ==
  ASSUME BoardInv, NEW c \in Cards, NEW t \in BoardTanks, NEW p \in Nat,
         MovePlanningCard(c, t, p)
  PROVE  LET target == On(t) \ {c}
             source == On(card[c].tank) \ {c}
             index  == SpliceIndex(p, target)
         IN /\ BoardTypeOK'
            /\ c \in Planned
            /\ card'[c].tank = t /\ card'[c].position = index
            /\ \A d \in Cards \ {c} : card'[d].tank = card[d].tank
            /\ \A d \in target : card'[d].position = RankAround(card, target, d, index)
            /\ card[c].tank # t =>
                 \A d \in source : card'[d].position = ClosedGap(card, c, d)
            /\ \A d \in Cards : d \notin target \cup source \cup {c} => card'[d] = card[d]
<1> USE DEF BoardInv
<1> DEFINE s == card[c].tank
           target == On(t) \ {c}
           source == On(s) \ {c}
           index == SpliceIndex(p, target)
           row(d) == IF d = c THEN [card[c] EXCEPT !.tank = t, !.position = index]
                     ELSE IF d \in target
                          THEN [card[d] EXCEPT !.position = RankAround(card, target, d, index)]
                     ELSE IF d \in source
                          THEN [card[d] EXCEPT !.position = Rank(card, source, d)]
                     ELSE card[d]
<1>1. c \in Planned /\ card' = [d \in Cards |-> row(d)]
  BY DEF MovePlanningCard
<1>2. card[c] \in CardRows /\ s \in BoardTanks /\ c \in On(s)
  BY <1>1, PlannedRows
<1>3. /\ IsFiniteSet(On(t)) /\ IsFiniteSet(target)
      /\ IsFiniteSet(On(s)) /\ IsFiniteSet(source)
      /\ target \subseteq Cards /\ source \subseteq Cards
  BY <1>2, LaneFacts, NoTankIsNoTank, FS_RemoveElement DEF On
<1>4. \A d \in target \cup source : card[d] \in CardRows
  BY <1>2, NoTankIsNoTank DEF On, BoardTypeOK, NoCard
<1>5. index \in Nat
  BY <1>3, FS_CardinalityType DEF SpliceIndex
<1>6. \A d \in target : RankAround(card, target, d, index) \in Nat
  <2> TAKE d \in target
  <2>1. Rank(card, target, d) \in Nat
    <3>1. {e \in target : card[e].position < card[d].position} \in SUBSET target
      OBVIOUS
    <3> QED BY <1>3, <3>1, FS_Subset, FS_CardinalityType DEF Rank
  <2> QED BY <2>1 DEF RankAround
<1>7. \A d \in source : Rank(card, source, d) = ClosedGap(card, c, d)
  BY <1>2, <1>3, RankWithout DEF ListsInSequence
<1>8. \A d \in source : ClosedGap(card, c, d) \in Nat
  BY <1>2, <1>4 DEF ClosedGap, CardRows
<1> HIDE DEF target, source, index
<1>9. row(c) \in CardRows /\ row(c).tank = t /\ row(c).position = index
  BY <1>2, <1>5 DEF CardRows
<1>10. ASSUME NEW d \in target \ {c}
       PROVE  /\ row(d) \in CardRows /\ row(d).tank = card[d].tank
              /\ row(d).position = RankAround(card, target, d, index)
  BY <1>4, <1>6 DEF CardRows
<1>11. ASSUME NEW d \in source \ ({c} \cup target)
       PROVE  /\ row(d) \in CardRows /\ row(d).tank = card[d].tank
              /\ row(d).position = ClosedGap(card, c, d)
  BY <1>4, <1>7, <1>8 DEF CardRows
<1>12. \A d \in Cards : d \notin target \cup source \cup {c} => row(d) = card[d]
  OBVIOUS
<1>13. c \notin target /\ (s # t => target \cap source = {})
  BY DEF target, source, On
<1> HIDE DEF row
<1>14. \A d \in Cards : card'[d] = row(d)
  BY <1>1
<1>15. BoardTypeOK'
  <2>1. \A d \in Cards : row(d) \in CardRows \cup {NoCard}
    BY <1>9, <1>10, <1>11, <1>12 DEF BoardTypeOK
  <2> QED BY <1>1, <2>1 DEF BoardTypeOK
<1>16. \A d \in Cards \ {c} : card'[d].tank = card[d].tank
  BY <1>10, <1>11, <1>12, <1>14
<1>17. \A d \in target : card'[d].position = RankAround(card, target, d, index)
  BY <1>3, <1>10, <1>13, <1>14
<1>18. s # t => \A d \in source : card'[d].position = ClosedGap(card, c, d)
  <2>1. c \notin source
    BY DEF source
  <2> QED BY <1>3, <1>11, <1>13, <1>14, <2>1
<1>19. \A d \in Cards : d \notin target \cup source \cup {c} => card'[d] = card[d]
  BY <1>12, <1>14
<1> QED BY <1>1, <1>9, <1>14, <1>15, <1>16, <1>17, <1>18, <1>19 DEF target, source, index

LEMMA MoveKeepsBoard ==
  ASSUME BoardInv, NEW c \in Cards, NEW t \in BoardTanks, NEW p \in Nat,
         MovePlanningCard(c, t, p)
  PROVE  BoardInv'
<1> USE DEF BoardInv
<1> DEFINE s == card[c].tank
           target == On(t) \ {c}
           source == On(s) \ {c}
<1>1. /\ BoardTypeOK'
      /\ c \in Planned
      /\ card'[c].tank = t /\ card'[c].position = SpliceIndex(p, target)
      /\ \A d \in Cards \ {c} : card'[d].tank = card[d].tank
      /\ \A d \in target :
           card'[d].position = RankAround(card, target, d, SpliceIndex(p, target))
      /\ s # t => \A d \in source : card'[d].position = ClosedGap(card, c, d)
      /\ \A d \in Cards : d \notin target \cup source \cup {c} => card'[d] = card[d]
  BY MovedRows
<1>2. s \in BoardTanks /\ c \in On(s)
  BY <1>1, PlannedRows
<1>3. ASSUME NEW r \in BoardTanks
      PROVE  InSequence(card', On(r)')
  <2>1. InSequence(card, On(r)) /\ IsFiniteSet(On(r))
    BY LaneFacts, NoTankIsNoTank DEF ListsInSequence
  <2>2. CASE r = t
    <3>1. On(r)' = target \cup {c}
      BY <1>1, <2>2 DEF On
    <3>2. Ranked(card, target) /\ IsFiniteSet(target) /\ c \notin target
      BY <2>1, <2>2, RanksInSequence, FS_RemoveElement
    <3> HIDE DEF target
    <3>3. InSequence(card', target \cup {c})
      BY <1>1, <3>2, SpliceKeepsSequence
    <3> QED BY <3>1, <3>3
  <2>3. CASE r # t /\ r = s
    <3>1. On(r)' = On(r) \ {c}
      BY <1>1, <2>3 DEF On
    <3>2. InSequence(card', On(r) \ {c})
      BY <1>1, <1>2, <2>1, <2>3, RemovalKeepsSequence
    <3> QED BY <3>1, <3>2
  <2>4. CASE r # t /\ r # s
    <3>1. On(r)' = On(r)
      BY <1>1, <2>4 DEF On
    <3>2. \A d \in On(r) : card'[d].position = card[d].position
      BY <1>1, <2>4 DEF On
    <3> QED BY <2>1, <3>1, <3>2, SamePositions
  <2> QED BY <2>2, <2>3, <2>4
<1> QED BY <1>1, <1>3 DEF ListsInSequence

LEMMA PlanKeepsBoard == BoardInv /\ PlanManufacturing => BoardInv'
<1> SUFFICES ASSUME BoardInv, PlanManufacturing PROVE BoardInv'
  OBVIOUS
<1>1. CASE \E c \in Cards, t \in BoardTanks, o \in Contents : CreatePlanningCard(c, t, o)
  BY <1>1, CreateKeepsBoard
<1>2. CASE \E c \in Cards, o \in Contents : UpdatePlanningCard(c, o)
  BY <1>2, UpdateKeepsBoard
<1>3. CASE \E c \in Cards, t \in BoardTanks, p \in 0 .. Cardinality(Cards) :
             MovePlanningCard(c, t, p)
  BY <1>3, MoveKeepsBoard
<1>4. CASE \E c \in Cards : DeletePlanningCard(c)
  BY <1>4, WithoutKeepsBoard DEF DeletePlanningCard
<1> QED BY <1>1, <1>2, <1>3, <1>4 DEF PlanManufacturing

\* A start consumes a card of the tank's list, if one matches.
LEMMA ConsumedCard ==
  ASSUME BoardTypeOK, ListsInSequence, NEW t, t # NoTank, NEW o,
         Matching(t, o) # {}
  PROVE  FirstMatching(t, o) \in Planned
<1>1. t \in BoardTanks
  BY DEF Matching, On, BoardTypeOK, CardRows, NoCard
<1> DEFINE n == Cardinality(On(t))
           M == Matching(t, o)
<1>2. /\ n \in Nat
      /\ \A c \in On(t) : card[c].position \in 0 .. (n - 1)
  BY <1>1, LaneFacts, NoTankIsNoTank, FS_CardinalityType, NumberedLane DEF ListsInSequence
<1>3. M \subseteq On(t)
  BY DEF Matching
<1>4. \E c \in M : \A d \in M : card[c].position <= card[d].position
  <2> DEFINE P == {card[c].position : c \in M}
  <2>1. P \subseteq Nat /\ P # {}
    BY <1>2, <1>3
  <2>2. \E k \in P : \A j \in P : k <= j
    BY <2>1, LeastNumber
  <2> QED BY <2>2
<1>5. FirstMatching(t, o) \in M
  BY <1>4 DEF FirstMatching
<1> QED BY <1>3, <1>5, LaneFacts

LEMMA ConsumeKeepsBoard ==
  ASSUME BoardInv, NEW t, t # NoTank, NEW o, ConsumePlanningCard(t, o)
  PROVE  BoardInv'
<1> USE DEF BoardInv
<1>1. CASE Matching(t, o) = {}
  <2>1. card' = card
    BY <1>1 DEF ConsumePlanningCard
  <2> QED BY <2>1 DEF BoardTypeOK, ListsInSequence, On, InSequence
<1>2. CASE Matching(t, o) # {}
  <2>1. card' = Without(FirstMatching(t, o))
    BY <1>2 DEF ConsumePlanningCard
  <2> QED BY <1>2, <2>1, ConsumedCard, WithoutKeepsBoard
<1> QED BY <1>1, <1>2

LEMMA BoardUnchanged == BoardInv /\ card' = card => BoardInv'
BY DEF BoardInv, BoardTypeOK, ListsInSequence, On, InSequence

LEMMA BoardStep == BoardInv /\ [BoardNext]_card => BoardInv'
<1> SUFFICES ASSUME BoardInv, [BoardNext]_card PROVE BoardInv'
  OBVIOUS
<1>1. CASE PlanManufacturing
  BY <1>1, PlanKeepsBoard
<1>2. CASE \E t \in BoardTanks, o \in Contents : ConsumePlanningCard(t, o)
  BY <1>2, ConsumeKeepsBoard, NoTankIsNoTank
<1>3. CASE UNCHANGED card
  BY <1>3, BoardUnchanged
<1> QED BY <1>1, <1>2, <1>3 DEF BoardNext

LEMMA BoardStart == BoardInit => BoardInv
<1> SUFFICES ASSUME BoardInit PROVE BoardInv
  OBVIOUS
<1>1. BoardTypeOK
  BY DEF BoardInit, BoardTypeOK
<1>2. ASSUME NEW t \in BoardTanks
      PROVE  InSequence(card, On(t))
  <2>1. On(t) = {}
    BY NoTankIsNoTank DEF BoardInit, On, NoCard
  <2>2. Cardinality(On(t)) = 0 /\ 0 .. (0 - 1) = {}
    BY <2>1, FS_EmptySet
  <2> QED BY <2>1, <2>2 DEF InSequence
<1> QED BY <1>1, <1>2 DEF BoardInv, ListsInSequence

\* The rows of the board are well formed and every tank's list is numbered
\* 0 .. n-1, after any sequence of the five operations.
THEOREM BoardInSequence == BoardSpec => [](BoardTypeOK /\ ListsInSequence)
<1>1. BoardSpec => []BoardInv
  BY BoardStart, BoardStep, PTL DEF BoardSpec
<1> QED BY <1>1, PTL DEF BoardInv

-----------------------------------------------------------------------------
\* A step that keeps the order of all the cards but c.
KeepsOrderBut(c) ==
  \A d, e \in Planned \ {c} :
    (d \in Planned' /\ e \in Planned' /\ card[d].tank = card[e].tank) =>
      card'[d].tank = card'[e].tank /\ SameOrder(card, card', d, e)

LEMMA OthersUntouched ==
  ASSUME NEW c, \A d \in Cards \ {c} : /\ card'[d].tank = card[d].tank
                                         /\ card'[d].position = card[d].position
  PROVE  KeepsOrderBut(c)
BY DEF KeepsOrderBut, Planned, SameOrder

LEMMA WithoutKeepsOrder ==
  ASSUME BoardInv, NEW c \in Planned, card' = Without(c)
  PROVE  KeepsOrderBut(c)
<1> USE DEF BoardInv
<1> DEFINE s == card[c].tank
<1>1. c \in Cards /\ s \in BoardTanks /\ c \in On(s)
  BY PlannedRows
<1>2. IsFiniteSet(On(s)) /\ InSequence(card, On(s))
  BY <1>1, LaneFacts, NoTankIsNoTank DEF ListsInSequence
<1>3. ASSUME NEW d \in Planned \ {c}
      PROVE  /\ card'[d].tank = card[d].tank
             /\ card'[d].position = IF card[d].tank = s THEN ClosedGap(card, c, d)
                                                        ELSE card[d].position
  <2>1. d \in Cards /\ card[d] \in CardRows
    BY PlannedRows
  <2>2. card'[d] = IF card[d].tank = s
                   THEN [card[d] EXCEPT !.position = ClosedGap(card, c, d)] ELSE card[d]
    BY <2>1 DEF Without
  <2> QED BY <2>1, <2>2 DEF CardRows
<1>4. ASSUME NEW d \in Planned \ {c}, NEW e \in Planned \ {c}, card[d].tank = card[e].tank
      PROVE  card'[d].tank = card'[e].tank /\ SameOrder(card, card', d, e)
  <2>1. CASE card[d].tank = s
    <3>1. d \in On(s) \ {c} /\ e \in On(s) \ {c}
      BY <1>4, <2>1, PlannedRows
    <3>2. card[d].position < card[e].position <=>
            ClosedGap(card, c, d) < ClosedGap(card, c, e)
      BY <1>1, <1>2, <3>1, ClosedGapKeepsOrder
    <3> QED BY <1>3, <1>4, <2>1, <3>2 DEF SameOrder
  <2>2. CASE card[d].tank # s
    BY <1>3, <1>4, <2>2 DEF SameOrder
  <2> QED BY <2>1, <2>2
<1> QED BY <1>4 DEF KeepsOrderBut

LEMMA MoveKeepsOrder ==
  ASSUME BoardInv, NEW c \in Cards, NEW t \in BoardTanks, NEW p \in Nat,
         MovePlanningCard(c, t, p)
  PROVE  KeepsOrderBut(c)
<1> USE DEF BoardInv
<1> DEFINE s == card[c].tank
           target == On(t) \ {c}
           source == On(s) \ {c}
           index == SpliceIndex(p, target)
<1>1. /\ c \in Planned
      /\ \A d \in Cards \ {c} : card'[d].tank = card[d].tank
      /\ \A d \in target : card'[d].position = RankAround(card, target, d, index)
      /\ s # t => \A d \in source : card'[d].position = ClosedGap(card, c, d)
      /\ \A d \in Cards : d \notin target \cup source \cup {c} => card'[d] = card[d]
  BY MovedRows
<1>2. s \in BoardTanks /\ c \in On(s)
  BY <1>1, PlannedRows
<1>3. \A r \in BoardTanks : IsFiniteSet(On(r)) /\ InSequence(card, On(r))
  BY LaneFacts, NoTankIsNoTank DEF ListsInSequence
<1>4. index \in Nat
  BY <1>3, FS_RemoveElement, FS_CardinalityType DEF SpliceIndex
<1>5. ASSUME NEW d \in Planned \ {c}, NEW e \in Planned \ {c}, card[d].tank = card[e].tank
      PROVE  card'[d].tank = card'[e].tank /\ SameOrder(card, card', d, e)
  <2>1. /\ d \in Cards /\ e \in Cards
        /\ card[d].tank \in BoardTanks /\ d \in On(card[d].tank) /\ e \in On(card[d].tank)
    BY <1>5, PlannedRows
  <2>2. card'[d].tank = card'[e].tank
    BY <1>1, <1>5, <2>1
  <2>3. CASE card[d].tank = t
    <3>1. d \in target /\ e \in target
      BY <2>1, <2>3
    <3>2. card[d].position < card[e].position <=>
            Rank(card, target, d) < Rank(card, target, e)
      BY <1>3, <3>1, RanksKeepOrder
    <3>3. Rank(card, target, d) \in Int /\ Rank(card, target, e) \in Int
      <4>1. Ranked(card, target)
        BY <1>3, RanksInSequence
      <4> HIDE DEF target
      <4> QED BY <3>1, <4>1 DEF Ranked
    <3>4. /\ card'[d].position = RankAround(card, target, d, index)
          /\ card'[e].position = RankAround(card, target, e, index)
      BY <1>1, <3>1
    <3> HIDE DEF target, index
    <3> QED BY <1>4, <2>2, <3>2, <3>3, <3>4 DEF SameOrder, RankAround
  <2>4. CASE card[d].tank # t /\ card[d].tank = s
    <3>1. d \in source /\ e \in source
      BY <2>1, <2>4
    <3>2. card[d].position < card[e].position <=>
            ClosedGap(card, c, d) < ClosedGap(card, c, e)
      BY <1>2, <1>3, <3>1, ClosedGapKeepsOrder
    <3> QED BY <1>1, <2>2, <2>4, <3>1, <3>2 DEF SameOrder
  <2>5. CASE card[d].tank # t /\ card[d].tank # s
    <3>1. card'[d] = card[d] /\ card'[e] = card[e]
      BY <1>1, <1>5, <2>1, <2>5 DEF On
    <3> QED BY <2>2, <3>1 DEF SameOrder
  <2> QED BY <2>3, <2>4, <2>5
<1> QED BY <1>5 DEF KeepsOrderBut

LEMMA StepKeepsOrder ==
  ASSUME BoardInv, BoardNext, card' # card
  PROVE  \E c \in Cards : KeepsOrderBut(c)
<1> USE DEF BoardInv
<1>1. ASSUME NEW c \in Cards, NEW t \in BoardTanks, NEW o \in Contents,
             CreatePlanningCard(c, t, o)
      PROVE  KeepsOrderBut(c)
  BY <1>1, OthersUntouched DEF CreatePlanningCard, BoardTypeOK
<1>2. ASSUME NEW c \in Cards, NEW o \in Contents, UpdatePlanningCard(c, o)
      PROVE  KeepsOrderBut(c)
  BY <1>2, OthersUntouched DEF UpdatePlanningCard, BoardTypeOK
<1>3. ASSUME NEW c \in Planned, card' = Without(c)
      PROVE  \E d \in Cards : KeepsOrderBut(d)
  BY <1>3, WithoutKeepsOrder, PlannedRows
<1>4. CASE PlanManufacturing
  <2>1. CASE \E c \in Cards, t \in BoardTanks, p \in 0 .. Cardinality(Cards) :
               MovePlanningCard(c, t, p)
    BY <2>1, MoveKeepsOrder
  <2> QED BY <1>1, <1>2, <1>3, <1>4, <2>1 DEF PlanManufacturing, DeletePlanningCard
<1>5. CASE \E t \in BoardTanks, o \in Contents : ConsumePlanningCard(t, o)
  <2>1. PICK t \in BoardTanks, o \in Contents : ConsumePlanningCard(t, o)
    BY <1>5
  <2>2. Matching(t, o) # {} /\ card' = Without(FirstMatching(t, o))
    BY <2>1 DEF ConsumePlanningCard
  <2> QED BY <1>3, <2>2, ConsumedCard, NoTankIsNoTank
<1> QED BY <1>4, <1>5 DEF BoardNext

\* No operation reorders the cards it is not about.
THEOREM BoardKeepsOrder == BoardSpec => RestKeepsOrder
<1>1. BoardInv /\ [BoardNext]_card =>
        [\E c \in Cards : \A d, e \in Planned \ {c} :
           (d \in Planned' /\ e \in Planned' /\ card[d].tank = card[e].tank) =>
             card'[d].tank = card'[e].tank /\ SameOrder(card, card', d, e)]_card
  BY StepKeepsOrder DEF KeepsOrderBut
<1>2. BoardSpec => []BoardInv
  BY BoardStart, BoardStep, PTL DEF BoardSpec
<1> QED BY <1>1, <1>2, PTL DEF BoardSpec, RestKeepsOrder

-----------------------------------------------------------------------------
(* The packaging plan. *)

PackRows == [tank: BoardTanks, position: Nat]

PackInv == PackBoardTypeOK /\ QueueInSequence

LEMMA QueueFacts ==
  ASSUME PackBoardTypeOK
  PROVE  /\ IsFiniteSet(Queue) /\ Queue \subseteq PackCards
         /\ Cardinality(Queue) \in Nat
         /\ \A c \in Queue : packCard[c] \in PackRows
<1>1. Queue \in SUBSET PackCards
  BY DEF Queue
<1>2. IsFiniteSet(Queue)
  BY <1>1, PackCardsFinite, FS_Subset
<1>3. \A c \in Queue : packCard[c] \in PackRows
  BY DEF Queue, PackBoardTypeOK, NoPackCard, PackRows
<1> QED BY <1>1, <1>2, <1>3, FS_CardinalityType

LEMMA CreateKeepsQueue ==
  ASSUME PackInv, NEW c \in PackCards, NEW t \in BoardTanks, NEW state,
         CreatePackagingPlanningCard(c, t, state)
  PROVE  PackInv'
<1> USE DEF PackInv
<1>1. /\ packCard \in [PackCards -> PackRows \cup {NoPackCard}]
      /\ c \notin Queue /\ CardsOf(t) = {} /\ Cardinality(Queue) < MaxPlanned
      /\ packCard' = [packCard EXCEPT ![c] = [tank |-> t, position |-> Cardinality(Queue)]]
  BY DEF CreatePackagingPlanningCard, PackBoardTypeOK, PackRows
<1>2. IsFiniteSet(Queue) /\ Cardinality(Queue) \in Nat /\ Queue \subseteq PackCards
  BY QueueFacts
<1>3. PackBoardTypeOK'
  BY <1>1, <1>2 DEF PackBoardTypeOK, PackRows
<1>4. /\ packCard'[c] = [tank |-> t, position |-> Cardinality(Queue)]
      /\ \A d \in PackCards \ {c} : packCard'[d] = packCard[d]
  BY <1>1
<1>5. Queue' = Queue \cup {c}
  BY <1>4, NoTankIsNoTank DEF Queue
<1>6. InSequence(packCard', Queue \cup {c})
  <2>1. \A d \in Queue : packCard'[d].position = packCard[d].position
    BY <1>1, <1>2, <1>4
  <2>2. packCard'[c].position = Cardinality(Queue)
    BY <1>4
  <2>3. InSequence(packCard, Queue)
    BY DEF QueueInSequence
  <2> QED BY <1>1, <1>2, <2>1, <2>2, <2>3, AppendKeepsSequence
<1>7. Cardinality(Queue \cup {c}) <= MaxPlanned
  <2>1. Cardinality(Queue \cup {c}) = Cardinality(Queue) + 1
    BY <1>1, <1>2, FS_AddElement
  <2> QED BY <1>1, <1>2, <2>1, MaxPlannedNat
<1>8. \A d, e \in Queue \cup {c} : packCard'[d].tank = packCard'[e].tank => d = e
  BY <1>1, <1>2, <1>4 DEF QueueInSequence, CardsOf
<1> QED BY <1>3, <1>5, <1>6, <1>7, <1>8 DEF QueueInSequence

LEMMA UpdateKeepsQueue ==
  ASSUME PackInv, NEW c \in PackCards, NEW t \in BoardTanks, NEW state,
         UpdatePackagingPlanningCard(c, t, state)
  PROVE  PackInv'
<1> USE DEF PackInv
<1>1. /\ packCard \in [PackCards -> PackRows \cup {NoPackCard}]
      /\ c \in Queue /\ CardsOf(t) \ {c} = {}
      /\ packCard' = [packCard EXCEPT ![c].tank = t]
  BY DEF UpdatePackagingPlanningCard, PackBoardTypeOK, PackRows
<1>2. packCard[c] \in PackRows
  BY <1>1, QueueFacts
<1>3. PackBoardTypeOK'
  BY <1>1, <1>2 DEF PackBoardTypeOK, PackRows
<1>4. /\ packCard'[c].tank = t
      /\ \A d \in PackCards \ {c} : packCard'[d] = packCard[d]
      /\ \A d \in PackCards : packCard'[d].position = packCard[d].position
  BY <1>1, <1>2 DEF PackRows
<1>5. Queue' = Queue
  BY <1>1, <1>4, NoTankIsNoTank DEF Queue
<1>6. InSequence(packCard', Queue)
  BY <1>4, SamePositions DEF QueueInSequence, Queue
<1>7. \A d, e \in Queue : packCard'[d].tank = packCard'[e].tank => d = e
  <2>1. \A d \in Queue \ {c} : packCard[d].tank # t /\ d \in PackCards
    BY <1>1 DEF CardsOf, Queue
  <2> QED BY <1>1, <1>4, <2>1 DEF QueueInSequence
<1>8. Cardinality(Queue) <= MaxPlanned
  BY DEF QueueInSequence
<1> QED BY <1>3, <1>5, <1>6, <1>7, <1>8 DEF QueueInSequence

\* The rows after a move.
LEMMA MovedQueue ==
  ASSUME PackInv, NEW c \in PackCards, NEW p \in Nat, MovePackagingPlanningCard(c, p)
  PROVE  LET others == Queue \ {c}
             index  == SpliceIndex(p, others)
         IN /\ PackBoardTypeOK'
            /\ c \in Queue /\ Queue' = Queue
            /\ \A d \in PackCards : packCard'[d].tank = packCard[d].tank
            /\ packCard'[c].position = index
            /\ \A d \in others :
                 packCard'[d].position = RankAround(packCard, others, d, index)
<1> USE DEF PackInv
<1> DEFINE others == Queue \ {c}
           index == SpliceIndex(p, others)
<1>1. /\ c \in Queue
      /\ packCard' = [d \in PackCards |->
           IF d = c THEN [packCard[d] EXCEPT !.position = index]
           ELSE IF d \in others
                THEN [packCard[d] EXCEPT !.position = RankAround(packCard, others, d, index)]
           ELSE packCard[d]]
  BY DEF MovePackagingPlanningCard
<1>2. /\ packCard \in [PackCards -> PackRows \cup {NoPackCard}]
      /\ \A d \in Queue : packCard[d] \in PackRows
      /\ IsFiniteSet(Queue) /\ Queue \subseteq PackCards
  BY QueueFacts DEF PackBoardTypeOK, PackRows
<1>3. IsFiniteSet(others)
  BY <1>2, FS_RemoveElement
<1>4. index \in Nat
  BY <1>3, FS_CardinalityType DEF SpliceIndex
<1>5. \A d \in others : RankAround(packCard, others, d, index) \in Nat
  <2> TAKE d \in others
  <2>1. {e \in others : packCard[e].position < packCard[d].position} \in SUBSET others
    OBVIOUS
  <2>2. Rank(packCard, others, d) \in Nat
    BY <1>3, <2>1, FS_Subset, FS_CardinalityType DEF Rank
  <2> QED BY <2>2 DEF RankAround
<1>6. packCard[c] \in PackRows /\ c \notin others /\ others \subseteq Queue
  BY <1>1, <1>2
<1>7. Queue = others \cup {c}
  BY <1>1
<1> HIDE DEF others, index
<1>8. ASSUME NEW d \in PackCards
      PROVE  /\ packCard'[d] \in PackRows \cup {NoPackCard}
             /\ packCard'[d].tank = packCard[d].tank
             /\ d = c => packCard'[d].position = index
             /\ d \in others => packCard'[d].position = RankAround(packCard, others, d, index)
  <2>1. CASE d = c
    BY <1>1, <1>4, <1>6, <2>1 DEF PackRows
  <2>2. CASE d \in others
    <3>1. packCard'[d] = [packCard[d] EXCEPT !.position = RankAround(packCard, others, d, index)]
      BY <1>1, <1>6, <2>2
    <3>2. packCard[d] \in PackRows
      BY <1>2, <1>6, <2>2
    <3> QED BY <1>5, <1>6, <2>2, <3>1, <3>2 DEF PackRows
  <2>3. CASE d # c /\ d \notin others
    BY <1>1, <1>2, <2>3
  <2> QED BY <2>1, <2>2, <2>3
<1>9. PackBoardTypeOK'
  <2>1. packCard' \in [PackCards -> PackRows \cup {NoPackCard}]
    BY <1>1, <1>8
  <2> QED BY <2>1 DEF PackBoardTypeOK, PackRows
<1>10. Queue' = Queue
  BY <1>8 DEF Queue
<1> QED BY <1>1, <1>2, <1>6, <1>8, <1>9, <1>10 DEF others, index

LEMMA MoveKeepsQueue ==
  ASSUME PackInv, NEW c \in PackCards, NEW p \in Nat, MovePackagingPlanningCard(c, p)
  PROVE  PackInv'
<1> USE DEF PackInv
<1> DEFINE others == Queue \ {c}
<1>1. /\ PackBoardTypeOK'
      /\ c \in Queue /\ Queue' = Queue
      /\ \A d \in PackCards : packCard'[d].tank = packCard[d].tank
      /\ packCard'[c].position = SpliceIndex(p, others)
      /\ \A d \in others :
           packCard'[d].position = RankAround(packCard, others, d, SpliceIndex(p, others))
  BY MovedQueue
<1>2. IsFiniteSet(Queue) /\ InSequence(packCard, Queue) /\ Queue \subseteq PackCards
  BY QueueFacts DEF QueueInSequence
<1>3. Ranked(packCard, others) /\ IsFiniteSet(others) /\ c \notin others
  BY <1>2, RanksInSequence, FS_RemoveElement
<1>4. Queue = others \cup {c}
  BY <1>1
<1> HIDE DEF others
<1>5. InSequence(packCard', others \cup {c})
  BY <1>1, <1>3, SpliceKeepsSequence
<1> QED BY <1>1, <1>2, <1>4, <1>5 DEF QueueInSequence

\* The plan without a deleted or consumed card.
LEMMA RemovedRows ==
  ASSUME PackInv, NEW c \in Queue, packCard' = QueueWithout(c)
  PROVE  /\ PackBoardTypeOK'
         /\ Queue' = Queue \ {c}
         /\ \A d \in Queue \ {c} : /\ packCard'[d].tank = packCard[d].tank
                                   /\ packCard'[d].position = ClosedGap(packCard, c, d)
<1> USE DEF PackInv
<1>1. packCard' = [d \in PackCards |->
        IF d = c THEN NoPackCard
        ELSE IF d \in Queue THEN [packCard[d] EXCEPT !.position = ClosedGap(packCard, c, d)]
        ELSE packCard[d]]
  BY DEF QueueWithout
<1>2. /\ packCard \in [PackCards -> PackRows \cup {NoPackCard}]
      /\ \A d \in Queue : packCard[d] \in PackRows
      /\ Queue \subseteq PackCards
  BY QueueFacts DEF PackBoardTypeOK, PackRows
<1>3. \A d \in Queue : ClosedGap(packCard, c, d) \in Nat
  BY <1>2 DEF ClosedGap, PackRows
<1>4. ASSUME NEW d \in Queue \ {c}
      PROVE  /\ packCard'[d] \in PackRows
             /\ packCard'[d].tank = packCard[d].tank
             /\ packCard'[d].position = ClosedGap(packCard, c, d)
  <2>1. packCard'[d] = [packCard[d] EXCEPT !.position = ClosedGap(packCard, c, d)]
    BY <1>1, <1>2
  <2>2. packCard[d] \in PackRows /\ ClosedGap(packCard, c, d) \in Nat
    BY <1>2, <1>3
  <2> QED BY <2>1, <2>2 DEF PackRows
<1>5. packCard'[c] = NoPackCard /\ \A d \in PackCards \ Queue : packCard'[d] = packCard[d]
  BY <1>1, <1>2
<1>6. PackBoardTypeOK'
  <2>1. \A d \in PackCards : packCard'[d] \in PackRows \cup {NoPackCard}
    BY <1>2, <1>4, <1>5
  <2>2. packCard' \in [PackCards -> PackRows \cup {NoPackCard}]
    BY <1>1, <2>1
  <2> QED BY <2>2 DEF PackBoardTypeOK, PackRows
<1>7. Queue' = Queue \ {c}
  <2>1. \A d \in PackCards : packCard'[d].tank # NoTank <=> d \in Queue \ {c}
    BY <1>2, <1>4, <1>5 DEF Queue, NoPackCard
  <2> QED BY <1>2, <2>1 DEF Queue
<1> QED BY <1>4, <1>6, <1>7

LEMMA RemovalKeepsQueue ==
  ASSUME PackInv, NEW c \in Queue, packCard' = QueueWithout(c)
  PROVE  PackInv'
<1> USE DEF PackInv
<1>1. /\ PackBoardTypeOK'
      /\ Queue' = Queue \ {c}
      /\ \A d \in Queue \ {c} : /\ packCard'[d].tank = packCard[d].tank
                                /\ packCard'[d].position = ClosedGap(packCard, c, d)
  BY RemovedRows
<1>2. IsFiniteSet(Queue) /\ InSequence(packCard, Queue) /\ Cardinality(Queue) \in Nat
  BY QueueFacts DEF QueueInSequence
<1>3. InSequence(packCard', Queue \ {c})
  BY <1>1, <1>2, RemovalKeepsSequence
<1>4. Cardinality(Queue \ {c}) <= MaxPlanned
  <2>1. Cardinality(Queue \ {c}) = Cardinality(Queue) - 1
    BY <1>2, FS_RemoveElement
  <2> QED BY <1>2, <2>1, MaxPlannedNat DEF QueueInSequence
<1>5. \A d, e \in Queue \ {c} : packCard'[d].tank = packCard'[e].tank => d = e
  BY <1>1 DEF QueueInSequence
<1> QED BY <1>1, <1>3, <1>4, <1>5 DEF QueueInSequence

-----------------------------------------------------------------------------
LEMMA PlanKeepsQueue == \A state : PackInv /\ PlanPackaging(state) => PackInv'
<1> SUFFICES ASSUME NEW state, PackInv, PlanPackaging(state) PROVE PackInv'
  OBVIOUS
<1>1. CASE \E c \in PackCards, t \in BoardTanks : CreatePackagingPlanningCard(c, t, state)
  BY <1>1, CreateKeepsQueue
<1>2. CASE \E c \in PackCards, t \in BoardTanks : UpdatePackagingPlanningCard(c, t, state)
  BY <1>2, UpdateKeepsQueue
<1>3. CASE \E c \in PackCards, p \in 0 .. MaxPlanned - 1 : MovePackagingPlanningCard(c, p)
  BY <1>3, MoveKeepsQueue
<1>4. CASE \E c \in PackCards : DeletePackagingPlanningCard(c)
  BY <1>4, RemovalKeepsQueue DEF DeletePackagingPlanningCard
<1> QED BY <1>1, <1>2, <1>3, <1>4 DEF PlanPackaging

LEMMA QueueUnchanged == PackInv /\ packCard' = packCard => PackInv'
BY DEF PackInv, PackBoardTypeOK, QueueInSequence, Queue, InSequence

LEMMA ConsumeKeepsQueue ==
  ASSUME PackInv, NEW t, ConsumePackagingPlanningCard(t)
  PROVE  PackInv'
<1>1. CASE CardsOf(t) = {}
  BY <1>1, QueueUnchanged DEF ConsumePackagingPlanningCard
<1>2. CASE CardsOf(t) # {}
  <2>1. PICK c \in CardsOf(t) : packCard' = QueueWithout(c)
    BY <1>2 DEF ConsumePackagingPlanningCard
  <2> QED BY <2>1, RemovalKeepsQueue DEF CardsOf
<1> QED BY <1>1, <1>2

LEMMA QueueStep == PackInv /\ [PackBoardNext]_packCard => PackInv'
<1> SUFFICES ASSUME PackInv, [PackBoardNext]_packCard PROVE PackInv'
  OBVIOUS
<1>1. CASE \E s \in {"VACIO", "APROBADO"} : PlanPackaging([t \in BoardTanks |-> s])
  BY <1>1, PlanKeepsQueue
<1>2. CASE \E t \in BoardTanks : ConsumePackagingPlanningCard(t)
  BY <1>2, ConsumeKeepsQueue
<1>3. CASE UNCHANGED packCard
  BY <1>3, QueueUnchanged
<1> QED BY <1>1, <1>2, <1>3 DEF PackBoardNext

LEMMA QueueStart == PackBoardInit => PackInv
<1> SUFFICES ASSUME PackBoardInit PROVE PackInv
  OBVIOUS
<1>1. PackBoardTypeOK
  BY DEF PackBoardInit, PackBoardTypeOK
<1>2. Queue = {}
  BY DEF PackBoardInit, Queue, NoPackCard
<1>3. Cardinality(Queue) = 0 /\ 0 .. (0 - 1) = {}
  BY <1>2, FS_EmptySet
<1> QED BY <1>1, <1>2, <1>3, MaxPlannedNat DEF PackInv, QueueInSequence, InSequence

\* The plan's rows are well formed, numbered 0 .. n-1, at most MaxPlanned and
\* of different tanks, after any sequence of operations on tanks in any state.
THEOREM PlanInSequence == PackBoardSpec => [](PackBoardTypeOK /\ QueueInSequence)
<1>1. PackBoardSpec => []PackInv
  BY QueueStart, QueueStep, PTL DEF PackBoardSpec
<1> QED BY <1>1, PTL DEF PackInv

-----------------------------------------------------------------------------
\* A step that keeps the order of all the plans but c.
PlanOrderBut(c) ==
  \A d, e \in Queue \ {c} :
    (d \in Queue' /\ e \in Queue') => SameOrder(packCard, packCard', d, e)

LEMMA OtherPlansUntouched ==
  ASSUME NEW c, \A d \in PackCards \ {c} : packCard'[d].position = packCard[d].position
  PROVE  PlanOrderBut(c)
BY DEF PlanOrderBut, Queue, SameOrder

LEMMA MoveKeepsPlanOrder ==
  ASSUME PackInv, NEW c \in PackCards, NEW p \in Nat, MovePackagingPlanningCard(c, p)
  PROVE  PlanOrderBut(c)
<1> USE DEF PackInv
<1> DEFINE others == Queue \ {c}
           index == SpliceIndex(p, others)
<1>1. \A d \in others : packCard'[d].position = RankAround(packCard, others, d, index)
  BY MovedQueue
<1>2. IsFiniteSet(Queue) /\ InSequence(packCard, Queue)
  BY QueueFacts DEF QueueInSequence
<1>3. index \in Nat
  BY <1>2, FS_RemoveElement, FS_CardinalityType DEF SpliceIndex
<1>4. Ranked(packCard, others)
  BY <1>2, RanksInSequence
<1>5. \A d, e \in others : packCard[d].position < packCard[e].position <=>
                          Rank(packCard, others, d) < Rank(packCard, others, e)
  BY <1>2, RanksKeepOrder
<1> HIDE DEF others, index
<1>6. \A d \in others : Rank(packCard, others, d) \in Int
  BY <1>4 DEF Ranked
<1>7. \A d, e \in others : SameOrder(packCard, packCard', d, e)
  BY <1>1, <1>3, <1>5, <1>6 DEF SameOrder, RankAround
<1> QED BY <1>7 DEF PlanOrderBut, others

LEMMA RemovalKeepsPlanOrder ==
  ASSUME PackInv, NEW c \in Queue, packCard' = QueueWithout(c)
  PROVE  PlanOrderBut(c)
<1> USE DEF PackInv
<1>1. \A d \in Queue \ {c} : packCard'[d].position = ClosedGap(packCard, c, d)
  BY RemovedRows
<1>2. IsFiniteSet(Queue) /\ InSequence(packCard, Queue)
  BY QueueFacts DEF QueueInSequence
<1>3. \A d, e \in Queue \ {c} : packCard[d].position < packCard[e].position <=>
        ClosedGap(packCard, c, d) < ClosedGap(packCard, c, e)
  BY <1>2, ClosedGapKeepsOrder
<1> QED BY <1>1, <1>3 DEF PlanOrderBut, SameOrder

LEMMA PlanStepKeepsOrder ==
  ASSUME PackInv, PackBoardNext, packCard' # packCard
  PROVE  \E c \in PackCards : PlanOrderBut(c)
<1> USE DEF PackInv
<1>1. ASSUME NEW c \in Queue, packCard' = QueueWithout(c)
      PROVE  \E d \in PackCards : PlanOrderBut(d)
  BY <1>1, RemovalKeepsPlanOrder DEF Queue
<1>2. ASSUME NEW state, PlanPackaging(state)
      PROVE  \E d \in PackCards : PlanOrderBut(d)
  <2>1. ASSUME NEW c \in PackCards, NEW t \in BoardTanks,
               CreatePackagingPlanningCard(c, t, state)
        PROVE  PlanOrderBut(c)
    BY <2>1, OtherPlansUntouched DEF CreatePackagingPlanningCard, PackBoardTypeOK
  <2>2. ASSUME NEW c \in PackCards, NEW t \in BoardTanks,
               UpdatePackagingPlanningCard(c, t, state)
        PROVE  PlanOrderBut(c)
    BY <2>2, OtherPlansUntouched DEF UpdatePackagingPlanningCard, PackBoardTypeOK
  <2>3. ASSUME NEW c \in PackCards, NEW p \in 0 .. MaxPlanned - 1,
               MovePackagingPlanningCard(c, p)
        PROVE  PlanOrderBut(c)
    BY <2>3, MoveKeepsPlanOrder
  <2>4. CASE \E c \in PackCards : DeletePackagingPlanningCard(c)
    BY <1>1, <2>4 DEF DeletePackagingPlanningCard
  <2> QED BY <1>2, <2>1, <2>2, <2>3, <2>4 DEF PlanPackaging
<1>3. CASE \E t \in BoardTanks : ConsumePackagingPlanningCard(t)
  <2>1. PICK t \in BoardTanks : ConsumePackagingPlanningCard(t)
    BY <1>3
  <2>2. CardsOf(t) # {}
    BY <2>1 DEF ConsumePackagingPlanningCard
  <2>3. PICK c \in CardsOf(t) : packCard' = QueueWithout(c)
    BY <2>1, <2>2 DEF ConsumePackagingPlanningCard
  <2> QED BY <1>1, <2>3 DEF CardsOf
<1> QED BY <1>2, <1>3 DEF PackBoardNext

\* No operation reorders the plans it is not about.
THEOREM PlanKeepsOrder == PackBoardSpec => QueueKeepsOrder
<1>1. PackInv /\ [PackBoardNext]_packCard =>
        [\E c \in PackCards : \A d, e \in Queue \ {c} :
           (d \in Queue' /\ e \in Queue') => SameOrder(packCard, packCard', d, e)]_packCard
  BY PlanStepKeepsOrder DEF PlanOrderBut
<1>2. PackBoardSpec => []PackInv
  BY QueueStart, QueueStep, PTL DEF PackBoardSpec
<1> QED BY <1>1, <1>2, PTL DEF PackBoardSpec, QueueKeepsOrder
=============================================================================
