----------------------- MODULE NotificationBellProofs -----------------------
(***************************************************************************)
(* The bell keeps its promise for any plants, any limit of the list and    *)
(* any number of notifications.  The reference of the known ids outlives   *)
(* the lists, which are cut at the limit and may be old when they arrive;  *)
(* the invariant says what is still true of them then.                     *)
(***************************************************************************)
EXTENDS NotificationBell, FiniteSetTheorems, SequenceTheorems, WellFoundedInduction, TLAPS

-----------------------------------------------------------------------------
(* Lists cut at the limit. *)

\* Numbers up to n are a finite set with at most n elements and, unless there
\* are none, a least one.
LEMMA SomeNumbers ==
  ASSUME NEW n \in Nat, NEW S \in SUBSET (1 .. n)
  PROVE  /\ IsFiniteSet(S) /\ Cardinality(S) \in 0 .. n
         /\ S # {} => \E k \in S : \A j \in S : k <= j
<1>1. IsFiniteSet(1 .. n) /\ Cardinality(1 .. n) = n
  BY FS_Interval
<1>2. IsFiniteSet(S) /\ Cardinality(S) <= n /\ Cardinality(S) \in Nat
  BY <1>1, FS_Subset, FS_CardinalityType
<1>3. ASSUME S # {}
      PROVE  \E k \in S : \A j \in S : k <= j
  <2>0. S \subseteq Nat
    OBVIOUS
  <2>1. PICK k \in S : \A j \in S : ~ (<<j, k>> \in OpToRel(<, Nat))
    BY <1>3, <2>0, NatLessThanWellFounded, WFMin
  <2>2. ASSUME NEW j \in S
        PROVE  k <= j
    <3>1. j < k => <<j, k>> \in OpToRel(<, Nat)
      <4>1. <<j, k>> \in Nat \X Nat
        OBVIOUS
      <4> QED BY <4>1 DEF OpToRel
    <3>2. ~ (j < k)
      BY <2>1, <3>1, Zenon
    <3> QED BY <3>2
  <2> QED BY <2>2
<1> QED BY <1>2, <1>3

\* A list is cut at the limit.
LEMMA ListIsCut ==
  ASSUME NEW n \in Nat, NEW S \in SUBSET (1 .. n)
  PROVE  Newest(S) \subseteq S /\ Cardinality(Newest(S)) <= Limit
<1> DEFINE N == Newest(S)
<1>1. N \subseteq S
  BY DEF Newest
<1>2. IsFiniteSet(N) /\ Cardinality(N) \in Nat
  BY <1>1, SomeNumbers
<1>3. N = {} => Cardinality(N) <= Limit
  BY FS_EmptySet, BellAssumption
<1>4. ASSUME N # {}
      PROVE  Cardinality(N) <= Limit
  <2>1. PICK k \in N : \A j \in N : k <= j
    BY <1>1, <1>4, SomeNumbers
  <2> DEFINE A == {j \in S : j > k}
  <2>2. Cardinality(A) < Limit
    BY <2>1 DEF Newest
  <2>3. IsFiniteSet(A) /\ Cardinality(A) \in Nat
    <3>1. A \in SUBSET (1 .. n)
      OBVIOUS
    <3> HIDE DEF A
    <3> QED BY <3>1, SomeNumbers
  <2>4. N \ {k} \subseteq A
    <3>1. \A j \in S : j \in Nat
      OBVIOUS
    <3> HIDE DEF N
    <3>2. ASSUME NEW j \in N, j # k
          PROVE  j \in S /\ j > k
      <4>1. j \in S /\ k \in S /\ k <= j
        BY <1>1, <2>1
      <4>2. j \in Nat /\ k \in Nat
        BY <3>1, <4>1
      <4> HIDE DEF A
      <4> QED BY <3>2, <4>1, <4>2
    <3> QED BY <3>2
  <2>5. Cardinality(N \ {k}) = Cardinality(N) - 1
    BY <1>2, <2>1, FS_RemoveElement
  <2> HIDE DEF A, N
  <2>6. Cardinality(N \ {k}) <= Cardinality(A)
    BY <2>3, <2>4, FS_Subset
  <2> QED BY <1>2, <2>2, <2>3, <2>5, <2>6, BellAssumption
<1> QED BY <1>1, <1>3, <1>4

\* What fell off the end of a list does not come back when the list grows.
LEMMA CutForGood ==
  ASSUME NEW n \in Nat, NEW S \in SUBSET (1 .. n), NEW T \in SUBSET S, NEW i,
         i \notin Newest(T), i \in T
  PROVE  i \notin Newest(S)
<1> DEFINE A == {j \in T : j > i}
           B == {j \in S : j > i}
<1>1. /\ IsFiniteSet(A) /\ Cardinality(A) \in Nat
      /\ IsFiniteSet(B) /\ Cardinality(B) \in Nat
  <2>1. A \in SUBSET (1 .. n) /\ B \in SUBSET (1 .. n)
    OBVIOUS
  <2> HIDE DEF A, B
  <2> QED BY <2>1, SomeNumbers
<1>2. Cardinality(A) <= Cardinality(B)
  <2>1. A \in SUBSET B
    OBVIOUS
  <2> HIDE DEF A, B
  <2> QED BY <1>1, <2>1, FS_Subset
<1>3. ~ (Cardinality(A) < Limit)
  BY DEF Newest
<1> HIDE DEF A, B
<1>4. ~ (Cardinality(B) < Limit)
  BY <1>1, <1>2, <1>3, BellAssumption
<1> QED BY <1>4 DEF Newest, B

-----------------------------------------------------------------------------
(* The invariant. *)

Notes == [plant : Plants, read : BOOLEAN]
Lists == [ids : SUBSET Ids, unread : SUBSET Ids, count : -1..MaxNotes]

TypesOK ==
  /\ notes \in Seq(Notes) /\ Len(notes) <= MaxNotes
  /\ active \in Plants
  /\ data \in Lists /\ Cardinality(data.ids) <= Limit
  /\ fetch \in [state : {"none", "sent", "answered"}, answer : Lists]
  /\ known \in (SUBSET Ids) \cup {{-1}}
  /\ marking \in [what : -2..MaxNotes, plant : Plants]
  /\ announced \in [Ids -> Nat]
  /\ switches \in Nat
  /\ seeded \in Int

Answered == fetch.state = "answered"

\* The notification is past the end of the list of the active plant.
Gone(i) == i \notin Newest(Visible(active))

\* An answer on its way is a list of notifications there are; those that were
\* read since are still unread in it, and what it does not show any more is gone.
AnswerInv ==
  LET a == fetch.answer IN
  Answered =>
    /\ a.ids \subseteq DOMAIN notes /\ a.unread \subseteq a.ids
    /\ Cardinality(a.ids) <= Limit
    /\ \A i \in a.ids : ~notes[i].read => i \in a.unread
    /\ \A i \in DOMAIN notes : announced[i] = switches + 1 /\ i \notin a.ids => Gone(i)
    /\ \A i \in a.unread \cap known : i > seeded => announced[i] > 0

\* What was announced since the last change of plant is in the last list, or in
\* no list to come.
OnceInv ==
  \A i \in Ids :
    /\ announced[i] <= switches + 1
    /\ announced[i] = switches + 1 =>
         /\ i \in DOMAIN notes
         /\ i \in known \/ (Gone(i) /\ (Answered => i \notin fetch.answer.ids))

\* What is known and not read yet was announced, or there at the first list.
KnownInv ==
  /\ known = {-1} => seeded = -1
  /\ \A i \in known : i # -1 =>
       i \in DOMAIN notes /\ (~notes[i].read /\ i > seeded => announced[i] > 0)

BellInv == TypesOK /\ AnswerInv /\ OnceInv /\ KnownInv /\ NothingSilent

\* The notifications of a plant, when there are more of them or more are read.
LEMMA VisibleFacts ==
  ASSUME TypesOK, NEW p
  PROVE  /\ Len(notes) \in Nat /\ DOMAIN notes = 1 .. Len(notes) /\ DOMAIN notes \subseteq Ids
         /\ Visible(p) \in SUBSET (1 .. Len(notes))
         /\ Newest(Visible(p)) \subseteq Visible(p)
         /\ Cardinality(Newest(Visible(p))) <= Limit
         /\ \A i \in DOMAIN notes : notes[i] \in Notes
<1>1. /\ Len(notes) \in Nat /\ DOMAIN notes = 1 .. Len(notes) /\ Len(notes) <= MaxNotes
      /\ notes \in Seq(Notes)
  BY DEF TypesOK
<1>2. DOMAIN notes \subseteq Ids
  BY <1>1, BellBounds DEF Ids
<1>3. Visible(p) \in SUBSET (1 .. Len(notes))
  BY <1>1 DEF Visible
<1>4. Newest(Visible(p)) \subseteq Visible(p) /\ Cardinality(Newest(Visible(p))) <= Limit
  BY <1>1, <1>3, ListIsCut
<1>5. \A i \in DOMAIN notes : notes[i] \in Notes
  BY <1>1, ElementOfSeq
<1> QED BY <1>1, <1>2, <1>3, <1>4, <1>5

LEMMA GoneForGood ==
  ASSUME TypesOK, TypesOK', active' = active, NEW i \in DOMAIN notes, Gone(i),
         DOMAIN notes \subseteq DOMAIN notes',
         \A j \in DOMAIN notes : notes'[j].plant = notes[j].plant
  PROVE  Gone(i)'
<1> DEFINE S == Visible(active)'
           T == Visible(active)
<1>1. /\ Len(notes') \in Nat /\ DOMAIN notes' = 1 .. Len(notes')
  BY DEF TypesOK
<1>2. S \in SUBSET (1 .. Len(notes'))
  BY <1>1 DEF Visible
<1>3. T \in SUBSET S
  BY DEF Visible
<1>4. CASE i \in T
  <2>1. i \notin Newest(T)
    BY DEF Gone
  <2> HIDE DEF S, T
  <2>2. i \notin Newest(S)
    BY <1>1, <1>2, <1>3, <1>4, <2>1, CutForGood
  <2> QED BY <2>2 DEF Gone, S
<1>5. CASE i \notin T
  <2>1. i \notin S
    BY <1>5 DEF Visible
  <2>2. Newest(S) \subseteq S
    <3> DEFINE n == Len(notes')
    <3>1. n \in Nat /\ S \in SUBSET (1 .. n)
      BY <1>1, <1>2
    <3> HIDE DEF S, n
    <3> QED BY <3>1, ListIsCut
  <2> QED BY <2>1, <2>2 DEF Gone
<1> QED BY <1>4, <1>5

LEMMA ListFacts ==
  ASSUME TypesOK, NEW p
  PROVE  List(p) \in Lists
<1>1. /\ Len(notes) \in Nat /\ DOMAIN notes = 1 .. Len(notes) /\ Len(notes) <= MaxNotes
      /\ Visible(p) \in SUBSET (1 .. Len(notes)) /\ DOMAIN notes \subseteq Ids
      /\ Newest(Visible(p)) \subseteq Visible(p) /\ MaxNotes \in Nat
  BY VisibleFacts, BellBounds DEF TypesOK
<1> DEFINE U == {i \in Visible(p) : ~notes[i].read}
<1>2. U \in SUBSET (1 .. Len(notes))
  BY <1>1
<1> HIDE DEF U
<1>3. Cardinality(U) \in 0 .. Len(notes)
  BY <1>1, <1>2, SomeNumbers
<1>4. Cardinality(U) \in -1 .. MaxNotes
  BY <1>1, <1>3
<1>5. List(p).count = Cardinality(U)
  BY DEF List, U
<1> QED BY <1>1, <1>4 DEF List, Lists, U

\* Steps that only send, lose or cancel a fetch, or begin and end a marking.
LEMMA QuietKeepsBell ==
  ASSUME BellInv, UNCHANGED <<notes, active, data, known, announced, seeded, switches>>,
         fetch' \in {NoFetch, Sent}, marking' \in [what : -2..MaxNotes, plant : Plants]
  PROVE  BellInv'
<1>1. fetch' \in [state : {"none", "sent", "answered"}, answer : Lists] /\ ~Answered'
  BY BellBounds DEF NoFetch, Sent, NoData, Answered, Lists
<1> QED BY <1>1 DEF BellInv, TypesOK, AnswerInv, OnceInv, KnownInv, NothingSilent, Gone,
     Visible

\* Steps that add notifications or mark some as read.
LEMMA NotesKeepBell ==
  ASSUME BellInv, UNCHANGED <<active, data, fetch, known, announced, seeded, switches>>,
         marking' \in [what : -2..MaxNotes, plant : Plants],
         notes' \in Seq(Notes), Len(notes') <= MaxNotes, DOMAIN notes \subseteq DOMAIN notes',
         \A j \in DOMAIN notes : /\ notes'[j].plant = notes[j].plant
                                 /\ notes[j].read => notes'[j].read
  PROVE  BellInv'
<1>1. TypesOK /\ TypesOK'
  BY DEF BellInv, TypesOK
<1>2. \A i \in DOMAIN notes : Gone(i) => Gone(i)'
  BY <1>1, GoneForGood
<1>3. Answered' <=> Answered
  BY DEF Answered
<1>4. DOMAIN notes' \subseteq Ids
  <2>1. DOMAIN notes' = 1 .. Len(notes') /\ Len(notes') \in Nat
    OBVIOUS
  <2> QED BY <2>1, BellBounds DEF Ids
<1>5. OnceInv'
  BY <1>2, <1>3 DEF BellInv, OnceInv
<1>6. AnswerInv'
  <2> SUFFICES ASSUME Answered PROVE AnswerInv'
    BY <1>3 DEF AnswerInv
  <2>1. \A i \in DOMAIN notes' : announced[i] = switches + 1 => i \in DOMAIN notes
    BY <1>4 DEF BellInv, OnceInv
  <2> QED BY <1>2, <2>1 DEF BellInv, AnswerInv
<1>7. KnownInv' /\ NothingSilent'
  BY DEF BellInv, KnownInv, NothingSilent
<1> QED BY <1>1, <1>5, <1>6, <1>7 DEF BellInv

LEMMA ArriveKeepsBell ==
  ASSUME BellInv, NEW p \in Plants, Arrive(p)
  PROVE  BellInv'
<1> DEFINE e == [plant |-> p, read |-> FALSE]
<1>1. notes \in Seq(Notes) /\ e \in Notes /\ notes' = Append(notes, e) /\ Len(notes) < MaxNotes
  BY DEF Arrive, BellInv, TypesOK, Notes
<1> HIDE DEF e
<1>2. /\ notes' \in Seq(Notes) /\ Len(notes') = Len(notes) + 1
      /\ \A j \in 1 .. Len(notes) : notes'[j] = notes[j]
      /\ DOMAIN notes = 1 .. Len(notes) /\ DOMAIN notes' = 1 .. Len(notes')
      /\ Len(notes) \in Nat
  BY <1>1, AppendProperties, LenProperties
<1>3. Len(notes') <= MaxNotes /\ DOMAIN notes \subseteq DOMAIN notes'
  BY <1>1, <1>2, BellBounds
<1>4. /\ UNCHANGED <<active, data, fetch, known, announced, seeded, switches>>
      /\ marking' \in [what : -2..MaxNotes, plant : Plants]
  BY DEF Arrive, history, BellInv, TypesOK
<1> QED BY <1>2, <1>3, <1>4, NotesKeepBell

LEMMA MarkServedKeepsBell ==
  ASSUME BellInv, MarkServed
  PROVE  BellInv'
<1> DEFINE M(i) == i = marking.what \/ (marking.what = All /\ i \in Visible(marking.plant))
<1>1. notes' = [i \in DOMAIN notes |->
                  IF M(i) THEN [notes[i] EXCEPT !.read = TRUE] ELSE notes[i]]
  BY DEF MarkServed, Marked
<1>2. /\ notes \in Seq(Notes) /\ Len(notes) \in Nat /\ DOMAIN notes = 1 .. Len(notes)
      /\ Len(notes) <= MaxNotes /\ \A i \in DOMAIN notes : notes[i] \in Notes
  BY VisibleFacts DEF BellInv, TypesOK
<1>3. \A r \in Notes : /\ [r EXCEPT !.read = TRUE] \in Notes
                       /\ [r EXCEPT !.read = TRUE].plant = r.plant
                       /\ [r EXCEPT !.read = TRUE].read
  BY DEF Notes
<1> HIDE DEF M
<1>4. \A i \in DOMAIN notes : /\ notes'[i] \in Notes /\ notes'[i].plant = notes[i].plant
                              /\ notes[i].read => notes'[i].read
  BY <1>1, <1>2, <1>3
<1>5. DOMAIN notes' = 1 .. Len(notes) /\ notes' = [i \in 1 .. Len(notes) |-> notes'[i]]
  BY <1>1, <1>2
<1>6. notes' \in Seq(Notes) /\ Len(notes') = Len(notes)
  BY <1>2, <1>4, <1>5, IsASeq
<1>7. /\ UNCHANGED <<active, data, fetch, known, announced, seeded, switches>>
      /\ marking' \in [what : -2..MaxNotes, plant : Plants]
  BY BellAssumption, BellBounds DEF MarkServed, Done
<1> QED BY <1>2, <1>4, <1>5, <1>6, <1>7, NotesKeepBell

LEMMA AnswerKeepsBell ==
  ASSUME BellInv, Answer
  PROVE  BellInv'
<1> DEFINE a == List(active)
<1>1. /\ TypesOK /\ a \in Lists /\ Answered' /\ fetch'.answer = a
      /\ fetch' \in [state : {"none", "sent", "answered"}, answer : Lists]
      /\ UNCHANGED <<notes, active, data, known, marking, announced, seeded, switches>>
      /\ ~Answered
  <2>1. TypesOK /\ a \in Lists
    BY ListFacts DEF BellInv
  <2> HIDE DEF a
  <2>2. fetch' = [state |-> "answered", answer |-> a]
    BY DEF Answer, a
  <2> QED BY <2>1, <2>2 DEF Answer, history, Answered
<1>2. /\ a.ids = Newest(Visible(active)) /\ a.unread = {i \in a.ids : ~notes[i].read}
  BY DEF List
<1>3. /\ a.ids \subseteq DOMAIN notes /\ Cardinality(a.ids) <= Limit
      /\ DOMAIN notes \subseteq Ids
  BY <1>1, <1>2, VisibleFacts
<1> HIDE DEF a
<1>4. TypesOK'
  BY <1>1 DEF TypesOK
<1>5. \A i : Gone(i) <=> i \notin a.ids
  BY <1>2 DEF Gone
<1>6. \A i : Gone(i)' <=> Gone(i)
  BY <1>1 DEF Gone, Visible
<1>7. \A i \in a.unread \cap known : i > seeded => announced[i] > 0
  <2>1. \A i \in a.unread : i \in DOMAIN notes /\ i # -1 /\ ~notes[i].read
    BY <1>2, <1>3 DEF Ids
  <2> QED BY <2>1 DEF BellInv, KnownInv
<1>8. AnswerInv'
  BY <1>1, <1>2, <1>3, <1>5, <1>6, <1>7 DEF AnswerInv
<1>9. OnceInv'
  BY <1>1, <1>5, <1>6 DEF BellInv, OnceInv
<1>10. KnownInv' /\ NothingSilent'
  BY <1>1 DEF BellInv, KnownInv, NothingSilent
<1> QED BY <1>4, <1>8, <1>9, <1>10 DEF BellInv

LEMMA DeliverKeepsBell ==
  ASSUME BellInv, Deliver
  PROVE  BellInv'
<1> DEFINE a == fetch.answer
           N == New(a)
<1>1. /\ Answered /\ data' = a /\ known' = a.ids
      /\ announced' = [i \in Ids |-> IF i \in N THEN announced[i] + 1 ELSE announced[i]]
      /\ seeded' = IF known = {-1} THEN Max({0} \union DOMAIN notes) ELSE seeded
      /\ fetch' = NoFetch
      /\ UNCHANGED <<notes, active, marking, switches>>
  BY DEF Deliver, Answered, Know
<1>2. /\ a \in Lists /\ a.ids \subseteq DOMAIN notes /\ a.unread \subseteq a.ids
      /\ Cardinality(a.ids) <= Limit
      /\ \A i \in a.ids : ~notes[i].read => i \in a.unread
      /\ \A i \in DOMAIN notes : announced[i] = switches + 1 /\ i \notin a.ids => Gone(i)
      /\ \A i \in a.unread \cap known : i > seeded => announced[i] > 0
  BY <1>1 DEF BellInv, TypesOK, AnswerInv
<1>3. N = {i \in a.unread : known # {-1} /\ i \notin known}
  BY DEF New
<1> HIDE DEF a, N
<1>4. /\ TypesOK /\ announced \in [Ids -> Nat] /\ switches \in Nat /\ seeded \in Int
      /\ Len(notes) \in Nat /\ DOMAIN notes = 1 .. Len(notes) /\ DOMAIN notes \subseteq Ids
  BY VisibleFacts DEF BellInv, TypesOK
<1>5. \A i \in Ids : announced'[i] = IF i \in N THEN announced[i] + 1 ELSE announced[i]
  BY <1>1
\* The first list counts everything there is as heard.
<1>6. seeded' \in Int /\ (known = {-1} => \A i \in DOMAIN notes : i <= seeded')
  <2> DEFINE S == {0} \union DOMAIN notes
             m == Max(S)
  <2>1. \E k \in S : \A j \in S : k >= j
    <3>1. Len(notes) \in S /\ \A j \in S : Len(notes) >= j
      BY <1>4
    <3> QED BY <3>1
  <2>2. Max(S) \in S /\ \A j \in S : Max(S) >= j
    <3> HIDE DEF S
    <3> QED BY <2>1 DEF Max
  <2>3. m \in Int /\ \A i \in DOMAIN notes : i <= m
    <3>1. S \subseteq Int /\ \A j \in DOMAIN notes : j \in S
      BY <1>4
    <3> HIDE DEF S
    <3>2. m \in S /\ \A j \in S : m >= j
      BY <2>2
    <3>3. \A j \in S : j \in Int
      BY <3>1
    <3> HIDE DEF m
    <3>4. m \in Int
      BY <3>2, <3>3
    <3>5. \A i \in DOMAIN notes : i <= m
      BY <3>1, <3>2, <3>3, <3>4
    <3> QED BY <3>4, <3>5
  <2>4. seeded' = IF known = {-1} THEN m ELSE seeded
    BY <1>1
  <2> HIDE DEF m
  <2> QED BY <1>4, <2>3, <2>4
<1>7. known # {-1} => seeded' = seeded
  BY <1>1
<1>8. \A i : Gone(i)' <=> Gone(i)
  BY <1>1 DEF Gone, Visible
<1>9. ~Answered' /\ fetch' \in [state : {"none", "sent", "answered"}, answer : Lists]
  BY <1>1, BellBounds DEF NoFetch, NoData, Answered, Lists
<1>10. a.ids \in SUBSET Ids
  BY <1>2 DEF Lists
<1>11. TypesOK'
  <2>1. announced' \in [Ids -> Nat]
    BY <1>1, <1>4
  <2> QED BY <1>1, <1>2, <1>6, <1>9, <1>10, <2>1 DEF TypesOK, BellInv
<1>12. AnswerInv'
  BY <1>9 DEF AnswerInv
\* What is announced now was in no list since the last change of plant.
<1>13. ASSUME NEW i \in Ids
       PROVE  /\ announced'[i] <= switches' + 1
              /\ announced'[i] = switches' + 1 =>
                   i \in DOMAIN notes' /\ (i \in known' \/ Gone(i)')
  <2>1. /\ announced[i] \in Nat /\ announced[i] <= switches + 1
        /\ announced[i] = switches + 1 =>
             i \in DOMAIN notes /\ (i \in known \/ (Gone(i) /\ i \notin a.ids))
    BY <1>1, <1>4, <1>13 DEF BellInv, OnceInv, a
  <2>2. CASE i \in N
    <3>1. i \in a.ids /\ i \notin known
      BY <1>2, <1>3, <2>2
    <3>2. announced[i] # switches + 1
      BY <2>1, <3>1
    <3>3. announced'[i] = announced[i] + 1 /\ announced'[i] <= switches + 1
      BY <1>4, <1>5, <2>1, <2>2, <3>2
    <3> QED BY <1>1, <1>2, <3>1, <3>3
  <2>3. CASE i \notin N
    <3>1. announced'[i] = announced[i]
      BY <1>5, <2>3
    <3> QED BY <1>1, <1>2, <1>8, <2>1, <3>1
  <2> QED BY <2>2, <2>3
<1>14. OnceInv'
  BY <1>9, <1>13 DEF OnceInv
\* What the list shows as unread was known and heard, or is heard now.
<1>15. ASSUME NEW i \in a.unread, i > seeded'
       PROVE  announced'[i] > 0
  <2>1. i \in Ids /\ i \in DOMAIN notes /\ i \in Int
    BY <1>2, <1>4, <1>10
  <2>2. announced[i] \in Nat
    BY <1>4, <2>1
  <2>3. known # {-1}
    BY <1>6, <1>15, <2>1
  <2>4. CASE i \in known
    <3>1. announced[i] > 0
      BY <1>2, <1>7, <1>15, <2>3, <2>4
    <3> QED BY <1>5, <2>1, <2>2, <3>1
  <2>5. CASE i \notin known
    <3>1. i \in N
      BY <1>3, <2>3, <2>5
    <3> QED BY <1>5, <2>1, <2>2, <3>1
  <2> QED BY <2>4, <2>5
<1>16. KnownInv'
  <2>1. known' # {-1}
    <3>1. -1 \notin Ids
      BY BellBounds DEF Ids
    <3> QED BY <1>1, <1>10, <3>1
  <2> QED BY <1>1, <1>2, <1>15, <2>1 DEF KnownInv
<1>17. NothingSilent'
  BY <1>1, <1>15 DEF NothingSilent
<1> QED BY <1>11, <1>12, <1>14, <1>16, <1>17 DEF BellInv

\* The counts start again with the plant.
LEMMA SelectKeepsBell ==
  ASSUME BellInv, NEW p \in Plants, SelectPlant(p)
  PROVE  BellInv'
<1>1. /\ active' = p /\ switches' = switches + 1 /\ data' = NoData /\ fetch' = Sent
      /\ UNCHANGED <<notes, known, marking, announced, seeded>>
  BY DEF SelectPlant, history
<1>2. ~Answered' /\ fetch' \in [state : {"none", "sent", "answered"}, answer : Lists]
  BY <1>1, BellBounds DEF Sent, NoData, Answered, Lists
<1>3. data' \in Lists /\ data'.ids = {} /\ data'.unread = {}
  BY <1>1, BellBounds DEF NoData, Lists
<1>4. TypesOK /\ announced \in [Ids -> Nat] /\ switches \in Nat
  BY DEF BellInv, TypesOK
<1>5. Cardinality(data'.ids) <= Limit
  BY <1>3, FS_EmptySet, BellAssumption
<1>6. TypesOK'
  BY <1>1, <1>2, <1>3, <1>4, <1>5 DEF TypesOK
<1>7. \A i \in Ids : announced'[i] <= switches' /\ announced'[i] \in Nat /\ switches' \in Nat
  BY <1>1, <1>4 DEF BellInv, OnceInv
<1>8. OnceInv'
  BY <1>7 DEF OnceInv
<1>9. AnswerInv' /\ KnownInv' /\ NothingSilent'
  BY <1>1, <1>2, <1>3 DEF BellInv, AnswerInv, KnownInv, NothingSilent
<1> QED BY <1>6, <1>8, <1>9 DEF BellInv

LEMMA BellStep == BellInv /\ [Next]_vars => BellInv'
<1> SUFFICES ASSUME BellInv, [Next]_vars PROVE BellInv'
  OBVIOUS
<1>1. marking \in [what : -2..MaxNotes, plant : Plants]
  BY DEF BellInv, TypesOK
<1>2. ASSUME Poll \/ Lose
      PROVE  BellInv'
  BY <1>1, <1>2, QuietKeepsBell DEF Poll, Lose, history
<1>3. ASSUME NEW what \in {All} \union Ids, Mark(what)
      PROVE  BellInv'
  <2>1. [what |-> what, plant |-> active] \in [what : -2..MaxNotes, plant : Plants]
    BY BellBounds DEF BellInv, TypesOK, All, Ids
  <2> QED BY <1>3, <2>1, QuietKeepsBell DEF Mark, history
<1>4. CASE MarkSettled
  <2>1. NoMark \in [what : -2..MaxNotes, plant : Plants]
    BY BellAssumption, BellBounds DEF NoMark
  <2> QED BY <1>4, <2>1, QuietKeepsBell DEF MarkSettled, history
<1>5. CASE UNCHANGED vars
  <2>1. UNCHANGED <<notes, active, data, fetch, known, marking, announced, seeded, switches>>
    BY <1>5 DEF vars
  <2> QED BY <2>1 DEF BellInv, TypesOK, AnswerInv, Answered, OnceInv, KnownInv,
       NothingSilent, Gone, Visible
<1> QED BY <1>2, <1>3, <1>4, <1>5, ArriveKeepsBell, AnswerKeepsBell, DeliverKeepsBell,
       MarkServedKeepsBell, SelectKeepsBell DEF Next

LEMMA BellStart == Init => BellInv
<1> SUFFICES ASSUME Init PROVE BellInv
  OBVIOUS
<1>1. PICK n \in 0..2 : notes \in [1..n -> Notes]
  BY DEF Init, Notes
<1>2. notes \in Seq(Notes) /\ Len(notes) = n /\ n <= MaxNotes
  <2>1. n \in Nat /\ n <= MaxNotes
    BY BellBounds
  <2>2. notes = [i \in 1..n |-> notes[i]] /\ \A i \in 1..n : notes[i] \in Notes
    BY <1>1
  <2> QED BY <2>1, <2>2, IsASeq
<1>3. NoData \in Lists /\ NoData.ids = {} /\ NoData.unread = {}
  BY BellBounds DEF NoData, Lists
<1>4. Cardinality(NoData.ids) <= Limit
  BY <1>3, FS_EmptySet, BellAssumption
<1>5. NoMark \in [what : -2..MaxNotes, plant : Plants]
  BY BellAssumption, BellBounds DEF NoMark
<1>6. fetch \in [state : {"none", "sent", "answered"}, answer : Lists] /\ ~Answered
  BY <1>3 DEF Init, Answered
<1>7. TypesOK
  <2>1. /\ announced = [i \in Ids |-> 0] /\ announced \in [Ids -> Nat]
        /\ switches = 0 /\ seeded = -1
    BY DEF Init
  <2>2. known = {-1} /\ active = First /\ data = NoData /\ marking = NoMark
    BY DEF Init
  <2>3. {-1} \in (SUBSET Ids) \cup {{-1}} /\ -1 \in Int /\ 0 \in Nat
    OBVIOUS
  <2> HIDE DEF NoData
  <2> QED BY <1>2, <1>3, <1>4, <1>5, <1>6, <2>1, <2>2, <2>3, BellAssumption DEF TypesOK
<1>8. AnswerInv /\ OnceInv
  <2>1. switches = 0 /\ \A i \in Ids : announced[i] = 0
    BY DEF Init
  <2> QED BY <1>6, <2>1 DEF AnswerInv, OnceInv
<1>9. KnownInv
  BY DEF Init, KnownInv
<1>10. NothingSilent
  BY <1>3 DEF Init, NothingSilent
<1> QED BY <1>7, <1>8, <1>9, <1>10 DEF BellInv

\* The bell never rings twice for a notification without a change of plant and
\* never shows as new what it did not ring for, whatever the limit of the list,
\* with late, lost and cancelled answers
\* (NotificationBell.tsx:90-159).
THEOREM BellKeepsItsPromise == Spec => []BellHolds
<1>1. BellInv => BellHolds
  <2> SUFFICES ASSUME BellInv PROVE BellHolds
    OBVIOUS
  <2>1. TypesOK /\ Len(notes) \in 0..MaxNotes /\ DOMAIN notes = 1..Len(notes)
        /\ \A i \in DOMAIN notes : notes[i] \in Notes
    BY VisibleFacts, BellBounds DEF BellInv, TypesOK
  <2>2. BellTypeOK
    <3>1. {data, fetch.answer} \subseteq Lists /\ fetch.state \in {"none", "sent", "answered"}
      BY <2>1 DEF TypesOK
    <3>2. DOMAIN notes \in {1..n : n \in 0..MaxNotes}
      BY <2>1
    <3> QED BY <2>1, <3>1, <3>2 DEF TypesOK, BellTypeOK, Lists, Notes
  <2>3. AnnouncedOnce
    BY <2>1 DEF BellInv, OnceInv, AnnouncedOnce, TypesOK
  <2> QED BY <2>2, <2>3 DEF BellHolds, BellInv
<1> QED BY <1>1, BellStart, BellStep, PTL DEF Spec

=============================================================================
