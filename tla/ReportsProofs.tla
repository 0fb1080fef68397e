------------------------------ MODULE ReportsProofs ------------------------------
(***************************************************************************)
(* What managers read and set: the accuracy of the clock of the screens,   *)
(* for every timeout, synchronisation interval, tick and reference age; a  *)
(* past day in the daily report, for any tanks and days; the targets of    *)
(* the stages and the settings they are kept in, for any administrators;   *)
(* what the page of a manager says of a closed day; the PDF of the history *)
(* of states, read page after page; the pages of the audit log.            *)
(***************************************************************************)
EXTENDS ServerTime, Sequences, FiniteSetTheorems, FunctionTheorems, WellFoundedInduction, TLAPS

(* What ties the shown time to its reference: as long as there is one, the *)
(* shown time was computed from a reference within the bounds, at most one *)
(* tick ago.                                                               *)
ShownTied ==
    anchor.on /\ shown.on =>
        /\ -Timeout - 2 * sinceTick <= shown.error2
        /\ shown.error2 <= Timeout
        /\ shown.anchorAge <= MaxAge + sinceTick

(* The reference and the trips go with the effect that took them. *)
AnchorOfEffect == (anchor.on => enabled) /\ (trip.on => enabled)

TimeInv == TimeTypeOK /\ AnchorAccurate /\ ShownTied /\ AnchorOfEffect

TripType == [on : BOOLEAN, age : 0..Timeout, stamped : BOOLEAN, stampAge : Nat]
AnchorType == [on : BOOLEAN, error2 : Int, age : Nat]
ShownType == [on : BOOLEAN, error2 : Int, anchorAge : Nat]

(* The empty records and a new trip have their types.                      *)
LEMMA EmptyTypes == /\ NoTrip \in TripType /\ NewTrip \in TripType
                    /\ NoAnchor \in AnchorType /\ NoTime \in ShownType
                    /\ NoTrip.stampAge <= NoTrip.age /\ NewTrip.stampAge <= NewTrip.age
<1>1. 0 \in 0..Timeout
  BY TimeAssumption
<1> QED
  BY <1>1 DEF NoTrip, NewTrip, NoAnchor, NoTime, TripType, AnchorType, ShownType

LEMMA TimeInvInit == Init => TimeInv
<1> SUFFICES ASSUME Init PROVE TimeInv
  OBVIOUS
<1>1. 0 \in 0..SyncEvery /\ 0 \in 0..TickEvery
  BY TimeAssumption
<1>2. TimeTypeOK
  BY <1>1, EmptyTypes DEF Init, TimeTypeOK, TripType, AnchorType, ShownType
<1>3. ~anchor.on /\ ~trip.on /\ anchor.error2 = 0
  BY DEF Init, NoAnchor, NoTrip
<1> QED
  BY <1>2, <1>3, TimeAssumption DEF TimeInv, AnchorAccurate, ShownTied, AnchorOfEffect

(* Trips age by one, their stamps only once taken.                         *)
LEMMA TripPasses ==
  ASSUME trip \in TripType, trip.stampAge <= trip.age, trip.on => trip.age < Timeout,
         trip' = IF trip.on THEN [trip EXCEPT !.age = @ + 1,
                                              !.stampAge = IF trip.stamped THEN @ + 1 ELSE @]
                 ELSE trip
  PROVE  trip' \in TripType /\ trip'.stampAge <= trip'.age /\ trip'.on = trip.on
<1>1. CASE ~trip.on
  BY <1>1
<1>2. CASE trip.on
  <2> DEFINE a == trip.age + 1
             s == IF trip.stamped THEN trip.stampAge + 1 ELSE trip.stampAge
  <2>1. a \in 0..Timeout /\ s \in Nat /\ s <= a
    BY <1>2, TimeAssumption DEF TripType
  <2>2. trip' = [trip EXCEPT !.age = a, !.stampAge = s]
    BY <1>2
  <2> HIDE DEF a, s
  <2> QED
    BY <2>1, <2>2 DEF TripType
<1> QED
  BY <1>1, <1>2

LEMMA TimeInvNext == TimeInv /\ [Next]_vars => TimeInv'
<1> SUFFICES ASSUME TimeInv, [Next]_vars PROVE TimeInv'
  OBVIOUS
<1> USE TimeAssumption DEF TimeInv, TimeTypeOK, AnchorAccurate, ShownTied, AnchorOfEffect
<1>1. CASE Enable
  <2>1. trip' \in TripType /\ trip'.stampAge <= trip'.age
    BY <1>1, EmptyTypes DEF Enable
  <2>2. UNCHANGED <<anchor, shown>> /\ sinceTick' = 0 /\ sinceSync' = 0 /\ enabled' = TRUE /\ ~anchor.on
    BY <1>1 DEF Enable
  <2> QED
    BY <2>1, <2>2 DEF TripType
<1>2. CASE Disable
  <2>1. trip' \in TripType /\ trip'.stampAge <= trip'.age /\ anchor' \in AnchorType
    BY <1>2, EmptyTypes DEF Disable
  <2>2. ~anchor'.on /\ ~trip'.on /\ anchor'.error2 = 0
    BY <1>2 DEF Disable, NoAnchor, NoTrip
  <2>3. shown' = shown /\ sinceSync' = sinceSync /\ sinceTick' = sinceTick /\ enabled' = FALSE
    BY <1>2 DEF Disable
  <2>4. TimeTypeOK'
    BY <2>1, <2>3 DEF TripType, AnchorType
  <2>5. AnchorAccurate' /\ ShownTied' /\ AnchorOfEffect'
    BY <2>2, <2>3
  <2> QED
    BY <2>4, <2>5
<1>3. CASE Sync
  <2>1. trip' \in TripType /\ trip'.stampAge <= trip'.age
    BY <1>3, EmptyTypes DEF Sync
  <2> QED
    BY <1>3, <2>1 DEF Sync, TripType
<1>4. CASE Stamp
  <2>1. trip' \in TripType /\ trip'.stampAge <= trip'.age
    BY <1>4 DEF Stamp, TripType
  <2> QED
    BY <1>4, <2>1 DEF Stamp, TripType
<1>5. CASE Answer
  <2> DEFINE e == trip.age - 2 * trip.stampAge
  <2>1. e \in Int /\ -Timeout <= e /\ e <= Timeout
    OBVIOUS
  <2>2. trip' \in TripType /\ trip'.stampAge <= trip'.age
    BY <1>5, EmptyTypes DEF Answer
  <2>3. /\ anchor' = [on |-> TRUE, error2 |-> e, age |-> 0]
        /\ shown' = [on |-> TRUE, error2 |-> anchor'.error2, anchorAge |-> 0]
        /\ UNCHANGED <<sinceSync, sinceTick>> /\ enabled' = enabled
    BY <1>5 DEF Answer
  <2>4. enabled
    BY <1>5 DEF Answer
  <2> HIDE DEF e
  <2>5. /\ anchor' \in AnchorType /\ anchor'.error2 = e
        /\ shown' \in ShownType /\ shown'.error2 = e /\ shown'.anchorAge = 0
    BY <2>1, <2>3 DEF AnchorType, ShownType
  <2> QED
    BY <2>1, <2>2, <2>3, <2>4, <2>5 DEF TripType, AnchorType, ShownType
<1>6. CASE Fail
  BY <1>6 DEF Fail, NoTrip
<1>7. CASE Tick
  BY <1>7 DEF Tick, NoTime
<1>8. CASE Pass
  <2>1. trip' \in TripType /\ trip'.stampAge <= trip'.age /\ trip'.on = trip.on
    BY <1>8, TripPasses DEF Pass, TripType
  <2>2. anchor' \in AnchorType /\ anchor'.on = anchor.on /\ anchor'.error2 = anchor.error2
    <3> DEFINE a == anchor.age + 1
    <3>1. a \in Nat /\ anchor \in AnchorType
      BY DEF AnchorType
    <3>2. anchor' = [anchor EXCEPT !.age = a] \/ anchor' = anchor
      BY <1>8 DEF Pass
    <3> HIDE DEF a
    <3> QED
      BY <3>1, <3>2 DEF AnchorType
  <2>3. /\ shown' \in ShownType /\ shown'.on = shown.on
        /\ shown.on /\ anchor.on => /\ shown'.error2 = shown.error2 - 2
                                    /\ shown'.anchorAge = shown.anchorAge + 1
    <3> DEFINE e == shown.error2 - 2
               a == shown.anchorAge + 1
    <3>1. e \in Int /\ a \in Nat /\ shown \in ShownType
      BY DEF ShownType
    <3>2. IF shown.on /\ anchor.on THEN shown' = [shown EXCEPT !.error2 = e, !.anchorAge = a]
          ELSE shown' = shown
      BY <1>8 DEF Pass
    <3>3. shown' \in ShownType /\ shown'.on = shown.on
          /\ (shown.on /\ anchor.on => shown'.error2 = e /\ shown'.anchorAge = a)
      <4> HIDE DEF e, a
      <4> QED
        BY <3>1, <3>2 DEF ShownType
    <3> QED
      BY <3>3
  <2>4. sinceSync' \in 0..SyncEvery /\ sinceTick' \in 0..TickEvery /\ sinceTick' = sinceTick + 1
        /\ enabled' = enabled
    BY <1>8 DEF Pass
  <2>5. TimeTypeOK' /\ AnchorAccurate' /\ AnchorOfEffect'
    BY <2>1, <2>2, <2>3, <2>4 DEF TripType, AnchorType, ShownType
  <2>6. ShownTied'
    BY <2>2, <2>3, <2>4 DEF ShownType
  <2> QED
    BY <2>5, <2>6
<1>9. CASE UNCHANGED vars
  BY <1>9 DEF vars
<1> QED
  BY <1>1, <1>2, <1>3, <1>4, <1>5, <1>6, <1>7, <1>8, <1>9 DEF Next

(* The hook's state keeps its types. *)
THEOREM TimeTypes == Spec => []TimeTypeOK
<1>1. TimeInv => TimeTypeOK
  BY DEF TimeInv
<1> QED
  BY <1>1, TimeInvInit, TimeInvNext, PTL DEF Spec

(* The reference is off by at most half of the longest trip.               *)
THEOREM AnchorIsAccurate == Spec => []AnchorAccurate
<1>1. TimeInv => AnchorAccurate
  BY DEF TimeInv
<1> QED
  BY <1>1, TimeInvInit, TimeInvNext, PTL DEF Spec

(* So is what the screen shows, but for the tick it may wait.              *)
THEOREM ShownIsAccurate == Spec => []ShownAccurate
<1>1. TimeInv => ShownAccurate
  BY TimeAssumption DEF TimeInv, TimeTypeOK, ShownTied, ShownAccurate
<1> QED
  BY <1>1, TimeInvInit, TimeInvNext, PTL DEF Spec

(* And an old reference is not shown for longer than that tick.            *)
THEOREM OldIsNotShown == Spec => []OldTimeNotShown
<1>1. TimeInv => OldTimeNotShown
  BY TimeAssumption DEF TimeInv, TimeTypeOK, ShownTied, OldTimeNotShown
<1> QED
  BY <1>1, TimeInvInit, TimeInvNext, PTL DEF Spec

-----------------------------------------------------------------------------
(* The daily report of a plant and its closure (DailyManagement).            *)

CONSTANTS Tanks, Managers, ReadOrder, Days, DayLength, None, MaxTime, MaxPeriods
VARIABLES clock, periods, samples, operation, report, closure, held, crossed

Daily == INSTANCE DailyManagement

(* The rows of a tank tell the state it held when day d ended: that of a     *)
(* period begun on the day or before and not ended in it, and the ones after *)
(* it begin later.                                                           *)
EndedAs(ps, d, state) ==
  \E n \in 1 .. Len(ps) :
    /\ ps[n].state = state /\ ps[n].started < Daily!End(d)
    /\ ps[n].ended = None \/ ps[n].ended >= Daily!End(d)
    /\ \A i \in n + 1 .. Len(ps) : ps[i].started >= Daily!End(d)

PeriodRows == [state : Daily!States, started : Nat, ended : Nat \cup {None}]
(* The periods of a tank follow one another and the last one is open. *)
RowsOK ==
  /\ clock \in Nat
  /\ periods = [t \in Tanks |-> periods[t]]
  /\ \A t \in Tanks :
       /\ periods[t] \in Seq(PeriodRows) /\ Len(periods[t]) > 0
       /\ periods[t][Len(periods[t])].ended = None
       /\ \A i \in 1 .. Len(periods[t]) : periods[t][i].started <= clock
OperationsOK ==
  /\ operation = [t \in Tanks |-> operation[t]]
  /\ \A t \in Tanks : operation[t] # None =>
       operation[t].kind \in Daily!Operations /\ operation[t].began \in 0 .. clock
(* A tank on which nothing was in progress when a day ended keeps telling how *)
(* it ended: whatever came later has later stamps.                            *)
TankOf(t, d) ==
  /\ EndedAs(periods[t], d, held[d][t])
  /\ operation[t] # None => operation[t].began >= Daily!End(d)
DaysOK ==
  /\ held = [d \in Days |-> held[d]] /\ crossed = [d \in Days |-> crossed[d]]
  /\ \A d \in Days : clock >= Daily!End(d) => \A t \in Tanks \ crossed[d] : TankOf(t, d)
(* What a report has read of a day that was over tells it as well. *)
TellsDay(table, d) ==
  \A t \in Tanks \ crossed[d] : table[t] \in Seq(PeriodRows) /\ EndedAs(table[t], d, held[d][t])
ReportOK(r) ==
  /\ r = [day |-> r.day, now |-> r.now, settled |-> r.settled, read |-> r.read,
          figures |-> r.figures]
  /\ r.day \in Days /\ r.now \in 0 .. clock
  /\ r.read = [part \in Daily!Parts |-> r.read[part]]
  /\ r.settled => /\ r.now >= Daily!End(r.day)
                  /\ r.read["periods"] # None => TellsDay(r.read["periods"], r.day)
ReportsOK ==
  /\ report = [m \in Managers |-> report[m]]
  /\ \A m \in Managers : report[m] = None \/ ReportOK(report[m])
DailyInv == Daily!DailyAssumption /\ RowsOK /\ OperationsOK /\ DaysOK /\ ReportsOK

(* The end of a day is an instant after the first. *)
LEMMA EndOfDay == ASSUME Daily!DailyAssumption, NEW d \in Days
                  PROVE  Daily!End(d) \in Nat \ {0} /\ Daily!Start(d) \in Nat
<1>1. d \in Nat /\ DayLength \in Nat \ {0}
  BY DEF Daily!DailyAssumption
<1>2. d * DayLength \in Nat
  BY <1>1
<1> QED BY <1>1, <1>2 DEF Daily!End, Daily!Start

(* Rows that tell how a day ended give that state to the report of the day. *)
LEMMA RebuiltIsHeld ==
  ASSUME Daily!DailyAssumption, NEW d \in Days, NEW ps \in Seq(PeriodRows), NEW state,
         EndedAs(ps, d, state)
  PROVE  Daily!Rebuilt(ps, Daily!End(d) - 1) = state
<1> DEFINE end == Daily!End(d)
           at == end - 1
           open == {i \in DOMAIN ps : ps[i].started <= at /\ ~Daily!PassedBy(ps[i].ended, at)}
<1>1. end \in Nat \ {0}
  BY EndOfDay
<1>2. PICK n \in 1 .. Len(ps) :
        /\ ps[n].state = state /\ ps[n].started < end
        /\ ps[n].ended = None \/ ps[n].ended >= end
        /\ \A i \in n + 1 .. Len(ps) : ps[i].started >= end
  BY DEF EndedAs
<1>3. /\ DOMAIN ps = 1 .. Len(ps) /\ Len(ps) \in Nat
      /\ \A i \in 1 .. Len(ps) : ps[i].started \in Nat /\ ps[i].ended \in Nat \cup {None}
  <2>1. DOMAIN ps = 1 .. Len(ps) /\ Len(ps) \in Nat /\ \A i \in 1 .. Len(ps) : ps[i] \in PeriodRows
    OBVIOUS
  <2>2. \A x \in PeriodRows : x.started \in Nat /\ x.ended \in Nat \cup {None}
    BY DEF PeriodRows
  <2> QED BY <2>1, <2>2
<1> HIDE DEF end
<1>4. n \in open
  BY <1>1, <1>2, <1>3 DEF Daily!PassedBy
<1>5. \A i \in open : i <= n /\ i \in Nat
  <2>1. ASSUME NEW i \in 1 .. Len(ps), i > n PROVE i \notin open
    BY <2>1, <1>1, <1>2, <1>3
  <2> QED BY <2>1, <1>2, <1>3
<1>6. n \in Nat
  BY <1>2
<1> HIDE DEF open
<1>7. Daily!Max(open) = n
  <2>1. \A y \in open : n >= y
    BY <1>5, <1>6
  <2>2. ASSUME NEW m \in open, \A y \in open : m >= y PROVE m = n
    BY <2>2, <1>4, <1>5, <1>6
  <2>3. Daily!Max(open) = CHOOSE x \in open : \A y \in open : x >= y
    BY DEF Daily!Max
  <2> QED BY <1>4, <2>1, <2>2, <2>3
<1>8. Daily!Rebuilt(ps, at) = IF open = {} THEN "VACIO" ELSE ps[Daily!Max(open)].state
  BY DEF Daily!Rebuilt, open
<1> QED BY <1>2, <1>4, <1>7, <1>8 DEF end

LEMMA SettledIsTrue == ASSUME DailyInv PROVE Daily!PastStatesTrue
<1> SUFFICES ASSUME NEW m \in Managers, Daily!Complete(m), report[m].settled,
                    NEW t \in Tanks \ crossed[report[m].day]
             PROVE  Daily!FiguresOf(m).states[t] = held[report[m].day][t]
  BY DEF Daily!PastStatesTrue
<1> DEFINE r == report[m]
           d == r.day
<1>1. ReportOK(r)
  BY DEF DailyInv, ReportsOK, Daily!Complete
<1>2. d \in Days /\ r.now \in Nat /\ clock \in Nat /\ r.now >= Daily!End(d)
  BY <1>1 DEF ReportOK, DailyInv, RowsOK
<1>3. r.read["periods"] # None
  BY DEF Daily!Complete, Daily!Parts
<1>4. r.read["periods"][t] \in Seq(PeriodRows)
      /\ EndedAs(r.read["periods"][t], d, held[d][t])
  BY <1>1, <1>3 DEF ReportOK, TellsDay
<1>5. Daily!End(d) \in Nat /\ Daily!Start(d) \in Nat
  BY <1>2, EndOfDay DEF DailyInv
<1>6. ~Daily!IsLive(d, r.now) /\ Daily!ReportAt(d, r.now) = Daily!End(d) - 1
  BY <1>2, <1>5 DEF Daily!IsLive, Daily!ReportAt
<1>7. Daily!Figures(d, r.now, r.read, clock).states
        = [u \in Tanks |-> Daily!Rebuilt(r.read["periods"][u], Daily!End(d) - 1)]
  BY <1>6 DEF Daily!Figures
<1>8. Daily!FiguresOf(m).states[t] = Daily!Rebuilt(r.read["periods"][t], Daily!End(d) - 1)
  BY <1>7 DEF Daily!FiguresOf
<1> QED BY <1>2, <1>4, <1>8, RebuiltIsHeld DEF DailyInv

(* A period that ends and one that starts with the stamps of an operation.  *)
LEMMA Moves ==
  ASSUME DailyInv, NEW t \in Tanks, NEW state \in Daily!States,
         NEW at \in 0 .. clock, NEW started \in 0 .. clock
  PROVE  LET q == Daily!Moved(t, state, at, started) IN
         /\ q \in Seq(PeriodRows) /\ Len(q) > 0 /\ q[Len(q)].ended = None
         /\ \A i \in 1 .. Len(q) : q[i].started <= clock
         /\ \A d \in Days : \A held0 :
              EndedAs(periods[t], d, held0) /\ at >= Daily!End(d) /\ started >= Daily!End(d)
                => EndedAs(q, d, held0)
<1> DEFINE ps == periods[t]
           n == Len(ps)
           last == [ps[n] EXCEPT !.ended = at]
           new == [state |-> state, started |-> started, ended |-> None]
           q == Daily!Moved(t, state, at, started)
<1>1. /\ ps \in Seq(PeriodRows) /\ n \in Nat \ {0} /\ clock \in Nat
      /\ \A i \in 1 .. n : ps[i] \in PeriodRows /\ ps[i].started <= clock
  BY DEF DailyInv, RowsOK
<1>2. at \in Nat /\ started \in Nat
  BY <1>1
<1>3. last \in PeriodRows /\ new \in PeriodRows /\ new.ended = None /\ new.started = started
      /\ last.ended = at /\ last.state = ps[n].state /\ last.started = ps[n].started
  BY <1>1, <1>2 DEF PeriodRows
<1>4. q = Append([ps EXCEPT ![n] = last], new)
  BY DEF Daily!Moved
<1> HIDE DEF new, last, q, ps
<1>5. [ps EXCEPT ![n] = last] \in Seq(PeriodRows) /\ Len([ps EXCEPT ![n] = last]) = n
  BY <1>1, <1>3
<1>6. /\ q \in Seq(PeriodRows) /\ Len(q) = n + 1 /\ q[n + 1] = new /\ q[n] = last
      /\ \A i \in 1 .. n - 1 : q[i] = ps[i]
  <2> DEFINE p == [ps EXCEPT ![n] = last]
  <2>1. p \in Seq(PeriodRows) /\ Len(p) = n /\ q = Append(p, new)
    BY <1>4, <1>5
  <2>2. p[n] = last /\ \A i \in 1 .. n - 1 : p[i] = ps[i]
    BY <1>1
  <2> HIDE DEF p
  <2>3. q \in Seq(PeriodRows) /\ Len(q) = n + 1 /\ q[n + 1] = new
        /\ \A i \in 1 .. n : q[i] = p[i]
    BY <2>1, <1>1, <1>3
  <2> QED BY <2>2, <2>3, <1>1
<1>7. \A i \in 1 .. Len(q) : q[i].started <= clock
  <2>1. ASSUME NEW i \in 1 .. n + 1 PROVE q[i].started <= clock
    <3>1. CASE i = n + 1
      BY <3>1, <1>1, <1>2, <1>3, <1>6
    <3>2. CASE i = n
      BY <3>2, <1>1, <1>3, <1>6
    <3>3. CASE i \in 1 .. n - 1
      BY <3>3, <1>1, <1>6
    <3> QED BY <3>1, <3>2, <3>3, <1>1
  <2> QED BY <2>1, <1>6
<1>8. ASSUME NEW d \in Days, NEW held0, EndedAs(ps, d, held0),
             at >= Daily!End(d), started >= Daily!End(d)
      PROVE  EndedAs(q, d, held0)
  <2> DEFINE end == Daily!End(d)
  <2>1. end \in Nat
    BY EndOfDay DEF DailyInv
  <2>2. PICK k \in 1 .. n :
          /\ ps[k].state = held0 /\ ps[k].started < end
          /\ ps[k].ended = None \/ ps[k].ended >= end
          /\ \A i \in k + 1 .. n : ps[i].started >= end
    BY <1>8 DEF EndedAs
  <2>3. at >= end /\ started >= end
    BY <1>8
  <2> HIDE DEF end
  <2>4. k \in 1 .. n + 1
    BY <1>1, <2>2
  <2>5. /\ q[k].state = held0 /\ q[k].started < end
        /\ q[k].ended = None \/ q[k].ended >= end
    <3>1. CASE k = n
      BY <3>1, <2>2, <2>3, <1>3, <1>6
    <3>2. CASE k # n
      <4>1. k \in 1 .. n - 1
        BY <3>2, <2>2, <1>1
      <4> QED BY <4>1, <2>2, <1>6
    <3> QED BY <3>1, <3>2
  <2>6. \A i \in k + 1 .. n + 1 : q[i].started >= end
    <3>1. ASSUME NEW i \in k + 1 .. n + 1 PROVE q[i].started >= end
      <4>1. CASE i = n + 1
        BY <4>1, <2>3, <1>3, <1>6
      <4>2. CASE i = n
        <5>1. n \in k + 1 .. n
          BY <4>2, <3>1, <2>2, <1>1
        <5> QED BY <5>1, <4>2, <2>2, <1>3, <1>6
      <4>3. CASE i \in 1 .. n - 1
        <5>1. i \in k + 1 .. n
          BY <4>3, <3>1, <2>2, <1>1
        <5> QED BY <5>1, <4>3, <2>2, <1>6
      <4> QED BY <4>1, <4>2, <4>3, <3>1, <2>2, <1>1
    <3> QED BY <3>1
  <2> QED BY <2>4, <2>5, <2>6, <1>6 DEF EndedAs, end
<1>9. Len(q) > 0 /\ q[Len(q)].ended = None
  BY <1>1, <1>3, <1>6
<1> QED BY <1>6, <1>7, <1>8, <1>9 DEF q, ps

(* A step of one tank, for the rest of the invariant: what was true of the    *)
(* tank stays true, and nothing else is written.                              *)
OneTankMoves(t) ==
  /\ UNCHANGED <<clock, report, held, crossed>>
  /\ operation' = [operation EXCEPT ![t] = operation'[t]]
  /\ periods' = [periods EXCEPT ![t] = periods'[t]]
  /\ operation'[t] # None => /\ operation'[t].kind \in Daily!Operations
                             /\ operation'[t].began \in 0 .. clock
  /\ periods'[t] \in Seq(PeriodRows) /\ Len(periods'[t]) > 0
  /\ periods'[t][Len(periods'[t])].ended = None
  /\ \A i \in 1 .. Len(periods'[t]) : periods'[t][i].started <= clock
  /\ \A d \in Days : clock >= Daily!End(d) /\ t \notin crossed[d] =>
       /\ EndedAs(periods'[t], d, held[d][t])
       /\ operation'[t] # None => operation'[t].began >= Daily!End(d)
LEMMA TankKeeps ==
  ASSUME DailyInv, NEW t \in Tanks, OneTankMoves(t)
  PROVE  DailyInv'
<1>1. UNCHANGED <<clock, report, held, crossed>>
  BY DEF OneTankMoves
<1>2. /\ \A x \in Tanks \ {t} : operation'[x] = operation[x] /\ periods'[x] = periods[x]
      /\ operation' = [x \in Tanks |-> operation'[x]]
      /\ periods' = [x \in Tanks |-> periods'[x]]
  BY DEF OneTankMoves, DailyInv, RowsOK, OperationsOK
<1>3. RowsOK'
  <2>1. ASSUME NEW x \in Tanks
        PROVE  /\ periods'[x] \in Seq(PeriodRows) /\ Len(periods'[x]) > 0
               /\ periods'[x][Len(periods'[x])].ended = None
               /\ \A i \in 1 .. Len(periods'[x]) : periods'[x][i].started <= clock
    <3>1. CASE x = t
      BY <3>1 DEF OneTankMoves
    <3>2. CASE x # t
      BY <3>2, <1>2 DEF DailyInv, RowsOK
    <3> QED BY <3>1, <3>2
  <2> QED BY <2>1, <1>1, <1>2 DEF DailyInv, RowsOK
<1>4. OperationsOK'
  <2>1. ASSUME NEW x \in Tanks, operation'[x] # None
        PROVE  operation'[x].kind \in Daily!Operations /\ operation'[x].began \in 0 .. clock
    <3>1. CASE x = t
      BY <2>1, <3>1 DEF OneTankMoves
    <3>2. CASE x # t
      BY <2>1, <3>2, <1>2 DEF DailyInv, OperationsOK
    <3> QED BY <3>1, <3>2
  <2> QED BY <2>1, <1>1, <1>2 DEF OperationsOK
<1>5. DaysOK'
  <2>1. ASSUME NEW d \in Days, clock >= Daily!End(d), NEW x \in Tanks \ crossed[d]
        PROVE  /\ EndedAs(periods'[x], d, held[d][x])
               /\ operation'[x] # None => operation'[x].began >= Daily!End(d)
    <3>1. CASE x = t
      BY <2>1, <3>1 DEF OneTankMoves
    <3>2. CASE x # t
      BY <2>1, <3>2, <1>2 DEF DailyInv, DaysOK, TankOf
    <3> QED BY <3>1, <3>2
  <2> QED BY <2>1, <1>1 DEF DailyInv, DaysOK, TankOf, Daily!End, Daily!Start
<1>6. ReportsOK'
  BY <1>1 DEF DailyInv, ReportsOK, ReportOK, TellsDay
<1> QED BY <1>3, <1>4, <1>5, <1>6 DEF DailyInv, Daily!DailyAssumption

LEMMA BeginOperationKeeps ==
  ASSUME DailyInv, NEW t \in Tanks, NEW kind \in Daily!Operations, Daily!BeginOperation(t, kind)
  PROVE  DailyInv'
<1> DEFINE begun == [kind |-> kind, began |-> clock]
<1>1. /\ operation[t] = None /\ operation' = [operation EXCEPT ![t] = begun]
      /\ periods' = periods /\ UNCHANGED <<clock, report, held, crossed>>
  BY DEF Daily!BeginOperation, Daily!rows, Daily!ghosts
<1>2. operation'[t] = begun /\ clock \in Nat
  BY <1>1 DEF DailyInv, OperationsOK, RowsOK
<1>3. begun.kind = kind /\ begun.began = clock
  OBVIOUS
<1> HIDE DEF begun
<1>4. periods' = [periods EXCEPT ![t] = periods'[t]]
  BY <1>1 DEF DailyInv, RowsOK
<1>5. \A d \in Days : clock >= Daily!End(d) /\ t \notin crossed[d] =>
        EndedAs(periods'[t], d, held[d][t])
  BY <1>1 DEF DailyInv, DaysOK, TankOf
<1>6. /\ operation' = [operation EXCEPT ![t] = operation'[t]]
      /\ operation'[t].kind \in Daily!Operations /\ operation'[t].began \in 0 .. clock
      /\ \A d \in Days : clock >= Daily!End(d) => operation'[t].began >= Daily!End(d)
  <2>1. operation'[t].began = clock /\ operation'[t].kind = kind
    BY <1>2, <1>3
  <2>2. operation' = [operation EXCEPT ![t] = operation'[t]]
    BY <1>1, <1>2
  <2>3. clock \in 0 .. clock
    BY <1>2
  <2> QED BY <2>1, <2>2, <2>3
<1>7. /\ periods'[t] \in Seq(PeriodRows) /\ Len(periods'[t]) > 0
      /\ periods'[t][Len(periods'[t])].ended = None
      /\ \A i \in 1 .. Len(periods'[t]) : periods'[t][i].started <= clock
  BY <1>1 DEF DailyInv, RowsOK
<1>8. OneTankMoves(t)
  BY <1>1, <1>4, <1>5, <1>6, <1>7 DEF OneTankMoves
<1> QED BY <1>8, TankKeeps

LEMMA CommitOperationKeeps ==
  ASSUME DailyInv, NEW t \in Tanks, Daily!CommitOperation(t)
  PROVE  DailyInv'
<1> DEFINE kind == operation[t].kind
           began == operation[t].began
<1>1. /\ operation[t] # None /\ operation' = [operation EXCEPT ![t] = None]
      /\ UNCHANGED <<clock, report, held, crossed>>
  BY DEF Daily!CommitOperation, Daily!ghosts
<1>2. PICK at \in began .. clock, started \in began .. clock :
        IF kind \in DOMAIN Daily!StateAfter
        THEN periods' = [periods EXCEPT ![t] =
               Daily!Moved(t, Daily!StateAfter[kind], at, started)]
        ELSE periods' = periods
  BY DEF Daily!CommitOperation
<1>3. began \in 0 .. clock /\ clock \in Nat
  BY <1>1 DEF DailyInv, OperationsOK, RowsOK
<1>4. operation'[t] = None
  BY <1>1 DEF DailyInv, OperationsOK
<1>5. /\ periods' = [periods EXCEPT ![t] = periods'[t]]
      /\ periods'[t] \in Seq(PeriodRows) /\ Len(periods'[t]) > 0
      /\ periods'[t][Len(periods'[t])].ended = None
      /\ \A i \in 1 .. Len(periods'[t]) : periods'[t][i].started <= clock
      /\ \A d \in Days : clock >= Daily!End(d) /\ t \notin crossed[d] =>
           EndedAs(periods'[t], d, held[d][t])
  <2>1. CASE kind \in DOMAIN Daily!StateAfter
    <3> DEFINE q == Daily!Moved(t, Daily!StateAfter[kind], at, started)
    <3>1. at \in 0 .. clock /\ started \in 0 .. clock /\ at >= began /\ started >= began
      BY <1>3
    <3>2. Daily!StateAfter[kind] \in Daily!States
      BY <2>1 DEF Daily!StateAfter, Daily!States
    <3>3. periods' = [periods EXCEPT ![t] = q] /\ periods'[t] = q
      BY <1>2, <2>1 DEF DailyInv, RowsOK
    <3> HIDE DEF q
    <3>4. /\ q \in Seq(PeriodRows) /\ Len(q) > 0 /\ q[Len(q)].ended = None
          /\ \A i \in 1 .. Len(q) : q[i].started <= clock
          /\ \A d \in Days : \A held0 :
               EndedAs(periods[t], d, held0) /\ at >= Daily!End(d) /\ started >= Daily!End(d)
                 => EndedAs(q, d, held0)
      BY <3>1, <3>2, Moves DEF q
    <3>5. ASSUME NEW d \in Days, clock >= Daily!End(d), t \notin crossed[d]
          PROVE  EndedAs(q, d, held[d][t])
      <4>1. EndedAs(periods[t], d, held[d][t]) /\ began >= Daily!End(d)
        BY <3>5, <1>1 DEF DailyInv, DaysOK, TankOf
      <4>2. Daily!End(d) \in Nat /\ at >= Daily!End(d) /\ started >= Daily!End(d)
        <5>1. Daily!End(d) \in Nat
          BY EndOfDay DEF DailyInv
        <5> HIDE DEF began
        <5> QED BY <5>1, <4>1, <3>1, <1>3
      <4> QED BY <4>1, <4>2, <3>4
    <3> QED BY <3>3, <3>4, <3>5
  <2>2. CASE kind \notin DOMAIN Daily!StateAfter
    <3>1. periods' = periods
      BY <1>2, <2>2
    <3> QED BY <3>1 DEF DailyInv, RowsOK, DaysOK, TankOf
  <2> QED BY <2>1, <2>2
<1>6. OneTankMoves(t)
  BY <1>1, <1>4, <1>5 DEF OneTankMoves
<1> QED BY <1>6, TankKeeps

(* The clock enters a new day: the tanks without an operation in progress     *)
(* hold the state of their open period.                                       *)
LEMMA TickKeeps == ASSUME DailyInv, Daily!Tick PROVE DailyInv'
<1>1. /\ clock \in Nat /\ clock' = clock + 1
      /\ UNCHANGED <<periods, operation, report>>
      /\ held' = [d \in Days |-> IF Daily!End(d) = clock + 1
                                 THEN [t \in Tanks |-> Daily!StateOf(t)] ELSE held[d]]
      /\ crossed' = [d \in Days |-> IF Daily!End(d) = clock + 1
                                    THEN {t \in Tanks : operation[t] # None} ELSE crossed[d]]
  BY DEF Daily!Tick, Daily!rows, DailyInv, RowsOK
<1>2. ASSUME NEW d \in Days, clock >= Daily!End(d)
      PROVE  held'[d] = held[d] /\ crossed'[d] = crossed[d]
  <2>1. Daily!End(d) # clock + 1
    BY <1>1, <1>2, EndOfDay DEF DailyInv
  <2> QED BY <1>1, <2>1
<1>3. RowsOK'
  <2>1. ASSUME NEW t \in Tanks, NEW i \in 1 .. Len(periods[t])
        PROVE  periods[t][i].started <= clock + 1
    <3>1. periods[t][i] \in PeriodRows /\ periods[t][i].started <= clock
      BY DEF DailyInv, RowsOK
    <3>2. periods[t][i].started \in Nat
      BY <3>1 DEF PeriodRows
    <3> QED BY <3>1, <3>2, <1>1
  <2> QED BY <2>1, <1>1 DEF DailyInv, RowsOK
<1>4. OperationsOK'
  BY <1>1 DEF DailyInv, OperationsOK
<1>5. ASSUME NEW d \in Days, clock + 1 >= Daily!End(d), NEW t \in Tanks \ crossed'[d]
      PROVE  /\ EndedAs(periods[t], d, held'[d][t])
             /\ operation[t] # None => operation[t].began >= Daily!End(d)
  <2>1. CASE clock >= Daily!End(d)
    BY <2>1, <1>2 DEF DailyInv, DaysOK, TankOf
  <2>2. CASE Daily!End(d) = clock + 1
    <3>1. held'[d] = [u \in Tanks |-> Daily!StateOf(u)] /\ operation[t] = None
      BY <1>1, <1>5, <2>2
    <3>2. held'[d][t] = periods[t][Len(periods[t])].state
      BY <3>1 DEF Daily!StateOf, Daily!Last
    <3>3. Len(periods[t]) \in Nat \ {0} /\ periods[t][Len(periods[t])].ended = None
          /\ periods[t][Len(periods[t])].started <= clock
          /\ periods[t][Len(periods[t])].started \in Nat
      <4>1. Len(periods[t]) \in Nat \ {0} /\ periods[t][Len(periods[t])] \in PeriodRows
            /\ periods[t][Len(periods[t])].ended = None
            /\ periods[t][Len(periods[t])].started <= clock
        BY DEF DailyInv, RowsOK
      <4> QED BY <4>1 DEF PeriodRows
    <3> DEFINE n == Len(periods[t])
    <3>4. n \in 1 .. Len(periods[t]) /\ periods[t][n].started < Daily!End(d)
          /\ n + 1 .. Len(periods[t]) = {}
      BY <2>2, <3>3, <1>1
    <3> QED BY <3>1, <3>2, <3>3, <3>4 DEF EndedAs
  <2> QED BY <2>1, <2>2, <1>1, <1>5, EndOfDay DEF DailyInv
<1>6. DaysOK'
  BY <1>1, <1>5 DEF DailyInv, DaysOK, TankOf, EndedAs, Daily!End, Daily!Start
<1>7. ReportsOK'
  <2>1. ASSUME NEW m \in Managers, ReportOK(report[m]) PROVE ReportOK(report[m])'
    <3> DEFINE r == report[m]
    <3>1. r.day \in Days /\ r.now \in 0 .. clock'
      BY <2>1, <1>1 DEF ReportOK
    <3>2. ASSUME r.settled PROVE clock >= Daily!End(r.day)
      BY <2>1, <3>1, <3>2, <1>1, EndOfDay DEF ReportOK, DailyInv
    <3>3. ASSUME r.settled, r.read["periods"] # None
          PROVE  TellsDay(r.read["periods"], r.day)'
      <4>1. TellsDay(r.read["periods"], r.day) /\ held'[r.day] = held[r.day]
            /\ crossed'[r.day] = crossed[r.day]
        BY <2>1, <3>1, <3>2, <3>3, <1>2 DEF ReportOK
      <4> QED BY <4>1, <1>1 DEF TellsDay
    <3> QED BY <2>1, <3>1, <3>3, <1>1 DEF ReportOK
  <2> QED BY <2>1, <1>1 DEF DailyInv, ReportsOK
<1> QED BY <1>3, <1>4, <1>6, <1>7 DEF DailyInv, Daily!DailyAssumption

(* A step of one report, for the rest of the invariant. *)
LEMMA ReportKeeps ==
  ASSUME DailyInv, NEW m \in Managers, NEW r, r = None \/ ReportOK(r),
         report' = [report EXCEPT ![m] = r],
         UNCHANGED <<clock, periods, operation, held, crossed>>
  PROVE  DailyInv'
<1>1. RowsOK' /\ OperationsOK' /\ DaysOK'
  BY DEF DailyInv, RowsOK, OperationsOK, DaysOK, TankOf
<1>2. ASSUME NEW x \in Managers PROVE report'[x] = None \/ ReportOK(report'[x])
  BY DEF DailyInv, ReportsOK
<1>3. ASSUME NEW q, ReportOK(q) PROVE ReportOK(q)'
  BY <1>3 DEF ReportOK, TellsDay
<1>4. ReportsOK'
  <2>1. ASSUME NEW x \in Managers PROVE (report[x] = None \/ ReportOK(report[x]))'
    <3>1. CASE report'[x] = None
      BY <3>1
    <3>2. CASE ReportOK(report'[x])
      BY <3>2 DEF ReportOK, TellsDay
    <3> QED BY <3>1, <3>2, <1>2
  <2>2. report' = [x \in Managers |-> report'[x]]
    BY DEF DailyInv, ReportsOK
  <2> QED BY <2>1, <2>2 DEF ReportsOK
<1> QED BY <1>1, <1>4 DEF DailyInv, Daily!DailyAssumption

LEMMA BeginReportKeeps ==
  ASSUME DailyInv, NEW m \in Managers, NEW d \in Days, Daily!BeginReport(m, d)
  PROVE  DailyInv'
<1> DEFINE r == [day |-> d, now |-> clock, settled |-> Daily!Settled(d),
                 read |-> [part \in Daily!Parts |-> None], figures |-> None]
<1>1. report' = [report EXCEPT ![m] = r]
      /\ UNCHANGED <<clock, periods, operation, held, crossed>>
  BY DEF Daily!BeginReport, Daily!rows, Daily!ghosts
<1>2. /\ r.day = d /\ r.now = clock /\ r.settled = Daily!Settled(d)
      /\ r.read = [part \in Daily!Parts |-> None]
      /\ r = [day |-> r.day, now |-> r.now, settled |-> r.settled, read |-> r.read,
              figures |-> r.figures]
  OBVIOUS
<1>3. clock \in Nat /\ "periods" \in Daily!Parts
  BY DEF DailyInv, RowsOK, Daily!Parts
<1> HIDE DEF r
<1>4. r.read["periods"] = None /\ r.read = [part \in Daily!Parts |-> r.read[part]]
  BY <1>2, <1>3
<1>5. r.settled => r.now >= Daily!End(r.day)
  BY <1>2 DEF Daily!Settled
<1>6. ReportOK(r)
  BY <1>2, <1>3, <1>4, <1>5 DEF ReportOK
<1> QED BY <1>1, <1>6, ReportKeeps

LEMMA ReadPartKeeps ==
  ASSUME DailyInv, NEW m \in Managers, NEW i \in DOMAIN ReadOrder, Daily!ReadPart(m, i)
  PROVE  DailyInv'
<1> DEFINE q == report[m]
           part == ReadOrder[i]
           read == [q.read EXCEPT ![part] = Daily!Present(part)]
           r == [q EXCEPT !.read = read]
<1>1. report' = [report EXCEPT ![m] = r] /\ q # None
      /\ UNCHANGED <<clock, periods, operation, held, crossed>>
  BY DEF Daily!ReadPart, Daily!rows, Daily!ghosts
<1>2. ReportOK(q)
  BY <1>1 DEF DailyInv, ReportsOK
<1>3. part \in Daily!Parts
  BY DEF DailyInv, Daily!DailyAssumption, Daily!Parts
<1>4. q = [day |-> q.day, now |-> q.now, settled |-> q.settled, read |-> q.read,
           figures |-> q.figures]
  BY <1>2 DEF ReportOK
<1>5. r = [day |-> q.day, now |-> q.now, settled |-> q.settled, read |-> read,
           figures |-> q.figures]
  <2> HIDE DEF q, read
  <2> QED BY <1>4
<1>6. q.read = [x \in Daily!Parts |-> q.read[x]] /\ "periods" \in Daily!Parts
  BY <1>2 DEF ReportOK, Daily!Parts
<1>7. /\ read = [x \in Daily!Parts |-> read[x]]
      /\ read["periods"] = IF part = "periods" THEN Daily!Present(part) ELSE q.read["periods"]
  <2> HIDE DEF q, part
  <2> QED BY <1>3, <1>6
<1>8. part = "periods" => Daily!Present(part) = periods
  BY DEF Daily!Present
<1>9. ASSUME q.settled PROVE TellsDay(periods, q.day)
  <2>1. q.day \in Days /\ q.now \in 0 .. clock /\ q.now >= Daily!End(q.day)
    BY <1>2, <1>9 DEF ReportOK
  <2>2. clock >= Daily!End(q.day)
    BY <2>1, EndOfDay DEF DailyInv, RowsOK
  <2> QED BY <2>1, <2>2 DEF TellsDay, DailyInv, DaysOK, TankOf, RowsOK
<1> DEFINE new == [day |-> q.day, now |-> q.now, settled |-> q.settled, read |-> read,
                   figures |-> q.figures]
<1>10. /\ new.day = q.day /\ new.now = q.now /\ new.settled = q.settled /\ new.read = read
       /\ new.figures = q.figures /\ r = new
  BY <1>5
<1> HIDE DEF q, part, read, new
<1>11. new = [day |-> new.day, now |-> new.now, settled |-> new.settled, read |-> new.read,
              figures |-> new.figures]
  BY <1>10 DEF new
<1>12. ReportOK(new)
  BY <1>2, <1>7, <1>8, <1>9, <1>10, <1>11 DEF ReportOK
<1> QED BY <1>1, <1>10, <1>12, ReportKeeps

LEMMA ReportEnds ==
  ASSUME DailyInv, NEW m \in Managers,
         Daily!AnswerReport(m) \/ Daily!CheckClosure(m) \/ Daily!CreateClosure(m)
  PROVE  DailyInv'
<1> DEFINE q == report[m]
           r == [q EXCEPT !.figures = Daily!FiguresOf(m)]
<1>1. /\ q # None /\ UNCHANGED <<clock, periods, operation, held, crossed>>
      /\ \/ report' = [report EXCEPT ![m] = None]
         \/ report' = [report EXCEPT ![m] = r]
  <2>1. CASE Daily!AnswerReport(m)
    BY <2>1 DEF Daily!AnswerReport, Daily!Complete, Daily!rows, Daily!ghosts
  <2>2. CASE Daily!CreateClosure(m)
    BY <2>2 DEF Daily!CreateClosure, Daily!Complete, Daily!rows, Daily!ghosts
  <2>3. CASE Daily!CheckClosure(m)
    BY <2>3 DEF Daily!CheckClosure, Daily!Complete, Daily!rows, Daily!ghosts
  <2> QED BY <2>1, <2>2, <2>3
<1>2. ReportOK(q)
  BY <1>1 DEF DailyInv, ReportsOK
<1>3. q = [day |-> q.day, now |-> q.now, settled |-> q.settled, read |-> q.read,
           figures |-> q.figures]
  BY <1>2 DEF ReportOK
<1> DEFINE new == [day |-> q.day, now |-> q.now, settled |-> q.settled, read |-> q.read,
                   figures |-> Daily!FiguresOf(m)]
<1>4. r = new
  <2> DEFINE f == Daily!FiguresOf(m)
  <2> HIDE DEF q, f
  <2> QED BY <1>3
<1>5. /\ new.day = q.day /\ new.now = q.now /\ new.settled = q.settled
      /\ new.read = q.read
      /\ new = [day |-> new.day, now |-> new.now, settled |-> new.settled,
                read |-> new.read, figures |-> new.figures]
  OBVIOUS
<1> HIDE DEF q, new, r
<1>6. ReportOK(r)
  BY <1>2, <1>4, <1>5 DEF ReportOK
<1> QED BY <1>1, <1>6, ReportKeeps

LEMMA DailyStart == Daily!DailyAssumption /\ Daily!Init => DailyInv
<1> SUFFICES ASSUME Daily!DailyAssumption, Daily!Init PROVE DailyInv
  OBVIOUS
<1> DEFINE row == [state |-> "VACIO", started |-> 0, ended |-> None]
<1>1. row \in PeriodRows /\ row.ended = None /\ row.started = 0
  BY DEF PeriodRows, Daily!States
<1>2. clock = 0 /\ periods = [t \in Tanks |-> <<row>>]
  BY DEF Daily!Init
<1> HIDE DEF row
<1>3. <<row>> \in Seq(PeriodRows) /\ Len(<<row>>) = 1 /\ <<row>>[1] = row
  BY <1>1
<1>4. RowsOK
  BY <1>1, <1>2, <1>3 DEF RowsOK
<1>5. OperationsOK /\ ReportsOK
  BY DEF Daily!Init, OperationsOK, ReportsOK
<1>6. DaysOK
  <2>1. \A d \in Days : ~(clock >= Daily!End(d))
    BY <1>2, EndOfDay
  <2> QED BY <2>1 DEF Daily!Init, DaysOK
<1> QED BY <1>4, <1>5, <1>6 DEF DailyInv

LEMMA DailyStep == DailyInv /\ [Daily!Next]_(Daily!vars) => DailyInv'
<1>1. ASSUME DailyInv, UNCHANGED Daily!vars PROVE DailyInv'
  BY <1>1 DEF Daily!vars, Daily!rows, Daily!ghosts, DailyInv, Daily!DailyAssumption,
    RowsOK, OperationsOK, DaysOK, TankOf, ReportsOK, ReportOK, TellsDay
<1> QED BY <1>1, BeginOperationKeeps, CommitOperationKeeps, TickKeeps, BeginReportKeeps,
  ReadPartKeeps, ReportEnds DEF Daily!Next

(* For any tanks, days, managers and order of the statements: the report of a *)
(* day that was over tells the state each tank held when the day ended,       *)
(* unless an operation on the tank was in progress at that instant            *)
(* (dailyManagement, plant.service.ts 2072-2332).                             *)
THEOREM PastIsTold == Daily!DailyAssumption => (Daily!Spec => []Daily!PastStatesTrue)
BY SettledIsTrue, DailyStart, DailyStep, PTL DEF Daily!Spec

(* A day is closed once and its closure never changes, whoever closes it and  *)
(* however many at once (closeDay, 2633-2702).                                *)
THEOREM ClosuresStay == Daily!Spec => [][Daily!ClosedForGood]_(Daily!vars)
<1> DEFINE Closures == closure = [d \in Days |-> closure[d]]
<1>1. Daily!Init => Closures
  BY DEF Daily!Init
<1>2. Closures /\ [Daily!Next]_(Daily!vars) => Closures' /\ Daily!ClosedForGood
  BY DEF Daily!Next, Daily!vars, Daily!BeginOperation, Daily!CommitOperation, Daily!BeginReport,
    Daily!ReadPart, Daily!AnswerReport, Daily!CheckClosure, Daily!CreateClosure, Daily!UniqueDay,
    Daily!Tick, Daily!ClosedForGood
<1> QED BY <1>1, <1>2, PTL DEF Daily!Spec

-----------------------------------------------------------------------------
(* The laboratory in the daily report (DailyManagement,                      *)
(* LaboratoryMatchesTanks).                                                  *)

SampleRows == [requested : Nat, received : Nat \cup {None}, analysed : Nat \cup {None},
               resolved : Nat \cup {None}]
(* The stamps of a sample follow one another. *)
InOrder(s) ==
  /\ s.received # None => s.requested <= s.received
  /\ s.analysed # None => s.received # None /\ s.received <= s.analysed
  /\ s.resolved # None => s.analysed # None /\ s.analysed <= s.resolved
StampedBy(s, limit) ==
  /\ s.requested <= limit
  /\ \A stamp \in {s.received, s.analysed, s.resolved} : stamp # None => stamp <= limit
(* All samples of a tank but the last are resolved, and the last one unless   *)
(* the tank is in the laboratory; the operation in progress is one the tank   *)
(* still allows, and began after all the stamps.                              *)
SamplesOf(t) ==
  LET ss == samples[t]
      n == Len(ss)
  IN
  /\ ss \in Seq(SampleRows)
  /\ \A i \in 1 .. n : InOrder(ss[i]) /\ StampedBy(ss[i], clock)
  /\ \A i \in 1 .. n - 1 : ss[i].resolved # None
  /\ Daily!StateOf(t) = "LABORATORIO" <=> n > 0 /\ ss[n].resolved = None
  /\ operation[t] # None =>
       /\ Daily!Possible(t, operation[t].kind)
       /\ \A i \in 1 .. n : StampedBy(ss[i], operation[t].began)
(* A sample on which the laboratory was working when day d ended. *)
OpenAtEnd(s, d) ==
  s.requested < Daily!End(d) /\ (s.resolved = None \/ s.resolved >= Daily!End(d))
LabTells(ss, d, state) ==
  /\ ss \in Seq(SampleRows) /\ \A i \in 1 .. Len(ss) : InOrder(ss[i])
  /\ \A i, j \in 1 .. Len(ss) : OpenAtEnd(ss[i], d) /\ OpenAtEnd(ss[j], d) => i = j
  /\ state = "LABORATORIO" <=> \E i \in 1 .. Len(ss) : OpenAtEnd(ss[i], d)
LabOfDay(table, d) == \A t \in Tanks \ crossed[d] : LabTells(table[t], d, held[d][t])
LabRows == samples = [t \in Tanks |-> samples[t]] /\ \A t \in Tanks : SamplesOf(t)
LabDays == \A d \in Days : clock >= Daily!End(d) => LabOfDay(samples, d)
LabReports ==
  \A m \in Managers : report[m] # None =>
    (report[m].settled /\ report[m].read["samples"] # None =>
       LabOfDay(report[m].read["samples"], report[m].day))
LabInv == LabRows /\ LabDays /\ LabReports

LEMMA LastOfRows == ASSUME DailyInv, NEW t \in Tanks
                    PROVE  /\ Daily!StateOf(t) = periods[t][Len(periods[t])].state
                           /\ Daily!LastSample(t) = samples[t][Len(samples[t])]
BY DEF Daily!StateOf, Daily!LastSample, Daily!Last

(* A sample is stamped as the laboratory goes on, with the stamps of an       *)
(* operation that began at some moment; a new one has no other stamps.        *)
Restamped(s, r, began) ==
  /\ r \in SampleRows /\ InOrder(r) /\ r.requested = s.requested
  /\ r.received = s.received \/ (s.received = None /\ r.received \in began .. clock)
  /\ r.analysed = s.analysed \/ (s.analysed = None /\ r.analysed \in began .. clock)
  /\ r.resolved = s.resolved \/ (s.resolved = None /\ r.resolved \in began .. clock)
IsNew(s, began) ==
  /\ s \in SampleRows /\ s.requested \in began .. clock
  /\ s.received = None /\ s.analysed = None /\ s.resolved = None
Becomes(ss, us, kind, began) ==
  LET n == Len(ss) IN
  /\ us \in Seq(SampleRows)
  /\ kind = "send" => /\ Len(us) = n + 1 /\ IsNew(us[n + 1], began)
                      /\ \A i \in 1 .. n : us[i] = ss[i]
  /\ kind \in {"start", "finish"} => us = ss
  /\ kind \in {"receive", "analyse", "resolve"} =>
       /\ n > 0 /\ Len(us) = n /\ Restamped(ss[n], us[n], began)
       /\ us[n].resolved # None <=> kind = "resolve"
       /\ \A i \in 1 .. n - 1 : us[i] = ss[i]

LEMMA LastReplaced ==
  ASSUME NEW ss \in Seq(SampleRows), Len(ss) > 0, NEW r \in SampleRows
  PROVE  LET us == [ss EXCEPT ![Len(ss)] = r] IN
         /\ us \in Seq(SampleRows) /\ Len(us) = Len(ss) /\ us[Len(ss)] = r
         /\ \A i \in 1 .. Len(ss) - 1 : us[i] = ss[i]
OBVIOUS

LEMMA SampleAdded ==
  ASSUME NEW ss \in Seq(SampleRows), NEW r \in SampleRows
  PROVE  LET us == Append(ss, r) IN
         /\ us \in Seq(SampleRows) /\ Len(us) = Len(ss) + 1 /\ us[Len(ss) + 1] = r
         /\ \A i \in 1 .. Len(ss) : us[i] = ss[i]
OBVIOUS

(* What each stamp does to the last sample. *)
LEMMA StampsOfSample ==
  ASSUME DailyInv, NEW s \in SampleRows, InOrder(s), NEW began \in 0 .. clock, StampedBy(s, began),
         NEW at \in began .. clock
  PROVE  /\ s.received = None =>
              /\ Restamped(s, [s EXCEPT !.received = at], began)
              /\ Restamped(s, [s EXCEPT !.received = at, !.analysed = at], began)
              /\ [s EXCEPT !.received = at].resolved = None
              /\ [s EXCEPT !.received = at, !.analysed = at].resolved = None
         /\ s.received # None /\ s.analysed = None =>
              /\ Restamped(s, [s EXCEPT !.analysed = at], began)
              /\ [s EXCEPT !.analysed = at].resolved = None
         /\ s.analysed # None /\ s.resolved = None =>
              /\ Restamped(s, [s EXCEPT !.resolved = at], began)
              /\ [s EXCEPT !.resolved = at].resolved # None
<1>1. at \in Nat /\ clock \in Nat /\ began \in Nat /\ at \in began .. clock /\ None \notin Nat
      /\ at >= began
  BY DEF DailyInv, RowsOK, Daily!DailyAssumption
<1>2. /\ s.requested \in Nat /\ s.requested <= began
      /\ s.received \in Nat \cup {None} /\ (s.received # None => s.received <= began)
      /\ s.analysed \in Nat \cup {None} /\ (s.analysed # None => s.analysed <= began)
      /\ s.resolved \in Nat \cup {None} /\ (s.resolved # None => s.resolved <= began)
  BY DEF SampleRows, StampedBy
<1> DEFINE a == [s EXCEPT !.received = at]
           b == [s EXCEPT !.received = at, !.analysed = at]
           c == [s EXCEPT !.analysed = at]
           e == [s EXCEPT !.resolved = at]
<1>3. /\ a \in SampleRows /\ a.requested = s.requested /\ a.received = at
      /\ a.analysed = s.analysed /\ a.resolved = s.resolved
  BY <1>1, <1>2 DEF SampleRows
<1>4. /\ b \in SampleRows /\ b.requested = s.requested /\ b.received = at
      /\ b.analysed = at /\ b.resolved = s.resolved
  BY <1>1, <1>2 DEF SampleRows
<1>5. /\ c \in SampleRows /\ c.requested = s.requested /\ c.received = s.received
      /\ c.analysed = at /\ c.resolved = s.resolved
  BY <1>1, <1>2 DEF SampleRows
<1>6. /\ e \in SampleRows /\ e.requested = s.requested /\ e.received = s.received
      /\ e.analysed = s.analysed /\ e.resolved = at
  BY <1>1, <1>2 DEF SampleRows
<1> HIDE DEF a, b, c, e
<1>7. ASSUME s.received = None
      PROVE  Restamped(s, a, began) /\ Restamped(s, b, began) /\ a.resolved = None /\ b.resolved = None
  <2>1. s.analysed = None /\ s.resolved = None
    BY <1>7 DEF InOrder
  <2>2. InOrder(a) /\ a.resolved = None
    BY <2>1, <1>1, <1>2, <1>3 DEF InOrder
  <2>3. InOrder(b) /\ b.resolved = None
    BY <2>1, <1>1, <1>2, <1>4 DEF InOrder
  <2> QED BY <2>1, <2>2, <2>3, <1>1, <1>3, <1>4, <1>7 DEF Restamped
<1>8. ASSUME s.received # None, s.analysed = None PROVE Restamped(s, c, began) /\ c.resolved = None
  <2>1. s.resolved = None
    BY <1>8 DEF InOrder
  <2>2. InOrder(c)
    BY <2>1, <1>1, <1>2, <1>5, <1>8 DEF InOrder
  <2> QED BY <2>1, <2>2, <1>1, <1>5, <1>8 DEF Restamped
<1>9. ASSUME s.analysed # None, s.resolved = None PROVE Restamped(s, e, began) /\ e.resolved # None
  <2>1. InOrder(e)
    BY <1>1, <1>2, <1>6, <1>9 DEF InOrder
  <2> QED BY <2>1, <1>1, <1>6, <1>9 DEF Restamped
<1> QED BY <1>7, <1>8, <1>9 DEF a, b, c, e

LEMMA SamplesBecome ==
  ASSUME DailyInv, LabInv, NEW t \in Tanks, Daily!CommitOperation(t)
  PROVE  /\ samples' = [samples EXCEPT ![t] = samples'[t]]
         /\ Becomes(samples[t], samples'[t], operation[t].kind, operation[t].began)
<1> DEFINE kind == operation[t].kind
           began == operation[t].began
           ss == samples[t]
           n == Len(ss)
           us == samples'[t]
<1>1. operation[t] # None
  BY DEF Daily!CommitOperation
<1>2. /\ began \in 0 .. clock /\ clock \in Nat /\ kind \in Daily!Operations
      /\ samples = [x \in Tanks |-> samples[x]] /\ SamplesOf(t)
  BY <1>1 DEF DailyInv, OperationsOK, RowsOK, LabInv, LabRows
<1>3. /\ ss \in Seq(SampleRows) /\ n \in Nat
      /\ \A i \in 1 .. n : InOrder(ss[i]) /\ StampedBy(ss[i], began)
      /\ Daily!StateOf(t) = "LABORATORIO" <=> n > 0 /\ ss[n].resolved = None
      /\ Daily!Possible(t, kind)
  BY <1>1, <1>2 DEF SamplesOf
<1>4. PICK at \in began .. clock :
       \/ /\ kind = "send"
          /\ \E requested \in began .. clock :
               samples' = [samples EXCEPT ![t] = Append(@,
                 [requested |-> requested, received |-> None, analysed |-> None,
                  resolved |-> None])]
       \/ /\ kind = "receive"
          /\ \/ samples' = [samples EXCEPT ![t] = Daily!Stamped(t, "received", at)]
             \/ samples' = [samples EXCEPT ![t] =
                  [Daily!Stamped(t, "received", at) EXCEPT ![Len(samples[t])].analysed = at]]
       \/ kind = "analyse" /\ samples' = [samples EXCEPT ![t] = Daily!Stamped(t, "analysed", at)]
       \/ kind = "resolve" /\ samples' = [samples EXCEPT ![t] = Daily!Stamped(t, "resolved", at)]
       \/ kind \in {"start", "finish"} /\ UNCHANGED samples
  BY DEF Daily!CommitOperation
<1>5. kind \in {"receive", "analyse", "resolve"} =>
        /\ n > 0 /\ n \in 1 .. n /\ ss[n] \in SampleRows
        /\ InOrder(ss[n]) /\ StampedBy(ss[n], began) /\ ss[n].resolved = None
  <2>1. kind \in {"receive", "analyse", "resolve"} => Daily!StateOf(t) = "LABORATORIO"
    BY <1>3 DEF Daily!Possible
  <2>2. Daily!StateOf(t) = "LABORATORIO" => n \in 1 .. n
    BY <1>3
  <2> HIDE DEF kind, began, n
  <2> QED BY <2>1, <2>2, <1>3 DEF n
<1>6. /\ kind = "receive" => ss[n].received = None
      /\ kind = "analyse" => ss[n].received # None /\ ss[n].analysed = None
      /\ kind = "resolve" => ss[n].analysed # None
  BY <1>3, LastOfRows DEF Daily!Possible
<1>7. CASE kind = "send"
  <2>1. PICK requested \in began .. clock :
          samples' = [samples EXCEPT ![t] = Append(@,
            [requested |-> requested, received |-> None, analysed |-> None, resolved |-> None])]
    BY <1>4, <1>7
  <2> DEFINE new == [requested |-> requested, received |-> None, analysed |-> None,
                     resolved |-> None]
  <2>2. requested \in Nat
    BY <1>2
  <2>3. IsNew(new, began)
    BY <2>2 DEF IsNew, SampleRows
  <2> HIDE DEF new
  <2>4. us = Append(ss, new) /\ samples' = [samples EXCEPT ![t] = us]
    BY <2>1, <1>2 DEF new
  <2>5. new \in SampleRows
    BY <2>3 DEF IsNew
  <2>6. us \in Seq(SampleRows) /\ Len(us) = n + 1 /\ us[n + 1] = new /\ \A i \in 1 .. n : us[i] = ss[i]
    BY <2>4, <2>5, <1>3, SampleAdded
  <2> HIDE DEF kind, began, ss, us, n
  <2>7. Becomes(ss, us, kind, began)
    BY <2>3, <2>6, <1>7 DEF Becomes, n
  <2> QED BY <2>4, <2>7 DEF kind, began, ss, us
<1>8. CASE kind \in {"start", "finish"}
  <2>1. samples' = samples
    BY <1>4, <1>8
  <2>2. Becomes(ss, us, kind, began)
    BY <2>1, <1>3, <1>8 DEF Becomes
  <2> QED BY <2>1, <2>2, <1>2
<1>9. CASE kind \in {"receive", "analyse", "resolve"}
  <2>1. PICK r : /\ us = [ss EXCEPT ![n] = r] /\ samples' = [samples EXCEPT ![t] = us]
                 /\ Restamped(ss[n], r, began) /\ (r.resolved # None <=> kind = "resolve")
    <3> DEFINE s == ss[n]
    <3>1. StampedBy(s, began) /\ InOrder(s) /\ s \in SampleRows /\ s.resolved = None
      BY <1>5, <1>9
    <3>2. CASE kind = "receive"
      <4>1. \/ us = [ss EXCEPT ![n] = [s EXCEPT !.received = at]]
            \/ us = [ss EXCEPT ![n] = [s EXCEPT !.received = at, !.analysed = at]]
        <5>1. CASE samples' = [samples EXCEPT ![t] = Daily!Stamped(t, "received", at)]
          BY <5>1, <1>2 DEF Daily!Stamped
        <5>2. CASE samples' = [samples EXCEPT ![t] =
                  [Daily!Stamped(t, "received", at) EXCEPT ![Len(samples[t])].analysed = at]]
          <6>1. us = [[ss EXCEPT ![n].received = at] EXCEPT ![n].analysed = at]
            BY <5>2, <1>2 DEF Daily!Stamped
          <6> QED BY <6>1, <1>3, <1>5, <3>2
        <5> QED BY <5>1, <5>2, <3>2, <1>4
      <4>2. samples' = [samples EXCEPT ![t] = us]
        BY <3>2, <1>4, <1>2
      <4>3. /\ Restamped(s, [s EXCEPT !.received = at], began)
            /\ Restamped(s, [s EXCEPT !.received = at, !.analysed = at], began)
            /\ [s EXCEPT !.received = at].resolved = None
            /\ [s EXCEPT !.received = at, !.analysed = at].resolved = None
        BY <3>1, <3>2, <1>2, <1>6, StampsOfSample
      <4> QED BY <4>1, <4>2, <4>3, <3>2
    <3>3. CASE kind = "analyse"
      <4>1. us = [ss EXCEPT ![n] = [s EXCEPT !.analysed = at]] /\ samples' = [samples EXCEPT ![t] = us]
        BY <3>3, <1>4, <1>2 DEF Daily!Stamped
      <4>2. Restamped(s, [s EXCEPT !.analysed = at], began) /\ [s EXCEPT !.analysed = at].resolved = None
        BY <3>1, <3>3, <1>2, <1>6, StampsOfSample
      <4> QED BY <4>1, <4>2, <3>3
    <3>4. CASE kind = "resolve"
      <4>1. us = [ss EXCEPT ![n] = [s EXCEPT !.resolved = at]] /\ samples' = [samples EXCEPT ![t] = us]
        BY <3>4, <1>4, <1>2 DEF Daily!Stamped
      <4>2. Restamped(s, [s EXCEPT !.resolved = at], began) /\ [s EXCEPT !.resolved = at].resolved # None
        BY <3>1, <3>4, <1>2, <1>6, StampsOfSample
      <4> QED BY <4>1, <4>2, <3>4
    <3> QED BY <3>2, <3>3, <3>4, <1>9
  <2>2. r \in SampleRows
    BY <2>1 DEF Restamped
  <2>3. us \in Seq(SampleRows) /\ Len(us) = n /\ us[n] = r /\ \A i \in 1 .. n - 1 : us[i] = ss[i]
    BY <2>1, <2>2, <1>3, <1>5, <1>9, LastReplaced
  <2>4. n > 0
    BY <1>5, <1>9
  <2> HIDE DEF kind, began, ss, us, n
  <2>5. Becomes(ss, us, kind, began)
    BY <2>1, <2>3, <2>4, <1>9 DEF Becomes, n
  <2> QED BY <2>1, <2>5 DEF kind, began, ss, us
<1> QED BY <1>2, <1>7, <1>8, <1>9 DEF Daily!Operations

(* The periods after an operation: the last one has ended and the next has    *)
(* started, or nothing has changed.                                           *)
LEMMA PeriodsBecome ==
  ASSUME DailyInv, NEW t \in Tanks, Daily!CommitOperation(t)
  PROVE  LET kind == operation[t].kind
             began == operation[t].began
             ps == periods[t]
             n == Len(ps)
             qs == periods'[t]
         IN
         /\ periods' = [periods EXCEPT ![t] = qs]
         /\ kind \notin DOMAIN Daily!StateAfter => qs = ps
         /\ kind \in DOMAIN Daily!StateAfter =>
              /\ Len(qs) = n + 1 /\ qs[n + 1].state = Daily!StateAfter[kind]
              /\ qs[n + 1].started \in began .. clock
              /\ qs[n].state = ps[n].state /\ qs[n].started = ps[n].started
              /\ qs[n].ended \in began .. clock
              /\ \A i \in 1 .. n - 1 : qs[i] = ps[i]
<1> DEFINE kind == operation[t].kind
           began == operation[t].began
           ps == periods[t]
           n == Len(ps)
           qs == periods'[t]
<1>1. PICK at \in began .. clock, started \in began .. clock :
        IF kind \in DOMAIN Daily!StateAfter
        THEN periods' = [periods EXCEPT ![t] =
               Daily!Moved(t, Daily!StateAfter[kind], at, started)]
        ELSE periods' = periods
  BY DEF Daily!CommitOperation
<1>2. /\ periods = [x \in Tanks |-> periods[x]] /\ ps \in Seq(PeriodRows) /\ n \in Nat \ {0}
      /\ operation[t] # None /\ began \in 0 .. clock /\ clock \in Nat
      /\ n \in 1 .. n /\ ps[n] \in PeriodRows
  BY DEF DailyInv, RowsOK, OperationsOK, Daily!CommitOperation
<1>3. CASE kind \notin DOMAIN Daily!StateAfter
  BY <1>1, <1>2, <1>3
<1>4. CASE kind \in DOMAIN Daily!StateAfter
  <2> DEFINE last == [ps[n] EXCEPT !.ended = at]
             new == [state |-> Daily!StateAfter[kind], started |-> started, ended |-> None]
  <2>1. at \in Nat /\ started \in Nat
    BY <1>1, <1>2
  <2>2. Daily!StateAfter[kind] \in Daily!States
    BY <1>4 DEF Daily!StateAfter, Daily!States
  <2>3. /\ last \in PeriodRows /\ last.ended = at /\ last.state = ps[n].state
        /\ last.started = ps[n].started
    BY <1>2, <2>1 DEF PeriodRows
  <2>4. /\ new \in PeriodRows /\ new.state = Daily!StateAfter[kind] /\ new.started = started
    BY <2>1, <2>2 DEF PeriodRows
  <2>5. qs = Append([ps EXCEPT ![n] = last], new) /\ periods' = [periods EXCEPT ![t] = qs]
    BY <1>1, <1>2, <1>4 DEF Daily!Moved
  <2> HIDE DEF last, new, kind, began, ps, n, qs
  <2>6. [ps EXCEPT ![n] = last] \in Seq(PeriodRows) /\ Len([ps EXCEPT ![n] = last]) = n
        /\ [ps EXCEPT ![n] = last][n] = last
        /\ \A i \in 1 .. n - 1 : [ps EXCEPT ![n] = last][i] = ps[i]
    BY <1>2, <2>3 DEF n
  <2> DEFINE p == [ps EXCEPT ![n] = last]
  <2>7. p \in Seq(PeriodRows) /\ Len(p) = n /\ p[n] = last /\ \A i \in 1 .. n - 1 : p[i] = ps[i]
    BY <2>6
  <2>8. qs = Append(p, new)
    BY <2>5
  <2> HIDE DEF p
  <2>9. Len(qs) = n + 1 /\ qs[n + 1] = new /\ \A i \in 1 .. n : qs[i] = p[i]
    BY <2>4, <2>7, <2>8, <1>2
  <2>10. qs[n] = last /\ \A i \in 1 .. n - 1 : qs[i] = ps[i]
    BY <2>7, <2>9, <1>2
  <2>11. /\ Len(qs) = n + 1 /\ qs[n + 1].state = Daily!StateAfter[kind]
         /\ qs[n + 1].started \in began .. clock
         /\ qs[n].state = ps[n].state /\ qs[n].started = ps[n].started
         /\ qs[n].ended \in began .. clock
    BY <2>3, <2>4, <2>9, <2>10, <1>1
  <2> QED BY <2>5, <2>10, <2>11, <1>4 DEF kind, began, ps, n, qs
<1> QED BY <1>3, <1>4

LEMMA StateBecomes ==
  ASSUME DailyInv, DailyInv', NEW t \in Tanks, Daily!CommitOperation(t)
  PROVE  /\ operation[t].kind \in DOMAIN Daily!StateAfter =>
              Daily!StateOf(t)' = Daily!StateAfter[operation[t].kind]
         /\ operation[t].kind \notin DOMAIN Daily!StateAfter => Daily!StateOf(t)' = Daily!StateOf(t)
<1>1. /\ Daily!StateOf(t) = periods[t][Len(periods[t])].state
      /\ Daily!StateOf(t)' = periods'[t][Len(periods'[t])].state
      /\ Len(periods[t]) \in Nat
  BY DEF Daily!StateOf, Daily!Last, DailyInv, RowsOK
<1>2. CASE operation[t].kind \in DOMAIN Daily!StateAfter
  <2>1. /\ Len(periods'[t]) = Len(periods[t]) + 1
        /\ periods'[t][Len(periods[t]) + 1].state = Daily!StateAfter[operation[t].kind]
    BY <1>2, PeriodsBecome
  <2> QED BY <1>1, <1>2, <2>1
<1>3. CASE operation[t].kind \notin DOMAIN Daily!StateAfter
  BY <1>1, <1>3, PeriodsBecome
<1> QED BY <1>2, <1>3

(* A commit keeps the samples of its tank. *)
LEMMA CommitKeepsSamples ==
  ASSUME DailyInv, DailyInv', LabInv, NEW t \in Tanks, Daily!CommitOperation(t)
  PROVE  SamplesOf(t)'
<1> DEFINE kind == operation[t].kind
           began == operation[t].began
           ss == samples[t]
           n == Len(ss)
           us == samples'[t]
           k == Len(us)
<1>1. /\ operation[t] # None /\ operation'[t] = None /\ clock' = clock
  BY DEF Daily!CommitOperation, DailyInv, OperationsOK
<1>2. /\ began \in 0 .. clock /\ clock \in Nat /\ kind \in Daily!Operations /\ SamplesOf(t)
      /\ None \notin Nat
  BY <1>1 DEF DailyInv, OperationsOK, RowsOK, LabInv, LabRows, Daily!DailyAssumption
<1>3. /\ ss \in Seq(SampleRows) /\ n \in Nat
      /\ \A i \in 1 .. n : InOrder(ss[i]) /\ StampedBy(ss[i], clock)
      /\ \A i \in 1 .. n - 1 : ss[i].resolved # None
      /\ Daily!StateOf(t) = "LABORATORIO" <=> n > 0 /\ ss[n].resolved = None
      /\ Daily!Possible(t, kind)
  BY <1>1, <1>2 DEF SamplesOf
<1>4. Becomes(ss, us, kind, began)
  BY SamplesBecome
<1>5. /\ kind = "start" => Daily!StateOf(t) = "VACIO" /\ Daily!StateOf(t)' = "FABRICANDO"
      /\ kind = "send" => Daily!StateOf(t) = "FABRICANDO" /\ Daily!StateOf(t)' = "LABORATORIO"
      /\ kind \in {"receive", "analyse"} => /\ Daily!StateOf(t) = "LABORATORIO"
                                            /\ Daily!StateOf(t)' = "LABORATORIO"
      /\ kind = "resolve" => Daily!StateOf(t) = "LABORATORIO" /\ Daily!StateOf(t)' = "APROBADO"
      /\ kind = "finish" => Daily!StateOf(t) = "APROBADO" /\ Daily!StateOf(t)' = "VACIO"
  <2>1. DOMAIN Daily!StateAfter = {"start", "send", "resolve", "finish"}
        /\ Daily!StateAfter["start"] = "FABRICANDO" /\ Daily!StateAfter["send"] = "LABORATORIO"
        /\ Daily!StateAfter["resolve"] = "APROBADO" /\ Daily!StateAfter["finish"] = "VACIO"
    BY DEF Daily!StateAfter
  <2>2. /\ kind \in DOMAIN Daily!StateAfter => Daily!StateOf(t)' = Daily!StateAfter[kind]
        /\ kind \notin DOMAIN Daily!StateAfter => Daily!StateOf(t)' = Daily!StateOf(t)
    BY StateBecomes
  <2>3. /\ kind = "start" => Daily!StateOf(t) = "VACIO"
        /\ kind = "send" => Daily!StateOf(t) = "FABRICANDO"
        /\ kind \in {"receive", "analyse", "resolve"} => Daily!StateOf(t) = "LABORATORIO"
        /\ kind = "finish" => Daily!StateOf(t) = "APROBADO"
    BY <1>3 DEF Daily!Possible
  <2> HIDE DEF kind
  <2> QED BY <2>1, <2>2, <2>3
<1> HIDE DEF kind, began, ss, us
<1>6. ASSUME NEW s \in SampleRows, NEW r, StampedBy(s, clock), Restamped(s, r, began)
      PROVE  InOrder(r) /\ StampedBy(r, clock)
  <2>1. /\ s.requested <= clock /\ (s.received # None => s.received <= clock)
        /\ (s.analysed # None => s.analysed <= clock) /\ (s.resolved # None => s.resolved <= clock)
    BY <1>6 DEF StampedBy
  <2>2. \A x \in began .. clock : x <= clock
    BY <1>2
  <2>3. /\ r.requested <= clock /\ (r.received # None => r.received <= clock)
        /\ (r.analysed # None => r.analysed <= clock) /\ (r.resolved # None => r.resolved <= clock)
    BY <1>6, <2>1, <2>2 DEF Restamped
  <2> QED BY <1>6, <2>3 DEF StampedBy, Restamped
<1>7. ASSUME NEW s, IsNew(s, began) PROVE InOrder(s) /\ StampedBy(s, clock)
  BY <1>7, <1>2 DEF IsNew, InOrder, StampedBy
<1>8. /\ us \in Seq(SampleRows)
      /\ \A i \in 1 .. k : InOrder(us[i]) /\ StampedBy(us[i], clock)
      /\ \A i \in 1 .. k - 1 : us[i].resolved # None
      /\ Daily!StateOf(t)' = "LABORATORIO" <=> k > 0 /\ us[k].resolved = None
  <2>1. CASE kind = "send"
    <3>1. /\ us \in Seq(SampleRows) /\ k = n + 1 /\ IsNew(us[n + 1], began)
          /\ \A i \in 1 .. n : us[i] = ss[i]
      BY <2>1, <1>4 DEF Becomes
    <3> HIDE DEF k, n
    <3>2. /\ InOrder(us[n + 1]) /\ StampedBy(us[n + 1], clock)
      BY <3>1, <1>7
    <3>3. \A i \in 1 .. k : InOrder(us[i]) /\ StampedBy(us[i], clock)
      <4>1. \A i \in 1 .. k : i \in 1 .. n \/ i = n + 1
        BY <3>1, <1>3
      <4> QED BY <4>1, <3>1, <3>2, <1>3
    <3>4. n > 0 => ss[n].resolved # None
      BY <2>1, <1>3, <1>5
    <3>5. \A i \in 1 .. n : ss[i].resolved # None
      <4>1. \A i \in 1 .. n : (i = n /\ n > 0) \/ i \in 1 .. n - 1
        BY <1>3
      <4> QED BY <4>1, <3>4, <1>3
    <3>6. k - 1 = n /\ k > 0 /\ us[k].resolved = None
      BY <3>1, <1>3 DEF IsNew
    <3> QED BY <2>1, <3>1, <3>3, <3>5, <3>6, <1>5
  <2>2. CASE kind \in {"start", "finish"}
    BY <2>2, <1>3, <1>4, <1>5 DEF Becomes
  <2>3. CASE kind \in {"receive", "analyse", "resolve"}
    <3>1. /\ n > 0 /\ k = n /\ Restamped(ss[n], us[n], began) /\ us \in Seq(SampleRows)
          /\ us[n].resolved # None <=> kind = "resolve"
          /\ \A i \in 1 .. n - 1 : us[i] = ss[i]
      BY <2>3, <1>4 DEF Becomes
    <3>2. ss[n] \in SampleRows /\ n \in 1 .. n
      BY <3>1, <1>3
    <3> HIDE DEF k, n
    <3>3. InOrder(us[n]) /\ StampedBy(us[n], clock)
      BY <3>1, <3>2, <1>3, <1>6
    <3>4. \A i \in 1 .. k : InOrder(us[i]) /\ StampedBy(us[i], clock)
      <4>1. \A i \in 1 .. k : i = n \/ (i \in 1 .. n - 1 /\ i \in 1 .. n)
        BY <3>1, <1>3
      <4> QED BY <4>1, <3>1, <3>3, <1>3
    <3>5. \A i \in 1 .. k - 1 : us[i].resolved # None
      BY <3>1, <1>3
    <3> QED BY <2>3, <3>1, <3>4, <3>5, <1>5
  <2> QED BY <2>1, <2>2, <2>3, <1>2 DEF Daily!Operations
<1> HIDE DEF k
<1> QED BY <1>1, <1>8 DEF SamplesOf, us, k

(* What a commit writes belongs to later days than those that were over when  *)
(* the operation began.                                                       *)
After(stamp, d) == stamp = None \/ stamp >= Daily!End(d)
SameFor(d, stamp, later) == stamp = later \/ (After(stamp, d) /\ After(later, d))
SamplesGrew(ss, us, d) ==
  /\ Len(ss) <= Len(us)
  /\ \A i \in 1 .. Len(ss) : /\ us[i].requested = ss[i].requested
                             /\ SameFor(d, ss[i].received, us[i].received)
                             /\ SameFor(d, ss[i].analysed, us[i].analysed)
                             /\ SameFor(d, ss[i].resolved, us[i].resolved)
  /\ \A i \in Len(ss) + 1 .. Len(us) :
       /\ us[i].requested >= Daily!End(d)
       /\ After(us[i].received, d) /\ After(us[i].analysed, d) /\ After(us[i].resolved, d)
PeriodsGrew(ps, qs, d) ==
  /\ Len(ps) <= Len(qs)
  /\ \A i \in 1 .. Len(ps) : /\ qs[i].state = ps[i].state /\ qs[i].started = ps[i].started
                             /\ SameFor(d, ps[i].ended, qs[i].ended)
  /\ \A i \in Len(ps) + 1 .. Len(qs) : qs[i].started >= Daily!End(d)

(* Rows that have not changed. *)
LEMMA SameGrows ==
  ASSUME NEW ss, Len(ss) \in Nat, NEW d
  PROVE  SamplesGrew(ss, ss, d) /\ PeriodsGrew(ss, ss, d)
<1>1. Len(ss) <= Len(ss) /\ Len(ss) + 1 .. Len(ss) = {}
  OBVIOUS
<1>2. \A x : SameFor(d, x, x)
  BY DEF SameFor
<1> QED BY <1>1, <1>2 DEF SamplesGrew, PeriodsGrew

LEMMA CommitGrows ==
  ASSUME DailyInv, LabInv, NEW t \in Tanks, Daily!CommitOperation(t),
         NEW d \in Days, operation[t].began >= Daily!End(d)
  PROVE  /\ SamplesGrew(samples[t], samples'[t], d)
         /\ PeriodsGrew(periods[t], periods'[t], d)
<1> DEFINE kind == operation[t].kind
           began == operation[t].began
           end == Daily!End(d)
<1>1. /\ operation[t] # None /\ began \in 0 .. clock /\ clock \in Nat /\ kind \in Daily!Operations
      /\ end \in Nat /\ began >= end
  BY EndOfDay DEF Daily!CommitOperation, DailyInv, OperationsOK, RowsOK
<1>2. \A x \in began .. clock : x >= end
  <2> HIDE DEF began, end
  <2> QED BY <1>1
<1>3. SamplesGrew(samples[t], samples'[t], d)
  <2> DEFINE ss == samples[t]
             n == Len(ss)
             us == samples'[t]
  <2>1. Becomes(ss, us, kind, began)
    BY SamplesBecome
  <2>2. ss \in Seq(SampleRows) /\ n \in Nat
    BY DEF LabInv, LabRows, SamplesOf
  <2> HIDE DEF kind, began, ss, us
  <2>3. CASE kind = "send"
    <3>1. /\ Len(us) = n + 1 /\ IsNew(us[n + 1], began) /\ \A i \in 1 .. n : us[i] = ss[i]
      BY <2>1, <2>3 DEF Becomes
    <3>2. \A i \in n + 1 .. Len(us) : i = n + 1
      BY <3>1, <2>2
    <3>3. us[n + 1].requested >= end /\ After(us[n + 1].received, d)
          /\ After(us[n + 1].analysed, d) /\ After(us[n + 1].resolved, d)
      BY <3>1, <1>2 DEF IsNew, After
    <3>4. \A x : SameFor(d, x, x)
      BY DEF SameFor
    <3>5. Len(ss) <= Len(us)
      BY <3>1, <2>2
    <3> QED BY <3>1, <3>2, <3>3, <3>4, <3>5 DEF SamplesGrew, ss, us
  <2>4. CASE kind \in {"start", "finish"}
    <3>1. us = ss
      BY <2>1, <2>4 DEF Becomes
    <3> QED BY <3>1, <2>2, SameGrows DEF ss, us
  <2>5. CASE kind \in {"receive", "analyse", "resolve"}
    <3>1. /\ n > 0 /\ Len(us) = n /\ Restamped(ss[n], us[n], began)
          /\ \A i \in 1 .. n - 1 : us[i] = ss[i]
      BY <2>1, <2>5 DEF Becomes
    <3>2. /\ us[n].requested = ss[n].requested
          /\ SameFor(d, ss[n].received, us[n].received)
          /\ SameFor(d, ss[n].analysed, us[n].analysed)
          /\ SameFor(d, ss[n].resolved, us[n].resolved)
      BY <3>1, <1>2 DEF Restamped, SameFor, After
    <3>3. \A i \in 1 .. n : i = n \/ us[i] = ss[i]
      BY <3>1, <2>2
    <3>4. n + 1 .. Len(us) = {}
      BY <3>1, <2>2
    <3>5. \A x : SameFor(d, x, x)
      BY DEF SameFor
    <3>6. Len(ss) <= Len(us)
      BY <3>1, <2>2
    <3> QED BY <3>1, <3>2, <3>3, <3>4, <3>5, <3>6 DEF SamplesGrew, ss, us
  <2> QED BY <2>3, <2>4, <2>5, <1>1 DEF Daily!Operations, ss, us
<1>4. PeriodsGrew(periods[t], periods'[t], d)
  <2> DEFINE ps == periods[t]
             n == Len(ps)
             qs == periods'[t]
  <2>1. ps \in Seq(PeriodRows) /\ n \in Nat /\ n > 0 /\ ps[n].ended = None
    BY DEF DailyInv, RowsOK
  <2>2. CASE kind \notin DOMAIN Daily!StateAfter
    <3>1. qs = ps
      BY <2>2, PeriodsBecome
    <3> QED BY <3>1, <2>1 DEF PeriodsGrew, SameFor
  <2>3. CASE kind \in DOMAIN Daily!StateAfter
    <3>1. /\ Len(qs) = n + 1
          /\ qs[n + 1].started \in began .. clock
          /\ qs[n].state = ps[n].state /\ qs[n].started = ps[n].started
          /\ qs[n].ended \in began .. clock
          /\ \A i \in 1 .. n - 1 : qs[i] = ps[i]
      BY <2>3, PeriodsBecome
    <3> HIDE DEF kind, began, ps, qs
    <3>2. SameFor(d, ps[n].ended, qs[n].ended) /\ qs[n + 1].started >= end
      BY <3>1, <2>1, <1>2 DEF SameFor, After
    <3>3. \A i \in 1 .. n : i = n \/ qs[i] = ps[i]
      BY <3>1, <2>1
    <3>4. \A i \in n + 1 .. Len(qs) : i = n + 1
      BY <3>1, <2>1
    <3> HIDE DEF n
    <3> QED BY <3>1, <3>2, <3>3, <3>4, <2>1 DEF PeriodsGrew, SameFor, n, ps, qs
  <2> QED BY <2>2, <2>3
<1> QED BY <1>3, <1>4

(* Rows that grew tell the end of a day as they did. *)
LEMMA LabStays ==
  ASSUME DailyInv, NEW d \in Days, NEW state, NEW ss, LabTells(ss, d, state),
         NEW us \in Seq(SampleRows), \A i \in 1 .. Len(us) : InOrder(us[i]),
         SamplesGrew(ss, us, d)
  PROVE  LabTells(us, d, state)
<1> DEFINE n == Len(ss)
           k == Len(us)
           end == Daily!End(d)
<1>1. /\ ss \in Seq(SampleRows) /\ n \in Nat /\ k \in Nat /\ n <= k /\ end \in Nat
      /\ \A i \in 1 .. n : ss[i] \in SampleRows
      /\ \A i \in 1 .. k : us[i] \in SampleRows
  <2>1. ss \in Seq(SampleRows)
    BY DEF LabTells
  <2> QED BY <2>1, EndOfDay DEF SamplesGrew, DailyInv
<1>2. \A i \in 1 .. n : i \in 1 .. k /\ (OpenAtEnd(us[i], d) <=> OpenAtEnd(ss[i], d))
  <2> SUFFICES ASSUME NEW i \in 1 .. n
               PROVE  i \in 1 .. k /\ (OpenAtEnd(us[i], d) <=> OpenAtEnd(ss[i], d))
    OBVIOUS
  <2>1. us[i].requested = ss[i].requested /\ SameFor(d, ss[i].resolved, us[i].resolved)
    BY DEF SamplesGrew
  <2>2. i \in 1 .. k
    BY <1>1
  <2> QED BY <2>1, <2>2 DEF OpenAtEnd, SameFor, After
<1>3. \A i \in 1 .. k : OpenAtEnd(us[i], d) => i \in 1 .. n
  <2> SUFFICES ASSUME NEW i \in 1 .. k, i \notin 1 .. n PROVE ~OpenAtEnd(us[i], d)
    OBVIOUS
  <2>1. i \in n + 1 .. k
    BY <1>1
  <2>2. us[i].requested >= end /\ us[i].requested \in Nat
    BY <2>1, <1>1 DEF SamplesGrew, SampleRows
  <2> QED BY <2>2, <1>1 DEF OpenAtEnd
<1> HIDE DEF n, k
<1>4. /\ \A i, j \in 1 .. n : OpenAtEnd(ss[i], d) /\ OpenAtEnd(ss[j], d) => i = j
      /\ state = "LABORATORIO" <=> \E i \in 1 .. n : OpenAtEnd(ss[i], d)
  BY DEF LabTells, n
<1>5. /\ \A i, j \in 1 .. k : OpenAtEnd(us[i], d) /\ OpenAtEnd(us[j], d) => i = j
      /\ state = "LABORATORIO" <=> \E i \in 1 .. k : OpenAtEnd(us[i], d)
  BY <1>2, <1>3, <1>4
<1> QED BY <1>5 DEF LabTells, k

(* What the samples and the past days tell depends on the rows, the           *)
(* operations and the clock only.                                             *)
LEMMA LabUntouched ==
  ASSUME DailyInv, LabRows, LabDays,
         UNCHANGED <<clock, periods, samples, operation, held, crossed>>
  PROVE  LabRows' /\ LabDays'
<1>1. \A t \in Tanks : SamplesOf(t) => SamplesOf(t)'
  <2> SUFFICES ASSUME NEW t \in Tanks, SamplesOf(t) PROVE SamplesOf(t)'
    OBVIOUS
  <2>1. Daily!StateOf(t)' = Daily!StateOf(t) /\ Daily!LastSample(t)' = Daily!LastSample(t)
    BY DEF Daily!StateOf, Daily!LastSample
  <2> QED BY <2>1 DEF SamplesOf, Daily!Possible
<1> QED BY <1>1 DEF LabRows, LabDays, LabOfDay, Daily!End, Daily!Start

LEMMA LabBegins ==
  ASSUME DailyInv, LabInv, NEW t \in Tanks, NEW kind \in Daily!Operations,
         Daily!BeginOperation(t, kind)
  PROVE  LabInv'
<1> DEFINE begun == [kind |-> kind, began |-> clock]
<1>1. /\ operation[t] = None /\ operation' = [operation EXCEPT ![t] = begun]
      /\ UNCHANGED <<clock, periods, samples, report, held, crossed>>
      /\ Daily!Possible(t, kind)
  BY DEF Daily!BeginOperation, Daily!rows, Daily!ghosts
<1>2. begun.kind = kind /\ begun.began = clock
  OBVIOUS
<1> HIDE DEF begun
<1>3. operation'[t] = begun /\ \A x \in Tanks \ {t} : operation'[x] = operation[x]
  BY <1>1 DEF DailyInv, OperationsOK
<1>4. \A x \in Tanks : /\ Daily!StateOf(x)' = Daily!StateOf(x)
                       /\ Daily!LastSample(x)' = Daily!LastSample(x)
  BY <1>1 DEF Daily!StateOf, Daily!LastSample
<1>5. ASSUME NEW x \in Tanks PROVE SamplesOf(x)'
  <2>1. SamplesOf(x)
    BY DEF LabInv, LabRows
  <2>2. CASE x # t
    <3>1. operation'[x] = operation[x]
      BY <2>2, <1>3
    <3> QED BY <2>1, <3>1, <1>1, <1>4 DEF SamplesOf, Daily!Possible
  <2>3. CASE x = t
    <3>1. operation'[x].kind = kind /\ operation'[x].began = clock
      BY <2>3, <1>2, <1>3
    <3>2. Daily!Possible(x, kind)'
      BY <2>3, <1>1, <1>4 DEF Daily!Possible
    <3> HIDE DEF begun
    <3>3. Daily!Possible(x, operation[x].kind)'
      BY <3>1, <3>2 DEF Daily!Possible
    <3>4. \A i \in 1 .. Len(samples[x]) : StampedBy(samples[x][i], clock)
      BY <2>1 DEF SamplesOf
    <3> QED BY <2>1, <3>1, <3>3, <3>4, <1>1, <1>4 DEF SamplesOf
  <2> QED BY <2>2, <2>3
<1>6. LabRows'
  BY <1>1, <1>5 DEF LabInv, LabRows
<1>7. LabDays' /\ LabReports'
  BY <1>1 DEF LabInv, LabDays, LabReports, LabOfDay, Daily!End, Daily!Start
<1> QED BY <1>6, <1>7 DEF LabInv

LEMMA LabCommits ==
  ASSUME DailyInv, DailyInv', LabInv, NEW t \in Tanks, Daily!CommitOperation(t)
  PROVE  LabInv'
<1>1. /\ UNCHANGED <<clock, report, held, crossed>> /\ operation[t] # None
      /\ operation' = [operation EXCEPT ![t] = None]
  BY DEF Daily!CommitOperation, Daily!ghosts
<1>2. /\ samples' = [samples EXCEPT ![t] = samples'[t]]
      /\ periods' = [periods EXCEPT ![t] = periods'[t]]
  BY SamplesBecome, PeriodsBecome
<1>3. /\ \A x \in Tanks \ {t} : /\ operation'[x] = operation[x] /\ samples'[x] = samples[x]
                                /\ periods'[x] = periods[x]
      /\ samples' = [x \in Tanks |-> samples'[x]]
  <2>1. /\ samples = [x \in Tanks |-> samples[x]] /\ periods = [x \in Tanks |-> periods[x]]
        /\ operation = [x \in Tanks |-> operation[x]]
    BY DEF LabInv, LabRows, DailyInv, RowsOK, OperationsOK
  <2> QED BY <2>1, <1>1, <1>2
<1>4. SamplesOf(t)'
  BY CommitKeepsSamples
<1>5. ASSUME NEW x \in Tanks PROVE SamplesOf(x)'
  <2>1. CASE x # t
    <3>1. SamplesOf(x) /\ operation'[x] = operation[x] /\ samples'[x] = samples[x]
          /\ periods'[x] = periods[x]
      BY <2>1, <1>3 DEF LabInv, LabRows
    <3>2. Daily!StateOf(x)' = Daily!StateOf(x) /\ Daily!LastSample(x)' = Daily!LastSample(x)
      BY <3>1 DEF Daily!StateOf, Daily!LastSample
    <3> QED BY <3>1, <3>2, <1>1 DEF SamplesOf, Daily!Possible
  <2> QED BY <2>1, <1>4
<1>6. LabRows'
  BY <1>3, <1>5 DEF LabRows
<1>7. ASSUME NEW d \in Days, clock >= Daily!End(d), NEW x \in Tanks \ crossed[d]
      PROVE  LabTells(samples'[x], d, held[d][x])
  <2>1. LabTells(samples[x], d, held[d][x])
    BY <1>7 DEF LabInv, LabDays, LabOfDay
  <2>2. CASE x # t
    BY <2>1, <2>2, <1>3
  <2>3. CASE x = t
    <3>1. operation[t].began >= Daily!End(d)
      BY <1>1, <1>7, <2>3 DEF DailyInv, DaysOK, TankOf
    <3>2. SamplesGrew(samples[t], samples'[t], d)
      BY <3>1, CommitGrows
    <3>3. samples'[t] \in Seq(SampleRows) /\ \A i \in 1 .. Len(samples'[t]) : InOrder(samples'[t][i])
      BY <1>4 DEF SamplesOf
    <3>4. LabTells(samples'[t], d, held[d][t])
      BY <2>1, <2>3, <3>2, <3>3, LabStays
    <3> QED BY <3>4, <2>3
  <2> QED BY <2>2, <2>3
<1>8. LabDays'
  BY <1>1, <1>7 DEF LabDays, LabOfDay, Daily!End, Daily!Start
<1>9. LabReports'
  BY <1>1 DEF LabInv, LabReports, LabOfDay
<1> QED BY <1>6, <1>8, <1>9 DEF LabInv

(* A tank without an operation in progress when a day ends has one sample in  *)
(* the laboratory or none.                                                    *)
LEMMA LabTicks == ASSUME DailyInv, LabInv, Daily!Tick PROVE LabInv'
<1>1. /\ clock \in Nat /\ clock' = clock + 1
      /\ UNCHANGED <<periods, samples, operation, report>>
      /\ held' = [d \in Days |-> IF Daily!End(d) = clock + 1
                                 THEN [t \in Tanks |-> Daily!StateOf(t)] ELSE held[d]]
      /\ crossed' = [d \in Days |-> IF Daily!End(d) = clock + 1
                                    THEN {t \in Tanks : operation[t] # None} ELSE crossed[d]]
  BY DEF Daily!Tick, Daily!rows, DailyInv, RowsOK
<1>2. ASSUME NEW d \in Days, clock >= Daily!End(d)
      PROVE  held'[d] = held[d] /\ crossed'[d] = crossed[d]
  <2>1. Daily!End(d) # clock + 1
    BY <1>1, <1>2, EndOfDay DEF DailyInv
  <2> QED BY <1>1, <2>1
<1>3. ASSUME NEW s \in SampleRows, StampedBy(s, clock) PROVE StampedBy(s, clock + 1)
  BY <1>1, <1>3 DEF StampedBy, SampleRows
<1>4. ASSUME NEW t \in Tanks PROVE SamplesOf(t)'
  <2>1. SamplesOf(t) /\ Daily!StateOf(t)' = Daily!StateOf(t)
        /\ Daily!LastSample(t)' = Daily!LastSample(t)
    BY <1>1 DEF LabInv, LabRows, Daily!StateOf, Daily!LastSample
  <2>2. \A i \in 1 .. Len(samples[t]) : samples[t][i] \in SampleRows /\ StampedBy(samples[t][i], clock)
    BY <2>1 DEF SamplesOf
  <2>3. \A i \in 1 .. Len(samples[t]) : StampedBy(samples[t][i], clock + 1)
    BY <2>2, <1>3
  <2> QED BY <2>1, <2>3, <1>1 DEF SamplesOf, Daily!Possible
<1>5. LabRows'
  BY <1>1, <1>4 DEF LabInv, LabRows
<1>6. ASSUME NEW d \in Days, clock + 1 >= Daily!End(d), NEW t \in Tanks \ crossed'[d]
      PROVE  LabTells(samples[t], d, held'[d][t])
  <2>1. CASE clock >= Daily!End(d)
    BY <2>1, <1>2, <1>6 DEF LabInv, LabDays, LabOfDay
  <2>2. CASE Daily!End(d) = clock + 1
    <3> DEFINE ss == samples[t]
               n == Len(ss)
    <3>1. held'[d][t] = Daily!StateOf(t)
      BY <2>2, <1>1
    <3>2. /\ ss \in Seq(SampleRows) /\ n \in Nat
          /\ \A i \in 1 .. n : InOrder(ss[i]) /\ StampedBy(ss[i], clock) /\ ss[i] \in SampleRows
          /\ \A i \in 1 .. n - 1 : ss[i].resolved # None
          /\ Daily!StateOf(t) = "LABORATORIO" <=> n > 0 /\ ss[n].resolved = None
      BY DEF LabInv, LabRows, SamplesOf
    <3> HIDE DEF ss, n
    <3>3. \A i \in 1 .. n : OpenAtEnd(ss[i], d) <=> ss[i].resolved = None
      <4> SUFFICES ASSUME NEW i \in 1 .. n
                   PROVE  OpenAtEnd(ss[i], d) <=> ss[i].resolved = None
        OBVIOUS
      <4>1. StampedBy(ss[i], clock) /\ ss[i] \in SampleRows
        BY <3>2
      <4>2. /\ ss[i].requested \in Nat /\ ss[i].requested <= clock
            /\ ss[i].resolved \in Nat \cup {None}
            /\ (ss[i].resolved # None => ss[i].resolved <= clock)
        BY <4>1 DEF StampedBy, SampleRows
      <4> QED BY <4>2, <2>2, <1>1 DEF OpenAtEnd
    <3>4. \A i \in 1 .. n : OpenAtEnd(ss[i], d) => i = n
      <4>1. \A i \in 1 .. n : i # n => i \in 1 .. n - 1
        BY <3>2
      <4> QED BY <4>1, <3>2, <3>3
    <3>5. Daily!StateOf(t) = "LABORATORIO" <=> \E i \in 1 .. n : OpenAtEnd(ss[i], d)
      <4>1. n > 0 => n \in 1 .. n
        BY <3>2
      <4>2. (\E i \in 1 .. n : TRUE) => n > 0
        BY <3>2
      <4> QED BY <4>1, <4>2, <3>2, <3>3, <3>4
    <3>6. LabTells(ss, d, Daily!StateOf(t))
      BY <3>2, <3>4, <3>5 DEF LabTells, n
    <3> QED BY <3>1, <3>6 DEF ss
  <2> QED BY <2>1, <2>2, <1>1, <1>6, EndOfDay DEF DailyInv
<1>7. LabDays'
  BY <1>1, <1>6 DEF LabDays, LabOfDay, Daily!End, Daily!Start
<1>8. LabReports'
  <2>1. ASSUME NEW m \in Managers, report[m] # None, report[m].settled,
               report[m].read["samples"] # None
        PROVE  LabOfDay(report[m].read["samples"], report[m].day)'
    <3>1. ReportOK(report[m])
      BY <2>1 DEF DailyInv, ReportsOK
    <3>2. report[m].day \in Days /\ clock >= Daily!End(report[m].day)
      BY <2>1, <3>1, <1>1, EndOfDay DEF ReportOK, DailyInv
    <3>3. LabOfDay(report[m].read["samples"], report[m].day)
      BY <2>1 DEF LabInv, LabReports
    <3> QED BY <3>2, <3>3, <1>1, <1>2 DEF LabOfDay
  <2> QED BY <2>1, <1>1 DEF LabReports
<1> QED BY <1>5, <1>7, <1>8 DEF LabInv

(* A step of one report. *)
LEMMA LabReport ==
  ASSUME DailyInv, LabInv, NEW m \in Managers, NEW r,
         report' = [report EXCEPT ![m] = r],
         r # None => (r.settled /\ r.read["samples"] # None => LabOfDay(r.read["samples"], r.day)),
         UNCHANGED <<clock, periods, samples, operation, held, crossed>>
  PROVE  LabInv'
<1>1. LabRows' /\ LabDays'
  BY LabUntouched DEF LabInv
<1>2. \A table, d : LabOfDay(table, d)' <=> LabOfDay(table, d)
  BY DEF LabOfDay
<1>3. ASSUME NEW x \in Managers, report'[x] # None, report'[x].settled,
             report'[x].read["samples"] # None
      PROVE  LabOfDay(report'[x].read["samples"], report'[x].day)
  BY <1>3 DEF DailyInv, ReportsOK, LabInv, LabReports
<1>4. LabReports'
  BY <1>3 DEF LabReports, LabOfDay
<1> QED BY <1>1, <1>4 DEF LabInv

LEMMA LabReportBegins ==
  ASSUME DailyInv, LabInv, NEW m \in Managers, NEW d \in Days, Daily!BeginReport(m, d)
  PROVE  LabInv'
<1> DEFINE r == [day |-> d, now |-> clock, settled |-> Daily!Settled(d),
                 read |-> [part \in Daily!Parts |-> None], figures |-> None]
<1>1. report' = [report EXCEPT ![m] = r]
      /\ UNCHANGED <<clock, periods, samples, operation, held, crossed>>
  BY DEF Daily!BeginReport, Daily!rows, Daily!ghosts
<1>2. r.read["samples"] = None
  BY DEF Daily!Parts
<1> HIDE DEF r
<1> QED BY <1>1, <1>2, LabReport

LEMMA LabReportReads ==
  ASSUME DailyInv, LabInv, NEW m \in Managers, NEW i \in DOMAIN ReadOrder, Daily!ReadPart(m, i)
  PROVE  LabInv'
<1> DEFINE q == report[m]
           part == ReadOrder[i]
           read == [q.read EXCEPT ![part] = Daily!Present(part)]
           r == [q EXCEPT !.read = read]
<1>1. report' = [report EXCEPT ![m] = r] /\ q # None
      /\ UNCHANGED <<clock, periods, samples, operation, held, crossed>>
  BY DEF Daily!ReadPart, Daily!rows, Daily!ghosts
<1>2. ReportOK(q)
  BY <1>1 DEF DailyInv, ReportsOK
<1>3. part \in Daily!Parts /\ (part = "samples" => Daily!Present(part) = samples)
  BY DEF DailyInv, Daily!DailyAssumption, Daily!Parts, Daily!Present
<1>4. q = [day |-> q.day, now |-> q.now, settled |-> q.settled, read |-> q.read,
           figures |-> q.figures]
  BY <1>2 DEF ReportOK
<1>5. r = [day |-> q.day, now |-> q.now, settled |-> q.settled, read |-> read,
           figures |-> q.figures]
  <2> HIDE DEF q, read
  <2> QED BY <1>4
<1>6. q.read = [x \in Daily!Parts |-> q.read[x]] /\ "samples" \in Daily!Parts
  BY <1>2 DEF ReportOK, Daily!Parts
<1>7. read["samples"] = IF part = "samples" THEN samples ELSE q.read["samples"]
  <2> HIDE DEF q, part
  <2> QED BY <1>3, <1>6
<1>8. ASSUME q.settled PROVE LabOfDay(samples, q.day)
  <2>1. q.day \in Days /\ clock >= Daily!End(q.day)
    BY <1>2, <1>8, EndOfDay DEF ReportOK, DailyInv, RowsOK
  <2> QED BY <2>1 DEF LabInv, LabDays
<1>9. q.settled /\ q.read["samples"] # None => LabOfDay(q.read["samples"], q.day)
  BY <1>1 DEF LabInv, LabReports
<1>10. r.day = q.day /\ r.settled = q.settled /\ r.read = read
  <2> HIDE DEF q, read, r
  <2> QED BY <1>5
<1> HIDE DEF q, part, read, r
<1>11. r.settled /\ r.read["samples"] # None => LabOfDay(r.read["samples"], r.day)
  BY <1>7, <1>8, <1>9, <1>10
<1> QED BY <1>1, <1>11, LabReport

LEMMA LabReportEnds ==
  ASSUME DailyInv, LabInv, NEW m \in Managers,
         Daily!AnswerReport(m) \/ Daily!CheckClosure(m) \/ Daily!CreateClosure(m)
  PROVE  LabInv'
<1> DEFINE q == report[m]
           r == [q EXCEPT !.figures = Daily!FiguresOf(m)]
<1>1. /\ q # None /\ UNCHANGED <<clock, periods, samples, operation, held, crossed>>
      /\ \/ report' = [report EXCEPT ![m] = None]
         \/ report' = [report EXCEPT ![m] = r]
  <2>1. CASE Daily!AnswerReport(m)
    BY <2>1 DEF Daily!AnswerReport, Daily!Complete, Daily!rows, Daily!ghosts
  <2>2. CASE Daily!CreateClosure(m)
    BY <2>2 DEF Daily!CreateClosure, Daily!Complete, Daily!rows, Daily!ghosts
  <2>3. CASE Daily!CheckClosure(m)
    BY <2>3 DEF Daily!CheckClosure, Daily!Complete, Daily!rows, Daily!ghosts
  <2> QED BY <2>1, <2>2, <2>3
<1>2. ReportOK(q)
  BY <1>1 DEF DailyInv, ReportsOK
<1>3. q = [day |-> q.day, now |-> q.now, settled |-> q.settled, read |-> q.read,
           figures |-> q.figures]
  BY <1>2 DEF ReportOK
<1>4. r.day = q.day /\ r.settled = q.settled /\ r.read = q.read
  <2> DEFINE f == Daily!FiguresOf(m)
  <2>1. r = [q EXCEPT !.figures = f]
    OBVIOUS
  <2> HIDE DEF q, f, r
  <2> QED BY <1>3, <2>1
<1>5. q.settled /\ q.read["samples"] # None => LabOfDay(q.read["samples"], q.day)
  BY <1>1 DEF LabInv, LabReports
<1> HIDE DEF q, r
<1>6. r.settled /\ r.read["samples"] # None => LabOfDay(r.read["samples"], r.day)
  BY <1>4, <1>5
<1> QED BY <1>1, <1>6, LabReport

LEMMA LabStart == Daily!DailyAssumption /\ Daily!Init => LabInv
<1> SUFFICES ASSUME Daily!DailyAssumption, Daily!Init PROVE LabInv
  OBVIOUS
<1>1. DailyInv
  BY DailyStart
<1>2. \A t \in Tanks : samples[t] = << >> /\ operation[t] = None
  BY DEF Daily!Init
<1>3. \A t \in Tanks : Daily!StateOf(t) = "VACIO"
  BY DEF Daily!Init, Daily!StateOf, Daily!Last
<1>4. \A t \in Tanks : SamplesOf(t)
  <2> SUFFICES ASSUME NEW t \in Tanks PROVE SamplesOf(t)
    OBVIOUS
  <2>1. << >> \in Seq(SampleRows) /\ Len(<< >>) = 0
    OBVIOUS
  <2>2. samples[t] \in Seq(SampleRows) /\ Len(samples[t]) = 0
    BY <2>1, <1>2
  <2> QED BY <2>2, <1>2, <1>3 DEF SamplesOf
<1>5. LabRows
  BY <1>4 DEF LabRows, Daily!Init
<1>6. LabDays /\ LabReports
  <2>1. \A d \in Days : ~(clock >= Daily!End(d))
    BY EndOfDay DEF Daily!Init
  <2> QED BY <2>1 DEF Daily!Init, LabDays, LabReports
<1> QED BY <1>5, <1>6 DEF LabInv

LEMMA LabStep == DailyInv /\ DailyInv' /\ LabInv /\ [Daily!Next]_(Daily!vars) => LabInv'
<1> SUFFICES ASSUME DailyInv, DailyInv', LabInv, [Daily!Next]_(Daily!vars) PROVE LabInv'
  OBVIOUS
<1>1. ASSUME UNCHANGED Daily!vars PROVE LabInv'
  <2>1. UNCHANGED <<clock, periods, samples, operation, held, crossed, report>>
    BY <1>1 DEF Daily!vars, Daily!rows, Daily!ghosts
  <2>2. LabRows' /\ LabDays'
    BY <2>1, LabUntouched DEF LabInv
  <2>3. LabReports'
    BY <2>1 DEF LabInv, LabReports, LabOfDay
  <2> QED BY <2>2, <2>3 DEF LabInv
<1> QED BY <1>1, LabBegins, LabCommits, LabTicks, LabReportBegins, LabReportReads, LabReportEnds
  DEF Daily!Next

LEMMA SameTotal == \A S : Daily!Cardinality(S) = Cardinality(S)
<1> SUFFICES ASSUME NEW S PROVE Daily!Cardinality(S) = Cardinality(S)
  OBVIOUS
<1> QED BY DEF Daily!Cardinality, Cardinality

LEMMA RowsAre ==
  \A table, row : row \in Daily!RowsOf(table) <=>
    \E t \in Tanks : \E i \in DOMAIN table[t] : row = <<t, i>>
BY DEF Daily!RowsOf

(* A sample the laboratory was working on when the day ended awaited receipt, *)
(* waited received, or was being analysed.                                    *)
LEMMA OnePlaceInLab ==
  ASSUME DailyInv, NEW d \in Days, NEW s \in SampleRows, InOrder(s)
  PROVE  LET at == Daily!End(d) - 1
             awaits == Daily!AwaitingReceipt(s, at)
             waits == Daily!PassedBy(s.received, at) /\ ~Daily!PassedBy(s.analysed, at)
             analysed == Daily!InAnalysis(s, at)
         IN
         /\ OpenAtEnd(s, d) <=> awaits \/ waits \/ analysed
         /\ ~(awaits /\ waits) /\ ~(awaits /\ analysed) /\ ~(waits /\ analysed)
<1>1. /\ Daily!End(d) \in Nat \ {0} /\ s.requested \in Nat /\ s.received \in Nat \cup {None}
      /\ s.analysed \in Nat \cup {None} /\ s.resolved \in Nat \cup {None} /\ None \notin Nat
  BY EndOfDay DEF SampleRows, DailyInv, Daily!DailyAssumption
<1>2. PICK end \in Nat \ {0} : end = Daily!End(d)
  BY <1>1
<1> QED
  BY <1>1, <1>2 DEF OpenAtEnd, InOrder, Daily!AwaitingReceipt, Daily!InAnalysis, Daily!PassedBy

(* Three disjoint parts of a finite set count as the set does. *)
LEMMA ThreeParts ==
  ASSUME NEW S, IsFiniteSet(S), NEW A, NEW B, NEW C, S = A \cup B \cup C,
         A \cap B = {}, A \cap C = {}, B \cap C = {}
  PROVE  Cardinality(A) + Cardinality(B) + Cardinality(C) = Cardinality(S)
<1>1. IsFiniteSet(A) /\ IsFiniteSet(B) /\ IsFiniteSet(C) /\ IsFiniteSet(A \cup B)
  <2>1. A \subseteq S /\ B \subseteq S /\ C \subseteq S /\ A \cup B \subseteq S
    OBVIOUS
  <2> QED BY <2>1, FS_Subset
<1>2. /\ Cardinality(A) \in Nat /\ Cardinality(B) \in Nat /\ Cardinality(C) \in Nat
      /\ Cardinality({}) = 0
  BY <1>1, FS_CardinalityType, FS_EmptySet
<1>3. Cardinality(A \cup B) = Cardinality(A) + Cardinality(B) - Cardinality(A \cap B)
  BY <1>1, FS_Union
<1>4. Cardinality((A \cup B) \cup C)
        = Cardinality(A \cup B) + Cardinality(C) - Cardinality((A \cup B) \cap C)
  BY <1>1, FS_Union
<1>5. (A \cup B) \cap C = {}
  OBVIOUS
<1>6. Cardinality(A \cap B) = 0 /\ Cardinality((A \cup B) \cap C) = 0
  BY <1>2, <1>5
<1>7. (A \cup B) \cup C = S
  OBVIOUS
<1> QED BY <1>2, <1>3, <1>4, <1>6, <1>7

LEMMA LabIsTrue == ASSUME DailyInv, LabInv PROVE Daily!LaboratoryMatchesTanks
<1> SUFFICES
      ASSUME NEW m \in Managers, Daily!Complete(m), report[m].settled,
             crossed[report[m].day] = {}
      PROVE  LET f == Daily!FiguresOf(m)
                 at == Daily!End(report[m].day) - 1
                 waiting == Daily!CountRows(report[m].read.samples, LAMBDA s :
                   Daily!PassedBy(s.received, at) /\ ~Daily!PassedBy(s.analysed, at))
             IN f.awaitingReceipt + waiting + f.inAnalysis
                  = Daily!Cardinality({t \in Tanks : f.states[t] = "LABORATORIO"})
  BY DEF Daily!LaboratoryMatchesTanks
<1> DEFINE r == report[m]
           d == r.day
           at == Daily!End(d) - 1
           T == r.read["samples"]
           f == Daily!FiguresOf(m)
           A == {row \in Daily!RowsOf(T) : Daily!AwaitingReceipt(T[row[1]][row[2]], at)}
           W == {row \in Daily!RowsOf(T) : Daily!PassedBy(T[row[1]][row[2]].received, at)
                                          /\ ~Daily!PassedBy(T[row[1]][row[2]].analysed, at)}
           B == {row \in Daily!RowsOf(T) : Daily!InAnalysis(T[row[1]][row[2]], at)}
           Open == {row \in Daily!RowsOf(T) : OpenAtEnd(T[row[1]][row[2]], d)}
           Lab == {t \in Tanks : held[d][t] = "LABORATORIO"}
<1>1. ReportOK(r) /\ r # None
  BY DEF DailyInv, ReportsOK, Daily!Complete
<1>2. d \in Days /\ r.now \in Nat /\ r.now >= Daily!End(d)
  BY <1>1 DEF ReportOK, DailyInv, RowsOK
<1>3. r.read["samples"] # None
  BY DEF Daily!Complete, Daily!Parts
<1>4. \A t \in Tanks : LabTells(T[t], d, held[d][t])
  BY <1>1, <1>3 DEF LabInv, LabReports, LabOfDay
<1>5. Daily!End(d) \in Nat /\ Daily!Start(d) \in Nat
  BY <1>2, EndOfDay DEF DailyInv
<1>6. Daily!ReportAt(d, r.now) = at
  BY <1>2, <1>5 DEF Daily!IsLive, Daily!ReportAt
<1>7. f.awaitingReceipt = Cardinality(A) /\ f.inAnalysis = Cardinality(B)
  <2>1. Daily!FiguresOf(m) = Daily!Figures(d, r.now, r.read, clock)
    BY DEF Daily!FiguresOf
  <2> DEFINE moment == Daily!ReportAt(d, r.now)
  <2>2. /\ f.awaitingReceipt = Daily!CountRows(T, LAMBDA s : Daily!AwaitingReceipt(s, moment))
        /\ f.inAnalysis = Daily!CountRows(T, LAMBDA s : Daily!InAnalysis(s, moment))
    BY <2>1 DEF Daily!Figures
  <2>3. moment = at
    BY <1>6
  <2> HIDE DEF moment, f, T
  <2>4. /\ f.awaitingReceipt = Daily!CountRows(T, LAMBDA s : Daily!AwaitingReceipt(s, at))
        /\ f.inAnalysis = Daily!CountRows(T, LAMBDA s : Daily!InAnalysis(s, at))
    BY <2>2, <2>3
  <2>5. f.awaitingReceipt = Daily!Cardinality(A) /\ f.inAnalysis = Daily!Cardinality(B)
    BY <2>4 DEF Daily!CountRows
  <2> QED BY <2>5, SameTotal
<1>8. Daily!CountRows(r.read.samples, LAMBDA s : Daily!PassedBy(s.received, at)
                                                /\ ~Daily!PassedBy(s.analysed, at))
        = Cardinality(W)
  BY SameTotal DEF Daily!CountRows
<1>9. {t \in Tanks : f.states[t] = "LABORATORIO"} = Lab
  BY SettledIsTrue DEF Daily!PastStatesTrue
<1>10. \A row \in Daily!RowsOf(T) :
         /\ row[1] \in Tanks /\ row[2] \in 1 .. Len(T[row[1]]) /\ row = <<row[1], row[2]>>
         /\ T[row[1]][row[2]] \in SampleRows /\ InOrder(T[row[1]][row[2]])
  <2> SUFFICES ASSUME NEW row \in Daily!RowsOf(T)
      PROVE  /\ row[1] \in Tanks /\ row[2] \in 1 .. Len(T[row[1]]) /\ row = <<row[1], row[2]>>
             /\ T[row[1]][row[2]] \in SampleRows /\ InOrder(T[row[1]][row[2]])
    OBVIOUS
  <2> HIDE DEF T, d
  <2>1. PICK t \in Tanks : \E i \in DOMAIN T[t] : row = <<t, i>>
    BY RowsAre
  <2>2. PICK i \in DOMAIN T[t] : row = <<t, i>>
    BY <2>1
  <2>3. T[t] \in Seq(SampleRows) /\ \A j \in 1 .. Len(T[t]) : InOrder(T[t][j])
    BY <1>4 DEF LabTells
  <2>4. i \in 1 .. Len(T[t]) /\ T[t][i] \in SampleRows
    BY <2>2, <2>3
  <2> QED BY <2>2, <2>3, <2>4
<1> HIDE DEF r, T, f
<1>11. \A row \in Daily!RowsOf(T) :
         /\ row \in Open <=> row \in A \/ row \in W \/ row \in B
         /\ ~(row \in A /\ row \in W) /\ ~(row \in A /\ row \in B) /\ ~(row \in W /\ row \in B)
  <2> SUFFICES ASSUME NEW row \in Daily!RowsOf(T)
      PROVE  /\ row \in Open <=> row \in A \/ row \in W \/ row \in B
             /\ ~(row \in A /\ row \in W) /\ ~(row \in A /\ row \in B) /\ ~(row \in W /\ row \in B)
    OBVIOUS
  <2> DEFINE s == T[row[1]][row[2]]
  <2>1. s \in SampleRows /\ InOrder(s)
    BY <1>10
  <2> HIDE DEF s, d
  <2>2. /\ OpenAtEnd(s, d) <=> \/ Daily!AwaitingReceipt(s, at)
                               \/ Daily!PassedBy(s.received, at) /\ ~Daily!PassedBy(s.analysed, at)
                               \/ Daily!InAnalysis(s, at)
        /\ ~(Daily!AwaitingReceipt(s, at) /\ Daily!PassedBy(s.received, at) /\ ~Daily!PassedBy(s.analysed, at))
        /\ ~(Daily!AwaitingReceipt(s, at) /\ Daily!InAnalysis(s, at))
        /\ ~(Daily!PassedBy(s.received, at) /\ ~Daily!PassedBy(s.analysed, at) /\ Daily!InAnalysis(s, at))
    BY <2>1, <1>2, OnePlaceInLab
  <2> HIDE DEF at
  <2> QED BY <2>2 DEF s
<1>12. /\ Open = A \cup W \cup B
       /\ A \cap W = {} /\ A \cap B = {} /\ W \cap B = {}
  <2>1. A \subseteq Daily!RowsOf(T) /\ W \subseteq Daily!RowsOf(T) /\ B \subseteq Daily!RowsOf(T)
        /\ Open \subseteq Daily!RowsOf(T)
    OBVIOUS
  <2> HIDE DEF A, W, B, Open
  <2> QED BY <2>1, <1>11
<1>13. \A t \in Tanks : t \in Lab <=> \E row \in Open : row[1] = t
  <2> SUFFICES ASSUME NEW t \in Tanks PROVE t \in Lab <=> \E row \in Open : row[1] = t
    OBVIOUS
  <2> HIDE DEF d
  <2>1. /\ T[t] \in Seq(SampleRows)
        /\ t \in Lab <=> \E i \in 1 .. Len(T[t]) : OpenAtEnd(T[t][i], d)
    BY <1>4 DEF LabTells
  <2>2. ASSUME NEW i \in 1 .. Len(T[t]), OpenAtEnd(T[t][i], d) PROVE \E row \in Open : row[1] = t
    <3>1. <<t, i>> \in Daily!RowsOf(T)
      BY <2>1, RowsAre
    <3>2. <<t, i>> \in Open
      BY <2>2, <3>1
    <3> HIDE DEF Open
    <3> QED BY <3>2
  <2>3. ASSUME NEW row \in Open, row[1] = t
        PROVE  \E i \in 1 .. Len(T[t]) : OpenAtEnd(T[t][i], d)
    BY <2>3, <1>10
  <2> HIDE DEF Open, Lab
  <2> QED BY <2>1, <2>2, <2>3
<1>14. \A p, q \in Open : p[1] = q[1] => p = q
  <2> SUFFICES ASSUME NEW p \in Open, NEW q \in Open, p[1] = q[1] PROVE p = q
    OBVIOUS
  <2>1. /\ p[1] \in Tanks /\ p[2] \in 1 .. Len(T[p[1]]) /\ p = <<p[1], p[2]>>
        /\ q[2] \in 1 .. Len(T[p[1]]) /\ q = <<q[1], q[2]>>
        /\ OpenAtEnd(T[p[1]][p[2]], d) /\ OpenAtEnd(T[p[1]][q[2]], d)
    BY <1>10
  <2>2. \A i, j \in 1 .. Len(T[p[1]]) : OpenAtEnd(T[p[1]][i], d) /\ OpenAtEnd(T[p[1]][j], d) => i = j
    BY <2>1, <1>4 DEF LabTells
  <2>3. p[2] = q[2]
    BY <2>1, <2>2
  <2> QED BY <2>1, <2>3
<1>15. \A row \in Open : row[1] \in Lab
  <2>1. \A row \in Open : row[1] \in Tanks
    BY <1>10
  <2> HIDE DEF Open, Lab
  <2> QED BY <2>1, <1>13
<1>16. IsFiniteSet(Lab)
  <2>1. IsFiniteSet(Tanks)
    BY DEF DailyInv, Daily!DailyAssumption, Daily!IsFiniteSet, IsFiniteSet
  <2>2. Lab \subseteq Tanks
    OBVIOUS
  <2> QED BY <2>1, <2>2, FS_Subset
<1> HIDE DEF Open, Lab, A, W, B
<1>17. IsFiniteSet(Open) /\ Cardinality(Open) = Cardinality(Lab)
  <2> DEFINE g == [row \in Open |-> row[1]]
  <2>1. g \in [Open -> Lab] /\ \A row \in Open : g[row] = row[1]
    BY <1>15
  <2>2. \A t \in Lab : \E row \in Open : g[row] = t
    BY <1>13 DEF Lab
  <2>3. \A p, q \in Open : g[p] = g[q] => p = q
    BY <1>14
  <2> HIDE DEF g
  <2>4. g \in Injection(Open, Lab) /\ g \in Surjection(Open, Lab)
    BY <2>1, <2>2, <2>3 DEF Injection, IsInjective, Surjection
  <2> QED BY <2>4, <1>16, FS_Injection
<1>18. Cardinality(A) + Cardinality(W) + Cardinality(B) = Cardinality(Lab)
  BY <1>12, <1>17, ThreeParts
<1> QED BY <1>7, <1>8, <1>9, <1>18, SameTotal DEF r, f, d, at

(* For any finite set of tanks, any days, managers and order of the           *)
(* statements: in the report of a day that was over, whose stamps no          *)
(* operation crossed, the samples that awaited receipt, waited or were being  *)
(* analysed are as many as the tanks that were in LABORATORIO, though rows    *)
(* and tanks were read at different moments (plant.service.ts 2072-2332).     *)
THEOREM LaboratoryAgrees ==
  Daily!DailyAssumption => (Daily!Spec => []Daily!LaboratoryMatchesTanks)
<1> DEFINE Inv == DailyInv /\ LabInv
<1>1. Daily!DailyAssumption /\ Daily!Init => Inv
  BY DailyStart, LabStart
<1>2. Inv /\ [Daily!Next]_(Daily!vars) => Inv'
  BY DailyStep, LabStep
<1>3. Inv => Daily!LaboratoryMatchesTanks
  BY LabIsTrue
<1> QED BY <1>1, <1>2, <1>3, PTL DEF Daily!Spec

-----------------------------------------------------------------------------
(* A closure made of a settled day (DailyManagement, SettledClosureStands).  *)

(* Stamps that a day cannot tell apart fall in it, or before its end, alike. *)
LEMMA SameStamps ==
  ASSUME DailyInv, NEW d \in Days, NEW x \in Nat \cup {None}, NEW y \in Nat \cup {None},
         SameFor(d, x, y)
  PROVE  /\ Daily!PassedBy(x, Daily!End(d) - 1) <=> Daily!PassedBy(y, Daily!End(d) - 1)
         /\ Daily!InDay(d, x) <=> Daily!InDay(d, y)
<1>1. PICK end \in Nat \ {0} : end = Daily!End(d)
  BY EndOfDay DEF DailyInv
<1>2. PICK start \in Nat : start = Daily!Start(d)
  BY EndOfDay DEF DailyInv
<1> QED BY <1>1, <1>2 DEF SameFor, After, Daily!PassedBy, Daily!InDay

LEMMA SameClip ==
  ASSUME DailyInv, NEW d \in Days, NEW p \in PeriodRows, NEW q \in PeriodRows,
         q.started = p.started, SameFor(d, p.ended, q.ended),
         NEW one \in Nat, NEW two \in Nat, one >= Daily!End(d), two >= Daily!End(d)
  PROVE  Daily!ClippedTime(p, d, one) = Daily!ClippedTime(q, d, two)
<1>1. PICK end \in Nat \ {0} : end = Daily!End(d)
  BY EndOfDay DEF DailyInv
<1>2. PICK start \in Nat : start = Daily!Start(d)
  BY EndOfDay DEF DailyInv
<1>3. /\ p.started \in Nat /\ p.ended \in Nat \cup {None} /\ q.ended \in Nat \cup {None}
      /\ None \notin Nat
  BY DEF PeriodRows, DailyInv, Daily!DailyAssumption
<1>4. ASSUME NEW at \in start .. end - 1
      PROVE  at < (IF p.ended = None THEN one ELSE p.ended)
               <=> at < (IF q.ended = None THEN two ELSE q.ended)
  BY <1>1, <1>2, <1>3 DEF SameFor, After
<1> QED BY <1>1, <1>2, <1>4 DEF Daily!ClippedTime

LEMMA LateClip ==
  ASSUME DailyInv, NEW d \in Days, NEW q \in PeriodRows, q.started >= Daily!End(d), NEW now
  PROVE  Daily!ClippedTime(q, d, now) = {}
<1>1. PICK end \in Nat \ {0} : end = Daily!End(d)
  BY EndOfDay DEF DailyInv
<1>2. PICK start \in Nat : start = Daily!Start(d)
  BY EndOfDay DEF DailyInv
<1>3. q.started \in Nat
  BY DEF PeriodRows
<1> QED BY <1>1, <1>2, <1>3 DEF Daily!ClippedTime

(* A set of places that is not empty has a last one.                         *)
LEMMA LastPlace ==
  ASSUME NEW n \in Nat, NEW S, S \subseteq 1 .. n, S # {}
  PROVE  Daily!Max(S) \in S
<1> DEFINE D == {n - i : i \in S}
<1>1. D \subseteq Nat /\ D # {}
  <2>1. \A i \in S : i \in Nat /\ n - i \in Nat
    OBVIOUS
  <2> QED BY <2>1
<1> HIDE DEF D
<1>2. PICK least \in D : \A e \in D : ~ <<e, least>> \in OpToRel(<, Nat)
  BY <1>1, NatLessThanWellFounded, WFMin
<1>3. ASSUME NEW e \in D PROVE least <= e
  <2>1. <<e, least>> \in Nat \X Nat /\ e \in Nat /\ least \in Nat
    BY <1>1
  <2>2. ~ (e < least)
    BY <1>2, <2>1 DEF OpToRel
  <2> QED BY <2>1, <2>2
<1>4. PICK m \in S : least = n - m
  BY DEF D
<1>5. ASSUME NEW i \in S PROVE m >= i
  <2>1. n - i \in D
    BY DEF D
  <2> QED BY <1>3, <1>4, <2>1
<1> QED BY <1>5 DEF Daily!Max

LEMMA SameRebuilt ==
  ASSUME DailyInv, NEW d \in Days, NEW ps \in Seq(PeriodRows), NEW qs \in Seq(PeriodRows),
         PeriodsGrew(ps, qs, d)
  PROVE  Daily!Rebuilt(ps, Daily!End(d) - 1) = Daily!Rebuilt(qs, Daily!End(d) - 1)
<1> DEFINE at == Daily!End(d) - 1
           openOf(rows) == {i \in DOMAIN rows : rows[i].started <= at
                                              /\ ~Daily!PassedBy(rows[i].ended, at)}
<1>1. PICK end \in Nat \ {0} : end = Daily!End(d)
  BY EndOfDay DEF DailyInv
<1>2. /\ Len(ps) \in Nat /\ Len(qs) \in Nat /\ Len(ps) <= Len(qs)
      /\ DOMAIN ps = 1 .. Len(ps) /\ DOMAIN qs = 1 .. Len(qs)
      /\ \A i \in 1 .. Len(ps) : ps[i] \in PeriodRows
      /\ \A i \in 1 .. Len(qs) : qs[i] \in PeriodRows
  BY DEF PeriodsGrew
<1>3. ASSUME NEW i \in DOMAIN ps
      PROVE  /\ i \in DOMAIN qs /\ qs[i].state = ps[i].state
             /\ qs[i].started = ps[i].started
             /\ Daily!PassedBy(ps[i].ended, at) <=> Daily!PassedBy(qs[i].ended, at)
  <2>1. i \in 1 .. Len(qs) /\ ps[i] \in PeriodRows /\ qs[i] \in PeriodRows
    BY <1>2
  <2>2. qs[i].state = ps[i].state /\ qs[i].started = ps[i].started
        /\ SameFor(d, ps[i].ended, qs[i].ended)
    BY <1>2 DEF PeriodsGrew
  <2>3. ps[i].ended \in Nat \cup {None} /\ qs[i].ended \in Nat \cup {None}
    BY <2>1 DEF PeriodRows
  <2>4. Daily!PassedBy(ps[i].ended, at) <=> Daily!PassedBy(qs[i].ended, at)
    BY <2>2, <2>3, SameStamps
  <2> QED BY <2>1, <2>2, <2>4, <1>2
<1>4. ASSUME NEW i \in DOMAIN qs, i \notin DOMAIN ps PROVE i \notin openOf(qs)
  <2>1. i \in Len(ps) + 1 .. Len(qs) /\ qs[i] \in PeriodRows
    BY <1>2, <1>4
  <2>2. qs[i].started >= end /\ qs[i].started \in Nat
    BY <2>1, <1>1 DEF PeriodsGrew, PeriodRows
  <2> QED BY <2>2, <1>1
<1> HIDE DEF at
<1>5. openOf(ps) = openOf(qs)
  BY <1>3, <1>4
<1>6. openOf(qs) # {} => Daily!Max(openOf(qs)) \in DOMAIN ps
  <2> DEFINE S == openOf(qs)
  <2>1. S \subseteq DOMAIN ps
    BY <1>5
  <2> HIDE DEF S, openOf
  <2>3. S # {} => Daily!Max(S) \in S
    <3>1. S \subseteq 1 .. Len(ps) /\ Len(ps) \in Nat
      BY <2>1, <1>2
    <3> QED BY <3>1, LastPlace
  <2> QED BY <2>1, <2>3 DEF S
<1>7. /\ Daily!Rebuilt(ps, at) = IF openOf(ps) = {} THEN "VACIO" ELSE ps[Daily!Max(openOf(ps))].state
      /\ Daily!Rebuilt(qs, at) = IF openOf(qs) = {} THEN "VACIO" ELSE qs[Daily!Max(openOf(qs))].state
  BY DEF Daily!Rebuilt
<1> HIDE DEF openOf
<1> QED BY <1>3, <1>5, <1>6, <1>7 DEF at

PeriodTable(table) == \A t \in Tanks : table[t] \in Seq(PeriodRows)
SampleTable(table) == \A t \in Tanks : table[t] \in Seq(SampleRows)
TablesGrew(table, later, d) == \A t \in Tanks : PeriodsGrew(table[t], later[t], d)
LabTablesGrew(table, later, d) == \A t \in Tanks : SamplesGrew(table[t], later[t], d)

(* A row that a table had, and one it did not have yet. *)
LEMMA RowOfBoth ==
  ASSUME NEW table, NEW later,
         \A t \in Tanks : /\ DOMAIN table[t] = 1 .. Len(table[t]) /\ Len(table[t]) \in Nat
                          /\ DOMAIN later[t] = 1 .. Len(later[t]) /\ Len(later[t]) \in Nat
                          /\ Len(table[t]) <= Len(later[t])
  PROVE  /\ \A row \in Daily!RowsOf(table) :
              row \in Daily!RowsOf(later) /\ row[1] \in Tanks /\ row[2] \in 1 .. Len(table[row[1]])
         /\ \A row \in Daily!RowsOf(later) : row \notin Daily!RowsOf(table) =>
              row[1] \in Tanks /\ row[2] \in Len(table[row[1]]) + 1 .. Len(later[row[1]])
<1>1. ASSUME NEW row \in Daily!RowsOf(table)
      PROVE  row \in Daily!RowsOf(later) /\ row[1] \in Tanks /\ row[2] \in 1 .. Len(table[row[1]])
  <2>1. PICK t \in Tanks : \E i \in DOMAIN table[t] : row = <<t, i>>
    BY RowsAre
  <2>2. PICK i \in DOMAIN table[t] : row = <<t, i>>
    BY <2>1
  <2>3. i \in 1 .. Len(table[t]) /\ i \in DOMAIN later[t]
    BY <2>2
  <2> QED BY <2>2, <2>3, RowsAre
<1>2. ASSUME NEW row \in Daily!RowsOf(later), row \notin Daily!RowsOf(table)
      PROVE  row[1] \in Tanks /\ row[2] \in Len(table[row[1]]) + 1 .. Len(later[row[1]])
  <2>1. PICK t \in Tanks : \E i \in DOMAIN later[t] : row = <<t, i>>
    BY RowsAre
  <2>2. PICK i \in DOMAIN later[t] : row = <<t, i>>
    BY <2>1
  <2>3. i \notin DOMAIN table[t]
    BY <1>2, <2>2, RowsAre
  <2>4. i \in Len(table[t]) + 1 .. Len(later[t])
    BY <2>2, <2>3
  <2> QED BY <2>2, <2>4
<1> QED BY <1>1, <1>2

(* Samples that grew count the same for the day. *)
LEMMA SameCounts ==
  ASSUME DailyInv, NEW d \in Days, NEW one, NEW two, SampleTable(one), SampleTable(two),
         LabTablesGrew(one, two, d)
  PROVE  LET at == Daily!End(d) - 1 IN
         /\ Daily!CountRows(one, LAMBDA s : Daily!AwaitingReceipt(s, at))
              = Daily!CountRows(two, LAMBDA s : Daily!AwaitingReceipt(s, at))
         /\ Daily!CountRows(one, LAMBDA s : Daily!InAnalysis(s, at))
              = Daily!CountRows(two, LAMBDA s : Daily!InAnalysis(s, at))
         /\ Daily!CountRows(one, LAMBDA s : Daily!InDay(d, s.received))
              = Daily!CountRows(two, LAMBDA s : Daily!InDay(d, s.received))
         /\ Daily!CountRows(one, LAMBDA s : Daily!InDay(d, s.resolved))
              = Daily!CountRows(two, LAMBDA s : Daily!InDay(d, s.resolved))
<1> DEFINE at == Daily!End(d) - 1
<1>1. PICK end \in Nat \ {0} : end = Daily!End(d)
  BY EndOfDay DEF DailyInv
<1>2. \A t \in Tanks :
        /\ DOMAIN one[t] = 1 .. Len(one[t]) /\ Len(one[t]) \in Nat
        /\ DOMAIN two[t] = 1 .. Len(two[t]) /\ Len(two[t]) \in Nat
        /\ Len(one[t]) <= Len(two[t])
        /\ \A i \in 1 .. Len(one[t]) : one[t][i] \in SampleRows
        /\ \A i \in 1 .. Len(two[t]) : two[t][i] \in SampleRows
  BY DEF SampleTable, LabTablesGrew, SamplesGrew
<1>3. /\ \A row \in Daily!RowsOf(one) :
           row \in Daily!RowsOf(two) /\ row[1] \in Tanks /\ row[2] \in 1 .. Len(one[row[1]])
      /\ \A row \in Daily!RowsOf(two) : row \notin Daily!RowsOf(one) =>
           row[1] \in Tanks /\ row[2] \in Len(one[row[1]]) + 1 .. Len(two[row[1]])
  BY <1>2, RowOfBoth
<1>4. ASSUME NEW row \in Daily!RowsOf(one)
      PROVE  LET s == one[row[1]][row[2]]
                 u == two[row[1]][row[2]]
             IN
             /\ Daily!AwaitingReceipt(s, at) <=> Daily!AwaitingReceipt(u, at)
             /\ Daily!InAnalysis(s, at) <=> Daily!InAnalysis(u, at)
             /\ Daily!InDay(d, s.received) <=> Daily!InDay(d, u.received)
             /\ Daily!InDay(d, s.resolved) <=> Daily!InDay(d, u.resolved)
  <2> DEFINE s == one[row[1]][row[2]]
             u == two[row[1]][row[2]]
  <2>1. row[1] \in Tanks /\ row[2] \in 1 .. Len(one[row[1]]) /\ row[2] \in 1 .. Len(two[row[1]])
    BY <1>2, <1>3
  <2>2. s \in SampleRows /\ u \in SampleRows
    BY <2>1, <1>2
  <2>3. /\ u.requested = s.requested /\ SameFor(d, s.received, u.received)
        /\ SameFor(d, s.analysed, u.analysed) /\ SameFor(d, s.resolved, u.resolved)
    BY <2>1 DEF LabTablesGrew, SamplesGrew
  <2> HIDE DEF s, u, at
  <2>4. /\ s.received \in Nat \cup {None} /\ u.received \in Nat \cup {None}
        /\ s.analysed \in Nat \cup {None} /\ u.analysed \in Nat \cup {None}
        /\ s.resolved \in Nat \cup {None} /\ u.resolved \in Nat \cup {None}
    BY <2>2 DEF SampleRows
  <2>5. /\ Daily!PassedBy(s.received, at) <=> Daily!PassedBy(u.received, at)
        /\ Daily!PassedBy(s.analysed, at) <=> Daily!PassedBy(u.analysed, at)
        /\ Daily!PassedBy(s.resolved, at) <=> Daily!PassedBy(u.resolved, at)
        /\ Daily!InDay(d, s.received) <=> Daily!InDay(d, u.received)
        /\ Daily!InDay(d, s.resolved) <=> Daily!InDay(d, u.resolved)
    BY <2>3, <2>4, SameStamps DEF at
  <2> QED BY <2>3, <2>5 DEF Daily!AwaitingReceipt, Daily!InAnalysis, s, u
<1>5. ASSUME NEW row \in Daily!RowsOf(two), row \notin Daily!RowsOf(one)
      PROVE  LET u == two[row[1]][row[2]] IN
             /\ ~Daily!AwaitingReceipt(u, at) /\ ~Daily!InAnalysis(u, at)
             /\ ~Daily!InDay(d, u.received) /\ ~Daily!InDay(d, u.resolved)
  <2> DEFINE u == two[row[1]][row[2]]
  <2>1. row[1] \in Tanks /\ row[2] \in Len(one[row[1]]) + 1 .. Len(two[row[1]])
    BY <1>3, <1>5
  <2>2. row[2] \in 1 .. Len(two[row[1]])
    BY <2>1, <1>2
  <2>3. u \in SampleRows
    BY <2>1, <2>2, <1>2
  <2>4. /\ u.requested >= Daily!End(d)
        /\ After(u.received, d) /\ After(u.analysed, d) /\ After(u.resolved, d)
    BY <2>1 DEF LabTablesGrew, SamplesGrew
  <2> HIDE DEF u
  <2>5. /\ u.requested \in Nat /\ u.received \in Nat \cup {None} /\ u.analysed \in Nat \cup {None}
        /\ u.resolved \in Nat \cup {None} /\ None \notin Nat
    BY <2>3 DEF SampleRows, DailyInv, Daily!DailyAssumption
  <2>6. ~Daily!AwaitingReceipt(u, at) /\ ~Daily!InAnalysis(u, at)
    BY <2>4, <2>5, <1>1 DEF After, Daily!AwaitingReceipt, Daily!InAnalysis, Daily!PassedBy
  <2>7. ~Daily!InDay(d, u.received) /\ ~Daily!InDay(d, u.resolved)
    BY <2>4, <2>5, <1>1 DEF After, Daily!InDay
  <2> QED BY <2>6, <2>7 DEF u
<1> HIDE DEF at
<1>6. /\ {row \in Daily!RowsOf(one) : Daily!AwaitingReceipt(one[row[1]][row[2]], at)}
           = {row \in Daily!RowsOf(two) : Daily!AwaitingReceipt(two[row[1]][row[2]], at)}
      /\ {row \in Daily!RowsOf(one) : Daily!InAnalysis(one[row[1]][row[2]], at)}
           = {row \in Daily!RowsOf(two) : Daily!InAnalysis(two[row[1]][row[2]], at)}
      /\ {row \in Daily!RowsOf(one) : Daily!InDay(d, one[row[1]][row[2]].received)}
           = {row \in Daily!RowsOf(two) : Daily!InDay(d, two[row[1]][row[2]].received)}
      /\ {row \in Daily!RowsOf(one) : Daily!InDay(d, one[row[1]][row[2]].resolved)}
           = {row \in Daily!RowsOf(two) : Daily!InDay(d, two[row[1]][row[2]].resolved)}
  BY <1>3, <1>4, <1>5
<1> QED BY <1>6 DEF Daily!CountRows, at

(* And the periods last the same in it. *)
LEMMA SameTimes ==
  ASSUME DailyInv, NEW d \in Days, NEW one, NEW two, PeriodTable(one), PeriodTable(two),
         TablesGrew(one, two, d), NEW state, NEW now1 \in Nat, NEW now2 \in Nat,
         now1 >= Daily!End(d), now2 >= Daily!End(d)
  PROVE  Daily!TimeInState(one, state, d, now1) = Daily!TimeInState(two, state, d, now2)
<1> DEFINE P(table, row) == table[row[1]][row[2]]
           In(table) == {row \in Daily!RowsOf(table) : P(table, row).state = state}
           Instants(table, now) ==
             UNION {{row} \X Daily!ClippedTime(P(table, row), d, now) : row \in In(table)}
<1>2. \A t \in Tanks :
        /\ DOMAIN one[t] = 1 .. Len(one[t]) /\ Len(one[t]) \in Nat
        /\ DOMAIN two[t] = 1 .. Len(two[t]) /\ Len(two[t]) \in Nat
        /\ Len(one[t]) <= Len(two[t])
        /\ \A i \in 1 .. Len(one[t]) : one[t][i] \in PeriodRows
        /\ \A i \in 1 .. Len(two[t]) : two[t][i] \in PeriodRows
  BY DEF PeriodTable, TablesGrew, PeriodsGrew
<1>3. /\ \A row \in Daily!RowsOf(one) :
           row \in Daily!RowsOf(two) /\ row[1] \in Tanks /\ row[2] \in 1 .. Len(one[row[1]])
      /\ \A row \in Daily!RowsOf(two) : row \notin Daily!RowsOf(one) =>
           row[1] \in Tanks /\ row[2] \in Len(one[row[1]]) + 1 .. Len(two[row[1]])
  BY <1>2, RowOfBoth
<1>4. ASSUME NEW row \in Daily!RowsOf(one)
      PROVE  /\ P(one, row).state = P(two, row).state
             /\ Daily!ClippedTime(P(one, row), d, now1) = Daily!ClippedTime(P(two, row), d, now2)
  <2>1. row[1] \in Tanks /\ row[2] \in 1 .. Len(one[row[1]]) /\ row[2] \in 1 .. Len(two[row[1]])
    BY <1>2, <1>3
  <2>2. P(one, row) \in PeriodRows /\ P(two, row) \in PeriodRows
    BY <2>1, <1>2
  <2>3. /\ P(two, row).state = P(one, row).state /\ P(two, row).started = P(one, row).started
        /\ SameFor(d, P(one, row).ended, P(two, row).ended)
    BY <2>1 DEF TablesGrew, PeriodsGrew
  <2> HIDE DEF P
  <2> QED BY <2>2, <2>3, SameClip
<1>5. ASSUME NEW row \in Daily!RowsOf(two), row \notin Daily!RowsOf(one)
      PROVE  Daily!ClippedTime(P(two, row), d, now2) = {}
  <2>1. row[1] \in Tanks /\ row[2] \in Len(one[row[1]]) + 1 .. Len(two[row[1]])
    BY <1>3, <1>5
  <2>2. row[2] \in 1 .. Len(two[row[1]])
    BY <2>1, <1>2
  <2>3. P(two, row) \in PeriodRows /\ P(two, row).started >= Daily!End(d)
    BY <2>1, <2>2, <1>2 DEF TablesGrew, PeriodsGrew
  <2> HIDE DEF P
  <2> QED BY <2>3, LateClip
<1>6. Instants(one, now1) = Instants(two, now2)
  <2> HIDE DEF P
  <2>1. ASSUME NEW x \in Instants(one, now1) PROVE x \in Instants(two, now2)
    <3>1. PICK row \in In(one) : x \in {row} \X Daily!ClippedTime(P(one, row), d, now1)
      BY <2>1
    <3>2. row \in In(two) /\ x \in {row} \X Daily!ClippedTime(P(two, row), d, now2)
      BY <3>1, <1>3, <1>4
    <3> QED BY <3>2
  <2>2. ASSUME NEW x \in Instants(two, now2) PROVE x \in Instants(one, now1)
    <3>1. PICK row \in In(two) : x \in {row} \X Daily!ClippedTime(P(two, row), d, now2)
      BY <2>2
    <3>2. row \in Daily!RowsOf(one)
      BY <3>1, <1>5
    <3>3. row \in In(one) /\ x \in {row} \X Daily!ClippedTime(P(one, row), d, now1)
      BY <3>1, <3>2, <1>4
    <3> QED BY <3>3
  <2> QED BY <2>1, <2>2
<1>7. /\ Daily!TimeInState(one, state, d, now1) = Daily!Cardinality(Instants(one, now1))
      /\ Daily!TimeInState(two, state, d, now2) = Daily!Cardinality(Instants(two, now2))
  BY DEF Daily!TimeInState
<1> HIDE DEF Instants
<1> QED BY <1>6, <1>7

(* So the figures of a day that was over are the same whichever of the two    *)
(* they are computed from, and whenever.                                      *)
LEMMA SameFigures ==
  ASSUME DailyInv, NEW d \in Days, NEW one, NEW two,
         PeriodTable(one.periods), PeriodTable(two.periods),
         SampleTable(one.samples), SampleTable(two.samples),
         TablesGrew(one.periods, two.periods, d), LabTablesGrew(one.samples, two.samples, d),
         NEW now1 \in Nat, NEW now2 \in Nat, NEW later1 \in Nat, NEW later2 \in Nat,
         \A now \in {now1, now2, later1, later2} : now >= Daily!End(d)
  PROVE  Daily!Figures(d, now1, one, later1) = Daily!Figures(d, now2, two, later2)
<1> DEFINE at == Daily!End(d) - 1
<1>1. PICK end \in Nat \ {0} : end = Daily!End(d)
  BY EndOfDay DEF DailyInv
<1>2. \A now \in {now1, now2} : ~Daily!IsLive(d, now) /\ Daily!ReportAt(d, now) = at
  <2> SUFFICES ASSUME NEW now \in {now1, now2}
               PROVE  ~Daily!IsLive(d, now) /\ Daily!ReportAt(d, now) = at
    OBVIOUS
  <2>1. now >= end /\ now \in Nat
    BY <1>1
  <2>2. ~Daily!IsLive(d, now)
    BY <2>1, <1>1 DEF Daily!IsLive
  <2> QED BY <2>2 DEF Daily!ReportAt
<1>3. \A t \in Tanks : Daily!Rebuilt(one.periods[t], at) = Daily!Rebuilt(two.periods[t], at)
  BY SameRebuilt DEF PeriodTable, TablesGrew
<1>4. /\ Daily!CountRows(one.samples, LAMBDA s : Daily!AwaitingReceipt(s, at))
           = Daily!CountRows(two.samples, LAMBDA s : Daily!AwaitingReceipt(s, at))
      /\ Daily!CountRows(one.samples, LAMBDA s : Daily!InAnalysis(s, at))
           = Daily!CountRows(two.samples, LAMBDA s : Daily!InAnalysis(s, at))
      /\ Daily!CountRows(one.samples, LAMBDA s : Daily!InDay(d, s.received))
           = Daily!CountRows(two.samples, LAMBDA s : Daily!InDay(d, s.received))
      /\ Daily!CountRows(one.samples, LAMBDA s : Daily!InDay(d, s.resolved))
           = Daily!CountRows(two.samples, LAMBDA s : Daily!InDay(d, s.resolved))
  BY SameCounts
<1>5. \A s \in Daily!States : Daily!TimeInState(one.periods, s, d, later1)
                              = Daily!TimeInState(two.periods, s, d, later2)
  BY SameTimes
<1> DEFINE Fig(read, moment, later) ==
      [states |-> [t \in Tanks |-> Daily!Rebuilt(read.periods[t], moment)],
       awaitingReceipt |-> Daily!CountRows(read.samples, LAMBDA s : Daily!AwaitingReceipt(s, moment)),
       inAnalysis |-> Daily!CountRows(read.samples, LAMBDA s : Daily!InAnalysis(s, moment)),
       received |-> Daily!CountRows(read.samples, LAMBDA s : Daily!InDay(d, s.received)),
       resolved |-> Daily!CountRows(read.samples, LAMBDA s : Daily!InDay(d, s.resolved)),
       durationByState |-> [s \in Daily!States |-> Daily!TimeInState(read.periods, s, d, later)]]
<1>6. /\ Daily!Figures(d, now1, one, later1) = Fig(one, Daily!ReportAt(d, now1), later1)
      /\ Daily!Figures(d, now2, two, later2) = Fig(two, Daily!ReportAt(d, now2), later2)
  BY <1>2 DEF Daily!Figures
<1>7. Daily!ReportAt(d, now1) = at /\ Daily!ReportAt(d, now2) = at
  BY <1>2
<1> HIDE DEF at
<1>8. Fig(one, at, later1) = Fig(two, at, later2)
  BY <1>3, <1>4, <1>5
<1> HIDE DEF Fig
<1> QED BY <1>6, <1>7, <1>8

LEMMA GrowingOn ==
  ASSUME DailyInv, NEW d \in Days
  PROVE  /\ \A a, b, c \in Seq(PeriodRows) :
              PeriodsGrew(a, b, d) /\ PeriodsGrew(b, c, d) => PeriodsGrew(a, c, d)
         /\ \A a, b, c \in Seq(SampleRows) :
              SamplesGrew(a, b, d) /\ SamplesGrew(b, c, d) => SamplesGrew(a, c, d)
<1>1. \A x, y, z : SameFor(d, x, y) /\ SameFor(d, y, z) => SameFor(d, x, z)
  BY DEF SameFor
<1>2. \A x, y : After(x, d) /\ SameFor(d, x, y) => After(y, d)
  BY DEF SameFor
<1>3. ASSUME NEW a \in Seq(PeriodRows), NEW b \in Seq(PeriodRows), NEW c \in Seq(PeriodRows),
             PeriodsGrew(a, b, d), PeriodsGrew(b, c, d)
      PROVE  PeriodsGrew(a, c, d)
  <2>1. /\ Len(a) \in Nat /\ Len(b) \in Nat /\ Len(c) \in Nat
        /\ Len(a) <= Len(b) /\ Len(b) <= Len(c)
    BY <1>3 DEF PeriodsGrew
  <2>2. /\ \A i \in 1 .. Len(a) : i \in 1 .. Len(b)
        /\ \A i \in Len(a) + 1 .. Len(c) : i \in Len(b) + 1 .. Len(c)
                                        \/ (i \in 1 .. Len(b) /\ i \in Len(a) + 1 .. Len(b))
    BY <2>1
  <2>3. \A i \in 1 .. Len(a) : /\ c[i].state = a[i].state /\ c[i].started = a[i].started
                               /\ SameFor(d, a[i].ended, c[i].ended)
    BY <1>1, <1>3, <2>2 DEF PeriodsGrew
  <2>4. \A i \in Len(a) + 1 .. Len(c) : c[i].started >= Daily!End(d)
    BY <1>3, <2>2 DEF PeriodsGrew
  <2> QED BY <2>1, <2>3, <2>4 DEF PeriodsGrew
<1>4. ASSUME NEW a \in Seq(SampleRows), NEW b \in Seq(SampleRows), NEW c \in Seq(SampleRows),
             SamplesGrew(a, b, d), SamplesGrew(b, c, d)
      PROVE  SamplesGrew(a, c, d)
  <2>1. /\ Len(a) \in Nat /\ Len(b) \in Nat /\ Len(c) \in Nat
        /\ Len(a) <= Len(b) /\ Len(b) <= Len(c)
    BY <1>4 DEF SamplesGrew
  <2>2. /\ \A i \in 1 .. Len(a) : i \in 1 .. Len(b)
        /\ \A i \in Len(a) + 1 .. Len(c) : i \in Len(b) + 1 .. Len(c)
                                        \/ (i \in 1 .. Len(b) /\ i \in Len(a) + 1 .. Len(b))
    BY <2>1
  <2>3. \A i \in 1 .. Len(a) : /\ c[i].requested = a[i].requested
                               /\ SameFor(d, a[i].received, c[i].received)
                               /\ SameFor(d, a[i].analysed, c[i].analysed)
                               /\ SameFor(d, a[i].resolved, c[i].resolved)
    BY <1>1, <1>4, <2>2 DEF SamplesGrew
  <2>4. \A i \in Len(a) + 1 .. Len(c) :
          /\ c[i].requested >= Daily!End(d)
          /\ After(c[i].received, d) /\ After(c[i].analysed, d) /\ After(c[i].resolved, d)
    BY <1>2, <1>4, <2>2 DEF SamplesGrew
  <2> QED BY <2>1, <2>3, <2>4 DEF SamplesGrew
<1> QED BY <1>3, <1>4

(* Once no operation that began in a day or before is in progress, none will  *)
(* be, and what is written belongs to later days.                             *)
LEMMA SettledGrows ==
  ASSUME DailyInv, DailyInv', LabInv, [Daily!Next]_(Daily!vars), NEW d \in Days, Daily!Settled(d)
  PROVE  /\ Daily!Settled(d)'
         /\ TablesGrew(periods, periods', d) /\ LabTablesGrew(samples, samples', d)
<1>1. /\ clock \in Nat /\ Daily!End(d) \in Nat /\ Daily!End(d)' = Daily!End(d)
      /\ clock >= Daily!End(d)
      /\ \A t \in Tanks : operation[t] # None => operation[t].began >= Daily!End(d)
      /\ \A t \in Tanks : Len(periods[t]) \in Nat /\ Len(samples[t]) \in Nat
  BY EndOfDay DEF DailyInv, RowsOK, LabInv, LabRows, SamplesOf, Daily!Settled, Daily!End, Daily!Start
<1>2. TablesGrew(periods, periods, d) /\ LabTablesGrew(samples, samples, d)
  BY <1>1, SameGrows DEF TablesGrew, LabTablesGrew
<1>3. ASSUME UNCHANGED <<clock, periods, samples, operation>>
      PROVE  /\ Daily!Settled(d)'
             /\ TablesGrew(periods, periods', d) /\ LabTablesGrew(samples, samples', d)
  BY <1>1, <1>2, <1>3 DEF Daily!Settled
<1>4. ASSUME NEW t \in Tanks, NEW kind \in Daily!Operations, Daily!BeginOperation(t, kind)
      PROVE  /\ Daily!Settled(d)'
             /\ TablesGrew(periods, periods', d) /\ LabTablesGrew(samples, samples', d)
  <2> DEFINE begun == [kind |-> kind, began |-> clock]
  <2>1. operation' = [operation EXCEPT ![t] = begun] /\ UNCHANGED <<clock, periods, samples>>
    BY <1>4 DEF Daily!BeginOperation, Daily!rows
  <2>2. begun.began = clock
    OBVIOUS
  <2> HIDE DEF begun
  <2>3. \A x \in Tanks : operation'[x] = IF x = t THEN begun ELSE operation[x]
    BY <2>1 DEF DailyInv, OperationsOK
  <2>4. Daily!Settled(d)'
    BY <1>1, <2>1, <2>2, <2>3 DEF Daily!Settled
  <2> QED BY <1>2, <2>1, <2>4
<1>5. ASSUME NEW t \in Tanks, Daily!CommitOperation(t)
      PROVE  /\ Daily!Settled(d)'
             /\ TablesGrew(periods, periods', d) /\ LabTablesGrew(samples, samples', d)
  <2>1. /\ operation[t] # None /\ operation' = [operation EXCEPT ![t] = None]
        /\ clock' = clock
    BY <1>5 DEF Daily!CommitOperation
  <2>2. \A x \in Tanks : operation'[x] = IF x = t THEN None ELSE operation[x]
    BY <2>1 DEF DailyInv, OperationsOK
  <2>3. Daily!Settled(d)'
    BY <1>1, <2>1, <2>2 DEF Daily!Settled
  <2>4. /\ samples' = [samples EXCEPT ![t] = samples'[t]]
        /\ periods' = [periods EXCEPT ![t] = periods'[t]]
    BY <1>5, SamplesBecome, PeriodsBecome
  <2>5. SamplesGrew(samples[t], samples'[t], d) /\ PeriodsGrew(periods[t], periods'[t], d)
    BY <1>1, <1>5, <2>1, CommitGrows
  <2>6. \A x \in Tanks : x # t => samples'[x] = samples[x] /\ periods'[x] = periods[x]
    BY <2>4 DEF DailyInv, RowsOK, LabInv, LabRows
  <2> QED BY <1>2, <2>3, <2>5, <2>6 DEF TablesGrew, LabTablesGrew
<1>6. ASSUME Daily!Tick
      PROVE  /\ Daily!Settled(d)'
             /\ TablesGrew(periods, periods', d) /\ LabTablesGrew(samples, samples', d)
  <2>1. clock' = clock + 1 /\ UNCHANGED <<periods, samples, operation>>
    BY <1>6 DEF Daily!Tick, Daily!rows
  <2> QED BY <1>1, <1>2, <2>1 DEF Daily!Settled
<1>7. ASSUME NEW m \in Managers,
             \/ \E x \in Days : Daily!BeginReport(m, x)
             \/ \E i \in DOMAIN ReadOrder : Daily!ReadPart(m, i)
             \/ Daily!AnswerReport(m) \/ Daily!CheckClosure(m) \/ Daily!CreateClosure(m)
      PROVE  UNCHANGED <<clock, periods, samples, operation>>
  BY <1>7 DEF Daily!BeginReport, Daily!ReadPart, Daily!AnswerReport, Daily!CheckClosure,
    Daily!CreateClosure, Daily!rows
<1>8. ASSUME UNCHANGED Daily!vars PROVE UNCHANGED <<clock, periods, samples, operation>>
  BY <1>8 DEF Daily!vars, Daily!rows
<1> QED BY <1>3, <1>4, <1>5, <1>6, <1>7, <1>8 DEF Daily!Next

LEMMA PresentTables ==
  ASSUME DailyInv, LabInv PROVE PeriodTable(periods) /\ SampleTable(samples)
BY DEF DailyInv, RowsOK, LabInv, LabRows, SamplesOf, PeriodTable, SampleTable

(* The present figures of a settled day no longer change. *)
LEMMA FiguresStay ==
  ASSUME DailyInv, DailyInv', LabInv, LabInv', [Daily!Next]_(Daily!vars),
         NEW d \in Days, Daily!Settled(d)
  PROVE  Daily!PresentFigures(d)' = Daily!PresentFigures(d)
<1> DEFINE one == [part \in Daily!Parts |-> Daily!Present(part)]
           two == one'
<1>1. /\ Daily!Settled(d)' /\ TablesGrew(periods, periods', d)
      /\ LabTablesGrew(samples, samples', d)
  BY SettledGrows
<1>2. /\ PeriodTable(periods) /\ SampleTable(samples)
      /\ PeriodTable(periods') /\ SampleTable(samples')
  <2>1. PeriodTable(periods)' /\ SampleTable(samples)'
    BY DEF DailyInv, RowsOK, LabInv, LabRows, SamplesOf, PeriodTable, SampleTable
  <2> QED BY <2>1, PresentTables DEF PeriodTable, SampleTable, PeriodRows, SampleRows
<1>3. /\ clock \in Nat /\ clock' \in Nat /\ clock >= Daily!End(d) /\ clock' >= Daily!End(d)
  BY <1>1 DEF DailyInv, RowsOK, Daily!Settled, Daily!End, Daily!Start
<1>4. /\ one.periods = periods /\ one.samples = samples
      /\ two.periods = periods' /\ two.samples = samples'
  BY DEF Daily!Parts, Daily!Present
<1>5. /\ Daily!PresentFigures(d) = Daily!Figures(d, clock, one, clock)
      /\ Daily!PresentFigures(d)' = Daily!Figures(d, clock', two, clock')
  BY DEF Daily!PresentFigures, Daily!Figures, Daily!IsLive, Daily!ReportAt, Daily!InDay,
    Daily!AwaitingReceipt, Daily!InAnalysis, Daily!Rebuilt, Daily!CountRows, Daily!TimeInState,
    Daily!RowsOf, Daily!ClippedTime, Daily!PassedBy, Daily!Start, Daily!End
<1> HIDE DEF one, two
<1>6. Daily!Figures(d, clock, one, clock) = Daily!Figures(d, clock', two, clock')
  BY <1>1, <1>2, <1>3, <1>4, SameFigures
<1> QED BY <1>5, <1>6

(* A settled report has read rows that tell its day as the present ones do,   *)
(* and its figures, like a settled closure, are those of the present.         *)
ReadsTell(r) ==
  /\ Daily!Settled(r.day)
  /\ r.read["periods"] # None => PeriodTable(r.read["periods"])
                                 /\ TablesGrew(r.read["periods"], periods, r.day)
  /\ r.read["samples"] # None => SampleTable(r.read["samples"])
                                 /\ LabTablesGrew(r.read["samples"], samples, r.day)
  /\ r.figures # None => r.figures = Daily!PresentFigures(r.day)
ReportsTell == \A m \in Managers : report[m] # None =>
                 (report[m].settled => ReadsTell(report[m]))
ClosuresTell ==
  /\ closure = [d \in Days |-> closure[d]]
  /\ \A d \in Days : closure[d] # None => (closure[d].settled =>
       Daily!Settled(d) /\ closure[d].snapshot = Daily!PresentFigures(d))
ClosureInv == ReportsTell /\ ClosuresTell

(* A report that a step leaves alone. *)
LEMMA ReadsStay ==
  ASSUME DailyInv, DailyInv', LabInv, LabInv', [Daily!Next]_(Daily!vars),
         NEW r, r.day \in Days, ReadsTell(r)
  PROVE  ReadsTell(r)'
<1> DEFINE d == r.day
           ps == r.read["periods"]
           ss == r.read["samples"]
<1>1. /\ Daily!Settled(d) /\ Daily!Settled(d)' /\ TablesGrew(periods, periods', d)
      /\ LabTablesGrew(samples, samples', d)
      /\ Daily!PresentFigures(d)' = Daily!PresentFigures(d)
  BY SettledGrows, FiguresStay DEF ReadsTell
<1>2. PeriodTable(periods) /\ SampleTable(samples) /\ PeriodTable(periods') /\ SampleTable(samples')
  <2>1. PeriodTable(periods)' /\ SampleTable(samples)'
    BY DEF DailyInv, RowsOK, LabInv, LabRows, SamplesOf, PeriodTable, SampleTable
  <2> QED BY <2>1, PresentTables DEF PeriodTable, SampleTable, PeriodRows, SampleRows
<1>3. ASSUME ps # None PROVE PeriodTable(ps) /\ TablesGrew(ps, periods', d)
  <2>1. PeriodTable(ps) /\ TablesGrew(ps, periods, d)
    BY <1>3 DEF ReadsTell
  <2> HIDE DEF ps, d
  <2>2. \A t \in Tanks : PeriodsGrew(ps[t], periods'[t], d)
    <3> SUFFICES ASSUME NEW t \in Tanks PROVE PeriodsGrew(ps[t], periods'[t], d)
      OBVIOUS
    <3>1. /\ ps[t] \in Seq(PeriodRows) /\ periods[t] \in Seq(PeriodRows)
          /\ periods'[t] \in Seq(PeriodRows)
          /\ PeriodsGrew(ps[t], periods[t], d) /\ PeriodsGrew(periods[t], periods'[t], d)
      BY <1>1, <1>2, <2>1 DEF PeriodTable, TablesGrew
    <3>2. d \in Days
      BY DEF d
    <3> QED BY <3>1, <3>2, GrowingOn
  <2> QED BY <2>1, <2>2 DEF TablesGrew
<1>4. ASSUME ss # None PROVE SampleTable(ss) /\ LabTablesGrew(ss, samples', d)
  <2>1. SampleTable(ss) /\ LabTablesGrew(ss, samples, d)
    BY <1>4 DEF ReadsTell
  <2> HIDE DEF ss, d
  <2>2. \A t \in Tanks : SamplesGrew(ss[t], samples'[t], d)
    <3> SUFFICES ASSUME NEW t \in Tanks PROVE SamplesGrew(ss[t], samples'[t], d)
      OBVIOUS
    <3>1. /\ ss[t] \in Seq(SampleRows) /\ samples[t] \in Seq(SampleRows)
          /\ samples'[t] \in Seq(SampleRows)
          /\ SamplesGrew(ss[t], samples[t], d) /\ SamplesGrew(samples[t], samples'[t], d)
      BY <1>1, <1>2, <2>1 DEF SampleTable, LabTablesGrew
    <3>2. d \in Days
      BY DEF d
    <3> QED BY <3>1, <3>2, GrowingOn
  <2> QED BY <2>1, <2>2 DEF LabTablesGrew
<1>5. r.figures # None => r.figures = Daily!PresentFigures(d)'
  BY <1>1 DEF ReadsTell
<1>6. /\ ps # None => PeriodTable(ps)' /\ TablesGrew(ps, periods, d)'
      /\ ss # None => SampleTable(ss)' /\ LabTablesGrew(ss, samples, d)'
  BY <1>3, <1>4 DEF PeriodTable, SampleTable, TablesGrew, LabTablesGrew, PeriodRows, SampleRows,
    PeriodsGrew, SamplesGrew, SameFor, After, Daily!End, Daily!Start
<1> QED BY <1>1, <1>5, <1>6 DEF ReadsTell

(* All reports and closures but those a step writes. *)
LEMMA OthersStay ==
  ASSUME DailyInv, DailyInv', LabInv, LabInv', ClosureInv, [Daily!Next]_(Daily!vars)
  PROVE  /\ \A m \in Managers : report'[m] = report[m] /\ report[m] # None /\ report[m].settled
              => ReadsTell(report[m])'
         /\ \A d \in Days : closure'[d] = closure[d] /\ closure[d] # None /\ closure[d].settled
              => Daily!Settled(d)' /\ closure[d].snapshot = Daily!PresentFigures(d)'
<1>1. ASSUME NEW m \in Managers, report'[m] = report[m], report[m] # None, report[m].settled
      PROVE  ReadsTell(report[m])'
  <2>1. PICK r : r = report[m]
    OBVIOUS
  <2>2. r.day \in Days /\ ReadsTell(r)
    <3>1. ReportOK(report[m]) /\ ReadsTell(report[m])
      BY <1>1 DEF DailyInv, ReportsOK, ClosureInv, ReportsTell
    <3> QED BY <3>1, <2>1 DEF ReportOK
  <2>3. ReadsTell(r)'
    BY <2>2, ReadsStay
  <2>4. report'[m] = r
    BY <1>1, <2>1
  <2> QED BY <2>3, <2>4 DEF ReadsTell
<1>2. ASSUME NEW d \in Days, closure'[d] = closure[d], closure[d] # None, closure[d].settled
      PROVE  Daily!Settled(d)' /\ closure[d].snapshot = Daily!PresentFigures(d)'
  <2>1. Daily!Settled(d) /\ closure[d].snapshot = Daily!PresentFigures(d)
    BY <1>2 DEF ClosureInv, ClosuresTell
  <2> QED BY <2>1, SettledGrows, FiguresStay
<1> QED BY <1>1, <1>2

(* A step that writes neither. *)
LEMMA NothingWritten ==
  ASSUME DailyInv, DailyInv', LabInv, LabInv', ClosureInv, [Daily!Next]_(Daily!vars),
         UNCHANGED <<report, closure>>
  PROVE  ClosureInv'
<1>1. ReportsTell'
  BY OthersStay DEF ReportsTell
<1>2. ClosuresTell'
  BY OthersStay DEF ClosuresTell, ClosureInv
<1> QED BY <1>1, <1>2 DEF ClosureInv

(* A step that writes the report of a manager. *)
LEMMA ReportWritten ==
  ASSUME DailyInv, DailyInv', LabInv, LabInv', ClosureInv, [Daily!Next]_(Daily!vars),
         NEW m \in Managers, NEW r, report' = [report EXCEPT ![m] = r],
         r # None => (r.settled => ReadsTell(r)'), closure' = closure
  PROVE  ClosureInv'
<1>1. ASSUME NEW x \in Managers, report'[x] # None, report'[x].settled
      PROVE  ReadsTell(report[x])'
  <2>1. report'[x] = IF x = m THEN r ELSE report[x]
    BY DEF DailyInv, ReportsOK
  <2>2. CASE x = m
    BY <1>1, <2>1, <2>2 DEF ReadsTell
  <2>3. CASE x # m
    BY <1>1, <2>1, <2>3, OthersStay
  <2> QED BY <2>2, <2>3
<1>2. ReportsTell'
  BY <1>1 DEF ReportsTell
<1>3. ClosuresTell'
  BY OthersStay DEF ClosuresTell, ClosureInv
<1> QED BY <1>2, <1>3 DEF ClosureInv

LEMMA TellsFromStart ==
  ASSUME DailyInv, DailyInv', LabInv, LabInv', ClosureInv, NEW m \in Managers, NEW d \in Days,
         Daily!BeginReport(m, d), [Daily!Next]_(Daily!vars)
  PROVE  ClosureInv'
<1> DEFINE r == [day |-> d, now |-> clock, settled |-> Daily!Settled(d),
                 read |-> [part \in Daily!Parts |-> None], figures |-> None]
<1>1. report' = [report EXCEPT ![m] = r] /\ closure' = closure
      /\ UNCHANGED <<clock, operation>>
  BY DEF Daily!BeginReport, Daily!rows, Daily!ghosts
<1>2. /\ r.day = d /\ r.settled = Daily!Settled(d) /\ r.figures = None
      /\ r.read["periods"] = None /\ r.read["samples"] = None
  BY DEF Daily!Parts
<1>3. PICK q : q = r
  OBVIOUS
<1>4. Daily!Settled(d)' <=> Daily!Settled(d)
  BY <1>1 DEF Daily!Settled, Daily!End, Daily!Start
<1> HIDE DEF r
<1>5. q.settled => ReadsTell(q)'
  BY <1>2, <1>3, <1>4 DEF ReadsTell
<1> QED BY <1>1, <1>3, <1>5, ReportWritten

LEMMA TellsReading ==
  ASSUME DailyInv, DailyInv', LabInv, LabInv', ClosureInv, NEW m \in Managers,
         NEW i \in DOMAIN ReadOrder, Daily!ReadPart(m, i), [Daily!Next]_(Daily!vars)
  PROVE  ClosureInv'
<1>0. PICK q : q = report[m]
  OBVIOUS
<1> DEFINE part == ReadOrder[i]
           read == [q.read EXCEPT ![part] = Daily!Present(part)]
           r == [q EXCEPT !.read = read]
<1>1. report' = [report EXCEPT ![m] = r] /\ q # None
      /\ UNCHANGED <<clock, operation, periods, samples, closure>>
  BY <1>0 DEF Daily!ReadPart, Daily!rows, Daily!ghosts
<1>2. ReportOK(q)
  BY <1>0, <1>1 DEF DailyInv, ReportsOK
<1>3. /\ part \in Daily!Parts /\ (part = "samples" => Daily!Present(part) = samples)
      /\ part = "periods" => Daily!Present(part) = periods
  BY DEF DailyInv, Daily!DailyAssumption, Daily!Parts, Daily!Present
<1>4. q = [day |-> q.day, now |-> q.now, settled |-> q.settled, read |-> q.read,
           figures |-> q.figures]
  BY <1>2 DEF ReportOK
<1>5. q.read = [x \in Daily!Parts |-> q.read[x]] /\ "samples" \in Daily!Parts
      /\ "periods" \in Daily!Parts
  BY <1>2 DEF ReportOK, Daily!Parts
<1>6. /\ read["samples"] = IF part = "samples" THEN samples ELSE q.read["samples"]
      /\ read["periods"] = IF part = "periods" THEN periods ELSE q.read["periods"]
  <2> HIDE DEF part
  <2> QED BY <1>3, <1>5
<1>7. r.day = q.day /\ r.settled = q.settled /\ r.read = read /\ r.figures = q.figures
  <2> HIDE DEF read
  <2> QED BY <1>4
<1>8. PICK new : new = r
  OBVIOUS
<1> HIDE DEF part, read, r
<1>9. ASSUME q.settled PROVE ReadsTell(new)
  <2>1. ReadsTell(q) /\ q.day \in Days
    <3>1. ReadsTell(report[m])
      BY <1>0, <1>1, <1>9 DEF ClosureInv, ReportsTell
    <3> QED BY <3>1, <1>0, <1>2 DEF ReportOK
  <2>2. /\ PeriodTable(periods) /\ SampleTable(samples)
        /\ TablesGrew(periods, periods, q.day) /\ LabTablesGrew(samples, samples, q.day)
    <3>1. \A t \in Tanks : Len(periods[t]) \in Nat /\ Len(samples[t]) \in Nat
      BY PresentTables DEF PeriodTable, SampleTable
    <3> QED BY <3>1, PresentTables, SameGrows DEF TablesGrew, LabTablesGrew
  <2>3. /\ new.day = q.day /\ new.figures = q.figures
        /\ new.read["samples"] = IF part = "samples" THEN samples ELSE q.read["samples"]
        /\ new.read["periods"] = IF part = "periods" THEN periods ELSE q.read["periods"]
    BY <1>6, <1>7, <1>8
  <2> QED BY <2>1, <2>2, <2>3 DEF ReadsTell
<1>10. new.settled => ReadsTell(new)'
  <2>1. new.settled => new.day \in Days
    BY <1>2, <1>7, <1>8 DEF ReportOK
  <2> QED BY <1>7, <1>8, <1>9, <2>1, ReadsStay
<1> QED BY <1>1, <1>8, <1>10, ReportWritten

(* The figures of a complete settled report are the present ones. *)
LEMMA FiguresArePresent ==
  ASSUME DailyInv, LabInv, ClosureInv, NEW m \in Managers, Daily!Complete(m), report[m].settled
  PROVE  Daily!FiguresOf(m) = Daily!PresentFigures(report[m].day)
<1> DEFINE r == report[m]
           d == r.day
           two == [part \in Daily!Parts |-> Daily!Present(part)]
<1>1. r # None /\ ReportOK(r) /\ ReadsTell(r)
  BY DEF Daily!Complete, DailyInv, ReportsOK, ClosureInv, ReportsTell
<1>2. d \in Days /\ r.now \in Nat /\ clock \in Nat /\ r.now >= Daily!End(d) /\ clock >= Daily!End(d)
  BY <1>1 DEF ReportOK, ReadsTell, Daily!Settled, DailyInv, RowsOK
<1>3. /\ r.read["periods"] # None /\ r.read["samples"] # None
  BY DEF Daily!Complete, Daily!Parts
<1>4. /\ PeriodTable(r.read.periods) /\ TablesGrew(r.read.periods, periods, d)
      /\ SampleTable(r.read.samples) /\ LabTablesGrew(r.read.samples, samples, d)
  BY <1>1, <1>3 DEF ReadsTell
<1>5. two.periods = periods /\ two.samples = samples
  BY DEF Daily!Parts, Daily!Present
<1>6. PeriodTable(periods) /\ SampleTable(samples)
  BY PresentTables
<1>7. /\ Daily!FiguresOf(m) = Daily!Figures(d, r.now, r.read, clock)
      /\ Daily!PresentFigures(d) = Daily!Figures(d, clock, two, clock)
  BY DEF Daily!FiguresOf, Daily!PresentFigures
<1> HIDE DEF r, d, two
<1>8. Daily!Figures(d, r.now, r.read, clock) = Daily!Figures(d, clock, two, clock)
  BY <1>2, <1>4, <1>5, <1>6, SameFigures
<1> QED BY <1>7, <1>8 DEF r, d

LEMMA TellsEnding ==
  ASSUME DailyInv, DailyInv', LabInv, LabInv', ClosureInv, NEW m \in Managers,
         Daily!AnswerReport(m) \/ Daily!CheckClosure(m), [Daily!Next]_(Daily!vars)
  PROVE  ClosureInv'
<1>0. PICK q : q = report[m]
  OBVIOUS
<1> DEFINE r == [q EXCEPT !.figures = Daily!FiguresOf(m)]
<1>1. /\ q # None /\ Daily!Complete(m) /\ closure' = closure
      /\ report' = [report EXCEPT ![m] = None] \/ report' = [report EXCEPT ![m] = r]
  BY <1>0 DEF Daily!AnswerReport, Daily!CheckClosure, Daily!Complete
<1>2. CASE report' = [report EXCEPT ![m] = None]
  BY <1>1, <1>2, ReportWritten
<1>3. CASE report' = [report EXCEPT ![m] = r]
  <2>1. ReportOK(q)
    BY <1>0, <1>1 DEF DailyInv, ReportsOK
  <2>2. q = [day |-> q.day, now |-> q.now, settled |-> q.settled, read |-> q.read,
             figures |-> q.figures]
    BY <2>1 DEF ReportOK
  <2>3. PICK new : new = r
    OBVIOUS
  <2>4. new.day = q.day /\ new.settled = q.settled /\ new.read = q.read
        /\ new.figures = Daily!FiguresOf(m)
    <3> DEFINE f == Daily!FiguresOf(m)
    <3>1. new = [q EXCEPT !.figures = f]
      BY <2>3
    <3> HIDE DEF f, r
    <3>2. new.day = q.day /\ new.settled = q.settled /\ new.read = q.read /\ new.figures = f
      BY <3>1, <2>2
    <3> QED BY <3>2 DEF f
  <2>5. ASSUME q.settled PROVE ReadsTell(new)
    <3>1. ReadsTell(q)
      <4>1. ReadsTell(report[m])
        BY <1>0, <1>1, <2>5 DEF ClosureInv, ReportsTell
      <4> QED BY <4>1, <1>0
    <3>2. Daily!FiguresOf(m) = Daily!PresentFigures(q.day)
      BY <1>0, <1>1, <2>5, FiguresArePresent
    <3> HIDE DEF r
    <3> QED BY <3>1, <3>2, <2>4 DEF ReadsTell
  <2> HIDE DEF r
  <2>6. new.settled => ReadsTell(new)'
    <3>1. new.day \in Days
      BY <2>1, <2>4 DEF ReportOK
    <3> QED BY <2>4, <2>5, <3>1, ReadsStay
  <2> QED BY <1>1, <1>3, <2>3, <2>6, ReportWritten
<1> QED BY <1>1, <1>2, <1>3

LEMMA TellsClosing ==
  ASSUME DailyInv, DailyInv', LabInv, LabInv', ClosureInv, NEW m \in Managers,
         Daily!CreateClosure(m), [Daily!Next]_(Daily!vars)
  PROVE  ClosureInv'
<1>0. PICK q : q = report[m]
  OBVIOUS
<1> DEFINE made == [snapshot |-> q.figures, settled |-> q.settled]
<1>1. /\ q # None /\ q.figures # None
      /\ closure' = [closure EXCEPT ![q.day] = made]
      /\ report' = [report EXCEPT ![m] = None]
      /\ UNCHANGED <<clock, periods, samples, operation>>
  BY <1>0 DEF Daily!CreateClosure, Daily!Complete, Daily!rows, Daily!ghosts
<1>2. q.day \in Days
  BY <1>0, <1>1 DEF DailyInv, ReportsOK, ReportOK
<1>3. made.snapshot = q.figures /\ made.settled = q.settled
  OBVIOUS
<1> HIDE DEF made
<1>4. ASSUME NEW d \in Days, closure'[d] # None, closure'[d].settled
      PROVE  Daily!Settled(d)' /\ closure'[d].snapshot = Daily!PresentFigures(d)'
  <2>1. closure'[d] = IF d = q.day THEN made ELSE closure[d]
    BY <1>1 DEF ClosureInv, ClosuresTell
  <2>2. CASE d # q.day
    BY <1>4, <2>1, <2>2, OthersStay
  <2>3. CASE d = q.day
    <3>1. q.settled
      BY <1>3, <1>4, <2>1, <2>3
    <3>2. ReadsTell(q)
      <4>1. ReadsTell(report[m])
        BY <1>0, <1>1, <3>1 DEF ClosureInv, ReportsTell
      <4> QED BY <4>1, <1>0
    <3>3. Daily!Settled(d) /\ made.snapshot = Daily!PresentFigures(d)
      BY <3>2, <2>3, <1>1, <1>3 DEF ReadsTell
    <3> QED BY <3>3, <2>1, <2>3, SettledGrows, FiguresStay
  <2> QED BY <2>2, <2>3
<1>5. ClosuresTell'
  <2>1. closure' = [d \in Days |-> closure'[d]]
    BY <1>1 DEF ClosureInv, ClosuresTell
  <2> QED BY <1>4, <2>1 DEF ClosuresTell
<1>6. ReportsTell'
  <2>1. ASSUME NEW x \in Managers, report'[x] # None, report'[x].settled PROVE ReadsTell(report[x])'
    <3>1. report'[x] = IF x = m THEN None ELSE report[x]
      BY <1>1 DEF DailyInv, ReportsOK
    <3> QED BY <2>1, <3>1, OthersStay
  <2> QED BY <2>1 DEF ReportsTell
<1> QED BY <1>5, <1>6 DEF ClosureInv

LEMMA ClosureStep ==
  DailyInv /\ DailyInv' /\ LabInv /\ LabInv' /\ ClosureInv /\ [Daily!Next]_(Daily!vars)
    => ClosureInv'
<1> SUFFICES ASSUME DailyInv, DailyInv', LabInv, LabInv', ClosureInv, [Daily!Next]_(Daily!vars)
             PROVE  ClosureInv'
  OBVIOUS
<1>1. CASE \/ \E t \in Tanks : \/ \E kind \in Daily!Operations : Daily!BeginOperation(t, kind)
                              \/ Daily!CommitOperation(t)
           \/ Daily!Tick \/ UNCHANGED Daily!vars
  <2>1. UNCHANGED <<report, closure>>
    BY <1>1 DEF Daily!BeginOperation, Daily!CommitOperation, Daily!Tick, Daily!vars
  <2> QED BY <2>1, NothingWritten
<1>2. ASSUME NEW m \in Managers, NEW d \in Days, Daily!BeginReport(m, d) PROVE ClosureInv'
  BY <1>2, TellsFromStart
<1>3. ASSUME NEW m \in Managers, NEW i \in DOMAIN ReadOrder, Daily!ReadPart(m, i)
      PROVE  ClosureInv'
  BY <1>3, TellsReading
<1>4. ASSUME NEW m \in Managers, Daily!AnswerReport(m) \/ Daily!CheckClosure(m) PROVE ClosureInv'
  BY <1>4, TellsEnding
<1>5. ASSUME NEW m \in Managers, Daily!CreateClosure(m) PROVE ClosureInv'
  BY <1>5, TellsClosing
<1> QED BY <1>1, <1>2, <1>3, <1>4, <1>5 DEF Daily!Next

(* For any finite set of tanks, any days, managers and order of the           *)
(* statements: a closure made once its day was over and the operations begun  *)
(* in it committed has the figures that the report of the day has whenever it *)
(* is made again - the states, the counts of the laboratory and the time in   *)
(* each state - whatever operations commit later, and between the statements  *)
(* of the report it was made from (dailyManagement and closeDay).             *)
THEOREM SettledClosuresStand ==
  Daily!DailyAssumption => (Daily!Spec => []Daily!SettledClosureStands)
<1> DEFINE Inv == DailyInv /\ LabInv /\ ClosureInv
<1>1. Daily!DailyAssumption /\ Daily!Init => Inv
  <2>1. Daily!Init => ClosureInv
    BY DEF Daily!Init, ClosureInv, ReportsTell, ClosuresTell
  <2> QED BY <2>1, DailyStart, LabStart
<1>2. Inv /\ [Daily!Next]_(Daily!vars) => Inv'
  BY DailyStep, LabStep, ClosureStep
<1>3. Inv => Daily!SettledClosureStands
  BY DEF ClosureInv, ClosuresTell, Daily!SettledClosureStands
<1> QED BY <1>1, <1>2, <1>3, PTL DEF Daily!Spec

-----------------------------------------------------------------------------
(* The targets of the stages and the settings of a company (StageTargets).    *)

CONSTANTS Stages, Editable, Minutes, DefaultTarget, Admins, Values, MaxElapsed
VARIABLES plantSettings, companySettings, edit, form, audit, period, saved

Settings == INSTANCE StageTargets

TargetsOfStages == [Editable -> Nat]
(* The columns: a plant has its targets under one key only, a company under   *)
(* the other.                                                                 *)
ColumnOK(c) == c = [stageTargets |-> c.stageTargets, plantStageTargets |-> c.plantStageTargets,
                    others |-> c.others]
PlantColumn(c) ==
  ColumnOK(c) /\ c.stageTargets \in TargetsOfStages /\ c.plantStageTargets = None
CompanyColumn(c) == ColumnOK(c) /\ c.stageTargets = None
(* What a request read, and the form it will save. *)
EditOK(a) ==
  /\ edit[a] = [kind |-> edit[a].kind, read |-> edit[a].read, after |-> edit[a].after]
  /\ IF edit[a].kind = "plant targets" THEN PlantColumn(edit[a].read)
     ELSE CompanyColumn(edit[a].read)
  /\ edit[a].kind # "settings" => form[a] # None
AdminsOK ==
  /\ edit = [a \in Admins |-> edit[a]] /\ form = [a \in Admins |-> form[a]]
  /\ \A a \in Admins : /\ edit[a] = None \/ EditOK(a)
                       /\ form[a] \in TargetsOfStages \cup {None}
PeriodOK ==
  /\ period = [stage |-> period.stage, target |-> period.target,
               elapsed |-> period.elapsed, promised |-> period.promised]
  /\ period.stage \in Stages /\ period.target \in Nat /\ period.elapsed \in Nat
SettingsInv ==
  /\ Settings!TargetsAssumption
  /\ PlantColumn(plantSettings) /\ CompanyColumn(companySettings)
  /\ AdminsOK /\ PeriodOK
  /\ saved # None => saved = plantSettings.stageTargets

(* The minutes of a stage are a number, and a form is never empty. *)
LEMMA MinutesAreNumbers ==
  ASSUME SettingsInv
  PROVE  /\ None \notin TargetsOfStages
         /\ Settings!Shown = plantSettings.stageTargets
         /\ [s \in Editable |-> Settings!Configured(Settings!Shown, s)] \in TargetsOfStages
         /\ \A s \in Stages : Settings!TargetSeconds(s) \in Nat
<1>1. None \notin TargetsOfStages
  BY DEF SettingsInv, Settings!TargetsAssumption, TargetsOfStages
<1>2. Settings!Shown = plantSettings.stageTargets
  BY <1>1 DEF Settings!Shown, SettingsInv, PlantColumn
<1>3. ASSUME NEW s \in Editable PROVE Settings!Configured(Settings!Shown, s) \in Nat
  BY <1>1, <1>2 DEF Settings!Configured, SettingsInv, PlantColumn, TargetsOfStages
<1>4. ASSUME NEW s \in Stages PROVE Settings!TargetSeconds(s) \in Nat
  BY DEF Settings!TargetSeconds, Settings!Configured, SettingsInv, PlantColumn,
    Settings!TargetsAssumption
<1> QED BY <1>1, <1>2, <1>3, <1>4 DEF TargetsOfStages

(* A step of one administrator, for what it leaves alone. *)
OneAdminActs(a) ==
  /\ UNCHANGED period
  /\ edit' = [edit EXCEPT ![a] = edit'[a]] /\ form' = [form EXCEPT ![a] = form'[a]]
  /\ edit'[a] = None \/ EditOK(a)'
  /\ form'[a] \in TargetsOfStages \cup {None}
LEMMA AdminKeeps ==
  ASSUME SettingsInv, NEW a \in Admins, OneAdminActs(a)
  PROVE  AdminsOK' /\ PeriodOK'
<1>1. /\ edit' = [x \in Admins |-> edit'[x]] /\ form' = [x \in Admins |-> form'[x]]
      /\ \A x \in Admins \ {a} : edit'[x] = edit[x] /\ form'[x] = form[x]
  BY DEF OneAdminActs, SettingsInv, AdminsOK
<1>2. ASSUME NEW x \in Admins
      PROVE  (edit[x] = None \/ EditOK(x))' /\ form'[x] \in TargetsOfStages \cup {None}
  <2>1. CASE x = a
    BY <2>1 DEF OneAdminActs
  <2>2. CASE x # a
    <3>1. edit[x] = None \/ EditOK(x)
      BY DEF SettingsInv, AdminsOK
    <3>2. EditOK(x) => EditOK(x)'
      BY <1>1, <2>2 DEF EditOK
    <3> QED BY <1>1, <2>2, <3>1, <3>2 DEF SettingsInv, AdminsOK
  <2> QED BY <2>1, <2>2
<1> QED BY <1>1, <1>2 DEF AdminsOK, OneAdminActs, SettingsInv, PeriodOK

(* What a request writes into the column it read. *)
LEMMA ColumnWritten ==
  ASSUME NEW c, ColumnOK(c), NEW v
  PROVE  /\ [c EXCEPT !.stageTargets = v] = [stageTargets |-> v,
              plantStageTargets |-> c.plantStageTargets, others |-> c.others]
         /\ [c EXCEPT !.plantStageTargets = v] = [stageTargets |-> c.stageTargets,
              plantStageTargets |-> v, others |-> c.others]
         /\ [c EXCEPT !.others = v] = [stageTargets |-> c.stageTargets,
              plantStageTargets |-> c.plantStageTargets, others |-> v]
BY DEF ColumnOK

LEMMA FormKeeps ==
  ASSUME SettingsInv, NEW a \in Admins,
         Settings!OpenForm(a) \/ \E s \in Editable, n \in Minutes : Settings!EnterMinutes(a, s, n)
  PROVE  SettingsInv'
<1>1. /\ edit[a] = None /\ edit' = edit
      /\ UNCHANGED <<plantSettings, companySettings, period, saved>>
      /\ form' = [form EXCEPT ![a] = form'[a]] /\ form'[a] \in TargetsOfStages
  <2>1. CASE Settings!OpenForm(a)
    BY <2>1, MinutesAreNumbers DEF Settings!OpenForm, Settings!settings, SettingsInv, AdminsOK
  <2>2. ASSUME NEW s \in Editable, NEW n \in Minutes, Settings!EnterMinutes(a, s, n)
        PROVE  /\ edit[a] = None /\ edit' = edit
               /\ UNCHANGED <<plantSettings, companySettings, period, saved>>
               /\ form' = [form EXCEPT ![a] = form'[a]] /\ form'[a] \in TargetsOfStages
    <3>1. form[a] \in TargetsOfStages /\ n \in Nat
      BY <2>2 DEF Settings!EnterMinutes, SettingsInv, AdminsOK, Settings!TargetsAssumption
    <3>2. form' = [form EXCEPT ![a] = [form[a] EXCEPT ![s] = n]]
      BY <2>2 DEF Settings!EnterMinutes
    <3>3. [form[a] EXCEPT ![s] = n] \in TargetsOfStages
      BY <3>1 DEF TargetsOfStages
    <3>4. form'[a] = [form[a] EXCEPT ![s] = n]
      BY <3>2 DEF SettingsInv, AdminsOK
    <3> QED BY <2>2, <3>2, <3>3, <3>4 DEF Settings!EnterMinutes, Settings!settings
  <2> QED BY <2>1, <2>2
<1>2. OneAdminActs(a)
  BY <1>1 DEF OneAdminActs, SettingsInv, AdminsOK
<1>3. AdminsOK' /\ PeriodOK'
  BY <1>2, AdminKeeps
<1> QED BY <1>1, <1>3 DEF SettingsInv, Settings!TargetsAssumption

LEMMA BeginEditKeeps ==
  ASSUME SettingsInv, NEW a \in Admins, NEW kind \in Settings!Kinds, Settings!BeginEdit(a, kind)
  PROVE  SettingsInv'
<1> DEFINE read == IF kind = "plant targets" THEN plantSettings ELSE companySettings
           begun == [kind |-> kind, read |-> read, after |-> None]
<1>1. /\ edit' = [edit EXCEPT ![a] = begun] /\ (kind # "settings" => form[a] # None)
      /\ UNCHANGED <<plantSettings, companySettings, form, period, saved>>
  BY DEF Settings!BeginEdit, Settings!settings
<1>2. IF kind = "plant targets" THEN PlantColumn(read) ELSE CompanyColumn(read)
  BY DEF SettingsInv
<1>3. begun.kind = kind /\ begun.read = read
      /\ begun = [kind |-> begun.kind, read |-> begun.read, after |-> begun.after]
  OBVIOUS
<1> HIDE DEF begun, read
<1>4. edit'[a] = begun
  BY <1>1 DEF SettingsInv, AdminsOK
<1>5. EditOK(a)'
  BY <1>1, <1>2, <1>3, <1>4 DEF EditOK, PlantColumn, CompanyColumn, ColumnOK
<1>6. OneAdminActs(a)
  BY <1>1, <1>4, <1>5 DEF OneAdminActs, SettingsInv, AdminsOK
<1>7. AdminsOK' /\ PeriodOK'
  BY <1>6, AdminKeeps
<1> QED BY <1>1, <1>7 DEF SettingsInv, Settings!TargetsAssumption

LEMMA WriteTargetsKeeps ==
  ASSUME SettingsInv, NEW a \in Admins,
         Settings!WritePlantTargets(a) \/ Settings!WriteCompanyTargets(a)
  PROVE  SettingsInv'
<1> DEFINE read == edit[a].read
<1>1. /\ edit' = [edit EXCEPT ![a] = None] /\ form' = [form EXCEPT ![a] = None]
      /\ period' = period /\ edit[a] # None
  BY DEF Settings!WritePlantTargets, Settings!WriteCompanyTargets
<1>2. OneAdminActs(a)
  BY <1>1 DEF OneAdminActs, SettingsInv, AdminsOK
<1>3. AdminsOK' /\ PeriodOK'
  BY <1>2, AdminKeeps
<1>4. EditOK(a) /\ ColumnOK(read)
  BY <1>1 DEF SettingsInv, AdminsOK, EditOK, PlantColumn, CompanyColumn
<1>5. CASE Settings!WritePlantTargets(a)
  <2>1. edit[a].kind = "plant targets" /\ PlantColumn(read) /\ form[a] \in TargetsOfStages
    BY <1>4, <1>5 DEF Settings!WritePlantTargets, EditOK, SettingsInv, AdminsOK
  <2> DEFINE new == [stageTargets |-> form[a], plantStageTargets |-> read.plantStageTargets,
                     others |-> read.others]
  <2>2. plantSettings' = new /\ saved' = form[a] /\ companySettings' = companySettings
    BY <1>4, <1>5, ColumnWritten DEF Settings!WritePlantTargets, Settings!WithTargets
  <2>3. PlantColumn(new) /\ new.stageTargets = form[a]
    BY <2>1 DEF PlantColumn, ColumnOK
  <2> HIDE DEF new
  <2> QED BY <1>3, <2>2, <2>3 DEF SettingsInv, Settings!TargetsAssumption
<1>6. CASE Settings!WriteCompanyTargets(a)
  <2>1. edit[a].kind = "company targets" /\ CompanyColumn(read)
    BY <1>4, <1>6 DEF Settings!WriteCompanyTargets, EditOK
  <2> DEFINE new == [stageTargets |-> read.stageTargets, plantStageTargets |-> form[a],
                     others |-> read.others]
  <2>2. companySettings' = new /\ saved' = saved /\ plantSettings' = plantSettings
    BY <1>4, <1>6, ColumnWritten DEF Settings!WriteCompanyTargets
  <2>3. CompanyColumn(new)
    BY <2>1 DEF CompanyColumn, ColumnOK
  <2> HIDE DEF new
  <2> QED BY <1>3, <2>2, <2>3 DEF SettingsInv, Settings!TargetsAssumption
<1> QED BY <1>5, <1>6

LEMMA WriteSettingsKeeps ==
  ASSUME SettingsInv, NEW a \in Admins,
         (\E v \in Values : Settings!WriteSettings(a, v)) \/ Settings!AuditSettings(a)
  PROVE  SettingsInv'
<1>1. CASE Settings!AuditSettings(a)
  <2>1. /\ edit' = [edit EXCEPT ![a] = None]
        /\ UNCHANGED <<plantSettings, companySettings, form, period, saved>>
    BY <1>1 DEF Settings!AuditSettings, Settings!settings
  <2>2. OneAdminActs(a)
    BY <2>1 DEF OneAdminActs, SettingsInv, AdminsOK
  <2> QED BY <2>1, <2>2, AdminKeeps DEF SettingsInv, Settings!TargetsAssumption
<1>2. ASSUME NEW v \in Values, Settings!WriteSettings(a, v) PROVE SettingsInv'
  <2> DEFINE e == edit[a]
             read == e.read
             new == [stageTargets |-> read.stageTargets,
                     plantStageTargets |-> read.plantStageTargets, others |-> v]
             next == [kind |-> e.kind, read |-> read, after |-> v]
  <2>1. /\ e # None /\ e.kind = "settings"
        /\ companySettings' = [read EXCEPT !.others = v]
        /\ edit' = [edit EXCEPT ![a] = [e EXCEPT !.after = v]]
        /\ UNCHANGED <<plantSettings, form, period, saved>>
    BY <1>2 DEF Settings!WriteSettings
  <2>2. EditOK(a) /\ CompanyColumn(read) /\ ColumnOK(read)
    BY <2>1 DEF SettingsInv, AdminsOK, EditOK, CompanyColumn
  <2>3. companySettings' = new
    BY <2>1, <2>2, ColumnWritten
  <2>4. CompanyColumn(new)
    BY <2>2 DEF CompanyColumn, ColumnOK
  <2>5. edit' = [edit EXCEPT ![a] = next] /\ next.kind = e.kind /\ next.read = read
        /\ next = [kind |-> next.kind, read |-> next.read, after |-> next.after]
    <3>1. e = [kind |-> e.kind, read |-> e.read, after |-> e.after]
      BY <2>2 DEF EditOK
    <3>2. [e EXCEPT !.after = v] = next
      <4> HIDE DEF e
      <4> QED BY <3>1
    <3> QED BY <2>1, <3>2
  <2> HIDE DEF next, new, e, read
  <2>6. edit'[a] = next
    BY <2>5 DEF SettingsInv, AdminsOK
  <2>7. EditOK(a)'
    BY <2>1, <2>2, <2>5, <2>6 DEF EditOK, CompanyColumn, ColumnOK
  <2>8. OneAdminActs(a)
    BY <2>1, <2>5, <2>6, <2>7 DEF OneAdminActs, SettingsInv, AdminsOK
  <2>9. AdminsOK' /\ PeriodOK'
    BY <2>8, AdminKeeps
  <2> QED BY <2>1, <2>3, <2>4, <2>9 DEF SettingsInv, Settings!TargetsAssumption
<1> QED BY <1>1, <1>2

(* A period takes the target of its stage and gets older. *)
LEMMA PeriodKeeps ==
  ASSUME SettingsInv,
         (\E s \in Stages : Settings!NextPeriod(s)) \/ Settings!Elapse
  PROVE  SettingsInv'
<1>1. UNCHANGED <<plantSettings, companySettings, edit, form, saved>>
  BY DEF Settings!NextPeriod, Settings!Elapse, Settings!settings
<1>2. PeriodOK'
  <2>1. ASSUME NEW s \in Stages, Settings!NextPeriod(s) PROVE PeriodOK'
    BY <2>1, MinutesAreNumbers DEF Settings!NextPeriod, PeriodOK
  <2>2. CASE Settings!Elapse
    <3> DEFINE p == period
               old == period.elapsed + 1
               new == [stage |-> p.stage, target |-> p.target, elapsed |-> old,
                       promised |-> p.promised]
    <3>1. period' = [p EXCEPT !.elapsed = old] /\ old \in Nat
      BY <2>2 DEF Settings!Elapse, SettingsInv, PeriodOK
    <3>2. p = [stage |-> p.stage, target |-> p.target, elapsed |-> p.elapsed,
               promised |-> p.promised]
      BY DEF SettingsInv, PeriodOK
    <3>3. [p EXCEPT !.elapsed = old] = new
      <4> HIDE DEF p, old
      <4> QED BY <3>2
    <3> QED BY <3>1, <3>3 DEF PeriodOK, SettingsInv
  <2> QED BY <2>1, <2>2
<1> QED BY <1>1, <1>2 DEF SettingsInv, AdminsOK, EditOK, Settings!TargetsAssumption

LEMMA SettingsStart == Settings!TargetsAssumption /\ Settings!Init => SettingsInv
<1> SUFFICES ASSUME Settings!TargetsAssumption,
                    NEW t \in [Editable -> Minutes], NEW v \in Values, NEW s \in Stages,
                    plantSettings = [stageTargets |-> t, plantStageTargets |-> None, others |-> v],
                    companySettings = [stageTargets |-> None, plantStageTargets |-> t, others |-> v],
                    edit = [a \in Admins |-> None], form = [a \in Admins |-> None],
                    period = [stage |-> s, target |-> DefaultTarget[s], elapsed |-> 0,
                              promised |-> None],
                    saved = None
             PROVE  SettingsInv
  BY DEF Settings!Init
<1>1. t \in TargetsOfStages /\ DefaultTarget[s] \in Nat
  BY DEF Settings!TargetsAssumption, TargetsOfStages
<1> QED BY <1>1 DEF SettingsInv, PlantColumn, CompanyColumn, ColumnOK, AdminsOK, PeriodOK

LEMMA SettingsStep == SettingsInv /\ [Settings!Next]_(Settings!vars) => SettingsInv'
<1>1. ASSUME SettingsInv, UNCHANGED Settings!vars PROVE SettingsInv'
  BY <1>1 DEF SettingsInv, Settings!vars, Settings!settings, AdminsOK, EditOK, PeriodOK,
    Settings!TargetsAssumption
<1> QED BY <1>1, FormKeeps, BeginEditKeeps, WriteTargetsKeeps, WriteSettingsKeeps, PeriodKeeps
  DEF Settings!Next

(* For any stages, administrators and minutes: the form opens with the        *)
(* targets saved last, whoever saved them and however many write the column   *)
(* at once (updateTargets and loadConfig, plant.service.ts 2343-2379 and      *)
(* 2481-2492).                                                                *)
THEOREM FormIsOfTheSaved ==
  Settings!TargetsAssumption => (Settings!Spec => []Settings!FormShowsSaved)
<1>1. SettingsInv => Settings!FormShowsSaved
  BY MinutesAreNumbers DEF SettingsInv, Settings!FormShowsSaved
<1> QED BY <1>1, SettingsStart, SettingsStep, PTL DEF Settings!Spec

(* A write reverts a key of the column that nobody edited only if its request *)
(* had read the column before another wrote it.                               *)
LEMMA EditKeepsOthers ==
  ASSUME SettingsInv, Settings!Next PROVE Settings!KeepsOtherKeys
<1> SUFFICES ASSUME NEW a \in Admins, edit[a] # None, edit'[a] # edit[a],
                    <<plantSettings, companySettings>>' # <<plantSettings, companySettings>>
             PROVE
    \/ edit[a].kind = "plant targets" /\ edit[a].read = plantSettings
       /\ plantSettings'.others = plantSettings.others
    \/ edit[a].kind = "company targets" /\ edit[a].read = companySettings
       /\ companySettings'.others = companySettings.others
    \/ edit[a].kind = "settings" /\ edit[a].read = companySettings
       /\ companySettings'.plantStageTargets = companySettings.plantStageTargets
    \/ edit[a].read \notin {plantSettings, companySettings}
  BY DEF Settings!KeepsOtherKeys, Settings!settings
<1>1. PICK b \in Admins :
        Settings!WritePlantTargets(b) \/ Settings!WriteCompanyTargets(b)
        \/ \E v \in Values : Settings!WriteSettings(b, v)
  BY DEF Settings!Next, Settings!OpenForm, Settings!EnterMinutes, Settings!BeginEdit,
    Settings!AuditSettings, Settings!NextPeriod, Settings!Elapse, Settings!settings
<1>2. b = a
  <2>1. \A x \in Admins \ {b} : edit'[x] = edit[x]
    BY <1>1 DEF Settings!WritePlantTargets, Settings!WriteCompanyTargets,
      Settings!WriteSettings, SettingsInv, AdminsOK
  <2> QED BY <2>1
<1> DEFINE read == edit[a].read
<1>3. EditOK(a) /\ ColumnOK(read)
  BY DEF SettingsInv, AdminsOK, EditOK, PlantColumn, CompanyColumn
<1>4. None \notin TargetsOfStages
  BY MinutesAreNumbers
<1>5. CASE Settings!WritePlantTargets(a)
  <2>1. edit[a].kind = "plant targets" /\ PlantColumn(read)
    BY <1>3, <1>5 DEF Settings!WritePlantTargets, EditOK
  <2>2. plantSettings' = [stageTargets |-> form[a], plantStageTargets |-> read.plantStageTargets,
                          others |-> read.others]
    BY <1>3, <1>5, ColumnWritten DEF Settings!WritePlantTargets, Settings!WithTargets
  <2>3. read # companySettings
    BY <2>1, <1>4 DEF PlantColumn, CompanyColumn, SettingsInv
  <2>4. plantSettings'.others = read.others
    BY <2>2
  <2> QED BY <2>1, <2>3, <2>4
<1>6. CASE Settings!WriteCompanyTargets(a)
  <2>1. edit[a].kind = "company targets" /\ CompanyColumn(read)
    BY <1>3, <1>6 DEF Settings!WriteCompanyTargets, EditOK
  <2>2. companySettings' = [stageTargets |-> read.stageTargets, plantStageTargets |-> form[a],
                            others |-> read.others]
    BY <1>3, <1>6, ColumnWritten DEF Settings!WriteCompanyTargets
  <2>3. read # plantSettings
    BY <2>1, <1>4 DEF PlantColumn, CompanyColumn, SettingsInv
  <2>4. companySettings'.others = read.others
    BY <2>2
  <2> QED BY <2>1, <2>3, <2>4
<1>7. ASSUME NEW v \in Values, Settings!WriteSettings(a, v)
      PROVE  \/ edit[a].kind = "settings" /\ read = companySettings
                /\ companySettings'.plantStageTargets = companySettings.plantStageTargets
             \/ read \notin {plantSettings, companySettings}
  <2>1. edit[a].kind = "settings" /\ CompanyColumn(read)
    BY <1>3, <1>7 DEF Settings!WriteSettings, EditOK
  <2>2. companySettings' = [stageTargets |-> read.stageTargets,
                            plantStageTargets |-> read.plantStageTargets, others |-> v]
    BY <1>3, <1>7, ColumnWritten DEF Settings!WriteSettings
  <2>3. read # plantSettings
    BY <2>1, <1>4 DEF PlantColumn, CompanyColumn, SettingsInv
  <2>4. companySettings'.plantStageTargets = read.plantStageTargets
    BY <2>2
  <2> QED BY <2>1, <2>3, <2>4
<1> QED BY <1>1, <1>2, <1>5, <1>6, <1>7

(* Edits of a settings column one after the other keep each other's keys, and *)
(* the alarm of a period never steps back, whatever targets are saved in the  *)
(* middle of the stage (updateSettings, companies.service.ts; stateAttention, *)
(* plant.service.ts 2787-2806).                                               *)
THEOREM EditsKeepOthers ==
  Settings!TargetsAssumption =>
    (Settings!Spec => [][Settings!KeepsOtherKeys /\ Settings!AttentionHolds]_(Settings!vars))
<1>1. ASSUME SettingsInv, Settings!Next PROVE Settings!AttentionHolds
  <2> SUFFICES ASSUME period'.stage = period.stage, period'.elapsed >= period.elapsed
               PROVE  Settings!Attention(period)' >= Settings!Attention(period)
    BY DEF Settings!AttentionHolds
  <2>1. period' = period \/ period' = [period EXCEPT !.elapsed = @ + 1]
    <3>1. ASSUME NEW s \in Stages, Settings!NextPeriod(s) PROVE FALSE
      BY <3>1 DEF Settings!NextPeriod
    <3> QED BY <1>1, <3>1 DEF Settings!Next, Settings!OpenForm, Settings!EnterMinutes,
      Settings!BeginEdit, Settings!WritePlantTargets, Settings!WriteCompanyTargets,
      Settings!WriteSettings, Settings!AuditSettings, Settings!Elapse
  <2>2. period'.target = period.target /\ period.target \in Nat /\ period.elapsed \in Nat
        /\ period'.elapsed \in Nat
    BY <1>1, <2>1 DEF SettingsInv, PeriodOK
  <2> DEFINE target == period.target
             e1 == period.elapsed
             e2 == period'.elapsed
  <2>3. /\ Settings!Attention(period) = IF e1 >= target THEN 2
                                        ELSE IF 10 * e1 >= 8 * target THEN 1 ELSE 0
        /\ Settings!Attention(period)' = IF e2 >= target THEN 2
                                         ELSE IF 10 * e2 >= 8 * target THEN 1 ELSE 0
    BY <2>2 DEF Settings!Attention, Settings!TargetOf
  <2>4. target \in Nat /\ e1 \in Nat /\ e2 \in Nat /\ e2 >= e1
    BY <2>2
  <2> HIDE DEF target, e1, e2
  <2> QED BY <2>3, <2>4
<1>2. ASSUME SettingsInv, [Settings!Next]_(Settings!vars)
      PROVE  [Settings!KeepsOtherKeys /\ Settings!AttentionHolds]_(Settings!vars)
  BY <1>1, <1>2, EditKeepsOthers
<1> QED BY <1>2, SettingsStart, SettingsStep, PTL DEF Settings!Spec

-----------------------------------------------------------------------------
(* The page of a manager over plants and days (ManagementScreen).             *)

CONSTANTS Plants, Default
VARIABLES targetsOf, closed, active, visited, day, reports, answers, configs, closing, request

Manager == INSTANCE ManagementScreen

(* A report of the cache or on its way calls a day closed that is closed:    *)
(* each is kept under the plant and the day it was asked for, and a closure  *)
(* is never taken back.                                                      *)
ReportsTrue ==
  /\ reports = [k \in Manager!Keys |-> reports[k]]
  /\ answers = [k \in Manager!Keys |-> answers[k]]
  /\ \A k \in Manager!Keys : /\ reports[k] = TRUE => k \in closed
                             /\ answers[k] = TRUE => k \in closed
ManagerInv ==
  Manager!NoneIsNothing /\ ReportsTrue /\ Manager!Here \in Manager!Keys

(* What the queries of a report do. *)
LEMMA QueriesKeep ==
  ASSUME ManagerInv,
         Manager!PollServed
         \/ \E k \in Manager!Keys : Manager!PollAnswered(k) \/ Manager!PollLost(k)
  PROVE  ManagerInv'
<1> USE DEF ManagerInv, ReportsTrue, Manager!Here, Manager!NoneIsNothing
<1>1. CASE Manager!PollServed
  <2>1. /\ answers' = [answers EXCEPT ![Manager!Here] = Manager!Here \in closed]
        /\ UNCHANGED <<closed, reports, active, day>>
    BY <1>1 DEF Manager!PollServed, Manager!server, Manager!place, Manager!KeyOf
  <2>2. answers'[Manager!Here] = (Manager!Here \in closed)
        /\ \A k \in Manager!Keys \ {Manager!Here} : answers'[k] = answers[k]
    BY <2>1
  <2>3. \A k \in Manager!Keys : answers'[k] = TRUE => k \in closed
    BY <2>2
  <2> QED BY <2>1, <2>3 DEF Manager!Keys
<1>2. ASSUME NEW k \in Manager!Keys, Manager!PollAnswered(k) PROVE ManagerInv'
  <2>1. /\ reports' = [reports EXCEPT ![k] = answers[k]]
        /\ answers' = [answers EXCEPT ![k] = None]
        /\ UNCHANGED <<closed, active, day>>
    BY <1>2 DEF Manager!PollAnswered, Manager!server, Manager!place
  <2>2. None # TRUE
    OBVIOUS
  <2>3. \A x \in Manager!Keys : /\ reports'[x] = TRUE => x \in closed
                                /\ answers'[x] = TRUE => x \in closed
    BY <2>1, <2>2
  <2> QED BY <2>1, <2>3 DEF Manager!Keys
<1>3. ASSUME NEW k \in Manager!Keys, Manager!PollLost(k) PROVE ManagerInv'
  <2>1. /\ answers' = [answers EXCEPT ![k] = None]
        /\ UNCHANGED <<closed, reports, active, day>>
    BY <1>3 DEF Manager!PollLost, Manager!server, Manager!place
  <2>2. None # TRUE
    OBVIOUS
  <2> QED BY <2>1, <2>2 DEF Manager!Keys
<1> QED BY <1>1, <1>2, <1>3

(* The page goes to another plant or day, and days are closed. *)
LEMMA PlacesKeep ==
  ASSUME ManagerInv,
         Manager!Moving \/ Manager!Sending \/ (\E d \in Days : Manager!ChooseDay(d))
         \/ (\E k \in Manager!Keys : Manager!OthersClose(k))
         \/ Manager!OpenClosure \/ Manager!SaveClosure \/ Manager!ClosureAnswered
         \/ UNCHANGED Manager!vars
  PROVE  ManagerInv'
<1> USE DEF ManagerInv, ReportsTrue, Manager!NoneIsNothing
<1>1. /\ closed \subseteq closed' /\ active' \in Plants /\ day' \in Days
      /\ \/ UNCHANGED <<reports, answers>>
         \/ reports' = [k \in Manager!Keys |-> None] /\ answers' = [k \in Manager!Keys |-> None]
  <2>1. active \in Plants /\ day \in Days
    BY DEF Manager!Here, Manager!Keys
  <2>2. CASE Manager!Moving
    BY <2>1, <2>2 DEF Manager!Moving, Manager!Select, Manager!GoBack, Manager!server, Manager!cache
  <2>3. CASE Manager!Sending
    BY <2>1, <2>3 DEF Manager!Sending, Manager!CloseDialog, Manager!Served, Manager!RequestLost,
      Manager!server, Manager!cache, Manager!place
  <2>4. CASE ~Manager!Moving /\ ~Manager!Sending
    BY <2>1, <2>4 DEF Manager!ChooseDay, Manager!OthersClose, Manager!OpenClosure,
      Manager!SaveClosure, Manager!ClosureAnswered, Manager!vars, Manager!server,
      Manager!cache, Manager!place
  <2> QED BY <2>2, <2>3, <2>4
<1>2. Manager!Here' \in Manager!Keys
  BY <1>1 DEF Manager!Here, Manager!Keys
<1>3. None # TRUE
  OBVIOUS
<1> QED BY <1>1, <1>2, <1>3 DEF Manager!Keys

(* "Jornada cerrada" is said of the plant and the day on the screen, and they *)
(* are closed, for any plants and days, whatever the manager does, whatever   *)
(* answers are late and whoever else closes days (PlantManagementPage.tsx     *)
(* 164-172).                                                                  *)
THEOREM CalledClosedIsClosed ==
  Manager!NoneIsNothing => (Manager!ClosingSpec => []Manager!ClosedIsClosed)
<1>1. Manager!NoneIsNothing /\ Manager!Init => ManagerInv
  BY DEF Manager!Init, ManagerInv, ReportsTrue, Manager!NoneIsNothing, Manager!Here, Manager!Keys
<1>2. ManagerInv /\ [Manager!Moving \/ Manager!Sending \/ Manager!Closing]_(Manager!vars)
        => ManagerInv'
  BY QueriesKeep, PlacesKeep DEF Manager!Closing
<1>3. ManagerInv => Manager!ClosedIsClosed
  BY DEF ManagerInv, ReportsTrue, Manager!ClosedIsClosed, Manager!Shown, Manager!KeyOf
<1> QED BY <1>1, <1>2, <1>3, PTL DEF Manager!ClosingSpec

-----------------------------------------------------------------------------
(***************************************************************************)
(* The history of states and its PDF, read page after page (HistoryPages). *)
(***************************************************************************)
CONSTANTS States, Options, Periods, PageSize, MaxRows, MaxClock
VARIABLES rows, choice, offset, allRows, began

History == INSTANCE HistoryPages

(* A page is longer than the tanks are many, as the code's thousand is, or *)
(* nobody asks for days to come.                                           *)
PagesSuffice ==
  \/ Cardinality(Tanks) < PageSize
  \/ \A p \in Periods : History!DayStart(p[1]) <= 1

HistoryRows == [tank : Tanks, lot : Nat, state : States \cup {"VACIO"}, start : Nat, end : Nat]

(* The rows that match the filters and the place of each in the list.      *)
Matching == {i \in History!Ids : History!Where(i)}
Ahead(i) == {j \in Matching : History!OrderBy(j, i)}
Place(i) == History!Cardinality(Ahead(i)) + 1

HistoryRowsOK ==
  /\ clock \in Nat \ {0} /\ rows \in Seq(HistoryRows)
  /\ \A i \in DOMAIN rows : rows[i].end <= clock
  /\ \A t \in Tanks : \E i \in DOMAIN rows : rows[i].tank = t /\ rows[i].end = 0
  /\ \A i, j \in DOMAIN rows :
       rows[i].tank = rows[j].tank /\ rows[i].end = 0 /\ rows[j].end = 0 => i = j

FiltersOK ==
  /\ History!HistoryAssumption /\ PagesSuffice
  /\ period \in Periods /\ began \in 0 .. Len(rows)

(* What was read of the list so far, wherever the rows have moved to: every*)
(* row of the beginning whose place lies before the offset.                *)
ReadSoFar ==
  /\ offset \in Nat /\ Len(allRows) = offset /\ report = FALSE
  /\ offset > 0 => clock >= History!DayStart(period[1])
  /\ offset <= Cardinality(Matching)
  /\ \A i \in Matching : i <= began /\ Place(i) <= offset => i \in History!ToSet(allRows)

(* The PDF that is done.                                                   *)
DownloadOK ==
  /\ \A i \in 1 .. began :
       History!Meets(i) /\ History!OfState(choice, rows[i].state) => i \in History!ToSet(allRows)
  /\ Len(allRows) - Cardinality(History!ToSet(allRows)) <= Len(rows) - began

HistoryInv ==
  /\ HistoryRowsOK /\ FiltersOK
  /\ \E S : allRows \in Seq(S)
  /\ report \in BOOLEAN
  /\ offset # History!NotReading => ReadSoFar
  /\ report => DownloadOK

(* The operators of the instance count as those of this module.            *)
LEMMA SameCardinality == \A S : History!Cardinality(S) = Cardinality(S)
<1> SUFFICES ASSUME NEW S PROVE History!Cardinality(S) = Cardinality(S)
  OBVIOUS
<1> QED BY DEF History!Cardinality, Cardinality

(* The fields of a row.                                                    *)
LEMMA RowFields ==
  ASSUME HistoryRowsOK, NEW i \in DOMAIN rows
  PROVE  /\ rows[i] \in HistoryRows /\ rows[i].tank \in Tanks /\ rows[i].start \in Nat
         /\ rows[i].end \in Nat /\ i \in Nat \ {0} /\ i <= Len(rows) /\ Len(rows) \in Nat
<1>1. rows \in Seq(HistoryRows)
  BY DEF HistoryRowsOK
<1>2. rows[i] \in HistoryRows /\ i \in Nat \ {0} /\ i <= Len(rows) /\ Len(rows) \in Nat
  BY <1>1
<1> QED BY <1>2 DEF HistoryRows

(* The days of the filters are numbers.                                    *)
LEMMA DaysAreNumbers ==
  ASSUME FiltersOK
  PROVE  /\ period[1] \in Int /\ period[2] \in Int
         /\ History!DayStart(period[1]) \in Int /\ History!DayEnd(period[2]) \in Int
<1>1. period \in Int \X Int /\ DayLength \in Nat
  BY DEF FiltersOK, History!HistoryAssumption
<1>2. period[1] \in Int /\ period[2] \in Int
  BY <1>1
<1> QED BY <1>1, <1>2 DEF History!DayStart, History!DayEnd

(* A row matches when it meets the days and has the state.                 *)
LEMMA WhereIsMeets ==
  ASSUME HistoryRowsOK, FiltersOK, NEW i \in DOMAIN rows
  PROVE  History!Where(i) <=> History!Meets(i) /\ History!OfState(choice, rows[i].state)
<1> DEFINE from == History!DayStart(period[1])
<1>1. rows[i].end \in Nat /\ from \in Int
  BY RowFields, DaysAreNumbers
<1>2. rows[i].end >= from <=> ~ (rows[i].end < from)
  BY <1>1
<1> QED BY <1>2 DEF History!Where, History!Meets, History!EndsAfter, History!Open

(* The rows that match, and those ahead of one, are finitely many.         *)
LEMMA MatchingIsFinite ==
  ASSUME HistoryRowsOK
  PROVE  /\ IsFiniteSet(Matching) /\ Cardinality(Matching) \in Nat /\ Matching \subseteq DOMAIN rows
         /\ \A i : IsFiniteSet(Ahead(i)) /\ Cardinality(Ahead(i)) \in Nat
<1>1. DOMAIN rows = 1 .. Len(rows) /\ Len(rows) \in Nat
  BY DEF HistoryRowsOK
<1>2. IsFiniteSet(DOMAIN rows)
  BY <1>1, FS_Interval
<1>3. IsFiniteSet(Matching) /\ Matching \subseteq DOMAIN rows
  BY <1>2, FS_Subset DEF Matching, History!Ids
<1>4. \A i : IsFiniteSet(Ahead(i))
  BY <1>3, FS_Subset DEF Ahead
<1> QED BY <1>3, <1>4, FS_CardinalityType

(* No two rows have the same place.                                        *)
LEMMA PlacesDiffer ==
  ASSUME HistoryRowsOK, NEW i \in Matching, NEW j \in Matching, i # j
  PROVE  Place(i) # Place(j)
<1> DEFINE P(a) == Ahead(a)
<1>1. \A a \in Matching : a \in Nat /\ rows[a].start \in Nat
  BY MatchingIsFinite, RowFields
<1>2. ASSUME NEW a \in Matching, NEW b \in Matching, History!OrderBy(a, b)
      PROVE  Cardinality(Ahead(a)) < Cardinality(Ahead(b))
  <2>1. Ahead(a) \subseteq Ahead(b)
    <3>1. ASSUME NEW c \in Matching, History!OrderBy(c, a) PROVE History!OrderBy(c, b)
      <4>1. /\ a \in Nat /\ b \in Nat /\ c \in Nat
            /\ rows[a].start \in Nat /\ rows[b].start \in Nat /\ rows[c].start \in Nat
        BY <1>1
      <4> QED BY <4>1, <3>1, <1>2 DEF History!OrderBy
    <3> QED BY <3>1 DEF Ahead
  <2>2. a \in Ahead(b) /\ a \notin Ahead(a)
    BY <1>1, <1>2 DEF Ahead, History!OrderBy
  <2>3. /\ Cardinality(Ahead(a)) <= Cardinality(Ahead(b))
        /\ Cardinality(Ahead(b)) = Cardinality(Ahead(a)) => Ahead(b) = Ahead(a)
    BY <2>1, MatchingIsFinite, FS_Subset
  <2>4. Cardinality(Ahead(a)) \in Nat /\ Cardinality(Ahead(b)) \in Nat
    BY MatchingIsFinite
  <2> QED BY <2>2, <2>3, <2>4
<1>3. History!OrderBy(i, j) \/ History!OrderBy(j, i)
  BY <1>1 DEF History!OrderBy
<1>4. Cardinality(Ahead(i)) \in Nat /\ Cardinality(Ahead(j)) \in Nat
  BY MatchingIsFinite
<1>5. Cardinality(Ahead(i)) < Cardinality(Ahead(j)) \/ Cardinality(Ahead(j)) < Cardinality(Ahead(i))
  BY <1>2, <1>3
<1> QED BY <1>4, <1>5, SameCardinality DEF Place

(* Places go up to the number of rows that match.                          *)
LEMMA PlacesAreCounted ==
  ASSUME HistoryRowsOK, NEW i \in Matching
  PROVE  Place(i) \in 1 .. Cardinality(Matching)
<1>1. Ahead(i) \subseteq Matching \ {i}
  <2>1. ~ History!OrderBy(i, i)
    <3>1. i \in Nat /\ rows[i].start \in Nat
      BY MatchingIsFinite, RowFields
    <3> QED BY <3>1 DEF History!OrderBy
  <2> QED BY <2>1 DEF Ahead
<1>2. IsFiniteSet(Matching \ {i}) /\ Cardinality(Matching \ {i}) = Cardinality(Matching) - 1
  BY MatchingIsFinite, FS_RemoveElement
<1>3. Cardinality(Ahead(i)) <= Cardinality(Matching) - 1
  BY <1>1, <1>2, FS_Subset
<1> QED BY <1>3, MatchingIsFinite, SameCardinality DEF Place

(* A page holds the rows whose places it spans.                            *)
LEMMA PageSpans ==
  ASSUME HistoryRowsOK, FiltersOK, NEW k \in Nat, k <= Cardinality(Matching)
  PROVE  LET page == History!Page(k)
             rest == Cardinality(Matching) - k
         IN /\ page \in Seq(Nat \cup {History!Page(k)[n] : n \in DOMAIN page})
            /\ Len(page) = IF PageSize < rest THEN PageSize ELSE rest
            /\ \A i \in Matching : Place(i) \in (k + 1) .. (k + Len(page)) =>
                 \E n \in DOMAIN page : page[n] = i
<1> DEFINE rest == Cardinality(Matching) - k
           last == IF PageSize < rest THEN PageSize ELSE rest
           pick(n) == CHOOSE i \in Matching : Place(i) = k + n
           page == History!Page(k)
<1>1. rest \in Nat /\ PageSize \in Nat
  BY MatchingIsFinite DEF FiltersOK, History!HistoryAssumption
<1>2. last \in Nat
  BY <1>1
<1>3. History!Min({PageSize, rest}) = last
  <2>1. last \in {PageSize, rest} /\ \A y \in {PageSize, rest} : last <= y
    BY <1>1
  <2>2. ASSUME NEW x \in {PageSize, rest}, \A y \in {PageSize, rest} : x <= y PROVE x = last
    BY <1>1, <2>2
  <2> HIDE DEF last, rest
  <2> QED BY <2>1, <2>2 DEF History!Min
<1>4. page = [n \in 1 .. History!Min({PageSize, History!Cardinality(Matching) - k}) |->
                CHOOSE i \in Matching : Place(i) = k + n]
  BY DEF History!Page, Matching, Place, Ahead
<1>5. page = [n \in 1 .. last |-> pick(n)]
  <2>1. History!Cardinality(Matching) - k = rest
    BY SameCardinality
  <2> HIDE DEF last, page, rest
  <2> QED BY <1>3, <1>4, <2>1
<1> HIDE DEF last, page, pick, rest
<1>6. DOMAIN page = 1 .. last /\ \A n \in 1 .. last : page[n] = pick(n)
  BY <1>5
<1>7. page \in Seq({page[n] : n \in DOMAIN page}) /\ Len(page) = last
  BY <1>2, <1>5, <1>6
<1>8. ASSUME NEW i \in Matching, Place(i) \in (k + 1) .. (k + last)
      PROVE  \E n \in DOMAIN page : page[n] = i
  <2> DEFINE n == Place(i) - k
  <2>1. n \in 1 .. last /\ Place(i) = k + n
    BY <1>2, <1>8, PlacesAreCounted
  <2>2. \A j \in Matching : Place(j) = k + n => j = i
    BY <2>1, PlacesDiffer
  <2> HIDE DEF n
  <2>3. pick(n) = i
    BY <2>1, <2>2 DEF pick
  <2> QED BY <1>6, <2>1, <2>3
<1> QED BY <1>6, <1>7, <1>8 DEF page, last, rest

(* A plant begins with one open row for each tank.                         *)
FirstRows ==
  {[tank |-> t, lot |-> 0, state |-> "VACIO", start |-> 1, end |-> History!Open] : t \in Tanks}

(* The first rows in an order: each of them once.                          *)
LEMMA FirstRowsInOrder ==
  ASSUME History!HistoryAssumption, NEW first, first = History!SetToSeq(FirstRows)
  PROVE  /\ first \in Seq(FirstRows)
         /\ \A r \in FirstRows : \E i \in DOMAIN first : first[i] = r
         /\ \A i, j \in DOMAIN first : first[i] = first[j] => i = j
<1> DEFINE n == Cardinality(FirstRows)
<1>1. IsFiniteSet(FirstRows)
  <2> DEFINE row == [t \in Tanks |-> [tank |-> t, lot |-> 0, state |-> "VACIO", start |-> 1,
                                      end |-> History!Open]]
  <2>1. row \in Surjection(Tanks, FirstRows)
    BY DEF Surjection, FirstRows
  <2>2. IsFiniteSet(Tanks)
    BY DEF History!HistoryAssumption, History!IsFiniteSet, IsFiniteSet
  <2> HIDE DEF row
  <2> QED BY <2>1, <2>2, FS_Surjection
<1>2. n \in Nat /\ ExistsBijection(1 .. n, FirstRows)
  BY <1>1, FS_CardinalityType
<1>3. PICK g : g \in Bijection(1 .. n, FirstRows)
  BY <1>2 DEF ExistsBijection
<1>4. first = CHOOSE f \in [1 .. n -> FirstRows] : History!IsInjective(f)
  BY SameCardinality DEF History!SetToSeq
<1> HIDE DEF n
<1>5. g \in [1 .. n -> FirstRows] /\ History!IsInjective(g)
  BY <1>3 DEF Bijection, Injection, IsInjective, History!IsInjective
<1>6. first \in [1 .. n -> FirstRows] /\ History!IsInjective(first)
  BY <1>4, <1>5
<1>7. first \in Injection(1 .. n, FirstRows)
  BY <1>6 DEF Injection, IsInjective, History!IsInjective
<1>8. Cardinality(1 .. n) = Cardinality(FirstRows)
  <2>1. Cardinality(1 .. n) = n
    BY <1>2, FS_Interval
  <2> QED BY <2>1 DEF n
<1>9. first \in Surjection(1 .. n, FirstRows)
  BY <1>1, <1>7, <1>8, FS_Injection
<1>10. first \in Seq(FirstRows)
  BY <1>2, <1>6
<1>11. \A r \in FirstRows : \E i \in DOMAIN first : first[i] = r
  BY <1>6, <1>9 DEF Surjection
<1> QED BY <1>6, <1>10, <1>11 DEF History!IsInjective

(* The invariant holds of the rows at the beginning.                       *)
LEMMA HistoryStart ==
  History!HistoryAssumption /\ PagesSuffice /\ History!Init => HistoryInv
<1> SUFFICES ASSUME History!HistoryAssumption, PagesSuffice, History!Init PROVE HistoryInv
  OBVIOUS
<1>1. rows = History!SetToSeq(FirstRows)
  BY DEF History!Init, FirstRows
<1>2. /\ rows \in Seq(FirstRows)
      /\ \A r \in FirstRows : \E i \in DOMAIN rows : rows[i] = r
      /\ \A i, j \in DOMAIN rows : rows[i] = rows[j] => i = j
  BY <1>1, FirstRowsInOrder
<1>3. \A i \in DOMAIN rows : rows[i] \in FirstRows
  BY <1>2
<1>4. \A r \in FirstRows :
        /\ r \in HistoryRows /\ r.tank \in Tanks /\ r.end = 0
        /\ r = [tank |-> r.tank, lot |-> 0, state |-> "VACIO", start |-> 1, end |-> 0]
  <2>1. ASSUME NEW r \in FirstRows
        PROVE  /\ r \in HistoryRows /\ r.tank \in Tanks /\ r.end = 0
               /\ r = [tank |-> r.tank, lot |-> 0, state |-> "VACIO", start |-> 1, end |-> 0]
    <3>1. PICK t \in Tanks :
            r = [tank |-> t, lot |-> 0, state |-> "VACIO", start |-> 1, end |-> 0]
      BY DEF FirstRows, History!Open
    <3>2. r.tank = t /\ r.end = 0
      BY <3>1
    <3>3. r \in HistoryRows
      BY <3>1 DEF HistoryRows
    <3> QED BY <3>1, <3>2, <3>3
  <2> QED BY <2>1
<1>5. ASSUME NEW t \in Tanks PROVE \E r \in FirstRows : r.tank = t
  <2> DEFINE r == [tank |-> t, lot |-> 0, state |-> "VACIO", start |-> 1, end |-> History!Open]
  <2>1. r \in FirstRows /\ r.tank = t
    BY DEF FirstRows
  <2> QED BY <2>1
<1>6. rows \in Seq(HistoryRows)
  BY <1>2, <1>4
<1>7. clock = 1
  BY DEF History!Init
<1>8. HistoryRowsOK
  <2>1. \A i \in DOMAIN rows : rows[i].end <= clock
    BY <1>3, <1>4, <1>7
  <2>2. \A t \in Tanks : \E i \in DOMAIN rows : rows[i].tank = t /\ rows[i].end = 0
    BY <1>2, <1>4, <1>5
  <2>3. ASSUME NEW i \in DOMAIN rows, NEW j \in DOMAIN rows, rows[i].tank = rows[j].tank
        PROVE  i = j
    <3>1. rows[i] = rows[j]
      <4>1. rows[i] = [tank |-> rows[i].tank, lot |-> 0, state |-> "VACIO", start |-> 1, end |-> 0]
        BY <1>3, <1>4
      <4>2. rows[j] = [tank |-> rows[j].tank, lot |-> 0, state |-> "VACIO", start |-> 1, end |-> 0]
        BY <1>3, <1>4
      <4> QED BY <2>3, <4>1, <4>2
    <3> QED BY <1>2, <3>1
  <2> QED BY <1>6, <1>7, <2>1, <2>2, <2>3 DEF HistoryRowsOK
<1>9. FiltersOK
  <2>1. Len(rows) \in Nat
    BY <1>6
  <2> QED BY <2>1 DEF FiltersOK, History!Init
<1>10. \E S : allRows \in Seq(S)
  <2>1. <<>> \in Seq(Nat)
    OBVIOUS
  <2> QED BY <2>1 DEF History!Init
<1> QED BY <1>8, <1>9, <1>10 DEF HistoryInv, History!Init

(* The rows when a tank leaves its state: its open row is closed, and the  *)
(* last one is new.                                                        *)
LEMMA MovedPeriods ==
  ASSUME HistoryRowsOK, NEW t \in Tanks, NEW s \in States, History!Move(t, s)
  PROVE  \E i \in DOMAIN rows :
           /\ rows[i].tank = t /\ rows[i].end = 0
           /\ rows' \in Seq(HistoryRows) /\ Len(rows') = Len(rows) + 1 /\ Len(rows) \in Nat
           /\ DOMAIN rows = 1 .. Len(rows) /\ DOMAIN rows' = 1 .. (Len(rows) + 1)
           /\ rows'[Len(rows) + 1].tank = t /\ rows'[Len(rows) + 1].start = clock
           /\ rows'[Len(rows) + 1].end = 0
           /\ \A j \in DOMAIN rows :
                /\ rows'[j].tank = rows[j].tank /\ rows'[j].start = rows[j].start
                /\ rows'[j].state = rows[j].state
                /\ rows'[j].end = IF j = i THEN clock ELSE rows[j].end
<1> DEFINE i == History!OpenRow(t)
           n == Len(rows)
           lot == IF s = "VACIO" THEN 0 ELSE IF rows[i].lot # 0 THEN rows[i].lot ELSE n
           ended == [rows EXCEPT ![i].end = clock]
           row == [tank |-> t, lot |-> lot, state |-> s, start |-> clock, end |-> History!Open]
<1>1. i \in DOMAIN rows /\ rows[i].tank = t /\ rows[i].end = 0
  <2>1. \E j \in DOMAIN rows : rows[j].tank = t /\ rows[j].end = 0
    BY DEF HistoryRowsOK
  <2> QED BY <2>1 DEF History!OpenRow, History!Ids, History!Open
<1>2. rows' = Append(ended, row)
  BY DEF History!Move
<1>3. rows \in Seq(HistoryRows) /\ n \in Nat /\ DOMAIN rows = 1 .. n /\ clock \in Nat
  BY DEF HistoryRowsOK
<1> HIDE DEF i
<1>4. rows[i] \in HistoryRows
  BY <1>1, <1>3
<1>5. ended \in Seq(HistoryRows) /\ Len(ended) = n /\ DOMAIN ended = 1 .. n
  <2>1. [rows[i] EXCEPT !.end = clock] \in HistoryRows
    BY <1>3, <1>4 DEF HistoryRows
  <2> QED BY <1>1, <1>3, <2>1
<1>6. row \in HistoryRows
  <2>1. rows[i].lot \in Nat
    BY <1>4 DEF HistoryRows
  <2>2. lot \in Nat
    BY <1>3, <2>1
  <2> HIDE DEF lot
  <2> QED BY <1>3, <2>2 DEF HistoryRows, History!Open
<1>7. row.tank = t /\ row.start = clock /\ row.end = 0
  BY DEF History!Open
<1>8. \A j \in DOMAIN rows :
        /\ ended[j].tank = rows[j].tank /\ ended[j].start = rows[j].start
        /\ ended[j].state = rows[j].state
        /\ ended[j].end = IF j = i THEN clock ELSE rows[j].end
  <2>1. \A j \in DOMAIN rows : rows[j] \in HistoryRows
    BY <1>3
  <2>2. \A j \in DOMAIN rows : ended[j] = IF j = i THEN [rows[i] EXCEPT !.end = clock] ELSE rows[j]
    BY <1>1
  <2>3. /\ [rows[i] EXCEPT !.end = clock].tank = rows[i].tank
        /\ [rows[i] EXCEPT !.end = clock].start = rows[i].start
        /\ [rows[i] EXCEPT !.end = clock].state = rows[i].state
        /\ [rows[i] EXCEPT !.end = clock].end = clock
    BY <1>4 DEF HistoryRows
  <2> HIDE DEF ended
  <2> QED BY <2>2, <2>3
<1> HIDE DEF ended, row, n
<1>9. /\ rows' \in Seq(HistoryRows) /\ Len(rows') = n + 1 /\ DOMAIN rows' = 1 .. (n + 1)
      /\ rows'[n + 1] = row /\ \A j \in 1 .. n : rows'[j] = ended[j]
  <2>1. Append(ended, row) \in Seq(HistoryRows) /\ Len(Append(ended, row)) = n + 1
    BY <1>5, <1>6
  <2>2. /\ DOMAIN Append(ended, row) = 1 .. (n + 1) /\ Append(ended, row)[n + 1] = row
        /\ \A j \in 1 .. n : Append(ended, row)[j] = ended[j]
    BY <1>3, <1>5, <1>6
  <2>3. rows' \in Seq(HistoryRows) /\ Len(rows') = n + 1
    BY <1>2, <2>1
  <2>4. DOMAIN rows' = 1 .. (n + 1)
    BY <1>3, <2>3
  <2>5. rows'[n + 1] = row
    BY <1>2, <2>2
  <2>6. \A j \in 1 .. n : rows'[j] = ended[j]
    BY <1>2, <2>2
  <2> QED BY <2>3, <2>4, <2>5, <2>6
<1>10. \A j \in DOMAIN rows : rows'[j] = ended[j]
  BY <1>3, <1>9
<1>11. \A j \in DOMAIN rows :
         /\ rows'[j].tank = rows[j].tank /\ rows'[j].start = rows[j].start
         /\ rows'[j].state = rows[j].state
         /\ rows'[j].end = IF j = i THEN clock ELSE rows[j].end
  BY <1>8, <1>10
<1>12. /\ rows'[n + 1].tank = t /\ rows'[n + 1].start = clock /\ rows'[n + 1].end = 0
  BY <1>7, <1>9
<1> QED BY <1>1, <1>3, <1>9, <1>11, <1>12 DEF n

(* A tank that moves has one open row again.                               *)
LEMMA MoveKeepsHistoryRows ==
  ASSUME HistoryRowsOK, NEW t \in Tanks, NEW s \in States, History!Move(t, s)
  PROVE  HistoryRowsOK'
<1> DEFINE n == Len(rows)
<1>1. PICK i \in DOMAIN rows :
           /\ rows[i].tank = t /\ rows[i].end = 0
           /\ rows' \in Seq(HistoryRows) /\ n \in Nat
           /\ DOMAIN rows = 1 .. n /\ DOMAIN rows' = 1 .. (n + 1)
           /\ rows'[n + 1].tank = t /\ rows'[n + 1].end = 0
           /\ \A j \in DOMAIN rows :
                /\ rows'[j].tank = rows[j].tank
                /\ rows'[j].end = IF j = i THEN clock ELSE rows[j].end
  BY MovedPeriods
<1>2. clock' = clock /\ clock \in Nat \ {0}
  BY DEF History!Move, HistoryRowsOK
<1> HIDE DEF n
<1>3. \A j \in 1 .. (n + 1) : j \in DOMAIN rows \/ j = n + 1
  BY <1>1
<1>4. \A j \in DOMAIN rows : j # n + 1 /\ j \in 1 .. (n + 1)
  BY <1>1
<1>5. n + 1 \in 1 .. (n + 1)
  BY <1>1
<1>6. \A j \in DOMAIN rows' : rows'[j].end <= clock
  <2>1. \A j \in DOMAIN rows : rows'[j].end <= clock
    BY <1>1, <1>2 DEF HistoryRowsOK
  <2> QED BY <1>1, <1>2, <1>3, <2>1
<1>7. ASSUME NEW u \in Tanks PROVE \E j \in DOMAIN rows' : rows'[j].tank = u /\ rows'[j].end = 0
  <2>1. CASE u = t
    BY <1>1, <1>5, <2>1
  <2>2. CASE u # t
    <3>1. PICK j \in DOMAIN rows : rows[j].tank = u /\ rows[j].end = 0
      BY DEF HistoryRowsOK
    <3> QED BY <1>1, <1>4, <2>2, <3>1
  <2> QED BY <2>1, <2>2
<1>8. ASSUME NEW j \in DOMAIN rows', rows'[j].end = 0
      PROVE  j = n + 1 \/ (j \in DOMAIN rows /\ rows[j].end = 0 /\ rows[j].tank # t)
  <2>1. CASE j \in DOMAIN rows
    <3>1. j # i /\ rows[j].end = 0
      BY <1>1, <1>2, <1>8, <2>1
    <3> QED BY <1>1, <2>1, <3>1 DEF HistoryRowsOK
  <2> QED BY <1>1, <1>3, <2>1
<1>9. ASSUME NEW j \in DOMAIN rows', NEW k \in DOMAIN rows', rows'[j].tank = rows'[k].tank,
             rows'[j].end = 0, rows'[k].end = 0
      PROVE  j = k
  <2>1. CASE j = n + 1 /\ k = n + 1
    BY <2>1
  <2>2. CASE j \in DOMAIN rows /\ k \in DOMAIN rows
    BY <1>1, <1>8, <1>9, <2>2 DEF HistoryRowsOK
  <2>3. CASE j = n + 1 /\ k \in DOMAIN rows
    BY <1>1, <1>4, <1>8, <1>9, <2>3
  <2>4. CASE k = n + 1 /\ j \in DOMAIN rows
    BY <1>1, <1>4, <1>8, <1>9, <2>4
  <2> QED BY <1>1, <1>3, <2>1, <2>2, <2>3, <2>4
<1>10. rows' \in Seq(HistoryRows)
  BY <1>1
<1> QED BY <1>2, <1>6, <1>7, <1>9, <1>10 DEF HistoryRowsOK

(* What a tank's move does to the rows that match: those of the beginning  *)
(* match no more than before, and all that did still do when the clock has *)
(* reached the first of the days; none of them comes nearer the front.     *)
LEMMA MoveAndMatching ==
  ASSUME HistoryRowsOK, FiltersOK, NEW t \in Tanks, NEW s \in States, History!Move(t, s)
  PROVE  /\ \A j \in DOMAIN rows : j \in Matching' => j \in Matching
         /\ \A j \in DOMAIN rows : History!Meets(j)' => History!Meets(j)
         /\ \A j \in DOMAIN rows : History!OfState(choice, rows[j].state)' <=>
                                   History!OfState(choice, rows[j].state)
         /\ clock >= History!DayStart(period[1]) =>
              /\ Matching \subseteq Matching'
              /\ \A j \in Matching : Ahead(j) \subseteq Ahead(j)'
<1> DEFINE n == Len(rows)
           from == History!DayStart(period[1])
           to == History!DayEnd(period[2])
<1>1. PICK i \in DOMAIN rows :
           /\ rows[i].tank = t /\ rows[i].end = 0 /\ n \in Nat
           /\ DOMAIN rows = 1 .. n /\ DOMAIN rows' = 1 .. (n + 1)
           /\ \A j \in DOMAIN rows :
                /\ rows'[j].start = rows[j].start /\ rows'[j].state = rows[j].state
                /\ rows'[j].end = IF j = i THEN clock ELSE rows[j].end
  BY MovedPeriods
<1>2. UNCHANGED <<choice, period, clock>> /\ clock \in Nat \ {0}
  BY DEF History!Move, HistoryRowsOK
<1>3. from \in Int /\ to \in Int
  BY DaysAreNumbers
<1>4. from' = from /\ to' = to
  BY <1>2 DEF History!DayStart, History!DayEnd
<1> HIDE DEF n, from, to
<1>5. \A j \in DOMAIN rows : j \in DOMAIN rows' /\ rows[j].end \in Nat
  BY <1>1, RowFields
<1>6. ASSUME NEW j \in DOMAIN rows
      PROVE  History!OfState(choice, rows[j].state)' <=> History!OfState(choice, rows[j].state)
  BY <1>1, <1>2 DEF History!OfState, History!Asked
<1>7. ASSUME NEW j \in DOMAIN rows
      PROVE  /\ History!Where(j) <=>
                  /\ History!OfState(choice, rows[j].state)
                  /\ period[2] # -1 => rows[j].start < to
                  /\ period[1] # -1 => rows[j].end = 0 \/ rows[j].end >= from
             /\ History!Where(j)' <=>
                  /\ History!OfState(choice, rows[j].state)
                  /\ period[2] # -1 => rows[j].start < to
                  /\ period[1] # -1 => rows'[j].end = 0 \/ rows'[j].end >= from
  <2>1. rows'[j].start = rows[j].start
    BY <1>1
  <2> QED BY <1>2, <1>4, <1>6, <2>1 DEF History!Where, History!EndsAfter, History!Open, from, to
<1>8. ASSUME NEW j \in DOMAIN rows, j \in Matching' PROVE j \in Matching
  <2>1. History!Where(j)'
    BY <1>8 DEF Matching
  <2>2. rows'[j].end = rows[j].end \/ rows[j].end = 0
    BY <1>1
  <2> QED BY <1>7, <2>1, <2>2 DEF Matching, History!Ids
<1>9. ASSUME NEW j \in DOMAIN rows, History!Meets(j)' PROVE History!Meets(j)
  <2>1. rows'[j].start = rows[j].start /\ (rows'[j].end = rows[j].end \/ rows[j].end = 0)
    BY <1>1
  <2> QED BY <1>2, <1>4, <1>9, <2>1 DEF History!Meets, History!Open, from, to
<1>10. ASSUME clock >= from, NEW j \in Matching PROVE j \in Matching'
  <2>1. j \in DOMAIN rows /\ History!Where(j)
    BY DEF Matching, History!Ids
  <2>2. rows'[j].end = rows[j].end \/ (rows'[j].end = clock /\ clock >= from)
    BY <1>1, <1>10, <2>1
  <2>3. History!Where(j)'
    BY <1>7, <2>1, <2>2
  <2> QED BY <1>5, <2>1, <2>3 DEF Matching, History!Ids
<1>11. ASSUME clock >= from, NEW j \in Matching, NEW k \in Ahead(j) PROVE k \in Ahead(j)'
  <2>1. k \in Matching /\ History!OrderBy(k, j)
    BY DEF Ahead
  <2>2. k \in Matching'
    BY <1>10, <1>11, <2>1
  <2>3. rows'[k].start = rows[k].start /\ rows'[j].start = rows[j].start
    BY <1>1, <2>1 DEF Matching, History!Ids
  <2> QED BY <2>1, <2>2, <2>3 DEF Ahead, History!OrderBy
<1> QED BY <1>6, <1>8, <1>9, <1>10, <1>11 DEF from

(* What was read is finite.                                                *)
LEMMA ReadIsFinite ==
  ASSUME NEW S, NEW list \in Seq(S)
  PROVE  /\ IsFiniteSet(History!ToSet(list)) /\ Cardinality(History!ToSet(list)) \in Nat
         /\ Len(list) \in Nat /\ DOMAIN list = 1 .. Len(list)
<1>1. Len(list) \in Nat /\ DOMAIN list = 1 .. Len(list)
  OBVIOUS
<1>2. IsFiniteSet(DOMAIN list)
  BY <1>1, FS_Interval
<1>3. History!ToSet(list) = {list[i] : i \in DOMAIN list}
  BY DEF History!ToSet
<1>4. [i \in DOMAIN list |-> list[i]] \in Surjection(DOMAIN list, History!ToSet(list))
  BY <1>3 DEF Surjection
<1>5. IsFiniteSet(History!ToSet(list))
  BY <1>2, <1>4, FS_Surjection
<1> QED BY <1>1, <1>5, FS_CardinalityType

(* The counts of the rows that match, now and after a step.                *)
LEMMA MatchingIsCounted ==
  HistoryRowsOK =>
    /\ IsFiniteSet(Matching) /\ Cardinality(Matching) \in Nat /\ Matching \subseteq DOMAIN rows
    /\ \A i : IsFiniteSet(Ahead(i)) /\ Cardinality(Ahead(i)) \in Nat
    /\ \A i : Place(i) = Cardinality(Ahead(i)) + 1
    /\ \A i \in Matching : Place(i) \in 1 .. Cardinality(Matching)
<1>1. \A i : Place(i) = Cardinality(Ahead(i)) + 1
  BY SameCardinality DEF Place
<1> QED BY <1>1, MatchingIsFinite, PlacesAreCounted

(* The same of the state after a step.                                     *)
LEMMA MatchingIsCountedNext ==
  HistoryRowsOK' =>
    /\ IsFiniteSet(Matching') /\ Cardinality(Matching') \in Nat /\ Matching' \subseteq DOMAIN rows'
    /\ \A i : IsFiniteSet(Ahead(i)') /\ Cardinality(Ahead(i)') \in Nat
    /\ \A i : Place(i)' = Cardinality(Ahead(i)') + 1
    /\ \A i \in Matching' : Place(i)' \in 1 .. Cardinality(Matching')
<1>1. (HistoryRowsOK =>
    /\ IsFiniteSet(Matching) /\ Cardinality(Matching) \in Nat /\ Matching \subseteq DOMAIN rows
    /\ \A i : IsFiniteSet(Ahead(i)) /\ Cardinality(Ahead(i)) \in Nat
    /\ \A i : Place(i) = Cardinality(Ahead(i)) + 1
    /\ \A i \in Matching : Place(i) \in 1 .. Cardinality(Matching))'
  BY MatchingIsCounted, PTL
<1> QED BY <1>1

(* A row of the beginning that was read stays read, and the ones that come *)
(* before the offset were before it.                                       *)
LEMMA MoveKeepsHistory ==
  ASSUME HistoryInv, NEW t \in Tanks, NEW s \in States, History!Move(t, s)
  PROVE  HistoryInv'
<1>1. UNCHANGED <<clock, choice, period, offset, allRows, began, report>>
  BY DEF History!Move
<1>2. HistoryRowsOK /\ FiltersOK /\ HistoryRowsOK'
  BY MoveKeepsHistoryRows DEF HistoryInv
<1>3. Len(rows') = Len(rows) + 1 /\ Len(rows) \in Nat /\ DOMAIN rows = 1 .. Len(rows)
  BY <1>2, MovedPeriods
<1>4. FiltersOK'
  <2>1. began' \in 0 .. Len(rows')
    BY <1>1, <1>2, <1>3 DEF FiltersOK
  <2> QED BY <1>1, <1>2, <2>1 DEF FiltersOK, PagesSuffice, History!HistoryAssumption, History!DayStart
<1>5. began \in Nat /\ began <= Len(rows)
  BY <1>2, <1>3 DEF FiltersOK
<1>6. ASSUME offset # History!NotReading PROVE ReadSoFar'
  <2>1. ReadSoFar
    BY <1>6 DEF HistoryInv
  <2>2. offset > 0 => clock' >= History!DayStart(period[1])'
    BY <1>1, <2>1 DEF ReadSoFar, History!DayStart
  <2>3. IsFiniteSet(Matching') /\ Cardinality(Matching') \in Nat
    BY <1>2, MatchingIsCountedNext
  <2>4. offset <= Cardinality(Matching')
    <3>1. CASE offset = 0
      BY <2>3, <3>1
    <3>2. CASE offset # 0
      <4>1. clock >= History!DayStart(period[1])
        BY <2>1, <3>2 DEF ReadSoFar
      <4>2. Matching \subseteq Matching'
        BY <1>2, <4>1, MoveAndMatching
      <4>3. Cardinality(Matching) <= Cardinality(Matching') /\ Cardinality(Matching) \in Nat
        BY <1>2, <2>3, <4>2, FS_Subset, MatchingIsCounted
      <4> QED BY <2>1, <2>3, <4>3 DEF ReadSoFar
    <3> QED BY <3>1, <3>2
  <2>5. ASSUME NEW i \in Matching', i <= began, Place(i)' <= offset
        PROVE  i \in History!ToSet(allRows)
    <3>1. Place(i)' \in 1 .. Cardinality(Matching')
      BY <1>2, MatchingIsCountedNext
    <3>2. offset # 0 /\ offset \in Nat
      BY <2>1, <2>3, <2>5, <3>1 DEF ReadSoFar
    <3>3. clock >= History!DayStart(period[1])
      BY <2>1, <3>2 DEF ReadSoFar
    <3>4. i \in DOMAIN rows
      <4>1. i \in DOMAIN rows' /\ DOMAIN rows' = 1 .. (Len(rows) + 1)
        BY <1>2, MatchingIsCountedNext, MovedPeriods
      <4> QED BY <1>3, <1>5, <2>5, <4>1
    <3>5. i \in Matching /\ Ahead(i) \subseteq Ahead(i)'
      <4>1. i \in Matching
        BY <1>2, <2>5, <3>4, MoveAndMatching
      <4> QED BY <1>2, <3>3, <4>1, MoveAndMatching
    <3>6. IsFiniteSet(Ahead(i)') /\ Cardinality(Ahead(i)') \in Nat
      BY <1>2, MatchingIsCountedNext
    <3>7. Cardinality(Ahead(i)) <= Cardinality(Ahead(i)') /\ Cardinality(Ahead(i)) \in Nat
      BY <1>2, <3>5, <3>6, FS_Subset, MatchingIsCounted
    <3>8. Place(i)' = Cardinality(Ahead(i)') + 1 /\ Place(i) = Cardinality(Ahead(i)) + 1
      BY <1>2, MatchingIsCounted, MatchingIsCountedNext
    <3>9. Place(i) <= offset
      BY <2>5, <3>2, <3>6, <3>7, <3>8
    <3> QED BY <2>1, <2>5, <3>5, <3>9 DEF ReadSoFar
  <2> QED BY <1>1, <2>1, <2>2, <2>4, <2>5 DEF ReadSoFar
<1>7. ASSUME report PROVE DownloadOK'
  <2>1. DownloadOK
    BY <1>7 DEF HistoryInv
  <2>2. \A i \in 1 .. began : i \in DOMAIN rows
    BY <1>3, <1>5
  <2>3. ASSUME NEW i \in 1 .. began,
               History!Meets(i)', History!OfState(choice, rows[i].state)'
        PROVE  i \in History!ToSet(allRows)
    <3>1. i \in DOMAIN rows
      BY <2>2, <2>3
    <3>2. History!Meets(i)
      BY <1>2, <2>3, <3>1, MoveAndMatching
    <3>3. History!OfState(choice, rows[i].state)
      BY <1>2, <2>3, <3>1, MoveAndMatching
    <3> QED BY <2>1, <3>2, <3>3 DEF DownloadOK
  <2>4. Len(allRows) - Cardinality(History!ToSet(allRows)) <= Len(rows')  - began
    <3>1. Len(allRows) \in Nat /\ Cardinality(History!ToSet(allRows)) \in Nat
      BY ReadIsFinite DEF HistoryInv
    <3> QED BY <1>3, <1>5, <2>1, <3>1 DEF DownloadOK
  <2> QED BY <1>1, <2>3, <2>4 DEF DownloadOK
<1>8. (\E S : allRows' \in Seq(S)) /\ report' \in BOOLEAN
  BY <1>1 DEF HistoryInv
<1> QED BY <1>1, <1>2, <1>4, <1>6, <1>7, <1>8 DEF HistoryInv

(* The clock and the requests of the PDF.                                  *)
LEMMA ClockKeepsHistory == ASSUME HistoryInv, History!Tick PROVE HistoryInv'
<1>1. UNCHANGED <<rows, choice, period, offset, allRows, began, report>> /\ clock' = clock + 1
  BY DEF History!Tick
<1>2. HistoryRowsOK'
  <2>1. rows \in Seq(HistoryRows) /\ clock \in Nat \ {0}
    BY DEF HistoryInv, HistoryRowsOK
  <2>2. \A i \in DOMAIN rows : rows[i].end <= clock + 1
    <3>1. \A i \in DOMAIN rows : rows[i].end <= clock /\ rows[i].end \in Nat
      BY RowFields DEF HistoryInv, HistoryRowsOK
    <3> QED BY <2>1, <3>1
  <2> QED BY <1>1, <2>1, <2>2 DEF HistoryInv, HistoryRowsOK
<1>3. FiltersOK'
  BY <1>1 DEF HistoryInv, FiltersOK, PagesSuffice, History!HistoryAssumption, History!DayStart
<1>4. ASSUME offset # History!NotReading PROVE ReadSoFar'
  <2>1. ReadSoFar /\ FiltersOK
    BY <1>4 DEF HistoryInv
  <2>2. offset > 0 => clock' >= History!DayStart(period[1])
    <3>1. clock \in Nat /\ History!DayStart(period[1]) \in Int
      BY <2>1, DaysAreNumbers DEF HistoryInv, HistoryRowsOK
    <3> QED BY <1>1, <2>1, <3>1 DEF ReadSoFar
  <2>3. /\ Matching' = Matching /\ \A i : Place(i)' = Place(i)
        /\ History!DayStart(period[1])' = History!DayStart(period[1])
    BY <1>1 DEF Matching, Place, Ahead, History!Ids, History!Where, History!OfState, History!Asked,
         History!DayStart, History!DayEnd, History!EndsAfter, History!OrderBy
  <2>4. \A i \in Matching' : i <= began /\ Place(i)' <= offset => i \in History!ToSet(allRows)
    BY <2>1, <2>3 DEF ReadSoFar
  <2> QED BY <1>1, <2>1, <2>2, <2>3, <2>4 DEF ReadSoFar
<1>5. report => DownloadOK'
  BY <1>1 DEF HistoryInv, DownloadOK, History!Meets, History!OfState, History!Asked,
         History!DayStart, History!DayEnd
<1>6. (\E S : allRows' \in Seq(S)) /\ report' \in BOOLEAN
  BY <1>1 DEF HistoryInv
<1> QED BY <1>1, <1>2, <1>3, <1>4, <1>5, <1>6 DEF HistoryInv

(* What the rows and filters say stays while they do.                      *)
LEMMA SameRows ==
  ASSUME UNCHANGED <<clock, rows, choice, period>>
  PROVE  /\ HistoryRowsOK => HistoryRowsOK'
         /\ Matching' = Matching /\ \A i : Place(i)' = Place(i)
         /\ History!DayStart(period[1])' = History!DayStart(period[1])
         /\ \A i : /\ History!Meets(i)' <=> History!Meets(i)
                   /\ History!OfState(choice, rows[i].state)' <=> History!OfState(choice, rows[i].state)
BY DEF HistoryRowsOK, Matching, Place, Ahead, History!Ids, History!Where, History!OfState, History!Asked,
       History!DayStart, History!DayEnd, History!EndsAfter, History!OrderBy, History!Meets

(* A PDF that is begun, or given up, has read nothing.                     *)
LEMMA BeginKeepsHistory ==
  ASSUME HistoryInv, History!DownloadSummary \/ History!FailPage PROVE HistoryInv'
<1>1. UNCHANGED <<clock, rows, choice, period>> /\ allRows' = <<>>
  BY DEF History!DownloadSummary, History!FailPage
<1>2. HistoryRowsOK'
  BY <1>1, SameRows DEF HistoryInv
<1>3. Len(rows) \in Nat
  BY DEF HistoryInv, HistoryRowsOK
<1>4. FiltersOK'
  <2>1. began' \in 0 .. Len(rows)
    BY <1>3 DEF HistoryInv, FiltersOK, History!DownloadSummary, History!FailPage
  <2> QED BY <1>1, <2>1 DEF HistoryInv, FiltersOK, PagesSuffice, History!HistoryAssumption,
            History!DayStart
<1>5. \E S : allRows' \in Seq(S)
  <2>1. <<>> \in Seq(Nat)
    OBVIOUS
  <2> QED BY <1>1, <2>1
<1>6. report' = FALSE
  <2>1. CASE History!DownloadSummary
    BY <2>1 DEF History!DownloadSummary
  <2>2. CASE History!FailPage
    BY <2>2 DEF History!FailPage, HistoryInv, ReadSoFar
  <2> QED BY <2>1, <2>2
<1>7. ASSUME offset' # History!NotReading PROVE ReadSoFar'
  <2>1. offset' = 0
    BY <1>7 DEF History!DownloadSummary, History!FailPage
  <2>2. Len(<<>>) = 0
    OBVIOUS
  <2>3. 0 <= Cardinality(Matching)'
    BY <1>2, MatchingIsCountedNext
  <2>4. \A i \in Matching' : ~ (Place(i)' <= 0)
    <3>1. \A i \in Matching' : Place(i)' \in 1 .. Cardinality(Matching')
      BY <1>2, MatchingIsCountedNext
    <3> QED BY <3>1
  <2> QED BY <1>1, <1>6, <2>1, <2>2, <2>3, <2>4 DEF ReadSoFar
<1> QED BY <1>2, <1>4, <1>5, <1>6, <1>7 DEF HistoryInv

(* A first page that is full was asked when its days had begun.            *)
LEMMA FullPageIsOfDaysBegun ==
  ASSUME HistoryRowsOK, FiltersOK, PageSize <= Cardinality(Matching)
  PROVE  clock >= History!DayStart(period[1])
<1> DEFINE from == History!DayStart(period[1])
<1>1. clock \in Nat \ {0} /\ from \in Int /\ PageSize \in Nat \ {0} /\ DayLength \in Nat \ {0}
  BY DaysAreNumbers DEF HistoryRowsOK, FiltersOK, History!HistoryAssumption
<1>2. CASE \A p \in Periods : History!DayStart(p[1]) <= 1
  <2>1. period \in Periods
    BY DEF FiltersOK
  <2>2. from <= 1
    BY <1>2, <2>1
  <2> HIDE DEF from
  <2>3. clock >= from
    BY <1>1, <2>2
  <2> QED BY <2>3 DEF from
<1>3. CASE period[1] = -1
  <2>1. from = period[1] * DayLength
    BY DEF History!DayStart
  <2>2. from < 0
    BY <1>1, <1>3, <2>1
  <2> QED BY <1>1, <2>2
<1>4. CASE Cardinality(Tanks) < PageSize /\ period[1] # -1
  <2>1. SUFFICES ASSUME clock < from PROVE FALSE
    BY <1>1
  <2> HIDE DEF from
  <2>2. ASSUME NEW i \in Matching PROVE i \in DOMAIN rows /\ rows[i].end = 0 /\ rows[i].tank \in Tanks
    <3>1. i \in DOMAIN rows /\ (rows[i].end = 0 \/ rows[i].end >= from)
      BY <1>4 DEF Matching, History!Ids, History!Where, History!EndsAfter, History!Open, from
    <3>2. rows[i].end <= clock /\ rows[i].end \in Nat /\ rows[i].tank \in Tanks
      BY <3>1, RowFields DEF HistoryRowsOK
    <3> QED BY <1>1, <2>1, <3>1, <3>2
  <2> DEFINE tank == [i \in Matching |-> rows[i].tank]
  <2>3. \A i, j \in Matching : rows[i].tank = rows[j].tank => i = j
    BY <2>2 DEF HistoryRowsOK
  <2>4. tank \in Injection(Matching, Tanks)
    BY <2>2, <2>3 DEF Injection, IsInjective
  <2>5. IsFiniteSet(Tanks)
    BY DEF FiltersOK, History!HistoryAssumption, History!IsFiniteSet, IsFiniteSet
  <2> HIDE DEF tank
  <2>6. Cardinality(Matching) <= Cardinality(Tanks)
    BY <2>4, <2>5, FS_Injection
  <2>7. Cardinality(Matching) \in Nat /\ Cardinality(Tanks) \in Nat
    BY <2>5, MatchingIsCounted, FS_CardinalityType
  <2> QED BY <1>1, <1>4, <2>6, <2>7
<1> QED BY <1>2, <1>3, <1>4 DEF FiltersOK, PagesSuffice

(* A page that is read: what lies before the new offset is read, and the   *)
(* last page leaves nothing out.                                           *)
LEMMA ReadKeepsHistory == ASSUME HistoryInv, History!ReadPage PROVE HistoryInv'
<1> DEFINE k == offset
           page == History!Page(k)
           rest == Cardinality(Matching) - k
           last == IF PageSize < rest THEN PageSize ELSE rest
           whole == allRows \o page
<1>1. /\ UNCHANGED <<clock, rows, choice, period, began>> /\ offset # History!NotReading
      /\ allRows' = whole
      /\ IF Len(page) < PageSize
         THEN offset' = History!NotReading /\ report' = TRUE
         ELSE offset' = offset + PageSize /\ report' = FALSE
  BY DEF History!ReadPage
<1>2. HistoryRowsOK /\ FiltersOK /\ ReadSoFar
  BY <1>1 DEF HistoryInv
<1>3. k \in Nat /\ k <= Cardinality(Matching) /\ Len(allRows) = k
  BY <1>2 DEF ReadSoFar
<1>4. /\ page \in Seq(Nat \cup {page[n] : n \in DOMAIN page}) /\ Len(page) = last
      /\ \A i \in Matching : Place(i) \in (k + 1) .. (k + Len(page)) =>
           \E n \in DOMAIN page : page[n] = i
  BY <1>2, <1>3, PageSpans
<1>5. PICK S : allRows \in Seq(S)
  BY DEF HistoryInv
<1>6. Cardinality(Matching) \in Nat /\ PageSize \in Nat \ {0}
  BY <1>2, MatchingIsCounted DEF FiltersOK, History!HistoryAssumption
<1>7. rest \in Nat /\ last \in Nat /\ last <= rest /\ last <= PageSize
  BY <1>3, <1>6
<1>8. began \in Nat /\ began <= Len(rows) /\ Len(rows) \in Nat /\ DOMAIN rows = 1 .. Len(rows)
  BY <1>2 DEF HistoryRowsOK, FiltersOK
<1> DEFINE T == S \cup Nat \cup {page[n] : n \in DOMAIN page}
<1> HIDE DEF k, page, rest, last
<1>9. /\ whole \in Seq(T) /\ Len(whole) = k + last
      /\ History!ToSet(allRows) \subseteq History!ToSet(whole)
      /\ \A n \in DOMAIN page : page[n] \in History!ToSet(whole)
  <2>1. allRows \in Seq(T) /\ page \in Seq(T)
    BY <1>4, <1>5
  <2> HIDE DEF T
  <2>2. /\ Len(allRows) = k /\ DOMAIN allRows = 1 .. k /\ Len(page) = last /\ DOMAIN page = 1 .. last
    BY <1>3, <1>4, <2>1
  <2>3. whole \in Seq(T) /\ Len(whole) = k + last
    BY <2>1, <2>2
  <2>4. DOMAIN whole = 1 .. (k + last)
    BY <2>3
  <2>5. \A n \in 1 .. k : whole[n] = allRows[n]
    BY <1>3, <1>7, <2>1, <2>2
  <2>6. \A n \in 1 .. last : whole[k + n] = page[n]
    BY <1>3, <1>7, <2>1, <2>2
  <2> HIDE DEF whole
  <2>7. ASSUME NEW n \in 1 .. k PROVE allRows[n] \in History!ToSet(whole)
    <3>1. n \in DOMAIN whole
      BY <1>3, <1>7, <2>4
    <3> QED BY <2>5, <3>1 DEF History!ToSet
  <2>8. ASSUME NEW n \in 1 .. last PROVE page[n] \in History!ToSet(whole)
    <3>1. k + n \in DOMAIN whole
      BY <1>3, <1>7, <2>4
    <3> QED BY <2>6, <3>1 DEF History!ToSet
  <2>9. History!ToSet(allRows) \subseteq History!ToSet(whole)
    BY <2>2, <2>7 DEF History!ToSet
  <2> QED BY <2>2, <2>3, <2>8, <2>9
<1> HIDE DEF whole, T
<1>10. ASSUME NEW i \in Matching, i <= began, Place(i) <= k + last
       PROVE  i \in History!ToSet(whole)
  <2>1. Place(i) \in 1 .. Cardinality(Matching)
    BY <1>2, MatchingIsCounted
  <2>2. CASE Place(i) <= k
    <3>1. i \in History!ToSet(allRows)
      BY <1>2, <1>10, <2>2 DEF ReadSoFar, k
    <3> QED BY <1>9, <3>1
  <2>3. CASE ~ (Place(i) <= k)
    <3>1. Place(i) \in (k + 1) .. (k + Len(page))
      BY <1>3, <1>4, <1>7, <1>10, <2>1, <2>3
    <3> QED BY <1>4, <1>9, <3>1
  <2> QED BY <2>2, <2>3
<1>11. HistoryRowsOK' /\ FiltersOK'
  <2>1. HistoryRowsOK'
    BY <1>1, <1>2, SameRows
  <2> QED BY <1>1, <1>2, <2>1 DEF FiltersOK, PagesSuffice, History!HistoryAssumption,
            History!DayStart
<1>12. (\E U : allRows' \in Seq(U)) /\ report' \in BOOLEAN
  BY <1>1, <1>9
<1>13. CASE ~ (Len(page) < PageSize)
  <2>1. last = PageSize /\ PageSize <= rest
    BY <1>4, <1>6, <1>7, <1>13 DEF last
  <2>2. k + PageSize <= Cardinality(Matching) /\ PageSize <= Cardinality(Matching)
    BY <1>3, <1>6, <2>1 DEF rest
  <2>3. clock >= History!DayStart(period[1])
    BY <1>2, <2>2, FullPageIsOfDaysBegun
  <2>4. offset' = k + PageSize /\ report' = FALSE
    BY <1>1, <1>13 DEF k
  <2>5. Matching' = Matching /\ \A i : Place(i)' = Place(i)
    BY <1>1, SameRows
  <2>6. History!DayStart(period[1])' = History!DayStart(period[1])
    BY <1>1, SameRows
  <2>7. \A i \in Matching' : i <= began' /\ Place(i)' <= offset' => i \in History!ToSet(allRows')
    BY <1>1, <1>10, <2>1, <2>4, <2>5
  <2>8. offset' \in Nat /\ Len(allRows') = offset' /\ clock' >= History!DayStart(period[1])'
    BY <1>1, <1>3, <1>6, <1>9, <2>1, <2>3, <2>4, <2>6
  <2>9. offset' <= Cardinality(Matching)'
    BY <2>2, <2>4, <2>5
  <2>10. ReadSoFar'
    <3> HIDE DEF History!DayStart
    <3> QED BY <2>4, <2>7, <2>8, <2>9 DEF ReadSoFar
  <2> QED BY <1>11, <1>12, <2>4, <2>10 DEF HistoryInv
<1>14. CASE Len(page) < PageSize
  <2>1. k + last = Cardinality(Matching)
    BY <1>3, <1>4, <1>6, <1>14 DEF rest, last
  <2>2. offset' = History!NotReading /\ report' = TRUE
    BY <1>1, <1>14
  <2>3. ASSUME NEW i \in Matching, i <= began PROVE i \in History!ToSet(whole)
    <3>1. Place(i) \in 1 .. Cardinality(Matching)
      BY <1>2, MatchingIsCounted
    <3> QED BY <1>6, <1>10, <2>1, <2>3, <3>1
  <2>4. ASSUME NEW i \in 1 .. began,
               History!Meets(i), History!OfState(choice, rows[i].state)
        PROVE  i \in History!ToSet(whole)
    <3>1. i \in DOMAIN rows /\ i <= began
      BY <1>8
    <3>2. i \in Matching
      BY <1>2, <2>4, <3>1, WhereIsMeets DEF Matching, History!Ids
    <3> QED BY <2>3, <3>1, <3>2
  <2>5. Len(whole) - Cardinality(History!ToSet(whole)) <= Len(rows) - began
    <3> DEFINE old == {i \in Matching : i <= began}
               new == (began + 1) .. Len(rows)
    <3>1. Matching \subseteq old \cup new
      <4>1. \A i \in Matching : i \in 1 .. Len(rows)
        BY <1>2, <1>8, MatchingIsCounted
      <4> QED BY <1>8, <4>1
    <3>2. old \subseteq History!ToSet(whole)
      BY <2>3
    <3>3. IsFiniteSet(new) /\ Cardinality(new) = Len(rows) - began
      <4>1. /\ IsFiniteSet(new)
            /\ Cardinality(new) = IF began + 1 > Len(rows) THEN 0 ELSE Len(rows) - (began + 1) + 1
        <5>1. began + 1 \in Int /\ Len(rows) \in Int
          BY <1>8
        <5> QED BY <5>1, FS_Interval
      <4> QED BY <1>8, <4>1
    <3>4. IsFiniteSet(History!ToSet(whole)) /\ Cardinality(History!ToSet(whole)) \in Nat
      BY <1>9, ReadIsFinite
    <3> HIDE DEF old, new
    <3>5. /\ IsFiniteSet(History!ToSet(whole) \cup new) /\ Matching \subseteq History!ToSet(whole) \cup new
          /\ Cardinality(History!ToSet(whole) \cup new) =
               Cardinality(History!ToSet(whole)) + Cardinality(new)
                 - Cardinality(History!ToSet(whole) \cap new)
      BY <3>1, <3>2, <3>3, <3>4, FS_Union
    <3>6. Cardinality(Matching) <= Cardinality(History!ToSet(whole) \cup new)
      BY <3>5, FS_Subset
    <3>7. Cardinality(History!ToSet(whole) \cap new) \in Nat
      <4>1. IsFiniteSet(History!ToSet(whole) \cap new)
        BY <3>3, FS_Subset
      <4> QED BY <4>1, FS_CardinalityType
    <3> QED BY <1>6, <1>8, <1>9, <2>1, <3>3, <3>4, <3>5, <3>6, <3>7
  <2>6. \A i : /\ History!Meets(i)' <=> History!Meets(i)
               /\ History!OfState(choice, rows[i].state)' <=> History!OfState(choice, rows[i].state)
    BY <1>1, SameRows
  <2>7. \A i \in 1 .. began' :
          History!Meets(i)' /\ History!OfState(choice, rows[i].state)' => i \in History!ToSet(allRows')
    BY <1>1, <2>4, <2>6
  <2>8. Len(allRows') - Cardinality(History!ToSet(allRows')) <= Len(rows') - began'
    BY <1>1, <2>5
  <2>9. DownloadOK'
    BY <2>7, <2>8 DEF DownloadOK
  <2> QED BY <1>11, <1>12, <2>2, <2>9 DEF HistoryInv
<1> QED BY <1>13, <1>14

(* Every step keeps the invariant.                                         *)
LEMMA HistoryStep == HistoryInv /\ [History!Next]_(History!vars) => HistoryInv'
<1> SUFFICES ASSUME HistoryInv, [History!Next]_(History!vars) PROVE HistoryInv'
  OBVIOUS
<1>1. CASE UNCHANGED History!vars
  <2>1. UNCHANGED <<clock, rows, choice, period, offset, allRows, began, report>>
    BY <1>1 DEF History!vars
  <2>2. HistoryRowsOK'
    BY <2>1, SameRows DEF HistoryInv
  <2>3. FiltersOK'
    BY <2>1 DEF HistoryInv, FiltersOK, PagesSuffice, History!HistoryAssumption, History!DayStart
  <2>4. offset # History!NotReading => ReadSoFar'
    BY <2>1, SameRows DEF HistoryInv, ReadSoFar
  <2>5. report => DownloadOK'
    BY <2>1, SameRows DEF HistoryInv, DownloadOK
  <2> QED BY <2>1, <2>2, <2>3, <2>4, <2>5 DEF HistoryInv
<1> QED BY <1>1, ClockKeepsHistory, BeginKeepsHistory, ReadKeepsHistory, MoveKeepsHistory
      DEF History!Next

(* The PDF of the history holds every row of the chosen days there was when*)
(* it was begun, and repeats a row only for one that was added meanwhile,  *)
(* however tanks move while its pages are read, for any tanks, states,     *)
(* filters and sizes of page (history of plant.service.ts; downloadSummary *)
(* of PlantHistoryPage.tsx).                                               *)
THEOREM ReportIsWhole ==
  History!HistoryAssumption /\ PagesSuffice =>
    (History!Spec => [](History!ReportMissesNothing /\ History!RepeatsAreOfNewRows))
<1>1. HistoryInv => History!ReportMissesNothing /\ History!RepeatsAreOfNewRows
  BY SameCardinality DEF HistoryInv, DownloadOK, History!ReportMissesNothing,
     History!RepeatsAreOfNewRows
<1> QED BY <1>1, HistoryStart, HistoryStep, PTL DEF History!Spec

(***************************************************************************)
(* The pages of the audit log.                                             *)
(***************************************************************************)
CONSTANTS Newest, Filters, Limit, MaxEvents, MaxReads
VARIABLES source, committed, filter, page, reading, asked, reads, walk

Audit == INSTANCE AuditPages

LEMMA SameCount == \A S : Audit!Cardinality(S) = Cardinality(S)
<1> SUFFICES ASSUME NEW S PROVE Audit!Cardinality(S) = Cardinality(S)
  OBVIOUS
<1> QED BY DEF Audit!Cardinality, Cardinality

(* Counted S: a finite set of events.                                      *)
Counted(S) == S \subseteq Nat /\ IsFiniteSet(S)
EventsAhead(S, e) == {d \in S : Audit!Before(d, e)}

LEMMA PlaceIsCounted ==
  ASSUME NEW S, Counted(S), NEW e \in Nat
  PROVE  /\ IsFiniteSet(EventsAhead(S, e)) /\ Cardinality(S) \in Nat
         /\ Audit!Place(S, e) = Cardinality(EventsAhead(S, e)) + 1
         /\ Audit!Place(S, e) \in Nat \ {0}
         /\ e \in S => Audit!Place(S, e) <= Cardinality(S)
<1>1. /\ IsFiniteSet(EventsAhead(S, e)) /\ Cardinality(EventsAhead(S, e)) \in Nat
      /\ Cardinality(S) \in Nat
  BY FS_Subset, FS_CardinalityType DEF EventsAhead, Counted
<1>2. Audit!Place(S, e) = Cardinality(EventsAhead(S, e)) + 1
  BY SameCount DEF Audit!Place, EventsAhead
<1>3. ASSUME e \in S PROVE Cardinality(EventsAhead(S, e)) <= Cardinality(S) - 1
  <2>1. EventsAhead(S, e) \subseteq S \ {e}
    BY DEF EventsAhead, Audit!Before
  <2>2. IsFiniteSet(S \ {e}) /\ Cardinality(S \ {e}) = Cardinality(S) - 1
    BY <1>3, FS_RemoveElement DEF Counted
  <2> QED BY <2>1, <2>2, FS_Subset
<1> QED BY <1>1, <1>2, <1>3

(* What is added to a log puts no row nearer to its beginning.             *)
LEMMA PlaceOnlyGrows ==
  ASSUME NEW T, Counted(T), NEW S, S \subseteq T, NEW e \in Nat
  PROVE  Counted(S) /\ Audit!Place(S, e) <= Audit!Place(T, e) /\ Cardinality(S) <= Cardinality(T)
<1>1. Counted(S) /\ Cardinality(S) <= Cardinality(T)
  BY FS_Subset DEF Counted
<1>2. EventsAhead(S, e) \subseteq EventsAhead(T, e)
  BY DEF EventsAhead
<1>3. Cardinality(EventsAhead(S, e)) <= Cardinality(EventsAhead(T, e))
  BY <1>2, PlaceIsCounted, FS_Subset
<1>4. /\ Audit!Place(S, e) = Cardinality(EventsAhead(S, e)) + 1
      /\ Audit!Place(T, e) = Cardinality(EventsAhead(T, e)) + 1
      /\ Cardinality(EventsAhead(S, e)) \in Nat /\ Cardinality(EventsAhead(T, e)) \in Nat
  BY <1>1, PlaceIsCounted, FS_CardinalityType
<1> QED BY <1>1, <1>3, <1>4

(* Places follow the order: two rows have two places.                      *)
LEMMA PlaceFollowsOrder ==
  ASSUME NEW S, Counted(S), NEW a \in S, NEW b \in S
  PROVE  /\ Audit!Before(a, b) => Audit!Place(S, a) < Audit!Place(S, b)
         /\ Audit!Place(S, a) = Audit!Place(S, b) => a = b
<1>1. a \in Nat /\ b \in Nat /\ \A c \in S : c \in Nat
  BY DEF Counted
<1>2. ASSUME NEW x \in S, NEW y \in S, Audit!Before(x, y)
      PROVE  Audit!Place(S, x) < Audit!Place(S, y)
  <2>1. EventsAhead(S, x) \subseteq EventsAhead(S, y)
    <3>1. ASSUME NEW d \in S, Audit!Before(d, x) PROVE Audit!Before(d, y)
      <4>1. d \in Nat /\ x \in Nat /\ y \in Nat
        BY <1>1
      <4> QED BY <4>1, <3>1, <1>2 DEF Audit!Before
    <3> QED BY <3>1 DEF EventsAhead
  <2>2. x \in EventsAhead(S, y) /\ x \notin EventsAhead(S, x)
    BY <1>1, <1>2 DEF EventsAhead, Audit!Before
  <2>3. IsFiniteSet(EventsAhead(S, y)) /\ x \in Nat /\ y \in Nat
    BY <1>1, PlaceIsCounted
  <2>4. /\ Cardinality(EventsAhead(S, x)) <= Cardinality(EventsAhead(S, y))
        /\ Cardinality(EventsAhead(S, x)) = Cardinality(EventsAhead(S, y)) =>
             EventsAhead(S, x) = EventsAhead(S, y)
    BY <2>1, <2>3, FS_Subset
  <2>5. /\ Audit!Place(S, x) = Cardinality(EventsAhead(S, x)) + 1
        /\ Audit!Place(S, y) = Cardinality(EventsAhead(S, y)) + 1
        /\ Cardinality(EventsAhead(S, x)) \in Nat /\ Cardinality(EventsAhead(S, y)) \in Nat
    BY <2>3, PlaceIsCounted, FS_CardinalityType
  <2> QED BY <2>2, <2>4, <2>5
<1>3. a = b \/ Audit!Before(a, b) \/ Audit!Before(b, a)
  BY <1>1 DEF Audit!Before
<1>4. Audit!Place(S, a) \in Nat /\ Audit!Place(S, b) \in Nat
  BY <1>1, PlaceIsCounted
<1> QED BY <1>2, <1>3, <1>4

(* Every place up to the number of rows is some row's.                     *)
LEMMA EveryPlaceIsTaken ==
  ASSUME NEW S, Counted(S), NEW n \in 1 .. Cardinality(S)
  PROVE  \E e \in S : Audit!Place(S, e) = n
<1> DEFINE count == Cardinality(S)
           place == [e \in S |-> Audit!Place(S, e)]
<1>1. count \in Nat /\ IsFiniteSet(1 .. count) /\ Cardinality(1 .. count) = count
  BY FS_CardinalityType, FS_Interval DEF Counted
<1>2. \A e \in S : e \in Nat /\ Audit!Place(S, e) \in 1 .. count
  <2>1. ASSUME NEW e \in S PROVE e \in Nat /\ Audit!Place(S, e) \in 1 .. count
    <3>1. e \in Nat
      BY DEF Counted
    <3>2. Audit!Place(S, e) \in Nat \ {0} /\ Audit!Place(S, e) <= count
      BY <3>1, PlaceIsCounted
    <3> QED BY <1>1, <3>1, <3>2
  <2> QED BY <2>1
<1>3. place \in Injection(S, 1 .. count)
  BY <1>2, PlaceFollowsOrder DEF Injection, IsInjective
<1> HIDE DEF place
<1>4. place \in Surjection(S, 1 .. count)
  BY <1>1, <1>3, FS_Injection DEF Counted
<1>5. PICK e \in S : place[e] = n
  BY <1>4 DEF Surjection
<1> QED BY <1>5 DEF place

(* Where a page begins and ends.                                           *)
LEMMA PageBounds ==
  ASSUME Limit \in Nat \ {0}, NEW p \in Nat \ {0}
  PROVE  /\ (p - 1) * Limit \in Nat /\ p * Limit \in Nat
         /\ p * Limit = (p - 1) * Limit + Limit /\ p <= p * Limit
         /\ \A q \in Nat : q <= p => q * Limit <= p * Limit
<1>1. (p - 1) * Limit \in Nat /\ p * Limit \in Nat
  OBVIOUS
<1>2. p * Limit = (p - 1) * Limit + Limit
  OBVIOUS
<1>3. ASSUME NEW q \in Nat, q <= p PROVE q * Limit <= p * Limit
  <2>1. (p - q) * Limit \in Nat
    BY <1>3
  <2>2. (p - q) * Limit = p * Limit - q * Limit
    OBVIOUS
  <2>3. q * Limit \in Nat
    OBVIOUS
  <2> QED BY <1>1, <2>1, <2>2, <2>3
<1>4. p <= p * Limit
  <2>1. p * (Limit - 1) \in Nat
    OBVIOUS
  <2>2. p * (Limit - 1) = p * Limit - p
    OBVIOUS
  <2> QED BY <1>1, <2>1, <2>2
<1> QED BY <1>1, <1>2, <1>3, <1>4

(* The number of pages is enough for the rows, and none of them is empty.  *)
LEMMA PagesAreCounted ==
  ASSUME Limit \in Nat \ {0}, NEW t \in Nat, NEW g \in Nat \ {0}
  PROVE  /\ g < Audit!TotalPages(t) => g * Limit < t
         /\ g >= Audit!TotalPages(t) => t <= g * Limit
<1> DEFINE d == (t + Limit - 1) \div Limit
           most == IF d >= 1 THEN d ELSE 1
<1>1. d \in Nat /\ Limit * d <= t + Limit - 1 /\ t + Limit - 1 < Limit * d + Limit
  OBVIOUS
<1> HIDE DEF d
<1>2. Audit!Max({d, 1}) = most
  <2>1. most \in {d, 1} /\ \A y \in {d, 1} : most >= y
    BY <1>1
  <2>2. ASSUME NEW x \in {d, 1}, \A y \in {d, 1} : x >= y PROVE x = most
    BY <1>1, <2>2
  <2> HIDE DEF most
  <2> QED BY <2>1, <2>2 DEF Audit!Max
<1>3. Audit!TotalPages(t) = most
  BY <1>2 DEF Audit!TotalPages, d
<1>4. g * Limit \in Nat /\ Limit * d \in Nat
  BY <1>1
<1>5. ASSUME g < most PROVE g * Limit < t
  <2>1. g < d
    BY <1>1, <1>5
  <2>2. Limit * (d - g - 1) \in Nat
    BY <1>1, <2>1
  <2>3. Limit * (d - g - 1) = Limit * d - g * Limit - Limit
    BY <1>1
  <2> QED BY <1>1, <1>4, <2>2, <2>3
<1>6. ASSUME g >= most PROVE t <= g * Limit
  <2>1. g >= d
    BY <1>1, <1>6
  <2>2. Limit * (g - d) \in Nat
    BY <1>1, <2>1
  <2>3. Limit * (g - d) = g * Limit - Limit * d
    BY <1>1
  <2> QED BY <1>1, <1>4, <2>2, <2>3
<1>7. most \in Nat
  BY <1>1
<1> QED BY <1>3, <1>5, <1>6, <1>7

(* A page holds the rows of its places, and is full unless it is the last. *)
LEMMA SliceSpans ==
  ASSUME Limit \in Nat \ {0}, NEW S, Counted(S), NEW p \in Nat \ {0}
  PROVE  LET slice == Audit!Slice(S, p)
             skip == (p - 1) * Limit
             rest == Cardinality(S) - skip
             last == IF Limit <= rest THEN Limit ELSE rest
         IN /\ slice = [n \in 1 .. last |-> CHOOSE e \in S : Audit!Place(S, e) = skip + n]
            /\ Audit!ToSet(slice) \subseteq S
            /\ \A e \in S : skip < Audit!Place(S, e) /\ Audit!Place(S, e) <= skip + Limit =>
                 e \in Audit!ToSet(slice)
            /\ skip < Cardinality(S) => slice # << >>
<1> DEFINE slice == Audit!Slice(S, p)
           skip == (p - 1) * Limit
           rest == Cardinality(S) - skip
           last == IF Limit <= rest THEN Limit ELSE rest
           pick(n) == CHOOSE e \in S : Audit!Place(S, e) = skip + n
<1>1. skip \in Nat /\ Cardinality(S) \in Nat
  BY PageBounds, FS_CardinalityType DEF Counted
<1> HIDE DEF skip
<1>2. Audit!Min({Limit, rest}) = last
  <2>1. last \in {Limit, rest} /\ \A y \in {Limit, rest} : last <= y
    BY <1>1
  <2>2. ASSUME NEW x \in {Limit, rest}, \A y \in {Limit, rest} : x <= y PROVE x = last
    BY <1>1, <2>2
  <2> HIDE DEF last, rest
  <2> QED BY <2>1, <2>2 DEF Audit!Min
<1>3. slice = [n \in 1 .. last |-> pick(n)]
  <2>1. slice = [n \in 1 .. Audit!Min({Limit, Audit!Cardinality(S) - skip}) |-> pick(n)]
    BY DEF Audit!Slice, skip
  <2>2. Audit!Cardinality(S) - skip = rest
    BY SameCount
  <2> HIDE DEF slice, last, rest, pick
  <2> QED BY <1>2, <2>1, <2>2
<1>4. last \in Int /\ last <= Limit /\ last <= rest /\ rest \in Int
  BY <1>1
<1>5. ASSUME NEW n \in 1 .. last PROVE pick(n) \in S /\ Audit!Place(S, pick(n)) = skip + n
  <2>1. skip + n \in 1 .. Cardinality(S)
    BY <1>1, <1>4
  <2>2. \E e \in S : Audit!Place(S, e) = skip + n
    BY <2>1, EveryPlaceIsTaken
  <2> QED BY <2>2
<1>6. DOMAIN slice = 1 .. last /\ \A n \in 1 .. last : slice[n] = pick(n)
  BY <1>3
<1>7. Audit!ToSet(slice) = {pick(n) : n \in 1 .. last}
  BY <1>6 DEF Audit!ToSet
<1>8. ASSUME NEW e \in S, skip < Audit!Place(S, e), Audit!Place(S, e) <= skip + Limit
      PROVE  e \in Audit!ToSet(slice)
  <2> DEFINE n == Audit!Place(S, e) - skip
  <2>1. Audit!Place(S, e) \in Nat /\ Audit!Place(S, e) <= Cardinality(S)
    BY PlaceIsCounted DEF Counted
  <2>2. n \in 1 .. last
    BY <1>1, <1>8, <2>1
  <2>3. pick(n) = e
    <3>1. pick(n) \in S /\ Audit!Place(S, pick(n)) = Audit!Place(S, e)
      BY <1>1, <1>5, <2>1, <2>2
    <3> HIDE DEF pick, n
    <3> QED BY <3>1, PlaceFollowsOrder
  <2> HIDE DEF pick, n, last
  <2> QED BY <1>7, <2>2, <2>3
<1>9. skip < Cardinality(S) => slice # << >>
  <2>1. skip < Cardinality(S) => 1 \in 1 .. last
    BY <1>1
  <2> HIDE DEF slice, last
  <2>2. skip < Cardinality(S) => 1 \in DOMAIN slice
    BY <1>6, <2>1
  <2> QED BY <2>2
<1>10. Audit!ToSet(slice) \subseteq S
  <2> HIDE DEF pick, last, slice
  <2> QED BY <1>5, <1>7
<1> HIDE DEF slice, pick, last, rest
<1>11. /\ slice = [n \in 1 .. last |-> pick(n)]
       /\ Audit!ToSet(slice) \subseteq S
       /\ \A e \in S : skip < Audit!Place(S, e) /\ Audit!Place(S, e) <= skip + Limit =>
            e \in Audit!ToSet(slice)
       /\ skip < Cardinality(S) => slice # << >>
  BY <1>3, <1>8, <1>9, <1>10
<1> QED BY <1>11 DEF slice, pick, last, rest, skip

(* The first rows of two logs hold the first rows of both together, so the *)
(* page cut from them is the page of both.                                 *)
LEMMA MergedPageIsRight ==
  ASSUME Limit \in Nat \ {0}, NEW A, Counted(A), NEW B, Counted(B), NEW p \in Nat \ {0}
  PROVE  Audit!Slice(Audit!Fetched(A, p * Limit) \cup Audit!Fetched(B, p * Limit), p)
           = Audit!Slice(A \cup B, p)
<1> DEFINE m == p * Limit
           skip == (p - 1) * Limit
           whole == A \cup B
           some == Audit!Fetched(A, m) \cup Audit!Fetched(B, m)
<1>1. m \in Nat /\ skip \in Nat /\ m = skip + Limit
  BY PageBounds
<1> HIDE DEF m, skip
<1>2. Counted(whole) /\ some \subseteq whole
  <2>1. IsFiniteSet(whole)
    BY FS_Union DEF Counted
  <2> QED BY <2>1 DEF Counted, Audit!Fetched
<1> HIDE DEF whole
<1>3. Counted(some) /\ Cardinality(some) \in Nat /\ Cardinality(whole) \in Nat
  <2>1. Counted(some)
    BY <1>2, FS_Subset DEF Counted
  <2> HIDE DEF some
  <2> QED BY <2>1, <1>2, FS_CardinalityType DEF Counted
<1>4. ASSUME NEW e \in whole, Audit!Place(whole, e) <= m PROVE e \in some
  <2>0. e \in Nat
    BY <1>2 DEF Counted
  <2>1. ASSUME NEW S, Counted(S), S \subseteq whole, e \in S PROVE e \in Audit!Fetched(S, m)
    <3>1. /\ Audit!Place(S, e) <= Audit!Place(whole, e)
          /\ Audit!Place(S, e) \in Nat /\ Audit!Place(whole, e) \in Nat
      BY <1>2, <2>0, <2>1, PlaceOnlyGrows, PlaceIsCounted
    <3> QED BY <1>1, <1>4, <2>1, <3>1 DEF Audit!Fetched
  <2>2. A \subseteq whole /\ B \subseteq whole /\ (e \in A \/ e \in B)
    BY DEF whole
  <2> QED BY <2>1, <2>2
<1> HIDE DEF some
<1>5. CASE Cardinality(whole) <= m
  <2>1. whole \subseteq some
    <3>1. ASSUME NEW e \in whole PROVE e \in some
      <4>1. e \in Nat
        BY <1>2 DEF Counted
      <4>2. Audit!Place(whole, e) \in Nat /\ Audit!Place(whole, e) <= Cardinality(whole)
        BY <1>2, <4>1, PlaceIsCounted
      <4> QED BY <1>1, <1>3, <1>4, <1>5, <4>2
    <3> QED BY <3>1
  <2>2. some = whole
    BY <1>2, <2>1
  <2> QED BY <2>2 DEF some, whole, m
<1>6. CASE m < Cardinality(whole)
  <2> DEFINE at(n) == CHOOSE e \in whole : Audit!Place(whole, e) = n
             first == [n \in 1 .. m |-> at(n)]
  <2>1. ASSUME NEW n \in 1 .. m
        PROVE  at(n) \in whole /\ Audit!Place(whole, at(n)) = n /\ at(n) \in some
    <3>1. n \in 1 .. Cardinality(whole)
      BY <1>1, <1>3, <1>6
    <3>2. \E e \in whole : Audit!Place(whole, e) = n
      BY <1>2, <3>1, EveryPlaceIsTaken
    <3>3. at(n) \in whole /\ Audit!Place(whole, at(n)) = n
      BY <3>2
    <3> HIDE DEF at
    <3> QED BY <1>4, <3>3
  <2>2. m <= Cardinality(some)
    <3>1. first \in Injection(1 .. m, some)
      <4>1. ASSUME NEW a \in 1 .. m, NEW b \in 1 .. m, at(a) = at(b) PROVE a = b
        BY <2>1, <4>1
      <4> HIDE DEF at
      <4> QED BY <2>1, <4>1 DEF Injection, IsInjective
    <3>2. Cardinality(1 .. m) = m
      BY <1>1, FS_Interval
    <3> HIDE DEF first
    <3> QED BY <1>3, <3>1, <3>2, FS_Injection DEF Counted
  <2>3. ASSUME NEW e \in some, Audit!Place(whole, e) <= m
        PROVE  Audit!Place(some, e) = Audit!Place(whole, e)
    <3>1. e \in whole /\ e \in Nat
      BY <1>2 DEF Counted
    <3>2. ASSUME NEW d \in whole, Audit!Before(d, e) PROVE d \in some
      <4>1. Audit!Place(whole, d) < Audit!Place(whole, e) /\ d \in Nat
        BY <1>2, <3>1, <3>2, PlaceFollowsOrder DEF Counted
      <4>2. Audit!Place(whole, d) \in Nat /\ Audit!Place(whole, e) \in Nat
        BY <1>2, <3>1, <4>1, PlaceIsCounted
      <4> QED BY <1>1, <1>4, <2>3, <4>1, <4>2
    <3>3. EventsAhead(some, e) = EventsAhead(whole, e)
      BY <1>2, <3>2 DEF EventsAhead
    <3> QED BY <1>2, <1>3, <3>1, <3>3, PlaceIsCounted
  <2> DEFINE pick(S, n) == CHOOSE e \in S : Audit!Place(S, e) = skip + n
  <2>4. ASSUME NEW n \in 1 .. Limit PROVE pick(some, n) = pick(whole, n)
    <3> DEFINE x == at(skip + n)
    <3>1. skip + n \in 1 .. m
      BY <1>1
    <3>2. x \in whole /\ x \in some /\ Audit!Place(whole, x) = skip + n
      BY <2>1, <3>1
    <3>3. Audit!Place(some, x) = skip + n
      BY <1>1, <2>3, <3>1, <3>2
    <3> HIDE DEF x, at
    <3>4. \A e \in whole : Audit!Place(whole, e) = skip + n => e = x
      BY <1>2, <3>2, PlaceFollowsOrder
    <3>5. \A e \in some : Audit!Place(some, e) = skip + n => e = x
      BY <1>3, <3>2, <3>3, PlaceFollowsOrder
    <3>6. pick(whole, n) = x
      BY <3>2, <3>4
    <3>7. pick(some, n) = x
      BY <3>2, <3>3, <3>5
    <3> QED BY <3>6, <3>7
  <2>5. /\ Limit <= Cardinality(some) - skip
        /\ Limit <= Cardinality(whole) - skip
    BY <1>1, <1>3, <1>6, <2>2
  <2>6. Audit!Slice(some, p) = [n \in 1 .. Limit |-> pick(some, n)]
    <3> HIDE DEF at, first
    <3> QED BY <1>3, <2>5, SliceSpans DEF skip
  <2>7. Audit!Slice(whole, p) = [n \in 1 .. Limit |-> pick(whole, n)]
    <3> HIDE DEF at, first
    <3> QED BY <1>2, <2>5, SliceSpans DEF skip
  <2> HIDE DEF pick
  <2>8. Audit!Slice(some, p) = Audit!Slice(whole, p)
    BY <2>4, <2>6, <2>7
  <2> QED BY <2>8 DEF some, whole, m
<1> QED BY <1>1, <1>3, <1>5, <1>6

(* The rows of a log that a filter lets through.                           *)
Logs == {"SYSTEM", "PLANT"}
Rows(S, f, log) == IF Audit!Includes(f, log) THEN Audit!Of(S, log) ELSE {}

LEMMA LogsAreCounted ==
  ASSUME source \in Seq(Logs), NEW S, S \subseteq DOMAIN source, NEW f
  PROVE  /\ Counted(S) /\ Counted(Audit!Matches(S, f))
         /\ \A log \in Logs : Counted(Rows(S, f, log))
         /\ Rows(S, f, "SYSTEM") \cup Rows(S, f, "PLANT") = Audit!Matches(S, f)
         /\ Rows(S, f, "SYSTEM") \cap Rows(S, f, "PLANT") = {}
         /\ Cardinality(S) <= Len(source)
<1>1. DOMAIN source = 1 .. Len(source) /\ Len(source) \in Nat
  BY SMT
<1>2. IsFiniteSet(1 .. Len(source)) /\ Cardinality(1 .. Len(source)) = Len(source)
  <2> DEFINE n == Len(source)
  <2>1. n \in Nat
    BY <1>1
  <2> HIDE DEF n
  <2>2. IsFiniteSet(1 .. n) /\ Cardinality(1 .. n) = n
    BY <2>1, FS_Interval
  <2> QED BY <2>2 DEF n
<1>3. Counted(S) /\ Cardinality(S) <= Len(source)
  BY <1>1, <1>2, FS_Subset DEF Counted
<1>4. ASSUME NEW T, T \subseteq S PROVE Counted(T)
  BY <1>3, <1>4, FS_Subset DEF Counted
<1>5. \A log \in Logs : Rows(S, f, log) \subseteq S
  BY DEF Rows, Audit!Of
<1>6. Audit!Matches(S, f) \subseteq S
  BY DEF Audit!Matches
<1>7. Rows(S, f, "SYSTEM") \cup Rows(S, f, "PLANT") = Audit!Matches(S, f)
  <2>1. \A e \in S : source[e] \in Logs
    OBVIOUS
  <2> QED BY <2>1 DEF Rows, Audit!Of, Audit!Matches, Logs
<1>8. Rows(S, f, "SYSTEM") \cap Rows(S, f, "PLANT") = {}
  BY DEF Rows, Audit!Of
<1> QED BY <1>3, <1>4, <1>5, <1>6, <1>7, <1>8

(* What the server answers when its statements saw the same logs, and what *)
(* it counts at any rate.                                                  *)
LEMMA ServerAnswers ==
  ASSUME Limit \in Nat \ {0}, source \in Seq(Logs), committed \subseteq DOMAIN source,
         NEW parts, \A s \in Audit!Statements : parts[s] \subseteq committed,
         NEW f, NEW p \in Nat \ {0}
  PROVE  /\ Audit!Total(parts, f) \in Nat
         /\ Audit!Total(parts, f) <= Cardinality(Audit!Matches(committed, f))
         /\ \A b : (\A s \in Audit!Statements : parts[s] = b) =>
              /\ Audit!Items(parts, f, p) = Audit!Slice(Audit!Matches(b, f), p)
              /\ Audit!Total(parts, f) = Cardinality(Audit!Matches(b, f))
<1> USE DEF Audit!Statements
<1> DEFINE sys == Rows(parts["systemTotal"], f, "SYSTEM")
           plt == Rows(parts["plantTotal"], f, "PLANT")
<1>1. Audit!Total(parts, f) = Cardinality(sys) + Cardinality(plt)
  <2>1. /\ Cardinality(sys) = IF Audit!Includes(f, "SYSTEM")
                              THEN Cardinality(Audit!Of(parts["systemTotal"], "SYSTEM")) ELSE 0
        /\ Cardinality(plt) = IF Audit!Includes(f, "PLANT")
                              THEN Cardinality(Audit!Of(parts["plantTotal"], "PLANT")) ELSE 0
    BY FS_EmptySet DEF Rows
  <2> HIDE DEF sys, plt
  <2>2. \A S : Audit!Cardinality(S) = Cardinality(S)
    BY SameCount
  <2> QED BY <2>1, <2>2 DEF Audit!Total
<1>2. Counted(sys) /\ Counted(plt)
  BY LogsAreCounted DEF Logs
<1>3. Cardinality(sys) \in Nat /\ Cardinality(plt) \in Nat
  BY <1>2, FS_CardinalityType DEF Counted
<1>4. Audit!Total(parts, f) <= Cardinality(Audit!Matches(committed, f))
  <2>1. /\ sys \subseteq Rows(committed, f, "SYSTEM")
        /\ plt \subseteq Rows(committed, f, "PLANT")
    BY DEF Rows, Audit!Of
  <2>2. /\ sys \cup plt \subseteq Audit!Matches(committed, f)
        /\ Counted(Audit!Matches(committed, f)) /\ sys \cap plt = {}
    BY <2>1, LogsAreCounted
  <2>3. Cardinality(sys \cup plt) = Cardinality(sys) + Cardinality(plt)
    <3>1. Cardinality(sys \cap plt) = 0
      BY <2>2, FS_EmptySet
    <3> HIDE DEF sys, plt
    <3>2. Cardinality(sys \cup plt) = Cardinality(sys) + Cardinality(plt) - Cardinality(sys \cap plt)
      BY <1>2, FS_Union DEF Counted
    <3> QED BY <1>3, <3>1, <3>2
  <2>4. Cardinality(sys \cup plt) <= Cardinality(Audit!Matches(committed, f))
    BY <2>2, FS_Subset DEF Counted
  <2> HIDE DEF sys, plt
  <2> QED BY <1>1, <2>3, <2>4
<1>5. ASSUME NEW b, \A s \in Audit!Statements : parts[s] = b
      PROVE  /\ Audit!Items(parts, f, p) = Audit!Slice(Audit!Matches(b, f), p)
             /\ Audit!Total(parts, f) = Cardinality(Audit!Matches(b, f))
  <2> DEFINE A == Rows(b, f, "SYSTEM")
             B == Rows(b, f, "PLANT")
             m == p * Limit
  <2>1. /\ parts["systemRows"] = b /\ parts["plantRows"] = b
        /\ parts["systemTotal"] = b /\ parts["plantTotal"] = b /\ b \subseteq DOMAIN source
    BY <1>5
  <2>2. /\ Counted(A) /\ Counted(B) /\ A \cup B = Audit!Matches(b, f) /\ A \cap B = {}
    BY <2>1, LogsAreCounted DEF Logs
  <2>3. \A log : (IF Audit!Includes(f, log) THEN Audit!Fetched(Audit!Of(b, log), m) ELSE {})
                   = Audit!Fetched(Rows(b, f, log), m)
    BY DEF Rows, Audit!Fetched
  <2>4. Audit!Items(parts, f, p)
          = Audit!Slice((IF Audit!Includes(f, "SYSTEM") THEN Audit!Fetched(Audit!Of(b, "SYSTEM"), m) ELSE {})
             \cup (IF Audit!Includes(f, "PLANT") THEN Audit!Fetched(Audit!Of(b, "PLANT"), m) ELSE {}), p)
    BY <2>1 DEF Audit!Items
  <2> DEFINE rows1 == IF Audit!Includes(f, "SYSTEM") THEN Audit!Fetched(Audit!Of(b, "SYSTEM"), m) ELSE {}
             rows2 == IF Audit!Includes(f, "PLANT") THEN Audit!Fetched(Audit!Of(b, "PLANT"), m) ELSE {}
  <2>a. rows1 = Audit!Fetched(A, m) /\ rows2 = Audit!Fetched(B, m)
    BY <2>3
  <2>b. Audit!Items(parts, f, p) = Audit!Slice(rows1 \cup rows2, p)
    BY <2>4
  <2> HIDE DEF A, B, rows1, rows2
  <2>5. Audit!Items(parts, f, p) = Audit!Slice(Audit!Fetched(A, m) \cup Audit!Fetched(B, m), p)
    <3> DEFINE both == rows1 \cup rows2
    <3>1. both = Audit!Fetched(A, m) \cup Audit!Fetched(B, m)
      BY <2>a
    <3>2. Audit!Items(parts, f, p) = Audit!Slice(both, p)
      BY <2>b
    <3> HIDE DEF both
    <3> QED BY <3>1, <3>2
  <2>6. Audit!Items(parts, f, p) = Audit!Slice(Audit!Matches(b, f), p)
    <3>1. Audit!Slice(Audit!Fetched(A, m) \cup Audit!Fetched(B, m), p) = Audit!Slice(A \cup B, p)
      BY <2>2, MergedPageIsRight
    <3> HIDE DEF m
    <3>2. A \cup B = Audit!Matches(b, f)
      BY <2>2
    <3>3. Audit!Items(parts, f, p) = Audit!Slice(A \cup B, p)
      BY <2>5, <3>1
    <3> DEFINE both == A \cup B
    <3>4. both = Audit!Matches(b, f) /\ Audit!Items(parts, f, p) = Audit!Slice(both, p)
      BY <3>2, <3>3
    <3> HIDE DEF both
    <3> QED BY <3>4
  <2>7. Cardinality(A \cup B) = Cardinality(A) + Cardinality(B)
    <3>1. Cardinality(A) \in Nat /\ Cardinality(B) \in Nat
      BY <2>2, FS_CardinalityType DEF Counted
    <3>2. Cardinality(A \cap B) = 0
      BY <2>2, FS_EmptySet
    <3>3. Cardinality(A \cup B) = Cardinality(A) + Cardinality(B) - Cardinality(A \cap B)
      BY <2>2, FS_Union DEF Counted
    <3> QED BY <3>1, <3>2, <3>3
  <2>8. Cardinality(sys) = Cardinality(A) /\ Cardinality(plt) = Cardinality(B)
    BY <2>1 DEF A, B
  <2> HIDE DEF sys, plt
  <2> QED BY <1>1, <2>2, <2>6, <2>7, <2>8
<1> HIDE DEF sys, plt
<1> QED BY <1>1, <1>3, <1>4, <1>5

(* The movements of a set of events that a filter lets through.            *)
Listed(src, S, f) == {e \in S : Audit!Includes(f, src[e])}

LEMMA ListedIsCounted ==
  ASSUME NEW src \in Seq(Logs), NEW S, S \subseteq DOMAIN src, NEW f
  PROVE  /\ Counted(Listed(src, S, f)) /\ Cardinality(Listed(src, S, f)) \in Nat
         /\ Cardinality(Listed(src, S, f)) <= Len(src)
         /\ \A T : T \subseteq S => /\ Listed(src, T, f) \subseteq Listed(src, S, f)
                                  /\ Cardinality(Listed(src, T, f)) <= Cardinality(Listed(src, S, f))
<1> DEFINE n == Len(src)
<1>1. n \in Nat /\ DOMAIN src = 1 .. n
  BY SMT
<1> HIDE DEF n
<1>2. IsFiniteSet(1 .. n) /\ Cardinality(1 .. n) = n
  BY <1>1, FS_Interval
<1>3. ASSUME NEW T, T \subseteq S
      PROVE  Counted(Listed(src, T, f)) /\ Cardinality(Listed(src, T, f)) <= n
  <2>1. Listed(src, T, f) \subseteq 1 .. n
    BY <1>1, <1>3 DEF Listed
  <2> QED BY <1>1, <1>2, <2>1, FS_Subset DEF Counted
<1>4. \A T : T \subseteq S => Listed(src, T, f) \subseteq Listed(src, S, f)
  BY DEF Listed
<1>5. Counted(Listed(src, S, f)) /\ Cardinality(Listed(src, S, f)) <= n
  BY <1>3
<1>6. Cardinality(Listed(src, S, f)) \in Nat
  BY <1>5, FS_CardinalityType DEF Counted
<1>7. \A T : T \subseteq S => Cardinality(Listed(src, T, f)) <= Cardinality(Listed(src, S, f))
  BY <1>4, <1>5, FS_Subset DEF Counted
<1> QED BY <1>4, <1>5, <1>6, <1>7 DEF n

LEMMA ListedIsMatches == \A S, f : Audit!Matches(S, f) = Listed(source, S, f)
BY DEF Audit!Matches, Listed

(* An answer kept under filter k[1] and page k[2].  Whatever was committed *)
(* between its statements, its page is one there was, and its count is not *)
(* of more than there is.                                                  *)
AnswerOK(src, S, a, k) ==
  /\ {"items", "total", "base", "torn"} \subseteq DOMAIN a
  /\ a.base \subseteq S
  /\ a.total \in Nat /\ a.total <= Cardinality(Listed(src, S, k[1]))
  /\ ~a.torn => /\ a.items = Audit!Slice(Listed(src, a.base, k[1]), k[2])
                /\ a.total = Cardinality(Listed(src, a.base, k[1]))
  /\ k[2] = 1 \/ (k[2] - 1) * Limit < Cardinality(Listed(src, a.base, k[1]))

(* How far the reader has come in the movements S that filter f lets       *)
(* through: page p is one of theirs, and a movement of the start that was  *)
(* not seen lies after all pages up to p, as far as they were read on the  *)
(* way and not taken from the answers kept.                                *)
Reached(src, S, f, p, w, answered) ==
  /\ w.base \subseteq S
  /\ p = 1 \/ (p - 1) * Limit < Cardinality(Listed(src, S, f))
  /\ ~w.torn => \A e \in Listed(src, w.base, f) \ w.seen, q \in 1 .. p :
       (answered \/ q < p) /\ (\A k \in w.kept : k > q) =>
         q * Limit < Audit!Place(Listed(src, S, f), e)

(* Who is shown the last page has seen the movements of the start.         *)
Ended(src, f, p, w, a) ==
  /\ a.torn => w.torn
  /\ ~w.torn /\ (\A k \in w.kept : k > p) /\ p >= Audit!TotalPages(a.total) =>
       Listed(src, w.base, f) \subseteq w.seen

LEMMA ReachedGrows ==
  ASSUME NEW src \in Seq(Logs), NEW T, T \subseteq DOMAIN src, NEW S, S \subseteq T,
         NEW f, NEW p \in Nat \ {0}, NEW w, NEW on \in BOOLEAN, Limit \in Nat \ {0},
         Reached(src, S, f, p, w, on)
  PROVE  Reached(src, T, f, p, w, on)
<1>1. /\ Counted(Listed(src, T, f)) /\ Listed(src, S, f) \subseteq Listed(src, T, f)
      /\ Cardinality(Listed(src, S, f)) <= Cardinality(Listed(src, T, f))
      /\ Cardinality(Listed(src, S, f)) \in Nat /\ Cardinality(Listed(src, T, f)) \in Nat
  BY ListedIsCounted
<1>2. p = 1 \/ (p - 1) * Limit < Cardinality(Listed(src, T, f))
  BY <1>1, PageBounds DEF Reached
<1>3. ASSUME NEW e \in Listed(src, w.base, f), NEW q \in 1 .. p,
             q * Limit < Audit!Place(Listed(src, S, f), e)
      PROVE  q * Limit < Audit!Place(Listed(src, T, f), e)
  <2>1. e \in Nat
    BY <1>1 DEF Listed, Reached, Counted
  <2>2. /\ Audit!Place(Listed(src, S, f), e) <= Audit!Place(Listed(src, T, f), e)
        /\ Counted(Listed(src, S, f))
    BY <1>1, <2>1, PlaceOnlyGrows
  <2>3. Audit!Place(Listed(src, S, f), e) \in Nat /\ Audit!Place(Listed(src, T, f), e) \in Nat
    BY <1>1, <2>1, <2>2, PlaceIsCounted
  <2>4. q * Limit \in Nat
    OBVIOUS
  <2> QED BY <1>3, <2>2, <2>3, <2>4
<1> QED BY <1>2, <1>3 DEF Reached

LEMMA AnswerStaysOK ==
  ASSUME NEW src \in Seq(Logs), NEW T, T \subseteq DOMAIN src, NEW S, S \subseteq T,
         NEW a, NEW k, AnswerOK(src, S, a, k)
  PROVE  AnswerOK(src, T, a, k)
<1>1. /\ Cardinality(Listed(src, S, k[1])) <= Cardinality(Listed(src, T, k[1]))
      /\ Cardinality(Listed(src, S, k[1])) \in Nat /\ Cardinality(Listed(src, T, k[1])) \in Nat
  BY ListedIsCounted
<1>2. a.total \in Nat /\ a.total <= Cardinality(Listed(src, T, k[1]))
  BY <1>1 DEF AnswerOK
<1> QED BY <1>2 DEF AnswerOK

(* Page 1 begins a way.                                                    *)
LEMMA WayBegins ==
  ASSUME Limit \in Nat \ {0}, NEW src \in Seq(Logs), NEW S, S \subseteq DOMAIN src,
         NEW f, NEW a, AnswerOK(src, S, a, <<f, 1>>), NEW w,
         w = [base |-> a.base, seen |-> Audit!ToSet(a.items), torn |-> a.torn, kept |-> {}]
  PROVE  Reached(src, S, f, 1, w, TRUE) /\ Ended(src, f, 1, w, a)
<1> DEFINE L == Listed(src, a.base, f)
<1>1. w.base = a.base /\ w.seen = Audit!ToSet(a.items) /\ w.torn = a.torn /\ w.kept = {}
  OBVIOUS
<1>2. a.base \subseteq DOMAIN src
  BY DEF AnswerOK
<1>3. Counted(L) /\ Cardinality(L) \in Nat
  BY <1>2, ListedIsCounted
<1>4. ASSUME ~a.torn, NEW e \in L \ w.seen PROVE Limit < Audit!Place(L, e)
  <2>1. a.items = Audit!Slice(L, 1)
    BY <1>4 DEF AnswerOK
  <2>2. e \in Nat /\ Audit!Place(L, e) \in Nat \ {0}
    BY <1>3, PlaceIsCounted DEF Counted
  <2>3. (1 - 1) * Limit = 0
    OBVIOUS
  <2> HIDE DEF L
  <2>4. 0 < Audit!Place(L, e) /\ Audit!Place(L, e) <= 0 + Limit => e \in Audit!ToSet(Audit!Slice(L, 1))
    BY <1>3, <2>3, SliceSpans
  <2> QED BY <1>1, <1>4, <2>1, <2>2, <2>4
<1>5. Reached(src, a.base, f, 1, w, TRUE)
  <2>1. \A q \in 1 .. 1 : q * Limit = Limit
    OBVIOUS
  <2> QED BY <1>1, <1>4, <2>1 DEF Reached
<1>6. Reached(src, S, f, 1, w, TRUE)
  <2>1. a.base \subseteq S /\ 1 \in Nat \ {0} /\ TRUE \in BOOLEAN
    BY DEF AnswerOK
  <2> QED BY <1>5, <2>1, ReachedGrows
<1>7. ASSUME ~w.torn, 1 >= Audit!TotalPages(a.total), NEW e \in L PROVE e \in w.seen
  <2>1. a.total = Cardinality(L)
    BY <1>1, <1>7 DEF AnswerOK
  <2>2. a.total <= 1 * Limit
    BY <1>3, <1>7, <2>1, PagesAreCounted
  <2>3. e \in Nat /\ Audit!Place(L, e) \in Nat /\ Audit!Place(L, e) <= Cardinality(L)
    BY <1>3, PlaceIsCounted DEF Counted
  <2> HIDE DEF L
  <2> QED BY <1>1, <1>3, <1>4, <1>7, <2>1, <2>2, <2>3
<1> QED BY <1>1, <1>6, <1>7 DEF Ended

(* The screen goes to another page, not yet answered.                      *)
LEMMA WayTurns ==
  ASSUME NEW src, NEW S, NEW f, NEW p \in Nat \ {0}, NEW w, NEW on \in BOOLEAN,
         Reached(src, S, f, p, w, on), NEW g \in Nat \ {0},
         (on /\ g = p + 1) \/ g <= p,
         g = 1 \/ (g - 1) * Limit < Cardinality(Listed(src, S, f))
  PROVE  Reached(src, S, f, g, w, FALSE)
BY DEF Reached

(* A page taken from the answers kept.                                     *)
LEMMA WayKeeps ==
  ASSUME NEW src, NEW S, NEW f, NEW p \in Nat \ {0}, NEW w, Reached(src, S, f, p, w, FALSE),
         NEW a, NEW v, v.base = w.base, v.seen = w.seen \cup Audit!ToSet(a.items),
         v.torn <=> w.torn \/ a.torn, v.kept = w.kept \cup {p}
  PROVE  Reached(src, S, f, p, v, TRUE) /\ Ended(src, f, p, v, a)
<1>1. \A q \in 1 .. p : (\A k \in v.kept : k > q) => q < p /\ \A k \in w.kept : k > q
  OBVIOUS
<1>2. ~ (\A k \in v.kept : k > p)
  OBVIOUS
<1> QED BY <1>1, <1>2 DEF Reached, Ended

(* A page that is read on the way.                                         *)
LEMMA WayReads ==
  ASSUME Limit \in Nat \ {0}, NEW src \in Seq(Logs), NEW S, S \subseteq DOMAIN src,
         NEW f, NEW p \in Nat \ {0, 1}, NEW w, Reached(src, S, f, p, w, FALSE), w.kept \subseteq Nat,
         NEW a, a.base = S, NEW T, AnswerOK(src, T, a, <<f, p>>), NEW v,
         v.base = w.base, v.seen = w.seen \cup Audit!ToSet(a.items),
         v.torn <=> w.torn \/ a.torn, v.kept = w.kept \ {p}
  PROVE  Reached(src, S, f, p, v, TRUE) /\ Ended(src, f, p, v, a)
<1> DEFINE L == Listed(src, S, f)
<1>1. /\ v.base = w.base /\ v.seen = w.seen \cup Audit!ToSet(a.items)
      /\ (v.torn <=> w.torn \/ a.torn) /\ v.kept = w.kept \ {p}
  OBVIOUS
<1>2. Counted(L) /\ Cardinality(L) \in Nat /\ Listed(src, w.base, f) \subseteq L
  BY ListedIsCounted DEF Reached
<1>3. ASSUME ~v.torn, NEW e \in Listed(src, w.base, f) \ v.seen, NEW q \in 1 .. p,
             \A k \in v.kept : k > q
      PROVE  q * Limit < Audit!Place(L, e)
  <2>1. CASE q < p
    <3>1. \A k \in w.kept : k > q
      BY <1>1, <1>3, <2>1
    <3> QED BY <1>1, <1>3, <2>1, <3>1 DEF Reached
  <2>2. CASE q = p
    <3>1. \A k \in w.kept : k > p - 1
      BY <1>1, <1>3, <2>2
    <3>2. p - 1 \in 1 .. p /\ p - 1 < p
      OBVIOUS
    <3>3. (p - 1) * Limit < Audit!Place(L, e)
      BY <1>1, <1>3, <3>1, <3>2 DEF Reached
    <3>4. a.items = Audit!Slice(L, p) /\ e \in L /\ e \notin Audit!ToSet(a.items)
      BY <1>1, <1>2, <1>3 DEF AnswerOK
    <3> HIDE DEF L
    <3>5. ~ (Audit!Place(L, e) <= (p - 1) * Limit + Limit)
      BY <1>2, <3>3, <3>4, SliceSpans
    <3>6. Audit!Place(L, e) \in Nat
      BY <1>2, <3>4, PlaceIsCounted DEF Counted
    <3> QED BY <2>2, <3>5, <3>6, PageBounds
  <2> QED BY <2>1, <2>2
<1>4. Reached(src, S, f, p, v, TRUE)
  BY <1>1, <1>3 DEF Reached
<1>5. ASSUME ~v.torn, \A k \in v.kept : k > p, p >= Audit!TotalPages(a.total),
             NEW e \in Listed(src, w.base, f)
      PROVE  e \in v.seen
  <2>1. a.total = Cardinality(L)
    BY <1>1, <1>5 DEF AnswerOK
  <2>2. a.total <= p * Limit
    BY <1>2, <1>5, <2>1, PagesAreCounted
  <2>3. e \in Nat /\ Audit!Place(L, e) \in Nat /\ Audit!Place(L, e) <= Cardinality(L)
    BY <1>2, PlaceIsCounted DEF Counted
  <2>4. p \in 1 .. p /\ p * Limit \in Nat
    BY PageBounds
  <2> HIDE DEF L
  <2>5. e \notin v.seen => p * Limit < Audit!Place(L, e)
    BY <1>3, <1>5, <2>4
  <2> QED BY <1>2, <2>1, <2>2, <2>3, <2>4, <2>5
<1> QED BY <1>1, <1>4, <1>5 DEF Ended

(* The logs grow, the answers kept are of movements there are, the reading *)
(* under way is for the page on the screen.                                *)
LogsOK == source \in Seq(Logs) /\ Len(source) <= MaxEvents /\ committed \subseteq DOMAIN source
ScreenOK == filter \in Filters /\ page \in 1 .. MaxEvents + 1
AnswersOK ==
  /\ answers = [k \in Audit!Keys |-> answers[k]]
  /\ \A k \in Audit!Keys : \A a \in answers[k] :
       AnswerOK(source, committed, a, k) /\ \A b \in answers[k] : b = a
ReadingOK ==
  /\ \A r \in asked : asked = {r} /\ r.key = <<filter, page>> /\ r.base \subseteq committed
  /\ asked = {} => reading = << >>
  /\ \A s \in DOMAIN reading : reading[s] \subseteq committed
WalkTyped ==
  /\ {"base", "seen", "torn", "kept"} \subseteq DOMAIN walk
  /\ walk.base \subseteq committed /\ walk.kept \subseteq Nat
WayOK ==
  LET kept == answers[<<filter, page>>]
  IN  /\ asked = {} => Reached(source, committed, filter, page, walk, kept # {})
      /\ \A r \in asked : Reached(source, r.base, filter, page, walk, kept # {})
      /\ \A a \in kept : Ended(source, filter, page, walk, a)
AuditInv ==
  /\ Audit!PagesAssumption /\ LogsOK /\ ScreenOK /\ AnswersOK /\ ReadingOK /\ WalkTyped /\ WayOK

LEMMA AuditStart == Audit!PagesAssumption /\ Audit!Init => AuditInv
<1> SUFFICES ASSUME Audit!PagesAssumption, Audit!Init PROVE AuditInv
  OBVIOUS
<1>1. /\ source = << >> /\ committed = {} /\ filter = "ALL" /\ page = 1
      /\ answers = [k \in Audit!Keys |-> {}] /\ reading = << >> /\ asked = {}
      /\ walk = [base |-> {}, seen |-> {}, torn |-> FALSE, kept |-> {}]
  BY DEF Audit!Init, Audit!NoWalk
<1>2. MaxEvents \in Nat /\ "ALL" \in Filters
  BY DEF Audit!PagesAssumption
<1>3. LogsOK
  BY <1>1, <1>2 DEF LogsOK
<1>4. ScreenOK
  BY <1>1, <1>2 DEF ScreenOK
<1>5. \A k \in Audit!Keys : answers[k] = {}
  BY <1>1
<1>6. AnswersOK
  BY <1>1 DEF AnswersOK
<1>7. ReadingOK
  BY <1>1 DEF ReadingOK
<1>8. walk.base = {} /\ walk.kept = {} /\ WalkTyped
  BY <1>1 DEF WalkTyped
<1>9. answers[<<filter, page>>] = {}
  BY <1>2, <1>4, <1>5 DEF ScreenOK, Audit!Keys
<1>10. Reached(source, committed, filter, page, walk, FALSE)
  BY <1>1, <1>8 DEF Reached, Listed
<1>11. WayOK
  BY <1>1, <1>9, <1>10 DEF WayOK
<1> QED BY <1>3, <1>4, <1>6, <1>7, <1>8, <1>11 DEF AuditInv

(* What the invariant says of the constants and of the place of the reader.*)
LEMMA AuditFacts ==
  ASSUME AuditInv
  PROVE  /\ Limit \in Nat \ {0} /\ MaxEvents \in Nat
         /\ source \in Seq(Logs) /\ committed \subseteq DOMAIN source
         /\ page \in Nat \ {0} /\ filter \in Filters
         /\ <<filter, page>> \in Audit!Keys
         /\ \A f \in Filters, p \in Nat \ {0} :
              p = 1 \/ (p - 1) * Limit < Cardinality(Listed(source, committed, f)) =>
                <<f, p>> \in Audit!Keys
<1>1. /\ Limit \in Nat \ {0} /\ MaxEvents \in Nat
      /\ source \in Seq(Logs) /\ committed \subseteq DOMAIN source /\ Len(source) <= MaxEvents
      /\ page \in Nat \ {0} /\ filter \in Filters
      /\ <<filter, page>> \in Audit!Keys
  BY DEF AuditInv, Audit!PagesAssumption, LogsOK, ScreenOK, Audit!Keys
<1>2. ASSUME NEW f \in Filters, NEW p \in Nat \ {0},
             p = 1 \/ (p - 1) * Limit < Cardinality(Listed(source, committed, f))
      PROVE  p \in 1 .. MaxEvents + 1
  <2>1. CASE p = 1
    BY <1>1, <2>1
  <2>2. CASE p # 1
    <3>1. p - 1 \in Nat \ {0} /\ (p - 1) * Limit < Cardinality(Listed(source, committed, f))
      BY <1>2, <2>2
    <3>2. p - 1 <= (p - 1) * Limit /\ (p - 1) * Limit \in Nat
      BY <1>1, <3>1, PageBounds
    <3>3. /\ Cardinality(Listed(source, committed, f)) <= Len(source)
          /\ Cardinality(Listed(source, committed, f)) \in Nat /\ Len(source) \in Nat
      <4>1. Len(source) \in Nat
        BY <1>1, SMT
      <4> QED BY <1>1, <4>1, ListedIsCounted
    <3> QED BY <1>1, <3>1, <3>2, <3>3
  <2> QED BY <2>1, <2>2
<1> QED BY <1>1, <1>2 DEF Audit!Keys

(* A movement begins: what there was stays as it was.                      *)
LEMMA BeginKeeps == ASSUME AuditInv, NEW log \in Logs, Audit!Begin(log) PROVE AuditInv'
<1>1. /\ Len(source) < MaxEvents /\ source' = Append(source, log)
      /\ UNCHANGED <<committed, filter, page, answers, reading, asked, reads, walk>>
  BY DEF Audit!Begin
<1>2. /\ source \in Seq(Logs) /\ source' \in Seq(Logs) /\ Len(source') = Len(source) + 1
      /\ DOMAIN source \subseteq DOMAIN source' /\ Len(source) \in Nat
      /\ \A i \in DOMAIN source : source'[i] = source[i]
  BY <1>1, AuditFacts
<1>3. \A S, f : S \subseteq DOMAIN source => Listed(source', S, f) = Listed(source, S, f)
  BY <1>2 DEF Listed
<1>4. LogsOK'
  BY <1>1, <1>2, AuditFacts DEF LogsOK
<1>5. ScreenOK' /\ ReadingOK' /\ WalkTyped' /\ Audit!PagesAssumption'
  BY <1>1 DEF AuditInv, ScreenOK, ReadingOK, WalkTyped, Audit!PagesAssumption
<1>6. \A k : \A a : AnswerOK(source, committed, a, k) => AnswerOK(source', committed, a, k)
  <2>1. ASSUME NEW k, NEW a, AnswerOK(source, committed, a, k)
        PROVE  AnswerOK(source', committed, a, k)
    <3>1. a.base \subseteq committed /\ a.base \subseteq DOMAIN source
      BY <2>1, AuditFacts DEF AnswerOK
    <3>2. /\ Listed(source', committed, k[1]) = Listed(source, committed, k[1])
          /\ Listed(source', a.base, k[1]) = Listed(source, a.base, k[1])
      BY <1>3, <3>1, AuditFacts
    <3> QED BY <2>1, <3>2 DEF AnswerOK
  <2> QED BY <2>1
<1>7. AnswersOK'
  BY <1>1, <1>6 DEF AuditInv, AnswersOK, Audit!Keys
<1>8. ASSUME NEW S, S \subseteq DOMAIN source, NEW on, Reached(source, S, filter, page, walk, on)
      PROVE  Reached(source', S, filter, page, walk, on)
  <2>1. walk.base \subseteq DOMAIN source
    BY <1>8 DEF Reached
  <2> QED BY <1>3, <1>8, <2>1 DEF Reached
<1>9. \A a : Ended(source, filter, page, walk, a) => Ended(source', filter, page, walk, a)
  <2>1. walk.base \subseteq DOMAIN source
    BY AuditFacts DEF AuditInv, WalkTyped
  <2> QED BY <1>3, <2>1 DEF Ended
<1>10. \A r \in asked : r.base \subseteq DOMAIN source
  BY AuditFacts DEF AuditInv, ReadingOK
<1>11. WayOK'
  BY <1>1, <1>8, <1>9, <1>10, AuditFacts DEF AuditInv, WayOK
<1> QED BY <1>4, <1>5, <1>7, <1>11 DEF AuditInv

(* A transaction commits.                                                  *)
LEMMA CommitKeeps == ASSUME AuditInv, NEW e \in Audit!Begun, Audit!Commit(e) PROVE AuditInv'
<1>1. /\ committed' = committed \cup {e} /\ e \in DOMAIN source
      /\ UNCHANGED <<source, filter, page, answers, reading, asked, reads, walk>>
  BY DEF Audit!Commit, Audit!Begun
<1>2. /\ source \in Seq(Logs) /\ committed' \subseteq DOMAIN source /\ committed \subseteq committed'
      /\ Limit \in Nat \ {0} /\ page \in Nat \ {0}
  BY <1>1, AuditFacts
<1>3. LogsOK' /\ ScreenOK' /\ ReadingOK' /\ WalkTyped' /\ Audit!PagesAssumption'
  BY <1>1, <1>2 DEF AuditInv, LogsOK, ScreenOK, ReadingOK, WalkTyped, Audit!PagesAssumption
<1>4. \A k, a : AnswerOK(source, committed, a, k) => AnswerOK(source, committed', a, k)
  BY <1>2, AnswerStaysOK
<1>5. AnswersOK'
  BY <1>1, <1>4 DEF AuditInv, AnswersOK, Audit!Keys
<1>6. \A on \in BOOLEAN : Reached(source, committed, filter, page, walk, on) =>
                          Reached(source, committed', filter, page, walk, on)
  BY <1>2, ReachedGrows
<1>7. WayOK'
  BY <1>1, <1>6 DEF AuditInv, WayOK
<1> QED BY <1>3, <1>5, <1>7 DEF AuditInv

(* A statement reads, or an answer grows old.                              *)
LEMMA StatementKeeps == ASSUME AuditInv, NEW part, Audit!Statement(part) PROVE AuditInv'
<1>1. /\ asked # {}
      /\ reading' = [q \in DOMAIN reading \cup {part} |-> IF q = part THEN committed ELSE reading[q]]
      /\ UNCHANGED <<source, committed, filter, page, answers, asked, reads, walk>>
  BY DEF Audit!Statement, Audit!Idle
<1>2. LogsOK' /\ ScreenOK' /\ WalkTyped' /\ Audit!PagesAssumption' /\ AnswersOK' /\ WayOK'
  BY <1>1 DEF AuditInv, LogsOK, ScreenOK, WalkTyped, Audit!PagesAssumption, AnswersOK, WayOK,
    Audit!Keys
<1>3. ReadingOK'
  BY <1>1 DEF AuditInv, ReadingOK
<1> QED BY <1>2, <1>3 DEF AuditInv

LEMMA AgeKeeps == ASSUME AuditInv, NEW k \in Audit!Keys, Audit!Age(k) PROVE AuditInv'
<1> DEFINE old(a) == [a EXCEPT !.fresh = FALSE]
<1>1. /\ answers' = [answers EXCEPT ![k] = {old(a) : a \in answers[k]}]
      /\ UNCHANGED <<source, committed, filter, page, reading, asked, reads, walk>>
  BY DEF Audit!Age
<1>3. ASSUME NEW a, NEW j, AnswerOK(source, committed, a, j)
      PROVE  /\ AnswerOK(source, committed, old(a), j)
             /\ old(a).torn = a.torn /\ old(a).total = a.total
  <2>1. {"items", "total", "base", "torn"} \subseteq DOMAIN a
    BY <1>3 DEF AnswerOK
  <2>2. /\ old(a).items = a.items /\ old(a).total = a.total /\ old(a).base = a.base
        /\ old(a).torn = a.torn /\ DOMAIN old(a) = DOMAIN a
    BY <2>1
  <2> HIDE DEF old
  <2> QED BY <1>3, <2>1, <2>2 DEF AnswerOK
<1>4. /\ answers' = [j \in Audit!Keys |-> answers'[j]]
      /\ \A j \in Audit!Keys : answers'[j] = IF j = k THEN {old(a) : a \in answers[j]} ELSE answers[j]
  BY <1>1 DEF AuditInv, AnswersOK
<1> HIDE DEF old
<1>5. ASSUME NEW j \in Audit!Keys, NEW b \in answers'[j]
      PROVE  \E a \in answers[j] : /\ b \in {a, old(a)}
                                   /\ b.torn = a.torn /\ b.total = a.total
  <2>1. CASE j = k
    <3>1. PICK a \in answers[j] : b = old(a)
      BY <1>4, <1>5, <2>1
    <3> QED BY <1>3, <3>1 DEF AuditInv, AnswersOK
  <2>2. CASE j # k
    BY <1>4, <1>5, <2>2
  <2> QED BY <2>1, <2>2
<1>6. ASSUME NEW j \in Audit!Keys, NEW b \in answers'[j]
      PROVE  AnswerOK(source, committed, b, j) /\ \A c \in answers'[j] : c = b
  <2>1. \A a \in answers[j] : AnswerOK(source, committed, a, j) /\ \A c \in answers[j] : c = a
    BY DEF AuditInv, AnswersOK
  <2>2. AnswerOK(source, committed, b, j)
    BY <1>3, <1>5, <1>6, <2>1
  <2>3. \A c \in answers'[j] : c = b
    BY <1>4, <1>6, <2>1
  <2> QED BY <2>2, <2>3
<1>7. LogsOK' /\ ScreenOK' /\ WalkTyped' /\ Audit!PagesAssumption' /\ ReadingOK'
  BY <1>1 DEF AuditInv, LogsOK, ScreenOK, WalkTyped, Audit!PagesAssumption, ReadingOK
<1>8. AnswersOK'
  BY <1>1, <1>4, <1>6 DEF AnswersOK, Audit!Keys
<1>9. WayOK'
  <2>1. <<filter, page>> \in Audit!Keys
    BY AuditFacts
  <2>2. answers'[<<filter, page>>] # {} <=> answers[<<filter, page>>] # {}
    BY <1>4, <2>1
  <2>3. \A b \in answers'[<<filter, page>>] : Ended(source, filter, page, walk, b)
    BY <1>5, <2>1 DEF AuditInv, WayOK, Ended
  <2> QED BY <1>1, <2>2, <2>3 DEF AuditInv, WayOK
<1> QED BY <1>7, <1>8, <1>9 DEF AuditInv

(* The answer of the reading under way: for the page on the screen.        *)
LEMMA AnswerKeeps == ASSUME AuditInv, Audit!Answer PROVE AuditInv'
<1> DEFINE q == CHOOSE q \in asked : TRUE
           key == <<filter, page>>
           torn == \E s \in Audit!Statements : reading[s] # q.base
           a == [items |-> Audit!Items(reading, q.key[1], q.key[2]),
                 total |-> Audit!Total(reading, q.key[1]),
                 base |-> q.base, torn |-> torn, fresh |-> TRUE]
<1>1. /\ DOMAIN reading = Audit!Statements
      /\ answers' = [answers EXCEPT ![q.key] = {a}]
      /\ walk' = IF q.key # Audit!Key THEN walk
                 ELSE IF page = 1 THEN Audit!Start(a, {})
                 ELSE Audit!Follow(a, walk.kept \ {page})
      /\ asked' = {} /\ reading' = << >>
      /\ UNCHANGED <<source, committed, filter, page, reads>>
  BY DEF Audit!Answer
<1>2. asked # {}
  <2>1. DOMAIN << >> # Audit!Statements
    BY DEF Audit!Statements
  <2> QED BY <1>1, <2>1 DEF AuditInv, ReadingOK
<1>3. q \in asked
  BY <1>2
<1> HIDE DEF q
<1>4. q.key = key /\ q.base \subseteq committed /\ asked = {q}
  BY <1>3 DEF AuditInv, ReadingOK
<1>5. q.key = Audit!Key /\ key[1] = filter /\ key[2] = page /\ key \in Audit!Keys
  BY <1>4, AuditFacts DEF Audit!Key
<1>6. /\ a.items = Audit!Items(reading, filter, page) /\ a.total = Audit!Total(reading, filter)
      /\ a.base = q.base /\ a.torn = torn
      /\ {"items", "total", "base", "torn"} \subseteq DOMAIN a
  BY <1>4, <1>5
<1> HIDE DEF a
<1>7. Reached(source, q.base, filter, page, walk, answers[key] # {})
  BY <1>3 DEF AuditInv, WayOK
<1>8. AnswerOK(source, committed, a, key)
  <2>1. \A s \in Audit!Statements : reading[s] \subseteq committed
    BY <1>1 DEF AuditInv, ReadingOK
  <2>2. /\ a.total \in Nat /\ a.total <= Cardinality(Listed(source, committed, filter))
        /\ ~torn => /\ a.items = Audit!Slice(Listed(source, q.base, filter), page)
                    /\ a.total = Cardinality(Listed(source, q.base, filter))
    <3>1. /\ Audit!Total(reading, filter) \in Nat
          /\ Audit!Total(reading, filter) <= Cardinality(Audit!Matches(committed, filter))
          /\ \A b : (\A s \in Audit!Statements : reading[s] = b) =>
               /\ Audit!Items(reading, filter, page) = Audit!Slice(Audit!Matches(b, filter), page)
               /\ Audit!Total(reading, filter) = Cardinality(Audit!Matches(b, filter))
      BY <2>1, AuditFacts, ServerAnswers
    <3>2. ~torn => \A s \in Audit!Statements : reading[s] = q.base
      OBVIOUS
    <3> HIDE DEF torn
    <3>3. ~torn => /\ a.items = Audit!Slice(Audit!Matches(q.base, filter), page)
                   /\ a.total = Cardinality(Audit!Matches(q.base, filter))
      BY <1>6, <3>1, <3>2
    <3>4. /\ Audit!Matches(committed, filter) = Listed(source, committed, filter)
          /\ Audit!Matches(q.base, filter) = Listed(source, q.base, filter)
      BY ListedIsMatches
    <3> QED BY <1>6, <3>1, <3>3, <3>4
  <2>3. page = 1 \/ (page - 1) * Limit < Cardinality(Listed(source, q.base, filter))
    BY <1>7 DEF Reached
  <2> QED BY <1>4, <1>5, <1>6, <2>2, <2>3 DEF AnswerOK
<1>9. /\ answers' = [k \in Audit!Keys |-> answers'[k]]
      /\ \A k \in Audit!Keys : answers'[k] = IF k = key THEN {a} ELSE answers[k]
  BY <1>1, <1>4, <1>5 DEF AuditInv, AnswersOK
<1>10. AnswersOK'
  BY <1>1, <1>8, <1>9 DEF AuditInv, AnswersOK, Audit!Keys
<1>11. /\ {"base", "seen", "torn", "kept"} \subseteq DOMAIN walk' /\ walk'.base \subseteq committed
       /\ walk'.kept \subseteq Nat
       /\ Reached(source, committed, filter, page, walk', TRUE)
       /\ Ended(source, filter, page, walk', a)
  <2>1. CASE page = 1
    <3>1. walk' = [base |-> a.base, seen |-> Audit!ToSet(a.items), torn |-> a.torn, kept |-> {}]
      BY <1>1, <1>5, <2>1 DEF Audit!Start
    <3>2. AnswerOK(source, committed, a, <<filter, 1>>)
      BY <1>8, <2>1
    <3>3. /\ Reached(source, committed, filter, 1, walk', TRUE)
          /\ Ended(source, filter, 1, walk', a)
      BY <3>1, <3>2, WayBegins, AuditFacts
    <3> QED BY <1>4, <1>6, <2>1, <3>1, <3>3
  <2>2. CASE page # 1
    <3>1. walk' = [walk EXCEPT !.seen = @ \cup Audit!ToSet(a.items), !.torn = @ \/ a.torn,
                              !.kept = walk.kept \ {page}]
      BY <1>1, <1>5, <2>2 DEF Audit!Follow
    <3>2. {"base", "seen", "torn", "kept"} \subseteq DOMAIN walk /\ walk.kept \subseteq Nat
          /\ walk.base \subseteq committed
      BY DEF AuditInv, WalkTyped
    <3>3. /\ walk'.base = walk.base /\ walk'.seen = walk.seen \cup Audit!ToSet(a.items)
          /\ (walk'.torn <=> walk.torn \/ a.torn) /\ walk'.kept = walk.kept \ {page}
          /\ DOMAIN walk' = DOMAIN walk
      BY <3>1, <3>2
    <3>4. page \in Nat \ {0, 1} /\ q.base \subseteq DOMAIN source
      BY <1>4, <2>2, AuditFacts
    <3>5. Reached(source, q.base, filter, page, walk, FALSE)
      BY <1>7, AuditFacts DEF Reached
    <3>6. Reached(source, q.base, filter, page, walk', TRUE) /\ Ended(source, filter, page, walk', a)
      BY <1>6, <1>8, <3>2, <3>3, <3>4, <3>5, WayReads, AuditFacts
    <3>7. Reached(source, committed, filter, page, walk', TRUE)
      BY <1>4, <3>4, <3>6, ReachedGrows, AuditFacts
    <3> QED BY <3>2, <3>3, <3>6, <3>7
  <2> QED BY <2>1, <2>2
<1>12. LogsOK' /\ ScreenOK' /\ Audit!PagesAssumption'
  BY <1>1 DEF AuditInv, LogsOK, ScreenOK, Audit!PagesAssumption
<1>13. ReadingOK'
  BY <1>1 DEF ReadingOK
<1>14. WalkTyped'
  BY <1>1, <1>11 DEF WalkTyped
<1>15. answers'[<<filter, page>>] = {a}
  BY <1>5, <1>9
<1>16. WayOK'
  BY <1>1, <1>11, <1>15 DEF WayOK
<1> QED BY <1>10, <1>12, <1>13, <1>14, <1>16 DEF AuditInv

(* The screen shows a page: the answer kept for it or none, and asks for it*)
(* again if that is old.                                                   *)
LEMMA AskingKeeps ==
  ASSUME AuditInv, asked = {}, UNCHANGED <<source, committed, answers>>,
         filter' \in Filters, page' \in Nat \ {0}, <<filter', page'>> \in Audit!Keys,
         UNCHANGED <<reading, asked, reads>> \/ Audit!Ask(<<filter', page'>>),
         {"base", "seen", "torn", "kept"} \subseteq DOMAIN walk', walk'.base \subseteq committed,
         walk'.kept \subseteq Nat,
         Reached(source, committed, filter', page', walk', answers[<<filter', page'>>] # {}),
         \A a \in answers[<<filter', page'>>] : Ended(source, filter', page', walk', a)
  PROVE  AuditInv'
<1>1. LogsOK' /\ AnswersOK' /\ Audit!PagesAssumption'
  BY DEF AuditInv, LogsOK, AnswersOK, Audit!PagesAssumption, Audit!Keys
<1>2. ScreenOK' /\ WalkTyped'
  BY DEF ScreenOK, WalkTyped, Audit!Keys
<1>3. CASE UNCHANGED <<reading, asked, reads>>
  <2>1. ReadingOK'
    BY <1>3 DEF AuditInv, ReadingOK
  <2>2. WayOK'
    BY <1>3 DEF WayOK
  <2> QED BY <1>1, <1>2, <2>1, <2>2 DEF AuditInv
<1>4. CASE Audit!Ask(<<filter', page'>>)
  <2> DEFINE r == [key |-> <<filter', page'>>, base |-> committed]
  <2>1. asked' = {r} /\ reading' = << >>
    BY <1>4 DEF Audit!Ask
  <2>2. r.key = <<filter', page'>> /\ r.base = committed
    OBVIOUS
  <2> HIDE DEF r
  <2>3. ReadingOK'
    BY <2>1, <2>2 DEF ReadingOK
  <2>4. WayOK'
    BY <2>1, <2>2 DEF WayOK
  <2> QED BY <1>1, <1>2, <2>3, <2>4 DEF AuditInv
<1> QED BY <1>3, <1>4

LEMMA ShowKeeps ==
  ASSUME AuditInv, NEW f \in Filters, NEW p \in Nat \ {0}, Audit!Show(f, p),
         p = 1 \/ (p - 1) * Limit < Cardinality(Listed(source, committed, f)),
         p # 1 => f = filter,
         f = filter => \/ p = page + 1 /\ answers[<<filter, page>>] # {}
                       \/ p < page
                       \/ p = page /\ answers[<<filter, page>>] = {}
  PROVE  AuditInv'
<1> DEFINE key == <<f, p>>
           a == CHOOSE a \in answers[key] : TRUE
<1>1. /\ asked = {} /\ filter' = f /\ page' = p
      /\ walk' = IF answers[key] = {} THEN (IF p = 1 THEN Audit!NoWalk ELSE walk)
                 ELSE IF p = 1 THEN Audit!Start(a, {}) ELSE Audit!Follow(a, walk.kept \cup {p})
      /\ UNCHANGED <<reading, asked, reads>> \/ Audit!Ask(key)
      /\ UNCHANGED <<source, committed, answers>>
  BY DEF Audit!Show, Audit!Idle
<1>2. key \in Audit!Keys
  BY AuditFacts
<1>3. answers[key] # {} => /\ a \in answers[key] /\ AnswerOK(source, committed, a, key)
                           /\ \A b \in answers[key] : b = a
  BY <1>2 DEF AuditInv, AnswersOK
<1> HIDE DEF a
<1>4. p # 1 => Reached(source, committed, f, p, walk, FALSE)
  <2>1. Reached(source, committed, filter, page, walk, answers[<<filter, page>>] # {})
    BY <1>1 DEF AuditInv, WayOK
  <2> DEFINE on == answers[<<filter, page>>] # {}
  <2>2. on \in BOOLEAN /\ Reached(source, committed, filter, page, walk, on)
    BY <2>1
  <2>3. p # 1 => f = filter /\ ((on /\ p = page + 1) \/ p <= page)
    <3>1. page \in Nat
      BY AuditFacts
    <3>2. CASE p = 1
      BY <3>2
    <3>3. CASE p # 1
      <4>1. f = filter
        BY <3>3
      <4>2. (p = page + 1 /\ on) \/ p < page \/ p = page
        BY <4>1
      <4> HIDE DEF on
      <4> QED BY <3>1, <4>1, <4>2
    <3> QED BY <3>2, <3>3
  <2> HIDE DEF on
  <2> QED BY <2>2, <2>3, WayTurns, AuditFacts
<1>5. /\ {"base", "seen", "torn", "kept"} \subseteq DOMAIN walk
      /\ walk.base \subseteq committed /\ walk.kept \subseteq Nat
  BY DEF AuditInv, WalkTyped
<1>6. /\ {"base", "seen", "torn", "kept"} \subseteq DOMAIN walk'
      /\ walk'.base \subseteq committed /\ walk'.kept \subseteq Nat
      /\ Reached(source, committed, f, p, walk', answers[key] # {})
      /\ \A b \in answers[key] : Ended(source, f, p, walk', b)
  <2>1. CASE answers[key] = {} /\ p = 1
    <3>1. walk' = [base |-> {}, seen |-> {}, torn |-> FALSE, kept |-> {}]
      BY <1>1, <2>1 DEF Audit!NoWalk
    <3>2. walk'.base = {} /\ walk'.kept = {} /\ {"base", "seen", "torn", "kept"} \subseteq DOMAIN walk'
      BY <3>1
    <3> QED BY <2>1, <3>2 DEF Reached, Listed
  <2>2. CASE answers[key] = {} /\ p # 1
    BY <1>1, <1>4, <1>5, <2>2
  <2>3. CASE answers[key] # {} /\ p = 1
    <3>1. walk' = [base |-> a.base, seen |-> Audit!ToSet(a.items), torn |-> a.torn, kept |-> {}]
      BY <1>1, <2>3 DEF Audit!Start
    <3>2. AnswerOK(source, committed, a, <<f, 1>>)
      BY <1>3, <2>3
    <3>3. Reached(source, committed, f, 1, walk', TRUE) /\ Ended(source, f, 1, walk', a)
      BY <3>1, <3>2, WayBegins, AuditFacts
    <3>4. a.base \subseteq committed
      BY <3>2 DEF AnswerOK
    <3>5. /\ walk'.base = a.base /\ walk'.kept = {}
          /\ {"base", "seen", "torn", "kept"} \subseteq DOMAIN walk'
      BY <3>1
    <3> QED BY <1>3, <2>3, <3>3, <3>4, <3>5
  <2>4. CASE answers[key] # {} /\ p # 1
    <3>1. walk' = [walk EXCEPT !.seen = @ \cup Audit!ToSet(a.items), !.torn = @ \/ a.torn,
                              !.kept = walk.kept \cup {p}]
      BY <1>1, <2>4 DEF Audit!Follow
    <3>2. /\ walk'.base = walk.base /\ walk'.seen = walk.seen \cup Audit!ToSet(a.items)
          /\ (walk'.torn <=> walk.torn \/ a.torn) /\ walk'.kept = walk.kept \cup {p}
          /\ DOMAIN walk' = DOMAIN walk
      BY <1>5, <3>1
    <3>3. Reached(source, committed, f, p, walk', TRUE) /\ Ended(source, f, p, walk', a)
      BY <1>4, <2>4, <3>2, WayKeeps
    <3> QED BY <1>3, <1>5, <2>4, <3>2, <3>3
  <2> QED BY <2>1, <2>2, <2>3, <2>4
<1> QED BY <1>1, <1>2, <1>6, AskingKeeps

(* Refreshing asks for the page on the screen.                             *)
LEMMA RefreshKeeps == ASSUME AuditInv, Audit!Refresh PROVE AuditInv'
<1>1. /\ asked = {} /\ Audit!Ask(<<filter, page>>)
      /\ UNCHANGED <<source, committed, filter, page, answers, walk>>
  BY DEF Audit!Refresh, Audit!Idle, Audit!Key
<1>2. /\ {"base", "seen", "torn", "kept"} \subseteq DOMAIN walk
      /\ walk.base \subseteq committed /\ walk.kept \subseteq Nat
  BY DEF AuditInv, WalkTyped
<1>3. /\ Reached(source, committed, filter, page, walk, answers[<<filter, page>>] # {})
      /\ \A a \in answers[<<filter, page>>] : Ended(source, filter, page, walk, a)
  BY <1>1 DEF AuditInv, WayOK
<1> QED BY <1>1, <1>2, <1>3, AskingKeeps, AuditFacts

(* The ways from page to page.                                             *)
LEMMA TurningKeeps ==
  ASSUME AuditInv,
         Audit!Open \/ Audit!NextPage \/ Audit!Previous \/ \E f \in Filters : Audit!SetSource(f)
  PROVE  AuditInv'
<1> DEFINE kept == answers[<<filter, page>>]
           all == Cardinality(Listed(source, committed, filter))
<1>0. Audit!Shown = kept
  BY DEF Audit!Shown, Audit!Key
<1>1. Limit \in Nat \ {0} /\ page \in Nat \ {0} /\ filter \in Filters /\ all \in Nat
  BY AuditFacts, ListedIsCounted
<1>2. asked = {} => page = 1 \/ (page - 1) * Limit < all
  BY DEF AuditInv, WayOK, Reached
<1> HIDE DEF all
<1>3. CASE Audit!Open
  <2>1. kept = {} /\ Audit!Show(filter, page) /\ asked = {}
    BY <1>0, <1>3 DEF Audit!Open, Audit!Show, Audit!Idle
  <2> QED BY <1>1, <1>2, <2>1, ShowKeeps DEF all
<1>4. CASE Audit!NextPage
  <2>1. PICK a \in kept : page < Audit!TotalPages(a.total) /\ Audit!Show(filter, page + 1)
    BY <1>0, <1>4 DEF Audit!NextPage
  <2>2. AnswerOK(source, committed, a, <<filter, page>>)
    BY <2>1, AuditFacts DEF AuditInv, AnswersOK
  <2>3. a.total \in Nat /\ a.total <= all
    BY <2>2 DEF AnswerOK, all
  <2>4. page * Limit < a.total /\ page * Limit \in Nat
    BY <1>1, <2>1, <2>3, PagesAreCounted
  <2>5. (page + 1) - 1 = page /\ page + 1 \in Nat \ {0}
    BY <1>1
  <2>6. ((page + 1) - 1) * Limit < all
    BY <1>1, <2>3, <2>4, <2>5
  <2> QED BY <1>1, <2>1, <2>5, <2>6, ShowKeeps DEF all
<1>5. CASE Audit!Previous
  <2>1. page > 1 /\ Audit!Show(filter, page - 1) /\ asked = {}
    BY <1>5 DEF Audit!Previous, Audit!Show, Audit!Idle
  <2>2. page - 1 \in Nat \ {0} /\ (page - 1) - 1 \in Nat
    BY <1>1, <2>1
  <2>3. ((page - 1) - 1) * Limit <= (page - 1) * Limit
    BY <1>1, <2>2, PageBounds
  <2>4. ((page - 1) - 1) * Limit \in Nat /\ (page - 1) * Limit \in Nat
    BY <1>1, <2>2
  <2>5. ((page - 1) - 1) * Limit < all
    BY <1>1, <1>2, <2>1, <2>3, <2>4
  <2> QED BY <1>1, <2>1, <2>2, <2>5, ShowKeeps DEF all
<1>6. ASSUME NEW f \in Filters, Audit!SetSource(f) PROVE AuditInv'
  <2>1. f # filter /\ Audit!Show(f, 1)
    BY <1>6 DEF Audit!SetSource
  <2> QED BY <2>1, ShowKeeps
<1> QED BY <1>3, <1>4, <1>5, <1>6

LEMMA AuditStep == AuditInv /\ [Audit!Next]_(Audit!vars) => AuditInv'
<1> SUFFICES ASSUME AuditInv, [Audit!Next]_(Audit!vars) PROVE AuditInv'
  OBVIOUS
<1>1. CASE UNCHANGED Audit!vars
  BY <1>1 DEF Audit!vars, AuditInv, LogsOK, ScreenOK, AnswersOK, ReadingOK, WalkTyped, WayOK,
    Audit!PagesAssumption, Audit!Keys
<1> QED BY <1>1, BeginKeeps, CommitKeeps, StatementKeeps, AnswerKeeps, AgeKeeps, TurningKeeps,
    RefreshKeeps DEF Audit!Next, Logs

(* An answer whose statements saw the same movements holds the page of both*)
(* logs together, although each gives its first rows only, and no page is  *)
(* empty as long as there are movements, for any size of page, filters and *)
(* number of movements (dashboard and userActivity of audit.service.ts).   *)
THEOREM AuditPagesAreRight ==
  Audit!PagesAssumption => (Audit!Spec => [](Audit!PageIsRight /\ Audit!NoEmptyPage))
<1>1. AuditInv => Audit!PageIsRight
  BY SameCount, ListedIsMatches DEF AuditInv, AnswersOK, AnswerOK, Audit!PageIsRight
<1>2. AuditInv => Audit!NoEmptyPage
  <2>1. SUFFICES ASSUME AuditInv, NEW a \in Audit!Shown, ~a.torn, a.items = << >>
                 PROVE  a.total = 0
    BY DEF Audit!NoEmptyPage
  <2> DEFINE L == Listed(source, a.base, filter)
  <2>2. AnswerOK(source, committed, a, <<filter, page>>)
    BY <2>1, AuditFacts DEF AuditInv, AnswersOK, Audit!Shown, Audit!Key
  <2>3. /\ a.items = Audit!Slice(L, page) /\ a.total = Cardinality(L)
        /\ page = 1 \/ (page - 1) * Limit < Cardinality(L)
        /\ a.base \subseteq DOMAIN source
    BY <2>1, <2>2, AuditFacts DEF AnswerOK
  <2>4. Counted(L) /\ Cardinality(L) \in Nat
    <3>1. source \in Seq(Logs)
      BY <2>1, AuditFacts
    <3> QED BY <2>3, <3>1, ListedIsCounted
  <2> HIDE DEF L
  <2>5. ~ ((page - 1) * Limit < Cardinality(L))
    <3>1. Limit \in Nat \ {0} /\ page \in Nat \ {0}
      BY <2>1, AuditFacts
    <3>2. (page - 1) * Limit < Cardinality(L) => Audit!Slice(L, page) # << >>
      BY <2>4, <3>1, SliceSpans
    <3> QED BY <2>1, <2>3, <3>2
  <2>6. page = 1 /\ (1 - 1) * Limit = 0
    BY <2>1, <2>3, <2>5, AuditFacts
  <2> QED BY <2>3, <2>4, <2>5, <2>6
<1> QED BY <1>1, <1>2, AuditStart, AuditStep, PTL DEF Audit!Spec

(* Who reads page after page to the end has seen every movement there was  *)
(* at the start, whatever is written meanwhile, if each page was read on   *)
(* the way and nothing was committed between the statements of one.        *)
THEOREM AuditWalksAreComplete == Audit!PagesAssumption => (Audit!Spec => []Audit!WalkIsComplete)
<1>1. AuditInv => Audit!WalkIsComplete
  BY ListedIsMatches DEF AuditInv, WayOK, Ended, Audit!WalkIsComplete, Audit!Complete,
    Audit!AtTheEnd, Audit!Shown, Audit!Key
<1> QED BY <1>1, AuditStart, AuditStep, PTL DEF Audit!Spec
==================================================================================
