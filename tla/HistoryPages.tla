----------------------------- MODULE HistoryPages -----------------------------
(***************************************************************************)
(* The history of states of a plant (history of plant.service.ts,          *)
(* PlantHistoryPage.tsx): the rows that match the filters, newest first,   *)
(* the first page of them on the screen, and the PDF that reads page after *)
(* page while the plant goes on changing states.                           *)
(*                                                                         *)
(* A row is [tank, lot, state, start, end]; its id is its place in the     *)
(* sequence of rows.  Times are counted in ticks, DayLength to a day.      *)
(***************************************************************************)
EXTENDS Integers, FiniteSets, Sequences, SequencesExt, FiniteSetsExt

CONSTANTS
  Tanks,
  States,        \* states of the rows the runs tell apart
  Options,       \* options of the filter of states, "" is Todos
  Periods,       \* <<first, last>> days of the filters; -1 is no date
  DayLength,
  PageSize,      \* rows of an answer (1000)
  MaxRows,       \* bound: rows
  MaxClock       \* bound: ticks

HistoryAssumption ==
  /\ PageSize \in Nat \ {0} /\ DayLength \in Nat \ {0}
  /\ IsFiniteSet(Tanks) /\ Periods \subseteq Int \X Int

VARIABLES
  clock,
  rows,          \* TankStateHistory
  choice, period,\* filters of the screen
  offset,        \* offset of the next page of the PDF, NotReading when none is read
  allRows,       \* ids read for the PDF
  began,         \* rows there were when the PDF was begun
  report         \* whether allRows is the PDF's

vars == <<clock, rows, choice, period, offset, allRows, began, report>>

NotReading == -1
Open == 0
Ids == DOMAIN rows

Init ==
  /\ clock = 1
  /\ rows = SetToSeq({[tank |-> t, lot |-> 0, state |-> "VACIO", start |-> 1, end |-> Open] : t \in Tanks})
  /\ choice \in Options /\ period \in Periods
  /\ offset = NotReading /\ allRows = <<>> /\ began = 0 /\ report = FALSE

(***************************************************************************)
(* The plant: move closes the open row of the tank and opens another.      *)
(***************************************************************************)
Tick ==
  /\ clock < MaxClock
  /\ clock' = clock + 1
  /\ UNCHANGED <<rows, choice, period, offset, allRows, began, report>>

OpenRow(t) == CHOOSE i \in Ids : rows[i].tank = t /\ rows[i].end = Open

(* A lot begins when the tank leaves VACIO and is that of the rows after.  *)
Move(t, s) ==
  LET i == OpenRow(t)
      lot == IF s = "VACIO" THEN 0
             ELSE IF rows[i].lot # 0 THEN rows[i].lot ELSE Len(rows)
  IN  /\ Len(rows) < MaxRows
      /\ s # rows[i].state
      /\ rows' = Append([rows EXCEPT ![i].end = clock],
                        [tank |-> t, lot |-> lot, state |-> s, start |-> clock, end |-> Open])
      /\ UNCHANGED <<clock, choice, period, offset, allRows, began, report>>

(***************************************************************************)
(* The query of a page.                                                    *)
(***************************************************************************)
DayStart(d) == d * DayLength
DayEnd(d) == (d + 1) * DayLength

(* The option of the list is the state as it is read, without underscores; *)
(* the server ignores a state it does not know.                            *)
Asked(c) == IF c = "FUERA_DE_SERVICIO" THEN "FUERA DE SERVICIO" ELSE c
OfState(c, s) == Asked(c) \in States => s = Asked(c)

EndsAfter(r, d) == r.end = Open \/ r.end >= DayStart(d)

Where(i) ==
  /\ OfState(choice, rows[i].state)
  /\ period[2] # -1 => rows[i].start < DayEnd(period[2])
  /\ period[1] # -1 => EndsAfter(rows[i], period[1])

OrderBy(i, j) == rows[i].start > rows[j].start \/ (rows[i].start = rows[j].start /\ i > j)

Page(skip) ==
  LET matching == {i \in Ids : Where(i)}
      last == Min({PageSize, Cardinality(matching) - skip})
      place(i) == Cardinality({j \in matching : OrderBy(j, i)}) + 1
  IN  [n \in 1 .. last |-> CHOOSE i \in matching : place(i) = skip + n]

(***************************************************************************)
(* The screen and the PDF.                                                 *)
(***************************************************************************)
DownloadSummary ==
  /\ offset = NotReading
  /\ offset' = 0 /\ allRows' = <<>> /\ began' = Len(rows) /\ report' = FALSE
  /\ UNCHANGED <<clock, rows, choice, period>>

ReadPage ==
  /\ offset # NotReading
  /\ allRows' = allRows \o Page(offset)
  /\ IF Len(Page(offset)) < PageSize
     THEN offset' = NotReading /\ report' = TRUE
     ELSE offset' = offset + PageSize /\ report' = FALSE
  /\ UNCHANGED <<clock, rows, choice, period, began>>

(* A page that cannot be read leaves no PDF.                               *)
FailPage ==
  /\ offset # NotReading
  /\ offset' = NotReading /\ allRows' = <<>>
  /\ UNCHANGED <<clock, rows, choice, period, began, report>>

Next ==
  \/ Tick \/ DownloadSummary \/ ReadPage \/ FailPage
  \/ \E t \in Tanks, s \in States : Move(t, s)

Spec == Init /\ [][Next]_vars

(***************************************************************************)
(* The summary by order, of the screen and of the PDF.                     *)
(***************************************************************************)
Lots(read) == {rows[i].lot : i \in ToSet(read)} \ {0}
Adjustments(read, lot) ==
  Cardinality({n \in DOMAIN read : rows[read[n]].lot = lot /\ rows[read[n]].state = "AJUSTE"})

-----------------------------------------------------------------------------
HistoryTypeOK ==
  /\ rows \in Seq([tank : Tanks, lot : Nat, state : States, start : 1 .. clock, end : 0 .. clock])
  /\ \A t \in Tanks : Cardinality({i \in Ids : rows[i].tank = t /\ rows[i].end = Open}) = 1
  /\ ToSet(allRows) \subseteq Ids
  /\ offset \in {NotReading} \cup {n * PageSize : n \in 0 .. MaxRows}

(* A row that meets the chosen days, whatever the order of its end and the *)
(* reading.                                                                *)
Meets(i) ==
  /\ period[2] # -1 => rows[i].start < DayEnd(period[2])
  /\ period[1] # -1 => ~(rows[i].end # Open /\ rows[i].end < DayStart(period[1]))

(* The PDF holds every row of the chosen days there was when it was begun, *)
(* though rows are closed and added while its pages are read.              *)
ReportMissesNothing ==
  report => {i \in 1 .. began : Meets(i) /\ OfState(choice, rows[i].state)} \subseteq ToSet(allRows)

(* A row is repeated in the PDF only for a row added while it was read.    *)
RepeatsAreOfNewRows == report => Len(allRows) - Cardinality(ToSet(allRows)) <= Len(rows) - began

(* No row is in the PDF twice, nor an adjustment counted twice.            *)
AdjustmentsCountedOnce ==
  report => \A lot \in Lots(allRows) :
    Adjustments(allRows, lot) <= Cardinality({i \in Ids : rows[i].lot = lot /\ rows[i].state = "AJUSTE"})

(* The PDF holds rows of the chosen state only.                            *)
ReportOfChosenState == report /\ choice # "" => \A n \in DOMAIN allRows : rows[allRows[n]].state = choice

(* The orders on the screen, made of the first page alone, count all the   *)
(* adjustments that match the filters.                                     *)
ScreenCountsAdjustments ==
  \A lot \in Lots(Page(0)) :
    Adjustments(Page(0), lot) = Cardinality({i \in Ids : Where(i) /\ rows[i].lot = lot /\ rows[i].state = "AJUSTE"})
=============================================================================
