--------------------------- MODULE DailyManagement ---------------------------
(***************************************************************************)
(* The daily report of a plant and its closure (plant.service.ts,          *)
(* dailyManagement and closeDay).                                          *)
(*                                                                         *)
(* The report of a past day is rebuilt from time stamps: the periods of    *)
(* the tanks and the laboratory samples, each read by a statement of its   *)
(* own, without a transaction (the lots, decisions and orders of the day   *)
(* are counted by their stamps as the samples are).  The operations that   *)
(* write them take their stamps inside a transaction (new Date() for the   *)
(* end of a period, the default of the column for the start of the next)   *)
(* and commit later, so a stamp may belong to a day that is already over   *)
(* when the row appears.                                                   *)
(***************************************************************************)
EXTENDS Integers, SequencesExt, FiniteSetsExt

CONSTANTS
  Tanks,
  Managers,     \* requests for a report that may be in progress at once
  ReadOrder,    \* the order in which the statements of a report are answered
  Days,         \* days the model runs through, 0 being the first
  DayLength,    \* instants of a day
  None,         \* null
  MaxTime,      \* bound on the clock
  MaxPeriods    \* bound on the periods of a tank

DailyAssumption ==
  /\ Days \subseteq Nat /\ DayLength \in Nat \ {0} /\ IsFiniteSet(Tanks)
  /\ ReadOrder \in [1 .. 3 -> {"tanks", "periods", "samples"}] /\ IsInjective(ReadOrder)
  /\ MaxTime \in Nat /\ MaxPeriods \in Nat /\ None \notin Nat

VARIABLES
  clock,
  periods,      \* TankStateHistory rows of each tank, oldest first
  samples,      \* LaboratorySample rows of each tank, oldest first
  operation,    \* the transaction in progress on a tank, or None
  report,       \* the report each manager is waiting for, or None: what it has read
                \* so far and, once its closure has been checked, its figures
  closure,      \* DailyPlantClosure row of each day, or None
  held,         \* state each tank held when a day ended, or None
  crossed       \* tanks with an operation in progress when a day ended

rows == <<periods, samples>>
ghosts == <<held, crossed>>
vars == <<clock, rows, operation, report, closure, ghosts>>

States == {"VACIO", "FABRICANDO", "LABORATORIO", "APROBADO"}
PastOrNone == (0 .. clock) \cup {None}
Period == [state: States, started: 0 .. clock, ended: PastOrNone]
Sample == [requested: 0 .. clock, received: PastOrNone, analysed: PastOrNone,
           resolved: PastOrNone]
Operations == {"start", "send", "receive", "analyse", "resolve", "finish"}
Parts == {"tanks", "periods", "samples"}

DailyTypeOK ==
  /\ clock \in 0 .. MaxTime
  /\ periods \in [Tanks -> Seq(Period)]
  /\ samples \in [Tanks -> Seq(Sample)]
  /\ \A t \in Tanks : operation[t] # None =>
       operation[t].kind \in Operations /\ operation[t].began \in 0 .. clock
  /\ \A m \in Managers : report[m] # None =>
       /\ report[m].day \in Days /\ report[m].now \in 0 .. clock
       /\ DOMAIN report[m].read = Parts
  /\ held \in [Days -> [Tanks -> States] \cup {None}]
  /\ crossed \in [Days -> SUBSET Tanks]

Init ==
  /\ clock = 0
  /\ periods = [t \in Tanks |-> <<[state |-> "VACIO", started |-> 0, ended |-> None]>>]
  /\ samples = [t \in Tanks |-> << >>]
  /\ operation = [t \in Tanks |-> None]
  /\ report = [m \in Managers |-> None]
  /\ closure = [d \in Days |-> None]
  /\ held = [d \in Days |-> None]
  /\ crossed = [d \in Days |-> {}]

-----------------------------------------------------------------------------
\* plantDayBounds.
Start(d) == d * DayLength
End(d) == Start(d) + DayLength

StateOf(t) == Last(periods[t]).state
LastSample(t) == Last(samples[t])

\* The operations of a lot that the report is made of (module Plant has all of
\* them with their checks).
Possible(t, kind) ==
  CASE kind = "start" -> StateOf(t) = "VACIO"
    [] kind = "send" -> StateOf(t) = "FABRICANDO"
    [] kind = "receive" -> StateOf(t) = "LABORATORIO" /\ LastSample(t).received = None
    [] kind = "analyse" -> /\ StateOf(t) = "LABORATORIO"
                           /\ LastSample(t).received # None
                           /\ LastSample(t).analysed = None
    [] kind = "resolve" -> StateOf(t) = "LABORATORIO" /\ LastSample(t).analysed # None
    [] kind = "finish" -> StateOf(t) = "APROBADO"

StateAfter == [start |-> "FABRICANDO", send |-> "LABORATORIO",
               resolve |-> "APROBADO", finish |-> "VACIO"]

BeginOperation(t, kind) ==
  /\ operation[t] = None
  /\ Possible(t, kind)
  /\ kind \in DOMAIN StateAfter => Len(periods[t]) < MaxPeriods
  /\ operation' = [operation EXCEPT ![t] = [kind |-> kind, began |-> clock]]
  /\ UNCHANGED <<clock, rows, report, closure, ghosts>>

\* The period that ends and the one that starts carry stamps of their own.
Moved(t, state, ended, started) ==
  Append([periods[t] EXCEPT ![Len(periods[t])].ended = ended],
         [state |-> state, started |-> started, ended |-> None])

Stamped(t, field, at) == [samples[t] EXCEPT ![Len(samples[t])][field] = at]

\* Commit: at and started lie between the beginning of the transaction and now.
CommitOperation(t) ==
  /\ operation[t] # None
  /\ \E at, started \in operation[t].began .. clock :
       LET kind == operation[t].kind IN
       /\ IF kind \in DOMAIN StateAfter
          THEN periods' = [periods EXCEPT ![t] = Moved(t, StateAfter[kind], at, started)]
          ELSE started = at /\ UNCHANGED periods
       /\ \/ /\ kind = "send"
             /\ \E requested \in operation[t].began .. clock :
                  samples' = [samples EXCEPT ![t] = Append(@,
                    [requested |-> requested, received |-> None, analysed |-> None,
                     resolved |-> None])]
          \/ /\ kind = "receive"
             /\ \/ samples' = [samples EXCEPT ![t] = Stamped(t, "received", at)]
                \/ samples' = [samples EXCEPT ![t] =
                     [Stamped(t, "received", at) EXCEPT ![Len(samples[t])].analysed = at]]
          \/ kind = "analyse" /\ samples' = [samples EXCEPT ![t] = Stamped(t, "analysed", at)]
          \/ kind = "resolve" /\ samples' = [samples EXCEPT ![t] = Stamped(t, "resolved", at)]
          \/ kind \in {"start", "finish"} /\ UNCHANGED samples
  /\ operation' = [operation EXCEPT ![t] = None]
  /\ UNCHANGED <<clock, report, closure, ghosts>>

Tick ==
  /\ clock < MaxTime
  /\ clock' = clock + 1
  /\ held' = [d \in Days |-> IF End(d) = clock + 1 THEN [t \in Tanks |-> StateOf(t)]
                             ELSE held[d]]
  /\ crossed' = [d \in Days |-> IF End(d) = clock + 1
                                THEN {t \in Tanks : operation[t] # None}
                                ELSE crossed[d]]
  /\ UNCHANGED <<rows, operation, report, closure>>

-----------------------------------------------------------------------------
(* The computation of the report from the rows it read. *)

IsLive(d, now) == Start(d) <= now /\ now < End(d)
ReportAt(d, now) == IF IsLive(d, now) THEN now ELSE End(d) - 1

InDay(d, at) == at # None /\ Start(d) <= at /\ at < End(d)
PassedBy(stamp, at) == stamp # None /\ stamp <= at

\* The newest period of that instant; a tank without one counts as VACIO.
Rebuilt(ps, at) ==
  LET open == {i \in DOMAIN ps : ps[i].started <= at /\ ~PassedBy(ps[i].ended, at)} IN
  IF open = {} THEN "VACIO" ELSE ps[Max(open)].state

\* A sample on its way to the laboratory, and one being analysed, at an instant.
AwaitingReceipt(s, at) == s.requested <= at /\ ~PassedBy(s.received, at)
\* Mutant of InAnalysis: as of now.
InAnalysisNow(s, at) == s.analysed # None /\ ~PassedBy(s.resolved, at)
InAnalysis(s, at) == PassedBy(s.analysed, at) /\ ~PassedBy(s.resolved, at)

RowsOf(table) == UNION {{t} \X DOMAIN table[t] : t \in Tanks}
CountRows(table, P(_)) == Cardinality({row \in RowsOf(table) : P(table[row[1]][row[2]])})

\* The instants of a period inside the day; a period still open ends now.
ClippedTime(p, d, now) ==
  {at \in Start(d) .. End(d) - 1 : p.started <= at /\ at < IF p.ended = None THEN now ELSE p.ended}

TimeInState(table, state, d, now) ==
  LET inState == {row \in RowsOf(table) : table[row[1]][row[2]].state = state} IN
  Cardinality(UNION {{row} \X ClippedTime(table[row[1]][row[2]], d, now) : row \in inState})

Figures(d, now, read, later) ==
  LET at == ReportAt(d, now) IN
  [states |-> IF IsLive(d, now) THEN read.tanks
              ELSE [t \in Tanks |-> Rebuilt(read.periods[t], at)],
   awaitingReceipt |-> CountRows(read.samples, LAMBDA s : AwaitingReceipt(s, at)),
   inAnalysis |-> CountRows(read.samples, LAMBDA s : InAnalysis(s, at)),
   received |-> CountRows(read.samples, LAMBDA s : InDay(d, s.received)),
   resolved |-> CountRows(read.samples, LAMBDA s : InDay(d, s.resolved)),
   durationByState |-> [s \in States |-> TimeInState(read.periods, s, d, later)]]

Present(part) ==
  CASE part = "tanks" -> [t \in Tanks |-> StateOf(t)]
    [] part = "periods" -> periods
    [] part = "samples" -> samples

PresentFigures(d) == Figures(d, clock, [part \in Parts |-> Present(part)], clock)

-----------------------------------------------------------------------------
\* No operation that took its stamps in day d can still appear.
Settled(d) ==
  /\ clock >= End(d)
  /\ \A t \in Tanks : operation[t] # None => operation[t].began >= End(d)

\* dailyManagement: "now" is captured, then the statements are sent together.
BeginReport(m, d) ==
  /\ report[m] = None
  /\ report' = [report EXCEPT ![m] =
       [day |-> d, now |-> clock, settled |-> Settled(d),
        read |-> [part \in Parts |-> None], figures |-> None]]
  /\ UNCHANGED <<clock, rows, operation, closure, ghosts>>

ReadPart(m, i) ==
  /\ report[m] # None
  /\ {part \in Parts : report[m].read[part] # None} = {ReadOrder[j] : j \in 1 .. i - 1}
  /\ report' = [report EXCEPT ![m].read[ReadOrder[i]] = Present(ReadOrder[i])]
  /\ UNCHANGED <<clock, rows, operation, closure, ghosts>>

Complete(m) == report[m] # None /\ \A part \in Parts : report[m].read[part] # None
FiguresOf(m) == Figures(report[m].day, report[m].now, report[m].read, clock)

\* A report asked for by the page or the export ends here.
AnswerReport(m) ==
  /\ Complete(m)
  /\ report' = [report EXCEPT ![m] = None]
  /\ UNCHANGED <<clock, rows, operation, closure, ghosts>>

\* The key plantId_date of the table.
UniqueDay(d) == closure[d] = None

\* closeDay, after its report: an existing closure refuses the request, and so
\* does the key of the table for a closure written in the meantime.
CheckClosure(m) ==
  /\ Complete(m)
  /\ report[m].figures = None
  /\ report' = [report EXCEPT ![m] =
       IF closure[report[m].day] # None THEN None ELSE [@ EXCEPT !.figures = FiguresOf(m)]]
  /\ UNCHANGED <<clock, rows, operation, closure, ghosts>>

CreateClosure(m) ==
  /\ Complete(m)
  /\ report[m].figures # None
  /\ UniqueDay(report[m].day)
  /\ closure' = [closure EXCEPT ![report[m].day] =
       [snapshot |-> report[m].figures, settled |-> report[m].settled]]
  /\ report' = [report EXCEPT ![m] = None]
  /\ UNCHANGED <<clock, rows, operation, ghosts>>

Next ==
  \/ \E t \in Tanks : \/ \E kind \in Operations : BeginOperation(t, kind)
                      \/ CommitOperation(t)
  \/ \E m \in Managers :
       \/ \E d \in Days : BeginReport(m, d)
       \/ \E i \in DOMAIN ReadOrder : ReadPart(m, i)
       \/ AnswerReport(m) \/ CheckClosure(m) \/ CreateClosure(m)
  \/ Tick

Spec == Init /\ [][Next]_vars

-----------------------------------------------------------------------------
\* The report of a past day tells the state each tank held when the day ended,
\* unless an operation on the tank was in progress at that instant; its stamps
\* decide then, and a gap between them shows the tank VACIO.
PastStatesTrue ==
  \A m \in Managers : Complete(m) /\ report[m].settled =>
    \A t \in Tanks \ crossed[report[m].day] :
      FiguresOf(m).states[t] = held[report[m].day][t]

\* In such a report the laboratory figures and the tanks agree, though they come
\* from rows read at different moments: a sample awaits receipt, waits received
\* or is analysed for each tank that was in LABORATORIO.
LaboratoryMatchesTanks ==
  \A m \in Managers :
    Complete(m) /\ report[m].settled /\ crossed[report[m].day] = {} =>
      LET f == FiguresOf(m)
          at == End(report[m].day) - 1
          waiting == CountRows(report[m].read.samples,
                       LAMBDA s : PassedBy(s.received, at) /\ ~PassedBy(s.analysed, at))
      IN f.awaitingReceipt + waiting + f.inAnalysis
           = Cardinality({t \in Tanks : f.states[t] = "LABORATORIO"})

\* A closure made once the day is over and its operations committed is final:
\* whenever the report of the day is made again it has the same figures.
SettledClosureStands ==
  \A d \in Days : closure[d] # None /\ closure[d].settled =>
    closure[d].snapshot = PresentFigures(d)

\* A day is closed once: of two closures that both saw it open one is refused,
\* and what was frozen never changes.
ClosedForGood == \A d \in Days : closure[d] # None => closure'[d] = closure[d]
=============================================================================
