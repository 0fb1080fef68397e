-------------------------- MODULE ManagementScreen --------------------------
(***************************************************************************)
(* The daily summary of a manager (PlantManagementPage.tsx,                *)
(* useActivePlant.ts): one page for every plant and every day.  What the   *)
(* page asked for is kept by plant and day; the dialogs, their values and  *)
(* the requests they send are of the page, which stays when the plant      *)
(* changes.  The other managers close days and save targets meanwhile.     *)
(*                                                                         *)
(* A report is what it says of the closure of its day, and the seven       *)
(* targets of a plant are one value.                                       *)
(***************************************************************************)
EXTENDS Naturals

CONSTANTS
  Plants, Days,
  Minutes,        \* targets a manager may enter
  Default,        \* the targets the page is written with
  None

Keys == Plants \X Days
Values == Minutes \cup {Default}

NoneIsNothing == None \notin Values \cup Keys \cup Plants \cup {TRUE, FALSE}

VARIABLES
  targetsOf,   \* loadConfig(plant).stageTargetsMinutes
  closed,      \* keys of the DailyPlantClosure rows
  active,      \* plant of the URL
  visited,     \* plants the history of the browser leads back to
  day,         \* date
  reports,     \* cache of the reports: does the report tell a closure?
  answers,     \* answers to the poll of a report on their way
  configs,     \* cache of the configurations
  form,        \* targets and their dialog; of is the plant they were taken from
  closing,     \* closureOpen, and the key on the screen when it was opened
  request      \* closure.mutate or saveTargets.mutate not answered yet

server == <<targetsOf, closed>>
place == <<active, visited, day>>
cache == <<reports, answers, configs>>
vars == <<server, place, cache, form, closing, request>>

NoRequest == [kind |-> "none"]
Requests ==
  {NoRequest}
  \cup [kind: {"close"}, key: Keys, answer: {"none", "done", "refused"}]
  \cup [kind: {"save"}, plant: Plants, targets: Values, answer: {"none", "done"}]

ManageTypeOK ==
  /\ targetsOf \in [Plants -> Values] /\ closed \subseteq Keys
  /\ active \in visited /\ visited \subseteq Plants /\ day \in Days
  /\ reports \in [Keys -> BOOLEAN \cup {None}] /\ answers \in [Keys -> BOOLEAN \cup {None}]
  /\ configs \in [Plants -> Values \cup {None}]
  /\ form \in [open: BOOLEAN, targets: Values, of: Plants \cup {None}]
  /\ closing \in Keys \cup {None}
  /\ request \in Requests

Init ==
  /\ targetsOf \in [Plants -> Minutes] /\ closed = {}
  /\ active \in Plants /\ visited = {active} /\ day \in Days
  /\ reports = [k \in Keys |-> None] /\ answers = [k \in Keys |-> None]
  /\ configs = [p \in Plants |-> None]
  /\ form = [open |-> FALSE, targets |-> Default, of |-> None]
  /\ closing = None /\ request = NoRequest

-----------------------------------------------------------------------------
(* What the page shows. *)

Here == <<active, day>>

\* queryKey of a report.
KeyOf(k) == k

Shown == reports[KeyOf(Here)]
NoDialog == ~form.open /\ closing = None

-----------------------------------------------------------------------------
(* Queries. *)

\* Every thirty seconds the report on the screen is asked for again.
PollServed ==
  /\ answers[KeyOf(Here)] = None
  /\ answers' = [answers EXCEPT ![KeyOf(Here)] = Here \in closed]
  /\ UNCHANGED <<server, place, reports, configs, form, closing, request>>

PollAnswered(k) ==
  /\ answers[k] # None
  /\ reports' = [reports EXCEPT ![k] = answers[k]]
  /\ answers' = [answers EXCEPT ![k] = None]
  /\ UNCHANGED <<server, place, configs, form, closing, request>>

PollLost(k) ==
  /\ answers[k] # None
  /\ answers' = [answers EXCEPT ![k] = None]
  /\ UNCHANGED <<server, place, reports, configs, form, closing, request>>

ConfigArrives ==
  /\ configs' = [configs EXCEPT ![active] = targetsOf[active]]
  /\ UNCHANGED <<server, place, reports, answers, form, closing, request>>

-----------------------------------------------------------------------------
(* The page. *)

\* setDate and select, both under the dialogs.
ChooseDay(d) ==
  /\ NoDialog /\ day' = d
  /\ UNCHANGED <<server, active, visited, cache, form, closing, request>>

\* The queries of plants are forgotten; the page and its values stay.
Select(p) ==
  /\ NoDialog
  /\ active' = p /\ visited' = visited \cup {p}
  /\ reports' = [k \in Keys |-> None] /\ answers' = [k \in Keys |-> None]
  /\ configs' = [q \in Plants |-> None]
  /\ UNCHANGED <<server, day, form, closing, request>>

\* The back button of the browser changes the URL only, whatever is open.
GoBack(p) ==
  /\ p \in visited \ {active}
  /\ active' = p
  /\ UNCHANGED <<server, visited, day, cache, form, closing, request>>

\* Without a configuration the dialog opens with the values it has.
OpenTargets ==
  /\ NoDialog
  /\ form' = IF configs[active] = None THEN [form EXCEPT !.open = TRUE]
             ELSE [open |-> TRUE, targets |-> configs[active], of |-> active]
  /\ UNCHANGED <<server, place, cache, closing, request>>

EnterTargets(m) ==
  /\ form.open
  /\ form' = [form EXCEPT !.targets = m, !.of = active]
  /\ UNCHANGED <<server, place, cache, closing, request>>

\* The button is disabled by a closure the page knows of.
OpenClosure ==
  /\ NoDialog /\ Shown # TRUE
  /\ closing' = Here
  /\ UNCHANGED <<server, place, cache, form, request>>

CloseDialog ==
  /\ ~NoDialog
  /\ form' = [form EXCEPT !.open = FALSE] /\ closing' = None
  /\ UNCHANGED <<server, place, cache, request>>

\* The requests go to the plant and the day of now.
SaveTargets ==
  /\ form.open /\ request = NoRequest
  /\ request' = [kind |-> "save", plant |-> active, targets |-> form.targets, answer |-> "none"]
  /\ UNCHANGED <<server, place, cache, form, closing>>

SaveClosure ==
  /\ closing # None /\ request = NoRequest
  /\ request' = [kind |-> "close", key |-> Here, answer |-> "none"]
  /\ UNCHANGED <<server, place, cache, form, closing>>

-----------------------------------------------------------------------------
(* The server. *)

\* updateTargets and closeDay; a day is closed once.
Served ==
  /\ request # NoRequest /\ request.answer = "none"
  /\ \/ /\ request.kind = "save"
        /\ targetsOf' = [targetsOf EXCEPT ![request.plant] = request.targets]
        /\ request' = [request EXCEPT !.answer = "done"]
        /\ UNCHANGED closed
     \/ /\ request.kind = "close"
        /\ closed' = closed \cup {request.key}
        /\ request' = [request EXCEPT !.answer = IF request.key \in closed THEN "refused" ELSE "done"]
        /\ UNCHANGED targetsOf
  /\ UNCHANGED <<place, cache, form, closing>>

\* onSuccess of a save waits for the configuration; that of a closure names a
\* key no report has, and waits for nothing.  Either closes its dialog, which
\* may be a newer one.
SaveAnswered ==
  /\ request.kind = "save" /\ request.answer = "done"
  /\ configs' = [configs EXCEPT ![active] = targetsOf[active]]
  /\ form' = [form EXCEPT !.open = FALSE]
  /\ request' = NoRequest
  /\ UNCHANGED <<server, place, reports, answers, closing>>

ClosureAnswered ==
  /\ request.kind = "close" /\ request.answer # "none"
  /\ closing' = IF request.answer = "done" THEN None ELSE closing
  /\ request' = NoRequest
  /\ UNCHANGED <<server, place, cache, form>>

RequestLost ==
  /\ request # NoRequest
  /\ request' = NoRequest
  /\ UNCHANGED <<server, place, cache, form, closing>>

OthersClose(k) ==
  /\ closed' = closed \cup {k}
  /\ UNCHANGED <<targetsOf, place, cache, form, closing, request>>

OthersSave(p, m) ==
  /\ targetsOf' = [targetsOf EXCEPT ![p] = m]
  /\ UNCHANGED <<closed, place, cache, form, closing, request>>

\* What every manager does.
Moving == \E p \in Plants : Select(p) \/ GoBack(p)
Sending == CloseDialog \/ Served \/ RequestLost

\* A manager who closes days.
Closing ==
  \/ PollServed \/ \E k \in Keys : PollAnswered(k) \/ PollLost(k) \/ OthersClose(k)
  \/ \E d \in Days : ChooseDay(d)
  \/ OpenClosure \/ SaveClosure \/ ClosureAnswered

\* One who sets targets.
Targeting ==
  \/ ConfigArrives
  \/ OpenTargets \/ \E m \in Minutes : EnterTargets(m) \/ \E p \in Plants : OthersSave(p, m)
  \/ SaveTargets \/ SaveAnswered

ClosingSpec == Init /\ [][Moving \/ Sending \/ Closing]_vars
TargetingSpec == Init /\ [][Moving \/ Sending \/ Targeting]_vars

\* The polls go on whatever the manager does, and not every answer is lost.
Polling == WF_vars(PollServed) /\ \A k \in Keys : SF_vars(PollAnswered(k))
PollSpec == ClosingSpec /\ Polling

-----------------------------------------------------------------------------
\* "Jornada cerrada" is said of the plant and the day on the screen, which is
\* closed, whatever was on the screen before and whatever answers are late
\* (PlantManagementPage.tsx:164-172, 310-318; useActivePlant.ts:27-64).
ClosedIsClosed == Shown = TRUE => Here \in closed

\* A manager who stays sees that the day was closed, whoever closed it
\* (PlantManagementPage.tsx:171; the answer to the closure itself refreshes
\* nothing, 184-187).
ClosureSeen ==
  \A k \in Keys : (Here = k /\ k \in closed) ~> (Here # k \/ Shown = TRUE)

\* "Las pantallas de operación, historial, administración y notificaciones
\* respetan la planta activa" (docs/releases/RELEASE_NOTES_V0.0.18.md:16): the
\* targets sent to a plant were taken from that plant or entered for it.
TargetsOfThePlant ==
  [][request = NoRequest /\ request'.kind = "save" => form.of = request'.plant]_vars

\* "1. Revise la fecha y los indicadores. 2. Seleccione Cerrar jornada. [...] El
\* cierre guarda una fotografía de los indicadores" (docs/
\* MANUAL_USUARIO_ADMINISTRADOR.md:178-183): what is closed is the plant and the
\* day that were on the screen when Cerrar jornada was chosen.
ClosedAsReviewed ==
  [][request = NoRequest /\ request'.kind = "close" => request'.key = closing]_vars
=============================================================================
