------------------------------- MODULE MCReports -------------------------------
(***************************************************************************)
(* What managers read and set: the clock of the screens, the daily report  *)
(* and its closure, the targets of the stages, the page of a manager, the  *)
(* history of a plant and the audit log.  Each behaviour is about one of   *)
(* them, "part" says which; the variables of the others keep the value     *)
(* Idle.                                                                   *)
(***************************************************************************)
EXTENDS ServerTime, TLC

CONSTANTS one, other,           \* two managers, administrators or plants
          Nothing, Written      \* null; the targets the page is written with

VARIABLES part,
          clock, periods, samples, operation, report, closure, held, crossed,
          plantSettings, companySettings, edit, form, audit, period, saved,
          targetsOf, closed, active, visited, day, reports, answers, configs, closing, request,
          rows, choice, offset, allRows, began,
          source, committed, filter, page, reading, asked, reads, walk

Both == {one, other}

\* The report of a day of two instants and of the time after it; a day of one, in
\* or after which a lot passes the laboratory and leaves; two closures of such a day.
Reporting == INSTANCE DailyManagement WITH
  Tanks <- {1}, Managers <- {one}, ReadOrder <- <<"periods", "samples", "tanks">>,
  Days <- {0}, DayLength <- 2, None <- Nothing, MaxTime <- 2, MaxPeriods <- 4
Analysing == INSTANCE DailyManagement WITH
  Tanks <- {1}, Managers <- {one}, ReadOrder <- <<"periods", "samples", "tanks">>,
  Days <- {0}, DayLength <- 1, None <- Nothing, MaxTime <- 1, MaxPeriods <- 5
Freezing == INSTANCE DailyManagement WITH
  Tanks <- {1}, Managers <- Both, ReadOrder <- <<"periods", "samples", "tanks">>,
  Days <- {0}, DayLength <- 1, None <- Nothing, MaxTime <- 1, MaxPeriods <- 3

\* Two administrators at once; the form names one of the two stages.  Then one
\* administrator, with periods that get old enough for both levels of the alarm.
Setting == INSTANCE StageTargets WITH
  Stages <- {"FABRICANDO", "TRASVASANDO"}, Editable <- {"FABRICANDO"}, Minutes <- {1, 4},
  DefaultTarget <- "FABRICANDO" :> 3 @@ "TRASVASANDO" :> 2, Admins <- Both,
  Values <- {"x", "y"}, None <- Nothing, MaxElapsed <- 0
Ageing == INSTANCE StageTargets WITH
  Stages <- {"FABRICANDO", "TRASVASANDO"}, Editable <- {"FABRICANDO"}, Minutes <- {1, 5},
  DefaultTarget <- "FABRICANDO" :> 3 @@ "TRASVASANDO" :> 6, Admins <- {one},
  Values <- {"x", "y"}, None <- Nothing, MaxElapsed <- 6

\* A manager who closes days of two plants, days of one, or sets targets.
ClosingPlants == INSTANCE ManagementScreen WITH
  Plants <- Both, Days <- {1}, Minutes <- {1}, Default <- Written, None <- Nothing
ClosingDays == INSTANCE ManagementScreen WITH
  Plants <- {one}, Days <- {1, 2}, Minutes <- {1}, Default <- Written, None <- Nothing
SettingTargets == INSTANCE ManagementScreen WITH
  Plants <- Both, Days <- {1}, Minutes <- {1, 2}, Default <- Written, None <- Nothing

\* Without dates, one day, from a day on, two days; two tanks.
History == INSTANCE HistoryPages WITH
  Tanks <- Both, States <- {"VACIO", "AJUSTE", "FUERA_DE_SERVICIO"}, Options <- {"", "AJUSTE"},
  Periods <- {<<-1, -1>>, <<0, 0>>, <<0, -1>>, <<0, 1>>},
  DayLength <- 2, PageSize <- 2, MaxRows <- 5, MaxClock <- 3

\* The dashboard with its filter, and the history of a user.
Dashboard == INSTANCE AuditPages WITH
  Newest <- TRUE, Filters <- {"ALL", "PLANT"}, Limit <- 1, MaxEvents <- 2, MaxReads <- 3
Activity == INSTANCE AuditPages WITH
  Newest <- FALSE, Filters <- {"ALL"}, Limit <- 2, MaxEvents <- 3, MaxReads <- 2

ASSUME InstancesAreLegal ==
  /\ Reporting!DailyAssumption /\ Analysing!DailyAssumption /\ Freezing!DailyAssumption
  /\ Setting!TargetsAssumption /\ Ageing!TargetsAssumption
  /\ ClosingPlants!NoneIsNothing /\ ClosingDays!NoneIsNothing /\ SettingTargets!NoneIsNothing
  /\ History!HistoryAssumption
  /\ Dashboard!PagesAssumption /\ Activity!PagesAssumption

-----------------------------------------------------------------------------
Idle == 0

NoHook == /\ enabled = FALSE /\ trip = NoTrip /\ anchor = NoAnchor /\ shown = NoTime
          /\ sinceSync = 0 /\ sinceTick = 0
NoDay == /\ periods = Idle /\ samples = Idle /\ operation = Idle /\ closure = Idle
         /\ held = Idle /\ crossed = Idle
NoSettings == /\ plantSettings = Idle /\ companySettings = Idle /\ edit = Idle
              /\ audit = Idle /\ saved = Idle
NoManager == /\ targetsOf = Idle /\ closed = Idle /\ active = Idle /\ visited = Idle
             /\ day = Idle /\ reports = Idle /\ configs = Idle /\ closing = Idle
             /\ request = Idle
NoHistory == /\ rows = Idle /\ choice = Idle /\ offset = Idle
             /\ allRows = Idle /\ began = Idle
NoAudit == /\ source = Idle /\ committed = Idle /\ filter = Idle /\ page = Idle
           /\ reading = Idle /\ asked = Idle /\ reads = Idle /\ walk = Idle

\* Variables that two modules have under the same name.
NoClock == clock = Idle /\ report = Idle
NoForm == form = Idle
NoPeriod == period = Idle
NoAnswers == answers = Idle

dayVars == <<periods, samples, operation, closure, held, crossed>>
settingVars == <<plantSettings, companySettings, edit, audit, saved>>
managerVars == <<targetsOf, closed, active, visited, day, reports, configs, closing, request>>
historyVars == <<rows, choice, offset, allRows, began>>
auditVars == <<source, committed, filter, page, reading, asked, reads, walk>>
reportVars == <<part, vars, clock, report, form, period, answers,
                dayVars, settingVars, managerVars, historyVars, auditVars>>

ReportsInit ==
  \/ /\ part = "clock" /\ Init /\ NoClock /\ NoForm /\ NoPeriod /\ NoAnswers
     /\ NoDay /\ NoSettings /\ NoManager /\ NoHistory /\ NoAudit
  \/ /\ NoHook /\ NoForm /\ NoPeriod /\ NoAnswers
     /\ NoSettings /\ NoManager /\ NoHistory /\ NoAudit
     /\ \/ part = "reporting" /\ Reporting!Init
        \/ part = "analysing" /\ Analysing!Init
        \/ part = "freezing" /\ Freezing!Init
  \/ /\ NoHook /\ NoClock /\ NoAnswers /\ NoDay /\ NoManager /\ NoHistory /\ NoAudit
     /\ \/ part = "setting" /\ Setting!Init
        \/ part = "ageing" /\ Ageing!Init
  \/ /\ NoHook /\ NoClock /\ NoPeriod
     /\ NoDay /\ NoSettings /\ NoHistory /\ NoAudit
     /\ \/ part = "closing plants" /\ ClosingPlants!Init
        \/ part = "closing days" /\ ClosingDays!Init
        \/ part = "setting targets" /\ SettingTargets!Init
  \/ /\ part = "history" /\ History!Init /\ NoHook /\ NoForm /\ NoAnswers
     /\ NoDay /\ NoSettings /\ NoManager /\ NoAudit
  \/ /\ NoHook /\ NoClock /\ NoForm /\ NoPeriod
     /\ NoDay /\ NoSettings /\ NoManager /\ NoHistory
     /\ \/ part = "dashboard" /\ Dashboard!Init
        \/ part = "activity" /\ Activity!Init

NextClock ==
  /\ part = "clock" /\ Next
  /\ UNCHANGED <<part, clock, report, form, period, answers,
                 dayVars, settingVars, managerVars, historyVars, auditVars>>
NextDay ==
  /\ UNCHANGED <<part, vars, form, period, answers,
                 settingVars, managerVars, historyVars, auditVars>>
  /\ \/ part = "reporting" /\ Reporting!Next
     \/ part = "analysing" /\ Analysing!Next
     \/ part = "freezing" /\ Freezing!Next
NextSetting ==
  /\ UNCHANGED <<part, vars, clock, report, answers,
                 dayVars, managerVars, historyVars, auditVars>>
  /\ \/ part = "setting" /\ Setting!Next
     \/ part = "ageing" /\ Ageing!Next
NextManager ==
  /\ UNCHANGED <<part, vars, clock, report, period,
                 dayVars, settingVars, historyVars, auditVars>>
  /\ \/ /\ part = "closing plants"
        /\ ClosingPlants!Moving \/ ClosingPlants!Sending \/ ClosingPlants!Closing
     \/ /\ part = "closing days"
        /\ ClosingDays!Moving \/ ClosingDays!Sending \/ ClosingDays!Closing
     \/ /\ part = "setting targets"
        /\ SettingTargets!Moving \/ SettingTargets!Sending \/ SettingTargets!Targeting
NextHistory ==
  /\ part = "history" /\ History!Next
  /\ UNCHANGED <<part, vars, form, answers, dayVars, settingVars, managerVars, auditVars>>
NextAudit ==
  /\ UNCHANGED <<part, vars, clock, report, form, period,
                 dayVars, settingVars, managerVars, historyVars>>
  /\ \/ part = "dashboard" /\ Dashboard!Next
     \/ part = "activity" /\ Activity!Next

ReportsNext == NextClock \/ NextDay \/ NextSetting \/ NextManager \/ NextHistory \/ NextAudit

ReportsSpec == ReportsInit /\ [][ReportsNext]_reportVars

ReportsSymmetry == Permutations(Both)

-----------------------------------------------------------------------------
(* The report of a past day tells the state each tank held when it ended   *)
(* and agrees with the laboratory; a closure of a settled day stands; the  *)
(* page of a manager calls closed what is closed.                          *)
DaysHold ==
  /\ part = "reporting" => /\ Reporting!DailyTypeOK /\ Reporting!PastStatesTrue
                           /\ Reporting!LaboratoryMatchesTanks
  /\ part = "analysing" => /\ Analysing!DailyTypeOK /\ Analysing!PastStatesTrue
                           /\ Analysing!LaboratoryMatchesTanks
                           /\ Analysing!SettledClosureStands
  /\ part = "freezing" => Freezing!DailyTypeOK /\ Freezing!SettledClosureStands
  /\ part = "closing plants" => ClosingPlants!ManageTypeOK /\ ClosingPlants!ClosedIsClosed
  /\ part = "closing days" => ClosingDays!ManageTypeOK /\ ClosingDays!ClosedIsClosed

(* The form of the targets opens with those saved last, whoever saved them *)
(* and however many write the column at once.                              *)
TargetsHold ==
  /\ part = "setting" => Setting!TargetsTypeOK /\ Setting!FormShowsSaved
  /\ part = "ageing" => Ageing!TargetsTypeOK /\ Ageing!FormShowsSaved
  /\ part = "setting targets" => SettingTargets!ManageTypeOK

(* A day that was closed is not closed over; the alarm of a period never   *)
(* steps back; an edit of settings reverts the other keys of the column    *)
(* only if it read them before another was written.                        *)
NothingIsTakenBack ==
  [][/\ part = "freezing" => Freezing!ClosedForGood
     /\ part = "setting" => Setting!KeepsOtherKeys
     /\ part = "ageing" => Ageing!AttentionHolds]_reportVars

(* "El 80 % del objetivo se muestra como advertencia y el 100 % como       *)
(* situación crítica" (docs/MANUAL_USUARIO_ADMINISTRADOR.md:193), under    *)
(* "Configurar tiempos objetivo": a period that begins after targets were  *)
(* saved goes by them.                                                     *)
SavedTargetsApply == part = "ageing" => Ageing!SavedTargetsApply

(* The PDF of the history misses no row there was when it was begun; a     *)
(* page of the audit log is that of the two logs put together, and who     *)
(* goes through all pages sees all there was at the start.                 *)
PagesHold ==
  /\ part = "history" => /\ History!HistoryTypeOK /\ History!ReportMissesNothing
                         /\ History!RepeatsAreOfNewRows
  /\ part = "dashboard" => /\ Dashboard!AuditTypeOK /\ Dashboard!NoEmptyPage
                           /\ Dashboard!PageIsRight
  /\ part = "activity" => /\ Activity!AuditTypeOK /\ Activity!PageIsRight
                          /\ Activity!WalkIsComplete
===============================================================================
