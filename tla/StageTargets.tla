---------------------------- MODULE StageTargets ----------------------------
(***************************************************************************)
(* The target minutes of each stage and the settings they are kept in:     *)
(* updateTargets, loadConfig, targetSeconds and stateAttention of          *)
(* plant.service.ts, updateSettings of companies.service.ts, and the form  *)
(* of PlantManagementPage.tsx.                                             *)
(*                                                                         *)
(* Settings are one JSON column.  Both services read the whole of it and   *)
(* write the whole of it back in a later statement.                        *)
(***************************************************************************)
EXTENDS Integers

CONSTANTS
  Stages,         \* states with a default target
  Editable,       \* those the form and its DTO name
  Minutes,        \* targets an administrator may enter
  DefaultTarget,  \* DEFAULT_TARGET_SECONDS, in minutes
  Admins,
  Values,         \* values of the other keys of a settings column
  None,           \* undefined
  MaxElapsed      \* bound on the age of a period, for TLC only

TargetsAssumption ==
  /\ Editable \subseteq Stages /\ Minutes \subseteq Nat \ {0}
  /\ DefaultTarget \in [Stages -> Nat \ {0}]
  /\ MaxElapsed \in Nat
  /\ None \notin Values \cup [Editable -> Nat]

VARIABLES
  plantSettings,    \* Plant.settings: its two keys of targets and the others
  companySettings,  \* Company.settings
  edit,             \* the request each administrator has in progress, or None; after
                    \* holds the settings it has written, until their audit row
  form,             \* targets in the open form of each administrator, or None
  audit,            \* newest SETTINGS_CHANGE row of the company
  period,           \* open period of a tank; promised holds the targets saved
                    \* for the plant when it began
  saved             \* targets last saved for the plant, or None

settings == <<plantSettings, companySettings>>
vars == <<settings, edit, form, audit, period, saved>>

Column == [stageTargets: [Editable -> Minutes] \cup {None},
           plantStageTargets: [Editable -> Minutes] \cup {None},
           others: Values]
Kinds == {"plant targets", "company targets", "settings"}

TargetsTypeOK ==
  /\ plantSettings \in Column /\ companySettings \in Column
  /\ \A a \in Admins :
       /\ edit[a] # None => edit[a].kind \in Kinds /\ edit[a].read \in Column
                         /\ edit[a].after \in Values \cup {None}
       /\ form[a] \in [Editable -> Minutes \cup {DefaultTarget[s] : s \in Stages}] \cup {None}
  /\ audit \in [before: Values, after: Values]
  /\ period.stage \in Stages /\ period.target \in Nat \ {0}
  /\ period.elapsed \in 0 .. MaxElapsed

\* seed.ts gives a plant the targets of the company under stageTargetsMinutes.
Init ==
  \E t \in [Editable -> Minutes], v \in Values, s \in Stages :
    /\ plantSettings = [stageTargets |-> t, plantStageTargets |-> None, others |-> v]
    /\ companySettings = [stageTargets |-> None, plantStageTargets |-> t, others |-> v]
    /\ edit = [a \in Admins |-> None]
    /\ form = [a \in Admins |-> None]
    /\ audit = [before |-> v, after |-> v]
    /\ period = [stage |-> s, target |-> DefaultTarget[s], elapsed |-> 0,
                 promised |-> None]
    /\ saved = None

-----------------------------------------------------------------------------

\* Minutes of a stage under a key, or the default (also for a stage the DTO
\* does not name).
Configured(targets, s) ==
  IF targets # None /\ s \in Editable THEN targets[s] ELSE DefaultTarget[s]

\* Mutant of Shown: it reads the key targetSeconds reads.
ShownOldKey == plantSettings.plantStageTargets

\* loadConfig of the plant: what the form shows.
Shown == IF plantSettings.stageTargets # None THEN plantSettings.stageTargets
         ELSE plantSettings.plantStageTargets

\* targetSeconds of the plant: what new periods take.  It reads the other key.
TargetSeconds(s) == Configured(plantSettings.plantStageTargets, s)

\* The period keeps the target it began with.
\* Mutant of TargetOf: it follows the configuration.
TargetShown(p) == Configured(Shown, p.stage)
TargetOf(p) == p.target

\* stateAttention: 0 OK, 1 WARNING from 80 % on, 2 CRITICAL.
Attention(p) ==
  IF p.elapsed >= TargetOf(p) THEN 2
  ELSE IF 10 * p.elapsed >= 8 * TargetOf(p) THEN 1 ELSE 0

-----------------------------------------------------------------------------
OpenForm(a) ==
  /\ form[a] = None /\ edit[a] = None
  /\ form' = [form EXCEPT ![a] = [s \in Editable |-> Configured(Shown, s)]]
  /\ UNCHANGED <<settings, edit, audit, period, saved>>

EnterMinutes(a, s, n) ==
  /\ form[a] # None /\ edit[a] = None
  /\ form' = [form EXCEPT ![a][s] = n]
  /\ UNCHANGED <<settings, edit, audit, period, saved>>

\* A request reads the column it is going to write.
BeginEdit(a, kind) ==
  /\ edit[a] = None
  /\ kind # "settings" => form[a] # None
  /\ edit' = [edit EXCEPT ![a] =
       [kind |-> kind,
        read |-> IF kind = "plant targets" THEN plantSettings ELSE companySettings,
        after |-> None]]
  /\ UNCHANGED <<settings, form, audit, period, saved>>

WithTargets(column, targets) == [column EXCEPT !.stageTargets = targets]

\* updateTargets with a plant: the column it read, with the new targets.
WritePlantTargets(a) ==
  /\ edit[a] # None /\ edit[a].kind = "plant targets"
  /\ plantSettings' = WithTargets(edit[a].read, form[a])
  /\ saved' = form[a]
  /\ edit' = [edit EXCEPT ![a] = None]
  /\ form' = [form EXCEPT ![a] = None]
  /\ UNCHANGED <<companySettings, audit, period>>

\* updateTargets of the routes without a plant.
WriteCompanyTargets(a) ==
  /\ edit[a] # None /\ edit[a].kind = "company targets"
  /\ companySettings' = [edit[a].read EXCEPT !.plantStageTargets = form[a]]
  /\ edit' = [edit EXCEPT ![a] = None]
  /\ form' = [form EXCEPT ![a] = None]
  /\ UNCHANGED <<plantSettings, audit, period, saved>>

\* updateSettings: the settings read with the changes of the request, and an
\* audit row written by a later statement.
WriteSettings(a, v) ==
  /\ edit[a] # None /\ edit[a].kind = "settings" /\ edit[a].after = None
  /\ companySettings' = [edit[a].read EXCEPT !.others = v]
  /\ edit' = [edit EXCEPT ![a].after = v]
  /\ UNCHANGED <<plantSettings, form, audit, period, saved>>

AuditSettings(a) ==
  /\ edit[a] # None /\ edit[a].after # None
  /\ audit' = [before |-> edit[a].read.others, after |-> edit[a].after]
  /\ edit' = [edit EXCEPT ![a] = None]
  /\ UNCHANGED <<settings, form, period, saved>>

\* The tank moves on: a period of another stage, with the target of now.
NextPeriod(s) ==
  /\ s # period.stage
  /\ period' = [stage |-> s, target |-> TargetSeconds(s), elapsed |-> 0,
                promised |-> saved]
  /\ UNCHANGED <<settings, edit, form, audit, saved>>

Elapse ==
  /\ period.elapsed < MaxElapsed
  /\ period' = [period EXCEPT !.elapsed = @ + 1]
  /\ UNCHANGED <<settings, edit, form, audit, saved>>

Next ==
  \/ \E a \in Admins :
       \/ OpenForm(a) \/ \E s \in Editable, n \in Minutes : EnterMinutes(a, s, n)
       \/ \E kind \in Kinds : BeginEdit(a, kind)
       \/ WritePlantTargets(a) \/ WriteCompanyTargets(a)
       \/ \E v \in Values : WriteSettings(a, v)
       \/ AuditSettings(a)
  \/ \E s \in Stages : NextPeriod(s)
  \/ Elapse

Spec == Init /\ [][Next]_vars

-----------------------------------------------------------------------------
\* The form opens with the targets saved last, whoever saved them, even if
\* several administrators write the column at once.
FormShowsSaved == saved # None => Shown = saved

\* A column loses a key that nobody edited only to a request that read it before
\* another request wrote it: edits one after the other keep each other's keys.
KeepsOtherKeys ==
  \A a \in Admins : edit[a] # None /\ edit'[a] # edit[a] /\ settings' # settings =>
    \/ edit[a].kind = "plant targets" /\ edit[a].read = plantSettings
       /\ plantSettings'.others = plantSettings.others
    \/ edit[a].kind = "company targets" /\ edit[a].read = companySettings
       /\ companySettings'.others = companySettings.others
    \/ edit[a].kind = "settings" /\ edit[a].read = companySettings
       /\ companySettings'.plantStageTargets = companySettings.plantStageTargets
    \/ edit[a].read \notin {plantSettings, companySettings}

\* The alarm of a period never steps back: a change of targets in the middle of a
\* stage leaves the stage with the target it began with.
AttentionHolds ==
  period'.stage = period.stage /\ period'.elapsed >= period.elapsed =>
    Attention(period)' >= Attention(period)

\* "El 80 % del objetivo se muestra como advertencia y el 100 % como situación
\* crítica" (docs/MANUAL_USUARIO_ADMINISTRADOR.md:193), under "Configurar tiempos
\* objetivo": a period that begins after targets were saved goes by them.
SavedTargetsApply ==
  period.promised # None /\ period.stage \in Editable =>
    period.target = period.promised[period.stage]
=============================================================================
