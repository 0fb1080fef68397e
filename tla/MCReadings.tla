------------------------------ MODULE MCReadings ------------------------------
(***************************************************************************)
(* What the plant reports without anybody typing it: events of industrial  *)
(* senders, weights and speeds, the injection machines with the line of    *)
(* their states, and the shots of the machines read page by page.  Each    *)
(* behaviour is about one of them, "part" says which; the variables of the *)
(* others keep the value Idle.                                             *)
(***************************************************************************)
EXTENDS IntegrationInbox, TLC

CONSTANTS r1, r2, Unheard     \* senders of weights; undefined

VARIABLES part,
          clock, weights, speeds, batch, orderStart, newest, heard,
          now, latest, technical, lastBatchAt, lastState, open, series, failed, restarts, sent,
          points,       \* those of a line of states, as they come to be stored
          table, current, changes, failures, key, pages, fetching

-----------------------------------------------------------------------------
\* Two senders with the same ids, one event a batch, are the constants of this
\* module; one sender of batches, two of them on the way:
Batched == INSTANCE IntegrationInbox WITH
  Sources <- {"plc"}, Ids <- {1, 2}, BatchLimit <- 2, MaxTransit <- 2, MaxOutages <- 1

\* A late and a skewed reading, one without stamp, and two that are refused.
Offer(k, age, ahead, stamp) == [key |-> k, age |-> age, ahead |-> ahead, stamp |-> stamp]
Late == Offer("B1", 2, 0, "date")
Ahead == Offer("B1", 0, 1, "date")
Plain == Offer("B1", 0, 0, "missing")
Given == {<<Late, Ahead>>, <<Plain>>, <<Plain, Offer("B9", 0, 0, "date"), Ahead>>,
          <<Offer("B1", 1, 0, "invalid"), Late>>}
SpeedsOf(l) == {Offer(l, 1, 0, "date"), Offer(l, 0, 1, "date")}
GivenSpeeds == {<<s>> : s \in SpeedsOf("A")}
                 \cup {<<s, Offer("A", 0, 0, "missing")>> : s \in SpeedsOf("DEVREE")}

Weights == INSTANCE Telemetry WITH
  Scales <- {"B1", "B9"}, Enabled <- {"B1"}, Lines <- {"A", "DEVREE"}, LineOf <- "T1" :> "A",
  Tanks <- {"T1"}, Senders <- {r1, r2}, WeightBatches <- Given, SpeedBatches <- {<< >>},
  None <- Unheard, SignalTimeout <- 1, Skew <- 1, MaxTime <- 3
Speeds == INSTANCE Telemetry WITH
  Scales <- {"B1", "B9"}, Enabled <- {"B1"}, Lines <- {"A", "DEVREE"}, LineOf <- "T1" :> "A",
  Tanks <- {"T1"}, Senders <- {r1, r2}, WeightBatches <- {<< >>}, SpeedBatches <- GivenSpeeds,
  None <- Unheard, SignalTimeout <- 1, Skew <- 1, MaxTime <- 2

\* Cycles of a machine: two in a row, and one that tells no machine.
Shots == {[number |-> 1, at |-> 0, mine |-> TRUE], [number |-> 2, at |-> 1, mine |-> TRUE]}
AllShots == Shots \cup {[number |-> 3, at |-> 1, mine |-> FALSE]}

\* The card beside the line of states: stamps late and ahead, several modes.
Card == INSTANCE InjectionMachines WITH
  Machines <- {"INY01"}, Unknown <- {}, Sources <- {"live"}, MaxTime <- 3, MaxOpen <- 1,
  MaxFailures <- 0, MaxRestarts <- 0, PerInstant <- 2, Period <- 100, Future <- 3,
  CmsFresh <- 1, NodeRedFresh <- 3, Heartbeat <- 3, Gap <- 9, Lags <- {-4, -1, 0, 1},
  Modes <- {"AUTO", "STOP", "SEMI"}, Vigencies <- BOOLEAN, Shots <- {}
\* Batches of two machines whose writes fail.
Writes == INSTANCE InjectionMachines WITH
  Machines <- {"INY01", "INY02"}, Unknown <- {}, Sources <- {"live"}, MaxTime <- 1, MaxOpen <- 1,
  MaxFailures <- 2, MaxRestarts <- 0, PerInstant <- 1, Period <- 100, Future <- 3,
  CmsFresh <- 1, NodeRedFresh <- 3, Heartbeat <- 3, Gap <- 9, Lags <- {0},
  Modes <- {"AUTO"}, Vigencies <- BOOLEAN, Shots <- Shots
\* A machine that is not the plant's, in the batch of one that is.
Strangers == INSTANCE InjectionMachines WITH
  Machines <- {"INY01"}, Unknown <- {"INY09"}, Sources <- {"live"}, MaxTime <- 1, MaxOpen <- 1,
  MaxFailures <- 1, MaxRestarts <- 0, PerInstant <- 1, Period <- 100, Future <- 3,
  CmsFresh <- 1, NodeRedFresh <- 3, Heartbeat <- 3, Gap <- 9, Lags <- {0},
  Modes <- {"AUTO"}, Vigencies <- {TRUE}, Shots <- Shots
\* Cycles over two requests at once, a failed write and a restart.
Cycles == INSTANCE InjectionMachines WITH
  Machines <- {"INY01"}, Unknown <- {}, Sources <- {"live"}, MaxTime <- 3, MaxOpen <- 2,
  MaxFailures <- 1, MaxRestarts <- 1, PerInstant <- 1, Period <- 100, Future <- 3,
  CmsFresh <- 1, NodeRedFresh <- 3, Heartbeat <- 3, Gap <- 9, Lags <- {0},
  Modes <- {"AUTO"}, Vigencies <- {TRUE}, Shots <- AllShots
\* A machine that reports for longer than Gap.
Beats == INSTANCE InjectionMachines WITH
  Machines <- {"INY01"}, Unknown <- {}, Sources <- {"live"}, MaxTime <- 10, MaxOpen <- 1,
  MaxFailures <- 1, MaxRestarts <- 0, PerInstant <- 1, Period <- 2, Future <- 3,
  CmsFresh <- 1, NodeRedFresh <- 3, Heartbeat <- 3, Gap <- 9, Lags <- {0},
  Modes <- {"AUTO"}, Vigencies <- {TRUE}, Shots <- {}

\* Lists of one file to their end, and two files that change under a list.
List == INSTANCE CmsShots WITH
  Files <- {"lid"}, NoFile <- "none", PageSize <- 2, ReadLimit <- 7, MaxCopies <- 3,
  MaxRows <- 9, MaxChanges <- 0, MaxFailures <- 0
TwoFiles == INSTANCE CmsShots WITH
  Files <- {"lid", "pail"}, NoFile <- "none", PageSize <- 1, ReadLimit <- 4, MaxCopies <- 2,
  MaxRows <- 3, MaxChanges <- 1, MaxFailures <- 1

\* The line of states on its own: points of any time and value, some outside the
\* window that starts at 1, while the clock "now" passes.
Line == INSTANCE StateTimeline WITH Gap <- 2
LineInit == points = {} /\ now = 1
Store1 ==
  \E at \in 0 .. 5, value \in {0, 1, 2} :
    /\ \A p \in points : p.at # at
    /\ points' = points \cup {[at |-> at, value |-> value]}
    /\ UNCHANGED now
Pass == now < 5 /\ now' = now + 1 /\ UNCHANGED points

ASSUME InstancesAreLegal ==
  /\ Weights!TelemetryAssumption /\ Weights!PromptWithoutStamp /\ Speeds!TelemetryAssumption
  /\ Card!InjectionAssumption /\ Writes!InjectionAssumption /\ Strangers!InjectionAssumption
  /\ Cycles!InjectionAssumption /\ Beats!InjectionAssumption
  /\ List!PageAssumption /\ TwoFiles!PageAssumption
  /\ Line!GapAssumption

-----------------------------------------------------------------------------
Idle == 0

NoEvents == /\ occurred = {} /\ buffer = [s \in Sources |-> {}] /\ requests = {} /\ answers = {}
            /\ enabled = [s \in Sources |-> TRUE] /\ outages = 0 /\ inbox = {} /\ told = 0
NoTelemetry == /\ clock = Idle /\ weights = Idle /\ speeds = Idle /\ batch = Idle
               /\ orderStart = Idle /\ newest = Idle /\ heard = Idle
NoMachines == /\ latest = Idle /\ technical = Idle /\ lastBatchAt = Idle /\ lastState = Idle
              /\ open = Idle /\ series = Idle /\ failed = Idle /\ restarts = Idle /\ sent = Idle
NoLine == points = Idle
NoShots == /\ table = Idle /\ current = Idle /\ changes = Idle /\ failures = Idle
           /\ key = Idle /\ pages = Idle /\ fetching = Idle

telemetryVars == <<clock, weights, speeds, batch, orderStart, newest, heard>>
machineVars == <<latest, technical, lastBatchAt, lastState, open, series, failed, restarts, sent>>
shotVars == <<table, current, changes, failures, key, pages, fetching>>
readingVars == <<part, vars, telemetryVars, now, machineVars, points, shotVars>>

ReadingsInit ==
  \/ /\ NoTelemetry /\ now = Idle /\ NoMachines /\ NoLine /\ NoShots
     /\ \/ part = "inbox" /\ Init
        \/ part = "batched" /\ Batched!Init
  \/ /\ NoEvents /\ now = Idle /\ NoMachines /\ NoLine /\ NoShots
     /\ \/ part = "weights" /\ Weights!Init
        \/ part = "speeds" /\ Speeds!Init
  \/ /\ NoEvents /\ NoTelemetry /\ NoLine /\ NoShots
     /\ \/ part = "card" /\ Card!Init
        \/ part = "writes" /\ Writes!Init
        \/ part = "strangers" /\ Strangers!Init
        \/ part = "cycles" /\ Cycles!Init
        \/ part = "beats" /\ Beats!Init
  \/ part = "line" /\ LineInit /\ NoEvents /\ NoTelemetry /\ NoMachines /\ NoShots
  \/ /\ NoEvents /\ NoTelemetry /\ now = Idle /\ NoMachines /\ NoLine
     /\ \/ part = "list" /\ List!Init
        \/ part = "two files" /\ TwoFiles!Init

NextEvents ==
  /\ UNCHANGED <<part, telemetryVars, now, machineVars, points, shotVars>>
  /\ \/ part = "inbox" /\ Next
     \/ part = "batched" /\ Batched!Next
NextTelemetry ==
  /\ UNCHANGED <<part, vars, now, machineVars, points, shotVars>>
  /\ \/ part = "weights" /\ Weights!Next
     \/ part = "speeds" /\ Speeds!Next
NextMachines ==
  /\ UNCHANGED <<part, vars, telemetryVars, points, shotVars>>
  /\ \/ part = "card" /\ Card!Next
     \/ part = "writes" /\ Writes!Next
     \/ part = "strangers" /\ Strangers!Next
     \/ part = "cycles" /\ Cycles!Next
     \/ part = "beats" /\ Beats!Next
NextLine ==
  part = "line" /\ (Store1 \/ Pass) /\ UNCHANGED <<part, vars, telemetryVars, machineVars, shotVars>>
NextShots ==
  /\ UNCHANGED <<part, vars, telemetryVars, now, machineVars, points>>
  /\ \/ part = "list" /\ List!Next
     \/ part = "two files" /\ TwoFiles!Next

ReadingsNext == NextEvents \/ NextTelemetry \/ NextMachines \/ NextLine \/ NextShots

ReadingsSpec == ReadingsInit /\ [][ReadingsNext]_readingVars

ReadingsSymmetry == Permutations({r1, r2})

-----------------------------------------------------------------------------
(* Late, repeated or skewed batches never hide a newer weight; a scale is  *)
(* online only if it was heard; what a batch has passed is kept; a stamped *)
(* speed shown beside a tank is one of its order.  Senders and inbox are   *)
(* typed.                                                                  *)
TelemetryHolds ==
  /\ part = "inbox" => InboxTypeOK
  /\ part = "batched" => Batched!InboxTypeOK
  /\ part = "weights" => /\ Weights!TelemetryTypeOK /\ Weights!NewestWithinSkew
                         /\ Weights!OnlineIsHeard /\ Weights!PassedReadingsKept
  /\ part = "speeds" => Speeds!TelemetryTypeOK /\ Speeds!SpeedOfTheOrder

(* The card of a machine and the end of its line agree; "persisted" is     *)
(* true of the database; a machine that reports leaves no grey hole; a     *)
(* cycle offered again never becomes a second point.                       *)
MachinesHold ==
  /\ part = "card" => Card!InjTypeOK /\ Card!CardAgreesWithLine
  /\ part = "writes" => Writes!InjTypeOK /\ Writes!PersistedIsStored
  /\ part = "strangers" => Strangers!InjTypeOK /\ Strangers!PersistedIsStored
  /\ part = "beats" => Beats!InjTypeOK /\ Beats!NoHoleWhileReporting
  /\ part = "cycles" => Cycles!InjTypeOK /\ Cycles!CycleStoredOnce

(* The segments of the line fill the window one after the other, two that  *)
(* touch differ, and every instant has the colour of the newest reading    *)
(* heard, grey when that is too old (injectionStateTimeline).              *)
LineIsWhatWasHeard ==
  part = "line" =>
    LET line == Line!Timeline(points, 1, now)
    IN  /\ \A i \in DOMAIN line :
             /\ line[i].start = IF i = 1 THEN 1 ELSE line[i - 1].end
             /\ line[i].start < line[i].end
             /\ i > 1 => line[i].state # line[i - 1].state
             /\ \A t \in line[i].start .. line[i].end - 1 :
                  line[i].state = Line!ColourAt(points, 1, t)
        /\ now > 1 => line # <<>> /\ line[Len(line)].end = now

(* The pages of shots go down the table, without a hole, to the end.       *)
ListWithoutHoles ==
  /\ part = "list" => List!CmsTypeOK /\ List!ListWithoutHoles
  /\ part = "two files" => TwoFiles!CmsTypeOK /\ TwoFiles!PagesDescend
===============================================================================
