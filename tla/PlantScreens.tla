---------------------------- MODULE PlantScreens ----------------------------
(***************************************************************************)
(* The operators in front of the plant.  Each browser polls the tanks      *)
(* (PlantBoardPage.tsx, every two seconds); the server answers a poll with *)
(* one statement per table outside a transaction, first the tank rows and  *)
(* then the rows included with them, so other operators may act between    *)
(* two statements.  A dialog keeps the tank as the screen showed it when   *)
(* it was opened, and its request carries that version.                    *)
(***************************************************************************)
EXTENDS Plant

CONSTANTS
  Unread,      \* a tank or poll not read yet
  ReadOrder    \* the order in which the included tables are read

\* The tables included with the tank rows.
Included == {"period", "lot", "sample", "decision", "order"}

ASSUME ReadOrderComplete ==
  /\ ReadOrder \in [1 .. 5 -> Included]
  /\ Included = {ReadOrder[i] : i \in 1 .. 5}

VARIABLES
  poll,         \* what the poll in progress has read of each tank, or Unread
  screen,       \* last delivered view of each tank
  selection     \* [tank, view] of the open dialog, or Unread

screenVars == <<poll, screen, selection>>
allVars == <<vars, screenVars>>

ScreensInit ==
  /\ Init
  /\ poll = [u \in Users |-> Unread]
  /\ screen = [u \in Users |-> [t \in Tanks |-> Unread]]
  /\ selection = [u \in Users |-> Unread]

-----------------------------------------------------------------------------
\* Mutant: the page polls only while no dialog is open.
PollTanksWhenIdle(u) ==
  /\ poll[u] = Unread
  /\ selection[u] = Unread
  /\ poll' = [poll EXCEPT ![u] = [t \in Tanks |->
       [part \in Included \cup {"row"} |-> IF part = "row" THEN tank[t] ELSE Unread]]]
  /\ UNCHANGED <<vars, screen, selection>>

\* First statement of a poll: the rows of the tanks.
PollTanks(u) ==
  /\ poll[u] = Unread
  /\ poll' = [poll EXCEPT ![u] = [t \in Tanks |->
       [part \in Included \cup {"row"} |-> IF part = "row" THEN tank[t] ELSE Unread]]]
  /\ UNCHANGED <<vars, screen, selection>>

\* A later statement: the next of the included tables, for the rows read before.
PollIncluded(u, i) ==
  /\ poll[u] # Unread
  /\ \A t \in Tanks, j \in DOMAIN ReadOrder :
       poll[u][t][ReadOrder[j]] = Unread <=> j >= i
  /\ poll' = [poll EXCEPT ![u] = [t \in Tanks |->
       [poll[u][t] EXCEPT ![ReadOrder[i]] = ViewOf(poll[u][t].row, t)[ReadOrder[i]]]]]
  /\ UNCHANGED <<vars, screen, selection>>

AllRead(u) ==
  /\ poll[u] # Unread
  /\ \A t \in Tanks, part \in Included : poll[u][t][part] # Unread

\* The answer replaces the screen, whether a dialog is open or not.
PollAnswered(u) ==
  /\ AllRead(u)
  /\ screen' = [screen EXCEPT ![u] = poll[u]]
  /\ poll' = [poll EXCEPT ![u] = Unread]
  /\ UNCHANGED <<vars, selection>>

\* The poll fails on the server or on the way: no answer, the next interval
\* polls again.
PollLost(u) ==
  /\ AllRead(u)
  /\ poll' = [poll EXCEPT ![u] = Unread]
  /\ UNCHANGED <<vars, screen, selection>>

\* open: the dialog of an action on tank t keeps the tank the screen shows.
OpenDialog(u, t) ==
  /\ selection[u] = Unread
  /\ screen[u][t] # Unread
  /\ selection' = [selection EXCEPT ![u] = [tank |-> t, view |-> screen[u][t]]]
  /\ UNCHANGED <<vars, poll, screen>>

CloseDialog(u) ==
  /\ selection[u] # Unread
  /\ selection' = [selection EXCEPT ![u] = Unread]
  /\ UNCHANGED <<vars, poll, screen>>

\* An accepted request closes the dialog and restarts the poll (onSuccess).  A
\* refused one changes nothing: the dialog stays open with the message.
Submit(u) ==
  /\ selection[u] # Unread
  /\ TankOperation(u, selection[u].tank, selection[u].view.row.version)
  /\ selection' = [selection EXCEPT ![u] = Unread]
  /\ poll' = [poll EXCEPT ![u] = Unread]
  /\ UNCHANGED screen

ScreensNext ==
  \E u \in Users :
    \/ PollTanks(u) \/ PollAnswered(u) \/ PollLost(u)
    \/ \E i \in DOMAIN ReadOrder : PollIncluded(u, i)
    \/ \E t \in Tanks : OpenDialog(u, t)
    \/ CloseDialog(u)
    \/ Submit(u)
    \/ Planning(u) /\ UNCHANGED screenVars

ScreensSpec == ScreensInit /\ [][ScreensNext]_allVars

\* The browser keeps polling, and not every poll is lost on the way.  Nothing is
\* assumed of the operators.
PollFairness ==
  \A u \in Users :
    /\ WF_allVars(PollTanks(u))
    /\ \A i \in DOMAIN ReadOrder : WF_allVars(PollIncluded(u, i))
    /\ SF_allVars(PollAnswered(u))

FairScreens == ScreensSpec /\ PollFairness

-----------------------------------------------------------------------------
\* A view is never ahead of its tank, and a view of the present version is the
\* present: the reads of a poll that other operations separated (rows of one
\* moment, lot of another) leave a screen whose version is already old.
Faithful(view, t) ==
  /\ view.row.version <= tank[t].version
  /\ view.row.version = tank[t].version => view = View(t)

\* No screen and no open dialog shows the current version of a tank together
\* with anything that is not current (plant.service.ts:765-783 reads without a
\* transaction what 1078-1896 write in one).
ScreensFaithful ==
  \A u \in Users :
    /\ \A t \in Tanks : screen[u][t] # Unread => Faithful(screen[u][t], t)
    /\ selection[u] # Unread => Faithful(selection[u].view, selection[u].tank)

\* No blind overwrite: a tank or the lot in it changes only by the request of an
\* operator whose dialog shows the tank exactly as it is.
DecidedOnThePresent ==
  [][\A t \in Tanks : View(t)' # View(t) =>
       \E u \in Users : /\ selection[u] # Unread /\ selection'[u] = Unread
                        /\ selection[u].tank = t
                        /\ selection[u].view = View(t)]_allVars

\* A screen catches up: unless a tank changes for ever, every operator again and
\* again sees it as it is, dialog open or not.
ScreensCatchUp ==
  \A u \in Users, t \in Tanks :
    \/ []<>(screen[u][t] # Unread /\ screen[u][t] = View(t))
    \/ []<><<tank'[t] # tank[t]>>_allVars
=============================================================================
