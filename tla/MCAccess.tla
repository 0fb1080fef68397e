------------------------------ MODULE MCAccess ------------------------------
(***************************************************************************)
(* Who gets in and what the browser makes of it: the login of an account,  *)
(* the accounts and what administrators do to them, the page they do it    *)
(* on, the session of a browser and its service worker.  Each behaviour is *)
(* about one of them, "part" says which; the variables of the others keep  *)
(* the value Idle.                                                         *)
(***************************************************************************)
EXTENDS LoginLockout, TLC

CONSTANTS c1, c2, c3,       \* logins of one account, requests at once, windows
          owner, admin, s1, north, south,
          u1, u2, Nobody    \* users of a browser

VARIABLES part,
          user, session, request, audited, asked, mixed,
          row, own, signedIn, filter, list, form, chain, info, confirm, exact, foreign, suspended,
          account, store, path, plant, unloading, login, flight, opens,
          served, net, active, waiting, cache, bundles, win, reloads, claims, checked

MCAttempts == {c1, c2, c3}

\* Creation, suspension, change of role and removal, then the passwords, then
\* the plants an account may enter: two requests at once, one browser.
OfStates == INSTANCE Accounts WITH
  Users <- {owner, admin}, Owners <- {owner}, Roles <- {"ADMIN", "FABRICACION"},
  Passwords <- {1}, Plants <- {north}, Sessions <- {s1}, Requests <- {c1, c2},
  Ops <- {"create", "toggle", "role", "remove"}, MaxVersion <- 2
OfPasswords == INSTANCE Accounts WITH
  Users <- {owner, admin}, Owners <- {owner}, Roles <- {"ADMIN"},
  Passwords <- {1, 2}, Plants <- {north}, Sessions <- {s1}, Requests <- {c1, c2},
  Ops <- {"create", "password", "changePassword"}, MaxVersion <- 2
OfPlants == INSTANCE Accounts WITH
  Users <- {owner}, Owners <- {owner}, Roles <- {"ADMIN"},
  Passwords <- {1}, Plants <- {north, south}, Sessions <- {s1}, Requests <- {c1, c2},
  Ops <- {"plants"}, MaxVersion <- 2
Editing == INSTANCE UserEditing WITH Fields <- {"profile", "role"}, Values <- {1, 2}

\* Every role on one browser, and two users that change places on it.
EveryRole == {"FABRICACION", "LABORATORIO", "ENVASADO", "MONITOREO", "JEFATURA", "ADMIN"}
Pages == INSTANCE BrowserSession WITH
  Users <- {u1}, None <- Nobody, UsedRoles <- EveryRole, CanTransfer <- {}, Appointees <- {u1},
  DatabaseFails <- TRUE, Slots <- {1}, MaxVersions <- 2, MaxOpens <- 1
Changes == INSTANCE BrowserSession WITH
  Users <- {u1, u2}, None <- Nobody, UsedRoles <- {"FABRICACION"}, CanTransfer <- {}, Appointees <- {},
  DatabaseFails <- TRUE, Slots <- {1, 2}, MaxVersions <- 2, MaxOpens <- 0
Worker == INSTANCE ServiceWorker WITH Windows <- {c1, c2}, MaxBuilds <- 2, MaxFailures <- 2

ASSUME InstancesAreLegal ==
  /\ OfStates!AccountsAssumption /\ OfPasswords!AccountsAssumption /\ OfPlants!AccountsAssumption
  /\ Editing!EditingAssumption
  /\ Pages!SessionAssumption /\ Changes!SessionAssumption
  /\ Worker!WorkerAssumption

-----------------------------------------------------------------------------
Idle == 0

NoLogins == /\ privileged = FALSE /\ failedLoginAttempts = 0 /\ lock = NoLock
            /\ pc = [a \in Attempts |-> "idle"] /\ crashes = 0
NoAccounts == /\ user = Idle /\ session = Idle /\ request = Idle
              /\ audited = Idle /\ asked = Idle /\ mixed = Idle
NoEditing == /\ row = Idle /\ own = Idle /\ signedIn = Idle /\ filter = Idle
             /\ list = Idle /\ form = Idle /\ chain = Idle /\ info = Idle
             /\ confirm = Idle /\ exact = Idle /\ foreign = Idle /\ suspended = Idle
NoSession == /\ account = Idle /\ store = Idle /\ path = Idle /\ plant = Idle
             /\ unloading = Idle /\ login = Idle /\ flight = Idle /\ opens = Idle
NoWorker == /\ served = Idle /\ net = Idle /\ active = Idle /\ waiting = Idle
            /\ cache = Idle /\ bundles = Idle /\ win = Idle
            /\ reloads = Idle /\ claims = Idle /\ checked = Idle

loginVars == <<privileged, failedLoginAttempts, lock, pc, crashes>>
accountVars == <<user, session, request, audited, asked, mixed>>
editingVars == <<row, own, signedIn, filter, list, form, chain, info, confirm, exact,
                 foreign, suspended>>
sessionVars == <<account, store, path, plant, unloading, login, flight, opens>>
workerVars == <<served, net, active, waiting, cache, bundles, win, reloads, claims, checked>>
accessVars == <<part, failures, loginVars, accountVars, editingVars, sessionVars, workerVars>>

AccessInit ==
  \/ part = "login" /\ Init /\ NoAccounts /\ NoEditing /\ NoSession /\ NoWorker
  \/ /\ NoLogins /\ failures = Idle /\ NoEditing /\ NoSession /\ NoWorker
     /\ \/ part = "states" /\ OfStates!Init
        \/ part = "passwords" /\ OfPasswords!Init
        \/ part = "plants" /\ OfPlants!Init
  \/ part = "editing" /\ Editing!Init /\ NoLogins /\ failures = Idle /\ NoAccounts /\ NoSession /\ NoWorker
  \/ /\ NoLogins /\ failures = Idle /\ NoAccounts /\ NoEditing /\ NoWorker
     /\ \/ part = "pages" /\ Pages!Init
        \/ part = "changes" /\ Changes!Init
  \/ part = "worker" /\ Worker!Init /\ NoLogins /\ NoAccounts /\ NoEditing /\ NoSession

\* failures counts the refused logins of LoginLockout and the changes of the
\* network of ServiceWorker.
NextLogin == part = "login" /\ Next /\ UNCHANGED <<part, accountVars, editingVars, sessionVars, workerVars>>
NextAccounts ==
  /\ UNCHANGED <<part, failures, loginVars, editingVars, sessionVars, workerVars>>
  /\ \/ part = "states" /\ OfStates!Next
     \/ part = "passwords" /\ OfPasswords!Next
     \/ part = "plants" /\ OfPlants!Next
NextEditing == part = "editing" /\ Editing!Next
               /\ UNCHANGED <<part, failures, loginVars, accountVars, sessionVars, workerVars>>
NextSession ==
  /\ UNCHANGED <<part, failures, loginVars, accountVars, editingVars, workerVars>>
  /\ \/ part = "pages" /\ Pages!Next
     \/ part = "changes" /\ Changes!Next
NextWorker == part = "worker" /\ Worker!Next
              /\ UNCHANGED <<part, loginVars, accountVars, editingVars, sessionVars>>

AccessNext == NextLogin \/ NextAccounts \/ NextEditing \/ NextSession \/ NextWorker

AccessSpec == AccessInit /\ [][AccessNext]_accessVars

AccessSymmetry == Permutations({c1, c2})

-----------------------------------------------------------------------------
(* The login and the accounts: the counter of failures is of this window   *)
(* and its lock; a token the guard accepts was given for the password and  *)
(* the role the account still has and never before a deactivation; the     *)
(* system owner can always administer; a removal has its entry; the log    *)
(* tells the account and the account enters the plants last asked for,     *)
(* unless requests overlapped on it or one died halfway.                   *)
AccountsHold ==
  /\ part = "login" => LockoutTypeOK /\ CounterNeverAhead
  /\ part = "states" => /\ OfStates!AccountsTypeOK /\ OfStates!TokenMatchesAccount
                        /\ OfStates!NoTokenOutlivesDeactivation /\ OfStates!AnAdministratorRemains
                        /\ OfStates!RemovalIsAudited /\ OfStates!LogTellsAccount
  /\ part = "passwords" => OfPasswords!AccountsTypeOK /\ OfPasswords!TokenMatchesAccount
  /\ part = "plants" => OfPlants!AccountsTypeOK /\ OfPlants!AccessIsWhatWasAsked

(* The page of accounts: a save that says so left the account as the form  *)
(* shows it, unless someone else changed it meanwhile.                     *)
SavedAsShown == part = "editing" => Editing!EditingTypeOK /\ Editing!SavedAsShown

(* A save never changes a field its administrator did not touch, unless    *)
(* someone else had.                                                       *)
UntouchedKept == [][part = "editing" => Editing!SavesWhatWasTyped]_editingVars

(* A page never asks for what the server refuses to the roles the page is  *)
(* shown to.                                                               *)
PagesAreServed ==
  /\ part = "pages" => Pages!SessionTypeOK /\ Pages!PagesAreServed
  /\ part = "changes" => Changes!SessionTypeOK /\ Changes!PagesAreServed

(* An answer to an earlier session never ends the one that is stored.      *)
AnswersEndTheirOwnSession ==
  [][/\ part = "pages" => Pages!EndsByItsOwnAnswer
     /\ part = "changes" => Changes!EndsByItsOwnAnswer]_sessionVars

(* The worker: a navigation without network finds a shell some build       *)
(* published, a window that heard of a take-over shows that build or a     *)
(* later one, and is reloaded once per take-over.                          *)
WorkerHolds ==
  part = "worker" => /\ Worker!WorkerTypeOK /\ Worker!OfflineAnswered
                     /\ Worker!WindowFollowsWorker /\ Worker!OneReloadPerTakeOver
=============================================================================
