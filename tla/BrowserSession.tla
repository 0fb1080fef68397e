--------------------------- MODULE BrowserSession ---------------------------
(***************************************************************************)
(* One browser: the session in its storage, the routes and their guards,   *)
(* the menu, the requests the pages send and the guards of the server that *)
(* answer them.  A token is the user and the version of the session when   *)
(* it was issued; role changes, suspensions and password changes raise the *)
(* version of the account.                                                 *)
(***************************************************************************)
EXTENDS Integers, FiniteSets

CONSTANTS Users, None,
          UsedRoles,      \* the roles the accounts may have
          CanTransfer,    \* users with UserPlantAccess.canTransfer
          Appointees,     \* users system-owner.ts may be run for
          DatabaseFails,  \* whether the guard's query may fail
          Slots,          \* bound: requests in flight
          MaxVersions,    \* bound: changes of an account
          MaxOpens        \* bound: links typed by hand

(* ADMIN is the role of the system owner.                                  *)
Roles == UsedRoles \union {"ADMIN"}
AllRoles == {"FABRICACION", "LABORATORIO", "ENVASADO", "MONITOREO", "JEFATURA", "ADMIN"}

(* What the constants must be. *)
SessionAssumption == /\ UsedRoles \subseteq AllRoles \union {"OPERARIO"}
                     /\ None \notin Users
                     /\ CanTransfer \subseteq Users /\ Appointees \subseteq Users
                     /\ DatabaseFails \in BOOLEAN

VARIABLES account,    \* user -> [role, owner (isSystemOwner), active, version]
          store,      \* 'disal.session': the token and the user it came with
          path, plant,
          unloading,  \* window.location.replace was called
          login,      \* the credentials being sent, or None
          flight,     \* slot -> the request and its answer
          opens

vars == <<account, store, path, plant, unloading, login, flight, opens>>
browser == <<path, plant, unloading, opens>>

-----------------------------------------------------------------------------
(* AppRouter and ProtectedRoute. *)
RouteRoles(p) ==
    CASE p = "/envases"       -> AllRoles
      [] p = "/fabricacion"   -> {"FABRICACION", "ADMIN"}
      [] p = "/pizarra"       -> {"FABRICACION", "ENVASADO", "JEFATURA", "ADMIN"}
      [] p = "/laboratorio"   -> {"LABORATORIO", "ADMIN"}
      [] p = "/envasado"      -> {"ENVASADO", "ADMIN"}
      [] p \in {"/visualizacion", "/historial"} -> {"MONITOREO", "JEFATURA", "ADMIN"}
      [] p = "/jefatura"      -> {"JEFATURA", "ADMIN"}
      [] p \in {"/admin", "/usuarios", "/auditoria"} -> {"ADMIN"}

Guarded == {"/envases", "/fabricacion", "/pizarra", "/laboratorio", "/envasado", "/visualizacion",
            "/historial", "/jefatura", "/admin", "/usuarios", "/auditoria"}
Paths == Guarded \union {"/", "/login", "/tv"}

Home(role) ==
    CASE role \in {"FABRICACION", "OPERARIO"} -> "/fabricacion"
      [] role = "LABORATORIO" -> "/laboratorio"
      [] role = "ENVASADO"    -> "/envasado"
      [] role = "MONITOREO"   -> "/historial"
      [] role = "JEFATURA"    -> "/visualizacion"
      [] role = "ADMIN"       -> "/admin"

(* LoginPage knows no home for an OPERARIO. *)
LoginHome(role) == IF role = "OPERARIO" THEN "/tv" ELSE Home(role)

SignedIn == store.user # None

\* Mutant of Rendered: the audit log is a page of every administrator.
RenderedByRole == \/ path \in {"/login", "/tv"}
                  \/ /\ path \in Guarded \ {"/admin"} /\ SignedIn
                     /\ store.role \in RouteRoles(path)

(* Whether the page itself is rendered, and where the guard sends the      *)
(* browser when it is not; systemOwnerOnly is asked of the session too.    *)
Rendered == \/ path \in {"/login", "/tv"}
            \/ /\ path \in Guarded \ {"/admin"} /\ SignedIn
               /\ store.role \in RouteRoles(path)
               /\ path = "/auditoria" => store.owner

Redirection ==
    CASE path = "/"                             -> "/login"
      [] path \in Guarded /\ ~SignedIn          -> "/login"
      [] path = "/auditoria" /\ SignedIn /\ ~store.owner -> "/admin"
      [] path \in Guarded /\ SignedIn /\ store.role \notin RouteRoles(path) -> Home(store.role)
      [] OTHER                                  -> "/fabricacion"

(* The items of AppLayout.                                                 *)
Menu == {p \in Guarded \ {"/admin"} :
            /\ SignedIn /\ store.role \in RouteRoles(p)
            /\ p = "/auditoria" => store.owner
            /\ p = "/envases" => plant = "ENVASES"}

-----------------------------------------------------------------------------
(* The requests a page sends of its own or from the controls it shows, and *)
(* the roles each is declared with in the controllers.                     *)
Uses(p) ==
    (IF p \in Guarded THEN {"plants"} ELSE {})
    \union (IF store.role \in {"FABRICACION", "LABORATORIO", "ENVASADO", "ADMIN"}
            THEN {"notifications"} ELSE {})
    \union
    CASE p = "/envases"       -> {"injection"}
      [] p = "/fabricacion"   -> {"tanks", "config", "planning", "manufacture"}
      [] p = "/pizarra"       -> {"planning"}
      [] p = "/laboratorio"   -> {"tanks", "config", "analyse"}
      [] p = "/envasado"      -> {"tanks", "config", "package", "transfer"}
      [] p = "/visualizacion" -> {"tanks"}
      [] p = "/historial"     -> {"states", "tanks", "timeline"}
      [] p = "/jefatura"      -> {"config", "daily"}
                                 \union IF store.role = "ADMIN" THEN {"targets"} ELSE {}
      [] p = "/usuarios"      -> {"users"}
      [] p = "/auditoria"     -> {"audit"}
      [] OTHER                -> {}

EndpointRoles(e) ==
    CASE e \in {"plants", "tanks", "config", "injection"} -> AllRoles
      [] e = "notifications" -> AllRoles \union {"OPERARIO"}     \* no @Roles
      [] e = "planning"      -> {"FABRICACION", "ENVASADO", "JEFATURA", "ADMIN"}
      [] e = "manufacture"   -> {"FABRICACION", "ADMIN"}
      [] e = "analyse"       -> {"LABORATORIO", "ADMIN"}
      [] e = "package"       -> {"ENVASADO", "ADMIN"}
      [] e = "transfer"      -> {"FABRICACION", "ENVASADO", "ADMIN"}
      [] e \in {"states", "timeline"} -> {"MONITOREO", "JEFATURA", "ADMIN"}
      [] e = "daily"         -> {"JEFATURA", "ADMIN"}
      [] e \in {"targets", "users", "audit"} -> {"ADMIN"}

(* assertSystemOwner: refused to an administrator who is not one.          *)
OwnerOnly == {"audit"}

(* RolesGuard lets the system owner pass whatever the roles.               *)
Granted(a, e) == /\ a.owner \/ a.role \in EndpointRoles(e)
                 /\ e \in OwnerOnly => a.owner

(* The pages that ask again by themselves: the bell every 3 s, the tanks   *)
(* and the machines every 2 s, the boards every 15 s, the day every 30 s.  *)
Polled == IF path \in Guarded /\ Rendered
          THEN Uses(path) \intersect {"notifications", "tanks", "injection", "planning", "daily"}
          ELSE {}

-----------------------------------------------------------------------------
NoSession == [user |-> None, version |-> 0, role |-> "none", owner |-> FALSE]
Free == [user |-> None, version |-> 0, endpoint |-> "none", status |-> 0]

Init == /\ account \in [Users -> {a \in [role : UsedRoles, owner : BOOLEAN, active : {TRUE},
                                         version : {1}] : a.owner => a.role = "ADMIN"}]
        /\ store = NoSession
        /\ path = "/login" /\ plant = "LATEX" /\ unloading = FALSE
        /\ login = None /\ opens = 0
        /\ flight = [s \in Slots |-> Free]

(* JwtAuthGuard and RolesGuard. *)
Accepted(u, version) == account[u].active /\ account[u].version = version

(* updateRole, toggleActive, resetPassword and changePassword, elsewhere   *)
(* (a new password is a change to the same role); what is done to a system *)
(* owner another one does, or he himself with his password.                *)
ChangeRole(u, role) ==
    /\ account[u].version < MaxVersions
    /\ account' = [account EXCEPT ![u].role = role, ![u].version = @ + 1]
    /\ UNCHANGED <<store, browser, login, flight>>

Suspend(u) ==
    /\ account[u].version < MaxVersions
    /\ account' = [account EXCEPT ![u].active = ~@, ![u].version = @ + 1]
    /\ UNCHANGED <<store, browser, login, flight>>

(* system-owner.ts makes an account the system owner, whatever it was; its *)
(* sessions end only if it sets a password as well.                        *)
Appoint(u) ==
    /\ \E version \in {account[u].version, account[u].version + 1} \cap 1..MaxVersions :
         account' = [account EXCEPT ![u] = [role |-> "ADMIN", owner |-> TRUE, active |-> TRUE,
                                            version |-> version]]
    /\ UNCHANGED <<store, browser, login, flight>>

-----------------------------------------------------------------------------
(* The user: a menu item, another plant, a link typed by hand (which loads *)
(* the application again), the exit.                                       *)
Follow(p) ==
    /\ ~unloading /\ path \in Guarded /\ Rendered
    /\ p \in Menu
    /\ path' = p
    /\ UNCHANGED <<account, store, plant, unloading, login, flight, opens>>

SelectPlant(code) ==
    /\ ~unloading /\ path \in Guarded /\ Rendered /\ code # plant
    /\ plant' = code
    /\ path' = IF code = "ENVASES" THEN "/envases"
               ELSE IF path = "/envases"
               THEN CASE store.role = "LABORATORIO" -> "/laboratorio"
                      [] store.role = "ENVASADO"    -> "/envasado"
                      [] store.role \in {"MONITOREO", "JEFATURA"} -> "/visualizacion"
                      [] OTHER -> "/fabricacion"
               ELSE path
    /\ UNCHANGED <<account, store, unloading, login, flight, opens>>

Open(p) ==
    /\ ~unloading /\ opens < MaxOpens
    /\ path' = p /\ opens' = opens + 1
    /\ flight' = [s \in Slots |-> Free] /\ login' = None
    /\ UNCHANGED <<account, store, plant, unloading>>

\* Mutant of ClearAndRedirect: the document and its requests stay.
ClearOnly ==
    /\ store' = NoSession
    /\ UNCHANGED unloading

(* clearSessionAndRedirect. *)
ClearAndRedirect ==
    /\ store' = NoSession
    /\ unloading' = (unloading \/ path # "/login")

Logout ==
    /\ ~unloading /\ path \in Guarded /\ Rendered
    /\ ClearAndRedirect
    /\ UNCHANGED <<account, path, plant, login, flight, opens>>

(* The new document: what was in flight dies with the old one.             *)
Unload ==
    /\ unloading
    /\ unloading' = FALSE /\ path' = "/login"
    /\ flight' = [s \in Slots |-> Free] /\ login' = None
    /\ UNCHANGED <<account, store, plant, opens>>

(* Navigate: a guard that does not render its page moves on.               *)
Redirect ==
    /\ ~Rendered
    /\ path' = Redirection
    /\ UNCHANGED <<account, store, plant, unloading, login, flight, opens>>

-----------------------------------------------------------------------------
SubmitLogin(u) ==
    /\ ~unloading /\ path = "/login" /\ login = None
    /\ login' = u
    /\ UNCHANGED <<account, store, browser, flight>>

(* The answer of the login: a session of the account as it is, or an error *)
(* (a 401 clears what is stored: the interceptor sees every answer).       *)
LoginAnswer ==
    /\ login # None
    /\ login' = None
    /\ \/ /\ account[login].active
          /\ store' = [user |-> login, version |-> account[login].version,
                       role |-> account[login].role, owner |-> account[login].owner]
          /\ path' = LoginHome(account[login].role)
          /\ UNCHANGED unloading
       \/ ClearAndRedirect /\ UNCHANGED path
       \/ UNCHANGED <<store, path, unloading>>
    /\ UNCHANGED <<account, plant, flight, opens>>

Send(s, e) ==
    /\ SignedIn /\ flight[s] = Free
    /\ flight' = [flight EXCEPT ![s] = [user |-> store.user, version |-> store.version,
                                        endpoint |-> e, status |-> 0]]
    /\ UNCHANGED <<account, store, browser, login>>

Act(s) == \E e \in Uses(path) : path \in Guarded /\ Rendered /\ Send(s, e)
Poll(s) == \E e \in Polled : Send(s, e)

(* The service refuses a transfer without the permission of the user on    *)
(* the plant with UnauthorizedException, and with a conflict when the tank *)
(* or the plant is not in question.                                        *)
RefusesTransfer(r) ==
    r.endpoint = "transfer" /\ r.user \notin CanTransfer /\ account[r.user].role # "ADMIN"

(* The guard answers 401 to whatever goes wrong in it, its query included. *)
Answers(r) ==
    (IF DatabaseFails THEN {401} ELSE {})
    \union
    (IF ~Accepted(r.user, r.version) THEN {401}
     ELSE IF ~Granted(account[r.user], r.endpoint) THEN {403}
     ELSE IF RefusesTransfer(r) THEN {401, 409} ELSE {200})

Serve(s) ==
    /\ flight[s].user # None /\ flight[s].status = 0
    /\ \E status \in Answers(flight[s]) : flight' = [flight EXCEPT ![s].status = status]
    /\ UNCHANGED <<account, store, browser, login>>

Receive(s) ==
    /\ flight[s].status # 0
    /\ flight' = [flight EXCEPT ![s] = Free]
    /\ IF flight[s].status = 401 THEN ClearAndRedirect ELSE UNCHANGED <<store, unloading>>
    /\ UNCHANGED <<account, path, plant, login, opens>>

(* No answer: the network, or the 15 s of the client.                      *)
Lose(s) ==
    /\ flight[s].user # None
    /\ flight' = [flight EXCEPT ![s] = Free]
    /\ UNCHANGED <<account, store, browser, login>>

UserStep == \/ \E p \in Guarded : Follow(p)
            \/ \E p \in Paths : Open(p)
            \/ \E code \in {"LATEX", "ENVASES"} : SelectPlant(code)
            \/ Logout
            \/ \E u \in Users : SubmitLogin(u)
            \/ \E s \in Slots : Act(s)

Next == \/ \E u \in Users : Suspend(u) \/ \E role \in UsedRoles : ChangeRole(u, role)
        \/ \E u \in Appointees : Appoint(u)
        \/ UserStep
        \/ Unload \/ Redirect \/ LoginAnswer
        \/ \E s \in Slots : Poll(s) \/ Serve(s) \/ Receive(s) \/ Lose(s)

Spec == Init /\ [][Next]_vars

(* The browser renders and unloads, the timers of the pages fire, and a    *)
(* request that is sent again and again is answered once.                  *)
Rendering == WF_vars(Redirect) /\ WF_vars(Unload)
Polling == \A s \in Slots : WF_vars(Poll(s)) /\ SF_vars(Serve(s)) /\ SF_vars(Receive(s))
FairSpec == Spec /\ Rendering /\ Polling

-----------------------------------------------------------------------------
(* Type invariant of the browser. *)
Endpoints == {"plants", "tanks", "config", "injection", "notifications", "planning", "manufacture",
              "analyse", "package", "transfer", "states", "timeline", "daily", "targets", "users",
              "audit"}
SessionTypeOK ==
    /\ account \in [Users -> [role : Roles, owner : BOOLEAN, active : BOOLEAN,
                              version : 1..MaxVersions]]
    /\ store = NoSession \/ store \in [user : Users, version : 1..MaxVersions,
                                       role : Roles, owner : BOOLEAN]
    /\ path \in Paths /\ plant \in {"LATEX", "ENVASES"}
    /\ opens \in 0..MaxOpens /\ unloading \in BOOLEAN /\ login \in Users \union {None}
    /\ flight \in [Slots -> {Free} \union [user : Users, version : 1..MaxVersions,
                                           endpoint : Endpoints, status : {0, 200, 401, 403, 409}]]

(* What a page asks for, the server grants to every session that is shown  *)
(* the page, though page and menu go by the role and the ownership stored  *)
(* at the login and the server by those of the account: an old session is  *)
(* refused before its role is looked at, and an appointment that leaves    *)
(* the sessions alone takes nothing from them (assertSystemOwner included, *)
(* audit-logs.controller.ts:27-33).                                        *)
PagesAreServed == \A s \in Slots : flight[s].status # 403

(* The answer that ends a session is an answer to that session: what was   *)
(* sent for an earlier one, another user's included, never reaches it      *)
(* (http.ts:29-35 clears whatever session is stored when a 401 arrives).   *)
EndsByItsOwnAnswer ==
    SignedIn /\ store' = NoSession /\ ~unloading /\ login' = login /\ flight' # flight
        => \E s \in Slots : /\ flight'[s] # flight[s]
                            /\ flight[s].user = store.user
                            /\ flight[s].version = store.version
AnswersEndTheirOwnSession == [][EndsByItsOwnAnswer]_vars

(* "accepts an active user with the current session version" (test of      *)
(* jwt-auth.guard.spec.ts:23): no answer of the server ends the session of *)
(* an active account that is as it was when the session began.             *)
LiveSessionsLast ==
    [][ SignedIn /\ store' = NoSession /\ ~unloading /\ login' = login /\ flight' # flight
        => ~Accepted(store.user, store.version) ]_vars

(* The redirections of the guards end at a page that is shown.             *)
RedirectsSettle == []<>Rendered

(* A session the server no longer accepts does not stay on a page that     *)
(* asks again by itself.                                                   *)
DeadSessionLeaves ==
    []<>(~SignedIn \/ Accepted(store.user, store.version) \/ Polled = {})
=============================================================================
