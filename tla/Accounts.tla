------------------------------ MODULE Accounts ------------------------------
(***************************************************************************)
(* The accounts (UsersService), the sessions opened on them                *)
(* (AuthService.login, JwtAuthGuard) and the operations administrators do  *)
(* on them.  Every operation is a request with four steps between awaits:  *)
(* the guards, the read of the target, the write, the audit entry; the     *)
(* statements of different requests interleave, and a restart or a failing *)
(* statement may end a request at any of them.                             *)
(***************************************************************************)
EXTENDS Naturals, FiniteSets

CONSTANTS Users, Owners,      \* ids, and those with isSystemOwner
          Roles, Passwords, Plants,
          Sessions, Requests, \* browsers, and requests under way at once
          Ops,                \* the operations a run exercises
          MaxVersion          \* bound on sessionVersion

(* The operations of UsersService and the change of one's own password.    *)
Operations == {"create", "toggle", "role", "password", "changePassword", "plants", "remove"}

(* What the constants must be. *)
AccountsAssumption == /\ Owners \subseteq Users
                      /\ "ADMIN" \in Roles
                      /\ Ops \subseteq Operations
                      /\ MaxVersion \in Nat

VARIABLES user,      \* the row of every id
          session,   \* the login under way or the token of every browser
          request,
          audited,   \* what the audit log last says of every account
          asked,     \* the plants last requested for every account
          mixed      \* accounts two requests worked on at once, or left half done

vars == <<user, session, request, audited, asked, mixed>>

NoRequest == [op |-> "none"]
NoSession == [phase |-> "none"]

Active(u) == user[u].state = "active"
Exists(u) == user[u].state \in {"active", "inactive"}
Busy(u) == {r \in Requests : request[r].op # "none" /\ request[r].on = u}

Row(state, role, pw, plants) ==
    [state |-> state, role |-> role, pw |-> pw, version |-> 0, plants |-> plants]

Init == \E pw \in Passwords :
    /\ user = [u \in Users |-> Row(IF u \in Owners THEN "active" ELSE "none", "ADMIN", pw, {})]
    /\ session = [s \in Sessions |-> NoSession]
    /\ request = [r \in Requests |-> NoRequest]
    /\ audited = [u \in Users |-> [state |-> user[u].state, role |-> user[u].role, deleted |-> FALSE]]
    /\ asked = [u \in Users |-> {}]
    /\ mixed = {}

-----------------------------------------------------------------------------
(* Sessions. *)

(* JwtAuthGuard: the token's account is active and of the same version.    *)
Accepted(s) == /\ session[s].phase = "open"
               /\ Active(session[s].of)
               /\ user[session[s].of].version = session[s].version

(* login reads the row once; password, role and version are of that read.  *)
LoginRead(s, u) ==
    /\ Active(u)
    /\ session' = [session EXCEPT ![s] = [phase |-> "login", of |-> u, version |-> user[u].version,
                                          pw |-> user[u].pw, role |-> user[u].role, cut |-> FALSE]]
    /\ UNCHANGED <<user, request, audited, asked, mixed>>

(* The reset of the counter needs the row; then the token is signed.       *)
LoginIssue(s) ==
    /\ session[s].phase = "login" /\ Exists(session[s].of)
    /\ session' = [session EXCEPT ![s].phase = "open"]
    /\ UNCHANGED <<user, request, audited, asked, mixed>>

-----------------------------------------------------------------------------
(* Requests. *)

(* RolesGuard lets the system owner through, else the role of the row.     *)
Administers(u) == u \in Owners \/ user[u].role = "ADMIN"

(* assertCanManageTarget *)
CanManage(by, on, allowSelf) ==
    \/ on \notin Owners
    \/ by \in Owners /\ by # on
    \/ allowSelf /\ by = on

Args(op) == CASE op = "role" -> Roles
              [] op \in {"password", "changePassword"} -> Passwords
              [] op \in {"plants", "create"} -> SUBSET Plants \ {{}}
              [] OTHER -> {{}}

Begin(r, s, op, u, arg) ==
    /\ request[r] = NoRequest
    /\ Accepted(s)
    /\ op = "changePassword" \/ Administers(session[s].of)
    /\ op = "changePassword" => u = session[s].of
    /\ (op = "create") = (user[u].state = "none")
    /\ Busy(u) # {} => op # "create"
    /\ request' = [request EXCEPT ![r] = [op |-> op, step |-> "read", by |-> session[s].of,
                                          on |-> u, arg |-> arg]]
    /\ mixed' = IF Busy(u) = {} THEN mixed ELSE mixed \cup {u}
    /\ UNCHANGED <<user, session, audited, asked>>

Answer(r) == request' = [request EXCEPT ![r] = NoRequest]

(* findFirst and the checks made on the row it returns.  create finds none *)
(* and keeps the empty row of its new id.                                  *)
Read(r) ==
    LET q == request[r]
        found == CASE q.op = "create" -> TRUE
                   [] q.op = "changePassword" -> Active(q.on)
                   [] OTHER -> Exists(q.on) /\ CanManage(q.by, q.on, q.op = "plants")
    IN  /\ q.op # "none" /\ q.step = "read"
        /\ IF found
           THEN request' = [request EXCEPT ![r] =
                    [op |-> q.op, on |-> q.on, arg |-> q.arg,
                     seen |-> IF q.op = "plants" THEN user[q.on].plants ELSE {},
                     seenActive |-> q.op = "toggle" /\ Active(q.on),
                     step |-> IF q.op = "remove" THEN "audit" ELSE "write"]]
           ELSE Answer(r)
        /\ UNCHANGED <<user, session, audited, asked, mixed>>

\* Mutant of RoleSet: the tokens of the former role stay valid.
RoleKeepsVersion(q, row) == [row EXCEPT !.role = q.arg]

(* The update statement of each operation, on the row it finds.            *)
Toggled(q, row) == [row EXCEPT !.state = IF q.seenActive THEN "inactive" ELSE "active",
                               !.version = @ + 1]
RoleSet(q, row) == [row EXCEPT !.role = q.arg, !.version = @ + 1]
PasswordSet(q, row) == [row EXCEPT !.pw = q.arg, !.version = @ + 1]
OwnPasswordSet(q, row) == PasswordSet(q, row)
PlantsSet(q, row) ==
    [row EXCEPT !.plants = (@ \ (q.seen \ q.arg)) \cup (q.arg \ q.seen)]
Created(q, row) == Row("active", "ADMIN", row.pw, q.arg)

NewRow(q, row) ==
    CASE q.op = "toggle" -> Toggled(q, row)
      [] q.op = "role" -> RoleSet(q, row)
      [] q.op = "password" -> PasswordSet(q, row)
      [] q.op = "changePassword" -> OwnPasswordSet(q, row)
      [] q.op = "plants" -> PlantsSet(q, row)
      [] q.op = "create" -> Created(q, row)
      [] OTHER -> row

(* Logins and tokens an account's deactivation or removal cuts off.        *)
CutOff(u) == [s \in Sessions |-> IF session[s].phase # "none" /\ session[s].of = u
                                 THEN [session[s] EXCEPT !.cut = TRUE] ELSE session[s]]

Write(r) ==
    LET q == request[r]
    IN  /\ q.op \notin {"none", "remove"} /\ q.step = "write"
        /\ q.op = "create" \/ Exists(q.on)
        /\ user[q.on].version < MaxVersion \/ q.op \in {"plants", "create"}
        /\ user' = [user EXCEPT ![q.on] = NewRow(q, @)]
        /\ session' = IF user'[q.on].state = "inactive" THEN CutOff(q.on) ELSE session
        /\ request' = [request EXCEPT ![r].step = "audit"]
        /\ asked' = IF q.op \in {"plants", "create"} THEN [asked EXCEPT ![q.on] = q.arg] ELSE asked
        /\ UNCHANGED <<audited, mixed>>

(* The row went away before the update: the statement fails.               *)
WriteFails(r) ==
    /\ request[r].op \notin {"none", "create"} /\ request[r].step = "write"
    /\ ~Exists(request[r].on)
    /\ Answer(r)
    /\ UNCHANGED <<user, session, audited, asked, mixed>>

(* The entry tells what the request read and wrote; remove writes its      *)
(* entry before the row is touched.                                        *)
Audit(r) ==
    LET q == request[r]
        wrote == NewRow(q, user[q.on])
    IN  /\ q.op # "none" /\ q.step = "audit"
        /\ audited' = [audited EXCEPT ![q.on] =
               CASE q.op \in {"toggle", "create"} -> [@ EXCEPT !.state = wrote.state]
                 [] q.op = "role" -> [@ EXCEPT !.role = wrote.role]
                 [] q.op = "remove" -> [@ EXCEPT !.deleted = TRUE]
                 [] OTHER -> @]
        /\ IF q.op = "remove" THEN request' = [request EXCEPT ![r].step = "write"] ELSE Answer(r)
        /\ UNCHANGED <<user, session, asked, mixed>>

(* remove deletes the row, or deactivates it when records refer to it.     *)
Delete(r) ==
    /\ request[r].op = "remove" /\ request[r].step = "write"
    /\ Exists(request[r].on)
    /\ \E referred \in BOOLEAN :
         user' = [user EXCEPT ![request[r].on].state = IF referred THEN "inactive" ELSE "gone"]
    /\ session' = CutOff(request[r].on)
    /\ Answer(r)
    /\ UNCHANGED <<audited, asked, mixed>>

(* A restart or a failing statement ends the request where it is.          *)
Drop(r) ==
    /\ request[r] # NoRequest
    /\ mixed' = IF request[r].step = "audit" THEN mixed \cup {request[r].on} ELSE mixed
    /\ Answer(r)
    /\ UNCHANGED <<user, session, audited, asked>>

Next == \/ \E s \in Sessions : LoginIssue(s) \/ \E u \in Users : LoginRead(s, u)
        \/ \E r \in Requests, s \in Sessions, op \in Ops, u \in Users :
             \E arg \in Args(op) : Begin(r, s, op, u, arg)
        \/ \E r \in Requests : Read(r) \/ Write(r) \/ WriteFails(r) \/ Audit(r) \/ Delete(r) \/ Drop(r)

Spec == Init /\ [][Next]_vars

-----------------------------------------------------------------------------
(* Type invariant of the rows.                                             *)
AccountsTypeOK ==
    /\ user \in [Users -> [state : {"none", "active", "inactive", "gone"}, role : Roles,
                           pw : Passwords, version : 0..MaxVersion, plants : SUBSET Plants]]
    /\ \A s \in Sessions : session[s].phase \in {"none", "login", "open"}
    /\ \A r \in Requests : request[r].op \in Ops \cup {"none"}
    /\ mixed \subseteq Users

(* A token the guard accepts was given for the account's present password  *)
(* and role, however the login and the changes overlapped.                 *)
TokenMatchesAccount ==
    \A s \in Sessions : Accepted(s) => /\ session[s].pw = user[session[s].of].pw
                                       /\ session[s].role = user[session[s].of].role

(* No session outlives a deactivation: a reactivated account needs a login *)
(* made after it, even when remove deactivated it without a new version.   *)
NoTokenOutlivesDeactivation == \A s \in Sessions : Accepted(s) => ~session[s].cut

(* Whatever administrators do to each other at once, someone can still     *)
(* administer: the system owner cannot be deactivated, demoted or removed. *)
AnAdministratorRemains == \E u \in Users : Active(u) /\ Administers(u)

(* A removal is never without its entry, even if the request died midway.  *)
RemovalIsAudited == \A u \in Users : user[u].state = "gone" => audited[u].deleted

(* Unless requests overlapped on the account or one died before its entry, *)
(* the log tells the account's present state and role.                     *)
LogTellsAccount ==
    \A u \in Users \ mixed : Busy(u) = {} =>
        /\ audited[u].role = user[u].role
        /\ audited[u].deleted \/ audited[u].state = user[u].state

(* The plants of an account are those last asked for, computed as they are *)
(* from a difference with an earlier read, unless requests overlapped.     *)
AccessIsWhatWasAsked == \A u \in Users \ mixed : Exists(u) => user[u].plants = asked[u]
=============================================================================
