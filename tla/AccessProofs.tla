---------------------------- MODULE AccessProofs ----------------------------
(***************************************************************************)
(* Who gets in.  The counter and the lock of LoginLockout, for every       *)
(* number of attempts, limit, lock span and number of restarts; then the   *)
(* accounts, for every set of users, sessions, requests under way at once  *)
(* and bound on the versions; the session of a browser, whatever is typed, *)
(* polled, answered late or lost; its service worker, for every number of  *)
(* windows and of deployments; and the dialog in which accounts are        *)
(* edited, for any groups of fields.                                       *)
(***************************************************************************)
EXTENDS LoginLockout, FiniteSetTheorems, TLAPS

(* The row and the attempts keep their types. *)
THEOREM LockoutTypes == Spec => []LockoutTypeOK
<1>1. Init => LockoutTypeOK
  BY LockoutAssumption DEF Init, LockoutTypeOK, NoLock, Steps
<1>2. LockoutTypeOK /\ [Next]_vars => LockoutTypeOK'
  <2> SUFFICES ASSUME LockoutTypeOK, [Next]_vars PROVE LockoutTypeOK'
    OBVIOUS
  <2> USE LockoutAssumption DEF LockoutTypeOK, NoLock, Steps
  <2>1. ASSUME NEW a \in Attempts, Begin(a) PROVE LockoutTypeOK'
    BY <2>1 DEF Begin, At
  <2>2. ASSUME NEW a \in Attempts, Reopen(a) PROVE LockoutTypeOK'
    BY <2>2 DEF Reopen, At
  <2>3. ASSUME NEW a \in Attempts, Compare(a) PROVE LockoutTypeOK'
    BY <2>3 DEF Compare, At
  <2>4. ASSUME NEW a \in Attempts, Count(a) PROVE LockoutTypeOK'
    BY <2>4 DEF Count, At
  <2>5. ASSUME NEW a \in Attempts, Block(a) PROVE LockoutTypeOK'
    BY <2>5 DEF Block, At
  <2>6. ASSUME NEW a \in Attempts, Accept(a) PROVE LockoutTypeOK'
    BY <2>6 DEF Accept, At
  <2>7. CASE Tick
    BY <2>7 DEF Tick
  <2>8. CASE Crash
    BY <2>8 DEF Crash
  <2>9. CASE UNCHANGED vars
    BY <2>9 DEF vars
  <2> QED
    BY <2>1, <2>2, <2>3, <2>4, <2>5, <2>6, <2>7, <2>8, <2>9 DEF Next
<1> QED
  BY <1>1, <1>2, PTL DEF Spec

(* A full counter is followed by its lock, whatever the order of the       *)
(* attempts; only a restart can leave it without one.                      *)
THEOREM FullCounterIsLocked == Spec => []FullCounterLocks
<1>1. Init => FullCounterLocks
  BY LockoutAssumption DEF Init, FullCounterLocks, MaxFailed
<1>2. LockoutTypeOK /\ LockoutTypeOK' /\ FullCounterLocks /\ [Next]_vars => FullCounterLocks'
  <2> SUFFICES ASSUME LockoutTypeOK, LockoutTypeOK', FullCounterLocks, [Next]_vars
               PROVE FullCounterLocks'
    OBVIOUS
  <2>0. MaxFailed \in Nat \ {0}
    BY LockoutAssumption DEF MaxFailed
  (* A step that takes one attempt from elsewhere leaves a pending lock.    *)
  <2>1. ASSUME NEW a \in Attempts, NEW s, pc[a] # "block", pc' = [pc EXCEPT ![a] = s],
               UNCHANGED <<privileged, failedLoginAttempts, lock, crashes>>
        PROVE FullCounterLocks'
    <3>1. \A b \in Attempts : pc[b] = "block" => pc'[b] = "block"
      BY <2>1 DEF LockoutTypeOK
    <3> QED
      BY <2>1, <3>1 DEF FullCounterLocks, MaxFailed
  <2>2. ASSUME NEW a \in Attempts, Begin(a) PROVE FullCounterLocks'
    BY <2>1, <2>2 DEF Begin, At
  <2>3. ASSUME NEW a \in Attempts, Reopen(a) PROVE FullCounterLocks'
    BY <2>0, <2>3 DEF Reopen, FullCounterLocks, MaxFailed
  <2>4. ASSUME NEW a \in Attempts, Compare(a) PROVE FullCounterLocks'
    BY <2>1, <2>4 DEF Compare, At
  <2>5. ASSUME NEW a \in Attempts, Count(a) PROVE FullCounterLocks'
    <3>1. CASE failedLoginAttempts + 1 >= MaxFailed
      BY <2>5, <3>1 DEF Count, At, FullCounterLocks, LockoutTypeOK
    <3>2. CASE ~(failedLoginAttempts + 1 >= MaxFailed)
      BY <2>0, <2>5, <3>2 DEF Count, FullCounterLocks, LockoutTypeOK, MaxFailed
    <3> QED
      BY <3>1, <3>2
  <2>6. ASSUME NEW a \in Attempts, Block(a) PROVE FullCounterLocks'
    BY <2>6, LockoutAssumption DEF Block, FullCounterLocks, NoLock
  <2>7. ASSUME NEW a \in Attempts, Accept(a) PROVE FullCounterLocks'
    BY <2>0, <2>7 DEF Accept, FullCounterLocks, MaxFailed
  <2>8. CASE Tick
    BY <2>8 DEF Tick, FullCounterLocks, LockoutTypeOK, NoLock
  <2>9. CASE Crash
    BY <2>9, LockoutAssumption DEF Crash, FullCounterLocks, LockoutTypeOK
  <2>10. CASE UNCHANGED vars
    BY <2>10 DEF vars, FullCounterLocks, MaxFailed
  <2> QED
    BY <2>2, <2>3, <2>4, <2>5, <2>6, <2>7, <2>8, <2>9, <2>10 DEF Next
<1> QED
  BY <1>1, <1>2, LockoutTypes, PTL DEF Spec

(* The counter never holds a failure from before the last valid login or   *)
(* the last cleared lock.                                                  *)
THEOREM CounterIsOfThisWindow == Spec => []CounterNeverAhead
<1>1. Init => CounterNeverAhead
  BY DEF Init, CounterNeverAhead
<1>2. LockoutTypeOK /\ CounterNeverAhead /\ [Next]_vars => CounterNeverAhead'
  BY DEF LockoutTypeOK, CounterNeverAhead, Next, vars, Begin, Reopen, Compare, Count, Block,
         Accept, Tick, Crash
<1> QED
  BY <1>1, <1>2, LockoutTypes, PTL DEF Spec

-----------------------------------------------------------------------------
(* The accounts.                                                           *)

CONSTANTS Users, Owners, Roles, Passwords, Plants, Sessions, Requests, Ops, MaxVersion
VARIABLES user, session, request, audited, asked, mixed

A == INSTANCE Accounts

States == {"none", "active", "inactive", "gone"}
Rows == [state : States, role : Roles, pw : Passwords, version : 0 .. MaxVersion, plants : SUBSET Plants]
RowsTyped ==
  /\ user \in [Users -> Rows]
  /\ audited \in [Users -> [state : States, role : Roles, deleted : BOOLEAN]]
  /\ asked \in [Users -> SUBSET Plants]
  /\ mixed \subseteq Users
SessionOK(x) ==
  \/ x = A!NoSession
  \/ /\ x.phase \in {"login", "open"} /\ x.of \in Users
     /\ x.version \in Nat /\ x.cut \in BOOLEAN
     /\ x = [phase |-> x.phase, of |-> x.of, version |-> x.version,
             pw |-> x.pw, role |-> x.role, cut |-> x.cut]
SessionsTyped == session = [s \in Sessions |-> session[s]] /\ \A s \in Sessions : SessionOK(session[s])
ArgOK(op, arg) ==
  /\ op = "role" => arg \in Roles
  /\ op \in {"password", "changePassword"} => arg \in Passwords
  /\ op \in {"plants", "create"} => arg \in SUBSET Plants
RequestOK(q) ==
  \/ q = A!NoRequest
  \/ /\ q.op \in Ops
     /\ q.step \in {"read", "write", "audit"}
     /\ q.on \in Users
     /\ ArgOK(q.op, q.arg)
     /\ q.step = "read" =>
          /\ q.by \in Users
          /\ q = [op |-> q.op, step |-> q.step, by |-> q.by, on |-> q.on, arg |-> q.arg]
     /\ q.step # "read" =>
          /\ q.seen \in SUBSET Plants /\ q.seenActive \in BOOLEAN
          /\ q = [op |-> q.op, on |-> q.on, arg |-> q.arg, seen |-> q.seen,
                  seenActive |-> q.seenActive, step |-> q.step]
RequestsTyped == request = [r \in Requests |-> request[r]] /\ \A r \in Requests : RequestOK(request[r])
Typed == RowsTyped /\ SessionsTyped /\ RequestsTyped

Open(r) == request[r].op # "none"
CreatesAlone ==
  \A r, o \in Requests :
    /\ Open(r) /\ Open(o) /\ request[r].on = request[o].on
    /\ request[r].op = "create" /\ request[r].step # "audit"
    => r = o /\ user[request[r].on].state = "none"
TokenOK(x, row) ==
  /\ row.state # "none"
  /\ x.version <= row.version
  /\ x.version = row.version => x.pw = row.pw /\ x.role = row.role
  /\ x.cut => x.version < row.version \/ row.state \in {"inactive", "gone"}
TokensInv ==
  \A s \in Sessions : session[s].phase # "none" => TokenOK(session[s], user[session[s].of])
RemoveInv ==
  /\ A!RemovalIsAudited
  /\ \A r \in Requests : request[r].op = "remove" /\ request[r].step = "write" =>
       audited[request[r].on].deleted
OwnerInv == \A o \in Users : Owners = {o} =>
    /\ user[o].state = "active"
    /\ \A r \in Requests : Open(r) /\ request[r].on = o =>
         /\ request[r].op # "create"
         /\ request[r].step # "read" => request[r].op \in {"changePassword", "plants"}

\* What an account, its entries and the requests on it have to do with each
\* other as long as requests came to it one by one and none died before its entry.
Works(r, u) == Open(r) /\ request[r].on = u
Tells(row, log) == log.role = row.role /\ (log.deleted \/ log.state = row.state)
During(q, row, log) ==
  /\ (q.step # "audit" \/ q.op = "remove") => Tells(row, log)
  /\ q.step = "audit" =>
       /\ IF q.op = "role" THEN q.arg = row.role ELSE log.role = row.role
       /\ q.op = "toggle" => row.state = IF q.seenActive THEN "inactive" ELSE "active"
       /\ q.op = "create" => row.state = "active"
       /\ q.op \notin {"toggle", "create"} => log.deleted \/ log.state = row.state
  /\ q.op = "plants" /\ q.step = "write" => q.seen = row.plants
AccountOK(u) ==
  /\ \A r, o \in Requests : Works(r, u) /\ Works(o, u) => r = o
  /\ user[u].state = "none" => user[u].role = "ADMIN"
  /\ user[u].plants = asked[u]
  /\ (\A r \in Requests : ~ Works(r, u)) => Tells(user[u], audited[u])
  /\ \A r \in Requests : Works(r, u) => During(request[r], user[u], audited[u])
AccountsInv == \A u \in Users \ mixed : AccountOK(u)

\* The invariant of the accounts holds at first.
LEMMA AccountsStart == A!AccountsAssumption /\ A!Init => Typed /\ CreatesAlone /\ TokensInv /\ RemoveInv /\ OwnerInv /\ AccountsInv
<1> SUFFICES ASSUME A!AccountsAssumption, A!Init PROVE Typed /\ CreatesAlone /\ TokensInv /\ RemoveInv /\ OwnerInv /\ AccountsInv
  OBVIOUS
<1> USE DEF A!AccountsAssumption, A!Init, A!Row, A!NoRequest, A!NoSession
<1>1. RowsTyped BY DEF RowsTyped, Rows, States
<1>2. SessionsTyped BY DEF SessionsTyped, SessionOK
<1>3. RequestsTyped BY DEF RequestsTyped, RequestOK
<1>4. CreatesAlone BY DEF CreatesAlone, Open
<1>5. TokensInv BY DEF TokensInv
<1>6. RemoveInv BY DEF RemoveInv, A!RemovalIsAudited
<1>7. OwnerInv BY DEF OwnerInv, Open
<1>8. AccountsInv BY DEF AccountsInv, AccountOK, Works, Open, Tells
<1> QED BY <1>1, <1>2, <1>3, <1>4, <1>5, <1>6, <1>7, <1>8 DEF Typed

\* A request keeps its types
LEMMA RequestTypes == ASSUME A!AccountsAssumption, Typed, A!Next PROVE RequestsTyped'
<1> USE DEF Typed, RequestsTyped, A!AccountsAssumption, A!Operations
<1> DEFINE Keeps(r) == \E q : RequestOK(q) /\ request' = [request EXCEPT ![r] = q]
<1>0. ASSUME NEW r \in Requests, Keeps(r) PROVE RequestsTyped'
  <2>1. PICK q : RequestOK(q) /\ request' = [request EXCEPT ![r] = q] BY <1>0
  <2>2. \A x \in Requests : request'[x] = IF x = r THEN q ELSE request[x] BY <2>1
  <2>3. request' = [x \in Requests |-> request'[x]] BY <2>1
  <2>4. \A x : RequestOK(x)' <=> RequestOK(x) BY DEF RequestOK
  <2> QED BY <2>1, <2>2, <2>3 DEF RequestOK, ArgOK
<1>1. RequestOK(A!NoRequest) BY DEF RequestOK
<1>2. ASSUME NEW r \in Requests, A!Answer(r) PROVE Keeps(r)
  BY <1>1, <1>2 DEF A!Answer
<1>3. ASSUME UNCHANGED request PROVE RequestsTyped'
  BY <1>3 DEF RequestOK, ArgOK
<1>4. ASSUME NEW s \in Sessions, A!LoginIssue(s) \/ \E u \in Users : A!LoginRead(s, u) PROVE RequestsTyped'
  BY <1>3, <1>4 DEF A!LoginRead, A!LoginIssue
<1>5. ASSUME NEW r \in Requests, NEW s \in Sessions, NEW op \in Ops, NEW u \in Users,
             NEW arg \in A!Args(op), A!Begin(r, s, op, u, arg)
      PROVE  RequestsTyped'
  <2>1. ArgOK(op, arg) BY DEF ArgOK, A!Args
  <2>2. session[s].of \in Users
    BY <1>5 DEF SessionsTyped, SessionOK, A!Begin, A!Accepted, A!NoSession
  <2>3. RequestOK([op |-> op, step |-> "read", by |-> session[s].of, on |-> u, arg |-> arg])
    BY <2>1, <2>2 DEF RequestOK
  <2> QED BY <1>0, <1>5, <2>3 DEF A!Begin
<1>6. ASSUME NEW r \in Requests, A!Read(r) PROVE RequestsTyped'
  <2> DEFINE q == request[r]
             n == [op |-> q.op, on |-> q.on, arg |-> q.arg,
                     seen |-> IF q.op = "plants" THEN user[q.on].plants ELSE {},
                     seenActive |-> q.op = "toggle" /\ A!Active(q.on),
                     step |-> IF q.op = "remove" THEN "audit" ELSE "write"]
  <2>1. q.op \in Ops /\ q.on \in Users /\ ArgOK(q.op, q.arg)
    BY <1>6 DEF RequestOK, A!Read, A!NoRequest
  <2>2. RequestOK(n) BY <2>1 DEF RequestOK, RowsTyped, Rows
  <2>3. A!Answer(r) \/ request' = [request EXCEPT ![r] = n] BY <1>6 DEF A!Read
  <2> QED BY <1>0, <1>2, <2>2, <2>3
<1>7. ASSUME NEW r \in Requests, NEW step \in {"write", "audit"}, request[r].op # "none", request[r].step # "read",
             request' = [request EXCEPT ![r].step = step]
      PROVE  RequestsTyped'
  <2>1. RequestOK([request[r] EXCEPT !.step = step])
    BY <1>7 DEF RequestOK, A!NoRequest, ArgOK
  <2> QED BY <1>0, <1>7, <2>1
<1>8. ASSUME NEW r \in Requests, A!Write(r) PROVE RequestsTyped'
  BY <1>7, <1>8 DEF A!Write
<1>9. ASSUME NEW r \in Requests, A!WriteFails(r) \/ A!Delete(r) \/ A!Drop(r) PROVE RequestsTyped'
  BY <1>0, <1>2, <1>9 DEF A!WriteFails, A!Delete, A!Drop
<1>10. ASSUME NEW r \in Requests, A!Audit(r) PROVE RequestsTyped'
  <2>1. /\ request[r].op # "none" /\ request[r].step = "audit"
        /\ \/ request' = [request EXCEPT ![r].step = "write"]
           \/ A!Answer(r)
    BY <1>10 DEF A!Audit
  <2>2. CASE A!Answer(r)
    BY <1>0, <1>2, <2>2
  <2>3. CASE request' = [request EXCEPT ![r].step = "write"]
    <3>1. request[r].step # "read"
      BY <2>1
    <3> QED BY <1>7, <2>1, <2>3, <3>1
  <2> QED BY <2>1, <2>2, <2>3
<1> QED BY <1>4, <1>5, <1>6, <1>8, <1>9, <1>10 DEF A!Next

\* What the update statement of an operation leaves in the row.
LEMMA NewRowFields ==
  ASSUME NEW q, NEW row \in Rows
  PROVE  LET new == A!NewRow(q, row)
         IN  /\ q.op = "toggle" => new.state = IF q.seenActive THEN "inactive" ELSE "active"
             /\ q.op = "role" => new.role = q.arg
             /\ q.op \in {"password", "changePassword"} => new.pw = q.arg
             /\ q.op = "plants" => new.plants = (row.plants \ (q.seen \ q.arg)) \union (q.arg \ q.seen)
             /\ q.op = "create" => /\ new.state = "active" /\ new.role = "ADMIN"
                                  /\ new.version = 0 /\ new.plants = q.arg
             /\ q.op \in {"toggle", "role", "password", "changePassword"} => new.version = row.version + 1
             /\ q.op \notin {"toggle", "create"} => new.state = row.state
             /\ q.op \notin {"role", "create"} => new.role = row.role
             /\ q.op \notin {"password", "changePassword"} => new.pw = row.pw
             /\ q.op \notin {"plants", "create"} => new.plants = row.plants
             /\ q.op \notin {"toggle", "role", "password", "changePassword", "create"} =>
                  new.version = row.version
             /\ new = [state |-> new.state, role |-> new.role, pw |-> new.pw,
                       version |-> new.version, plants |-> new.plants]
<1> USE DEF A!NewRow, Rows
<1>1. CASE q.op = "toggle"
  BY <1>1 DEF A!Toggled
<1>2. CASE q.op = "role"
  BY <1>2 DEF A!RoleSet
<1>3. CASE q.op \in {"password", "changePassword"}
  BY <1>3 DEF A!PasswordSet, A!OwnPasswordSet
<1>4. CASE q.op = "plants"
  BY <1>4 DEF A!PlantsSet
<1>5. CASE q.op = "create"
  BY <1>5 DEF A!Created, A!Row
<1>6. CASE q.op \notin {"toggle", "role", "password", "changePassword", "plants", "create"}
  BY <1>6
<1> QED BY <1>1, <1>2, <1>3, <1>4, <1>5, <1>6

\* The row a request writes is the one of its account, and stays a row.
LEMMA WriteFacts ==
  ASSUME A!AccountsAssumption, Typed, NEW r \in Requests, A!Write(r)
  PROVE  LET q == request[r]
             new == A!NewRow(q, user[q.on])
         IN  /\ q.on \in Users /\ q.op \in A!Operations \ {"remove"} /\ q.step = "write"
             /\ ArgOK(q.op, q.arg) /\ q.seen \in SUBSET Plants /\ q.seenActive \in BOOLEAN
             /\ q.op # "create" => user[q.on].state \in {"active", "inactive"}
             /\ new \in Rows
             /\ user' = [user EXCEPT ![q.on] = new]
             /\ request' = [request EXCEPT ![r].step = "audit"]
<1> DEFINE q == request[r]
           row == user[q.on]
           new == A!NewRow(q, row)
<1>1. /\ q.on \in Users /\ q.op \in A!Operations \ {"remove"} /\ q.step = "write"
      /\ ArgOK(q.op, q.arg) /\ q.seen \in SUBSET Plants /\ q.seenActive \in BOOLEAN
  BY DEF A!Write, Typed, RequestsTyped, RequestOK, A!NoRequest, A!AccountsAssumption, A!Operations
<1>2. row \in Rows
  BY <1>1 DEF Typed, RowsTyped
<1>3. /\ user' = [user EXCEPT ![q.on] = new]
      /\ request' = [request EXCEPT ![r].step = "audit"]
      /\ q.op # "create" => row.state \in {"active", "inactive"}
      /\ row.version < MaxVersion \/ q.op \in {"plants", "create"}
  BY DEF A!Write, A!Exists
<1>4. new \in Rows
  <2>1. /\ new.state \in States /\ new.role \in Roles /\ new.pw \in Passwords
        /\ new.version \in 0 .. MaxVersion /\ new.plants \in SUBSET Plants
        /\ new = [state |-> new.state, role |-> new.role, pw |-> new.pw,
                  version |-> new.version, plants |-> new.plants]
    <3>1. /\ row.state \in States /\ row.role \in Roles /\ row.pw \in Passwords
          /\ row.version \in 0 .. MaxVersion /\ row.plants \in SUBSET Plants
      BY <1>2 DEF Rows
    <3>2. MaxVersion \in Nat /\ "ADMIN" \in Roles
      BY DEF A!AccountsAssumption
    <3> HIDE DEF row, q, new
    <3>3. new.state \in States
      BY <1>1, <1>2, <3>1, NewRowFields DEF States, new
    <3>4. new.role \in Roles
      BY <1>1, <1>2, <3>1, <3>2, NewRowFields DEF ArgOK, new
    <3>5. new.pw \in Passwords
      BY <1>1, <1>2, <3>1, NewRowFields DEF ArgOK, new
    <3>6. new.version \in 0 .. MaxVersion
      <4>1. /\ q.op \in {"toggle", "role", "password", "changePassword"} => new.version = row.version + 1
            /\ q.op = "create" => new.version = 0
            /\ q.op = "plants" => new.version = row.version
        BY <1>2, NewRowFields DEF new
      <4>2. q.op \in {"toggle", "role", "password", "changePassword", "plants", "create"}
        BY <1>1 DEF A!Operations
      <4> QED BY <1>3, <3>1, <3>2, <4>1, <4>2
    <3>7. new.plants \in SUBSET Plants
      <4>1. /\ q.op = "plants" => new.plants = (row.plants \ (q.seen \ q.arg)) \union (q.arg \ q.seen)
            /\ q.op = "create" => new.plants = q.arg
            /\ q.op \notin {"plants", "create"} => new.plants = row.plants
        BY <1>2, NewRowFields DEF new
      <4>2. q.op \in {"plants", "create"} => q.arg \in SUBSET Plants
        BY <1>1 DEF ArgOK
      <4> QED BY <1>1, <3>1, <4>1, <4>2
    <3> QED BY <1>2, <3>3, <3>4, <3>5, <3>6, <3>7, NewRowFields DEF new
  <2> HIDE DEF new
  <2> QED BY <2>1 DEF Rows
<1> QED BY <1>1, <1>3, <1>4

\* The rows of the accounts keep their types.
LEMMA RowTypes == ASSUME A!AccountsAssumption, Typed, A!Next PROVE RowsTyped'
<1> USE DEF Typed
<1>1. ASSUME UNCHANGED <<user, audited, asked>>, mixed' \subseteq Users PROVE RowsTyped'
  BY <1>1 DEF RowsTyped
<1>2. ASSUME NEW s \in Sessions, A!LoginIssue(s) \/ \E u \in Users : A!LoginRead(s, u) PROVE RowsTyped'
  BY <1>1, <1>2 DEF A!LoginRead, A!LoginIssue, RowsTyped
<1>3. ASSUME NEW r \in Requests, NEW s \in Sessions, NEW op \in Ops, NEW u \in Users,
             NEW arg \in A!Args(op), A!Begin(r, s, op, u, arg)
      PROVE  RowsTyped'
  BY <1>1, <1>3 DEF A!Begin, RowsTyped
<1>4. ASSUME NEW r \in Requests, A!Read(r) \/ A!WriteFails(r) PROVE RowsTyped'
  BY <1>1, <1>4 DEF A!Read, A!WriteFails, RowsTyped
<1>5. ASSUME NEW r \in Requests, A!Drop(r) PROVE RowsTyped'
  BY <1>1, <1>5 DEF A!Drop, RowsTyped, RequestsTyped, RequestOK
<1>6. ASSUME NEW r \in Requests, A!Write(r) PROVE RowsTyped'
  <2>1. user' \in [Users -> Rows]
    BY <1>6, WriteFacts DEF RowsTyped
  <2>2. asked' \in [Users -> SUBSET Plants] /\ UNCHANGED <<audited, mixed>>
    BY <1>6, WriteFacts DEF A!Write, RowsTyped, ArgOK
  <2> QED BY <2>1, <2>2 DEF RowsTyped
<1>7. ASSUME NEW r \in Requests, A!Audit(r) PROVE RowsTyped'
  <2> DEFINE q == request[r]
             wrote == A!NewRow(q, user[q.on])
  <2>1. q.on \in Users /\ q.op \in A!Operations /\ ArgOK(q.op, q.arg)
    BY <1>7 DEF A!Audit, RequestsTyped, RequestOK, A!NoRequest, A!AccountsAssumption, A!Operations
  <2>2. user[q.on] \in Rows /\ audited[q.on] \in [state : States, role : Roles, deleted : BOOLEAN]
    BY <2>1 DEF RowsTyped
  <2>3. q.op \in {"toggle", "create"} => wrote.state \in States
    <3>1. q.op \in {"toggle", "create"} => wrote.state \in {"active", "inactive"}
      BY <2>2, NewRowFields
    <3> QED BY <3>1 DEF States
  <2>4. q.op = "role" => wrote.role \in Roles
    BY <2>1, <2>2, NewRowFields DEF ArgOK
  <2> HIDE DEF wrote
  <2>5. audited' \in [Users -> [state : States, role : Roles, deleted : BOOLEAN]]
    BY <1>7, <2>1, <2>2, <2>3, <2>4 DEF A!Audit, RowsTyped, wrote
  <2> QED BY <1>7, <2>5 DEF A!Audit, RowsTyped
<1>8. ASSUME NEW r \in Requests, A!Delete(r) PROVE RowsTyped'
  <2>1. request[r].on \in Users
    BY <1>8 DEF A!Delete, RequestsTyped, RequestOK, A!NoRequest
  <2>2. PICK state \in States : user' = [user EXCEPT ![request[r].on].state = state]
    BY <1>8 DEF A!Delete, States
  <2>3. user' \in [Users -> Rows]
    BY <2>1, <2>2 DEF RowsTyped, Rows
  <2> QED BY <1>8, <2>3 DEF A!Delete, RowsTyped
<1> QED BY <1>2, <1>3, <1>4, <1>5, <1>6, <1>7, <1>8 DEF A!Next

\* Cutting off sets a mark on sessions and changes nothing else of them.
LEMMA CutOffFacts ==
  ASSUME Typed, NEW u, NEW s \in Sessions
  PROVE  LET c == A!CutOff(u)[s]
         IN  /\ SessionOK(c)
             /\ session[s].phase # "none" /\ session[s].of = u => c.cut
             /\ ~ (session[s].phase # "none" /\ session[s].of = u) => c = session[s]
             /\ c.phase = session[s].phase
             /\ session[s].phase # "none" => /\ c.of = session[s].of /\ c.version = session[s].version
                                           /\ c.pw = session[s].pw /\ c.role = session[s].role
<1>1. SessionOK(session[s])
  BY DEF Typed, SessionsTyped
<1>2. CASE session[s].phase # "none" /\ session[s].of = u
  <2>1. A!CutOff(u)[s] = [session[s] EXCEPT !.cut = TRUE]
    BY <1>2 DEF A!CutOff
  <2>2. session[s].phase \in {"login", "open"}
    BY <1>1, <1>2 DEF SessionOK, A!NoSession
  <2>3. session[s] = [phase |-> session[s].phase, of |-> session[s].of,
                      version |-> session[s].version, pw |-> session[s].pw,
                      role |-> session[s].role, cut |-> session[s].cut]
    BY <1>1, <1>2 DEF SessionOK, A!NoSession
  <2>4. A!CutOff(u)[s] = [phase |-> session[s].phase, of |-> session[s].of,
                          version |-> session[s].version, pw |-> session[s].pw,
                          role |-> session[s].role, cut |-> TRUE]
    BY <2>1, <2>3
  <2> QED BY <1>1, <1>2, <2>2, <2>4 DEF SessionOK, A!NoSession
<1>3. CASE ~ (session[s].phase # "none" /\ session[s].of = u)
  <2>1. A!CutOff(u)[s] = session[s]
    BY <1>3 DEF A!CutOff
  <2> QED BY <1>1, <1>3, <2>1
<1> QED BY <1>2, <1>3

\* Logins and tokens keep their types.
LEMMA SessionTypes == ASSUME A!AccountsAssumption, Typed, A!Next PROVE SessionsTyped'
<1>0. ASSUME NEW s \in Sessions, NEW x, SessionOK(x), session' = [session EXCEPT ![s] = x]
      PROVE  SessionsTyped'
  BY <1>0 DEF Typed, SessionsTyped, SessionOK
<1>1. ASSUME UNCHANGED session PROVE SessionsTyped'
  BY <1>1 DEF Typed, SessionsTyped, SessionOK
<1>2. ASSUME NEW u, session' = A!CutOff(u) PROVE SessionsTyped'
  <2>1. session' = [s \in Sessions |-> session'[s]]
    BY <1>2 DEF A!CutOff
  <2>2. \A s \in Sessions : SessionOK(session'[s])
    BY <1>2, CutOffFacts
  <2> QED BY <2>1, <2>2 DEF SessionsTyped, SessionOK
<1>3. ASSUME NEW s \in Sessions, NEW u \in Users, A!LoginRead(s, u) PROVE SessionsTyped'
  <2> DEFINE x == [phase |-> "login", of |-> u, version |-> user[u].version,
                   pw |-> user[u].pw, role |-> user[u].role, cut |-> FALSE]
  <2>1. SessionOK(x)
    BY DEF Typed, RowsTyped, Rows, SessionOK, A!AccountsAssumption
  <2> QED BY <1>0, <1>3, <2>1 DEF A!LoginRead
<1>4. ASSUME NEW s \in Sessions, A!LoginIssue(s) PROVE SessionsTyped'
  <2>1. SessionOK([session[s] EXCEPT !.phase = "open"])
    BY <1>4 DEF A!LoginIssue, Typed, SessionsTyped, SessionOK, A!NoSession
  <2> QED BY <1>0, <1>4, <2>1 DEF A!LoginIssue
<1>5. ASSUME NEW r \in Requests, A!Write(r) \/ A!Delete(r) PROVE SessionsTyped'
  BY <1>1, <1>2, <1>5 DEF A!Write, A!Delete
<1>6. ASSUME NEW r \in Requests, A!Read(r) \/ A!WriteFails(r) \/ A!Audit(r) \/ A!Drop(r)
      PROVE  SessionsTyped'
  BY <1>1, <1>6 DEF A!Read, A!WriteFails, A!Audit, A!Drop
<1>7. ASSUME NEW r \in Requests, NEW s \in Sessions, NEW op \in Ops, NEW u \in Users,
             NEW arg \in A!Args(op), A!Begin(r, s, op, u, arg)
      PROVE  SessionsTyped'
  BY <1>1, <1>7 DEF A!Begin
<1> QED BY <1>3, <1>4, <1>5, <1>6, <1>7 DEF A!Next

\* Every step keeps the types.
LEMMA TypedStep == ASSUME A!AccountsAssumption, Typed, A!Next PROVE Typed'
BY RowTypes, SessionTypes, RequestTypes DEF Typed

\* A request acts alone on the table of requests.
RequestActs(r) ==
  \/ \E s \in Sessions, op \in Ops, u \in Users : \E arg \in A!Args(op) : A!Begin(r, s, op, u, arg)
  \/ A!Read(r) \/ A!Write(r) \/ A!WriteFails(r) \/ A!Audit(r) \/ A!Delete(r) \/ A!Drop(r)

\* A new step leaves a request's other fields.
LEMMA StepSet ==
  ASSUME Typed, NEW r \in Requests, Open(r), NEW step,
         request' = [request EXCEPT ![r].step = step]
  PROVE  /\ \A x \in Requests \ {r} : request'[x] = request[x]
         /\ request'[r].on = request[r].on /\ request'[r].op = request[r].op
         /\ request'[r].step = step
         /\ request[r].step # "read" => /\ request'[r].arg = request[r].arg
                                       /\ request'[r].seen = request[r].seen
                                       /\ request'[r].seenActive = request[r].seenActive
<1> DEFINE q == request[r]
<1>1. /\ \A x \in Requests \ {r} : request'[x] = request[x]
      /\ request'[r] = [q EXCEPT !.step = step]
  BY DEF Typed, RequestsTyped
<1>2. CASE q.step = "read"
  <2>1. q = [op |-> q.op, step |-> q.step, by |-> q.by, on |-> q.on, arg |-> q.arg]
    BY <1>2 DEF Typed, RequestsTyped, RequestOK, Open, A!NoRequest
  <2>2. request'[r] = [op |-> q.op, step |-> step, by |-> q.by, on |-> q.on, arg |-> q.arg]
    BY <1>1, <2>1
  <2> QED BY <1>1, <1>2, <2>2
<1>3. CASE q.step # "read"
  <2>1. q = [op |-> q.op, on |-> q.on, arg |-> q.arg, seen |-> q.seen,
             seenActive |-> q.seenActive, step |-> q.step]
    BY <1>3 DEF Typed, RequestsTyped, RequestOK, Open, A!NoRequest
  <2>2. request'[r] = [op |-> q.op, on |-> q.on, arg |-> q.arg, seen |-> q.seen,
                       seenActive |-> q.seenActive, step |-> step]
    BY <1>1, <2>1
  <2> QED BY <1>1, <2>2
<1> QED BY <1>2, <1>3

\* What a step leaves of the request that takes it.
LEMMA RequestFacts ==
  ASSUME Typed, NEW r \in Requests, RequestActs(r)
  PROVE  /\ \A x \in Requests \ {r} : request'[x] = request[x]
         /\ Open(r)' /\ Open(r) => /\ request'[r].on = request[r].on /\ request'[r].op = request[r].op
                                   /\ request'[r].step # "read"
                                   /\ request[r].step = "audit" => request[r].op = "remove"
         /\ Open(r)' /\ ~ Open(r) => request'[r].step = "read"
<1> USE DEF Typed, RequestsTyped, RequestOK, Open, A!NoRequest
<1>1. CASE A!Read(r)
  BY <1>1 DEF A!Read, A!Answer
<1>2. CASE A!Write(r)
  <2>1. Open(r) /\ request[r].step = "write" /\ request' = [request EXCEPT ![r].step = "audit"]
    BY <1>2 DEF A!Write
  <2> QED BY StepSet, <2>1
<1>3. CASE A!WriteFails(r)
  BY <1>3 DEF A!WriteFails, A!Answer
<1>4. CASE A!Audit(r)
  <2>1. /\ Open(r) /\ request[r].step = "audit"
        /\ IF request[r].op = "remove" THEN request' = [request EXCEPT ![r].step = "write"] ELSE A!Answer(r)
    BY <1>4 DEF A!Audit
  <2>2. CASE request[r].op = "remove"
    BY StepSet, <2>1, <2>2
  <2>3. CASE request[r].op # "remove"
    BY <2>1, <2>3 DEF A!Answer
  <2> QED BY <2>2, <2>3
<1>5. CASE A!Delete(r)
  BY <1>5 DEF A!Delete, A!Answer
<1>6. CASE A!Drop(r)
  BY <1>6 DEF A!Drop, A!Answer
<1>7. CASE \E s \in Sessions, op \in Ops, u \in Users : \E arg \in A!Args(op) : A!Begin(r, s, op, u, arg)
  BY <1>7 DEF A!Begin
<1> QED BY <1>1, <1>2, <1>3, <1>4, <1>5, <1>6, <1>7 DEF RequestActs

\* A step is of a login or of one request.
LEMMA NextCases ==
  ASSUME A!Next
  PROVE  \/ \E s \in Sessions : /\ A!LoginIssue(s) \/ \E u \in Users : A!LoginRead(s, u)
                               /\ UNCHANGED <<user, request, audited, asked, mixed>>
         \/ \E r \in Requests : RequestActs(r)
BY DEF A!Next, RequestActs, A!LoginIssue, A!LoginRead

\* While an account is being created nobody else works on it.
LEMMA CreatesStep == ASSUME A!AccountsAssumption, Typed, CreatesAlone, A!Next PROVE CreatesAlone'
<1>1. CASE UNCHANGED <<user, request>>
  BY <1>1 DEF CreatesAlone, Open
<1>2. ASSUME NEW r \in Requests, RequestActs(r) PROVE CreatesAlone'
  <2> SUFFICES ASSUME NEW x \in Requests, NEW o \in Requests, Open(x)', Open(o)',
                      request'[x].on = request'[o].on, request'[x].op = "create",
                      request'[x].step # "audit"
               PROVE  x = o /\ user'[request'[x].on].state = "none"
    BY DEF CreatesAlone
  <2>0. /\ \A y \in Requests \ {r} : request'[y] = request[y]
        /\ Open(r)' /\ Open(r) => /\ request'[r].on = request[r].on /\ request'[r].op = request[r].op
                                  /\ request'[r].step # "read"
                                  /\ request[r].step = "audit" => request[r].op = "remove"
        /\ Open(r)' /\ ~ Open(r) => request'[r].step = "read"
    BY <1>2, RequestFacts
  <2>1. ASSUME NEW s \in Sessions, NEW op \in Ops, NEW u \in Users, NEW arg \in A!Args(op),
               A!Begin(r, s, op, u, arg)
        PROVE  x = o /\ user'[request'[x].on].state = "none"
    <3>1. /\ request'[r].op = op /\ request'[r].on = u /\ ~ Open(r) /\ UNCHANGED user
          /\ (op = "create") = (user[u].state = "none")
          /\ op = "create" => \A y \in Requests : ~ (Open(y) /\ request[y].on = u)
      BY <2>1 DEF A!Begin, A!Busy, Typed, RequestsTyped, A!NoRequest, Open
    <3> QED BY <3>1, <2>0 DEF CreatesAlone, Open
  <2>2. CASE UNCHANGED user /\ Open(r)
    <3>1. Open(x) /\ request[x].on = request'[x].on /\ request[x].op = "create" /\ request[x].step # "audit"
      BY <2>2, <2>0 DEF Open
    <3>2. Open(o) /\ request[o].on = request'[o].on
      BY <2>2, <2>0 DEF Open
    <3> QED BY <3>1, <3>2, <2>2 DEF CreatesAlone
  <2>3. CASE A!Write(r)
    <3>1. request[r].on \in Users /\ request[r].op \in A!Operations
          /\ user' = [user EXCEPT ![request[r].on] = A!NewRow(request[r], user[request[r].on])]
          /\ request' = [request EXCEPT ![r].step = "audit"]
      BY <2>3, WriteFacts
    <3>2. /\ Open(r) /\ request'[r].step = "audit" /\ Open(r)'
      <4>1. Open(r) /\ request[r].step = "write"
        BY <2>3 DEF Open, A!Write
      <4>2. request'[r].step = "audit" /\ request'[r].op = request[r].op
        BY <3>1, <4>1, StepSet
      <4> QED BY <4>1, <4>2 DEF Open
    <3>6. \A u \in Users \ {request[r].on} : user'[u] = user[u]
      BY <3>1 DEF Typed, RowsTyped
    <3>3. x # r /\ o = r => request[x].on = request[r].on
      BY <2>0, <3>2
    <3>4. x # r /\ Open(x) /\ request[x].op = "create" /\ request[x].step # "audit" /\ request[x].on \in Users
      BY <2>0, <3>2 DEF Open, Typed, RequestsTyped, RequestOK, A!NoRequest
    <3>5. request[x].on # request[r].on
      BY <3>2, <3>4 DEF CreatesAlone
    <3> QED BY <3>2, <3>3, <3>4, <3>5, <3>6, <2>0 DEF CreatesAlone, Open
  <2>4. CASE A!Delete(r)
    <3>1. Open(r) /\ ~Open(r)' /\ request[r].on \in Users /\ user[request[r].on].state # "none"
          /\ \A u \in Users \ {request[r].on} : user'[u] = user[u]
      BY <2>4 DEF A!Delete, Open, A!Answer, A!NoRequest, A!Exists, Typed, RequestsTyped, RowsTyped, RequestOK
    <3> QED BY <3>1, <2>0 DEF CreatesAlone, Open, Typed, RowsTyped, RequestsTyped, RequestOK, A!NoRequest
  <2>5. A!Read(r) \/ A!WriteFails(r) \/ A!Audit(r) \/ A!Drop(r) => UNCHANGED user /\ Open(r)
    BY DEF A!Read, A!WriteFails, A!Audit, A!Drop, Open, Typed, RequestsTyped, RequestOK, A!AccountsAssumption, A!Operations
  <2> QED BY <1>2, <2>1, <2>2, <2>3, <2>4, <2>5 DEF RequestActs
<1> QED BY <1>1, <1>2, NextCases

\* Every login and token stays as its account's row lets it be.
LEMMA TokensStep == ASSUME A!AccountsAssumption, Typed, CreatesAlone, TokensInv, A!Next PROVE TokensInv'
<1>0. \A x, row : TokenOK(x, row)' <=> TokenOK(x, row)
  OBVIOUS
<1>1. ASSUME UNCHANGED <<user, session>> PROVE TokensInv'
  BY <1>1 DEF TokensInv, TokenOK
<1>2. ASSUME NEW s \in Sessions, NEW u \in Users, A!LoginRead(s, u) PROVE TokensInv'
  <2>1. user[u].version \in Nat /\ user[u].state = "active"
    BY <1>2 DEF A!LoginRead, A!Active, Typed, RowsTyped, Rows, A!AccountsAssumption
  <2>2. /\ session'[s] = [phase |-> "login", of |-> u, version |-> user[u].version,
                          pw |-> user[u].pw, role |-> user[u].role, cut |-> FALSE]
        /\ \A x \in Sessions \ {s} : session'[x] = session[x]
        /\ UNCHANGED user
    BY <1>2 DEF A!LoginRead, Typed, SessionsTyped
  <2>3. TokenOK(session'[s], user'[u]) /\ session'[s].of = u
    BY <2>1, <2>2 DEF TokenOK
  <2> QED BY <2>2, <2>3 DEF TokensInv, TokenOK
<1>3. ASSUME NEW s \in Sessions, A!LoginIssue(s) PROVE TokensInv'
  <2> DEFINE x == session[s]
  <2>1. /\ session'[s] = [x EXCEPT !.phase = "open"]
        /\ \A y \in Sessions \ {s} : session'[y] = session[y]
        /\ UNCHANGED user
        /\ x.phase = "login"
    BY <1>3 DEF A!LoginIssue, Typed, SessionsTyped
  <2>2. x = [phase |-> x.phase, of |-> x.of, version |-> x.version,
             pw |-> x.pw, role |-> x.role, cut |-> x.cut]
    BY <2>1 DEF Typed, SessionsTyped, SessionOK, A!NoSession
  <2>3. session'[s] = [phase |-> "open", of |-> x.of, version |-> x.version,
                       pw |-> x.pw, role |-> x.role, cut |-> x.cut]
    BY <2>1, <2>2
  <2>4. TokenOK(x, user[x.of])
    BY <2>1 DEF TokensInv
  <2> HIDE DEF x
  <2>5. TokenOK(session'[s], user'[x.of]) /\ session'[s].of = x.of
    BY <2>1, <2>3, <2>4 DEF TokenOK
  <2>6. ASSUME NEW y \in Sessions, session'[y].phase # "none"
        PROVE  TokenOK(session'[y], user'[session'[y].of])
    <3>1. CASE y = s
      BY <2>5, <3>1
    <3>2. CASE y # s
      BY <2>1, <2>6, <3>2 DEF TokensInv
    <3> QED BY <3>1, <3>2
  <2> QED BY <2>6 DEF TokensInv, TokenOK
\* A write that goes past a token gives the row a newer version, or leaves what
\* the token was given for.
<1>4. ASSUME NEW r \in Requests, A!Write(r) PROVE TokensInv'
  <2> SUFFICES ASSUME NEW s \in Sessions, session'[s].phase # "none"
               PROVE  TokenOK(session'[s], user'[session'[s].of])
    BY DEF TokensInv, TokenOK
  <2> DEFINE q == request[r]
             row == user[q.on]
             new == A!NewRow(q, row)
             x == session[s]
  <2>1. /\ q.on \in Users /\ q.op \in A!Operations \ {"remove"} /\ q.step = "write"
        /\ q.op # "create" => row.state \in {"active", "inactive"}
        /\ new \in Rows /\ row \in Rows
        /\ user' = [user EXCEPT ![q.on] = new]
    BY <1>4, WriteFacts DEF Typed, RowsTyped
  <2>2. /\ user'[q.on] = new
        /\ \A u \in Users \ {q.on} : user'[u] = user[u]
    BY <2>1 DEF Typed, RowsTyped
  <2>3. session' = IF new.state = "inactive" THEN A!CutOff(q.on) ELSE session
    BY <1>4, <2>2 DEF A!Write
  <2>4. /\ session'[s].phase = x.phase /\ session'[s].of = x.of /\ session'[s].version = x.version
        /\ session'[s].pw = x.pw /\ session'[s].role = x.role
        /\ x.of # q.on \/ new.state # "inactive" => session'[s].cut = x.cut
    <3>1. CASE new.state = "inactive"
      BY <2>3, <3>1, CutOffFacts
    <3>2. CASE new.state # "inactive"
      BY <2>3, <3>2
    <3> QED BY <3>1, <3>2
  <2>5. x.of \in Users /\ x.version \in Nat /\ TokenOK(x, user[x.of])
    BY <2>4 DEF TokensInv, Typed, SessionsTyped, SessionOK, A!NoSession
  <2>6. CASE x.of # q.on
    BY <2>2, <2>4, <2>5, <2>6 DEF TokenOK
  <2>7. CASE x.of = q.on
    <3>1. row.state # "none"
      BY <2>5, <2>7 DEF TokenOK
    <3>2. q.op # "create"
      BY <2>1, <3>1 DEF CreatesAlone, Open
    <3>3. q.op \in {"toggle", "role", "password", "changePassword", "plants"}
      BY <2>1, <3>2 DEF A!Operations
    <3>4. /\ q.op # "plants" => new.version = row.version + 1
          /\ q.op = "plants" => /\ new.version = row.version /\ new.state = row.state
                                /\ new.pw = row.pw /\ new.role = row.role
          /\ new.state \in {"active", "inactive"}
      BY <2>1, <3>2, <3>3, NewRowFields
    <3>5. row.version \in Nat
      BY <2>1 DEF Rows, A!AccountsAssumption
    <3>6. user'[session'[s].of] = new /\ user[x.of] = row
      BY <2>2, <2>4, <2>7
    <3> HIDE DEF new, row, q, x
    <3>7. CASE q.op # "plants"
      BY <2>4, <2>5, <3>4, <3>5, <3>6, <3>7 DEF TokenOK
    <3>8. CASE q.op = "plants"
      BY <2>4, <2>5, <2>7, <3>4, <3>5, <3>6, <3>8 DEF TokenOK
    <3> QED BY <3>7, <3>8
  <2> QED BY <2>6, <2>7
<1>5. ASSUME NEW r \in Requests, A!Delete(r) PROVE TokensInv'
  <2> SUFFICES ASSUME NEW s \in Sessions, session'[s].phase # "none"
               PROVE  TokenOK(session'[s], user'[session'[s].of])
    BY DEF TokensInv, TokenOK
  <2> DEFINE on == request[r].on
             x == session[s]
  <2>1. on \in Users /\ session' = A!CutOff(on)
    BY <1>5 DEF A!Delete, Typed, RequestsTyped, RequestOK, A!NoRequest
  <2>2. PICK state \in {"inactive", "gone"} : user' = [user EXCEPT ![on].state = state]
    BY <1>5 DEF A!Delete
  <2>3. /\ user'[on].state \in {"inactive", "gone"} /\ user'[on].version = user[on].version
        /\ user'[on].pw = user[on].pw /\ user'[on].role = user[on].role
        /\ \A u \in Users \ {on} : user'[u] = user[u]
    BY <2>1, <2>2 DEF Typed, RowsTyped, Rows
  <2>4. /\ session'[s].phase = x.phase /\ session'[s].of = x.of /\ session'[s].version = x.version
        /\ session'[s].pw = x.pw /\ session'[s].role = x.role
        /\ x.of # on => session'[s].cut = x.cut
    BY <2>1, CutOffFacts
  <2>5. x.of \in Users /\ TokenOK(x, user[x.of])
    BY <2>4 DEF TokensInv, Typed, SessionsTyped, SessionOK, A!NoSession
  <2> QED BY <2>3, <2>4, <2>5 DEF TokenOK
<1>6. ASSUME NEW r \in Requests, A!Read(r) \/ A!WriteFails(r) \/ A!Audit(r) \/ A!Drop(r)
      PROVE  TokensInv'
  BY <1>1, <1>6 DEF A!Read, A!WriteFails, A!Audit, A!Drop
<1>7. ASSUME NEW r \in Requests, NEW s \in Sessions, NEW op \in Ops, NEW u \in Users,
             NEW arg \in A!Args(op), A!Begin(r, s, op, u, arg)
      PROVE  TokensInv'
  BY <1>1, <1>7 DEF A!Begin
<1> QED BY <1>2, <1>3, <1>4, <1>5, <1>6, <1>7 DEF A!Next

\* A removal under way past its entry has it, and so has a row that is gone.
LEMMA RemoveStep == ASSUME A!AccountsAssumption, Typed, CreatesAlone, RemoveInv, A!Next PROVE RemoveInv'
<1>1. \A u \in Users : audited[u].deleted => audited'[u].deleted
  <2>1. CASE UNCHANGED audited
    BY <2>1
  <2>2. ASSUME NEW r \in Requests, A!Audit(r)
        PROVE  \A u \in Users : audited[u].deleted => audited'[u].deleted
    BY <2>2 DEF A!Audit, Typed, RowsTyped
  <2> QED BY <2>1, <2>2 DEF A!Next, A!LoginRead, A!LoginIssue, A!Begin, A!Read, A!Write, A!WriteFails, A!Delete, A!Drop
<1>2. \A u \in Users : user'[u].state = "gone" => audited'[u].deleted
  <2>1. CASE UNCHANGED user
    BY <1>1, <2>1 DEF RemoveInv, A!RemovalIsAudited
  <2>2. ASSUME NEW r \in Requests, A!Write(r)
        PROVE  \A u \in Users : user'[u].state = "gone" => audited'[u].deleted
    <3> DEFINE q == request[r]
               row == user[q.on]
               new == A!NewRow(q, row)
    <3>1. /\ q.on \in Users /\ row \in Rows /\ q.op \in A!Operations \ {"remove"}
          /\ q.op # "create" => row.state \in {"active", "inactive"}
          /\ user' = [user EXCEPT ![q.on] = new]
      BY <2>2, WriteFacts DEF Typed, RowsTyped
    <3>2. new.state # "gone"
      BY <3>1, NewRowFields
    <3>3. user'[q.on] = new /\ \A u \in Users \ {q.on} : user'[u] = user[u]
      BY <3>1 DEF Typed, RowsTyped
    <3> HIDE DEF new, q
    <3> QED BY <1>1, <3>2, <3>3 DEF RemoveInv, A!RemovalIsAudited
  <2>3. ASSUME NEW r \in Requests, A!Delete(r)
        PROVE  \A u \in Users : user'[u].state = "gone" => audited'[u].deleted
    <3>1. \A u \in Users \ {request[r].on} : user'[u] = user[u]
      BY <2>3 DEF A!Delete, Typed, RowsTyped
    <3>2. request[r].op = "remove" /\ request[r].step = "write"
      BY <2>3 DEF A!Delete
    <3> QED BY <1>1, <3>1, <3>2 DEF RemoveInv, A!RemovalIsAudited
  <2> QED BY <2>1, <2>2, <2>3 DEF A!Next, A!LoginRead, A!LoginIssue, A!Begin, A!Read, A!WriteFails, A!Audit, A!Drop
<1>3. ASSUME NEW x \in Requests, request'[x].op = "remove", request'[x].step = "write"
      PROVE  audited'[request'[x].on].deleted
  <2>1. CASE UNCHANGED request
    BY <1>1, <1>3, <2>1 DEF RemoveInv, Typed, RequestsTyped, RequestOK, A!NoRequest
  <2>2. ASSUME NEW r \in Requests, RequestActs(r)
        PROVE  audited'[request'[x].on].deleted
    <3>1. CASE x # r
      BY <1>1, <1>3, <2>2, <3>1, RequestFacts DEF RemoveInv, Typed, RequestsTyped, RequestOK, A!NoRequest
    <3>2. CASE x = r /\ A!Audit(r)
      <4> DEFINE on == request[r].on
      <4>1. on \in Users /\ request[r].op = "remove" /\ request'[r].on = on
        <5>1. Open(r)' /\ Open(r)
          BY <1>3, <3>2 DEF Open, A!Audit
        <5> QED BY <1>3, <2>2, <3>2, <5>1, RequestFacts DEF Typed, RequestsTyped, RequestOK, Open, A!NoRequest
      <4>2. audited'[on].deleted
        BY <3>2, <4>1 DEF A!Audit, Typed, RowsTyped
      <4> QED BY <3>2, <4>1, <4>2
    <3>3. CASE x = r /\ ~ A!Audit(r)
      <4>1. CASE A!Read(r) \/ A!WriteFails(r) \/ A!Delete(r) \/ A!Drop(r)
        BY <1>3, <3>3, <4>1 DEF A!Read, A!WriteFails, A!Delete, A!Drop, A!Answer, Typed, RequestsTyped, A!NoRequest
      <4>2. CASE A!Write(r)
        <5>1. Open(r) /\ request[r].op # "remove"
          BY <4>2, WriteFacts DEF A!Write, Open
        <5> QED BY <1>3, <3>3, <4>2, <5>1, StepSet DEF A!Write
      <4>3. CASE \E s \in Sessions, op \in Ops, u \in Users : \E arg \in A!Args(op) : A!Begin(r, s, op, u, arg)
        BY <1>3, <3>3, <4>3 DEF A!Begin, Typed, RequestsTyped
      <4> QED BY <2>2, <3>3, <4>1, <4>2, <4>3 DEF RequestActs
    <3> QED BY <3>1, <3>2, <3>3
  <2> QED BY <2>1, <2>2, NextCases
<1> QED BY <1>2, <1>3 DEF RemoveInv, A!RemovalIsAudited

\* Nobody else works on the only owner's account but to change its plants or password.
LEMMA OwnerStep == ASSUME A!AccountsAssumption, Typed, OwnerInv, A!Next PROVE OwnerInv'
<1> SUFFICES ASSUME NEW o \in Users, Owners = {o}
             PROVE  /\ user'[o].state = "active"
                    /\ \A x \in Requests : Open(x)' /\ request'[x].on = o =>
                         /\ request'[x].op # "create"
                         /\ request'[x].step # "read" => request'[x].op \in {"changePassword", "plants"}
  BY DEF OwnerInv
<1>1. /\ user[o].state = "active"
      /\ \A x \in Requests : Open(x) /\ request[x].on = o =>
           /\ request[x].op # "create"
           /\ request[x].step # "read" => request[x].op \in {"changePassword", "plants"}
  BY DEF OwnerInv
<1>2. CASE UNCHANGED <<user, request>>
  BY <1>1, <1>2 DEF Open
<1>3. ASSUME NEW r \in Requests, RequestActs(r)
      PROVE  user'[o].state = "active"
  <2>1. CASE A!Write(r)
    <3> DEFINE q == request[r]
               row == user[q.on]
               new == A!NewRow(q, row)
    <3>1. /\ q.on \in Users /\ row \in Rows /\ q.op # "none" /\ q.step = "write"
          /\ user' = [user EXCEPT ![q.on] = new]
      BY <2>1, WriteFacts DEF Typed, RowsTyped, A!Write
    <3>2. q.on = o => new.state = "active"
      <4>1. q.on = o => q.op \in {"changePassword", "plants"} /\ row.state = "active"
        BY <1>1, <3>1 DEF Open
      <4>2. q.op \in {"changePassword", "plants"} => new.state = row.state
        BY <3>1, NewRowFields
      <4> QED BY <4>1, <4>2
    <3> HIDE DEF new, q
    <3> QED BY <1>1, <3>1, <3>2 DEF Typed, RowsTyped
  <2>2. CASE A!Delete(r)
    <3>1. request[r].on # o
      BY <1>1, <2>2 DEF A!Delete, Open
    <3> QED BY <1>1, <2>2, <3>1 DEF A!Delete, Typed, RowsTyped
  <2> QED BY <1>1, <1>3, <2>1, <2>2 DEF RequestActs, A!Begin, A!Read, A!WriteFails, A!Audit, A!Drop
<1>4. ASSUME NEW r \in Requests, RequestActs(r), NEW x \in Requests, Open(x)', request'[x].on = o
      PROVE  /\ request'[x].op # "create"
             /\ request'[x].step # "read" => request'[x].op \in {"changePassword", "plants"}
  <2>1. CASE x # r
    BY <1>1, <1>4, <2>1, RequestFacts DEF Open
  <2>2. CASE x = r /\ \E s \in Sessions, op \in Ops, u \in Users : \E arg \in A!Args(op) : A!Begin(r, s, op, u, arg)
    BY <1>1, <1>4, <2>2 DEF A!Begin, Typed, RequestsTyped
  <2>3. CASE x = r /\ A!Read(r)
    <3>1. /\ Open(r) /\ request[r].step = "read"
          /\ request'[r].on = request[r].on /\ request'[r].op = request[r].op
      BY <1>4, <2>3, RequestFacts DEF A!Read, Open
    <3>2. request[r].op # "changePassword" => A!CanManage(request[r].by, o, request[r].op = "plants")
      BY <1>1, <1>4, <2>3, <3>1 DEF A!Read, A!Answer, A!NoRequest, Open, Typed, RequestsTyped
    <3> QED BY <1>1, <1>4, <2>3, <3>1, <3>2 DEF A!CanManage
  <2>4. CASE x = r /\ (A!Write(r) \/ A!WriteFails(r) \/ A!Audit(r) \/ A!Delete(r) \/ A!Drop(r))
    <3>1. (request[r].step # "read" /\ Open(r)) \/ ~ Open(r)'
      BY <2>4 DEF A!Write, A!WriteFails, A!Audit, A!Delete, A!Drop, A!Answer, Open, Typed, RequestsTyped, A!NoRequest
    <3> QED BY <1>1, <1>4, <2>4, <3>1, RequestFacts DEF Open
  <2> QED BY <1>4, <2>1, <2>2, <2>3, <2>4 DEF RequestActs
<1> QED BY <1>1, <1>2, <1>3, <1>4, NextCases

\* Requests on one account leave the others, their entries and the requests on
\* them alone.
LEMMA OthersKept ==
  ASSUME A!AccountsAssumption, Typed, NEW r \in Requests, RequestActs(r), NEW u \in Users, AccountOK(u),
         ~ Works(r, u), ~ Works(r, u)'
  PROVE  AccountOK(u)'
<1>1. \A x \in Requests : /\ Works(x, u)' <=> Works(x, u)
                          /\ Works(x, u) => request'[x] = request[x]
  BY RequestFacts DEF Works, Open
<1>2. UNCHANGED <<user[u], audited[u], asked[u]>>
  <2>1. Open(r) => request[r].on # u
    BY DEF Works
  <2>2. CASE A!Read(r) \/ A!WriteFails(r) \/ A!Drop(r)
    BY <2>2 DEF A!Read, A!WriteFails, A!Drop
  <2>3. CASE \E s \in Sessions, op \in Ops, v \in Users : \E arg \in A!Args(op) : A!Begin(r, s, op, v, arg)
    BY <2>3 DEF A!Begin
  <2>4. CASE A!Write(r)
    BY <2>1, <2>4 DEF A!Write, Open, Typed, RowsTyped
  <2>5. CASE A!Audit(r)
    BY <2>1, <2>5 DEF A!Audit, Open, Typed, RowsTyped
  <2>6. CASE A!Delete(r)
    BY <2>1, <2>6 DEF A!Delete, Open, Typed, RowsTyped
  <2> QED BY <2>2, <2>3, <2>4, <2>5, <2>6 DEF RequestActs
<1> QED BY <1>1, <1>2 DEF AccountOK, Tells, During

\* The last request on an account settles it, one that goes on keeps its part.
LEMMA OneAtWork ==
  ASSUME NEW u \in Users, NEW r \in Requests,
         \A x \in Requests \ {r} : ~ Works(x, u)',
         user'[u].state = "none" => user'[u].role = "ADMIN",
         user'[u].plants = asked'[u],
         ~ Works(r, u)' => Tells(user'[u], audited'[u]),
         Works(r, u)' => During(request'[r], user'[u], audited'[u])
  PROVE  AccountOK(u)'
BY DEF AccountOK, Tells, During

\* Outside the accounts requests overlapped on, a step keeps row, entry and request in accord.
LEMMA AccountsStep ==
  ASSUME A!AccountsAssumption, Typed, CreatesAlone, RemoveInv, AccountsInv, A!Next
  PROVE  AccountsInv'
<1> SUFFICES ASSUME NEW u \in Users, u \notin mixed' PROVE AccountOK(u)'
  BY DEF AccountsInv
<1>1. u \notin mixed
  BY DEF A!Next, A!LoginRead, A!LoginIssue, A!Begin, A!Read, A!Write, A!WriteFails, A!Audit, A!Delete, A!Drop
<1>2. AccountOK(u)
  BY <1>1 DEF AccountsInv
<1>3. CASE UNCHANGED <<user, request, audited, asked>>
  BY <1>2, <1>3 DEF AccountOK, Works, Open, Tells, During
<1>4. ASSUME NEW r \in Requests, RequestActs(r), Works(r, u) \/ Works(r, u)' PROVE AccountOK(u)'
  <2> DEFINE q == request[r]
             row == user[u]
             log == audited[u]
  <2>0. /\ row \in Rows /\ log \in [state : States, role : Roles, deleted : BOOLEAN]
        /\ row.state = "none" => row.role = "ADMIN"
        /\ row.plants = asked[u]
    BY <1>2 DEF Typed, RowsTyped, AccountOK
  <2>1. ASSUME Works(r, u)
        PROVE  /\ \A x \in Requests \ {r} : ~ Works(x, u)'
               /\ During(q, row, log) /\ Open(r) /\ q.on = u
               /\ Open(r)' => Works(r, u)' /\ request'[r].op = q.op
    BY <1>2, <1>4, <2>1, RequestFacts DEF AccountOK, Works, Open
  <2>2. CASE \E s \in Sessions, op \in Ops, v \in Users : \E arg \in A!Args(op) : A!Begin(r, s, op, v, arg)
    <3>1. PICK s \in Sessions, op \in Ops, v \in Users : \E arg \in A!Args(op) : A!Begin(r, s, op, v, arg)
      BY <2>2
    <3>2. /\ request'[r].on = v /\ request'[r].step = "read" /\ UNCHANGED <<user, audited, asked>> /\ ~ Works(r, u)
          /\ A!Busy(v) = {} \/ v \in mixed'
      BY <3>1 DEF A!Begin, Typed, RequestsTyped, Works, Open, A!NoRequest
    <3>3. v = u
      BY <1>4, <3>2 DEF Works
    <3>4. \A x \in Requests : ~ Works(x, u)
      BY <3>2, <3>3 DEF A!Busy, Works, Open
    <3>5. \A x \in Requests \ {r} : ~ Works(x, u)'
      BY <1>4, <3>4, RequestFacts DEF Works, Open
    <3>6. Tells(row, log)
      BY <1>2, <3>4 DEF AccountOK
    <3>7. During(request'[r], row, log)
      BY <3>2, <3>6 DEF During
    <3> QED BY <2>0, <3>2, <3>5, <3>6, <3>7, OneAtWork DEF Works
  <2>3. CASE A!Read(r)
    <3>1. Works(r, u) /\ q.step = "read"
      BY <1>4, <2>3, RequestFacts DEF A!Read, Works, Open
    <3>2. Tells(row, log) /\ UNCHANGED <<user, audited, asked>>
      BY <2>1, <2>3, <3>1 DEF During, A!Read
    <3>3. Open(r)' => During(request'[r], row, log)
      BY <2>1, <2>3, <3>1, <3>2 DEF A!Read, A!Answer, Open, During, Tells, Typed, RequestsTyped, A!NoRequest
    <3> QED BY <2>0, <2>1, <3>1, <3>2, <3>3, OneAtWork DEF Works
  <2>4. CASE A!WriteFails(r) \/ A!Drop(r)
    <3>1. ~ Open(r)' /\ Works(r, u)
      BY <1>4, <2>4 DEF A!WriteFails, A!Drop, A!Answer, Open, Works, Typed, RequestsTyped, A!NoRequest
    <3>2. q.step # "audit" /\ UNCHANGED <<user, audited, asked>>
      BY <2>1, <2>4, <3>1 DEF A!WriteFails, A!Drop
    <3>3. Tells(row, log)
      BY <2>1, <3>1, <3>2 DEF During
    <3> QED BY <2>0, <2>1, <3>1, <3>2, <3>3, OneAtWork DEF Works
  <2>5. CASE A!Delete(r)
    <3>1. ~ Open(r)' /\ Open(r) /\ Works(r, u) /\ q.op = "remove" /\ q.step = "write"
      BY <1>4, <2>5 DEF A!Delete, A!Answer, Open, Works, Typed, RequestsTyped, A!NoRequest
    <3>2. /\ user'[u].state \in {"inactive", "gone"} /\ user'[u].role = row.role /\ user'[u].plants = row.plants
          /\ UNCHANGED <<audited, asked>>
      BY <2>1, <2>5, <3>1 DEF A!Delete, Typed, RowsTyped, Rows
    <3>3. log.deleted /\ log.role = row.role
      BY <2>1, <3>1 DEF RemoveInv, During, Tells
    <3> QED BY <2>0, <2>1, <3>1, <3>2, <3>3, OneAtWork DEF Works, Tells
  <2>6. CASE A!Audit(r)
    <3> DEFINE wrote == A!NewRow(q, row)
    <3>1. q.step = "audit" /\ Open(r) /\ Works(r, u)
      BY <1>4, <2>6, RequestFacts DEF A!Audit, Works, Open
    <3>2. /\ audited'[u] = CASE q.op \in {"toggle", "create"} -> [log EXCEPT !.state = wrote.state]
                             [] q.op = "role" -> [log EXCEPT !.role = wrote.role]
                             [] q.op = "remove" -> [log EXCEPT !.deleted = TRUE]
                             [] OTHER -> log
          /\ UNCHANGED <<user, asked>>
      BY <2>1, <2>6, <3>1 DEF A!Audit, Typed, RowsTyped
    <3>3. /\ q.op = "toggle" => wrote.state = IF q.seenActive THEN "inactive" ELSE "active"
          /\ q.op = "create" => wrote.state = "active"
          /\ q.op = "role" => wrote.role = q.arg
      BY <2>0, NewRowFields
    <3> HIDE DEF wrote, row, log, q
    <3>4. Tells(row, audited'[u])
      <4>1. CASE q.op \in {"toggle", "create"}
        BY <2>0, <2>1, <3>1, <3>2, <3>3, <4>1 DEF During, Tells
      <4>2. CASE q.op = "role"
        BY <2>0, <2>1, <3>1, <3>2, <3>3, <4>2 DEF During, Tells
      <4>3. CASE q.op = "remove"
        BY <2>0, <2>1, <3>1, <3>2, <4>3 DEF During, Tells
      <4>4. CASE q.op \notin {"toggle", "create", "role", "remove"}
        BY <2>0, <2>1, <3>1, <3>2, <4>4 DEF During, Tells
      <4> QED BY <4>1, <4>2, <4>3, <4>4
    <3>5. Open(r)' => /\ request'[r].op = "remove" /\ request'[r].step = "write"
      <4>1. CASE q.op = "remove"
        <5>1. request' = [request EXCEPT ![r].step = "write"]
          BY <2>6, <4>1 DEF A!Audit, q
        <5> QED BY <3>1, <4>1, <5>1, StepSet DEF q
      <4>2. CASE q.op # "remove"
        <5>1. ~ Open(r)'
          BY <2>6, <4>2 DEF A!Audit, q, A!Answer, Open, Typed, RequestsTyped, A!NoRequest
        <5> QED BY <5>1
      <4> QED BY <4>1, <4>2
    <3>6. Open(r)' => During(request'[r], row, audited'[u])
      BY <3>4, <3>5 DEF During
    <3>7. user'[u] = row /\ asked'[u] = asked[u]
      BY <3>2 DEF row
    <3> QED BY <2>0, <2>1, <3>1, <3>4, <3>6, <3>7, OneAtWork DEF Works
  <2>7. CASE A!Write(r)
    <3> DEFINE new == A!NewRow(q, row)
    <3>1. Works(r, u) /\ q.step = "write" /\ Open(r)
      BY <1>4, <2>7, WriteFacts, StepSet DEF Works, Open, A!Operations
    <3>2. /\ q.op \in A!Operations \ {"remove"} /\ q.on = u
          /\ user' = [user EXCEPT ![u] = new]
          /\ request' = [request EXCEPT ![r].step = "audit"]
      BY <2>7, <3>1, WriteFacts DEF Works
    <3>3. user'[u] = new
      BY <3>2 DEF Typed, RowsTyped
    <3>4. /\ request'[r].step = "audit" /\ request'[r].op = q.op
          /\ request'[r].arg = q.arg /\ request'[r].seenActive = q.seenActive
      BY <3>1, <3>2, StepSet
    <3>5. /\ asked'[u] = IF q.op \in {"plants", "create"} THEN q.arg ELSE asked[u]
          /\ UNCHANGED audited
      BY <2>7, <3>2 DEF A!Write, Typed, RowsTyped
    <3>6. q.op = "create" => row.state = "none"
      BY <3>1, <3>2 DEF CreatesAlone
    <3>7. Tells(row, log) /\ (q.op = "plants" => q.seen = row.plants)
      BY <2>1, <3>1, <3>2 DEF During
    <3>8. /\ q.op = "toggle" => new.state = IF q.seenActive THEN "inactive" ELSE "active"
          /\ q.op = "create" => new.state = "active" /\ new.role = "ADMIN" /\ new.plants = q.arg
          /\ q.op \notin {"toggle", "create"} => new.state = row.state
          /\ q.op = "role" => new.role = q.arg
          /\ q.op \notin {"role", "create"} => new.role = row.role
      <4>1. /\ q.op = "toggle" => new.state = IF q.seenActive THEN "inactive" ELSE "active"
            /\ q.op = "create" => new.state = "active"
            /\ q.op \notin {"toggle", "create"} => new.state = row.state
        BY <2>0, NewRowFields
      <4>2. /\ q.op = "role" => new.role = q.arg
            /\ q.op = "create" => new.role = "ADMIN"
            /\ q.op \notin {"role", "create"} => new.role = row.role
        BY <2>0, NewRowFields
      <4>3. q.op = "create" => new.plants = q.arg
        BY <2>0, NewRowFields
      <4> QED BY <4>1, <4>2, <4>3
    <3>15. /\ q.op = "plants" => new.plants = (row.plants \ (q.seen \ q.arg)) \union (q.arg \ q.seen)
           /\ q.op \notin {"plants", "create"} => new.plants = row.plants
      BY <2>0, NewRowFields
    <3>16. q.op # "create" => row.state # "none"
      BY <2>7, <3>2, WriteFacts
    <3>9. ArgOK(q.op, q.arg) /\ q.seen \in SUBSET Plants
      BY <2>7, WriteFacts
    <3> HIDE DEF new, row, log, q
    <3>10. new.plants = asked'[u]
      <4>1. CASE q.op = "plants"
        BY <3>5, <3>7, <3>9, <3>15, <4>1 DEF ArgOK
      <4>2. CASE q.op # "plants"
        BY <2>0, <3>5, <3>8, <3>15, <4>2 DEF row
      <4> QED BY <4>1, <4>2
    <3>11. q.op = "create" => log.role = "ADMIN"
      BY <2>0, <3>6, <3>7 DEF Tells
    <3>12. new.state # "none"
      BY <3>8, <3>16
    <3>13. During(request'[r], new, log)
      BY <3>2, <3>4, <3>7, <3>8, <3>11 DEF During, Tells
    <3>14. audited'[u] = log
      BY <3>5 DEF log
    <3>17. Works(r, u)'
      BY <2>1, <3>1, <3>2, <3>4 DEF Open, q
    <3> QED BY <2>1, <3>1, <3>3, <3>10, <3>12, <3>13, <3>14, <3>17, OneAtWork
  <2> QED BY <1>4, <2>2, <2>3, <2>4, <2>5, <2>6, <2>7 DEF RequestActs
<1>5. ASSUME NEW r \in Requests, RequestActs(r), ~ Works(r, u), ~ Works(r, u)' PROVE AccountOK(u)'
  BY <1>2, <1>5, OthersKept
<1> QED BY <1>3, <1>4, <1>5, NextCases

AccountsHold ==
  A!AccountsAssumption /\ Typed /\ CreatesAlone /\ TokensInv /\ RemoveInv /\ OwnerInv /\ AccountsInv

\* The invariant of the accounts always holds.
LEMMA AccountsInvariant == A!AccountsAssumption => (A!Spec => []AccountsHold)
<1>1. A!AccountsAssumption /\ A!Init => AccountsHold
  BY AccountsStart DEF AccountsHold
<1>2. AccountsHold /\ [A!Next]_(A!vars) => AccountsHold'
  <2>1. CASE AccountsHold /\ A!Next
    BY <2>1, TypedStep, CreatesStep, TokensStep, RemoveStep, OwnerStep, AccountsStep DEF AccountsHold, A!AccountsAssumption
  <2>2. CASE AccountsHold /\ UNCHANGED A!vars
    BY <2>2 DEF AccountsHold, A!AccountsAssumption, A!vars, Typed, RowsTyped, SessionsTyped, SessionOK, RequestsTyped, RequestOK, ArgOK,
       CreatesAlone, Open, TokensInv, TokenOK, RemoveInv, A!RemovalIsAudited, OwnerInv,
       AccountsInv, AccountOK, Works, Tells, During
  <2> QED BY <2>1, <2>2
<1> QED BY <1>1, <1>2, PTL DEF A!Spec

\* A token the guard accepts was given for the password and the role the account
\* still has, and after its last deactivation, however logins and the requests of
\* administrators overlap (auth.service.ts:26-120, jwt-auth.guard.ts:50-63,
\* users.service.ts:233-333).
THEOREM TokensAreOfTheAccount ==
  A!AccountsAssumption => (A!Spec => [](A!TokenMatchesAccount /\ A!NoTokenOutlivesDeactivation))
<1>1. AccountsHold => A!TokenMatchesAccount /\ A!NoTokenOutlivesDeactivation
  <2> SUFFICES ASSUME AccountsHold, NEW s \in Sessions, A!Accepted(s)
               PROVE  /\ session[s].pw = user[session[s].of].pw
                      /\ session[s].role = user[session[s].of].role
                      /\ ~ session[s].cut
    BY DEF A!TokenMatchesAccount, A!NoTokenOutlivesDeactivation
  <2> DEFINE x == session[s]
             row == user[x.of]
  <2>1. x.phase # "none" /\ row.state = "active" /\ row.version = x.version
    BY DEF A!Accepted, A!Active
  <2>2. TokenOK(x, row) /\ x.version \in Nat /\ x.cut \in BOOLEAN
    BY <2>1 DEF AccountsHold, TokensInv, Typed, SessionsTyped, SessionOK, A!NoSession
  <2> QED BY <2>1, <2>2 DEF TokenOK
<1> QED BY <1>1, AccountsInvariant, PTL

\* With one system owner, whom system-owner.ts makes, somebody active can always
\* administer, whatever administrators do to each other at once
\* (users.service.ts:21-41); two owners could suspend each other.
THEOREM AnAdministratorStays ==
  A!AccountsAssumption =>
    (A!Spec => []((\E o \in Users : Owners = {o}) => A!AnAdministratorRemains))
<1>1. AccountsHold => ((\E o \in Users : Owners = {o}) => A!AnAdministratorRemains)
  BY DEF AccountsHold, OwnerInv, A!AnAdministratorRemains, A!Active, A!Administers
<1> QED BY <1>1, AccountsInvariant, PTL

\* A removed account has its entry, and the log tells state and role of every
\* account no two requests overlapped on and no request died halfway on
\* (users.service.ts:242-261, 298-318, 553-585).
THEOREM AccountsAreLogged ==
  A!AccountsAssumption => (A!Spec => [](A!RemovalIsAudited /\ A!LogTellsAccount))
<1>1. AccountsHold => A!RemovalIsAudited /\ A!LogTellsAccount
  <2>1. AccountsHold => A!RemovalIsAudited
    BY DEF AccountsHold, RemoveInv
  <2>2. AccountsHold => A!LogTellsAccount
    BY DEF AccountsHold, AccountsInv, AccountOK, A!LogTellsAccount, A!Busy, Works, Open, Tells
  <2> QED BY <2>1, <2>2
<1> QED BY <1>1, AccountsInvariant, PTL

\* The plants of an account are those last asked for, although they are written
\* as a difference with an earlier read, unless requests overlapped on it
\* (users.service.ts:416-478).
THEOREM PlantsAreThoseAsked ==
  A!AccountsAssumption => (A!Spec => []A!AccessIsWhatWasAsked)
<1>1. AccountsHold => A!AccessIsWhatWasAsked
  BY DEF AccountsHold, AccountsInv, AccountOK, A!AccessIsWhatWasAsked
<1> QED BY <1>1, AccountsInvariant, PTL

-----------------------------------------------------------------------------
(* The session of a browser.                                               *)

CONSTANTS None, UsedRoles, CanTransfer, Appointees, DatabaseFails, Slots, MaxVersions, MaxOpens
VARIABLES account, store, path, plant, unloading, login, flight, opens

B == INSTANCE BrowserSession

AccountsTyped ==
  account \in [Users -> [role : B!Roles, owner : BOOLEAN, active : BOOLEAN, version : Nat]]
\* A session the guard accepts tells role and ownership of the account, unless the
\* account was made the system owner under it.
StoreOK ==
  \/ store = B!NoSession
  \/ /\ store.user \in Users /\ store.version \in Nat /\ store.role \in B!Roles
     /\ store = [user |-> store.user, version |-> store.version, role |-> store.role,
                 owner |-> store.owner]
     /\ store.version <= account[store.user].version
     /\ store.version = account[store.user].version =>
          \/ account[store.user].owner
          \/ store.role = account[store.user].role /\ store.owner = account[store.user].owner
FlightOK(r) ==
  /\ r.user \in Users /\ r.version \in Nat /\ r.status \in {0, 200, 401, 409}
  /\ r = [user |-> r.user, version |-> r.version, endpoint |-> r.endpoint, status |-> r.status]
  /\ r.version <= account[r.user].version
  /\ r.version = account[r.user].version => B!Granted(account[r.user], r.endpoint)
FlightsOK ==
  /\ flight = [s \in Slots |-> flight[s]]
  /\ \A s \in Slots : flight[s] = B!Free \/ FlightOK(flight[s])
\* Only the page and the session that sent it wait for an answer.
PageInv ==
  /\ path \in B!Paths /\ unloading \in BOOLEAN
  /\ login \in Users \cup {None}
  /\ login # None => path = "/login" /\ ~unloading
  /\ ~unloading => \A s \in Slots : flight[s] # B!Free =>
       /\ path \in B!Guarded
       /\ flight[s].user = store.user /\ flight[s].version = store.version
       /\ store # B!NoSession
BrowserHolds == B!SessionAssumption /\ AccountsTyped /\ StoreOK /\ FlightsOK /\ PageInv

\* What a page that is shown asks for, its roles may ask for, and the page of the
\* system owner is his.
LEMMA PagesAsk ==
  ASSUME store.role \in B!AllRoles \cup {"OPERARIO"}, path \in B!Guarded, B!Rendered,
         NEW e \in B!Uses(path)
  PROVE  B!Granted(store, e)
<1> USE DEF B!Guarded, B!Rendered, B!RouteRoles, B!AllRoles
<1>0. SUFFICES store.role \in B!EndpointRoles(e) /\ (e = "audit" => store.owner)
  BY DEF B!Granted, B!OwnerOnly
<1>1. CASE e = "plants"
  BY <1>1 DEF B!EndpointRoles
<1>2. CASE e = "notifications"
  BY <1>2 DEF B!EndpointRoles
<1>3. CASE e \notin {"plants", "notifications"}
  <2>1. CASE path = "/envases"
    BY <1>3, <2>1 DEF B!Uses, B!EndpointRoles
  <2>2. CASE path = "/fabricacion"
    BY <1>3, <2>2 DEF B!Uses, B!EndpointRoles
  <2>3. CASE path = "/pizarra"
    BY <1>3, <2>3 DEF B!Uses, B!EndpointRoles
  <2>4. CASE path = "/laboratorio"
    BY <1>3, <2>4 DEF B!Uses, B!EndpointRoles
  <2>5. CASE path = "/envasado"
    BY <1>3, <2>5 DEF B!Uses, B!EndpointRoles
  <2>6. CASE path = "/visualizacion"
    BY <1>3, <2>6 DEF B!Uses, B!EndpointRoles
  <2>7. CASE path = "/historial"
    BY <1>3, <2>7 DEF B!Uses, B!EndpointRoles
  <2>8. CASE path = "/jefatura"
    BY <1>3, <2>8 DEF B!Uses, B!EndpointRoles
  <2>9. CASE path \in {"/admin", "/usuarios", "/auditoria"}
    BY <1>3, <2>9 DEF B!Uses, B!EndpointRoles
  <2> QED BY <2>1, <2>2, <2>3, <2>4, <2>5, <2>6, <2>7, <2>8, <2>9
<1> QED BY <1>1, <1>2, <1>3

\* A change of an account ends its sessions or makes it the system owner, whom the
\* server grants all: either way the browser's invariant stays.
LEMMA AccountChanges ==
  ASSUME BrowserHolds, NEW u \in Users, AccountsTyped',
         \/ account'[u].version = account[u].version + 1
         \/ account'[u].version = account[u].version /\ account'[u].owner,
         \A v \in Users \ {u} : account'[v] = account[v],
         UNCHANGED <<store, path, plant, unloading, opens, login, flight>>
  PROVE  BrowserHolds'
<1> USE DEF BrowserHolds, AccountsTyped
<1>1. StoreOK'
  BY DEF StoreOK, B!NoSession
<1>2. FlightsOK'
  <2>1. ASSUME NEW s \in Slots, flight[s] # B!Free PROVE FlightOK(flight[s])'
    <3>1. FlightOK(flight[s]) BY <2>1 DEF FlightsOK
    <3>2. account'[u].owner => B!Granted(account'[u], flight[s].endpoint)
      BY DEF B!Granted
    <3> QED BY <3>1, <3>2 DEF FlightOK
  <2> QED BY <2>1 DEF FlightsOK, B!Free
<1>3. PageInv'
  BY DEF PageInv, B!NoSession, B!Free
<1> QED BY <1>1, <1>2, <1>3 DEF B!SessionAssumption

\* A step that leaves account, session and requests alone, and the browser on a
\* page that may have requests under way or the same as before.
LEMMA BrowserMoves ==
  ASSUME BrowserHolds, UNCHANGED <<account, store, login, flight, unloading>>,
         path' \in B!Paths, path \in B!Guarded /\ store # B!NoSession => path' \in B!Guarded,
         path = "/login" => path' = "/login"
  PROVE  BrowserHolds'
<1> USE DEF BrowserHolds
<1>1. AccountsTyped' BY DEF AccountsTyped
<1>2. StoreOK' BY DEF StoreOK, B!NoSession
<1>3. FlightsOK' BY DEF FlightsOK, FlightOK, B!Free
<1>4. PageInv' BY DEF PageInv, B!NoSession, B!Free
<1> QED BY <1>1, <1>2, <1>3, <1>4 DEF B!SessionAssumption

\* The end of a session: from any page but the login the document goes.
LEMMA SessionIsOver ==
  ASSUME BrowserHolds, B!ClearAndRedirect, UNCHANGED <<account, path>>,
         login' = None \/ login' = login,
         FlightsOK', path = "/login" /\ ~unloading => flight' = flight
  PROVE  BrowserHolds'
<1> USE DEF BrowserHolds, B!ClearAndRedirect
<1>1. AccountsTyped' BY DEF AccountsTyped
<1>2. StoreOK' BY DEF StoreOK, B!NoSession
<1>4. PageInv' BY DEF PageInv, B!NoSession, B!Free, B!Guarded
<1> QED BY <1>1, <1>2, <1>4 DEF B!SessionAssumption

\* What is sent is the session's, and what its page may ask for.
LEMMA SendKeeps ==
  ASSUME BrowserHolds, NEW s \in Slots, NEW e \in B!Uses(path), B!Send(s, e),
         path \in B!Guarded, B!Rendered
  PROVE  BrowserHolds'
<1> USE DEF BrowserHolds
<1>1. store # B!NoSession
  BY DEF B!Send, B!SignedIn, B!NoSession
<1>2. store.role \in B!AllRoles \cup {"OPERARIO"}
  BY <1>1 DEF StoreOK, B!SessionAssumption, B!Roles, B!AllRoles
<1>3. store.version = account[store.user].version => B!Granted(account[store.user], e)
  <2>1. B!Granted(store, e)
    BY <1>2, PagesAsk
  <2> QED BY <1>1, <2>1 DEF StoreOK, B!Granted
<1> DEFINE r == [user |-> store.user, version |-> store.version, endpoint |-> e, status |-> 0]
<1>4. flight' = [flight EXCEPT ![s] = r] /\ UNCHANGED <<account, store, path, plant, unloading, opens, login>>
  BY DEF B!Send, B!browser
<1>5. FlightOK(r)'
  BY <1>1, <1>3, <1>4 DEF FlightOK, StoreOK
<1>6. FlightsOK'
  <2>1. ASSUME NEW x \in Slots, x # s, flight[x] # B!Free PROVE FlightOK(flight[x])'
    <3>1. FlightOK(flight[x]) /\ flight'[x] = flight[x]
      BY <1>4, <2>1 DEF FlightsOK
    <3> QED BY <1>4, <3>1 DEF FlightOK
  <2>2. flight' = [x \in Slots |-> flight'[x]]
    BY <1>4 DEF FlightsOK
  <2>3. \A x \in Slots : flight'[x] = IF x = s THEN r ELSE flight[x]
    BY <1>4 DEF FlightsOK
  <2>4. FlightOK(flight[s])'
    BY <1>4, <1>5, <2>3 DEF FlightOK
  <2> HIDE DEF r
  <2> QED BY <2>1, <2>2, <2>3, <2>4 DEF FlightsOK, B!Free
<1>7. PageInv'
  <2>1. login = None
    BY DEF PageInv, B!Guarded
  <2>2. \A x \in Slots : flight'[x] = IF x = s THEN r ELSE flight[x]
    BY <1>4 DEF FlightsOK
  <2>3. r.user = store.user /\ r.version = store.version
    OBVIOUS
  <2> HIDE DEF r
  <2> QED BY <1>1, <1>4, <2>1, <2>2, <2>3 DEF PageInv, B!Free, B!NoSession
<1>8. AccountsTyped' /\ StoreOK'
  BY <1>4 DEF AccountsTyped, StoreOK, B!NoSession
<1> QED BY <1>6, <1>7, <1>8 DEF B!SessionAssumption

\* A request is answered with what the guards and the service decide.
LEMMA ServeKeeps ==
  ASSUME BrowserHolds, NEW s \in Slots, B!Serve(s)
  PROVE  BrowserHolds'
<1> USE DEF BrowserHolds
<1>1. PICK status \in B!Answers(flight[s]) : flight' = [flight EXCEPT ![s].status = status]
  BY DEF B!Serve
<1>2. UNCHANGED <<account, store, path, plant, unloading, opens, login>>
  BY DEF B!Serve, B!browser
<1>3. flight[s] # B!Free /\ FlightOK(flight[s])
  BY DEF B!Serve, B!Free, FlightsOK
<1>4. status \in {0, 200, 401, 409}
  BY <1>3 DEF B!Answers, FlightOK, B!Accepted
<1>5. /\ flight'[s] = [user |-> flight[s].user, version |-> flight[s].version,
                       endpoint |-> flight[s].endpoint, status |-> status]
      /\ \A x \in Slots \ {s} : flight'[x] = flight[x]
      /\ flight' = [x \in Slots |-> flight'[x]]
  BY <1>1, <1>3 DEF FlightsOK, FlightOK
<1>6. flight'[s].user = flight[s].user /\ flight'[s].version = flight[s].version
  BY <1>5
<1>7. FlightOK(flight[s])'
  BY <1>2, <1>3, <1>4, <1>5 DEF FlightOK
<1>8. FlightsOK'
  <2>1. ASSUME NEW x \in Slots \ {s}, flight[x] # B!Free PROVE FlightOK(flight[x])'
    <3>1. FlightOK(flight[x]) /\ flight'[x] = flight[x]
      BY <1>5, <2>1 DEF FlightsOK
    <3> QED BY <1>2, <3>1 DEF FlightOK
  <2> QED BY <1>5, <1>7, <2>1 DEF FlightsOK, B!Free
<1>9. PageInv'
  BY <1>2, <1>3, <1>5, <1>6 DEF PageInv, B!Free, B!NoSession
<1>10. AccountsTyped' /\ StoreOK'
  BY <1>2 DEF AccountsTyped, StoreOK, B!NoSession
<1> QED BY <1>8, <1>9, <1>10 DEF B!SessionAssumption

\* A slot becomes free, or all of them.
LEMMA FreeKeeps ==
  ASSUME BrowserHolds, UNCHANGED account,
         \/ \E s \in Slots : flight' = [flight EXCEPT ![s] = B!Free]
         \/ flight' = [s \in Slots |-> B!Free]
         \/ UNCHANGED flight
  PROVE  FlightsOK'
BY DEF BrowserHolds, FlightsOK, FlightOK, B!Free

\* Every step keeps the invariant.
LEMMA BrowserStep == ASSUME BrowserHolds, B!Next PROVE BrowserHolds'
<1> USE DEF BrowserHolds
<1>1. ASSUME NEW u \in Users, B!Suspend(u) PROVE BrowserHolds'
  BY <1>1, AccountChanges DEF B!Suspend, AccountsTyped, B!browser
<1>2. ASSUME NEW u \in Users, NEW role \in UsedRoles, B!ChangeRole(u, role) PROVE BrowserHolds'
  BY <1>2, AccountChanges DEF B!ChangeRole, AccountsTyped, B!browser, B!Roles
<1>16. ASSUME NEW u \in Appointees, B!Appoint(u) PROVE BrowserHolds'
  <2>1. PICK version \in {account[u].version, account[u].version + 1} :
          account' = [account EXCEPT ![u] = [role |-> "ADMIN", owner |-> TRUE, active |-> TRUE,
                                             version |-> version]]
    BY <1>16 DEF B!Appoint
  <2>2. u \in Users
    BY DEF B!SessionAssumption
  <2>3. AccountsTyped' /\ account'[u].version = version /\ account'[u].owner
    BY <2>1, <2>2 DEF AccountsTyped, B!Roles
  <2> QED BY <1>16, <2>1, <2>2, <2>3, AccountChanges DEF B!Appoint, B!browser, AccountsTyped
<1>3. ASSUME NEW p \in B!Guarded, B!Follow(p) PROVE BrowserHolds'
  <2>1. p \in B!Guarded /\ path \in B!Guarded BY <1>3 DEF B!Follow
  <2> QED BY <1>3, <2>1, BrowserMoves DEF B!Follow, B!Paths, B!Guarded
<1>4. ASSUME NEW code \in {"LATEX", "ENVASES"}, B!SelectPlant(code) PROVE BrowserHolds'
  <2>1. path \in B!Guarded /\ path' \in B!Guarded
    BY <1>4 DEF B!SelectPlant, B!Guarded
  <2> QED BY <1>4, <2>1, BrowserMoves DEF B!SelectPlant, B!Paths, B!Guarded
<1>5. ASSUME NEW p \in B!Paths, B!Open(p) PROVE BrowserHolds'
  <2>1. AccountsTyped' /\ StoreOK'
    BY <1>5 DEF B!Open, AccountsTyped, StoreOK, B!NoSession
  <2>2. FlightsOK' BY <1>5, FreeKeeps DEF B!Open
  <2>3. PageInv' BY <1>5 DEF B!Open, PageInv, B!Free
  <2> QED BY <2>1, <2>2, <2>3 DEF B!SessionAssumption
<1>6. CASE B!Logout
  <2>1. path # "/login" BY <1>6 DEF B!Logout, B!Guarded
  <2> QED BY <1>6, <2>1, FreeKeeps, SessionIsOver DEF B!Logout
<1>7. CASE B!Unload
  <2>1. AccountsTyped' /\ StoreOK'
    BY <1>7 DEF B!Unload, AccountsTyped, StoreOK, B!NoSession
  <2>2. FlightsOK' BY <1>7, FreeKeeps DEF B!Unload
  <2>3. PageInv' BY <1>7 DEF B!Unload, PageInv, B!Free, B!Paths
  <2> QED BY <2>1, <2>2, <2>3 DEF B!SessionAssumption
<1>8. CASE B!Redirect
  <2>1. path # "/login" BY <1>8 DEF B!Redirect, B!Rendered
  <2>2. store # B!NoSession => B!SignedIn
    BY DEF StoreOK, B!SignedIn, B!NoSession, B!SessionAssumption
  <2>3. store # B!NoSession => store.role \in B!AllRoles \cup {"OPERARIO"}
    BY DEF StoreOK, B!SessionAssumption, B!Roles, B!AllRoles
  <2>4. B!SignedIn => store # B!NoSession
    BY DEF B!SignedIn, B!NoSession
  <2>5. path' \in B!Paths /\ (path \in B!Guarded /\ store # B!NoSession => path' \in B!Guarded)
    BY <1>8, <2>2, <2>3, <2>4 DEF B!Redirect, B!Redirection, B!Home, B!Guarded, B!Paths, B!AllRoles
  <2> QED BY <1>8, <2>1, <2>5, BrowserMoves DEF B!Redirect
<1>9. ASSUME NEW u \in Users, B!SubmitLogin(u) PROVE BrowserHolds'
  BY <1>9 DEF B!SubmitLogin, B!browser, AccountsTyped, StoreOK, FlightsOK, FlightOK, PageInv,
              B!NoSession, B!Free, B!SessionAssumption
<1>10. CASE B!LoginAnswer
  <2>1. login \in Users /\ path = "/login" /\ ~unloading /\ \A s \in Slots : flight[s] = B!Free
    BY <1>10 DEF B!LoginAnswer, PageInv, B!Guarded
  <2>2. FlightsOK' BY <1>10, FreeKeeps DEF B!LoginAnswer
  <2>3. AccountsTyped' /\ login' = None /\ UNCHANGED <<account, flight>>
    BY <1>10 DEF B!LoginAnswer, AccountsTyped
  <2>4. CASE B!ClearAndRedirect /\ UNCHANGED path
    BY <2>2, <2>3, <2>4, SessionIsOver
  <2>5. CASE UNCHANGED <<store, path, unloading>>
    BY <2>1, <2>2, <2>3, <2>5 DEF StoreOK, PageInv, B!NoSession, B!Free, B!SessionAssumption
  <2>6. CASE /\ account[login].active
             /\ store' = [user |-> login, version |-> account[login].version,
                          role |-> account[login].role, owner |-> account[login].owner]
             /\ path' = B!LoginHome(account[login].role)
             /\ UNCHANGED unloading
    <3>1. StoreOK'
      BY <2>1, <2>3, <2>6 DEF StoreOK, AccountsTyped
    <3>2. path' \in B!Paths
      <4>1. account[login].role \in B!AllRoles \cup {"OPERARIO"}
        BY <2>1 DEF AccountsTyped, B!SessionAssumption, B!Roles, B!AllRoles
      <4> QED BY <2>6, <4>1 DEF B!LoginHome, B!Home, B!Paths, B!Guarded, B!AllRoles
    <3>3. PageInv'
      BY <2>1, <2>3, <2>6, <3>2 DEF PageInv, B!Free
    <3> QED BY <2>2, <2>3, <3>1, <3>3 DEF B!SessionAssumption
  <2> QED BY <1>10, <2>4, <2>5, <2>6 DEF B!LoginAnswer
<1>11. ASSUME NEW s \in Slots, B!Act(s) PROVE BrowserHolds'
  <2>1. PICK e \in B!Uses(path) : path \in B!Guarded /\ B!Rendered /\ B!Send(s, e)
    BY <1>11 DEF B!Act
  <2> QED BY <2>1, SendKeeps
<1>12. ASSUME NEW s \in Slots, B!Poll(s) PROVE BrowserHolds'
  <2>1. PICK e \in B!Polled : B!Send(s, e)
    BY <1>12 DEF B!Poll
  <2>2. e \in B!Uses(path) /\ path \in B!Guarded /\ B!Rendered
    BY <2>1 DEF B!Polled
  <2> QED BY <2>1, <2>2, SendKeeps
<1>13. ASSUME NEW s \in Slots, B!Serve(s) PROVE BrowserHolds'
  BY <1>13, ServeKeeps
<1>14. ASSUME NEW s \in Slots, B!Lose(s) PROVE BrowserHolds'
  <2>1. FlightsOK' BY <1>14, FreeKeeps DEF B!Lose
  <2>2. \A x \in Slots : flight'[x] = flight[x] \/ flight'[x] = B!Free
    BY <1>14 DEF B!Lose, FlightsOK
  <2>3. AccountsTyped' /\ StoreOK' /\ PageInv'
    BY <1>14, <2>2 DEF B!Lose, B!browser, AccountsTyped, StoreOK, PageInv, B!NoSession, B!Free
  <2> QED BY <2>1, <2>3 DEF B!SessionAssumption
<1>15. ASSUME NEW s \in Slots, B!Receive(s) PROVE BrowserHolds'
  <2>1. FlightsOK' BY <1>15, FreeKeeps DEF B!Receive
  <2>2. flight[s] # B!Free
    BY <1>15 DEF B!Receive, B!Free
  <2>3. CASE flight[s].status = 401
    <3>1. path = "/login" => unloading
      BY <2>2 DEF PageInv, B!Guarded
    <3> QED BY <1>15, <2>1, <2>3, <3>1, SessionIsOver DEF B!Receive
  <2>4. CASE flight[s].status # 401
    <3>1. \A x \in Slots : flight'[x] = flight[x] \/ flight'[x] = B!Free
      BY <1>15 DEF B!Receive, FlightsOK
    <3>2. AccountsTyped' /\ StoreOK' /\ PageInv'
      BY <1>15, <2>4, <3>1 DEF B!Receive, AccountsTyped, StoreOK, PageInv, B!NoSession, B!Free
    <3> QED BY <2>1, <3>2 DEF B!SessionAssumption
  <2> QED BY <2>3, <2>4
<1> QED
  BY <1>1, <1>2, <1>3, <1>4, <1>5, <1>6, <1>7, <1>8, <1>9, <1>10, <1>11, <1>12, <1>13, <1>14, <1>15,
     <1>16
  DEF B!Next, B!UserStep

\* The invariant of the browser always holds.
LEMMA BrowserInvariant == B!SessionAssumption => (B!Spec => []BrowserHolds)
<1>1. B!SessionAssumption /\ B!Init => BrowserHolds
  <2> SUFFICES ASSUME B!SessionAssumption, B!Init PROVE BrowserHolds
    OBVIOUS
  <2>1. AccountsTyped
    <3> DEFINE Fresh == [role : UsedRoles, owner : BOOLEAN, active : {TRUE}, version : {1}]
    <3>1. account \in [Users -> Fresh]
      BY DEF B!Init
    <3>2. ASSUME NEW a \in Fresh
          PROVE  a \in [role : B!Roles, owner : BOOLEAN, active : BOOLEAN, version : Nat]
      <4>1. a = [role |-> a.role, owner |-> a.owner, active |-> TRUE, version |-> 1]
            /\ a.role \in UsedRoles /\ a.owner \in BOOLEAN
        OBVIOUS
      <4> HIDE DEF Fresh
      <4>2. [role |-> a.role, owner |-> a.owner, active |-> TRUE, version |-> 1]
              \in [role : B!Roles, owner : BOOLEAN, active : BOOLEAN, version : Nat]
        BY <4>1 DEF B!Roles
      <4> QED BY <4>1, <4>2, Zenon
    <3> HIDE DEF Fresh
    <3> QED BY <3>1, <3>2 DEF AccountsTyped
  <2>2. StoreOK /\ FlightsOK /\ PageInv
    BY DEF B!Init, StoreOK, FlightsOK, PageInv, B!Paths
  <2> QED BY <2>1, <2>2 DEF BrowserHolds
<1>2. BrowserHolds /\ [B!Next]_B!vars => BrowserHolds'
  <2>1. CASE BrowserHolds /\ B!Next
    BY <2>1, BrowserStep
  <2>2. CASE BrowserHolds /\ UNCHANGED B!vars
    BY <2>2 DEF BrowserHolds, B!SessionAssumption, B!vars, B!browser, AccountsTyped, StoreOK, FlightsOK, FlightOK,
       PageInv, B!NoSession, B!Free
  <2> QED BY <2>1, <2>2
<1> QED BY <1>1, <1>2, PTL DEF B!Spec

\* No answer of the server is 403: what a page asks for, its roles are declared for
\* in the controllers, and the page of the audit log is shown to system owners only;
\* a session from before a change of role is refused before its role is looked at, and
\* a session from before an appointment has an account that may do all
\* (jwt-auth.guard.ts:50-63, roles.guard.ts:31-53, audit-logs.controller.ts:27-33).
THEOREM PagesAskWhatIsServed == B!SessionAssumption => (B!Spec => []B!PagesAreServed)
<1>1. BrowserHolds => B!PagesAreServed
  BY DEF BrowserHolds, FlightsOK, FlightOK, B!Free, B!PagesAreServed
<1> QED BY <1>1, BrowserInvariant, PTL

\* The answer that ends a session is an answer to it, though http.ts:29-35 clears
\* whatever session is stored when a 401 arrives: nothing sent for an earlier
\* session is still waited for once another one is stored.
THEOREM SessionsEndByTheirAnswers == B!SessionAssumption => (B!Spec => B!AnswersEndTheirOwnSession)
<1>1. BrowserHolds /\ [B!Next]_B!vars => [B!EndsByItsOwnAnswer]_B!vars
  <2> SUFFICES ASSUME BrowserHolds, B!Next, B!SignedIn, store' = B!NoSession, ~unloading,
                      login' = login, flight' # flight
               PROVE  \E s \in Slots : /\ flight'[s] # flight[s]
                                       /\ flight[s].user = store.user
                                       /\ flight[s].version = store.version
    BY DEF B!EndsByItsOwnAnswer
  <2>1. store # B!NoSession
    BY DEF B!SignedIn, B!NoSession
  <2>2. PICK s \in Slots : B!Receive(s)
    BY <2>1 DEF B!Next, B!UserStep, B!Suspend, B!ChangeRole, B!Appoint, B!Follow, B!Open, B!SelectPlant,
       B!Logout, B!SubmitLogin, B!Act, B!Poll, B!Send, B!Unload, B!Redirect, B!LoginAnswer, B!Serve, B!Lose
  <2>3. flight[s] # B!Free /\ flight'[s] = B!Free
    BY <2>2 DEF B!Receive, B!Free, BrowserHolds, FlightsOK
  <2> QED BY <2>3 DEF BrowserHolds, PageInv
<1> QED BY <1>1, BrowserInvariant, PTL DEF B!Spec, B!AnswersEndTheirOwnSession

-----------------------------------------------------------------------------
(* The service worker and its windows.                                     *)

CONSTANTS Windows, MaxBuilds, MaxFailures
VARIABLES served, net, active, waiting, cache, bundles, win, reloads, claims, checked

W == INSTANCE ServiceWorker

\* A set of naturals that is not empty has its least member.
LEMMA LeastOf == ASSUME NEW S, S \subseteq Nat, S # {} PROVE W!Min(S) \in S
<1>1. PICK k \in S : \A j \in S : ~ (<<j, k>> \in OpToRel(<, Nat))
  BY NatLessThanWellFounded, WFMin
<1>2. ASSUME NEW j \in S PROVE k <= j
  <2>1. j < k => <<j, k>> \in OpToRel(<, Nat)
    <3>1. <<j, k>> \in Nat \X Nat
      OBVIOUS
    <3> QED BY <3>1 DEF OpToRel
  <2>2. ~ (<<j, k>> \in OpToRel(<, Nat))
    BY <1>1
  <2>3. ~ (j < k)
    BY <2>1, <2>2, Zenon
  <2> QED BY <2>3
<1> QED BY <1>2 DEF W!Min

Workers == [rev : Nat, name : Nat, build : Nat, installed : BOOLEAN]
WindowPhases == {"closed", "loading", "open", "blank", "refused", "unreachable"}
Views == [phase : WindowPhases, build : Nat, events : Nat, refreshing : BOOLEAN,
          missed : BOOLEAN, kept : BOOLEAN]
WorkerTyped ==
  /\ served \in [build : Nat \ {0}, rev : Nat \ {0}, name : Nat \ {0}]
  /\ served.build <= MaxBuilds /\ served.name <= served.build
  /\ active \in Workers /\ waiting \in Workers
  /\ cache \in [W!Names -> Nat]
  /\ win \in [Windows -> Views]
  /\ reloads \in [Windows -> Nat] /\ claims \in Nat
\* A worker in control, or installed and about to be, has its cache; what is
\* kept is no older than the worker and no newer than what was published.
CacheInv ==
  /\ active.build <= served.build /\ waiting.build <= served.build
  /\ active.build <= waiting.build \/ waiting.rev = 0
  /\ \A n \in W!Names : cache[n] # 0 => active.build <= cache[n] /\ cache[n] <= served.build
  /\ active.rev # 0 => active.name \in W!Names /\ cache[active.name] # 0
  /\ waiting.rev # 0 => waiting.name \in W!Names
  /\ waiting.installed => /\ waiting.rev # 0
                          /\ cache[waiting.name] # 0 /\ waiting.build <= cache[waiting.name]
\* A window that is settled, or will be once it has loaded, is not behind.
Listening(v) == v.phase \in {"loading", "open"} /\ v.events = 0 /\ ~ v.refreshing /\ ~ v.missed
WindowInv ==
  \A w \in Windows :
    /\ Listening(win[w]) => active.build <= win[w].build
    /\ reloads[w] <= claims
    /\ win[w].events > 0 /\ ~ win[w].refreshing => reloads[w] < claims
WorkerInv == W!WorkerAssumption /\ WorkerTyped /\ CacheInv /\ WindowInv

\* Without network the newest shell that is kept is one the worker in control
\* allows.
LEMMA CachedIsKept ==
  ASSUME WorkerTyped, CacheInv
  PROVE  /\ W!Cached \in Nat /\ W!Cached <= served.build
         /\ active.rev # 0 => W!Cached # 0
         /\ W!Cached # 0 => active.build <= W!Cached
<1> DEFINE kept == {n \in W!Names : cache[n] # 0}
<1>1. CASE kept = {}
  <2>1. W!Cached = 0 BY <1>1 DEF W!Cached
  <2>2. active.rev = 0 BY <1>1 DEF CacheInv
  <2> QED BY <2>1, <2>2 DEF WorkerTyped
<1>2. CASE kept # {}
  <2>1. kept \subseteq Nat BY DEF W!Names
  <2>2. W!Min(kept) \in kept
    <3> HIDE DEF kept
    <3> QED BY <1>2, <2>1, LeastOf
  <2>3. W!Cached = cache[W!Min(kept)] BY <1>2 DEF W!Cached
  <2> QED BY <2>2, <2>3 DEF WorkerTyped, CacheInv
<1> QED BY <1>1, <1>2

\* A window navigates: it gets what is published or what is kept.
LEMMA NavigateKeeps ==
  ASSUME WorkerInv, NEW w \in Windows, W!Navigate(w), UNCHANGED reloads
  PROVE  WorkerInv'
<1> USE DEF WorkerInv, W!WorkerAssumption
<1>0. UNCHANGED <<served, net, failures, active, waiting, claims, checked, bundles>>
  BY DEF W!Navigate, W!worker
<1>1. \/ UNCHANGED cache
      \/ active.rev # 0 /\ cache' = [cache EXCEPT ![active.name] = served.build]
  BY DEF W!Navigate, W!PutIndex
<1>2. /\ win'[w] = IF net = "online" THEN [W!Closed EXCEPT !.phase = "loading", !.build = served.build]
                   ELSE IF net = "failing" THEN [W!Closed EXCEPT !.phase = "refused"]
                   ELSE W!Offline(w)
      /\ \A x \in Windows \ {w} : win'[x] = win[x]
      /\ win' = [x \in Windows |-> win'[x]]
  BY DEF W!Navigate, WorkerTyped
<1>3. /\ win'[w] \in Views /\ win'[w].events = 0
      /\ Listening(win'[w]) => active.build <= win'[w].build
  <2>0. W!Closed = [phase |-> "closed", build |-> 0, events |-> 0, refreshing |-> FALSE,
                    missed |-> FALSE, kept |-> FALSE]
    BY DEF W!Closed
  <2>1. CASE net = "online"
    <3>1. win'[w] = [phase |-> "loading", build |-> served.build, events |-> 0, refreshing |-> FALSE,
                     missed |-> FALSE, kept |-> FALSE]
      BY <1>2, <2>0, <2>1
    <3> QED BY <3>1 DEF WorkerTyped, CacheInv, Views, WindowPhases, Listening
  <2>2. CASE net = "failing"
    <3>1. win'[w] = [phase |-> "refused", build |-> 0, events |-> 0, refreshing |-> FALSE,
                     missed |-> FALSE, kept |-> FALSE]
      BY <1>2, <2>0, <2>2
    <3> QED BY <3>1 DEF Views, WindowPhases, Listening
  <2>3. CASE net \notin {"online", "failing"}
    <3>1. win'[w] = [phase |-> IF active.rev = 0 \/ W!Cached = 0 THEN "unreachable"
                               ELSE IF W!Cached = W!Broken THEN "refused" ELSE "loading",
                     build |-> IF active.rev = 0 THEN 0 ELSE W!Cached, events |-> 0,
                     refreshing |-> FALSE, missed |-> FALSE, kept |-> active.rev # 0]
      BY <1>2, <2>0, <2>3 DEF W!Offline
    <3>2. /\ W!Cached \in Nat
          /\ active.rev # 0 => W!Cached # 0
          /\ W!Cached # 0 => active.build <= W!Cached
      BY CachedIsKept
    <3> HIDE DEF WorkerInv
    <3> QED BY <3>1, <3>2 DEF Views, WindowPhases, Listening
  <2> QED BY <2>1, <2>2, <2>3
<1>4. WorkerTyped'
  BY <1>0, <1>1, <1>2, <1>3 DEF WorkerTyped
<1>5. CacheInv'
  BY <1>0, <1>1 DEF CacheInv, WorkerTyped
<1>6. WindowInv'
  <2>1. ASSUME NEW x \in Windows
        PROVE  /\ Listening(win'[x]) => active.build <= win'[x].build
               /\ reloads[x] <= claims
               /\ win'[x].events > 0 /\ ~ win'[x].refreshing => reloads[x] < claims
    <3>1. reloads[x] <= claims
      BY DEF WindowInv
    <3>2. CASE x = w
      BY <1>3, <3>1, <3>2
    <3>3. CASE x # w
      BY <1>2, <3>1, <3>3 DEF WindowInv
    <3> QED BY <3>2, <3>3
  <2> QED BY <1>0, <2>1 DEF WindowInv
<1> QED BY <1>0, <1>4, <1>5, <1>6

\* A step that leaves the worker in control, the caches and the history alone,
\* and the windows no more behind than they were.
WaitingMoves ==
  \/ waiting' = waiting
  \/ waiting'.rev = 0 /\ ~ waiting'.installed /\ waiting'.build <= served'.build
  \/ /\ waiting.rev = 0 /\ ~ waiting'.installed /\ waiting'.name \in W!Names
     /\ waiting'.build = served'.build
NoMoreBehind ==
  \A w \in Windows :
    /\ Listening(win'[w]) => Listening(win[w]) /\ win'[w].build = win[w].build
    /\ win'[w].events > 0 /\ ~ win'[w].refreshing => win[w].events > 0 /\ ~ win[w].refreshing
LEMMA WindowsMove ==
  ASSUME WorkerInv, UNCHANGED <<active, claims, cache, reloads>>, WorkerTyped',
         served.build <= served'.build, WaitingMoves, NoMoreBehind
  PROVE  WorkerInv'
<1> USE DEF WorkerInv
<1>1. CacheInv'
  BY DEF CacheInv, WorkerTyped, Workers, WaitingMoves
<1>2. WindowInv'
  BY DEF WindowInv, NoMoreBehind
<1> QED BY <1>1, <1>2 DEF W!WorkerAssumption

\* Every step keeps the invariant.
LEMMA WorkerStep == ASSUME WorkerInv, W!Next PROVE WorkerInv'
<1> USE DEF W!WorkerAssumption
<1>0. WorkerTyped BY DEF WorkerInv
<1>1. ASSUME NEW c \in BOOLEAN, NEW r \in BOOLEAN, W!Deploy(c, r) PROVE WorkerInv'
  <2>1. UNCHANGED <<net, failures, active, waiting, claims, checked, cache, bundles, win, reloads>>
    BY <1>1 DEF W!Deploy, W!worker
  <2>2. served' \in [build : Nat \ {0}, rev : Nat \ {0}, name : Nat \ {0}]
        /\ served.build <= served'.build /\ served'.build <= MaxBuilds /\ served'.name <= served'.build
    BY <1>0, <1>1 DEF W!Deploy, WorkerInv, WorkerTyped
  <2>3. WorkerTyped'
    BY <1>0, <2>1, <2>2 DEF WorkerTyped
  <2>4. WaitingMoves /\ NoMoreBehind
    BY <2>1 DEF WaitingMoves, NoMoreBehind
  <2> QED BY <2>1, <2>2, <2>3, <2>4, WindowsMove
<1>2. ASSUME NEW n \in W!Nets, W!Connection(n) PROVE WorkerInv'
  <2>1. UNCHANGED <<served, active, waiting, claims, checked, cache, bundles, win, reloads>>
    BY <1>2 DEF W!Connection, W!worker
  <2>2. WorkerTyped' /\ served.build <= served'.build
    BY <1>0, <2>1 DEF WorkerTyped
  <2>3. WaitingMoves /\ NoMoreBehind
    BY <2>1 DEF WaitingMoves, NoMoreBehind
  <2> QED BY <2>1, <2>2, <2>3, WindowsMove
<1>3. ASSUME NEW w \in Windows, W!Visit(w) PROVE WorkerInv'
  BY <1>3, NavigateKeeps DEF W!Visit
<1>4. ASSUME NEW w \in Windows, W!Reload(w) PROVE WorkerInv'
  BY <1>4, NavigateKeeps DEF W!Reload
<1>5. ASSUME NEW w \in Windows, W!Close(w) PROVE WorkerInv'
  <2>1. UNCHANGED <<served, net, failures, active, waiting, claims, checked, cache, bundles, reloads>>
        /\ win' = [win EXCEPT ![w] = W!Closed]
    BY <1>5 DEF W!Close, W!worker
  <2>2. W!Closed \in Views /\ ~ Listening(W!Closed) /\ W!Closed.events = 0
    BY DEF W!Closed, Views, WindowPhases, Listening
  <2>3. WorkerTyped'
    BY <1>0, <2>1, <2>2 DEF WorkerTyped
  <2>4. ASSUME NEW x \in Windows
        PROVE /\ Listening(win'[x]) => Listening(win[x]) /\ win'[x].build = win[x].build
              /\ win'[x].events > 0 /\ ~ win'[x].refreshing => win[x].events > 0 /\ ~ win[x].refreshing
    BY <1>0, <2>1, <2>2 DEF WorkerTyped
  <2>5. served.build <= served'.build BY <1>0, <2>1 DEF WorkerTyped
  <2>6. WaitingMoves /\ NoMoreBehind
    BY <2>1, <2>4 DEF WaitingMoves, NoMoreBehind
  <2> QED BY <2>1, <2>3, <2>5, <2>6, WindowsMove
<1>6. ASSUME NEW w \in Windows, W!LoadBundle(w) PROVE WorkerInv'
  <2>1. UNCHANGED <<served, net, failures, active, waiting, claims, checked, cache, reloads>>
    BY <1>6 DEF W!LoadBundle, W!worker
  <2>2. PICK phase \in {"open", "blank"} : win' = [win EXCEPT ![w].phase = phase]
    BY <1>6 DEF W!LoadBundle
  <2>3. WorkerTyped'
    BY <1>0, <2>1, <2>2 DEF WorkerTyped, Views, WindowPhases
  <2>4. ASSUME NEW x \in Windows
        PROVE /\ Listening(win'[x]) => Listening(win[x]) /\ win'[x].build = win[x].build
              /\ win'[x].events > 0 /\ ~ win'[x].refreshing => win[x].events > 0 /\ ~ win[x].refreshing
    BY <1>0, <1>6, <2>2 DEF WorkerTyped, Views, Listening, W!LoadBundle
  <2>5. served.build <= served'.build BY <1>0, <2>1 DEF WorkerTyped
  <2>6. WaitingMoves /\ NoMoreBehind
    BY <2>1, <2>4 DEF WaitingMoves, NoMoreBehind
  <2> QED BY <2>1, <2>3, <2>5, <2>6, WindowsMove
<1>7. ASSUME NEW w \in Windows, W!Check(w) PROVE WorkerInv'
  <2>1. UNCHANGED <<served, net, failures, active, claims, cache, bundles, win, reloads>>
    BY <1>7 DEF W!Check
  <2>2. \/ waiting' = waiting
        \/ /\ waiting.rev = 0
           /\ waiting' = [rev |-> served.rev, name |-> served.name,
                          build |-> served.build, installed |-> FALSE]
    BY <1>7 DEF W!Check
  <2>3. WorkerTyped'
    <3>1. served.rev \in Nat /\ served.name \in Nat /\ served.build \in Nat /\ waiting \in Workers
      BY <1>0 DEF WorkerTyped
    <3>2. [rev |-> served.rev, name |-> served.name, build |-> served.build, installed |-> FALSE] \in Workers
      BY <3>1 DEF Workers
    <3>3. waiting' \in Workers
      BY <2>2, <3>1, <3>2
    <3> QED BY <1>0, <2>1, <3>3 DEF WorkerTyped
  <2>4. served.build <= served'.build BY <1>0, <2>1 DEF WorkerTyped
  <2>5. served.name \in W!Names BY <1>0 DEF WorkerTyped, WorkerInv, W!Names
  <2>6. WaitingMoves /\ NoMoreBehind
    BY <2>1, <2>2, <2>5 DEF WaitingMoves, NoMoreBehind
  <2> QED BY <2>1, <2>3, <2>4, <2>6, WindowsMove
<1>8. CASE W!Install
  <2>1. UNCHANGED <<served, net, failures, active, bundles, win, reloads, claims, checked>>
        /\ cache' = [cache EXCEPT ![waiting.name] = served.build]
        /\ waiting' = [waiting EXCEPT !.installed = TRUE]
        /\ waiting.rev # 0
    BY <1>8 DEF W!Install
  <2>2. /\ waiting' = [rev |-> waiting.rev, name |-> waiting.name, build |-> waiting.build,
                       installed |-> TRUE]
        /\ waiting.name \in W!Names
    BY <1>0, <2>1 DEF WorkerTyped, Workers, WorkerInv, CacheInv
  <2>3. WorkerTyped'
    BY <1>0, <2>1, <2>2 DEF WorkerTyped, Workers
  <2>4. CacheInv'
    BY <1>0, <2>1, <2>2 DEF WorkerTyped, Workers, WorkerInv, CacheInv
  <2>5. WindowInv'
    BY <2>1 DEF WorkerInv, WindowInv
  <2> QED BY <2>3, <2>4, <2>5 DEF WorkerInv
<1>9. CASE W!InstallFails
  <2>1. UNCHANGED <<served, net, active, cache, bundles, win, reloads, claims, checked>>
        /\ waiting' = W!NoWorker
    BY <1>9 DEF W!InstallFails
  <2>2. waiting' = [rev |-> 0, name |-> 0, build |-> 0, installed |-> FALSE]
    BY <2>1 DEF W!NoWorker
  <2>3. WorkerTyped'
    BY <1>0, <2>1, <2>2 DEF WorkerTyped, Workers
  <2>4. served.build <= served'.build /\ waiting'.rev = 0 /\ ~ waiting'.installed /\ waiting'.build <= served'.build
    BY <1>0, <2>1, <2>2 DEF WorkerTyped
  <2>5. WaitingMoves /\ NoMoreBehind
    BY <2>1, <2>4 DEF WaitingMoves, NoMoreBehind
  <2> QED BY <2>1, <2>3, <2>4, <2>5, WindowsMove
<1>10. CASE W!Activate
  <2>1. /\ UNCHANGED <<served, net, failures, bundles, reloads, checked>>
        /\ cache' = [n \in W!Names |-> IF n = waiting.name THEN cache[n] ELSE 0]
        /\ active' = waiting /\ waiting' = W!NoWorker
        /\ claims' = claims + 1 /\ waiting.installed
    BY <1>10 DEF W!Activate, W!DeleteOthers
  <2>2. waiting' = [rev |-> 0, name |-> 0, build |-> 0, installed |-> FALSE]
    BY <2>1 DEF W!NoWorker
  <2>3. ASSUME NEW x \in Windows
        PROVE  /\ win'[x] \in Views /\ ~ Listening(win'[x])
               /\ win'[x].events > 0 /\ ~ win'[x].refreshing =>
                    win[x].phase = "open" \/ (win[x].events > 0 /\ ~ win[x].refreshing)
    <3>1. win[x] \in Views BY <1>0 DEF WorkerTyped
    <3>2. CASE win[x].phase = "open"
      <4>1. win'[x] = [win[x] EXCEPT !.events = @ + 1]
        BY <1>10, <3>2 DEF W!Activate
      <4> QED BY <3>1, <3>2, <4>1 DEF Views, Listening
    <3>3. CASE win[x].phase = "loading"
      <4>1. win'[x] = [win[x] EXCEPT !.missed = TRUE]
        BY <1>10, <3>3 DEF W!Activate
      <4> QED BY <3>1, <3>3, <4>1 DEF Views, Listening
    <3>4. CASE win[x].phase \notin {"open", "loading"}
      <4>1. win'[x] = win[x]
        BY <1>10, <3>4 DEF W!Activate
      <4> QED BY <3>1, <3>4, <4>1 DEF Listening
    <3> QED BY <3>2, <3>3, <3>4
  <2>4. win' = [x \in Windows |-> win'[x]]
    BY <1>10 DEF W!Activate
  <2>5. WorkerTyped'
    BY <1>0, <2>1, <2>2, <2>3, <2>4 DEF WorkerTyped, Workers
  <2>6. CacheInv'
    BY <1>0, <2>1, <2>2 DEF WorkerTyped, Workers, WorkerInv, CacheInv
  <2>7. WindowInv'
    BY <1>0, <2>1, <2>3 DEF WorkerTyped, WorkerInv, WindowInv
  <2> QED BY <2>5, <2>6, <2>7 DEF WorkerInv
<1>11. ASSUME NEW w \in Windows, W!ControllerChange(w) PROVE WorkerInv'
  <2>1. /\ UNCHANGED <<served, net, failures, active, waiting, claims, checked, cache, bundles>>
        /\ win[w].events > 0
        /\ win' = [win EXCEPT ![w].events = @ - 1, ![w].refreshing = TRUE]
        /\ reloads' = [reloads EXCEPT ![w] = IF win[w].refreshing THEN @ ELSE @ + 1]
    BY <1>11 DEF W!ControllerChange, W!worker
  <2>2. /\ win'[w] \in Views /\ win'[w].refreshing
        /\ \A x \in Windows \ {w} : win'[x] = win[x] /\ reloads'[x] = reloads[x]
        /\ win' = [x \in Windows |-> win'[x]]
    <3>1. win[w] \in Views /\ win[w].events \in Nat \ {0}
      BY <1>0, <2>1 DEF WorkerTyped, Views
    <3>2. win'[w] = [win[w] EXCEPT !.events = @ - 1, !.refreshing = TRUE]
      BY <1>0, <2>1 DEF WorkerTyped
    <3>3. win'[w] \in Views /\ win'[w].refreshing
      <4> DEFINE v == win[w]
      <4>1. v.events - 1 \in Nat
        BY <3>1
      <4>2. v = [phase |-> v.phase, build |-> v.build, events |-> v.events, refreshing |-> v.refreshing,
                 missed |-> v.missed, kept |-> v.kept]
            /\ v.phase \in WindowPhases /\ v.build \in Nat /\ v.missed \in BOOLEAN /\ v.kept \in BOOLEAN
        BY <3>1 DEF Views
      <4>3. win'[w] = [phase |-> v.phase, build |-> v.build, events |-> v.events - 1, refreshing |-> TRUE,
                       missed |-> v.missed, kept |-> v.kept]
        BY <3>2, <4>2
      <4> HIDE DEF v
      <4> QED BY <4>1, <4>2, <4>3 DEF Views
    <3> QED BY <1>0, <2>1, <3>3 DEF WorkerTyped
  <2>3. reloads'[w] = IF win[w].refreshing THEN reloads[w] ELSE reloads[w] + 1
    BY <1>0, <2>1 DEF WorkerTyped
  <2>4. WorkerTyped'
    BY <1>0, <2>1, <2>2 DEF WorkerTyped
  <2>5. CacheInv'
    BY <2>1 DEF WorkerInv, CacheInv
  <2>6. ASSUME NEW x \in Windows
        PROVE  /\ Listening(win'[x]) => active.build <= win'[x].build
               /\ reloads'[x] <= claims
               /\ win'[x].events > 0 /\ ~ win'[x].refreshing => reloads'[x] < claims
    <3>1. CASE x = w
      BY <1>0, <2>1, <2>2, <2>3, <3>1 DEF WorkerInv, WorkerTyped, WindowInv, Listening
    <3>2. CASE x # w
      BY <2>2, <3>2 DEF WorkerInv, WindowInv
    <3> QED BY <3>1, <3>2
  <2> QED BY <2>1, <2>4, <2>5, <2>6 DEF WorkerInv, WindowInv
<1> QED
  BY <1>1, <1>2, <1>3, <1>4, <1>5, <1>6, <1>7, <1>8, <1>9, <1>10, <1>11 DEF W!Next

\* The invariant of the worker always holds.
LEMMA WorkerInvariant == W!WorkerAssumption => (W!Spec => []WorkerInv)
<1>1. W!WorkerAssumption /\ W!Init => WorkerInv
  <2> SUFFICES ASSUME W!WorkerAssumption, W!Init PROVE WorkerInv
    OBVIOUS
  <2>1. WorkerTyped
    BY DEF W!Init, WorkerTyped, Workers, Views, WindowPhases, W!NoWorker, W!Closed, W!WorkerAssumption
  <2>2. CacheInv /\ WindowInv
    BY DEF W!Init, CacheInv, WindowInv, W!NoWorker, W!Closed, Listening
  <2> QED BY <2>1, <2>2 DEF WorkerInv
<1>2. WorkerInv /\ [W!Next]_W!vars => WorkerInv'
  <2>1. CASE WorkerInv /\ W!Next
    BY <2>1, WorkerStep
  <2>2. CASE WorkerInv /\ UNCHANGED W!vars
    BY <2>2 DEF WorkerInv, W!WorkerAssumption, W!vars, W!worker, WorkerTyped, CacheInv, WindowInv
  <2> QED BY <2>1, <2>2
<1> QED BY <1>1, <1>2, PTL DEF W!Spec

\* The worker keeps a shell a build published for as long as it is in control; a
\* window that heard of a take-over shows that build or a later one, though its
\* reload found no network; and a take-over reloads a window once at most: for any
\* windows, deployments, renamed caches and half-done installations (sw.js:12-49, registerServiceWorker.ts:8-27).
THEOREM WorkerKeepsItsWindows ==
  W!WorkerAssumption =>
    (W!Spec => [](W!OfflineAnswered /\ W!WindowFollowsWorker /\ W!OneReloadPerTakeOver))
<1>1. WorkerInv => W!OfflineAnswered
  BY CachedIsKept DEF WorkerInv, W!OfflineAnswered
<1>2. WorkerInv => W!WindowFollowsWorker
  BY DEF WorkerInv, WorkerTyped, WindowInv, Listening, W!WindowFollowsWorker, W!Settled
<1>3. WorkerInv => W!OneReloadPerTakeOver
  BY DEF WorkerInv, WindowInv, W!OneReloadPerTakeOver
<1> QED BY <1>1, <1>2, <1>3, WorkerInvariant, PTL

-----------------------------------------------------------------------------
(* The dialog in which an account is edited (UserEditing).                    *)

CONSTANTS Fields, Values
VARIABLES row, own, signedIn, filter, list, form, chain, info, confirm, exact, foreign, suspended

D == INSTANCE UserEditing

(* What differs between the form and the account was typed by the            *)
(* administrator or changed by somebody else.                                *)
FormIsExplained ==
  form.open => \A f \in Fields : form.fields[f] # row.fields[f] => f \in form.touched \cup foreign
(* What a save that started from the true row has still to send or has sent. *)
SaveInv ==
  /\ chain # {} => form.open /\ info # "saved"
  /\ form = D!Closed => info # "saved"
  /\ exact /\ form.open /\ (chain # {} \/ info = "saved") =>
       \A f \in Fields \ chain : row.fields[f] = form.fields[f]
EditingInv == D!EditingAssumption /\ D!EditingTypeOK /\ FormIsExplained /\ SaveInv

(* An open form has its fields. *)
Forms == [open : {TRUE}, fields : D!Rows, password : BOOLEAN, touched : SUBSET Fields]
LEMMA OpenForm ==
  ASSUME D!EditingTypeOK, form.open
  PROVE  /\ form \in Forms
         /\ form = [open |-> TRUE, fields |-> form.fields, password |-> form.password,
                    touched |-> form.touched]
         /\ form.fields \in D!Rows /\ form.password \in BOOLEAN /\ form.touched \subseteq Fields
<1>1. D!Closed.open = FALSE
  BY DEF D!Closed
<1>2. form # D!Closed
  BY <1>1
<1>3. form \in Forms
  BY <1>2 DEF D!EditingTypeOK, Forms
<1> HIDE DEF D!Closed
<1> QED BY <1>3 DEF Forms

(* A group that is saved is written as the form has it. *)
LEMMA PutFacts ==
  ASSUME EditingInv, form.open, NEW f \in Fields \cup {"password"}
  PROVE  /\ D!Put(f) \in [fields : D!Rows, active : BOOLEAN]
         /\ D!Put(f).fields = [g \in Fields |-> IF g = f THEN form.fields[f] ELSE row.fields[g]]
<1>1. /\ row \in [fields : D!Rows, active : BOOLEAN]
      /\ form \in Forms
      /\ "password" \notin Fields
  BY OpenForm DEF EditingInv, D!EditingTypeOK, D!EditingAssumption
<1>2. /\ row = [fields |-> row.fields, active |-> row.active]
      /\ row.fields \in D!Rows /\ form.fields \in D!Rows
      /\ row.active \in BOOLEAN
  BY <1>1 DEF Forms
<1>3. CASE f = "password"
  <2>1. D!Put(f) = row
    BY <1>3 DEF D!Put
  <2> QED BY <2>1, <1>1, <1>2, <1>3 DEF D!Rows
<1>4. CASE f \in Fields
  <2>1. D!Put(f) = [fields |-> [row.fields EXCEPT ![f] = form.fields[f]], active |-> row.active]
    BY <1>1, <1>2, <1>4 DEF D!Put
  <2> QED BY <2>1, <1>2, <1>4 DEF D!Rows
<1> QED BY <1>3, <1>4

(* The list, the filter and the dialogs: the row and the save stay. *)
LEMMA DialogsKeep ==
  ASSUME EditingInv,
         D!Refetch \/ D!Filter \/ D!OpenEdit \/ D!CloseModal \/ D!SaveFails
         \/ D!AskToggle \/ D!CancelToggle \/ D!SignIn
  PROVE  EditingInv'
<1> USE DEF EditingInv, D!EditingTypeOK, FormIsExplained, SaveInv, D!None, D!Closed, D!Idle, D!Known
<1>1. CASE D!Refetch
  BY <1>1 DEF D!Refetch
<1>2. CASE D!Filter
  BY <1>2 DEF D!Filter
<1>3. CASE D!OpenEdit
  <2>1. list \in [known : {TRUE}, fields : D!Rows, active : BOOLEAN]
    <3>1. D!None.known = FALSE /\ list.known
      BY <1>3 DEF D!OpenEdit
    <3>2. list # D!None
      BY <3>1
    <3> QED BY <3>2
  <2>2. /\ form' = [open |-> TRUE, fields |-> list.fields, password |-> FALSE, touched |-> {}]
        /\ foreign' = {f \in Fields : list.fields[f] # row.fields[f]}
        /\ info' = "none" /\ chain = {}
        /\ UNCHANGED <<row, list, chain, exact>>
    BY <1>3 DEF D!OpenEdit
  <2>3. form' \in [open : {TRUE}, fields : D!Rows, password : BOOLEAN, touched : SUBSET Fields]
    BY <2>1, <2>2
  <2> QED BY <2>2, <2>3
<1>4. CASE D!CloseModal
  BY <1>4 DEF D!CloseModal
<1>5. CASE D!SaveFails
  BY <1>5 DEF D!SaveFails
<1>6. CASE D!AskToggle
  BY <1>6 DEF D!AskToggle
<1>7. CASE D!CancelToggle
  BY <1>7 DEF D!CancelToggle
<1>8. CASE D!SignIn
  BY <1>8 DEF D!SignIn
<1> QED BY <1>1, <1>2, <1>3, <1>4, <1>5, <1>6, <1>7, <1>8

(* What the administrator types, and the changes of others. *)
LEMMA EditsKeep ==
  ASSUME EditingInv, D!Type \/ D!Toggle \/ D!Other
  PROVE  EditingInv'
<1>0. /\ row = [fields |-> row.fields, active |-> row.active]
      /\ row.fields \in [Fields -> Values] /\ row.active \in BOOLEAN
  BY DEF EditingInv, D!EditingTypeOK, D!Rows
<1>1. CASE D!Type
  <2> USE DEF EditingInv, D!EditingTypeOK, FormIsExplained, SaveInv, D!Closed, D!Idle
  <2>1. /\ form = [open |-> TRUE, fields |-> form.fields, password |-> form.password,
                   touched |-> form.touched]
        /\ form.fields \in [Fields -> Values] /\ form.password \in BOOLEAN
        /\ form.touched \subseteq Fields
    BY <1>1, OpenForm DEF D!Type, D!Rows
  <2>2. /\ chain = {} /\ exact' = FALSE
        /\ UNCHANGED <<row, list, chain, info, foreign>>
    BY <1>1 DEF D!Type
  <2>3. \/ \E f \in Fields, v \in Values :
             form' = [open |-> TRUE, fields |-> [form.fields EXCEPT ![f] = v],
                      password |-> form.password, touched |-> form.touched \cup {f}]
        \/ form' = [open |-> TRUE, fields |-> form.fields, password |-> TRUE,
                    touched |-> form.touched]
    BY <1>1, <2>1 DEF D!Type
  <2>4. /\ form'.open = TRUE
        /\ form' \in [open : {TRUE}, fields : D!Rows, password : BOOLEAN, touched : SUBSET Fields]
        /\ \A g \in Fields : form'.fields[g] # row.fields[g] => g \in form'.touched \cup foreign
    <3>1. ASSUME NEW f \in Fields, NEW v \in Values,
                 form' = [open |-> TRUE, fields |-> [form.fields EXCEPT ![f] = v],
                          password |-> form.password, touched |-> form.touched \cup {f}]
          PROVE  <2>4!:
      <4>1. /\ form'.open = TRUE /\ form'.fields = [form.fields EXCEPT ![f] = v]
            /\ form'.password = form.password /\ form'.touched = form.touched \cup {f}
        BY <3>1
      <4>2. \A g \in Fields \ {f} : form'.fields[g] = form.fields[g]
        BY <4>1, <2>1
      <4>3. form'.fields \in D!Rows
        BY <4>1, <2>1, <3>1 DEF D!Rows
      <4>4. form' \in [open : {TRUE}, fields : D!Rows, password : BOOLEAN, touched : SUBSET Fields]
        BY <3>1, <4>1, <4>3, <2>1
      <4> QED BY <4>1, <4>2, <4>4, <1>1 DEF D!Type
    <3>2. ASSUME form' = [open |-> TRUE, fields |-> form.fields, password |-> TRUE,
                          touched |-> form.touched]
          PROVE  <2>4!:
      BY <3>2, <2>1, <1>1 DEF D!Rows, D!Type
    <3> QED BY <2>3, <3>1, <3>2
  <2>5. D!EditingTypeOK'
    BY <2>2, <2>4
  <2>6. FormIsExplained'
    BY <2>2, <2>4
  <2>7. form' # D!Closed
    BY <2>4
  <2>8. SaveInv'
    BY <2>2, <2>7
  <2> QED BY <2>5, <2>6, <2>8
<1>2. CASE D!Toggle
  <2> USE DEF EditingInv, D!EditingTypeOK, FormIsExplained, SaveInv, D!Closed, D!Idle
  <2>1. row' = [fields |-> row.fields, active |-> ~row.active]
    BY <1>2, <1>0 DEF D!Toggle
  <2> QED BY <1>2, <2>1, <1>0 DEF D!Toggle, D!Rows
<1>3. CASE D!Other
  <2> USE DEF EditingInv, D!EditingTypeOK, FormIsExplained, SaveInv
  <2>1. exact' = FALSE /\ UNCHANGED <<list, form, chain, info>>
    BY <1>3 DEF D!Other
  <2>2. ASSUME NEW f \in Fields, NEW v \in Values \ {row.fields[f]},
               row' = [row EXCEPT !.fields[f] = v],
               foreign' = IF form.open THEN foreign \cup {f} ELSE {}
        PROVE  EditingInv'
    <3>1. row' = [fields |-> [row.fields EXCEPT ![f] = v], active |-> row.active]
      BY <2>2, <1>0
    <3>2. \A g \in Fields \ {f} : row'.fields[g] = row.fields[g]
      BY <3>1, <1>0
    <3>3. row' \in [fields : D!Rows, active : BOOLEAN]
      BY <3>1, <1>0 DEF D!Rows
    <3>4. form.open => \A g \in Fields : form.fields[g] # row'.fields[g] =>
                                         g \in form.touched \cup foreign'
      BY <2>2, <3>2
    <3> QED BY <2>1, <3>3, <3>4 DEF D!Closed
  <2>3. CASE row' = [row EXCEPT !.active = ~@] /\ UNCHANGED foreign
    <3>1. row' = [fields |-> row.fields, active |-> ~row.active]
      BY <2>3, <1>0
    <3> QED BY <2>1, <2>3, <3>1, <1>0 DEF D!Rows, D!Closed
  <2> QED BY <1>3, <2>2, <2>3 DEF D!Other
<1> QED BY <1>1, <1>2, <1>3

(* The save is compared with the list, and its requests are answered. *)
LEMMA SavesKeep ==
  ASSUME EditingInv, D!Submit \/ D!Save
  PROVE  EditingInv'
<1>1. CASE D!Submit
  <2> USE DEF EditingInv, D!EditingTypeOK, FormIsExplained, SaveInv
  <2>1. /\ form.open /\ chain' = {f \in Fields \cup {"password"} : D!Changed(f)}
        /\ info' \in {"nothing changed", "none"}
        /\ exact' = (D!Known /\ list.fields = row.fields)
        /\ UNCHANGED <<row, list, form, foreign>>
    BY <1>1 DEF D!Submit, D!Idle
  <2>2. ASSUME exact', NEW f \in Fields \ chain' PROVE row.fields[f] = form.fields[f]
    <3>1. ~D!Changed(f) /\ f # "password"
      BY <2>1, <2>2 DEF D!EditingAssumption, D!Order
    <3>2. form.fields[f] = list.fields[f]
      BY <3>1 DEF D!Changed
    <3> QED BY <3>2, <2>1, <2>2
  <2>3. chain' \subseteq Fields \cup {"password"}
    BY <2>1
  <2> QED BY <2>1, <2>2, <2>3 DEF D!Closed
<1>2. CASE D!Save
  <2>1. PICK f \in chain :
           /\ row' = D!Put(f)
           /\ chain' = chain \ {f}
           /\ info' = IF chain' = {} THEN "saved" ELSE info
           /\ form' = IF f = "password" THEN [form EXCEPT !.password = FALSE] ELSE form
           /\ UNCHANGED <<list, exact, foreign>>
    BY <1>2 DEF D!Save
  <2>2. /\ form.open /\ f \in Fields \cup {"password"}
        /\ form = [open |-> TRUE, fields |-> form.fields, password |-> form.password,
                   touched |-> form.touched]
        /\ form \in [open : {TRUE}, fields : D!Rows, password : BOOLEAN, touched : SUBSET Fields]
    BY <2>1, OpenForm DEF EditingInv, SaveInv, D!EditingTypeOK, Forms
  <2>3. /\ row' \in [fields : D!Rows, active : BOOLEAN]
        /\ row'.fields = [g \in Fields |-> IF g = f THEN form.fields[f] ELSE row.fields[g]]
    BY <2>1, <2>2, PutFacts
  <2>4. /\ form'.open = TRUE /\ form'.fields = form.fields /\ form'.touched = form.touched
        /\ form' \in [open : {TRUE}, fields : D!Rows, password : BOOLEAN, touched : SUBSET Fields]
    BY <2>1, <2>2
  <2>5. FormIsExplained'
    BY <2>1, <2>2, <2>3, <2>4 DEF FormIsExplained, EditingInv
  <2>6. SaveInv'
    <3>1. chain' # {} => info' # "saved"
      BY <2>1 DEF EditingInv, SaveInv
    <3>2. form' # D!Closed
      BY <2>4 DEF D!Closed
    <3>3. ASSUME exact', NEW g \in Fields \ chain' PROVE row'.fields[g] = form'.fields[g]
      BY <2>1, <2>2, <2>3, <2>4, <3>3 DEF EditingInv, SaveInv
    <3> QED BY <2>4, <3>1, <3>2, <3>3 DEF SaveInv
  <2> QED BY <2>1, <2>3, <2>4, <2>5, <2>6 DEF EditingInv, D!EditingTypeOK, D!EditingAssumption
<1> QED BY <1>1, <1>2

(* The invariant holds in every behaviour of the page. *)
LEMMA EditingInvariant == D!EditingAssumption => (D!Spec => []EditingInv)
<1>1. D!EditingAssumption /\ D!Init => EditingInv
  BY DEF D!EditingAssumption, D!Init, EditingInv, D!EditingTypeOK, FormIsExplained, SaveInv,
    D!None, D!Closed, D!Rows
<1>2. EditingInv /\ [D!Next]_(D!vars) => EditingInv'
  <2>1. ASSUME EditingInv, D!Next PROVE EditingInv'
    BY <2>1, DialogsKeep, EditsKeep, SavesKeep DEF D!Next
  <2>2. ASSUME EditingInv, UNCHANGED D!vars PROVE EditingInv'
    BY <2>2 DEF D!vars, EditingInv, D!EditingTypeOK, FormIsExplained, SaveInv, D!Closed
  <2> QED BY <2>1, <2>2
<1> QED BY <1>1, <1>2, PTL DEF D!Spec

(* For any groups of fields, values and administrators: when the dialog says *)
(* the changes are saved and nobody else wrote the account meanwhile, the    *)
(* account holds the form (onSubmit, UsersPage.tsx 322-363).                 *)
THEOREM SavedIsShown == D!EditingAssumption => (D!Spec => []D!SavedAsShown)
<1>1. EditingInv => D!SavedAsShown
  <2> SUFFICES ASSUME EditingInv, info = "saved", exact PROVE row.fields = form.fields
    BY DEF D!SavedAsShown
  <2>1. form.open /\ form.fields \in D!Rows
    <3>1. form.open
      <4>1. form # D!Closed
        BY DEF EditingInv, SaveInv
      <4>2. form \in [open : {TRUE}, fields : D!Rows, password : BOOLEAN, touched : SUBSET Fields]
        BY <4>1 DEF EditingInv, D!EditingTypeOK
      <4> QED BY <4>2
    <3> QED BY <3>1, OpenForm DEF EditingInv
  <2>2. \A f \in Fields : row.fields[f] = form.fields[f]
    BY <2>1 DEF EditingInv, SaveInv
  <2> QED BY <2>1, <2>2 DEF EditingInv, D!EditingTypeOK, D!Rows
<1> QED BY <1>1, EditingInvariant, PTL

(* A save writes no field its administrator did not touch, but for one that  *)
(* somebody else changed since the list was fetched.                         *)
THEOREM SavesWriteWhatWasTyped == D!EditingAssumption => (D!Spec => D!UntouchedKept)
<1>1. EditingInv /\ [D!Next]_(D!vars) => [D!SavesWhatWasTyped]_(D!vars)
  <2> SUFFICES ASSUME EditingInv, D!Next, NEW f \in chain \ chain', row' # row
               PROVE  f \in form.touched \cup foreign \cup {"password"}
    BY DEF D!SavesWhatWasTyped
  <2>1. CASE D!Save
    <3>1. PICK g \in chain : row' = D!Put(g) /\ chain' = chain \ {g}
      BY <2>1 DEF D!Save
    <3>2. f = g /\ form.open /\ f \in Fields \cup {"password"}
      BY <3>1 DEF EditingInv, SaveInv, D!EditingTypeOK
    <3>3. CASE f \in Fields
      <4>1. row'.fields = [h \in Fields |-> IF h = f THEN form.fields[f] ELSE row.fields[h]]
            /\ row' \in [fields : D!Rows, active : BOOLEAN]
        BY <3>1, <3>2, PutFacts
      <4>2. row'.active = row.active
        BY <3>1, <3>2 DEF D!Put, EditingInv, D!EditingTypeOK
      <4>3. row'.fields # row.fields
        BY <4>1, <4>2 DEF EditingInv, D!EditingTypeOK
      <4>4. row.fields[f] # form.fields[f]
        BY <4>1, <4>3 DEF EditingInv, D!EditingTypeOK, D!Rows
      <4> QED BY <3>2, <3>3, <4>4 DEF EditingInv, FormIsExplained
    <3> QED BY <3>2, <3>3
  <2>2. CASE ~D!Save
    BY <2>2 DEF D!Next, D!Refetch, D!Filter, D!OpenEdit, D!Type, D!Submit, D!SaveFails, D!CloseModal,
      D!AskToggle, D!Toggle, D!CancelToggle, D!Other, D!SignIn, D!Idle
  <2> QED BY <2>1, <2>2
<1> QED BY <1>1, EditingInvariant, PTL DEF D!Spec, D!UntouchedKept
=============================================================================
