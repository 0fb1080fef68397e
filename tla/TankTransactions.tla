-------------------------- MODULE TankTransactions --------------------------
(***************************************************************************)
(* One tank, the dialogs open on it and the transactions of their          *)
(* requests, statement by statement.  An operation (start, sendToLab, ...) *)
(* reads the tank, compares the version of the request (assertTank), and   *)
(* later updates the row (move); the database runs it at the Serializable  *)
(* level: it sees the rows as they were at its first statement, waits for  *)
(* the transaction that holds the row, and is aborted if that one changed  *)
(* it.  The browser may give up waiting (15 s) while the transaction goes  *)
(* on, and the operator may confirm the dialog again.  The state of the    *)
(* tank is not kept apart: an equal version means an equal state           *)
(* (VersionTellsChanges of module Plant).                                  *)
(***************************************************************************)
EXTENDS TankRegister

CONSTANTS
  Requests,   \* requests that may be sent; bounds how often a dialog is confirmed
  NoDialog,   \* dialog of a request not sent yet
  NoRequest   \* nobody holds the row; the dialog waits for no answer

ASSUME RequestIds == NoDialog \notin Dialogs /\ NoRequest \notin Requests

VARIABLES
  holder,     \* request whose transaction has updated the row and not ended
  request,    \* request and its transaction
  waiting,    \* request whose answer the dialog waits for (mutation.isPending)
  answer      \* last answer the dialog received

transactionVars == <<holder, request, waiting, answer>>
tankVars == <<registerVars, transactionVars>>

Outcomes == {"OK", "CONFLICT", "SERIALIZATION", "ABORTED"}
Answers == {"NONE", "UNKNOWN"} \cup Outcomes

Sent(d) == [dialog |-> d, phase |-> "SENT", snapshot |-> 0, outcome |-> "NONE"]
NotSent == [Sent(NoDialog) EXCEPT !.phase = "FREE"]

RequestRows ==
  [dialog: Dialogs \cup {NoDialog}, phase: {"FREE", "SENT", "READ", "WRITTEN", "OVER"},
   snapshot: Nat, outcome: Outcomes \cup {"NONE"}]

TransactionsTypeOK ==
  /\ RegisterTypeOK
  /\ holder \in {r \in Requests : request[r].phase = "WRITTEN"} \cup {NoRequest}
  /\ request \in [Requests -> RequestRows]
  /\ waiting \in [Dialogs -> Requests \cup {NoRequest}]
  /\ answer \in [Dialogs -> Answers]

TransactionsInit ==
  /\ RegisterInit
  /\ holder = NoRequest
  /\ request = [r \in Requests |-> NotSent]
  /\ waiting = [d \in Dialogs |-> NoRequest]
  /\ answer = [d \in Dialogs |-> "NONE"]

-----------------------------------------------------------------------------
(* The browser. *)

OpenDialog(d, v) ==
  /\ OpenOn(d, v)
  /\ UNCHANGED transactionVars

\* "Sí, confirmar": disabled while an answer is awaited; the dialog is closed by
\* a success and stays open after any error, with the version it was opened on.
Confirm(d, r) ==
  /\ saw[d] # NotOpened
  /\ waiting[d] = NoRequest
  /\ answer[d] # "OK"
  /\ request[r].phase = "FREE"
  /\ request' = [request EXCEPT ![r] = Sent(d)]
  /\ waiting' = [waiting EXCEPT ![d] = r]
  /\ UNCHANGED <<registerVars, holder, answer>>

Answered(d) ==
  /\ waiting[d] # NoRequest
  /\ request[waiting[d]].phase = "OVER"
  /\ answer' = [answer EXCEPT ![d] = request[waiting[d]].outcome]
  /\ waiting' = [waiting EXCEPT ![d] = NoRequest]
  /\ UNCHANGED <<registerVars, holder, request>>

\* The timeout of the client, or an answer lost on the way.
GiveUp(d) ==
  /\ waiting[d] # NoRequest
  /\ answer' = [answer EXCEPT ![d] = "UNKNOWN"]
  /\ waiting' = [waiting EXCEPT ![d] = NoRequest]
  /\ UNCHANGED <<registerVars, holder, request>>

-----------------------------------------------------------------------------
(* The server and the database. *)

\* The transaction of r ends with outcome o.
Over(r, o) == [request EXCEPT ![r].phase = "OVER", ![r].outcome = o]

\* Mutant of ReadTank: the version of the request is not compared.
ReadTankUnchecked(r) ==
  /\ request[r].phase = "SENT"
  /\ request' = [request EXCEPT ![r].phase = "READ", ![r].snapshot = version]
  /\ UNCHANGED <<registerVars, holder, waiting, answer>>

\* findTank, the first statement, fixes what the transaction sees; assertTank
\* refuses a version that is not the stored one (409).
ReadTank(r) ==
  /\ request[r].phase = "SENT"
  /\ request' = IF saw[request[r].dialog] = version
                THEN [request EXCEPT ![r].phase = "READ", ![r].snapshot = version]
                ELSE Over(r, "CONFLICT")
  /\ UNCHANGED <<registerVars, holder, waiting, answer>>

\* Mutant of WriteTank: the default isolation level and an update by id alone.
WriteTankById(r) ==
  /\ request[r].phase = "READ"
  /\ holder = NoRequest
  /\ request' = [request EXCEPT ![r].phase = "WRITTEN"]
  /\ holder' = r
  /\ UNCHANGED <<registerVars, waiting, answer>>

\* updateMany of move: it waits for the holder of the row.  A row changed since
\* the first statement aborts the transaction with an error nobody maps (500),
\* so the count of updated rows that move compares is never other than one.
WriteTank(r) ==
  /\ request[r].phase = "READ"
  /\ holder = NoRequest
  /\ \/ /\ version = request[r].snapshot
        /\ request' = [request EXCEPT ![r].phase = "WRITTEN"]
        /\ holder' = r
     \/ /\ version # request[r].snapshot
        /\ request' = Over(r, "SERIALIZATION")
        /\ UNCHANGED holder
  /\ UNCHANGED <<registerVars, waiting, answer>>

Commit(r) ==
  /\ request[r].phase = "WRITTEN"
  /\ version' = version + 1
  /\ carried' = carried \cup {request[r].dialog}
  /\ request' = Over(r, "OK")
  /\ holder' = NoRequest
  /\ UNCHANGED <<saw, waiting, answer>>

\* The transaction is rolled back by its limit of five seconds, a deadlock, a
\* conflict with other rows or the end of the server.
Abort(r) ==
  /\ request[r].phase \in {"READ", "WRITTEN"}
  /\ request' = Over(r, "ABORTED")
  /\ holder' = IF holder = r THEN NoRequest ELSE holder
  /\ UNCHANGED <<registerVars, waiting, answer>>

-----------------------------------------------------------------------------
Browser ==
  \E d \in Dialogs :
    \/ \E v \in 0 .. version : OpenDialog(d, v)
    \/ \E r \in Requests : Confirm(d, r)
    \/ Answered(d)
    \/ GiveUp(d)

Statement(r) == ReadTank(r) \/ WriteTank(r) \/ Commit(r)

TransactionsNext == Browser \/ \E r \in Requests : Statement(r) \/ Abort(r)

TransactionsSpec == TransactionsInit /\ [][TransactionsNext]_tankVars

\* The server carries on with every request it has received.
FairTransactions ==
  TransactionsSpec /\ \A r \in Requests : WF_tankVars(Statement(r))

-----------------------------------------------------------------------------
Register == INSTANCE TankRegister

\* The statements of the operations, whatever their interleaving, timeouts and
\* repeated requests, do to the tank what one atomic comparison and write would
\* (plant.service.ts:1078-1082, 2625-2653).
ImplementsRegister == Register!RegisterSpec

\* A success means that the operation was carried out, and a conflict that the
\* tank is no longer as the dialog shows it: no answer is given on a transaction
\* that may still be undone (plant.service.ts:2630-2637).
AnswersAreTrue ==
  \A d \in Dialogs :
    /\ answer[d] = "OK" => d \in carried
    /\ answer[d] = "CONFLICT" => saw[d] # version

\* A request that reached the server ends: no transaction waits for ever for the
\* row, whichever of them are aborted (plant.service.ts:2649-2653).
EveryRequestEnds ==
  \A r \in Requests : request[r].phase = "SENT" ~> request[r].phase = "OVER"

\* docs/OPERACION_PLANTA.md:32: "Cada escritura incluye `version`. Si otro
\* usuario actuó primero, el backend responde `409 Conflict`".  The request that
\* finds the row changed is told so.
LoserGetsConflict ==
  \A r \in Requests :
    (request[r].phase = "OVER" /\ request[r].outcome # "ABORTED"
      /\ request[r].dialog \notin carried) => request[r].outcome = "CONFLICT"
=============================================================================
