--------------------------- MODULE IntegrationInbox ---------------------------
(***************************************************************************)
(* The entrance of industrial events (integration-inbox.service.ts): a     *)
(* sender keeps what occurred in its buffer and sends it in batches, again *)
(* and again until an answer comes; requests and answers may be lost,      *)
(* repeated or overtaken; the server keeps one row for each plant, source  *)
(* and eventId. An event is the pair of its source and its eventId.        *)
(***************************************************************************)
EXTENDS Integers, FiniteSets, Sequences

CONSTANTS
  Sources,        \* integrations of a plant
  Ids,            \* eventIds; two sources may use the same
  BatchLimit,     \* events of a batch (100 in the contract)
  MaxTransit,     \* bound: requests on the way
  MaxOutages      \* bound: times an integration is disabled or its key changed

ASSUME BatchLimitAssumption == BatchLimit \in Nat \ {0}

VARIABLES
  occurred,       \* what happened in the plant
  buffer,         \* what each sender has to deliver yet
  requests,       \* batches on the way to the server: [source, ids]
  answers,        \* answers on the way back: [source, ids]
  enabled,        \* whether the key of a source is accepted
  outages,
  inbox,          \* rows of integrationInbox
  told            \* events reported as new by all answers together

vars == <<occurred, buffer, requests, answers, enabled, outages, inbox, told>>

Events == Sources \X Ids
Of(source, ids) == {<<source, ids[i]>> : i \in DOMAIN ids}
Batches(s) == UNION {[1 .. n -> buffer[s]] : n \in 1 .. BatchLimit}
Repeats(ids) == Cardinality({ids[i] : i \in DOMAIN ids}) # Len(ids)

Init ==
  /\ occurred = {}
  /\ buffer = [s \in Sources |-> {}]
  /\ requests = {}
  /\ answers = {}
  /\ enabled = [s \in Sources |-> TRUE]
  /\ outages = 0
  /\ inbox = {}
  /\ told = 0

(***************************************************************************)
(* The sender. It puts the same event twice in a batch at times, and it    *)
(* forgets events only when an answer tells they were received.            *)
(***************************************************************************)
Occur(s, i) ==
  /\ <<s, i>> \notin occurred
  /\ occurred' = occurred \cup {<<s, i>>}
  /\ buffer' = [buffer EXCEPT ![s] = @ \cup {i}]
  /\ UNCHANGED <<requests, answers, enabled, outages, inbox, told>>

Send(s, ids) ==
  /\ Cardinality(requests) < MaxTransit
  /\ requests' = requests \cup {[source |-> s, ids |-> ids]}
  /\ UNCHANGED <<occurred, buffer, answers, enabled, outages, inbox, told>>

Acknowledge(a) ==
  /\ answers' = answers \ {a}
  /\ buffer' = [buffer EXCEPT ![a.source] = @ \ {a.ids[i] : i \in DOMAIN a.ids}]
  /\ UNCHANGED <<occurred, requests, enabled, outages, inbox, told>>

LoseRequest(r) ==
  /\ requests' = requests \ {r}
  /\ UNCHANGED <<occurred, buffer, answers, enabled, outages, inbox, told>>
LoseAnswer(a) ==
  /\ answers' = answers \ {a}
  /\ UNCHANGED <<occurred, buffer, requests, enabled, outages, inbox, told>>

(***************************************************************************)
(* receive: nothing of a batch with a repeated eventId, nothing without    *)
(* the key of the source; otherwise createMany skips the rows there are.   *)
(* The insertion and the answer are apart: a server that stops between     *)
(* them is a lost answer.                                                  *)
(***************************************************************************)
Accepts(r) == ~Repeats(r.ids) /\ enabled[r.source]
New(r) == Of(r.source, r.ids) \ inbox

\* Mutant of Store: all the events of the batch count as new.
StoreCountingAll(r) ==
  /\ inbox' = inbox \cup Of(r.source, r.ids)
  /\ told' = told + Len(r.ids)
  /\ answers' = answers \cup {r}

\* Mutant of Refused: a refused batch is answered like the others.
AnswerAnyway(r) ==
  /\ UNCHANGED <<inbox, told>>
  /\ answers' = answers \cup {r}

Store(r) ==
  /\ inbox' = inbox \cup Of(r.source, r.ids)
  /\ told' = told + Cardinality(New(r))
  /\ answers' = answers \cup {r}

Refused(r) == UNCHANGED <<inbox, told, answers>>

(* The network may deliver a request again: then it stays on the way *)
Receive(r, again) ==
  /\ requests' = IF again THEN requests ELSE requests \ {r}
  /\ IF Accepts(r) THEN Store(r) ELSE Refused(r)
  /\ UNCHANGED <<occurred, buffer, enabled, outages>>

(* An administrator disables the integration or changes its key; then it is put right *)
Disable(s) ==
  /\ enabled[s] /\ outages < MaxOutages
  /\ outages' = outages + 1
  /\ enabled' = [enabled EXCEPT ![s] = FALSE]
  /\ UNCHANGED <<occurred, buffer, requests, answers, inbox, told>>
Enable(s) ==
  /\ ~enabled[s]
  /\ enabled' = [enabled EXCEPT ![s] = TRUE]
  /\ UNCHANGED <<occurred, buffer, requests, answers, outages, inbox, told>>

Next ==
  \/ \E s \in Sources, i \in Ids : Occur(s, i)
  \/ \E s \in Sources : \E ids \in Batches(s) : Send(s, ids)
  \/ \E r \in requests : LoseRequest(r) \/ Receive(r, TRUE) \/ Receive(r, FALSE)
  \/ \E a \in answers : LoseAnswer(a) \/ Acknowledge(a)
  \/ \E s \in Sources : Disable(s) \/ Enable(s)

Spec == Init /\ [][Next]_vars

(***************************************************************************)
(* Fairness: a sender goes on sending all it has to deliver, no request    *)
(* stays on the way for ever, one sent again and again arrives, and an     *)
(* integration is put right.                                               *)
(***************************************************************************)
Whole(s, ids) == ~Repeats(ids) /\ (Len(ids) = BatchLimit \/ {ids[i] : i \in DOMAIN ids} = buffer[s])
Retry(s, i) ==
  \E ids \in Batches(s) : Whole(s, ids) /\ i \in {ids[j] : j \in DOMAIN ids} /\ Send(s, ids)
Arrive(s, i) ==
  \E r \in requests : /\ r.source = s /\ ~Repeats(r.ids) /\ i \in {r.ids[j] : j \in DOMAIN r.ids}
                      /\ Accepts(r) /\ Receive(r, FALSE)
Leave == \E r \in requests : LoseRequest(r) \/ Receive(r, FALSE)
Fairness ==
  /\ WF_vars(Leave)
  /\ \A s \in Sources : WF_vars(Enable(s))
  /\ \A s \in Sources, i \in Ids : SF_vars(Retry(s, i)) /\ SF_vars(Arrive(s, i))
FairSpec == Spec /\ Fairness

(***************************************************************************)
(* Properties.                                                             *)
(***************************************************************************)
(* Type invariant of the senders, the network and the inbox.               *)
InboxTypeOK ==
  /\ occurred \subseteq Events
  /\ inbox \subseteq Events
  /\ buffer \in [Sources -> SUBSET Ids]
  /\ enabled \in [Sources -> BOOLEAN]
  /\ told \in Nat
  /\ \A r \in requests \cup answers : r.source \in Sources /\ Of(r.source, r.ids) \subseteq Events

(* A sender forgets an event only when its row is there: what occurred is  *)
(* in the buffer or in the inbox, whatever answers are lost or late.       *)
NothingForgotten ==
  \A e \in occurred : e[2] \in buffer[e[1]] \/ e \in inbox

(* The server implements the log of events: each one kept once and counted *)
(* once among the new ones (accepted), and under fairness all of them kept *)
(* (docs/MATRIZ_INTEGRACION_INDUSTRIAL.md:40).                             *)
Log == INSTANCE EventLog WITH kept <- inbox, count <- told, Size <- Cardinality
LogImplemented == Log!Spec
AllKept == Log!LiveSpec
==============================================================================
