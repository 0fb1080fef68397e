----------------------------- MODULE ReadingsProofs -----------------------------
(***************************************************************************)
(* What reaches the server from the plant's equipment.  The entrance of    *)
(* events implements the log of events for any sources, any eventIds and   *)
(* any size of batch, and no event is forgotten; the weights the process   *)
(* keeps are the newest it was sent, for any scales, senders and batches,  *)
(* and the speeds are those of the order in force when they were taken;    *)
(* the injection machines' batches are stored as they are told to be, the  *)
(* line of a machine's states tells what was heard of it and its card says *)
(* what the line ends with, and the pages of its shots go down the table   *)
(* without a hole.                                                         *)
(***************************************************************************)
EXTENDS IntegrationInbox, FiniteSetTheorems, FunctionTheorems, WellFoundedInduction,
        NaturalsInduction, TLAPS

AllBatches == UNION {[1 .. n -> Ids] : n \in 1 .. BatchLimit}
Message == [source : Sources, ids : AllBatches]
OfMessage(r) == Of(r.source, r.ids)

(***************************************************************************)
(* What a sender has to deliver and what is on the way occurred; what is   *)
(* answered is in the inbox.                                               *)
(***************************************************************************)
TypeInv ==
  /\ occurred \subseteq Events /\ inbox \subseteq Events
  /\ buffer \in [Sources -> SUBSET Ids]
  /\ enabled \in [Sources -> BOOLEAN]
  /\ told \in Nat
  /\ requests \subseteq Message /\ answers \subseteq Message
BufferInv == \A s \in Sources : \A i \in buffer[s] : <<s, i>> \in occurred
RequestInv == \A r \in requests : OfMessage(r) \subseteq occurred
AnswerInv == \A a \in answers : OfMessage(a) \subseteq inbox
InboxInv == inbox \subseteq occurred
IInv == TypeInv /\ BufferInv /\ RequestInv /\ AnswerInv /\ InboxInv /\ NothingForgotten

(* A batch names finitely many events of its source *)
LEMMA BatchIsFinite ==
  ASSUME NEW r \in Message
  PROVE  IsFiniteSet(OfMessage(r)) /\ OfMessage(r) \subseteq Events
<1>1. PICK n \in 1 .. BatchLimit : r.ids \in [1 .. n -> Ids]
  BY DEF Message, AllBatches
<1>2. IsFiniteSet(1 .. n)
  BY <1>1, FS_Interval, BatchLimitAssumption
<1>3. OfMessage(r) = {<<r.source, r.ids[i]>> : i \in 1 .. n}
  BY <1>1 DEF OfMessage, Of
<1>4. IsFiniteSet(OfMessage(r))
  <2> DEFINE f == [i \in 1 .. n |-> <<r.source, r.ids[i]>>]
  <2>1. f \in Surjection(1 .. n, OfMessage(r))
    BY <1>3 DEF Surjection
  <2> HIDE DEF f
  <2> QED BY <2>1, <1>2, FS_Surjection
<1>5. OfMessage(r) \subseteq Events
  BY <1>1, <1>3 DEF Message, Events
<1> QED BY <1>4, <1>5

LEMMA NewIsFinite ==
  ASSUME NEW r \in Message
  PROVE  IsFiniteSet(New(r)) /\ Cardinality(New(r)) \in Nat /\ New(r) \subseteq OfMessage(r)
<1>1. New(r) \subseteq OfMessage(r)
  BY DEF New, OfMessage
<1> QED BY <1>1, BatchIsFinite, FS_Subset, FS_CardinalityType

(* A batch taken from a buffer names what occurred *)
LEMMA SentOccurred ==
  ASSUME TypeInv, BufferInv, NEW s \in Sources, NEW ids \in Batches(s)
  PROVE  /\ [source |-> s, ids |-> ids] \in Message
         /\ OfMessage([source |-> s, ids |-> ids]) \subseteq occurred
<1>1. PICK n \in 1 .. BatchLimit : ids \in [1 .. n -> buffer[s]]
  BY DEF Batches
<1>2. buffer[s] \subseteq Ids
  BY DEF TypeInv
<1>3. ids \in [1 .. n -> Ids]
  BY <1>1, <1>2
<1>4. ids \in AllBatches
  BY <1>1, <1>3 DEF AllBatches
<1>5. \A i \in DOMAIN ids : <<s, ids[i]>> \in occurred
  BY <1>1 DEF BufferInv
<1> QED BY <1>4, <1>5 DEF Message, OfMessage, Of

LEMMA InitInv == Init => IInv
  BY DEF Init, IInv, TypeInv, BufferInv, RequestInv, AnswerInv, InboxInv, NothingForgotten, Events

(***************************************************************************)
(* One step for each action.                                               *)
(***************************************************************************)
LEMMA OccurKeeps ==
  ASSUME IInv, NEW s \in Sources, NEW i \in Ids, Occur(s, i) PROVE IInv'
<1> USE DEF IInv
<1>1. TypeInv'
  BY DEF Occur, TypeInv, Events
<1>2. BufferInv'
  BY DEF Occur, TypeInv, BufferInv
<1>3. (RequestInv /\ AnswerInv /\ InboxInv)'
  BY DEF Occur, RequestInv, AnswerInv, InboxInv
<1>4. NothingForgotten'
  <2> SUFFICES ASSUME NEW e \in occurred' PROVE e[2] \in buffer'[e[1]] \/ e \in inbox'
    BY DEF NothingForgotten
  <2>1. CASE e = <<s, i>>
    BY <2>1 DEF Occur, TypeInv
  <2>2. CASE e \in occurred
    <3>1. e[1] \in Sources
      BY <2>2 DEF TypeInv, Events
    <3> QED BY <2>2, <3>1 DEF Occur, TypeInv, NothingForgotten
  <2> QED BY <2>1, <2>2 DEF Occur
<1> QED BY <1>1, <1>2, <1>3, <1>4

LEMMA SendKeeps ==
  ASSUME IInv, NEW s \in Sources, NEW ids \in Batches(s), Send(s, ids) PROVE IInv'
<1>1. /\ [source |-> s, ids |-> ids] \in Message
      /\ OfMessage([source |-> s, ids |-> ids]) \subseteq occurred
  BY SentOccurred DEF IInv
<1>2. TypeInv'
  BY <1>1 DEF IInv, Send, TypeInv
<1>3. RequestInv'
  BY <1>1 DEF IInv, Send, RequestInv
<1>4. (BufferInv /\ AnswerInv /\ InboxInv /\ NothingForgotten)'
  BY DEF IInv, Send, BufferInv, AnswerInv, InboxInv, NothingForgotten
<1> QED BY <1>2, <1>3, <1>4 DEF IInv

LEMMA AcknowledgeKeeps ==
  ASSUME IInv, NEW a \in answers, Acknowledge(a) PROVE IInv'
<1>1. a \in Message
  BY DEF IInv, TypeInv
<1>2. a.source \in Sources
  BY <1>1 DEF Message
<1>3. /\ buffer' = [buffer EXCEPT ![a.source] = @ \ {a.ids[i] : i \in DOMAIN a.ids}]
      /\ answers' \subseteq answers
      /\ UNCHANGED <<occurred, requests, enabled, outages, inbox, told>>
  BY DEF Acknowledge
<1>4. \A s \in Sources : buffer'[s] \subseteq buffer[s]
  BY <1>2, <1>3 DEF IInv, TypeInv
<1>5. TypeInv'
  BY <1>2, <1>3 DEF IInv, TypeInv
<1>6. BufferInv'
  BY <1>3, <1>4 DEF IInv, BufferInv
<1>7. (RequestInv /\ AnswerInv /\ InboxInv)'
  BY <1>3 DEF IInv, RequestInv, AnswerInv, InboxInv
<1>8. NothingForgotten'
  <2> SUFFICES ASSUME NEW e \in occurred' PROVE e[2] \in buffer'[e[1]] \/ e \in inbox'
    BY DEF NothingForgotten
  <2>1. e \in Events /\ e \in occurred
    BY <1>3 DEF IInv, TypeInv
  <2>2. CASE e \in inbox
    BY <2>2, <1>3
  <2>3. CASE e[2] \in buffer[e[1]] /\ e[1] # a.source
    BY <2>1, <2>3, <1>3 DEF IInv, TypeInv, Events
  <2>4. CASE e[2] \in buffer[e[1]] /\ e[1] = a.source
    <3>1. CASE e[2] \in {a.ids[i] : i \in DOMAIN a.ids}
      <4>1. e = <<a.source, e[2]>>
        BY <2>1, <2>4 DEF Events
      <4>2. e \in OfMessage(a)
        BY <3>1, <4>1 DEF OfMessage, Of
      <4> QED BY <4>2, <1>3 DEF IInv, AnswerInv
    <3>2. CASE e[2] \notin {a.ids[i] : i \in DOMAIN a.ids}
      BY <3>2, <2>4, <1>2, <1>3 DEF IInv, TypeInv
    <3> QED BY <3>1, <3>2
  <2> QED BY <2>1, <2>2, <2>3, <2>4 DEF IInv, NothingForgotten
<1> QED BY <1>5, <1>6, <1>7, <1>8 DEF IInv

LEMMA ReceiveKeeps ==
  ASSUME IInv, NEW r \in requests, NEW again \in BOOLEAN, Receive(r, again) PROVE IInv'
<1>1. r \in Message /\ OfMessage(r) \subseteq occurred
  BY DEF IInv, TypeInv, RequestInv
<1>2. requests' \subseteq requests /\ UNCHANGED <<occurred, buffer, enabled, outages>>
  BY DEF Receive
<1>3. CASE Refused(r)
  <2>1. UNCHANGED <<inbox, told, answers>>
    BY <1>3 DEF Refused
  <2> QED BY <2>1, <1>2 DEF IInv, TypeInv, BufferInv, RequestInv, AnswerInv, InboxInv, NothingForgotten
<1>4. CASE Store(r)
  <2>1. /\ inbox' = inbox \cup OfMessage(r)
        /\ answers' = answers \cup {r}
        /\ told' = told + Cardinality(New(r))
    BY <1>4 DEF Store, OfMessage
  <2>2. TypeInv'
    BY <1>1, <1>2, <2>1, BatchIsFinite, NewIsFinite DEF IInv, TypeInv
  <2>3. AnswerInv'
    BY <2>1 DEF IInv, AnswerInv
  <2>4. InboxInv'
    BY <1>1, <1>2, <2>1 DEF IInv, InboxInv
  <2> QED BY <1>2, <2>1, <2>2, <2>3, <2>4 DEF IInv, BufferInv, RequestInv, NothingForgotten
<1> QED BY <1>3, <1>4 DEF Receive

LEMMA RestKeeps ==
  ASSUME IInv,
         \/ \E r \in requests : LoseRequest(r)
         \/ \E a \in answers : LoseAnswer(a)
         \/ \E s \in Sources : Disable(s) \/ Enable(s)
         \/ UNCHANGED vars
  PROVE  IInv'
<1>1. UNCHANGED <<occurred, buffer, inbox, told>> /\ requests' \subseteq requests /\ answers' \subseteq answers
  BY DEF LoseRequest, LoseAnswer, Disable, Enable, vars
<1>2. enabled' \in [Sources -> BOOLEAN]
  BY DEF IInv, TypeInv, LoseRequest, LoseAnswer, Disable, Enable, vars
<1> QED BY <1>1, <1>2 DEF IInv, TypeInv, BufferInv, RequestInv, AnswerInv, InboxInv, NothingForgotten

LEMMA NextKeeps == IInv /\ [Next]_vars => IInv'
<1> SUFFICES ASSUME IInv, [Next]_vars PROVE IInv'
  OBVIOUS
<1>1. CASE \E s \in Sources, i \in Ids : Occur(s, i)
  BY <1>1, OccurKeeps
<1>2. CASE \E s \in Sources : \E ids \in Batches(s) : Send(s, ids)
  BY <1>2, SendKeeps
<1>3. CASE \E r \in requests : Receive(r, TRUE) \/ Receive(r, FALSE)
  BY <1>3, ReceiveKeeps
<1>4. CASE \E a \in answers : Acknowledge(a)
  BY <1>4, AcknowledgeKeeps
<1>5. CASE \/ \E r \in requests : LoseRequest(r)
           \/ \E a \in answers : LoseAnswer(a)
           \/ \E s \in Sources : Disable(s) \/ Enable(s)
           \/ UNCHANGED vars
  BY <1>5, RestKeeps
<1> QED BY <1>1, <1>2, <1>3, <1>4, <1>5 DEF Next

LEMMA Always == Spec => []IInv
  BY InitInv, NextKeeps, PTL DEF Spec

(* A sender forgets an event only when the server has its row: whatever is *)
(* lost, repeated or late, what occurred is in the buffer or in the inbox. *)
THEOREM NoEventIsForgotten == Spec => []NothingForgotten
<1>1. IInv => NothingForgotten
  BY DEF IInv
<1> QED BY <1>1, Always, PTL

(* Every step of the entrance is a step of the log of events or none.      *)
LEMMA StepIsLogged == IInv /\ [Next]_vars => [Log!Next]_<<occurred, inbox, told>>
<1> SUFFICES ASSUME IInv, [Next]_vars PROVE Log!Next \/ UNCHANGED <<occurred, inbox, told>>
  OBVIOUS
<1>1. CASE \E s \in Sources, i \in Ids : Occur(s, i)
  <2> PICK s \in Sources, i \in Ids : Occur(s, i)
    BY <1>1
  <2>1. <<s, i>> \in Events /\ Log!Occur(<<s, i>>)
    BY DEF Events, Occur, Log!Occur
  <2> QED BY <2>1 DEF Log!Next
<1>2. CASE \E r \in requests : Receive(r, TRUE) \/ Receive(r, FALSE)
  <2> PICK r \in requests : Receive(r, TRUE) \/ Receive(r, FALSE)
    BY <1>2
  <2>1. r \in Message /\ OfMessage(r) \subseteq occurred
    BY DEF IInv, TypeInv, RequestInv
  <2>2. New(r) \subseteq occurred \ inbox /\ New(r) \subseteq Events /\ inbox' \in {inbox, inbox \cup New(r)}
    BY <2>1, BatchIsFinite, NewIsFinite DEF Receive, Refused, Store, New, OfMessage
  <2>3. UNCHANGED occurred
    BY DEF Receive
  <2>4. CASE Refused(r)
    BY <2>3, <2>4 DEF Refused
  <2>5. CASE Store(r) /\ New(r) = {}
    <3>1. Cardinality(New(r)) = 0
      BY <2>5, FS_EmptySet
    <3>2. told' = told
      BY <2>5, <3>1 DEF Store, IInv, TypeInv
    <3>3. inbox' = inbox
      BY <2>5 DEF Store, New
    <3> QED BY <2>3, <3>2, <3>3
  <2>6. CASE Store(r) /\ New(r) # {}
    <3>1. inbox' = inbox \cup New(r) /\ told' = told + Cardinality(New(r))
      BY <2>6 DEF Store, New
    <3>2. Log!Keep(New(r))
      BY <2>2, <2>3, <2>6, <3>1 DEF Log!Keep
    <3> QED BY <2>2, <3>2 DEF Log!Next
  <2> QED BY <2>4, <2>5, <2>6 DEF Receive
<1>3. CASE \/ \E s \in Sources : \E ids \in Batches(s) : Send(s, ids)
           \/ \E a \in answers : Acknowledge(a) \/ LoseAnswer(a)
           \/ \E r \in requests : LoseRequest(r)
           \/ \E s \in Sources : Disable(s) \/ Enable(s)
           \/ UNCHANGED vars
  BY <1>3 DEF Send, Acknowledge, LoseAnswer, LoseRequest, Disable, Enable, vars
<1> QED BY <1>1, <1>2, <1>3 DEF Next

(* The entrance implements the log: an event is kept once and counted once *)
(* as new, however often it is sent (createMany with skipDuplicates).      *)
THEOREM InboxImplementsLog == Spec => LogImplemented
<1>1. Init => Log!Init
  BY DEF Init, Log!Init
<1> QED BY <1>1, StepIsLogged, Always, PTL DEF Spec, LogImplemented, Log!Spec

-----------------------------------------------------------------------------
(* The weights of the scales (Telemetry).                                   *)

CONSTANTS Scales, Enabled, Lines, LineOf, Tanks, Senders, WeightBatches, SpeedBatches, None,
          SignalTimeout, Skew, MaxTime
VARIABLES clock, weights, speeds, batch, orderStart, newest, heard

T == INSTANCE Telemetry

SentReadings == [key : Scales, stamp : {"date", "missing", "invalid"}, taken : Nat, at : Nat]
\* What is on its way was measured before its batch began, give or take the
\* error of its stamp.
SentOK(r, now) ==
  /\ r \in SentReadings
  /\ r.taken <= now /\ r.taken <= r.at /\ r.at <= r.taken + Skew
  /\ T!PromptWithoutStamp /\ r.stamp = "missing" => now <= r.taken + Skew
BatchOK(b, time) ==
  /\ b = [route |-> b.route, now |-> b.now, readings |-> b.readings, speeds |-> b.speeds,
          done |-> b.done]
  /\ b.now \in 0 .. time
  /\ b.readings \in Seq(SentReadings) /\ b.done \in 0 .. Len(b.readings)
  /\ \A i \in 1 .. Len(b.readings) : SentOK(b.readings[i], b.now)
BatchesOK ==
  /\ batch = [s \in Senders |-> batch[s]]
  /\ \A s \in Senders : batch[s] = None \/ BatchOK(batch[s], clock)
\* A cached reading was heard of, and counts as measured not long after it was.
CacheOK(s) ==
  /\ weights[s] \in T!Readings
  /\ heard[s] \in 0 .. clock /\ weights[s].receivedAt <= heard[s]
  /\ T!PromptWithoutStamp => weights[s].measuredAt <= weights[s].taken + Skew
CachesOK ==
  /\ clock \in Nat
  /\ weights = [s \in Scales |-> weights[s]]
  /\ heard = [s \in Scales |-> heard[s]]
  /\ newest = [s \in Scales |-> newest[s]]
  /\ \A s \in Scales : weights[s] = None \/ CacheOK(s)
  /\ \A s \in Scales : newest[s] = None \/
       (newest[s] \in Nat /\ weights[s] # None /\ newest[s] <= weights[s].measuredAt)
ReadingsInv == T!TelemetryAssumption /\ BatchesOK /\ CachesOK /\ T!PassedReadingsKept

\* The reading a sender has come to, if it is usable, counts as measured when it
\* was, or later by the error of its stamp.
LEMMA NextIsSent ==
  ASSUME ReadingsInv, NEW s \in Senders, T!MoreReadings(s), T!Usable(T!NextReading(s))
  PROVE  LET r == T!NextReading(s)
             at == T!MeasuredAt(r, batch[s].now)
         IN  /\ BatchOK(batch[s], clock) /\ r.key \in Scales
             /\ r.taken \in Nat /\ at \in Nat /\ r.taken <= at
             /\ T!PromptWithoutStamp => at <= r.taken + Skew
<1> USE DEF ReadingsInv, T!TelemetryAssumption
<1>1. BatchOK(batch[s], clock) /\ batch[s].done + 1 \in 1 .. Len(batch[s].readings)
  BY DEF T!MoreReadings, BatchesOK, BatchOK
<1>2. SentOK(T!NextReading(s), batch[s].now) /\ batch[s].now \in Nat
  BY <1>1 DEF BatchOK, T!NextReading, CachesOK
<1> QED BY <1>1, <1>2 DEF SentOK, SentReadings, T!MeasuredAt, T!Usable

\* A function on 1 .. n is a sequence of length n.
LEMMA SeqOf == ASSUME NEW S, NEW n \in Nat, NEW f \in [1 .. n -> S]
               PROVE  f \in Seq(S) /\ Len(f) = n
OBVIOUS

\* Every reading of what a sender may send is one that is sent.
LEMMA AllAreSent ==
  ASSUME ReadingsInv, NEW b \in WeightBatches, T!InTheRun(b)
  PROVE  /\ T!SentAll(b) \in Seq(SentReadings)
         /\ \A i \in 1 .. Len(T!SentAll(b)) : SentOK(T!SentAll(b)[i], clock)
<1> USE DEF ReadingsInv, T!TelemetryAssumption, CachesOK
<1>1. b \in Seq(T!Offers(Scales)) /\ DOMAIN b = 1 .. Len(b) /\ Len(b) \in Nat
  OBVIOUS
<1>2. ASSUME NEW i \in 1 .. Len(b) PROVE SentOK(T!Sent(b[i]), clock)
  <2>1. b[i] \in T!Offers(Scales) /\ b[i].age <= clock
    BY <1>1 DEF T!InTheRun
  <2>2. /\ b[i].key \in Scales /\ b[i].age \in Nat /\ b[i].ahead \in 0 .. Skew
        /\ b[i].stamp \in {"date", "missing", "invalid"}
    BY <2>1 DEF T!Offers
  <2>3. /\ clock - b[i].age \in Nat
        /\ clock - b[i].age + b[i].ahead \in Nat
    BY <2>1, <2>2
  <2>4. T!Sent(b[i]) \in SentReadings
    BY <2>2, <2>3 DEF T!Sent, SentReadings
  <2>5. T!PromptWithoutStamp /\ b[i].stamp = "missing" => b[i].age <= Skew
    BY <1>1 DEF T!PromptWithoutStamp
  <2>6. /\ T!Sent(b[i]).stamp = b[i].stamp /\ T!Sent(b[i]).taken = clock - b[i].age
        /\ T!Sent(b[i]).at = clock - b[i].age + b[i].ahead
    BY DEF T!Sent
  <2>7. T!PromptWithoutStamp /\ T!Sent(b[i]).stamp = "missing" => clock <= T!Sent(b[i]).taken + Skew
    BY <2>2, <2>5, <2>6
  <2>8. /\ T!Sent(b[i]).taken <= clock /\ T!Sent(b[i]).taken <= T!Sent(b[i]).at
        /\ T!Sent(b[i]).at <= T!Sent(b[i]).taken + Skew
    <3>1. clock \in Nat /\ Skew \in Nat
      OBVIOUS
    <3> DEFINE age == b[i].age
               ahead == b[i].ahead
    <3>2. age \in Nat /\ ahead \in 0 .. Skew
      BY <2>2
    <3>3. T!Sent(b[i]).taken = clock - age /\ T!Sent(b[i]).at = clock - age + ahead
      BY <2>6
    <3> HIDE DEF age, ahead, ReadingsInv, CachesOK, T!TelemetryAssumption
    <3> QED BY <3>1, <3>2, <3>3
  <2> QED BY <2>4, <2>7, <2>8 DEF SentOK
<1>3. T!SentAll(b) = [i \in 1 .. Len(b) |-> T!Sent(b[i])]
  BY <1>1 DEF T!SentAll
<1>4. \A i \in 1 .. Len(b) : T!Sent(b[i]) \in SentReadings
  BY <1>2 DEF SentOK
<1>5. T!SentAll(b) \in [1 .. Len(b) -> SentReadings]
  BY <1>3, <1>4
<1>6. T!SentAll(b) \in Seq(SentReadings) /\ Len(T!SentAll(b)) = Len(b)
  BY <1>1, <1>5, SeqOf
<1>7. \A i \in 1 .. Len(b) : T!SentAll(b)[i] = T!Sent(b[i])
  BY <1>3
<1> QED BY <1>2, <1>6, <1>7

\* Senders other than the one that acts keep what they have passed, as long as no
\* cached reading gives way to an older one.
NoOlder ==
  \A k \in Scales : weights[k] # None =>
    weights'[k] # None /\ weights'[k].measuredAt >= weights[k].measuredAt
Passed(b, cache) ==
  \A i \in 1 .. b.done :
    LET r == b.readings[i] IN
    T!Usable(r) => /\ cache[r.key] # None
                   /\ cache[r.key].measuredAt >= T!MeasuredAt(r, b.now)
LEMMA PassedStays ==
  ASSUME ReadingsInv, NoOlder, CachesOK', NEW s \in Senders, batch[s] # None
  PROVE  Passed(batch[s], weights')
<1> SUFFICES ASSUME NEW i \in 1 .. batch[s].done, T!Usable(batch[s].readings[i])
             PROVE  /\ weights'[batch[s].readings[i].key] # None
                    /\ weights'[batch[s].readings[i].key].measuredAt
                         >= T!MeasuredAt(batch[s].readings[i], batch[s].now)
  BY DEF Passed
<1> DEFINE r == batch[s].readings[i]
           at == T!MeasuredAt(r, batch[s].now)
<1>1. BatchOK(batch[s], clock) /\ i \in 1 .. Len(batch[s].readings)
  BY DEF ReadingsInv, BatchesOK, BatchOK
<1>2. SentOK(r, batch[s].now) /\ batch[s].now \in Nat
  BY <1>1 DEF BatchOK, ReadingsInv, CachesOK
<1>3. at \in Nat /\ r.key \in Scales
  BY <1>2 DEF SentOK, SentReadings, T!MeasuredAt
<1>4. weights[r.key] # None /\ weights[r.key].measuredAt >= at
  BY DEF ReadingsInv, T!PassedReadingsKept
<1>5. weights'[r.key] # None /\ weights'[r.key].measuredAt >= weights[r.key].measuredAt
  BY <1>3, <1>4 DEF NoOlder
<1>6. weights[r.key].measuredAt \in Nat /\ weights'[r.key].measuredAt \in Nat
  BY <1>3, <1>4, <1>5 DEF ReadingsInv, CachesOK, CacheOK, T!Readings
<1> HIDE DEF r, at
<1>7. weights'[r.key] # None /\ weights'[r.key].measuredAt >= at
  BY <1>3, <1>4, <1>5, <1>6
<1> QED BY <1>7 DEF r, at

\* A step of one sender on its batch, for the rest of the invariant.
LEMMA SenderActs ==
  ASSUME ReadingsInv, NEW s \in Senders, NEW b, b = None \/ BatchOK(b, clock),
         batch' = [batch EXCEPT ![s] = b], clock' = clock, NoOlder, CachesOK',
         b # None => Passed(b, weights')
  PROVE  ReadingsInv'
<1>1. BatchesOK'
  <2>1. ASSUME NEW x \in Senders PROVE batch'[x] = None \/ BatchOK(batch'[x], clock)
    <3>1. CASE x = s
      BY <3>1 DEF ReadingsInv, BatchesOK
    <3>2. CASE x # s
      <4>1. batch'[x] = batch[x] /\ (batch[x] = None \/ BatchOK(batch[x], clock))
        BY <3>2 DEF ReadingsInv, BatchesOK
      <4> QED BY <4>1 DEF BatchOK
    <3> QED BY <3>1, <3>2
  <2> QED BY <2>1 DEF ReadingsInv, BatchesOK
<1>2. T!PassedReadingsKept'
  <2>1. ASSUME NEW x \in Senders, batch'[x] # None PROVE Passed(batch'[x], weights')
    <3>1. CASE x = s
      BY <2>1, <3>1 DEF ReadingsInv, BatchesOK
    <3>2. CASE x # s
      BY <2>1, <3>2, PassedStays DEF ReadingsInv, BatchesOK
    <3> QED BY <3>1, <3>2
  <2> QED BY <2>1 DEF T!PassedReadingsKept, Passed, T!Usable, T!MeasuredAt
<1> QED BY <1>1, <1>2 DEF ReadingsInv, T!TelemetryAssumption

\* The batch of a sender after the reading it has come to.
LEMMA Advances ==
  ASSUME ReadingsInv, NEW s \in Senders, T!MoreReadings(s), T!Advance(s)
  PROVE  LET b == [batch[s] EXCEPT !.done = @ + 1] IN
         /\ BatchOK(b, clock)
         /\ b.now = batch[s].now /\ b.readings = batch[s].readings
         /\ b.done = batch[s].done + 1
         /\ batch' = [batch EXCEPT ![s] = b]
<1>1. BatchOK(batch[s], clock) /\ batch[s].done < Len(batch[s].readings)
  BY DEF ReadingsInv, BatchesOK, T!MoreReadings
<1>2. batch[s] = [route |-> batch[s].route, now |-> batch[s].now,
                  readings |-> batch[s].readings, speeds |-> batch[s].speeds,
                  done |-> batch[s].done]
  BY <1>1 DEF BatchOK
<1> DEFINE b == [batch[s] EXCEPT !.done = @ + 1]
<1>3. b = [route |-> batch[s].route, now |-> batch[s].now,
           readings |-> batch[s].readings, speeds |-> batch[s].speeds,
           done |-> batch[s].done + 1]
  BY <1>2
<1>4. batch' = [batch EXCEPT ![s] = b]
  BY DEF T!Advance
<1>5. BatchOK(b, clock)
  <2> HIDE DEF b
  <2> QED BY <1>1, <1>3 DEF BatchOK
<1> QED BY <1>3, <1>4, <1>5

\* After it, a batch has passed one more reading: what the cache shows of that one
\* is all that is left to see.
LEMMA PassedOneMore ==
  ASSUME ReadingsInv, NoOlder, CachesOK', NEW s \in Senders, T!MoreReadings(s),
         T!Usable(T!NextReading(s)) =>
           /\ weights'[T!NextReading(s).key] # None
           /\ weights'[T!NextReading(s).key].measuredAt
                >= T!MeasuredAt(T!NextReading(s), batch[s].now)
  PROVE  Passed([batch[s] EXCEPT !.done = @ + 1], weights')
<1> DEFINE b == [batch[s] EXCEPT !.done = @ + 1]
<1>1. BatchOK(batch[s], clock) /\ batch[s] # None
  BY DEF ReadingsInv, BatchesOK, T!MoreReadings
<1>2. batch[s] = [route |-> batch[s].route, now |-> batch[s].now,
                  readings |-> batch[s].readings, speeds |-> batch[s].speeds,
                  done |-> batch[s].done]
  BY <1>1 DEF BatchOK
<1>3. /\ b.now = batch[s].now /\ b.readings = batch[s].readings
      /\ b.done = batch[s].done + 1
  BY <1>2
<1>4. Passed(batch[s], weights')
  BY <1>1, PassedStays
<1>5. batch[s].done \in Nat
  BY <1>1 DEF BatchOK, SentReadings
<1>6. ASSUME NEW i \in 1 .. b.done, T!Usable(b.readings[i])
      PROVE  /\ weights'[b.readings[i].key] # None
             /\ weights'[b.readings[i].key].measuredAt
                  >= T!MeasuredAt(b.readings[i], b.now)
  <2>1. CASE i = batch[s].done + 1
    BY <1>3, <1>6, <2>1 DEF T!NextReading
  <2>2. CASE i # batch[s].done + 1
    <3>1. i \in 1 .. batch[s].done
      BY <1>3, <1>5, <2>2
    <3> HIDE DEF b
    <3> QED BY <3>1, <1>3, <1>4, <1>6 DEF Passed
  <2> QED BY <2>1, <2>2
<1> HIDE DEF b
<1>7. Passed(b, weights')
  BY <1>6 DEF Passed
<1> QED BY <1>7 DEF b

\* The caches stay as they are under steps that leave them alone, but for the
\* clock and the instants a batch keeps.
LEMMA SameCaches ==
  ASSUME ReadingsInv, UNCHANGED <<clock, weights, newest, heard>>
  PROVE  CachesOK' /\ NoOlder
<1>1. CachesOK'
  BY DEF ReadingsInv, CachesOK, CacheOK
<1>2. \A k \in Scales : weights[k] # None => weights[k].measuredAt \in Nat
  BY DEF ReadingsInv, CachesOK, CacheOK, T!Readings
<1> QED BY <1>1, <1>2 DEF NoOlder

LEMMA BatchBegins ==
  ASSUME ReadingsInv, NEW s \in Senders, NEW route, NEW b \in WeightBatches, NEW sp,
         T!BeginBatch(s, route, b, sp)
  PROVE  ReadingsInv'
<1> DEFINE begun == [route |-> route, now |-> clock, readings |-> T!SentAll(b),
                     speeds |-> T!SentAll(sp), done |-> 0]
<1>1. CachesOK' /\ NoOlder /\ clock' = clock
  BY SameCaches DEF T!BeginBatch
<1>2. T!SentAll(b) \in Seq(SentReadings)
      /\ \A i \in 1 .. Len(T!SentAll(b)) : SentOK(T!SentAll(b)[i], clock)
  BY AllAreSent DEF T!BeginBatch
<1>3. BatchOK(begun, clock)
  BY <1>2 DEF BatchOK, ReadingsInv, CachesOK
<1>4. Passed(begun, weights')
  BY DEF Passed
<1>5. batch' = [batch EXCEPT ![s] = begun]
  BY DEF T!BeginBatch
<1> HIDE DEF begun
<1> QED BY <1>1, <1>3, <1>4, <1>5, SenderActs

\* A newer reading moves the cache of its scale on, and no other.
LEMMA StoreMovesOn ==
  ASSUME ReadingsInv, NEW s \in Senders, T!StoreReading(s)
  PROVE  LET r == T!NextReading(s) IN
         /\ CachesOK' /\ NoOlder
         /\ weights'[r.key] # None
         /\ weights'[r.key].measuredAt >= T!MeasuredAt(r, batch[s].now)
<1> DEFINE r == T!NextReading(s)
           now == batch[s].now
           at == T!MeasuredAt(r, now)
           new == [taken |-> r.taken, measuredAt |-> at, receivedAt |-> now,
                   stamped |-> r.stamp = "date"]
           last == IF newest[r.key] = None \/ r.taken > newest[r.key]
                   THEN r.taken ELSE newest[r.key]
<1>1. /\ BatchOK(batch[s], clock) /\ r.key \in Scales
      /\ r.taken \in Nat /\ at \in Nat /\ r.taken <= at
      /\ T!PromptWithoutStamp => at <= r.taken + Skew
  BY NextIsSent DEF T!StoreReading
<1>2. now \in 0 .. clock /\ clock \in Nat /\ clock' = clock
  BY <1>1 DEF BatchOK, T!StoreReading, ReadingsInv, CachesOK
<1>3. /\ weights' = [weights EXCEPT ![r.key] = new]
      /\ newest' = [newest EXCEPT ![r.key] = last]
      /\ heard' = [heard EXCEPT ![r.key] = clock]
      /\ weights[r.key] # None => at > weights[r.key].measuredAt
  BY DEF T!StoreReading, T!Stored, T!Newer
<1>4. /\ new \in T!Readings /\ new # None
      /\ new.receivedAt = now /\ new.measuredAt = at /\ new.taken = r.taken
  <2>1. new \in T!Readings
    <3>1. (r.stamp = "date") \in BOOLEAN
      OBVIOUS
    <3> HIDE DEF r, at, now
    <3> QED BY <1>1, <1>2, <3>1 DEF T!Readings
  <2> QED BY <2>1 DEF ReadingsInv, T!TelemetryAssumption
<1> DEFINE key == r.key
           taken == r.taken
<1>5. key \in Scales /\ taken \in Nat /\ at \in Nat /\ taken <= at
      /\ (T!PromptWithoutStamp => at <= taken + Skew)
  BY <1>1
<1>6. last = IF newest[key] = None \/ taken > newest[key] THEN taken ELSE newest[key]
  OBVIOUS
<1>7. /\ weights' = [weights EXCEPT ![key] = new]
      /\ newest' = [newest EXCEPT ![key] = last]
      /\ heard' = [heard EXCEPT ![key] = clock]
      /\ weights[key] # None => at > weights[key].measuredAt
      /\ new.taken = taken
  BY <1>3, <1>4
<1>8. CachesOK' /\ NoOlder /\ weights'[key] # None /\ weights'[key].measuredAt >= at
  <2> HIDE DEF key, taken, at, now, new, last, r
  <2>1. /\ weights = [x \in Scales |-> weights[x]] /\ heard = [x \in Scales |-> heard[x]]
        /\ newest = [x \in Scales |-> newest[x]]
        /\ \A x \in Scales : weights[x] = None \/ CacheOK(x)
        /\ \A x \in Scales : newest[x] = None \/
             (newest[x] \in Nat /\ weights[x] # None /\ newest[x] <= weights[x].measuredAt)
    BY DEF ReadingsInv, CachesOK
  <2>2. /\ weights'[key] = new /\ newest'[key] = last /\ heard'[key] = clock
        /\ \A x \in Scales \ {key} : weights'[x] = weights[x] /\ newest'[x] = newest[x]
                                     /\ heard'[x] = heard[x]
        /\ weights' = [x \in Scales |-> weights'[x]]
        /\ heard' = [x \in Scales |-> heard'[x]]
        /\ newest' = [x \in Scales |-> newest'[x]]
    BY <1>5, <1>7, <2>1
  <2>3. last \in Nat /\ last <= at
    <3>1. CASE newest[key] = None
      BY <3>1, <1>5, <1>6
    <3>2. CASE newest[key] # None
      <4>1. newest[key] \in Nat /\ weights[key] # None
            /\ newest[key] <= weights[key].measuredAt
        BY <3>2, <2>1, <1>5
      <4>2. weights[key].measuredAt \in Nat
        BY <4>1, <2>1, <1>5 DEF CacheOK, T!Readings
      <4> QED BY <4>1, <4>2, <1>5, <1>6, <1>7
    <3> QED BY <3>1, <3>2
  <2>4. \A x \in Scales : weights'[x] = None \/ CacheOK(x)'
    <3>1. ASSUME NEW x \in Scales, weights'[x] # None PROVE CacheOK(x)'
      <4>1. CASE x = key
        BY <4>1, <2>2, <1>2, <1>4, <1>5, <1>7
        DEF CacheOK, T!Readings, T!PromptWithoutStamp
      <4>2. CASE x # key
        <5>1. CacheOK(x) /\ weights'[x] = weights[x] /\ heard'[x] = heard[x]
          BY <3>1, <4>2, <2>1, <2>2
        <5> QED BY <5>1, <1>2 DEF CacheOK, T!Readings, T!PromptWithoutStamp
      <4> QED BY <4>1, <4>2
    <3> QED BY <3>1
  <2>5. \A x \in Scales : newest'[x] = None \/
          (newest'[x] \in Nat /\ weights'[x] # None /\ newest'[x] <= weights'[x].measuredAt)
    <3>1. ASSUME NEW x \in Scales, newest'[x] # None
          PROVE  newest'[x] \in Nat /\ weights'[x] # None
                 /\ newest'[x] <= weights'[x].measuredAt
      <4>1. CASE x = key
        BY <4>1, <2>2, <2>3, <1>4
      <4>2. CASE x # key
        BY <3>1, <4>2, <2>1, <2>2
      <4> QED BY <4>1, <4>2
    <3> QED BY <3>1
  <2>6. CachesOK'
    BY <2>2, <2>4, <2>5, <1>2 DEF CachesOK
  <2>7. NoOlder
    <3>1. ASSUME NEW x \in Scales, weights[x] # None
          PROVE  weights'[x] # None /\ weights'[x].measuredAt >= weights[x].measuredAt
      <4>1. weights[x].measuredAt \in Nat
        BY <3>1, <2>1 DEF CacheOK, T!Readings
      <4>2. CASE x = key
        BY <3>1, <4>1, <4>2, <2>2, <1>4, <1>5, <1>7
      <4>3. CASE x # key
        BY <3>1, <4>1, <4>3, <2>2
      <4> QED BY <4>2, <4>3
    <3> QED BY <3>1 DEF NoOlder
  <2>8. weights'[key] # None /\ weights'[key].measuredAt >= at
    BY <2>2, <1>4, <1>5
  <2> QED BY <2>6, <2>7, <2>8
<1> QED BY <1>8

LEMMA StoreKeeps ==
  ASSUME ReadingsInv, NEW s \in Senders, T!StoreReading(s)
  PROVE  ReadingsInv'
<1> DEFINE b == [batch[s] EXCEPT !.done = @ + 1]
<1>1. /\ CachesOK' /\ NoOlder
      /\ weights'[T!NextReading(s).key] # None
      /\ weights'[T!NextReading(s).key].measuredAt
           >= T!MeasuredAt(T!NextReading(s), batch[s].now)
  BY StoreMovesOn
<1>2. T!MoreReadings(s) /\ T!Advance(s) /\ clock' = clock
  BY DEF T!StoreReading
<1>3. BatchOK(b, clock) /\ batch' = [batch EXCEPT ![s] = b]
  BY <1>2, Advances
<1>4. Passed(b, weights')
  BY <1>1, <1>2, PassedOneMore
<1> HIDE DEF b
<1> QED BY <1>1, <1>2, <1>3, <1>4, SenderActs

LEMMA IgnoreKeeps ==
  ASSUME ReadingsInv, NEW s \in Senders, T!IgnoreReading(s)
  PROVE  ReadingsInv'
<1> DEFINE b == [batch[s] EXCEPT !.done = @ + 1]
           r == T!NextReading(s)
           at == T!MeasuredAt(r, batch[s].now)
           last == IF newest[r.key] = None \/ r.taken > newest[r.key]
                   THEN r.taken ELSE newest[r.key]
<1>1. T!MoreReadings(s) /\ T!Advance(s) /\ T!Usable(r)
      /\ clock' = clock /\ weights' = weights /\ heard' = heard
  BY DEF T!IgnoreReading
<1>2. r.key \in Scales /\ r.taken \in Nat /\ at \in Nat /\ r.taken <= at
  BY <1>1, NextIsSent
<1>3. weights[r.key] # None /\ ~(at > weights[r.key].measuredAt)
  BY DEF T!IgnoreReading, T!Newer
<1>4. newest' = [newest EXCEPT ![r.key] = last]
  BY DEF T!IgnoreReading
<1> DEFINE key == r.key
           taken == r.taken
<1>5. last = IF newest[key] = None \/ taken > newest[key] THEN taken ELSE newest[key]
  OBVIOUS
<1>6. key \in Scales /\ taken \in Nat /\ at \in Nat /\ taken <= at
      /\ weights[key] # None /\ ~(at > weights[key].measuredAt)
      /\ newest' = [newest EXCEPT ![key] = last]
  BY <1>2, <1>3, <1>4
<1>7. CachesOK' /\ NoOlder /\ weights[key].measuredAt >= at
  <2> HIDE DEF key, taken, at, last, r, b
  <2>1. /\ newest = [x \in Scales |-> newest[x]]
        /\ clock \in Nat
        /\ weights = [x \in Scales |-> weights[x]] /\ heard = [x \in Scales |-> heard[x]]
        /\ \A x \in Scales : weights[x] = None \/ CacheOK(x)
        /\ \A x \in Scales : newest[x] = None \/
             (newest[x] \in Nat /\ weights[x] # None /\ newest[x] <= weights[x].measuredAt)
    BY DEF ReadingsInv, CachesOK
  <2>2. /\ newest'[key] = last /\ \A x \in Scales \ {key} : newest'[x] = newest[x]
        /\ newest' = [x \in Scales |-> newest'[x]]
    BY <1>6, <2>1
  <2>3. \A x \in Scales : weights[x] # None => weights[x].measuredAt \in Nat
    BY <2>1 DEF CacheOK, T!Readings
  <2>4. last \in Nat /\ last <= weights[key].measuredAt
    <3>1. CASE newest[key] = None
      BY <3>1, <1>5, <1>6, <2>3
    <3>2. CASE newest[key] # None
      BY <3>2, <1>5, <1>6, <2>1, <2>3
    <3> QED BY <3>1, <3>2
  <2>5. \A x \in Scales : newest'[x] = None \/
          (newest'[x] \in Nat /\ weights'[x] # None /\ newest'[x] <= weights'[x].measuredAt)
    <3>1. ASSUME NEW x \in Scales, newest'[x] # None
          PROVE  newest'[x] \in Nat /\ weights'[x] # None
                 /\ newest'[x] <= weights'[x].measuredAt
      <4>1. CASE x = key
        BY <4>1, <2>2, <2>4, <1>1, <1>6
      <4>2. CASE x # key
        BY <3>1, <4>2, <2>1, <2>2, <1>1
      <4> QED BY <4>1, <4>2
    <3> QED BY <3>1
  <2>6. \A x \in Scales : weights'[x] = None \/ CacheOK(x)'
    BY <2>1, <1>1 DEF CacheOK
  <2>7. CachesOK'
    BY <2>1, <2>2, <2>5, <2>6, <1>1 DEF CachesOK
  <2>8. NoOlder
    BY <2>3, <1>1 DEF NoOlder
  <2> QED BY <2>3, <2>7, <2>8, <1>6
<1>8. BatchOK(b, clock) /\ batch' = [batch EXCEPT ![s] = b]
  BY <1>1, Advances
<1>9. Passed(b, weights')
  BY <1>1, <1>3, <1>7, PassedOneMore
<1> HIDE DEF b, key, taken, at, last, r
<1> QED BY <1>1, <1>7, <1>8, <1>9, SenderActs

LEMMA RejectKeeps ==
  ASSUME ReadingsInv, NEW s \in Senders, T!RejectReading(s)
  PROVE  ReadingsInv'
<1> DEFINE b == [batch[s] EXCEPT !.done = @ + 1]
<1>1. CachesOK' /\ NoOlder
  BY SameCaches DEF T!RejectReading
<1>2. T!MoreReadings(s) /\ T!Advance(s) /\ clock' = clock /\ ~T!Usable(T!NextReading(s))
  BY DEF T!RejectReading
<1>3. BatchOK(b, clock) /\ batch' = [batch EXCEPT ![s] = b]
  BY <1>2, Advances
<1>4. Passed(b, weights')
  BY <1>1, <1>2, PassedOneMore
<1> HIDE DEF b
<1> QED BY <1>1, <1>2, <1>3, <1>4, SenderActs

LEMMA BatchEnds ==
  ASSUME ReadingsInv, NEW s \in Senders, T!ThrowOnReading(s) \/ T!EndBatch(s)
  PROVE  ReadingsInv'
<1>1. CachesOK' /\ NoOlder
  BY SameCaches DEF T!ThrowOnReading, T!EndBatch
<1>2. clock' = clock /\ batch' = [batch EXCEPT ![s] = None]
  BY DEF T!ThrowOnReading, T!EndBatch
<1> QED BY <1>1, <1>2, SenderActs

\* Orders, restarts and the clock touch no batch but to drop them all.
LEMMA OthersKeep ==
  ASSUME ReadingsInv,
         \/ \E t \in Tanks : T!StartOrder(t) \/ T!FinishOrder(t)
         \/ T!Restart \/ T!Tick
         \/ UNCHANGED T!vars
  PROVE  ReadingsInv'
<1>1. CASE UNCHANGED <<clock, weights, batch, newest, heard>>
  BY <1>1 DEF ReadingsInv, BatchesOK, CachesOK, CacheOK, T!PassedReadingsKept,
              T!TelemetryAssumption
<1>2. CASE T!Restart
  <2>1. BatchesOK'
    BY <1>2 DEF T!Restart, BatchesOK
  <2>2. CachesOK'
    BY <1>2 DEF T!Restart, ReadingsInv, CachesOK
  <2>3. T!PassedReadingsKept'
    BY <1>2 DEF T!Restart, T!PassedReadingsKept
  <2> QED BY <2>1, <2>2, <2>3 DEF ReadingsInv, T!TelemetryAssumption
<1>3. CASE T!Tick
  <2>1. clock \in Nat /\ clock' = clock + 1
        /\ UNCHANGED <<weights, batch, newest, heard>>
    BY <1>3 DEF T!Tick, ReadingsInv, CachesOK
  <2>2. BatchesOK'
    <3>1. ASSUME NEW s \in Senders, BatchOK(batch[s], clock)
          PROVE  BatchOK(batch[s], clock')
      BY <2>1, <3>1 DEF BatchOK
    <3> QED BY <2>1, <3>1 DEF ReadingsInv, BatchesOK
  <2>3. CachesOK'
    <3>1. ASSUME NEW s \in Scales, CacheOK(s) PROVE CacheOK(s)'
      BY <2>1, <3>1 DEF CacheOK, T!Readings, T!PromptWithoutStamp
    <3> QED BY <2>1, <3>1 DEF ReadingsInv, CachesOK
  <2>4. T!PassedReadingsKept'
    BY <2>1 DEF ReadingsInv, T!PassedReadingsKept, T!Usable, T!MeasuredAt
  <2> QED BY <2>2, <2>3, <2>4 DEF ReadingsInv, T!TelemetryAssumption
<1> QED BY <1>1, <1>2, <1>3 DEF T!StartOrder, T!FinishOrder, T!vars

LEMMA ReadingsStart == T!TelemetryAssumption /\ T!Init => ReadingsInv
BY DEF T!Init, ReadingsInv, BatchesOK, CachesOK, T!PassedReadingsKept

LEMMA ReadingsStep == ReadingsInv /\ [T!Next]_(T!vars) => ReadingsInv'
BY BatchBegins, StoreKeeps, IgnoreKeeps, RejectKeeps, BatchEnds, OthersKeep DEF T!Next

\* In every reachable state, for any scales, senders and batches: a scale shown
\* ONLINE was heard within the signal timeout, and no usable reading a batch has
\* passed is missing from the cache, whatever overtakes, repeats or breaks off
\* a batch (receiveWeights, plant.service.ts 877-1075).
THEOREM WeightsAreKept ==
  T!TelemetryAssumption => (T!Spec => [](T!OnlineIsHeard /\ T!PassedReadingsKept))
<1>1. ReadingsInv => T!OnlineIsHeard
  <2>1. ASSUME ReadingsInv, NEW s \in Scales, T!Online(s)
        PROVE  heard[s] # None /\ clock - heard[s] <= SignalTimeout
    <3>1. CacheOK(s) /\ clock - weights[s].receivedAt <= SignalTimeout
      BY <2>1 DEF T!Online, ReadingsInv, CachesOK
    <3>2. /\ weights[s].receivedAt \in Nat /\ heard[s] \in 0 .. clock /\ clock \in Nat
          /\ weights[s].receivedAt <= heard[s] /\ SignalTimeout \in Nat
      BY <2>1, <3>1 DEF CacheOK, T!Readings, ReadingsInv, CachesOK, T!TelemetryAssumption
    <3>3. heard[s] # None
      BY <2>1, <3>2 DEF ReadingsInv, T!TelemetryAssumption
    <3> QED BY <3>1, <3>2, <3>3
  <2> QED BY <2>1 DEF T!OnlineIsHeard
<1>2. ReadingsInv => T!PassedReadingsKept
  BY DEF ReadingsInv
<1> QED BY <1>1, <1>2, ReadingsStart, ReadingsStep, PTL DEF T!Spec

\* A card shows the newest weight handled since the process started, up to the
\* error of the stamps, as long as what has no stamp is sent at once.
THEOREM NewestIsShown ==
  T!TelemetryAssumption /\ T!PromptWithoutStamp => (T!Spec => []T!NewestWithinSkew)
<1>1. T!PromptWithoutStamp /\ ReadingsInv => T!NewestWithinSkew
  <2>1. ASSUME T!PromptWithoutStamp, ReadingsInv, NEW s \in Scales, newest[s] # None
        PROVE  weights[s] # None /\ weights[s].taken + Skew >= newest[s]
    <3>1. newest[s] \in Nat /\ weights[s] # None /\ newest[s] <= weights[s].measuredAt
      BY <2>1 DEF ReadingsInv, CachesOK
    <3>2. /\ weights[s].measuredAt <= weights[s].taken + Skew
          /\ weights[s].measuredAt \in Nat /\ weights[s].taken \in Nat /\ Skew \in Nat
      BY <2>1, <3>1 DEF ReadingsInv, CachesOK, CacheOK, T!Readings, T!TelemetryAssumption
    <3> QED BY <3>1, <3>2
  <2> QED BY <2>1 DEF T!NewestWithinSkew
<1>2. SUFFICES ASSUME T!TelemetryAssumption, T!PromptWithoutStamp
               PROVE  T!Spec => []T!NewestWithinSkew
  OBVIOUS
<1> QED BY <1>1, <1>2, ReadingsStart, ReadingsStep, PTL DEF T!Spec

\* A speed on its way, and one that is kept: what has a stamp was measured when the
\* stamp tells, or a little before.
SentSpeeds ==
  {r \in [key : Lines, stamp : {"date", "missing", "invalid"}, taken : Nat, at : Nat] :
     r.stamp = "date" => r.at <= r.taken + Skew}
KeptSpeeds == {c \in T!Readings : c.stamped => c.measuredAt <= c.taken + Skew}
SpeedCaches == [Lines -> KeptSpeeds \cup {None}]
SpeedsInv ==
  /\ speeds \in SpeedCaches
  /\ \A s \in Senders : batch[s] # None => batch[s].speeds \in Seq(SentSpeeds)
  /\ orderStart \in [Tanks -> Nat \cup {None}]

\* The loop over a batch's speeds, reading by reading.
AfterOne(cache, r, time) ==
  IF T!Newer(cache, r, time) THEN T!Stored(cache, r, time) ELSE cache
Loop(f, n, cache, rs, time) ==
  f = [i \in 0 .. n |-> IF i = 0 THEN cache ELSE AfterOne(f[i - 1], rs[i], time)]

\* One reading leaves a cache of such speeds.
LEMMA OneSpeed ==
  ASSUME T!TelemetryAssumption, NEW cache \in SpeedCaches, NEW r \in SentSpeeds, NEW time \in Nat
  PROVE  AfterOne(cache, r, time) \in SpeedCaches
<1> DEFINE at == T!MeasuredAt(r, time)
           new == [taken |-> r.taken, measuredAt |-> at, receivedAt |-> time,
                   stamped |-> r.stamp = "date"]
<1>1. /\ r.key \in Lines /\ r.taken \in Nat /\ r.at \in Nat
      /\ r.stamp = "date" => r.at <= r.taken + Skew
  BY DEF SentSpeeds
<1>2. at \in Nat /\ (r.stamp = "date" => at <= r.taken + Skew)
  BY <1>1 DEF T!MeasuredAt
<1>3. new \in KeptSpeeds
  <2> DEFINE stamped == r.stamp = "date"
  <2>1. stamped \in BOOLEAN /\ (stamped => at <= r.taken + Skew)
    BY <1>2
  <2>2. new = [taken |-> r.taken, measuredAt |-> at, receivedAt |-> time, stamped |-> stamped]
    OBVIOUS
  <2> HIDE DEF stamped, at, new
  <2>3. new \in T!Readings
    BY <1>1, <1>2, <2>1, <2>2 DEF T!Readings
  <2>4. new.stamped => new.measuredAt <= new.taken + Skew
    BY <2>1, <2>2
  <2> QED BY <2>3, <2>4 DEF KeptSpeeds
<1>4. T!Stored(cache, r, time) = [cache EXCEPT ![r.key] = new]
  BY DEF T!Stored
<1> HIDE DEF new, at
<1> QED BY <1>1, <1>3, <1>4 DEF AfterOne, SpeedCaches

\* A property that the first number has and each passes on to the next holds of all.
LEMMA NoLeastFailure ==
  ASSUME NEW S \in SUBSET Nat, 0 \in S, \A n \in S : n + 1 \in S
  PROVE  S = Nat
<1>1. SUFFICES ASSUME S # Nat PROVE FALSE
  OBVIOUS
<1>2. PICK least \in Nat \ S : \A n \in Nat \ S : ~ <<n, least>> \in OpToRel(<, Nat)
  <2>1. Nat \ S # {} /\ Nat \ S \subseteq Nat
    BY <1>1
  <2> QED BY <2>1, NatLessThanWellFounded, WFMin
<1>3. least - 1 \in Nat /\ least - 1 < least /\ least - 1 \notin S
  <2>1. least # 0 /\ least \in Nat
    OBVIOUS
  <2>2. least - 1 \in Nat /\ least - 1 < least /\ (least - 1) + 1 = least
    BY <2>1
  <2>3. least - 1 \notin S
    BY <2>2
  <2> QED BY <2>2, <2>3
<1>4. <<least - 1, least>> \in OpToRel(<, Nat)
  BY <1>3 DEF OpToRel
<1> QED BY <1>2, <1>3, <1>4

\* The loop is a function of the number of readings it has seen.
LEMMA LoopExists ==
  ASSUME NEW cache, NEW rs, NEW time, NEW n \in Nat
  PROVE  \E f : Loop(f, n, cache, rs, time)
<1> DEFINE S == {m \in Nat : \E f : Loop(f, m, cache, rs, time)}
<1>1. 0 \in S
  <2> DEFINE f == [i \in 0 .. 0 |-> cache]
  <2>1. f = [i \in 0 .. 0 |-> IF i = 0 THEN cache ELSE AfterOne(f[i - 1], rs[i], time)]
    <3> \A i \in 0 .. 0 : i = 0
      OBVIOUS
    <3> QED OBVIOUS
  <2> HIDE DEF f
  <2>2. Loop(f, 0, cache, rs, time)
    BY <2>1 DEF Loop
  <2> QED BY <2>2
<1>2. ASSUME NEW m \in S PROVE m + 1 \in S
  <2>1. PICK f : Loop(f, m, cache, rs, time)
    OBVIOUS
  <2> DEFINE g == [i \in 0 .. m + 1 |-> IF i = m + 1 THEN AfterOne(f[m], rs[m + 1], time) ELSE f[i]]
             h == [i \in 0 .. m + 1 |-> IF i = 0 THEN cache ELSE AfterOne(g[i - 1], rs[i], time)]
  <2>2. m \in Nat /\ \A i \in 0 .. m : f[i] = IF i = 0 THEN cache ELSE AfterOne(f[i - 1], rs[i], time)
    BY <2>1 DEF Loop
  <2>3. \A i \in 0 .. m : g[i] = f[i]
    BY <2>2
  <2>4. g[m + 1] = AfterOne(f[m], rs[m + 1], time) /\ DOMAIN g = 0 .. m + 1
    BY <2>2
  <2>5. g = [i \in 0 .. m + 1 |-> g[i]]
    OBVIOUS
  <2> HIDE DEF g, S
  <2>6. ASSUME NEW i \in 0 .. m + 1
        PROVE  g[i] = IF i = 0 THEN cache ELSE AfterOne(g[i - 1], rs[i], time)
    <3>1. CASE i = m + 1
      <4>1. i # 0 /\ i - 1 = m /\ m \in 0 .. m
        BY <3>1, <2>2
      <4>2. g[i - 1] = f[m]
        BY <4>1, <2>3
      <4> QED BY <3>1, <4>1, <4>2, <2>4
    <3>2. CASE i = 0
      BY <3>2, <2>2, <2>3
    <3>3. CASE i \in 1 .. m
      <4>1. i \in 0 .. m /\ i - 1 \in 0 .. m /\ i # 0
        BY <3>3, <2>2
      <4>2. g[i - 1] = f[i - 1] /\ g[i] = f[i]
        BY <4>1, <2>3
      <4> QED BY <4>1, <4>2, <2>2
    <3>4. i = m + 1 \/ i = 0 \/ i \in 1 .. m
      BY <2>2
    <3> QED BY <3>1, <3>2, <3>3, <3>4
  <2>7. g = [i \in 0 .. m + 1 |-> IF i = 0 THEN cache ELSE AfterOne(g[i - 1], rs[i], time)]
    BY <2>5, <2>6
  <2>8. Loop(g, m + 1, cache, rs, time)
    BY <2>7 DEF Loop
  <2>9. m + 1 \in Nat
    BY <2>2
  <2> QED BY <2>8, <2>9 DEF S
<1>3. S \in SUBSET Nat
  OBVIOUS
<1> HIDE DEF S
<1>4. n \in S
  BY <1>1, <1>2, <1>3, NoLeastFailure
<1> QED BY <1>4 DEF S

\* A batch of speeds leaves a cache of such speeds.
LEMMA AllSpeeds ==
  ASSUME T!TelemetryAssumption, NEW cache \in SpeedCaches, NEW rs \in Seq(SentSpeeds),
         NEW time \in Nat
  PROVE  T!AfterSpeeds(cache, rs, time) \in SpeedCaches
<1> DEFINE f == CHOOSE f : Loop(f, Len(rs), cache, rs, time)
<1>1. Len(rs) \in Nat /\ \A i \in 1 .. Len(rs) : rs[i] \in SentSpeeds
  OBVIOUS
<1>2. T!AfterSpeeds(cache, rs, time) = f[Len(rs)]
  BY DEF T!AfterSpeeds, Loop, AfterOne
<1>3. Loop(f, Len(rs), cache, rs, time)
  BY <1>1, LoopExists
<1> HIDE DEF f
<1> DEFINE S == {n \in Nat : n <= Len(rs) => f[n] \in SpeedCaches}
<1>4. \A i \in 0 .. Len(rs) : f[i] = IF i = 0 THEN cache ELSE AfterOne(f[i - 1], rs[i], time)
  BY <1>3 DEF Loop
<1>5. 0 \in S
  BY <1>1, <1>4
<1>6. ASSUME NEW n \in S PROVE n + 1 \in S
  <2>1. SUFFICES ASSUME n + 1 <= Len(rs) PROVE f[n + 1] \in SpeedCaches
    OBVIOUS
  <2>2. n \in Nat /\ f[n] \in SpeedCaches
    BY <1>1, <2>1
  <2>3. n + 1 \in 0 .. Len(rs) /\ n + 1 \in 1 .. Len(rs) /\ n + 1 # 0 /\ (n + 1) - 1 = n
    BY <1>1, <2>1, <2>2
  <2>4. f[n + 1] = AfterOne(f[n], rs[n + 1], time)
    BY <1>4, <2>3
  <2>5. rs[n + 1] \in SentSpeeds
    BY <1>1, <2>3
  <2> QED BY <2>2, <2>4, <2>5, OneSpeed
<1>7. S \in SUBSET Nat
  OBVIOUS
<1> HIDE DEF S
<1>8. Len(rs) \in S
  BY <1>1, <1>5, <1>6, <1>7, NoLeastFailure
<1> QED BY <1>1, <1>2, <1>8 DEF S

\* Every speed of what a sender may send is one that is sent.
LEMMA SpeedsAreSent ==
  ASSUME ReadingsInv, NEW b \in SpeedBatches, T!InTheRun(b)
  PROVE  T!SentAll(b) \in Seq(SentSpeeds)
<1>1. /\ b \in Seq(T!Offers(Lines)) /\ DOMAIN b = 1 .. Len(b) /\ Len(b) \in Nat
      /\ clock \in Nat /\ Skew \in Nat
  BY DEF ReadingsInv, T!TelemetryAssumption, CachesOK
<1>2. ASSUME NEW i \in 1 .. Len(b) PROVE T!Sent(b[i]) \in SentSpeeds
  <2> DEFINE age == b[i].age
             ahead == b[i].ahead
             r == T!Sent(b[i])
  <2>0. b[i] \in T!Offers(Lines) /\ i \in DOMAIN b
    BY <1>1
  <2>1. /\ b[i].key \in Lines /\ age \in Nat /\ ahead \in 0 .. Skew
        /\ b[i].stamp \in {"date", "missing", "invalid"} /\ age <= clock
    BY <2>0 DEF T!Offers, T!InTheRun
  <2>2. r = [key |-> b[i].key, stamp |-> b[i].stamp, taken |-> clock - age,
             at |-> clock - age + ahead]
    BY DEF T!Sent
  <2> HIDE DEF age, ahead, r
  <2>3. /\ clock - age \in Nat /\ clock - age + ahead \in Nat
        /\ clock - age + ahead <= (clock - age) + Skew
    BY <1>1, <2>1
  <2>4. r \in [key : Lines, stamp : {"date", "missing", "invalid"}, taken : Nat, at : Nat]
    BY <2>1, <2>2, <2>3
  <2>5. r.at <= r.taken + Skew
    BY <2>2, <2>3
  <2> QED BY <2>4, <2>5 DEF SentSpeeds, r
<1>3. T!SentAll(b) \in [1 .. Len(b) -> SentSpeeds]
  BY <1>1, <1>2 DEF T!SentAll
<1> QED BY <1>1, <1>3, SeqOf

LEMMA SpeedsStart == T!TelemetryAssumption /\ T!Init => SpeedsInv
<1> SUFFICES ASSUME T!TelemetryAssumption, T!Init PROVE SpeedsInv
  OBVIOUS
<1> QED BY DEF T!Init, SpeedsInv, SpeedCaches

\* The record of a batch keeps its speeds while its readings are passed.
LEMMA AdvanceKeepsSpeeds ==
  ASSUME ReadingsInv, SpeedsInv, NEW s \in Senders, T!MoreReadings(s), T!Advance(s),
         UNCHANGED <<speeds, orderStart>>
  PROVE  SpeedsInv'
<1> DEFINE b == [batch[s] EXCEPT !.done = @ + 1]
<1>1. batch' = [batch EXCEPT ![s] = b] /\ batch = [x \in Senders |-> batch[x]]
  BY DEF T!Advance, ReadingsInv, BatchesOK
<1>2. BatchOK(batch[s], clock) /\ batch[s] # None
  BY DEF ReadingsInv, BatchesOK, T!MoreReadings
<1>3. b.speeds = batch[s].speeds
  <2>1. batch[s] = [route |-> batch[s].route, now |-> batch[s].now,
                    readings |-> batch[s].readings, speeds |-> batch[s].speeds,
                    done |-> batch[s].done]
    BY <1>2 DEF BatchOK
  <2> QED BY <2>1
<1> HIDE DEF b
<1>4. ASSUME NEW x \in Senders, batch'[x] # None PROVE batch'[x].speeds \in Seq(SentSpeeds)
  <2>1. CASE x = s
    BY <1>1, <1>2, <1>3, <2>1 DEF SpeedsInv
  <2>2. CASE x # s
    BY <1>1, <1>4, <2>2 DEF SpeedsInv
  <2> QED BY <2>1, <2>2
<1> QED BY <1>4 DEF SpeedsInv

LEMMA SpeedsStep ==
  ReadingsInv /\ SpeedsInv /\ [T!Next]_(T!vars) => SpeedsInv'
<1> SUFFICES ASSUME ReadingsInv, SpeedsInv, [T!Next]_(T!vars) PROVE SpeedsInv'
  OBVIOUS
<1>0. clock \in Nat /\ T!TelemetryAssumption /\ batch = [x \in Senders |-> batch[x]]
  BY DEF ReadingsInv, CachesOK, BatchesOK
<1>1. ASSUME NEW s \in Senders, NEW route \in T!Routes, NEW b \in WeightBatches,
             NEW sp \in SpeedBatches, T!BeginBatch(s, route, b, sp)
      PROVE  SpeedsInv'
  <2> DEFINE begun == [route |-> route, now |-> clock, readings |-> T!SentAll(b),
                       speeds |-> T!SentAll(sp), done |-> 0]
  <2>1. batch' = [batch EXCEPT ![s] = begun] /\ UNCHANGED <<speeds, orderStart>>
    BY <1>1 DEF T!BeginBatch
  <2>2. begun.speeds \in Seq(SentSpeeds)
    BY <1>1, SpeedsAreSent DEF T!BeginBatch
  <2> HIDE DEF begun
  <2>3. ASSUME NEW x \in Senders, batch'[x] # None PROVE batch'[x].speeds \in Seq(SentSpeeds)
    <3>1. CASE x = s
      BY <1>0, <2>1, <2>2, <3>1
    <3>2. CASE x # s
      BY <1>0, <2>1, <2>3, <3>2 DEF SpeedsInv
    <3> QED BY <3>1, <3>2
  <2> QED BY <2>1, <2>3 DEF SpeedsInv
<1>2. ASSUME NEW s \in Senders, T!StoreReading(s) \/ T!IgnoreReading(s) \/ T!RejectReading(s)
      PROVE  SpeedsInv'
  BY <1>2, AdvanceKeepsSpeeds DEF T!StoreReading, T!IgnoreReading, T!RejectReading
<1>3. ASSUME NEW s \in Senders, T!ThrowOnReading(s) PROVE SpeedsInv'
  BY <1>0, <1>3 DEF T!ThrowOnReading, SpeedsInv
<1>4. ASSUME NEW s \in Senders, T!EndBatch(s) PROVE SpeedsInv'
  <2>1. /\ batch[s] # None /\ speeds' = T!AfterSpeeds(speeds, batch[s].speeds, clock)
        /\ batch' = [batch EXCEPT ![s] = None] /\ orderStart' = orderStart
    BY <1>4 DEF T!EndBatch
  <2>2. speeds' \in SpeedCaches
    BY <1>0, <2>1, AllSpeeds DEF SpeedsInv
  <2>3. \A x \in Senders : batch'[x] # None => batch'[x] = batch[x]
    BY <1>0, <2>1
  <2> QED BY <2>1, <2>2, <2>3 DEF SpeedsInv
<1>5. ASSUME NEW t \in Tanks, T!StartOrder(t) \/ T!FinishOrder(t) PROVE SpeedsInv'
  BY <1>0, <1>5 DEF T!StartOrder, T!FinishOrder, SpeedsInv
<1>6. CASE T!Restart
  BY <1>6 DEF T!Restart, SpeedsInv, SpeedCaches
<1>7. CASE T!Tick \/ UNCHANGED T!vars
  BY <1>7 DEF T!Tick, T!vars, SpeedsInv
<1> QED BY <1>1, <1>2, <1>3, <1>4, <1>5, <1>6, <1>7 DEF T!Next

\* For any lines, tanks, senders and batches: a speed with a stamp shown beside a tank
\* was measured during the order of the tank, up to the error of the stamp, however
\* batches overtake each other (acceptPackagingSpeeds and the card, plant.service.ts
\* 1051-1075 and 786-873).
THEOREM SpeedsAreOfTheOrder ==
  T!TelemetryAssumption => (T!Spec => []T!SpeedOfTheOrder)
<1>1. ReadingsInv /\ SpeedsInv => T!SpeedOfTheOrder
  <2>1. ASSUME ReadingsInv, SpeedsInv, NEW t \in Tanks, T!ShowsSpeed(t), T!SpeedOf(t).stamped
        PROVE  T!SpeedOf(t).taken + Skew >= orderStart[t]
    <3>0. "DEVREE" \in Lines /\ LineOf \in [Tanks -> Lines] /\ Skew \in Nat
      BY <2>1 DEF ReadingsInv, T!TelemetryAssumption
    <3>1. "DEVREE" \in Lines /\ LineOf[t] \in Lines /\ Skew \in Nat
      BY <3>0
    <3>2. T!SpeedOf(t) \in KeptSpeeds
      BY <2>1, <3>1 DEF T!SpeedOf, T!ShowsSpeed, SpeedsInv, SpeedCaches
    <3> DEFINE c == T!SpeedOf(t)
    <3>3. c \in T!Readings /\ c.measuredAt <= c.taken + Skew
      BY <2>1, <3>2 DEF KeptSpeeds
    <3>4. orderStart[t] \in Nat /\ c.measuredAt >= orderStart[t]
      BY <2>1 DEF T!ShowsSpeed, SpeedsInv
    <3> HIDE DEF c
    <3>5. c.taken + Skew >= orderStart[t]
      BY <3>1, <3>3, <3>4 DEF T!Readings
    <3> QED BY <3>5 DEF c
  <2> QED BY <2>1 DEF T!SpeedOfTheOrder
<1>2. T!TelemetryAssumption /\ T!Init => ReadingsInv /\ SpeedsInv
  BY ReadingsStart, SpeedsStart
<1>3. ReadingsInv /\ SpeedsInv /\ [T!Next]_(T!vars) => (ReadingsInv /\ SpeedsInv)'
  BY ReadingsStep, SpeedsStep
<1> QED BY <1>1, <1>2, <1>3, PTL DEF T!Spec

-----------------------------------------------------------------------------
(* The telemetry of the injection machines (InjectionMachines).             *)

CONSTANTS Machines, Unknown, Feeds, MaxOpen, MaxFailures, MaxRestarts, PerInstant,
          Period, Future, CmsFresh, NodeRedFresh, Heartbeat, Gap, Lags, Modes, Vigencies, Shots
VARIABLES now, latest, technical, lastBatchAt, lastState, open, series, failed, restarts, sent

Inj == INSTANCE InjectionMachines WITH Sources <- Feeds

Kinds == {"status", "state", "shot"}
(* A line of a cycle is of one that CMS told. *)
LineOK(l) ==
  /\ l.kind \in Kinds
  /\ l.kind = "shot" => \E shot \in Shots : l.at = shot.at /\ l.value = shot.number
(* A request in service: what it waits for was worth storing, and what it     *)
(* counts as stored is in the database.                                       *)
RequestOK(b) ==
  /\ b = [source |-> b.source, at |-> b.at, results |-> b.results]
  /\ b.source \in Feeds /\ DOMAIN b.results \subseteq Machines \cup Unknown
  /\ b.results = [m \in DOMAIN b.results |-> b.results[m]]
ResultOK(b, m, r) ==
  /\ r = [status |-> r.status, updated |-> r.updated, shot |-> r.shot, lines |-> r.lines,
          stored |-> r.stored]
  /\ \A l \in r.lines : LineOK(l)
  /\ r.lines # {} => m \in Machines /\ Inj!Worth(r)
  /\ r.stored = "yes" => \A l \in r.lines : l.at \in DOMAIN series[<<b.source, m>>][l.kind]
BatchesStored ==
  \A b \in open : RequestOK(b) /\ \A m \in DOMAIN b.results : ResultOK(b, m, b.results[m])
(* Each cycle in the series is there at its own instant. *)
SeriesOK ==
  /\ series = [k \in Inj!Keys |-> series[k]]
  /\ \A k \in Inj!Keys :
       /\ series[k] = [status |-> series[k].status, state |-> series[k].state,
                       shot |-> series[k].shot]
       /\ \A t \in DOMAIN series[k].shot :
            \E shot \in Shots : shot.at = t /\ shot.number = series[k].shot[t]
MachinesInv == Inj!InjectionAssumption /\ BatchesStored /\ SeriesOK

(* Storing keeps what is there and has every line of what it stores. *)
LEMMA PutHasAll ==
  ASSUME NEW of, NEW lines, NEW kind
  PROVE  /\ DOMAIN of \subseteq DOMAIN Inj!Put(of, lines, kind)
         /\ \A l \in lines : l.kind = kind => l.at \in DOMAIN Inj!Put(of, lines, kind)
         /\ \A t \in DOMAIN Inj!Put(of, lines, kind) :
              \/ t \in DOMAIN of /\ Inj!Put(of, lines, kind)[t] = of[t]
              \/ \E l \in lines : l.kind = kind /\ l.at = t
                                  /\ Inj!Put(of, lines, kind)[t] = l.value
<1> DEFINE new == {l \in lines : l.kind = kind}
           dom == DOMAIN of \cup {l.at : l \in new}
           f == [t \in dom |->
                  IF \E l \in new : l.at = t THEN (CHOOSE l \in new : l.at = t).value ELSE of[t]]
<1>1. Inj!Put(of, lines, kind) = f
  BY DEF Inj!Put
<1>2. ASSUME NEW t \in dom
      PROVE  \/ t \in DOMAIN of /\ f[t] = of[t]
             \/ \E l \in lines : l.kind = kind /\ l.at = t /\ f[t] = l.value
  <2>1. CASE \E l \in new : l.at = t
    <3> DEFINE c == CHOOSE l \in new : l.at = t
    <3>1. c \in new /\ c.at = t
      BY <2>1
    <3>2. f[t] = c.value
      BY <2>1
    <3> QED BY <3>1, <3>2
  <2>2. CASE ~\E l \in new : l.at = t
    <3>1. f[t] = of[t] /\ t \in DOMAIN of
      BY <2>2
    <3> QED BY <3>1
  <2> QED BY <2>1, <2>2
<1>3. DOMAIN f = dom
  OBVIOUS
<1> HIDE DEF f
<1> QED BY <1>1, <1>2, <1>3

(* The series may only grow: what a write finds stored stays stored. *)
SeriesGrow ==
  \A k \in Inj!Keys : \A kind \in Kinds : DOMAIN series[k][kind] \subseteq DOMAIN series'[k][kind]
LEMMA StoredHasAll ==
  ASSUME MachinesInv, NEW k \in Inj!Keys, NEW lines, \A l \in lines : LineOK(l),
         series' = Inj!Stored(k, lines)
  PROVE  /\ SeriesOK' /\ SeriesGrow
         /\ \A l \in lines : l.at \in DOMAIN series'[k][l.kind]
<1> DEFINE old == series[k]
           new == [status |-> Inj!Put(old.status, lines, "status"),
                   state |-> Inj!Put(old.state, lines, "state"),
                   shot |-> Inj!Put(old.shot, lines, "shot")]
<1>1. series' = [series EXCEPT ![k] = new]
  BY DEF Inj!Stored
<1>2. /\ series'[k] = new /\ \A x \in Inj!Keys \ {k} : series'[x] = series[x]
      /\ series' = [x \in Inj!Keys |-> series'[x]]
  BY <1>1 DEF MachinesInv, SeriesOK
<1>3. /\ new = [status |-> new.status, state |-> new.state, shot |-> new.shot]
      /\ new["status"] = Inj!Put(old.status, lines, "status")
      /\ new["state"] = Inj!Put(old.state, lines, "state")
      /\ new["shot"] = Inj!Put(old.shot, lines, "shot")
      /\ new.shot = new["shot"]
  OBVIOUS
<1>4. old["status"] = old.status /\ old["state"] = old.state /\ old["shot"] = old.shot
  OBVIOUS
<1> HIDE DEF new
<1>5. \A kind \in Kinds : new[kind] = Inj!Put(old[kind], lines, kind)
  BY <1>3, <1>4 DEF Kinds
<1>6. \A kind \in Kinds : DOMAIN old[kind] \subseteq DOMAIN new[kind]
  BY <1>5, PutHasAll
<1>7. SeriesGrow
  BY <1>2, <1>6 DEF SeriesGrow
<1>8. \A l \in lines : l.at \in DOMAIN series'[k][l.kind]
  BY <1>2, <1>5, PutHasAll DEF LineOK
<1>9. \A t \in DOMAIN new.shot : \E shot \in Shots : shot.at = t /\ shot.number = new.shot[t]
  <2>1. ASSUME NEW t \in DOMAIN new.shot
        PROVE  \E shot \in Shots : shot.at = t /\ shot.number = new.shot[t]
    <3>1. \/ t \in DOMAIN old.shot /\ new.shot[t] = old.shot[t]
          \/ \E l \in lines : l.kind = "shot" /\ l.at = t /\ new.shot[t] = l.value
      BY <2>1, <1>3, PutHasAll
    <3> QED BY <3>1 DEF MachinesInv, SeriesOK, LineOK
  <2> QED BY <2>1
<1>10. SeriesOK'
  <2>1. ASSUME NEW x \in Inj!Keys
        PROVE  /\ series'[x] = [status |-> series'[x].status, state |-> series'[x].state,
                                shot |-> series'[x].shot]
               /\ \A t \in DOMAIN series'[x].shot :
                    \E shot \in Shots : shot.at = t /\ shot.number = series'[x].shot[t]
    <3>1. CASE x = k
      BY <3>1, <1>2, <1>3, <1>9
    <3>2. CASE x # k
      BY <3>2, <1>2 DEF MachinesInv, SeriesOK
    <3> QED BY <3>1, <3>2
  <2> QED BY <2>1, <1>2 DEF SeriesOK, Inj!Keys
<1> QED BY <1>7, <1>8, <1>10

(* The lines of a reading: of this plant's machines only, and of its cycle. *)
LEMMA ResultIsOK ==
  ASSUME NEW s \in Feeds, NEW m \in Machines \cup Unknown, NEW r \in Inj!Readings,
         NEW b, b.source = s
  PROVE  ResultOK(b, m, Inj!Result(s, m, r))
<1> DEFINE res == Inj!Result(s, m, r)
           lines == Inj!Lines(s, m, r)
           status == Inj!Status(s, m, r)
           updated == Inj!Updated(s, m, r)
<1>1. /\ res = [status |-> status, updated |-> updated, shot |-> r.shot, lines |-> lines,
                stored |-> IF lines = {} THEN "no" ELSE "waiting"]
      /\ res.stored # "yes" /\ res.lines = lines /\ res.status = status /\ res.updated = updated
      /\ res = [status |-> res.status, updated |-> res.updated, shot |-> res.shot,
                lines |-> res.lines, stored |-> res.stored]
  BY DEF Inj!Result
<1>2. updated => r.shot \in Shots
  <2>1. r.shot = Inj!NoShot \/ r.shot \in Shots
    BY DEF Inj!Readings
  <2>2. ~Inj!NoShot.mine
    BY DEF Inj!NoShot
  <2> QED BY <2>1, <2>2 DEF Inj!Updated, Inj!NewShot
<1>3. ASSUME NEW l \in lines
      PROVE  /\ LineOK(l) /\ m \in Machines
             /\ status = "ACCEPTED" \/ updated
  <2>1. status = "ACCEPTED" \/ updated
    BY <1>3 DEF Inj!Lines
  <2>2. ~Inj!Rejected(m, r)
    BY <2>1 DEF Inj!Status, Inj!Updated
  <2>3. m \in Machines
    BY <2>2 DEF Inj!Rejected
  <2>4. \/ l = [kind |-> "status", at |-> r.stamp, value |-> 0]
        \/ l = [kind |-> "state", at |-> r.stamp, value |-> Inj!OperatingState(r.mode)]
        \/ l = [kind |-> "shot", at |-> r.shot.at, value |-> r.shot.number] /\ updated
    BY <1>3 DEF Inj!Lines, Inj!ShotLine
  <2>5. LineOK(l)
    <3>1. CASE l = [kind |-> "shot", at |-> r.shot.at, value |-> r.shot.number] /\ updated
      <4>1. l.kind = "shot" /\ l.at = r.shot.at /\ l.value = r.shot.number
        BY <3>1
      <4> QED BY <4>1, <3>1, <1>2 DEF LineOK, Kinds
    <3>2. CASE l.kind \in {"status", "state"}
      BY <3>2 DEF LineOK, Kinds
    <3> QED BY <2>4, <3>1, <3>2
  <2> QED BY <2>1, <2>3, <2>5
<1> HIDE DEF res, lines, status, updated
<1>4. ResultOK(b, m, res)
  BY <1>1, <1>3 DEF ResultOK, Inj!Worth
<1> QED BY <1>4 DEF res

(* A result stays right while the series stay as they are. *)
LEMMA SameSeries ==
  ASSUME series' = series, NEW d, NEW x, NEW q, ResultOK(d, x, q)
  PROVE  ResultOK(d, x, q)'
BY DEF ResultOK, LineOK, Inj!Worth

LEMMA BatchReceived ==
  ASSUME MachinesInv, NEW s \in Feeds, NEW ms \in SUBSET (Machines \cup Unknown),
         NEW readings \in [ms -> Inj!Readings], Inj!Receive(s, readings)
  PROVE  MachinesInv'
<1> DEFINE results == [m \in ms |-> Inj!Result(s, m, readings[m])]
           b == [source |-> s, at |-> now, results |-> results]
<1>1. open' = open \cup {b} /\ series' = series
  BY DEF Inj!Receive
<1>2. b.source = s /\ b.results = results
      /\ b = [source |-> b.source, at |-> b.at, results |-> b.results]
  OBVIOUS
<1>3. \A m \in ms : results[m] = Inj!Result(s, m, readings[m])
  OBVIOUS
<1>4. DOMAIN results = ms /\ results = [m \in DOMAIN results |-> results[m]]
  OBVIOUS
<1> HIDE DEF b, results
<1>5. RequestOK(b)
  BY <1>2, <1>4 DEF RequestOK
<1>6. \A m \in DOMAIN b.results : ResultOK(b, m, b.results[m])
  BY <1>2, <1>3, <1>4, ResultIsOK
<1>7. BatchesStored'
  <2>1. ASSUME NEW d \in open'
        PROVE  RequestOK(d) /\ \A x \in DOMAIN d.results : ResultOK(d, x, d.results[x])
    BY <1>1, <1>5, <1>6 DEF MachinesInv, BatchesStored
  <2>2. ASSUME NEW d \in open'
        PROVE  RequestOK(d)' /\ \A x \in DOMAIN d.results : ResultOK(d, x, d.results[x])'
    BY <1>1, <2>1, SameSeries DEF RequestOK
  <2> QED BY <2>2 DEF BatchesStored
<1> QED BY <1>1, <1>7 DEF MachinesInv, SeriesOK, Inj!InjectionAssumption, Inj!Keys

(* The result of one machine of a batch settles; the series may have grown. *)
LEMMA ResultSettles ==
  ASSUME MachinesInv, NEW b \in open, NEW m \in DOMAIN b.results, NEW stored,
         SeriesOK', SeriesGrow, Inj!Settle(b, m, stored),
         stored = "yes" =>
           \A l \in b.results[m].lines : l.at \in DOMAIN series'[<<b.source, m>>][l.kind]
  PROVE  MachinesInv'
<1> DEFINE old == b.results
           r == old[m]
           settled == [r EXCEPT !.stored = stored]
           results == [old EXCEPT ![m] = settled]
           c == [b EXCEPT !.results = results]
<1>1. open' = (open \ {b}) \cup {c}
  BY DEF Inj!Settle
<1>2. /\ RequestOK(b) /\ ResultOK(b, m, r)
  BY DEF MachinesInv, BatchesStored
<1>3. b = [source |-> b.source, at |-> b.at, results |-> b.results]
      /\ old = [x \in DOMAIN old |-> old[x]] /\ m \in DOMAIN old
  BY <1>2 DEF RequestOK
<1>4. c = [source |-> b.source, at |-> b.at, results |-> results]
  <2> HIDE DEF results
  <2> QED BY <1>3
<1>5. c.source = b.source /\ c.results = results
      /\ c = [source |-> c.source, at |-> c.at, results |-> c.results]
  BY <1>4
<1>6. r = [status |-> r.status, updated |-> r.updated, shot |-> r.shot, lines |-> r.lines,
           stored |-> r.stored]
  BY <1>2 DEF ResultOK
<1>7. settled = [status |-> r.status, updated |-> r.updated, shot |-> r.shot, lines |-> r.lines,
                 stored |-> stored]
  <2> HIDE DEF r
  <2> QED BY <1>6
<1>8. /\ settled.status = r.status /\ settled.updated = r.updated /\ settled.lines = r.lines
      /\ settled.stored = stored
      /\ settled = [status |-> settled.status, updated |-> settled.updated,
                    shot |-> settled.shot, lines |-> settled.lines, stored |-> settled.stored]
  BY <1>7
<1>9. /\ DOMAIN results = DOMAIN old /\ results[m] = settled
      /\ \A x \in DOMAIN old \ {m} : results[x] = old[x]
      /\ results = [x \in DOMAIN results |-> results[x]]
  <2> HIDE DEF old, settled
  <2> QED BY <1>3
<1> HIDE DEF c, results, settled
<1>10. RequestOK(c)
  BY <1>2, <1>5, <1>9 DEF RequestOK
<1>11. ASSUME NEW d, NEW x, NEW q, RequestOK(d), x \in DOMAIN d.results, ResultOK(d, x, q)
       PROVE  ResultOK(d, x, q)'
  <2>1. ASSUME NEW l \in q.lines, q.stored = "yes"
        PROVE  l.at \in DOMAIN series'[<<d.source, x>>][l.kind]
    <3>1. l.at \in DOMAIN series[<<d.source, x>>][l.kind] /\ l.kind \in Kinds
      BY <1>11, <2>1 DEF ResultOK, LineOK
    <3>2. <<d.source, x>> \in Inj!Keys
      BY <1>11, <2>1 DEF ResultOK, RequestOK, Inj!Keys
    <3> QED BY <3>1, <3>2 DEF SeriesGrow
  <2> QED BY <1>11, <2>1 DEF ResultOK, Inj!Worth, LineOK
<1>12. \A x \in DOMAIN c.results : ResultOK(c, x, c.results[x])'
  <2>1. ASSUME NEW x \in DOMAIN old, x # m PROVE ResultOK(c, x, results[x])'
    <3>1. ResultOK(b, x, old[x])'
      BY <1>2, <1>11 DEF MachinesInv, BatchesStored
    <3> QED BY <3>1, <2>1, <1>5, <1>9 DEF ResultOK
  <2>2. ResultOK(c, m, settled)'
    BY <1>2, <1>5, <1>8 DEF ResultOK, Inj!Worth
  <2> QED BY <2>1, <2>2, <1>5, <1>9
<1>13. \A d \in open : RequestOK(d) /\ \A x \in DOMAIN d.results : ResultOK(d, x, d.results[x])'
  BY <1>11 DEF MachinesInv, BatchesStored
<1>14. BatchesStored'
  BY <1>1, <1>10, <1>12, <1>13 DEF BatchesStored, RequestOK
<1> QED BY <1>14 DEF MachinesInv, Inj!InjectionAssumption

LEMMA WriteEnds ==
  ASSUME MachinesInv, NEW b \in open, NEW m \in DOMAIN b.results,
         \/ Inj!WriteDone(b, m)
         \/ Inj!WriteFails(b, m, TRUE) \/ Inj!WriteFails(b, m, FALSE)
  PROVE  MachinesInv'
<1> DEFINE k == <<b.source, m>>
           lines == b.results[m].lines
<1>1. RequestOK(b) /\ ResultOK(b, m, b.results[m])
  BY DEF MachinesInv, BatchesStored
<1>2. ASSUME series' = Inj!Stored(k, lines)
      PROVE  SeriesOK' /\ SeriesGrow /\ \A l \in lines : l.at \in DOMAIN series'[k][l.kind]
  <2>1. CASE k \in Inj!Keys
    BY <2>1, <1>1, <1>2, StoredHasAll DEF ResultOK
  <2>2. CASE k \notin Inj!Keys
    <3>1. lines = {}
      BY <2>2, <1>1 DEF ResultOK, RequestOK, Inj!Keys
    <3>2. series' = series
      BY <2>2, <1>2 DEF Inj!Stored, MachinesInv, SeriesOK
    <3> QED BY <3>1, <3>2 DEF MachinesInv, SeriesOK, SeriesGrow, Inj!Keys
  <2> QED BY <2>1, <2>2
<1>3. ASSUME series' = series PROVE SeriesOK' /\ SeriesGrow
  BY <1>3 DEF MachinesInv, SeriesOK, SeriesGrow, Inj!Keys
<1>4. CASE Inj!WriteDone(b, m)
  <2>1. series' = Inj!Stored(k, lines) /\ Inj!Settle(b, m, "yes")
    BY <1>4 DEF Inj!WriteDone
  <2> QED BY <2>1, <1>2, ResultSettles
<1>5. ASSUME NEW kept \in BOOLEAN, Inj!WriteFails(b, m, kept) PROVE MachinesInv'
  <2>1. (series' = Inj!Stored(k, lines) \/ series' = series) /\ Inj!Settle(b, m, "no")
    BY <1>5 DEF Inj!WriteFails, Inj!Fails
  <2>2. SeriesOK' /\ SeriesGrow
    BY <2>1, <1>2, <1>3
  <2> QED BY <2>1, <2>2, ResultSettles
<1> QED BY <1>4, <1>5

LEMMA ServiceGoesOn ==
  ASSUME MachinesInv,
         \/ \E b \in open : Inj!Answer(b)
         \/ Inj!Tick \/ Inj!Restart
         \/ UNCHANGED Inj!vars
  PROVE  MachinesInv'
<1>1. open' \subseteq open /\ series' = series
  BY DEF Inj!Answer, Inj!Tick, Inj!Restart, Inj!vars
<1>2. BatchesStored'
  <2>1. ASSUME NEW d \in open'
        PROVE  RequestOK(d) /\ \A x \in DOMAIN d.results : ResultOK(d, x, d.results[x])
    BY <1>1 DEF MachinesInv, BatchesStored
  <2>2. ASSUME NEW d \in open'
        PROVE  RequestOK(d)' /\ \A x \in DOMAIN d.results : ResultOK(d, x, d.results[x])'
    BY <1>1, <2>1, SameSeries DEF RequestOK
  <2> QED BY <2>2 DEF BatchesStored
<1> QED BY <1>1, <1>2 DEF MachinesInv, SeriesOK, Inj!InjectionAssumption, Inj!Keys

LEMMA MachinesStart == Inj!InjectionAssumption /\ Inj!Init => MachinesInv
<1> SUFFICES ASSUME Inj!InjectionAssumption, Inj!Init PROVE MachinesInv
  OBVIOUS
<1>1. open = {} /\ series = [k \in Inj!Keys |-> [status |-> <<>>, state |-> <<>>, shot |-> <<>>]]
  BY DEF Inj!Init
<1>2. DOMAIN <<>> = {}
  OBVIOUS
<1>3. SeriesOK
  BY <1>1, <1>2 DEF SeriesOK
<1> QED BY <1>1, <1>3 DEF MachinesInv, BatchesStored

LEMMA MachinesStep == MachinesInv /\ [Inj!Next]_(Inj!vars) => MachinesInv'
BY BatchReceived, WriteEnds, ServiceGoesOn DEF Inj!Next

(* For any machines, senders and batches, several served at once, with writes *)
(* that fail or come through after all and restarts in between: "persisted"   *)
(* told to Node-RED is true of the database, and a cycle offered again never  *)
(* becomes a second point (receive, injection-machines.service.ts 54-182;     *)
(* record, injection-history.service.ts).                                     *)
THEOREM PersistedIsTrue ==
  Inj!InjectionAssumption => (Inj!Spec => [](Inj!PersistedIsStored /\ Inj!CycleStoredOnce))
<1>1. MachinesInv => Inj!PersistedIsStored
  <2>1. ASSUME MachinesInv, NEW b \in open, Inj!Persisted(b.results),
               NEW m \in DOMAIN b.results, NEW l \in b.results[m].lines
        PROVE  l.at \in DOMAIN series[<<b.source, m>>][l.kind]
    <3>1. ResultOK(b, m, b.results[m])
      BY <2>1 DEF MachinesInv, BatchesStored
    <3>2. Inj!Worth(b.results[m])
      BY <2>1, <3>1 DEF ResultOK
    <3>3. b.results[m].stored = "yes"
      BY <2>1, <3>2 DEF Inj!Persisted
    <3> QED BY <2>1, <3>1, <3>3 DEF ResultOK
  <2> QED BY <2>1 DEF Inj!PersistedIsStored
<1>2. MachinesInv => Inj!CycleStoredOnce
  <2>1. ASSUME MachinesInv, NEW k \in Inj!Keys,
               NEW t \in DOMAIN series[k].shot, NEW u \in DOMAIN series[k].shot,
               series[k].shot[t] = series[k].shot[u]
        PROVE  t = u
    <3>1. PICK shot \in Shots : shot.at = t /\ shot.number = series[k].shot[t]
      BY <2>1 DEF MachinesInv, SeriesOK
    <3>2. PICK again \in Shots : again.at = u /\ again.number = series[k].shot[u]
      BY <2>1 DEF MachinesInv, SeriesOK
    <3> QED BY <2>1, <3>1, <3>2 DEF MachinesInv, Inj!InjectionAssumption
  <2> QED BY <2>1 DEF Inj!CycleStoredOnce
<1> QED BY <1>1, <1>2, MachinesStart, MachinesStep, PTL DEF Inj!Spec

-----------------------------------------------------------------------------
(* The line of states of a machine (StateTimeline), and its card.           *)

Line == INSTANCE StateTimeline

\* Readings of different instants, and how their line numbers them.
Apart(S) ==
  IsFiniteSet(S) /\ (\A p \in S : p.at \in Int) /\ (\A p, q \in S : p.at = q.at => p = q)
Before(S, p) == {q \in S : q.at < p.at}
InOrder(s, S) ==
  /\ s \in [1 .. Cardinality(S) -> S]
  /\ \A p \in S : \E i \in 1 .. Cardinality(S) : s[i] = p
  /\ \A i, j \in 1 .. Cardinality(S) : i < j => s[i].at < s[j].at

\* One of finitely many readings is the last.
LEMMA LastReading ==
  ASSUME NEW S, Apart(S), S # {}
  PROVE  \E m \in S : \A p \in S : p.at <= m.at
<1> DEFINE N == {n \in Nat : \A R \in SUBSET S : Cardinality(R) = n + 1 =>
                               \E m \in R : \A p \in R : p.at <= m.at}
<1>1. \A R \in SUBSET S : IsFiniteSet(R) /\ Cardinality(R) \in Nat
  BY FS_Subset, FS_CardinalityType DEF Apart
<1>2. 0 \in N
  <2>1. ASSUME NEW R \in SUBSET S, Cardinality(R) = 0 + 1
        PROVE  \E m \in R : \A p \in R : p.at <= m.at
    <3>0. IsFiniteSet(R) /\ Cardinality(R) = 1
      BY <1>1, <2>1
    <3>1. PICK x : R = {x}
      BY <3>0, FS_Singleton
    <3>2. x.at \in Int
      BY <3>1 DEF Apart
    <3> QED BY <3>1, <3>2
  <2> QED BY <2>1
<1>3. ASSUME NEW n \in N PROVE n + 1 \in N
  <2>1. ASSUME NEW R \in SUBSET S, Cardinality(R) = (n + 1) + 1
        PROVE  \E m \in R : \A p \in R : p.at <= m.at
    <3>0. n \in Nat
      OBVIOUS
    <3>1. PICK x : x \in R
      <4>1. R # {}
        BY <2>1, <3>0, FS_EmptySet
      <4> QED BY <4>1
    <3>2. Cardinality(R \ {x}) = n + 1 /\ R \ {x} \in SUBSET S
      BY <1>1, <2>1, <3>0, <3>1, FS_RemoveElement
    <3>3. PICK m \in R \ {x} : \A p \in R \ {x} : p.at <= m.at
      BY <3>2
    <3>4. \A p \in R : p.at \in Int
      BY DEF Apart
    <3>5. CASE m.at <= x.at
      <4>1. \A p \in R : p.at <= x.at
        BY <3>1, <3>3, <3>4, <3>5
      <4> QED BY <3>1, <4>1
    <3>6. CASE ~(m.at <= x.at)
      <4>1. \A p \in R : p.at <= m.at
        BY <3>1, <3>3, <3>4, <3>6
      <4> QED BY <4>1
    <3> QED BY <3>5, <3>6
  <2>2. n + 1 \in Nat
    OBVIOUS
  <2> QED BY <2>1, <2>2
<1>4. N \in SUBSET Nat
  OBVIOUS
<1> HIDE DEF N
<1>5. N = Nat
  BY <1>2, <1>3, <1>4, NoLeastFailure
<1>6. Cardinality(S) - 1 \in Nat /\ Cardinality(S) = (Cardinality(S) - 1) + 1
  <2>1. Cardinality(S) # 0 /\ Cardinality(S) \in Nat
    BY <1>1, FS_EmptySet DEF Apart
  <2> QED BY <2>1
<1> DEFINE n == Cardinality(S) - 1
<1>7. n \in N /\ Cardinality(S) = n + 1
  BY <1>5, <1>6
<1> HIDE DEF n
<1> QED BY <1>7 DEF N

\* Finitely many readings have an order.
LEMMA OrderExists ==
  ASSUME NEW S, Apart(S)
  PROVE  \E s : InOrder(s, S)
<1> DEFINE N == {n \in Nat : \A R \in SUBSET S : Cardinality(R) = n => \E s : InOrder(s, R)}
<1>1. \A R \in SUBSET S : IsFiniteSet(R) /\ Cardinality(R) \in Nat /\ Apart(R)
  BY FS_Subset, FS_CardinalityType DEF Apart
<1>2. 0 \in N
  <2>1. ASSUME NEW R \in SUBSET S, Cardinality(R) = 0 PROVE \E s : InOrder(s, R)
    <3>1. R = {} /\ 1 .. Cardinality(R) = {}
      BY <1>1, <2>1, FS_EmptySet
    <3>2. InOrder([i \in {} |-> i], R)
      BY <3>1 DEF InOrder
    <3> QED BY <3>2
  <2> QED BY <2>1
<1>3. ASSUME NEW n \in N PROVE n + 1 \in N
  <2>1. ASSUME NEW R \in SUBSET S, Cardinality(R) = n + 1 PROVE \E s : InOrder(s, R)
    <3>0. n \in Nat
      OBVIOUS
    <3>1. PICK m \in R : \A p \in R : p.at <= m.at
      <4>1. R # {}
        BY <2>1, <3>0, FS_EmptySet
      <4> QED BY <4>1, <1>1, LastReading
    <3> DEFINE Q == R \ {m}
    <3>2. Cardinality(Q) = n /\ Q \in SUBSET S
      BY <1>1, <2>1, <3>0, FS_RemoveElement
    <3>3. PICK s : InOrder(s, Q)
      BY <3>2
    <3>4. /\ s \in [1 .. n -> Q]
          /\ \A p \in Q : \E i \in 1 .. n : s[i] = p
          /\ \A i, j \in 1 .. n : i < j => s[i].at < s[j].at
      BY <3>2, <3>3 DEF InOrder
    <3>5. \A p \in Q : p.at < m.at
      <4>1. \A p \in Q : p.at \in Int /\ m.at \in Int /\ p.at # m.at
        BY DEF Apart
      <4> QED BY <3>1, <4>1
    <3> DEFINE t == [i \in 1 .. n + 1 |-> IF i = n + 1 THEN m ELSE s[i]]
    <3>6. /\ t[n + 1] = m /\ n + 1 \in 1 .. n + 1
          /\ \A i \in 1 .. n : i \in 1 .. n + 1 /\ t[i] = s[i]
          /\ \A i \in 1 .. n + 1 : i = n + 1 \/ i \in 1 .. n
          /\ t = [i \in 1 .. n + 1 |-> t[i]]
      BY <3>0
    <3> HIDE DEF t, Q, N
    <3>7. t \in [1 .. n + 1 -> R]
      <4>1. ASSUME NEW i \in 1 .. n + 1 PROVE t[i] \in R
        <5>1. CASE i = n + 1
          BY <5>1, <3>6
        <5>2. CASE i \in 1 .. n
          BY <5>2, <3>4, <3>6 DEF Q
        <5> QED BY <5>1, <5>2, <3>6
      <4> QED BY <4>1, <3>6
    <3>8. \A p \in R : \E i \in 1 .. n + 1 : t[i] = p
      <4>1. ASSUME NEW p \in R, p # m PROVE \E i \in 1 .. n + 1 : t[i] = p
        <5>1. PICK i \in 1 .. n : s[i] = p
          BY <3>4, <4>1 DEF Q
        <5> QED BY <5>1, <3>6
      <4> QED BY <4>1, <3>6
    <3>9. \A i, j \in 1 .. n + 1 : i < j => t[i].at < t[j].at
      <4>1. ASSUME NEW i \in 1 .. n + 1, NEW j \in 1 .. n + 1, i < j
            PROVE  t[i].at < t[j].at
        <5>0. i \in 1 .. n
          BY <3>0, <4>1
        <5>1. i \in 1 .. n /\ t[i] = s[i] /\ s[i] \in Q
          BY <5>0, <3>4, <3>6
        <5>2. CASE j = n + 1
          BY <5>1, <5>2, <3>5, <3>6
        <5>3. CASE j \in 1 .. n
          BY <5>1, <5>3, <3>4, <3>6, <4>1
        <5> QED BY <5>2, <5>3, <3>6
      <4> QED BY <4>1
    <3>10. InOrder(t, R)
      BY <2>1, <3>7, <3>8, <3>9 DEF InOrder
    <3> QED BY <3>10
  <2>2. n + 1 \in Nat
    OBVIOUS
  <2> QED BY <2>1, <2>2
<1>4. N \in SUBSET Nat
  OBVIOUS
<1> HIDE DEF N
<1>5. Cardinality(S) \in N
  BY <1>1, <1>2, <1>3, <1>4, NoLeastFailure
<1> QED BY <1>5 DEF N

\* The place of a reading is how many come before it.
LEMMA PlaceOf ==
  ASSUME NEW S, Apart(S), NEW s, InOrder(s, S), NEW i \in 1 .. Cardinality(S)
  PROVE  Cardinality(Before(S, s[i])) = i - 1
<1> DEFINE B == Before(S, s[i])
           f == [j \in 1 .. i - 1 |-> s[j]]
<1>0. Cardinality(S) \in Nat /\ \A p \in S : p.at \in Int
  BY FS_CardinalityType DEF Apart
<1>1. ASSUME NEW j \in 1 .. i - 1 PROVE j \in 1 .. Cardinality(S) /\ j < i
  BY <1>0
<1>2. f \in [1 .. i - 1 -> B]
  BY <1>1 DEF InOrder, Before
<1>3. \A q \in B : \E j \in 1 .. i - 1 : f[j] = q
  <2>1. ASSUME NEW q \in B PROVE \E j \in 1 .. i - 1 : f[j] = q
    <3>1. PICK j \in 1 .. Cardinality(S) : s[j] = q
      BY DEF InOrder, Before
    <3>2. j < i
      <4>1. s[i] \in S /\ s[j].at < s[i].at /\ s[i].at \in Int /\ s[j].at \in Int
        BY <1>0, <3>1 DEF InOrder, Before
      <4>2. ~ (i < j) /\ i # j
        BY <4>1 DEF InOrder
      <4> QED BY <4>2, <1>0
    <3>3. j \in 1 .. i - 1
      BY <3>2, <1>0
    <3> QED BY <3>1, <3>3
  <2> QED BY <2>1
<1>4. \A a, b \in 1 .. i - 1 : f[a] = f[b] => a = b
  <2>1. ASSUME NEW a \in 1 .. i - 1, NEW b \in 1 .. i - 1, a < b PROVE f[a] # f[b]
    <3>1. s[a].at < s[b].at /\ s[a].at \in Int
      BY <1>0, <1>1, <2>1 DEF InOrder
    <3> QED BY <3>1
  <2> QED BY <2>1
<1> HIDE DEF f, B
<1>5. f \in Bijection(1 .. i - 1, B)
  BY <1>2, <1>3, <1>4, Fun_IsBij
<1>6. i - 1 \in Nat
  BY <1>0
<1>7. Cardinality(B) = i - 1
  BY <1>5, <1>6, FS_CountingElements DEF ExistsBijection
<1> QED BY <1>7 DEF B

\* The readings of a line, as the page sorts them.
LEMMA UsableInOrder ==
  ASSUME NEW points, NEW start, NEW time, Apart(Line!Heard(points, start, time))
  PROVE  InOrder(Line!Usable(points, start, time), Line!Heard(points, start, time))
<1> DEFINE S == Line!Heard(points, start, time)
           r == [i \in 1 .. Cardinality(S) |-> CHOOSE p \in S : Cardinality(Before(S, p)) = i - 1]
<1>1. Line!Usable(points, start, time) = r
  BY DEF Line!Usable, Line!Heard, Line!Cardinality, Cardinality, Before
<1>2. PICK s : InOrder(s, S)
  BY OrderExists
<1>3. ASSUME NEW i \in 1 .. Cardinality(S) PROVE r[i] = s[i]
  <2>1. s[i] \in S /\ Cardinality(Before(S, s[i])) = i - 1
    BY <1>2, PlaceOf DEF InOrder
  <2> DEFINE c == CHOOSE p \in S : Cardinality(Before(S, p)) = i - 1
  <2>2. c \in S /\ Cardinality(Before(S, c)) = i - 1
    BY <2>1
  <2>3. r[i] = c
    OBVIOUS
  <2> HIDE DEF c
  <2>4. PICK j \in 1 .. Cardinality(S) : s[j] = c
    BY <1>2, <2>2 DEF InOrder
  <2>5. Cardinality(Before(S, c)) = j - 1
    BY <1>2, <2>4, PlaceOf
  <2>6. i = j
    <3>1. Cardinality(S) \in Nat
      BY FS_CardinalityType DEF Apart
    <3> QED BY <2>2, <2>5, <3>1
  <2> QED BY <2>3, <2>4, <2>6
<1>4. r = s
  BY <1>2, <1>3 DEF InOrder
<1> QED BY <1>1, <1>2, <1>4

\* Segments that fill the window from start to the instant they have come to, each
\* of the colour the readings give its instants.
States == {"producing", "stopped", "unknown"}
Segments == [start : Int, end : Int, state : States]
SegmentTells(segments, i, points, start) ==
  /\ segments[i].start = IF i = 1 THEN start ELSE segments[i - 1].end
  /\ segments[i].start < segments[i].end
  /\ i > 1 => segments[i].state # segments[i - 1].state
  /\ \A t \in segments[i].start .. segments[i].end - 1 :
       segments[i].state = Line!ColourAt(points, start, t)
Tells(segments, points, start, to) ==
  /\ segments \in Seq(Segments)
  /\ \A i \in 1 .. Len(segments) : SegmentTells(segments, i, points, start)
  /\ segments = <<>> => to = start
  /\ segments # <<>> => segments[Len(segments)].end = to

\* A stretch of one colour is added.
LEMMA StretchTells ==
  ASSUME NEW points, NEW start \in Int, NEW from \in Int, NEW to \in Int, from <= to,
         NEW state \in States, NEW segments, Tells(segments, points, start, from),
         \A t \in from .. to - 1 : Line!ColourAt(points, start, t) = state
  PROVE  Tells(Line!Append2(segments, from, to, state), points, start, to)
<1> DEFINE n == Len(segments)
           line == Line!Append2(segments, from, to, state)
<1>0. segments \in Seq(Segments) /\ n \in Nat /\ (segments = <<>> <=> n = 0)
      /\ \A i \in 1 .. n : segments[i] \in Segments
  BY DEF Tells
<1>1. CASE to <= from
  <2>1. line = segments /\ to = from
    BY <1>1 DEF Line!Append2
  <2> QED BY <2>1
<1>2. CASE ~(to <= from) /\ n # 0 /\ segments[n].state = state
  <2> DEFINE longer == [segments[n] EXCEPT !.end = to]
             last == segments[n]
  <2>1. last \in Segments /\ last.end = from /\ last.state = state /\ SegmentTells(segments, n, points, start)
    BY <1>0, <1>2 DEF Tells
  <2>2. longer = [start |-> last.start, end |-> to, state |-> last.state]
    <3>1. last = [start |-> last.start, end |-> last.end, state |-> last.state]
      BY <2>1 DEF Segments
    <3> QED BY <3>1
  <2>3. longer \in Segments /\ longer.start = last.start /\ longer.end = to /\ longer.state = state
    <3> HIDE DEF longer, last
    <3> QED BY <2>1, <2>2 DEF Segments
  <2>4. line = [segments EXCEPT ![n] = longer]
    BY <1>0, <1>2, <2>1 DEF Line!Append2, Line!Last
  <2> HIDE DEF longer
  <2>5. /\ line \in Seq(Segments) /\ Len(line) = n /\ line[n] = longer
        /\ \A i \in 1 .. n - 1 : line[i] = segments[i]
    BY <1>0, <1>2, <2>3, <2>4
  <2> HIDE DEF line
  <2>6. ASSUME NEW i \in 1 .. n PROVE SegmentTells(line, i, points, start)
    <3>1. CASE i = n
      <4>1. /\ last.start = IF n = 1 THEN start ELSE segments[n - 1].end
            /\ last.start < last.end
            /\ n > 1 => last.state # segments[n - 1].state
            /\ \A t \in last.start .. last.end - 1 : last.state = Line!ColourAt(points, start, t)
        BY <2>1 DEF SegmentTells
      <4>2. n > 1 => line[n - 1] = segments[n - 1]
        BY <1>0, <2>5
      <4>3. line[n].start = last.start /\ line[n].end = to /\ line[n].state = state
        BY <2>3, <2>5
      <4>4. line[n].start = IF n = 1 THEN start ELSE line[n - 1].end
        <5>1. CASE n = 1
          BY <5>1, <4>1, <4>3
        <5>2. CASE n > 1
          BY <5>2, <4>1, <4>2, <4>3
        <5>3. n = 1 \/ n > 1
          <6> HIDE DEF n
          <6> QED BY <1>0, <1>2
        <5> QED BY <5>1, <5>2, <5>3
      <4>5. last.start \in Int /\ last.start < to
        BY <1>2, <2>1, <4>1 DEF Segments
      <4>6. \A t \in last.start .. to - 1 : state = Line!ColourAt(points, start, t)
        <5>1. ASSUME NEW t \in last.start .. to - 1 PROVE state = Line!ColourAt(points, start, t)
          <6>1. t \in last.start .. last.end - 1 \/ t \in from .. to - 1
            BY <2>1, <4>5
          <6> QED BY <2>1, <4>1, <6>1
        <5> QED BY <5>1
      <4>7. n > 1 => line[n].state # line[n - 1].state
        BY <2>1, <4>1, <4>2, <4>3
      <4> QED BY <3>1, <4>3, <4>4, <4>5, <4>6, <4>7 DEF SegmentTells
    <3>2. CASE i # n
      <4>1. i \in 1 .. n - 1 /\ line[i] = segments[i] /\ SegmentTells(segments, i, points, start)
        BY <1>0, <2>5, <3>2 DEF Tells
      <4>2. i > 1 => line[i - 1] = segments[i - 1]
        BY <1>0, <2>5, <4>1
      <4>3. i = 1 \/ i > 1
        BY <4>1
      <4> QED BY <4>1, <4>2, <4>3 DEF SegmentTells
    <3> QED BY <3>1, <3>2
  <2>7. line # <<>> /\ line[Len(line)].end = to
    BY <1>0, <1>2, <2>3, <2>5
  <2> QED BY <2>5, <2>6, <2>7 DEF Tells, line
<1>3. CASE ~(to <= from) /\ (n = 0 \/ segments[n].state # state)
  <2> DEFINE new == [start |-> from, end |-> to, state |-> state]
  <2>1. line = Append(segments, new)
    BY <1>0, <1>3 DEF Line!Append2, Line!Last
  <2>2. new \in Segments /\ new.start = from /\ new.end = to /\ new.state = state
    BY DEF Segments
  <2> HIDE DEF new
  <2>3. /\ line \in Seq(Segments) /\ Len(line) = n + 1 /\ line[n + 1] = new
        /\ \A i \in 1 .. n : line[i] = segments[i]
    BY <1>0, <2>1, <2>2
  <2> HIDE DEF line
  <2>4. ASSUME NEW i \in 1 .. n + 1 PROVE SegmentTells(line, i, points, start)
    <3>1. CASE i = n + 1
      <4>1. n # 0 => segments[n].end = from /\ line[n] = segments[n]
        BY <1>0, <2>3 DEF Tells
      <4>2. n = 0 => from = start
        BY <1>0 DEF Tells
      <4>3. line[i].start = IF i = 1 THEN start ELSE line[i - 1].end
        BY <1>0, <2>2, <2>3, <3>1, <4>1, <4>2
      <4>4. i > 1 => line[i].state # line[i - 1].state
        BY <1>0, <1>3, <2>2, <2>3, <3>1, <4>1
      <4>5. line[i].start < line[i].end
        BY <1>3, <2>2, <2>3, <3>1
      <4>6. \A t \in line[i].start .. line[i].end - 1 : line[i].state = Line!ColourAt(points, start, t)
        BY <2>2, <2>3, <3>1
      <4> QED BY <4>3, <4>4, <4>5, <4>6 DEF SegmentTells
    <3>2. CASE i # n + 1
      <4>1. i \in 1 .. n /\ line[i] = segments[i] /\ SegmentTells(segments, i, points, start)
        BY <1>0, <2>3, <3>2 DEF Tells
      <4>2. i > 1 => line[i - 1] = segments[i - 1]
        BY <1>0, <2>3, <4>1
      <4>3. i = 1 \/ i > 1
        BY <4>1
      <4> QED BY <4>1, <4>2, <4>3 DEF SegmentTells
    <3> QED BY <3>1, <3>2
  <2>5. line # <<>> /\ line[Len(line)].end = to
    BY <1>0, <2>2, <2>3
  <2> QED BY <2>3, <2>4, <2>5 DEF Tells, line
<1> QED BY <1>1, <1>2, <1>3

\* Between two readings, the newest one heard is the first of them.
LEMMA ColourAfter ==
  ASSUME Line!GapAssumption, NEW points, NEW start \in Int, NEW time \in Int,
         Apart(Line!Heard(points, start, time)),
         NEW s, InOrder(s, Line!Heard(points, start, time)),
         NEW i \in 1 .. Cardinality(Line!Heard(points, start, time)),
         NEW t \in s[i].at .. time,
         i < Cardinality(Line!Heard(points, start, time)) => t < s[i + 1].at
  PROVE  Line!ColourAt(points, start, t) =
           IF t - s[i].at >= Gap THEN "unknown" ELSE Line!Colour(s[i].value)
<1> DEFINE S == Line!Heard(points, start, time)
           H == Line!Heard(points, start, t)
           n == Cardinality(S)
           chosen == CHOOSE p \in H : \A q \in H : q.at <= p.at
<1>0. /\ n \in Nat /\ s[i] \in S /\ s[i].at \in Int /\ t \in Int
      /\ \A p \in S : p.at \in Int /\ p.at \in start .. time
  BY FS_CardinalityType DEF Apart, InOrder, Line!Heard
<1>1. H = {p \in S : p.at <= t}
  <2>1. t <= time
    BY <1>0
  <2>2. \A p \in points : p.at \in start .. t <=> (p.at \in start .. time /\ p.at <= t)
    BY <1>0, <2>1
  <2> QED BY <2>2 DEF Line!Heard
<1>2. ASSUME NEW p \in H PROVE p.at <= s[i].at
  <2>1. p \in S /\ p.at <= t
    BY <1>1
  <2>2. PICK j \in 1 .. n : s[j] = p
    BY <2>1 DEF InOrder
  <2>3. CASE j <= i
    BY <1>0, <2>1, <2>2, <2>3 DEF InOrder
  <2>4. CASE ~(j <= i)
    <3>1. i < n /\ i + 1 \in 1 .. n /\ i + 1 <= j
      BY <1>0, <2>4
    <3>2. t < s[i + 1].at
      BY <3>1
    <3>3. s[i + 1].at <= s[j].at
      <4>1. s[i + 1] \in S /\ s[j] \in S
        BY <3>1 DEF InOrder
      <4> QED BY <1>0, <3>1, <4>1 DEF InOrder
    <3>4. s[i + 1].at \in Int
      BY <1>0, <3>1 DEF InOrder
    <3> QED BY <1>0, <2>1, <2>2, <3>2, <3>3, <3>4
  <2> QED BY <2>3, <2>4
<1>3. s[i] \in H
  BY <1>0, <1>1
<1>4. chosen \in H /\ \A q \in H : q.at <= chosen.at
  BY <1>2, <1>3
<1>e. Line!ColourAt(points, start, t) =
        IF H = {} THEN "unknown"
        ELSE IF t - chosen.at >= Gap THEN "unknown" ELSE Line!Colour(chosen.value)
  BY DEF Line!ColourAt
<1> HIDE DEF chosen
<1>5. chosen = s[i]
  <2>1. chosen.at <= s[i].at /\ s[i].at <= chosen.at /\ chosen \in S
    BY <1>1, <1>2, <1>3, <1>4
  <2>2. chosen.at = s[i].at
    BY <1>0, <2>1
  <2> QED BY <1>0, <2>1, <2>2 DEF Apart
<1>6. H # {}
  BY <1>3
<1> QED BY <1>e, <1>5, <1>6

\* The loop over the readings of a line.
LineLoop(f, n, s, start, time) ==
  f = [i \in 0 .. n |-> IF i = 0 THEN [segments |-> <<>>, cursor |-> start]
                        ELSE Line!Reading1(s, i, time, f[i - 1])]
LEMMA LineLoopExists ==
  ASSUME NEW s, NEW start, NEW time, NEW n \in Nat
  PROVE  \E f : LineLoop(f, n, s, start, time)
<1> DEFINE first == [segments |-> <<>>, cursor |-> start]
           S == {m \in Nat : \E f : LineLoop(f, m, s, start, time)}
<1>1. 0 \in S
  <2> DEFINE f == [i \in 0 .. 0 |-> first]
  <2>1. f = [i \in 0 .. 0 |-> IF i = 0 THEN first ELSE Line!Reading1(s, i, time, f[i - 1])]
    <3> HIDE DEF first
    <3> \A i \in 0 .. 0 : i = 0
      OBVIOUS
    <3> QED OBVIOUS
  <2> HIDE DEF f
  <2>2. LineLoop(f, 0, s, start, time)
    BY <2>1 DEF LineLoop
  <2> QED BY <2>2
<1>2. ASSUME NEW m \in S PROVE m + 1 \in S
  <2>1. PICK f : LineLoop(f, m, s, start, time)
    OBVIOUS
  <2> DEFINE next == Line!Reading1(s, m + 1, time, f[m])
             g == [i \in 0 .. m + 1 |-> IF i = m + 1 THEN next ELSE f[i]]
  <2>2. m \in Nat /\ \A i \in 0 .. m : f[i] = IF i = 0 THEN first ELSE Line!Reading1(s, i, time, f[i - 1])
    BY <2>1 DEF LineLoop
  <2> HIDE DEF first
  <2>3. \A i \in 0 .. m : g[i] = f[i]
    BY <2>2
  <2>4. g[m + 1] = next /\ DOMAIN g = 0 .. m + 1
    BY <2>2
  <2>5. g = [i \in 0 .. m + 1 |-> g[i]]
    OBVIOUS
  <2> HIDE DEF g, S
  <2>6. ASSUME NEW i \in 0 .. m + 1
        PROVE  g[i] = IF i = 0 THEN first ELSE Line!Reading1(s, i, time, g[i - 1])
    <3>1. CASE i = m + 1
      <4>1. i # 0 /\ i - 1 = m /\ m \in 0 .. m
        BY <3>1, <2>2
      <4>2. g[i - 1] = f[m]
        BY <4>1, <2>3
      <4> QED BY <3>1, <4>1, <4>2, <2>4
    <3>2. CASE i = 0
      BY <3>2, <2>2, <2>3
    <3>3. CASE i \in 1 .. m
      <4>1. i \in 0 .. m /\ i - 1 \in 0 .. m /\ i # 0
        BY <3>3, <2>2
      <4>2. g[i - 1] = f[i - 1] /\ g[i] = f[i]
        BY <4>1, <2>3
      <4> QED BY <4>1, <4>2, <2>2
    <3>4. i = m + 1 \/ i = 0 \/ i \in 1 .. m
      BY <2>2
    <3> QED BY <3>1, <3>2, <3>3, <3>4
  <2>7. LineLoop(g, m + 1, s, start, time)
    BY <2>5, <2>6 DEF LineLoop, first
  <2>8. m + 1 \in Nat
    BY <2>2
  <2> QED BY <2>7, <2>8 DEF S
<1>3. S \in SUBSET Nat
  OBVIOUS
<1> HIDE DEF S
<1>4. n \in S
  BY <1>1, <1>2, <1>3, NoLeastFailure
<1> QED BY <1>4 DEF S

\* The least of three instants.
LEMMA LeastOfThree ==
  ASSUME NEW a \in Int, NEW b \in Int, NEW c \in Int
  PROVE  LET m == Line!Minimum({a, b, c}) IN
         m \in {a, b, c} /\ m <= a /\ m <= b /\ m <= c
<1>1. \E x \in {a, b, c} : \A y \in {a, b, c} : x <= y
  OBVIOUS
<1> QED BY <1>1 DEF Line!Minimum

\* Where the stretch of a reading ends.
LEMMA StretchEnds ==
  ASSUME Line!GapAssumption, NEW points, NEW start \in Int, NEW time \in Int,
         Apart(Line!Heard(points, start, time)),
         NEW s, InOrder(s, Line!Heard(points, start, time)),
         NEW i \in 1 .. Cardinality(Line!Heard(points, start, time))
  PROVE  LET n == Cardinality(Line!Heard(points, start, time))
             end == Line!EndOf(s, i, time)
         IN  /\ end \in Int /\ s[i].at \in start .. time
             /\ s[i].at <= end /\ end <= time /\ end <= s[i].at + Gap
             /\ i < n => end <= s[i + 1].at
             /\ \/ end = time \/ end = s[i].at + Gap \/ (i < n /\ end = s[i + 1].at)
<1> DEFINE S == Line!Heard(points, start, time)
           n == Cardinality(S)
           end == Line!EndOf(s, i, time)
           next == IF i < n THEN s[i + 1].at ELSE time
<1>0. /\ n \in Nat /\ s \in Seq(S) /\ Len(s) = n
      /\ \A j \in 1 .. n : s[j] \in S
  BY FS_CardinalityType DEF Apart, InOrder
<1>1. \A p \in S : p.at \in Int /\ p.at \in start .. time
  BY DEF Apart, Line!Heard
<1>2. Gap \in Nat \ {0}
  BY DEF Line!GapAssumption
<1>3. i < n => i + 1 \in 1 .. n /\ s[i].at < s[i + 1].at
  BY <1>0 DEF InOrder
<1>4. s[i].at \in Int /\ s[i].at \in start .. time /\ next \in Int /\ s[i].at <= next
  <2>1. s[i].at \in Int /\ s[i].at \in start .. time
    BY <1>0, <1>1
  <2>2. i < n => s[i + 1].at \in Int
    BY <1>0, <1>1, <1>3
  <2> QED BY <2>1, <2>2, <1>3
<1>5. end = Line!Minimum({next, time, s[i].at + Gap})
  BY <1>0 DEF Line!EndOf, Line!NextAt
<1> HIDE DEF end, next
<1>6. end \in {next, time, s[i].at + Gap} /\ end <= next /\ end <= time /\ end <= s[i].at + Gap
  <2> DEFINE far == s[i].at + Gap
  <2>1. far \in Int /\ time \in Int /\ next \in Int /\ end = Line!Minimum({next, time, far})
    BY <1>2, <1>4, <1>5
  <2> HIDE DEF far
  <2>2. end \in {next, time, far} /\ end <= next /\ end <= time /\ end <= far
    BY <2>1, LeastOfThree
  <2> QED BY <2>2 DEF far
<1> QED BY <1>2, <1>4, <1>6 DEF end, next

\* Nothing is heard before the first reading.
LEMMA NothingBefore ==
  ASSUME NEW points, NEW start \in Int, NEW time \in Int,
         Apart(Line!Heard(points, start, time)),
         NEW s, InOrder(s, Line!Heard(points, start, time)),
         NEW t \in start .. time,
         \/ Cardinality(Line!Heard(points, start, time)) = 0
         \/ Cardinality(Line!Heard(points, start, time)) >= 1 /\ t < s[1].at
  PROVE  Line!ColourAt(points, start, t) = "unknown"
<1> DEFINE S == Line!Heard(points, start, time)
           n == Cardinality(S)
<1>1. Line!Heard(points, start, t) \subseteq S
  <2>1. \A p \in points : p.at \in start .. t => p.at \in start .. time
    OBVIOUS
  <2> QED BY <2>1 DEF Line!Heard
<1>2. Line!Heard(points, start, t) = {}
  <2>1. SUFFICES ASSUME NEW p \in Line!Heard(points, start, t) PROVE FALSE
    OBVIOUS
  <2>2. p \in S /\ p.at <= t /\ p.at \in Int
    BY <1>1 DEF Line!Heard
  <2>3. PICK j \in 1 .. n : s[j] = p
    BY <2>2 DEF InOrder
  <2>4. n \in Nat /\ n >= 1 /\ t < s[1].at /\ 1 \in 1 .. n
    BY <2>3, FS_CardinalityType DEF Apart
  <2>5. s[1].at <= s[j].at
    <3>0. s[1].at \in Int
      BY <2>4 DEF Apart, InOrder
    <3>1. j = 1 \/ 1 < j
      BY <2>3
    <3> QED BY <2>2, <2>3, <2>4, <3>0, <3>1 DEF InOrder
  <2>6. s[1].at \in Int
    BY <2>4 DEF Apart, InOrder
  <2> QED BY <2>2, <2>3, <2>4, <2>5, <2>6
<1> QED BY <1>2 DEF Line!ColourAt

\* After some readings, the segments tell what was heard up to the end of the last.
DoneOK(done, i, s, points, start, time) ==
  /\ done = [segments |-> done.segments, cursor |-> done.cursor]
  /\ done.cursor = IF i = 0 THEN start ELSE Line!EndOf(s, i, time)
  /\ Tells(done.segments, points, start, done.cursor)

LEMMA LineStarts ==
  ASSUME NEW points, NEW start \in Int, NEW time, NEW s
  PROVE  DoneOK([segments |-> <<>>, cursor |-> start], 0, s, points, start, time)
<1>1. <<>> \in Seq(Segments) /\ Len(<<>>) = 0
  OBVIOUS
<1>2. Tells(<<>>, points, start, start)
  BY <1>1 DEF Tells
<1> QED BY <1>2 DEF DoneOK

LEMMA ReadingTells ==
  ASSUME Line!GapAssumption, NEW points, NEW start \in Int, NEW time \in Int,
         Apart(Line!Heard(points, start, time)),
         NEW s, InOrder(s, Line!Heard(points, start, time)),
         NEW i \in 1 .. Cardinality(Line!Heard(points, start, time)),
         NEW done, DoneOK(done, i - 1, s, points, start, time)
  PROVE  DoneOK(Line!Reading1(s, i, time, done), i, s, points, start, time)
<1> DEFINE S == Line!Heard(points, start, time)
           n == Cardinality(S)
           at == s[i].at
           end == Line!EndOf(s, i, time)
           cursor == done.cursor
           grey == Line!Append2(done.segments, cursor, at, "unknown")
           colour == Line!Colour(s[i].value)
           line == Line!Append2(grey, at, end, colour)
<1>0. n \in Nat /\ Gap \in Nat \ {0} /\ i \in 1 .. n
  BY FS_CardinalityType DEF Apart, Line!GapAssumption
<1>1. /\ end \in Int /\ at \in start .. time /\ at \in Int
      /\ at <= end /\ end <= time /\ end <= at + Gap
      /\ i < n => end <= s[i + 1].at
  BY StretchEnds
<1>2. i > 1 => /\ i - 1 \in 1 .. n /\ i - 1 < n /\ cursor = Line!EndOf(s, i - 1, time)
               /\ cursor \in Int /\ s[i - 1].at \in start .. time /\ s[i - 1].at <= cursor
               /\ cursor <= at
               /\ \/ cursor = time \/ cursor = s[i - 1].at + Gap \/ cursor = at
  <2>1. SUFFICES ASSUME i > 1
                 PROVE  /\ i - 1 \in 1 .. n /\ i - 1 < n /\ cursor = Line!EndOf(s, i - 1, time)
                        /\ cursor \in Int /\ s[i - 1].at \in start .. time /\ s[i - 1].at <= cursor
                        /\ cursor <= at
                        /\ \/ cursor = time \/ cursor = s[i - 1].at + Gap \/ cursor = at
    OBVIOUS
  <2> DEFINE j == i - 1
  <2>2. j \in 1 .. n /\ j < n /\ j # 0 /\ j + 1 = i
    BY <1>0, <2>1
  <2>3. cursor = Line!EndOf(s, j, time)
    BY <2>2 DEF DoneOK
  <2> HIDE DEF j
  <2>4. /\ cursor \in Int /\ s[j].at \in start .. time /\ s[j].at <= cursor
        /\ cursor <= s[j + 1].at
        /\ \/ cursor = time \/ cursor = s[j].at + Gap \/ cursor = s[j + 1].at
    BY <2>2, <2>3, StretchEnds
  <2>5. cursor \in Int /\ s[j].at \in start .. time /\ s[j].at <= cursor
        /\ cursor <= at
        /\ (cursor = time \/ cursor = s[j].at + Gap \/ cursor = at)
    BY <2>2, <2>4
  <2> QED BY <2>2, <2>3, <2>5 DEF j
<1>3. i = 1 => cursor = start
  BY DEF DoneOK
<1>4. cursor \in Int /\ cursor <= at /\ cursor >= start
  BY <1>0, <1>1, <1>2, <1>3
<1>5. \A t \in cursor .. at - 1 : Line!ColourAt(points, start, t) = "unknown"
  <2>1. ASSUME NEW t \in cursor .. at - 1 PROVE Line!ColourAt(points, start, t) = "unknown"
    <3>0. t \in Int /\ t < at /\ t <= time /\ start <= t /\ cursor <= t
      BY <1>1, <1>4
    <3>1. CASE i = 1
      <4>1. n >= 1 /\ t < s[1].at /\ t \in start .. time
        BY <1>0, <3>0, <3>1
      <4> QED BY <4>1, NothingBefore
    <3>2. CASE i > 1
      <4> DEFINE j == i - 1
      <4>1. /\ j \in 1 .. n /\ j + 1 = i /\ s[j].at \in Int /\ s[j].at <= cursor
            /\ cursor = time \/ cursor = s[j].at + Gap \/ cursor = at
        BY <1>0, <1>2, <3>2
      <4> HIDE DEF j
      <4>2. cursor = s[j].at + Gap
        BY <1>1, <3>0, <4>1
      <4>3. t - s[j].at >= Gap /\ t \in s[j].at .. time
        BY <1>0, <3>0, <4>1, <4>2
      <4>4. j < n => t < s[j + 1].at
        BY <3>0, <4>1
      <4> QED BY <4>1, <4>3, <4>4, ColourAfter
    <3> QED BY <1>0, <3>1, <3>2
  <2> QED BY <2>1
<1>6. \A t \in at .. end - 1 : Line!ColourAt(points, start, t) = colour
  <2>1. ASSUME NEW t \in at .. end - 1 PROVE Line!ColourAt(points, start, t) = colour
    <3>1. t \in at .. time /\ ~ (t - at >= Gap)
      BY <1>0, <1>1
    <3>2. i < n => t < s[i + 1].at
      <4>1. i < n => s[i + 1].at \in Int
        BY <1>0 DEF Apart, InOrder
      <4> QED BY <1>1, <4>1
    <3> QED BY <3>1, <3>2, ColourAfter
  <2> QED BY <2>1
<1>7. colour \in States /\ "unknown" \in States
  BY DEF Line!Colour, States
<1>8. Tells(done.segments, points, start, cursor)
  BY DEF DoneOK
<1>9. Line!Reading1(s, i, time, done) = [segments |-> line, cursor |-> end]
  BY DEF Line!Reading1
<1> HIDE DEF at, cursor, colour, end
<1>10. Tells(grey, points, start, at)
  BY <1>1, <1>4, <1>5, <1>7, <1>8, StretchTells DEF cursor
<1> HIDE DEF grey
<1>11. Tells(line, points, start, end)
  BY <1>1, <1>6, <1>7, <1>10, StretchTells
<1> HIDE DEF line
<1> QED BY <1>0, <1>9, <1>11 DEF DoneOK, end

\* The line of states, for any finitely many readings of different instants: its
\* segments fill the window from start to now, two that touch differ, and every instant
\* has the colour of the newest reading heard, grey when that is too old
\* (injectionStateTimeline).
LEMMA LineTells ==
  ASSUME Line!GapAssumption, NEW points, NEW start \in Int, NEW time \in Int, start <= time,
         Apart(Line!Heard(points, start, time))
  PROVE  Tells(Line!Timeline(points, start, time), points, start, time)
<1> DEFINE S == Line!Heard(points, start, time)
           n == Cardinality(S)
           s == Line!Usable(points, start, time)
           f == CHOOSE f : LineLoop(f, Len(s), s, start, time)
           all == f[Len(s)]
<1>1. InOrder(s, S) /\ n \in Nat
  BY UsableInOrder, FS_CardinalityType DEF Apart
<1>2. Len(s) = n
  BY <1>1 DEF InOrder
<1>3. Line!Timeline(points, start, time) = Line!Append2(all.segments, all.cursor, time, "unknown")
  BY DEF Line!Timeline, LineLoop
<1>4. LineLoop(f, n, s, start, time)
  BY <1>1, <1>2, LineLoopExists
<1> HIDE DEF s, f
<1>5. f[0] = [segments |-> <<>>, cursor |-> start]
      /\ \A i \in 1 .. n : f[i] = Line!Reading1(s, i, time, f[i - 1])
  BY <1>1, <1>4 DEF LineLoop
<1> DEFINE N == {i \in Nat : i <= n => DoneOK(f[i], i, s, points, start, time)}
<1>6. 0 \in N
  BY <1>5, LineStarts
<1>7. ASSUME NEW i \in N PROVE i + 1 \in N
  <2>1. SUFFICES ASSUME i + 1 <= n PROVE DoneOK(f[i + 1], i + 1, s, points, start, time)
    OBVIOUS
  <2> DEFINE j == i + 1
  <2>2. j \in 1 .. n /\ j - 1 = i /\ DoneOK(f[i], i, s, points, start, time)
    BY <1>1, <2>1
  <2> HIDE DEF j
  <2>3. f[j] = Line!Reading1(s, j, time, f[j - 1]) /\ DoneOK(f[j - 1], j - 1, s, points, start, time)
    BY <1>5, <2>2
  <2>4. DoneOK(f[j], j, s, points, start, time)
    BY <1>1, <2>2, <2>3, ReadingTells
  <2> QED BY <2>4 DEF j
<1>8. N \in SUBSET Nat
  OBVIOUS
<1> HIDE DEF N
<1>9. n \in N
  BY <1>1, <1>6, <1>7, <1>8, NoLeastFailure
<1>10. DoneOK(all, n, s, points, start, time)
  BY <1>1, <1>2, <1>9 DEF N
<1> HIDE DEF all
<1>11. Gap \in Nat \ {0}
  BY DEF Line!GapAssumption
<1>12. CASE n = 0
  <2>1. all.cursor = start /\ Tells(all.segments, points, start, start)
    BY <1>10, <1>12 DEF DoneOK
  <2>2. \A t \in start .. time - 1 : Line!ColourAt(points, start, t) = "unknown"
    <3>1. \A t \in start .. time - 1 : t \in start .. time
      OBVIOUS
    <3> QED BY <1>1, <1>12, <3>1, NothingBefore
  <2>3. "unknown" \in States
    BY DEF States
  <2> QED BY <1>3, <2>1, <2>2, <2>3, StretchTells
<1>13. CASE n > 0
  <2>1. /\ n \in 1 .. n /\ all.cursor = Line!EndOf(s, n, time)
        /\ Tells(all.segments, points, start, all.cursor)
    BY <1>1, <1>10, <1>13 DEF DoneOK
  <2>2. /\ all.cursor \in Int /\ s[n].at \in start .. time /\ s[n].at <= all.cursor
        /\ all.cursor <= time /\ (all.cursor = time \/ all.cursor = s[n].at + Gap)
    BY <1>1, <2>1, StretchEnds
  <2>3. ASSUME NEW t \in all.cursor .. time - 1 PROVE Line!ColourAt(points, start, t) = "unknown"
    <3>1. all.cursor = s[n].at + Gap
      BY <2>2, <2>3
    <3>2. t - s[n].at >= Gap /\ t \in s[n].at .. time
      BY <1>11, <2>2, <3>1
    <3> QED BY <1>1, <2>1, <3>2, ColourAfter
  <2>4. "unknown" \in States
    BY DEF States
  <2> QED BY <1>3, <2>1, <2>2, <2>3, <2>4, StretchTells
<1> QED BY <1>1, <1>12, <1>13

\* The same, told of the line as the page shows it.
THEOREM LineTellsWhatWasHeard ==
  ASSUME Line!GapAssumption, NEW points, NEW start \in Int, NEW time \in Int, start <= time,
         IsFiniteSet(points), \A p \in points : p.at \in Int,
         \A p, q \in points : p.at = q.at => p = q
  PROVE  LET line == Line!Timeline(points, start, time) IN
         /\ \A i \in DOMAIN line :
              /\ line[i].start = IF i = 1 THEN start ELSE line[i - 1].end
              /\ line[i].start < line[i].end
              /\ i > 1 => line[i].state # line[i - 1].state
              /\ \A t \in line[i].start .. line[i].end - 1 :
                   line[i].state = Line!ColourAt(points, start, t)
         /\ time > start => line # <<>> /\ line[Len(line)].end = time
<1> DEFINE line == Line!Timeline(points, start, time)
<1>1. Apart(Line!Heard(points, start, time))
  <2>1. Line!Heard(points, start, time) \in SUBSET points
    BY DEF Line!Heard
  <2> QED BY <2>1, FS_Subset DEF Apart
<1>2. Tells(line, points, start, time)
  BY <1>1, LineTells
<1> HIDE DEF line
<1>3. DOMAIN line = 1 .. Len(line)
  BY <1>2 DEF Tells
<1>4. /\ \A i \in DOMAIN line : SegmentTells(line, i, points, start)
      /\ time > start => line # <<>> /\ line[Len(line)].end = time
  BY <1>2, <1>3 DEF Tells
<1> QED BY <1>4 DEF SegmentTells, line

-----------------------------------------------------------------------------
(* The card of a machine and the end of its line.                           *)

\* Requests one at a time, none of whose writes fails, in a process that stays up; a
\* stamp is a number, and a reading in force and a beat fit in Gap.
OneAtATime ==
  /\ MaxOpen = 1 /\ MaxFailures = 0 /\ MaxRestarts = 0
  /\ Gap \in Nat \ {0} /\ Heartbeat \in Nat \ {0} /\ CmsFresh \in Nat
  /\ Heartbeat + CmsFresh <= Gap
  /\ Lags \subseteq Int

\* What the caches remember of a machine, beside the points there are of it.
Latests == [stamp : Int, at : Int, vigente : Vigencies, mode : Modes]
Memories == [value : {0, 1}, at : Int]
StateOf(k) == series[k].state
Remembered(k) ==
  /\ latest[k] \in Latests \cup {Inj!Nothing}
  /\ lastState[k] \in Memories \cup {Inj!Nothing}
  /\ IsFiniteSet(DOMAIN StateOf(k)) /\ DOMAIN StateOf(k) \subseteq Int
  /\ lastState[k] = Inj!Nothing => DOMAIN StateOf(k) = {}
  /\ lastState[k] # Inj!Nothing =>
       /\ lastState[k].at \in DOMAIN StateOf(k)
       /\ StateOf(k)[lastState[k].at] = lastState[k].value
       /\ \A t \in DOMAIN StateOf(k) : t <= lastState[k].at
       /\ latest[k] # Inj!Nothing /\ lastState[k].at <= latest[k].stamp
\* A state in force on its way to the database, and one that needs none.
InForce(k) ==
  latest[k] # Inj!Nothing /\ latest[k].vigente /\ Inj!OperatingState(latest[k].mode) # -1
Waiting(b, k) ==
  b.source = k[1] /\ k[2] \in DOMAIN b.results /\ b.results[k[2]].stored = "waiting"
OnItsWay(b, k) == Waiting(b, k) /\ Inj!HasState(b.results[k[2]].lines)
Told(k) ==
  /\ lastState[k] # Inj!Nothing
  /\ lastState[k].value = Inj!OperatingState(latest[k].mode)
  /\ latest[k].stamp - lastState[k].at < Heartbeat
Newest(k, l) ==
  /\ InForce(k) /\ l.at = latest[k].stamp /\ l.value = Inj!OperatingState(latest[k].mode)
  /\ lastState[k] # Inj!Nothing => l.at > lastState[k].at
ResultForm(r) ==
  r = [status |-> r.status, updated |-> r.updated, shot |-> r.shot, lines |-> r.lines,
       stored |-> r.stored]
RequestForm(b) ==
  /\ b = [source |-> b.source, at |-> b.at, results |-> b.results]
  /\ b.results = [m \in DOMAIN b.results |-> b.results[m]]
  /\ \A m \in DOMAIN b.results : ResultForm(b.results[m])
FormOK ==
  /\ now \in Nat /\ failed \in 0 .. MaxFailures /\ restarts = 0
  /\ latest = [k \in Inj!Keys |-> latest[k]] /\ lastState = [k \in Inj!Keys |-> lastState[k]]
  /\ series = [k \in Inj!Keys |-> series[k]]
  /\ \A k \in Inj!Keys : series[k] = [status |-> series[k].status, state |-> series[k].state,
                                      shot |-> series[k].shot]
  /\ open = {} \/ \E b \in open : open = {b}
  /\ \A b \in open : RequestForm(b)
\* What is in force is remembered as stored, or on its way; what is on its way is newer
\* than all that is stored.
Arriving(k, b) ==
  Waiting(b, k) => \A l \in b.results[k[2]].lines : l.kind = "state" => Newest(k, l)
MachineOK(k) ==
  /\ Remembered(k)
  /\ \A b \in open : Arriving(k, b)
  /\ InForce(k) => Told(k) \/ \E b \in open : OnItsWay(b, k)
CardInv == OneAtATime /\ FormOK /\ \A k \in Inj!Keys : MachineOK(k)

LEMMA KeyIsPair == ASSUME NEW k \in Inj!Keys
                   PROVE  k = <<k[1], k[2]>> /\ k[1] \in Feeds /\ k[2] \in Machines
BY DEF Inj!Keys

LEMMA StateOfMode == ASSUME NEW mode PROVE Inj!OperatingState(mode) \in {-1, 0, 1}
BY DEF Inj!OperatingState

\* With one request at a time, none is open when one comes.
LEMMA NoneOpen ==
  ASSUME MaxOpen = 1, open = {} \/ \E b \in open : open = {b},
         NEW s, NEW readings, Inj!Receive(s, readings)
  PROVE  open = {}
<1>1. SUFFICES ASSUME NEW b \in open, open = {b} PROVE FALSE
  OBVIOUS
<1>2. Inj!Cardinality(open) < 1
  BY DEF Inj!Receive
<1>3. Cardinality(open) = 1
  BY <1>1, FS_Singleton
<1>4. Inj!Cardinality(open) = Cardinality(open)
  BY DEF Inj!Cardinality, Cardinality
<1> QED BY <1>2, <1>3, <1>4

\* The state line of a reading: one that is accepted, and of the reading's stamp.
LEMMA StateLine ==
  ASSUME NEW s, NEW m, NEW r
  PROVE  /\ \A l \in Inj!Lines(s, m, r) : l.kind = "state" =>
              /\ Inj!Status(s, m, r) = "ACCEPTED" /\ Inj!WriteState(<<s, m>>, r)
              /\ l.at = r.stamp /\ l.value = Inj!OperatingState(r.mode)
         /\ Inj!Status(s, m, r) = "ACCEPTED" /\ Inj!WriteState(<<s, m>>, r)
              => Inj!HasState(Inj!Lines(s, m, r)) /\ Inj!Lines(s, m, r) # {}
<1> DEFINE state == [kind |-> "state", at |-> r.stamp, value |-> Inj!OperatingState(r.mode)]
           status == [kind |-> "status", at |-> r.stamp, value |-> 0]
           shot == [kind |-> "shot", at |-> r.shot.at, value |-> r.shot.number]
           accepted == Inj!Status(s, m, r) = "ACCEPTED"
<1>1. /\ state.kind = "state" /\ state.at = r.stamp /\ state.value = Inj!OperatingState(r.mode)
      /\ status.kind = "status" /\ shot.kind = "shot"
  OBVIOUS
<1>2. /\ \A l \in Inj!Lines(s, m, r) :
           l = status \/ l = shot \/ (l = state /\ accepted /\ Inj!WriteState(<<s, m>>, r))
      /\ accepted /\ Inj!WriteState(<<s, m>>, r) => state \in Inj!Lines(s, m, r)
  BY DEF Inj!Lines, Inj!ShotLine
<1> HIDE DEF state, status, shot, accepted
<1>3. /\ accepted /\ Inj!WriteState(<<s, m>>, r)
           => Inj!HasState(Inj!Lines(s, m, r)) /\ Inj!Lines(s, m, r) # {}
  BY <1>1, <1>2 DEF Inj!HasState
<1> QED BY <1>1, <1>2, <1>3 DEF accepted

LEMMA RequestComes ==
  ASSUME CardInv, NEW s \in Feeds, NEW ms \in SUBSET (Machines \cup Unknown),
         NEW readings \in [ms -> Inj!Readings], Inj!Receive(s, readings)
  PROVE  CardInv'
<1>b. PICK b : b = [source |-> s, at |-> now,
                    results |-> [m \in ms |-> Inj!Result(s, m, readings[m])]]
  OBVIOUS
<1>0. OneAtATime /\ FormOK /\ open = {} /\ DOMAIN readings = ms
  BY NoneOpen DEF CardInv, FormOK, OneAtATime
<1>1. open' = {b} /\ UNCHANGED <<now, lastState, series, failed, restarts>>
  BY <1>b, <1>0 DEF Inj!Receive
<1>2. /\ b.source = s /\ b = [source |-> b.source, at |-> b.at, results |-> b.results]
      /\ DOMAIN b.results = ms /\ b.results = [m \in ms |-> b.results[m]]
      /\ \A m \in ms : b.results[m] = Inj!Result(s, m, readings[m])
  BY <1>b
<1>3. \A m \in ms : \A r : LET q == Inj!Result(s, m, r) IN
        /\ ResultForm(q) /\ q.lines = Inj!Lines(s, m, r)
        /\ q.stored = IF Inj!Lines(s, m, r) = {} THEN "no" ELSE "waiting"
  BY DEF Inj!Result, ResultForm
<1>c. latest' = [k \in Inj!Keys |->
        IF k[1] = s /\ Inj!Fresh(s, readings, k[2])
        THEN [stamp |-> readings[k[2]].stamp, at |-> now, vigente |-> readings[k[2]].vigente,
              mode |-> readings[k[2]].mode]
        ELSE latest[k]]
  BY DEF Inj!Receive, Inj!Caches
<1>4. RequestForm(b)
  BY <1>2, <1>3 DEF RequestForm
<1>5. FormOK'
  <2>1. latest' = [k \in Inj!Keys |-> latest'[k]]
    BY <1>c
  <2>2. (\A k \in Inj!Keys : series[k] = [status |-> series[k].status, state |-> series[k].state,
                                      shot |-> series[k].shot])'
    BY <1>0, <1>1 DEF FormOK, Inj!Keys
  <2>3. (\A d \in open : RequestForm(d))'
    BY <1>1, <1>4 DEF RequestForm, ResultForm
  <2> QED BY <1>0, <1>1, <2>1, <2>2, <2>3 DEF FormOK, Inj!Keys
<1>7. \A m, r : \A l \in Inj!Lines(s, m, r) : l.kind = "state" => Inj!Status(s, m, r) = "ACCEPTED"
  BY StateLine
<1>6. ASSUME NEW k \in Inj!Keys PROVE MachineOK(k)'
  <2> DEFINE m == k[2]
             r == readings[m]
             new == [stamp |-> r.stamp, at |-> now, vigente |-> r.vigente, mode |-> r.mode]
  <2>0. k = <<k[1], m>> /\ m \in Machines /\ MachineOK(k) /\ Remembered(k)
        /\ (InForce(k) => Told(k))
    BY <1>0, KeyIsPair DEF CardInv, MachineOK
  <2>1. ASSUME Waiting(b, k)
        PROVE  /\ k[1] = s /\ m \in ms /\ b.results[m].lines = Inj!Lines(s, m, r)
               /\ b.results[m].stored = "waiting"
    BY <1>2, <1>3, <2>1 DEF Waiting
  <2>2. CASE k[1] = s /\ Inj!Fresh(s, readings, m)
    <3>1. latest'[k] = new
      BY <1>c, <2>2
    <3>2. m \in ms /\ Inj!Status(s, m, r) = "ACCEPTED" /\ k = <<s, m>>
      BY <1>0, <2>0, <2>2 DEF Inj!Fresh
    <3>3. ~Inj!Rejected(m, r) /\ ~Inj!Older(k, r)
      <4>1. ~Inj!Rejected(m, r) /\ ~Inj!Older(<<s, m>>, r)
        BY <3>2 DEF Inj!Status
      <4> QED BY <4>1, <3>2
    <3>4. r.stamp \in Int /\ r.vigente \in Vigencies /\ r.mode \in Modes
      <4>1. r \in Inj!Readings
        BY <3>2
      <4>2. \A lag \in Lags : now - lag \in Int
        BY <1>0 DEF OneAtATime, FormOK
      <4> QED BY <4>1, <4>2 DEF Inj!Readings
    <3>5. latest[k] # Inj!Nothing => r.stamp > latest[k].stamp /\ latest[k].stamp \in Int
      <4>1. latest[k] # Inj!Nothing => latest[k] \in Latests
        BY <2>0 DEF Remembered
      <4>2. latest[k] # Inj!Nothing => ~ (r.stamp <= latest[k].stamp)
        BY <3>3 DEF Inj!Older
      <4> QED BY <3>4, <4>1, <4>2 DEF Latests
    <3>6. /\ new \in Latests /\ new # Inj!Nothing
          /\ new.stamp = r.stamp /\ new.vigente = r.vigente /\ new.mode = r.mode
      <4>1. now \in Int
        BY <1>0 DEF FormOK
      <4>2. new \in Latests
        BY <3>4, <4>1 DEF Latests
      <4>3. DOMAIN new = {"stamp", "at", "vigente", "mode"} /\ DOMAIN Inj!Nothing = {"none"}
        BY DEF Inj!Nothing
      <4>4. "stamp" \in DOMAIN new /\ "stamp" \notin DOMAIN Inj!Nothing
        BY <4>3
      <4>5. new # Inj!Nothing
        BY <4>4
      <4> QED BY <4>2, <4>5
    <3> HIDE DEF new
    <3>7. lastState[k] # Inj!Nothing =>
            /\ lastState[k] \in Memories /\ lastState[k].at \in Int
            /\ lastState[k].at <= latest[k].stamp /\ latest[k] # Inj!Nothing
            /\ lastState[k].at < r.stamp
      <4>1. lastState[k] # Inj!Nothing =>
              lastState[k] \in Memories /\ latest[k] # Inj!Nothing /\ lastState[k].at <= latest[k].stamp
        BY <2>0 DEF Remembered
      <4> QED BY <3>4, <3>5, <4>1 DEF Memories
    <3>8. Remembered(k)'
      <4>1. (lastState[k] # Inj!Nothing)' =>
              latest'[k] # Inj!Nothing' /\ lastState'[k].at <= latest'[k].stamp
        BY <1>1, <3>1, <3>4, <3>6, <3>7 DEF Inj!Nothing
      <4> QED BY <1>1, <2>0, <3>1, <3>6, <4>1 DEF Remembered, StateOf, Inj!Nothing, Latests, Memories
    <3>9. InForce(k)' <=> (r.vigente /\ Inj!OperatingState(r.mode) # -1)
      BY <3>1, <3>6 DEF InForce, Inj!Nothing, Inj!OperatingState
    <3>10. Arriving(k, b)'
      <4>1. ASSUME Waiting(b, k), NEW l \in b.results[m].lines, l.kind = "state"
            PROVE  Newest(k, l)'
        <5>1. l \in Inj!Lines(s, m, r)
          BY <2>1, <4>1
        <5>2. /\ Inj!WriteState(k, r) /\ l.at = r.stamp /\ l.value = Inj!OperatingState(r.mode)
          BY <3>2, <4>1, <5>1, StateLine
        <5>3. InForce(k)'
          BY <3>9, <5>2 DEF Inj!WriteState
        <5>4. (l.at = latest[k].stamp /\ l.value = Inj!OperatingState(latest[k].mode))'
          BY <3>1, <3>6, <5>2 DEF Inj!OperatingState
        <5>5. (lastState[k] # Inj!Nothing)' => (l.at > lastState[k].at)'
          BY <1>1, <3>4, <3>7, <5>2 DEF Inj!Nothing
        <5> QED BY <5>3, <5>4, <5>5 DEF Newest
      <4> QED BY <4>1 DEF Arriving, Waiting
    <3>11. InForce(k)' => Told(k)' \/ OnItsWay(b, k)'
      <4>1. SUFFICES ASSUME InForce(k)' PROVE Told(k)' \/ OnItsWay(b, k)'
        OBVIOUS
      <4>2. r.vigente /\ Inj!OperatingState(r.mode) # -1
        BY <3>9, <4>1
      <4>3. CASE Inj!Beat(k, r)
        <5>1. Inj!HasState(Inj!Lines(s, m, r)) /\ Inj!Lines(s, m, r) # {}
          <6>1. Inj!WriteState(<<s, m>>, r)
            BY <3>2, <4>2, <4>3 DEF Inj!WriteState
          <6> QED BY <3>2, <6>1, StateLine
        <5>2. b.results[m].lines = Inj!Lines(s, m, r) /\ b.results[m].stored = "waiting"
          BY <1>2, <1>3, <3>2, <5>1
        <5>3. Waiting(b, k)
          BY <1>2, <2>2, <3>2, <5>2 DEF Waiting
        <5> QED BY <5>1, <5>2, <5>3 DEF OnItsWay, Waiting, Inj!HasState
      <4>4. CASE ~Inj!Beat(k, r)
        <5>1. /\ lastState[k] # Inj!Nothing /\ lastState[k].value = Inj!OperatingState(r.mode)
              /\ ~ (r.stamp - lastState[k].at >= Heartbeat)
          BY <4>4 DEF Inj!Beat
        <5>2. r.stamp - lastState[k].at < Heartbeat
          BY <1>0, <3>4, <3>7, <5>1 DEF OneAtATime
        <5>3. Told(k)'
          BY <1>1, <3>1, <3>6, <5>1, <5>2 DEF Told, Inj!Nothing, Inj!OperatingState
        <5> QED BY <5>3
      <4> QED BY <4>3, <4>4
    <3> QED BY <1>1, <3>8, <3>10, <3>11 DEF MachineOK
  <2>3. CASE ~(k[1] = s /\ Inj!Fresh(s, readings, m))
    <3>1. latest'[k] = latest[k] /\ lastState'[k] = lastState[k] /\ series'[k] = series[k]
      BY <1>1, <1>c, <2>3
    <3>2. Remembered(k)' /\ (InForce(k)' => Told(k)')
      BY <2>0, <3>1 DEF Remembered, StateOf, InForce, Told, Inj!Nothing, Inj!OperatingState,
                        Latests, Memories
    <3>3. Arriving(k, b)'
      <4>1. ASSUME Waiting(b, k), NEW l \in b.results[m].lines, l.kind = "state" PROVE FALSE
        <5>1. l \in Inj!Lines(s, m, r) /\ m \in ms /\ k[1] = s
          BY <2>1, <4>1
        <5>2. Inj!Status(s, m, r) = "ACCEPTED"
          BY <1>7, <4>1, <5>1
        <5> QED BY <1>0, <2>3, <5>1, <5>2 DEF Inj!Fresh
      <4> QED BY <4>1 DEF Arriving, Waiting
    <3> QED BY <1>1, <3>2, <3>3 DEF MachineOK
  <2> QED BY <2>2, <2>3
<1> QED BY <1>0, <1>5, <1>6 DEF CardInv, OneAtATime, Inj!Keys

\* What a write leaves of the states of a machine.
LEMMA PutState ==
  ASSUME NEW of, NEW lines
  PROVE  LET new == Inj!Put(of, lines, "state") IN
         /\ (~Inj!HasState(lines) =>
               DOMAIN new = DOMAIN of /\ \A t \in DOMAIN of : new[t] = of[t])
         /\ \A l \in lines :
              (l.kind = "state" /\ \A x \in lines : x.kind = "state" => x.at = l.at /\ x.value = l.value)
              => /\ DOMAIN new = DOMAIN of \cup {l.at} /\ new[l.at] = l.value
<1> DEFINE states == {l \in lines : l.kind = "state"}
           dom == DOMAIN of \cup {l.at : l \in states}
           new == [t \in dom |-> IF \E l \in states : l.at = t
                                 THEN (CHOOSE l \in states : l.at = t).value ELSE of[t]]
<1>1. Inj!Put(of, lines, "state") = new
  BY DEF Inj!Put
<1>2. ASSUME ~Inj!HasState(lines)
      PROVE  DOMAIN new = DOMAIN of /\ \A t \in DOMAIN of : new[t] = of[t]
  <2>1. states = {}
    BY <1>2 DEF Inj!HasState
  <2>2. dom = DOMAIN of
    BY <2>1
  <2> QED BY <2>1, <2>2
<1>3. ASSUME NEW l \in lines, l.kind = "state",
             \A x \in lines : x.kind = "state" => x.at = l.at /\ x.value = l.value
      PROVE  DOMAIN new = DOMAIN of \cup {l.at} /\ new[l.at] = l.value
  <2>1. l \in states /\ \A x \in states : x.at = l.at /\ x.value = l.value
    BY <1>3
  <2>2. {x.at : x \in states} = {l.at}
    BY <2>1
  <2>3. dom = DOMAIN of \cup {l.at} /\ l.at \in dom
    BY <2>2
  <2> DEFINE c == CHOOSE x \in states : x.at = l.at
  <2>4. c \in states
    BY <2>1
  <2>5. new[l.at] = c.value
    BY <2>1, <2>3
  <2> HIDE DEF c
  <2> QED BY <2>1, <2>3, <2>4, <2>5
<1> QED BY <1>1, <1>2, <1>3

\* A request one of whose writes has ended.
LEMMA SettledForm ==
  ASSUME NEW b, RequestForm(b), NEW m \in DOMAIN b.results, NEW stored
  PROVE  \A c : c = [b EXCEPT !.results[m].stored = stored] =>
           /\ RequestForm(c) /\ c.source = b.source /\ c.at = b.at
           /\ DOMAIN c.results = DOMAIN b.results
           /\ \A x \in DOMAIN b.results \ {m} : c.results[x] = b.results[x]
           /\ c.results[m].stored = stored
<1> DEFINE results == b.results
           r == results[m]
           settled == [r EXCEPT !.stored = stored]
           after == [results EXCEPT ![m] = settled]
<1>0. SUFFICES ASSUME NEW c, c = [b EXCEPT !.results[m].stored = stored]
               PROVE  /\ RequestForm(c) /\ c.source = b.source /\ c.at = b.at
                      /\ DOMAIN c.results = DOMAIN results
                      /\ \A x \in DOMAIN results \ {m} : c.results[x] = results[x]
                      /\ c.results[m].stored = stored
  OBVIOUS
<1>1. ResultForm(r) /\ b = [source |-> b.source, at |-> b.at, results |-> results]
      /\ results = [x \in DOMAIN results |-> results[x]] /\ m \in DOMAIN results
      /\ \A x \in DOMAIN results : ResultForm(results[x])
  BY DEF RequestForm
<1>2. c = [b EXCEPT !.results = after]
  BY <1>0
<1>3. settled = [status |-> r.status, updated |-> r.updated, shot |-> r.shot,
                 lines |-> r.lines, stored |-> stored]
  <2>1. r = [status |-> r.status, updated |-> r.updated, shot |-> r.shot, lines |-> r.lines,
             stored |-> r.stored]
    BY <1>1 DEF ResultForm
  <2> HIDE DEF r
  <2> QED BY <2>1
<1>4. ResultForm(settled) /\ settled.stored = stored
  <2> HIDE DEF settled
  <2> QED BY <1>3 DEF ResultForm
<1> HIDE DEF settled, r
<1>5. /\ DOMAIN after = DOMAIN results /\ after[m] = settled
      /\ \A x \in DOMAIN results \ {m} : after[x] = results[x]
      /\ after = [x \in DOMAIN after |-> after[x]]
  BY <1>1
<1> HIDE DEF after
<1>6. c = [source |-> b.source, at |-> b.at, results |-> after]
  <2> HIDE DEF results
  <2> QED BY <1>1, <1>2
<1>7. c.source = b.source /\ c.at = b.at /\ c.results = after
      /\ c = [source |-> c.source, at |-> c.at, results |-> c.results]
  BY <1>6
<1>8. \A x \in DOMAIN after : ResultForm(after[x])
  BY <1>1, <1>4, <1>5
<1> QED BY <1>4, <1>5, <1>7, <1>8 DEF RequestForm

LEMMA WriteIsDone ==
  ASSUME CardInv, NEW b \in open, NEW m \in DOMAIN b.results, Inj!WriteDone(b, m)
  PROVE  CardInv'
<1> DEFINE k0 == <<b.source, m>>
           lines == b.results[m].lines
           old == series[k0]
           new == [status |-> Inj!Put(old.status, lines, "status"),
                   state |-> Inj!Put(old.state, lines, "state"),
                   shot |-> Inj!Put(old.shot, lines, "shot")]
<1>0. /\ OneAtATime /\ FormOK /\ open = {b} /\ RequestForm(b)
      /\ b.results[m].stored = "waiting"
      /\ UNCHANGED <<now, latest, restarts>> /\ failed' = 0
  BY DEF CardInv, FormOK, Inj!WriteDone
<1>1. PICK c : c = [b EXCEPT !.results[m].stored = "yes"]
  OBVIOUS
<1>2. open' = {c}
  BY <1>0, <1>1 DEF Inj!WriteDone, Inj!Settle
<1>3. /\ RequestForm(c) /\ c.source = b.source /\ DOMAIN c.results = DOMAIN b.results
      /\ \A x \in DOMAIN b.results \ {m} : c.results[x] = b.results[x]
      /\ c.results[m].stored = "yes"
  BY <1>0, <1>1, SettledForm
<1>4. series' = [series EXCEPT ![k0] = new]
  BY DEF Inj!WriteDone, Inj!Stored
<1>5. \A k \in Inj!Keys : series'[k] = IF k = k0 THEN new ELSE series[k]
  BY <1>0, <1>4 DEF FormOK
<1>6. /\ series' = [k \in Inj!Keys |-> series'[k]]
      /\ lastState' = [k \in Inj!Keys |-> lastState'[k]]
      /\ \A k \in Inj!Keys : k # k0 => lastState'[k] = lastState[k]
  <2>1. \/ lastState' = lastState
        \/ \E l \in lines : lastState' = [lastState EXCEPT ![k0] = [value |-> l.value, at |-> l.at]]
    BY DEF Inj!WriteDone, Inj!RememberState
  <2>2. series' = [k \in Inj!Keys |-> series'[k]]
    BY <1>0, <1>4 DEF FormOK
  <2>3. lastState = [k \in Inj!Keys |-> lastState[k]]
    BY <1>0 DEF FormOK
  <2> QED BY <2>1, <2>2, <2>3
<1>7. /\ new.state = Inj!Put(old.state, lines, "state")
      /\ new = [status |-> new.status, state |-> new.state, shot |-> new.shot]
  OBVIOUS
<1> HIDE DEF new
<1>8. FormOK'
  <2>1. (\A k \in Inj!Keys : series[k] = [status |-> series[k].status, state |-> series[k].state,
                                      shot |-> series[k].shot])'
    <3>1. ASSUME NEW k \in Inj!Keys
          PROVE  series'[k] = [status |-> series'[k].status, state |-> series'[k].state,
                               shot |-> series'[k].shot]
      <4>1. CASE k = k0
        BY <1>5, <1>7, <4>1
      <4>2. CASE k # k0
        BY <1>0, <1>5, <4>2 DEF FormOK
      <4> QED BY <4>1, <4>2
    <3> QED BY <3>1 DEF Inj!Keys
  <2>2. (\A d \in open : RequestForm(d))'
    BY <1>2, <1>3 DEF RequestForm, ResultForm
  <2>3. 0 \in 0 .. MaxFailures
    BY <1>0 DEF OneAtATime
  <2> QED BY <1>0, <1>2, <1>6, <2>1, <2>2, <2>3 DEF FormOK, Inj!Keys
<1>9. ASSUME NEW k \in Inj!Keys PROVE MachineOK(k)'
  <2>0. MachineOK(k) /\ k = <<k[1], k[2]>>
    BY KeyIsPair DEF CardInv
  <2>1. CASE k = k0
    <3>1. k[1] = b.source /\ k[2] = m
      BY <2>1
    <3>2. Waiting(b, k) /\ ~Waiting(c, k)
      BY <1>0, <1>3, <3>1 DEF Waiting
    <3>3. Arriving(k, c)'
      BY <3>2 DEF Arriving, Waiting
    <3>4. StateOf(k)' = Inj!Put(StateOf(k), lines, "state")
      BY <1>5, <1>7, <2>1 DEF StateOf
    <3>5. CASE Inj!HasState(lines)
      <4>1. PICK l \in lines : /\ l.kind = "state"
                               /\ lastState' = [lastState EXCEPT ![k0] = [value |-> l.value, at |-> l.at]]
        BY <3>5 DEF Inj!WriteDone, Inj!RememberState
      <4>2. \A x \in lines : x.kind = "state" => Newest(k, x)
        BY <1>0, <2>0, <3>1, <3>2 DEF MachineOK, Arriving
      <4>3. Newest(k, l) /\ \A x \in lines : x.kind = "state" => x.at = l.at /\ x.value = l.value
        BY <4>1, <4>2 DEF Newest
      <4>4. /\ DOMAIN StateOf(k)' = DOMAIN StateOf(k) \cup {l.at}
            /\ StateOf(k)'[l.at] = l.value
        BY <3>4, <4>1, <4>3, PutState
      <4> DEFINE memory == [value |-> l.value, at |-> l.at]
      <4>5. lastState'[k] = memory /\ memory.value = l.value /\ memory.at = l.at
        BY <1>0, <2>1, <4>1 DEF FormOK
      <4>6. /\ latest[k] # Inj!Nothing /\ l.at = latest[k].stamp /\ latest[k] \in Latests
            /\ l.value = Inj!OperatingState(latest[k].mode) /\ l.value # -1
            /\ lastState[k] # Inj!Nothing => l.at > lastState[k].at /\ lastState[k].at \in Int
        BY <2>0, <4>3 DEF Newest, InForce, MachineOK, Remembered, Memories
      <4>7. l.at \in Int /\ l.value \in {0, 1}
        <5>1. l.value \in {-1, 0, 1}
          BY <4>6, StateOfMode
        <5> QED BY <4>6, <5>1 DEF Latests
      <4>8. memory \in Memories /\ memory # Inj!Nothing
        <5>1. memory \in Memories
          BY <4>7 DEF Memories
        <5>2. "at" \in DOMAIN memory /\ "at" \notin DOMAIN Inj!Nothing
          BY DEF Inj!Nothing
        <5> QED BY <5>1, <5>2
      <4> HIDE DEF memory
      <4>9. \A t \in DOMAIN StateOf(k)' : t <= l.at
        <5>1. \A t \in DOMAIN StateOf(k) : t \in Int /\ lastState[k] # Inj!Nothing /\ t <= lastState[k].at
          BY <2>0 DEF MachineOK, Remembered
        <5> QED BY <4>4, <4>6, <4>7, <5>1
      <4>10. IsFiniteSet(DOMAIN StateOf(k)') /\ DOMAIN StateOf(k)' \subseteq Int
        <5>1. IsFiniteSet(DOMAIN StateOf(k) \cup {l.at})
          BY <2>0, FS_AddElement DEF MachineOK, Remembered
        <5> QED BY <2>0, <4>4, <4>7, <5>1 DEF MachineOK, Remembered
      <4>11. Remembered(k)'
        <5>1. latest'[k] \in Latests \cup {Inj!Nothing}
          BY <1>0, <4>6
        <5>2. lastState'[k].at \in DOMAIN StateOf(k)'
              /\ StateOf(k)'[lastState'[k].at] = lastState'[k].value
          BY <4>4, <4>5
        <5>3. latest'[k] # Inj!Nothing /\ lastState'[k].at <= latest'[k].stamp
          BY <1>0, <4>5, <4>6, <4>7
        <5>4. lastState'[k].at = l.at /\ lastState'[k] \in Memories /\ lastState'[k] # Inj!Nothing
          BY <4>5, <4>8
        <5>5. \A t \in DOMAIN StateOf(k)' : t <= lastState'[k].at
          BY <4>9, <5>4
        <5> QED BY <4>10, <5>1, <5>2, <5>3, <5>4, <5>5 DEF Remembered, Inj!Nothing, Latests, Memories
      <4>12. Told(k)'
        <5>1. lastState'[k] # Inj!Nothing /\ lastState'[k].value = Inj!OperatingState(latest'[k].mode)
          BY <1>0, <4>5, <4>6, <4>8
        <5>2. latest'[k].stamp - lastState'[k].at < Heartbeat
          BY <1>0, <4>5, <4>6, <4>7 DEF OneAtATime
        <5> QED BY <5>1, <5>2 DEF Told, Inj!Nothing, Inj!OperatingState
      <4> QED BY <1>2, <3>3, <4>11, <4>12 DEF MachineOK
    <3>6. CASE ~Inj!HasState(lines)
      <4>1. lastState' = lastState
        BY <3>6 DEF Inj!WriteDone
      <4>2. /\ DOMAIN StateOf(k)' = DOMAIN StateOf(k)
            /\ \A t \in DOMAIN StateOf(k) : StateOf(k)'[t] = StateOf(k)[t]
        BY <3>4, <3>6, PutState
      <4>3. Remembered(k)'
        <5>1. Remembered(k)
          BY <2>0 DEF MachineOK
        <5> HIDE DEF lines, k0, old
        <5> QED BY <1>0, <4>1, <4>2, <5>1 DEF Remembered, Inj!Nothing, Latests, Memories
      <4>4. InForce(k) => Told(k)
        BY <1>0, <2>0, <3>1, <3>6 DEF MachineOK, OnItsWay
      <4>5. InForce(k)' => Told(k)'
        BY <1>0, <4>1, <4>4 DEF InForce, Told, Inj!Nothing, Inj!OperatingState
      <4> QED BY <1>2, <3>3, <4>3, <4>5 DEF MachineOK
    <3> QED BY <3>5, <3>6
  <2>2. CASE k # k0
    <3>1. series'[k] = series[k] /\ lastState'[k] = lastState[k] /\ latest' = latest
      BY <1>0, <1>5, <1>6, <2>2
    <3>2. Remembered(k)' /\ (InForce(k)' <=> InForce(k)) /\ (Told(k)' <=> Told(k))
      <4>1. Remembered(k)
        BY <2>0 DEF MachineOK
      <4> QED BY <3>1, <4>1 DEF Remembered, StateOf, InForce, Told, Inj!Nothing,
                                Inj!OperatingState, Latests, Memories
    <3>3. (Waiting(c, k) <=> Waiting(b, k))
          /\ (Waiting(b, k) => c.results[k[2]] = b.results[k[2]])
      <4>1. CASE k[1] = b.source /\ k[2] \in DOMAIN b.results
        <5>1. k[2] # m
          BY <2>0, <2>2, <4>1
        <5> QED BY <1>3, <4>1, <5>1 DEF Waiting
      <4>2. CASE ~(k[1] = b.source /\ k[2] \in DOMAIN b.results)
        BY <1>3, <4>2 DEF Waiting
      <4> QED BY <4>1, <4>2
    <3>4. Arriving(k, c)'
      <4>1. ASSUME Waiting(c, k), NEW l \in c.results[k[2]].lines, l.kind = "state"
            PROVE  Newest(k, l)'
        <5>1. Newest(k, l)
          BY <1>0, <2>0, <3>3, <4>1 DEF MachineOK, Arriving
        <5> QED BY <3>1, <5>1 DEF Newest, InForce, Inj!Nothing, Inj!OperatingState
      <4> QED BY <4>1 DEF Arriving, Waiting
    <3>5. OnItsWay(b, k) => OnItsWay(c, k)'
      BY <3>3 DEF OnItsWay, Waiting, Inj!HasState
    <3> QED BY <1>0, <1>2, <2>0, <3>2, <3>4, <3>5 DEF MachineOK
  <2> QED BY <2>1, <2>2
<1> QED BY <1>0, <1>8, <1>9 DEF CardInv, OneAtATime, Inj!Keys

\* No write fails, no restart comes; answers and the clock change nothing told.
LEMMA OthersTell ==
  ASSUME CardInv,
         \/ \E b \in open : \E m \in DOMAIN b.results :
              Inj!WriteFails(b, m, TRUE) \/ Inj!WriteFails(b, m, FALSE)
         \/ \E b \in open : Inj!Answer(b)
         \/ Inj!Tick \/ Inj!Restart
         \/ UNCHANGED Inj!vars
  PROVE  CardInv'
<1>0. OneAtATime /\ FormOK /\ \A k \in Inj!Keys : MachineOK(k)
  BY DEF CardInv
<1>1. ASSUME UNCHANGED <<latest, lastState, series, failed, restarts>>, now' \in Nat,
             open' = open \/ (open' = {} /\ \A k \in Inj!Keys : \A b \in open : ~OnItsWay(b, k))
      PROVE  CardInv'
  <2>1. FormOK'
    <3>1. (\A b \in open : RequestForm(b))'
      BY <1>0, <1>1 DEF FormOK, RequestForm, ResultForm
    <3>2. (\A k \in Inj!Keys : series[k] = [status |-> series[k].status, state |-> series[k].state,
                                      shot |-> series[k].shot])'
      BY <1>0, <1>1 DEF FormOK, Inj!Keys
    <3>3. (open = {} \/ \E b \in open : open = {b})'
      BY <1>0, <1>1 DEF FormOK
    <3> QED BY <1>0, <1>1, <3>1, <3>2, <3>3 DEF FormOK, Inj!Keys
  <2>2. ASSUME NEW k \in Inj!Keys PROVE MachineOK(k)'
    <3>1. MachineOK(k)
      BY <1>0
    <3>2. Remembered(k)' /\ (InForce(k)' <=> InForce(k)) /\ (Told(k)' <=> Told(k))
      BY <1>1, <3>1 DEF MachineOK, Remembered, StateOf, InForce, Told, Inj!Nothing,
                        Inj!OperatingState, Latests, Memories
    <3>3. \A b \in open : Arriving(k, b)' /\ (OnItsWay(b, k)' <=> OnItsWay(b, k))
      <4>1. ASSUME NEW b \in open PROVE Arriving(k, b)'
        <5>1. Arriving(k, b)
          BY <3>1 DEF MachineOK
        <5>2. \A l : Newest(k, l) => Newest(k, l)'
          BY <1>1 DEF Newest, InForce, Inj!Nothing, Inj!OperatingState
        <5> QED BY <5>1, <5>2 DEF Arriving, Waiting
      <4>2. ASSUME NEW b \in open PROVE OnItsWay(b, k)' <=> OnItsWay(b, k)
        BY DEF OnItsWay, Waiting, Inj!HasState
      <4> QED BY <4>1, <4>2
    <3>4. CASE open' = open
      BY <3>1, <3>2, <3>3, <3>4 DEF MachineOK
    <3>5. CASE open' = {} /\ \A b \in open : ~OnItsWay(b, k)
      BY <3>1, <3>2, <3>5 DEF MachineOK
    <3> QED BY <1>1, <3>4, <3>5
  <2> QED BY <1>0, <2>1, <2>2 DEF CardInv, OneAtATime, Inj!Keys
<1>2. ASSUME NEW b \in open, NEW m \in DOMAIN b.results,
             Inj!WriteFails(b, m, TRUE) \/ Inj!WriteFails(b, m, FALSE)
      PROVE  FALSE
  BY <1>0, <1>2 DEF Inj!WriteFails, Inj!Fails, OneAtATime, FormOK
<1>3. ~Inj!Restart
  BY <1>0 DEF Inj!Restart, OneAtATime, FormOK
<1>4. ASSUME NEW b \in open, Inj!Answer(b) PROVE CardInv'
  <2>1. UNCHANGED <<latest, lastState, series, failed, restarts, now>> /\ open' = {}
    BY <1>0, <1>4 DEF Inj!Answer, FormOK
  <2>2. \A k \in Inj!Keys : \A d \in open : ~OnItsWay(d, k)
    BY <1>0, <1>4 DEF Inj!Answer, Inj!Settled, OnItsWay, Waiting, FormOK
  <2> QED BY <1>0, <1>1, <2>1, <2>2 DEF FormOK
<1>5. CASE Inj!Tick \/ UNCHANGED Inj!vars
  <2>1. UNCHANGED <<latest, lastState, series, failed, restarts, open>> /\ now' \in Nat
    BY <1>0, <1>5 DEF Inj!Tick, Inj!vars, FormOK
  <2> QED BY <1>1, <2>1
<1> QED BY <1>2, <1>3, <1>4, <1>5

LEMMA CardStarts == OneAtATime /\ Inj!Init => CardInv
<1> SUFFICES ASSUME OneAtATime, Inj!Init PROVE CardInv
  OBVIOUS
<1>1. /\ now = 0 /\ failed = 0 /\ restarts = 0 /\ open = {}
      /\ latest = [k \in Inj!Keys |-> Inj!Nothing] /\ lastState = [k \in Inj!Keys |-> Inj!Nothing]
      /\ series = [k \in Inj!Keys |-> [status |-> <<>>, state |-> <<>>, shot |-> <<>>]]
  BY DEF Inj!Init
<1>2. FormOK
  BY <1>1 DEF FormOK, OneAtATime
<1>3. ASSUME NEW k \in Inj!Keys PROVE MachineOK(k)
  <2>1. StateOf(k) = <<>> /\ latest[k] = Inj!Nothing /\ lastState[k] = Inj!Nothing
    BY <1>1 DEF StateOf
  <2>2. DOMAIN <<>> = {}
    OBVIOUS
  <2>3. IsFiniteSet(DOMAIN StateOf(k)) /\ DOMAIN StateOf(k) = {}
    BY <2>1, <2>2, FS_EmptySet
  <2> QED BY <1>1, <2>1, <2>3 DEF MachineOK, Remembered, InForce
<1> QED BY <1>2, <1>3 DEF CardInv

LEMMA CardStep == CardInv /\ [Inj!Next]_(Inj!vars) => CardInv'
BY RequestComes, WriteIsDone, OthersTell DEF Inj!Next

\* The line of a machine is the one of its module.
LEMMA SameLine ==
  ASSUME NEW points, NEW start, NEW time
  PROVE  /\ Inj!T!Timeline(points, start, time) = Line!Timeline(points, start, time)
         /\ \A value : Inj!T!Colour(value) = Line!Colour(value)
<1>1. Inj!T!Usable(points, start, time) = Line!Usable(points, start, time)
  BY DEF Inj!T!Usable, Line!Usable, Inj!T!Cardinality, Line!Cardinality, Cardinality
<1>2. \A segments, from, to, state :
        Inj!T!Append2(segments, from, to, state) = Line!Append2(segments, from, to, state)
  BY DEF Inj!T!Append2, Line!Append2, Inj!T!Last, Line!Last
<1>3. \A value : Inj!T!Colour(value) = Line!Colour(value)
  BY DEF Inj!T!Colour, Line!Colour
<1>4. ASSUME NEW s, NEW i, NEW done
      PROVE  Inj!T!Reading1(s, i, time, done) = Line!Reading1(s, i, time, done)
  <2>1. Inj!T!EndOf(s, i, time) = Line!EndOf(s, i, time)
    BY DEF Inj!T!EndOf, Line!EndOf, Inj!T!NextAt, Line!NextAt, Inj!T!Minimum, Line!Minimum
  <2> QED BY <1>2, <1>3, <2>1 DEF Inj!T!Reading1, Line!Reading1
<1> DEFINE s == Line!Usable(points, start, time)
           n == Len(s)
           f == CHOOSE h : h = [i \in 0 .. n |-> IF i = 0 THEN [segments |-> <<>>, cursor |-> start]
                                                ELSE Line!Reading1(s, i, time, h[i - 1])]
           g == CHOOSE h : h = [i \in 0 .. n |-> IF i = 0 THEN [segments |-> <<>>, cursor |-> start]
                                                ELSE Inj!T!Reading1(s, i, time, h[i - 1])]
<1>5. Line!Timeline(points, start, time) = Line!Append2(f[n].segments, f[n].cursor, time, "unknown")
  BY DEF Line!Timeline
<1>6. Inj!T!Timeline(points, start, time) = Inj!T!Append2(g[n].segments, g[n].cursor, time, "unknown")
  BY <1>1 DEF Inj!T!Timeline
<1>7. g = f
  <2> HIDE DEF s, n
  <2>1. \A h : (h = [i \in 0 .. n |-> IF i = 0 THEN [segments |-> <<>>, cursor |-> start]
                                     ELSE Inj!T!Reading1(s, i, time, h[i - 1])])
           <=> (h = [i \in 0 .. n |-> IF i = 0 THEN [segments |-> <<>>, cursor |-> start]
                                     ELSE Line!Reading1(s, i, time, h[i - 1])])
    BY <1>4
  <2> QED BY <2>1
<1> QED BY <1>2, <1>3, <1>5, <1>6, <1>7

\* The line of a machine tells its points.
LEMMA MachineLine ==
  ASSUME Gap \in Nat \ {0}, now \in Nat, NEW k \in Inj!Keys,
         IsFiniteSet(DOMAIN StateOf(k)), DOMAIN StateOf(k) \subseteq Int
  PROVE  /\ \A p \in Inj!Points(k) : p.at \in DOMAIN StateOf(k) /\ p.value = StateOf(k)[p.at]
         /\ \A t \in DOMAIN StateOf(k) : [at |-> t, value |-> StateOf(k)[t]] \in Inj!Points(k)
         /\ Apart(Inj!Points(k))
         /\ Tells(Inj!Line(k), Inj!Points(k), -Gap, now + 1)
<1> DEFINE points == Inj!Points(k)
           line == Line!Timeline(points, -Gap, now + 1)
<1>1. points = {[at |-> t, value |-> StateOf(k)[t]] : t \in DOMAIN StateOf(k)}
  BY DEF Inj!Points, StateOf
<1>2. IsFiniteSet(points)
  <2> DEFINE f == [t \in DOMAIN StateOf(k) |-> [at |-> t, value |-> StateOf(k)[t]]]
  <2>1. f \in Surjection(DOMAIN StateOf(k), points)
    BY <1>1 DEF Surjection
  <2> HIDE DEF f
  <2> QED BY <2>1, FS_Surjection
<1>3. /\ \A p \in points : p.at \in DOMAIN StateOf(k) /\ p.value = StateOf(k)[p.at]
      /\ \A t \in DOMAIN StateOf(k) : [at |-> t, value |-> StateOf(k)[t]] \in points
      /\ \A p, q \in points : p.at = q.at => p = q
  BY <1>1
<1> HIDE DEF points
<1>4. Apart(points)
  BY <1>2, <1>3 DEF Apart
<1>5. Apart(Line!Heard(points, -Gap, now + 1))
  <2>1. Line!Heard(points, -Gap, now + 1) \in SUBSET points
    BY DEF Line!Heard
  <2> QED BY <1>4, <2>1, FS_Subset DEF Apart
<1>6. Tells(line, points, -Gap, now + 1)
  <2>1. -Gap \in Int /\ now + 1 \in Int /\ -Gap <= now + 1 /\ Line!GapAssumption
    BY DEF Line!GapAssumption
  <2> QED BY <1>5, <2>1, LineTells
<1>7. Inj!Line(k) = line
  BY SameLine DEF Inj!Line, line, points
<1> QED BY <1>3, <1>4, <1>6, <1>7 DEF points

\* Where the line of a machine ends when its state is told: in that state.
LEMMA LineEndsTold ==
  ASSUME OneAtATime, now \in Nat, NEW k \in Inj!Keys, Remembered(k), Told(k), InForce(k),
         latest[k].stamp <= now, now - latest[k].stamp <= CmsFresh
  PROVE  Inj!Line(k)[Len(Inj!Line(k))].state = Inj!T!Colour(Inj!OperatingState(latest[k].mode))
<1> DEFINE points == Inj!Points(k)
           value == Inj!OperatingState(latest[k].mode)
           at == lastState[k].at
           last == [at |-> at, value |-> value]
           line == Inj!Line(k)
<1>0. Gap \in Nat \ {0} /\ Heartbeat \in Nat /\ CmsFresh \in Nat /\ Heartbeat + CmsFresh <= Gap
  BY DEF OneAtATime
<1>1. points = {[at |-> t, value |-> StateOf(k)[t]] : t \in DOMAIN StateOf(k)}
  BY DEF Inj!Points, StateOf
<1>2. /\ at \in DOMAIN StateOf(k) /\ at \in Int /\ StateOf(k)[at] = value /\ value \in {0, 1}
      /\ \A t \in DOMAIN StateOf(k) : t \in Int /\ t <= at
      /\ latest[k].stamp \in Int /\ at <= latest[k].stamp
  BY DEF Remembered, Told, Memories, Latests
<1>3. at <= now /\ now - at < Gap /\ -Gap <= at
  <2> DEFINE stamp == latest[k].stamp
  <2>1. stamp \in Int /\ at <= stamp /\ stamp <= now /\ now - stamp <= CmsFresh
        /\ stamp - at < Heartbeat
    BY <1>2 DEF Told
  <2> HIDE DEF stamp, at
  <2> QED BY <1>0, <1>2, <2>1
<1>4. last \in points /\ last.at = at /\ last.value = value
  BY <1>1, <1>2
<1>5. \A p \in points : p.at \in Int /\ p.at <= at
  BY <1>1, <1>2
<1>6. \A p, q \in points : p.at = q.at => p = q
  BY <1>1
<1>9. Tells(line, points, -Gap, now + 1)
  BY <1>0, MachineLine DEF Remembered
<1> HIDE DEF points, at, value, last, line
<1>10. line[Len(line)].state = Line!ColourAt(points, -Gap, now)
  <2>1. line # <<>>
    BY <1>0, <1>9 DEF Tells
  <2>2. Len(line) \in 1 .. Len(line) /\ line[Len(line)].end = now + 1
        /\ line[Len(line)] \in Segments
    BY <1>9, <2>1 DEF Tells
  <2> DEFINE s == line[Len(line)]
  <2>3. s.start < s.end /\ \A t \in s.start .. s.end - 1 : s.state = Line!ColourAt(points, -Gap, t)
    BY <1>9, <2>2 DEF Tells, SegmentTells
  <2>4. now \in s.start .. s.end - 1
    <3>1. s.start \in Int /\ s.end = now + 1
      BY <2>2 DEF Segments
    <3> HIDE DEF s
    <3> QED BY <2>3, <3>1
  <2> QED BY <2>3, <2>4
<1>11. Line!ColourAt(points, -Gap, now) = Line!Colour(value)
  <2> DEFINE H == Line!Heard(points, -Gap, now)
             chosen == CHOOSE p \in H : \A q \in H : q.at <= p.at
  <2>1. last \in H
    BY <1>0, <1>2, <1>3, <1>4 DEF Line!Heard
  <2>2. \A q \in H : q \in points /\ q.at <= last.at
    BY <1>4, <1>5 DEF Line!Heard
  <2>3. chosen \in H /\ \A q \in H : q.at <= chosen.at
    BY <2>1, <2>2
  <2>4. Line!ColourAt(points, -Gap, now) =
          IF H = {} THEN "unknown"
          ELSE IF now - chosen.at >= Gap THEN "unknown" ELSE Line!Colour(chosen.value)
    BY DEF Line!ColourAt
  <2> HIDE DEF chosen, H
  <2>5. chosen = last
    <3>1. chosen.at <= last.at /\ last.at <= chosen.at /\ chosen \in points /\ last \in points
      BY <1>4, <2>1, <2>2, <2>3
    <3>2. chosen.at = last.at
      BY <1>5, <3>1
    <3> QED BY <1>6, <3>1, <3>2
  <2>6. H # {} /\ ~(now - last.at >= Gap)
    BY <1>0, <1>2, <1>3, <1>4, <2>1
  <2> QED BY <1>4, <2>4, <2>5, <2>6
<1>12. Inj!T!Colour(value) = Line!Colour(value)
  BY SameLine
<1> QED BY <1>10, <1>11, <1>12 DEF value, line

\* For any machines and readings, stamps late and ahead, of one sender or several, as
\* long as requests come one at a time, their writes are done and the process stays up:
\* once nothing is being written, the popup's line ends in the colour of the card
\* (snapshot, injection-machines.service.ts 317-320; record, injection-history.service.ts
\* 25-90; injectionStateTimeline.ts).
THEOREM CardIsOfTheLine ==
  OneAtATime => (Inj!Spec => []Inj!CardAgreesWithLine)
<1>1. CardInv => Inj!CardAgreesWithLine
  <2>1. ASSUME CardInv, open = {}, NEW k \in Inj!Keys, Inj!Card(k) # -1
        PROVE  Inj!Line(k)[Len(Inj!Line(k))].state = Inj!T!Colour(Inj!Card(k))
    <3>1. Inj!Live(k) /\ Inj!Card(k) = Inj!OperatingState(latest[k].mode)
      BY <2>1 DEF Inj!Card
    <3>2. InForce(k) /\ latest[k].stamp <= now /\ now - latest[k].stamp <= CmsFresh
      BY <2>1, <3>1 DEF Inj!Live, Inj!IsCmsFresh, InForce
    <3>3. Told(k) /\ Remembered(k) /\ OneAtATime /\ now \in Nat
      BY <2>1, <3>2 DEF CardInv, MachineOK, FormOK
    <3> QED BY <3>1, <3>2, <3>3, LineEndsTold
  <2> QED BY <2>1 DEF Inj!CardAgreesWithLine
<1> QED BY <1>1, CardStarts, CardStep, PTL DEF Inj!Spec

-----------------------------------------------------------------------------
(* The line of a machine that reports has no hole.                          *)

\* Requests one at a time, one reading of a machine in an instant, in a process that
\* stays up; readings without delay, in force, of a machine that produces or is stopped.
\* Some writes in a row may fail where there is one machine (of several, one's would end
\* the row of another's); the beat, the retries and the write under way fit in Gap.
SteadyReports ==
  /\ MaxOpen = 1 /\ MaxRestarts = 0 /\ PerInstant = 1
  /\ MaxFailures \in Nat
  /\ MaxFailures = 0 \/ \E s, m : Feeds = {s} /\ Machines = {m}
  /\ Period \in Nat \ {0} /\ Heartbeat \in Nat \ {0} /\ Gap \in Nat \ {0} /\ Future \in Nat
  /\ Heartbeat + Period * (MaxFailures + 1) < Gap
  /\ Lags = {0} /\ Modes \subseteq {"AUTO", "STOP"} /\ Vigencies = {TRUE}
  /\ Machines \cap Unknown = {}

\* How old the newest point may be when n writes have failed since.
Silence(n) == Heartbeat - 1 + Period * n

\* The points there are of a machine, all of readings taken.
KeptOK(k) ==
  /\ IsFiniteSet(DOMAIN StateOf(k))
  /\ \A t \in DOMAIN StateOf(k) :
       /\ t \in Nat /\ StateOf(k)[t] \in {0, 1}
       /\ latest[k] # Inj!Nothing /\ t <= latest[k].stamp
  /\ lastState[k] # Inj!Nothing => lastState[k].at \in DOMAIN StateOf(k)
\* Its sender is never silent for longer than Period.
ReportOK(k) ==
  /\ sent[k].count \in Nat
  /\ latest[k] = Inj!Nothing => sent[k].at = Inj!Never
  /\ latest[k] # Inj!Nothing =>
       /\ latest[k].stamp \in Nat /\ sent[k].at = latest[k].stamp /\ sent[k].count >= 1
       /\ latest[k].stamp <= now /\ now <= latest[k].stamp + Period
\* A write under way is of the newest reading; without a state, one was stored lately.
WritingOK(k, b) ==
  Waiting(b, k) =>
    /\ latest[k] # Inj!Nothing /\ b.at = latest[k].stamp /\ now <= b.at + 1
    /\ \A l \in b.results[k[2]].lines :
         l.kind = "state" => l.at = latest[k].stamp /\ l.value \in {0, 1}
    /\ \/ Inj!HasState(b.results[k[2]].lines)
       \/ lastState[k] # Inj!Nothing /\ latest[k].stamp - lastState[k].at < Heartbeat
\* A point is followed by another in time, or the newest reading is still near.
Linked(k, n) ==
  \A t \in DOMAIN StateOf(k) :
    \/ \E u \in DOMAIN StateOf(k) : t < u /\ u <= t + Gap
    \/ latest[k].stamp <= t + Silence(n)
\* What is written is of a machine of the catalogue.
WritesKnown(b) ==
  \A m \in DOMAIN b.results : b.results[m].stored = "waiting" => <<b.source, m>> \in Inj!Keys
BeatsOK(k) ==
  /\ KeptOK(k) /\ ReportOK(k)
  /\ \A b \in open : WritingOK(k, b)
  /\ (\E b \in open : Waiting(b, k)) => Linked(k, failed + 1)
  /\ (\A b \in open : ~Waiting(b, k)) => Linked(k, failed)
BeatInv ==
  /\ SteadyReports /\ FormOK /\ sent = [k \in Inj!Keys |-> sent[k]]
  /\ \A b \in open : WritesKnown(b)
  /\ \A k \in Inj!Keys : BeatsOK(k)

\* Every failure costs another Period, and all there may be leave time enough.
LEMMA SilenceFits ==
  ASSUME SteadyReports, NEW n \in 0 .. MaxFailures
  PROVE  /\ Silence(n) \in Nat /\ Silence(n + 1) \in Nat
         /\ Silence(n + 1) = Silence(n) + Period
         /\ Heartbeat - 1 <= Silence(n) /\ Silence(0) = Heartbeat - 1
         /\ Silence(n + 1) + 1 < Gap
<1>0. /\ Period \in Nat /\ Heartbeat \in Nat \ {0} /\ Gap \in Nat /\ MaxFailures \in Nat
      /\ n \in Nat /\ n <= MaxFailures
      /\ Heartbeat + Period * (MaxFailures + 1) < Gap
  BY DEF SteadyReports
<1>1. Period * (n + 1) = Period * n + Period
  BY <1>0
<1>2. Period * n \in Nat /\ Period * (MaxFailures + 1) \in Nat
  BY <1>0
<1>3. Period * (n + 1) <= Period * (MaxFailures + 1)
  <2>1. PICK d \in Nat : MaxFailures + 1 = n + 1 + d
    <3>1. MaxFailures - n \in Nat /\ MaxFailures + 1 = n + 1 + (MaxFailures - n)
      BY <1>0
    <3> QED BY <3>1
  <2>2. Period * (n + 1 + d) = Period * (n + 1) + Period * d
    BY <1>0
  <2>3. Period * d \in Nat
    BY <1>0
  <2> QED BY <1>0, <1>1, <1>2, <2>1, <2>2, <2>3
<1>4. Period * 0 = 0
  BY <1>0
<1> QED BY <1>0, <1>1, <1>2, <1>3, <1>4 DEF Silence

LEMMA StateLineOf ==
  ASSUME NEW s, NEW m, NEW r, NEW l \in Inj!Lines(s, m, r), l.kind = "state"
  PROVE  l.at = r.stamp /\ l.value = Inj!OperatingState(r.mode)
<1> DEFINE state == [kind |-> "state", at |-> r.stamp, value |-> Inj!OperatingState(r.mode)]
           status == [kind |-> "status", at |-> r.stamp, value |-> 0]
           shot == [kind |-> "shot", at |-> r.shot.at, value |-> r.shot.number]
<1>1. /\ state.at = r.stamp /\ state.value = Inj!OperatingState(r.mode)
      /\ status.kind # "state" /\ shot.kind # "state"
  OBVIOUS
<1>2. l = status \/ l = shot \/ l = state
  BY DEF Inj!Lines, Inj!ShotLine
<1> HIDE DEF state, status, shot
<1> QED BY <1>1, <1>2

\* A reading of these is accepted, written, and has a state unless one was stored lately.
LEMMA BeatIsAccepted ==
  ASSUME BeatInv, NEW k \in Inj!Keys, NEW r \in Inj!Readings,
         Inj!SentNow(k) < PerInstant
  PROVE  LET lines == Inj!Lines(k[1], k[2], r) IN
         /\ r.stamp = now /\ Inj!Status(k[1], k[2], r) = "ACCEPTED" /\ lines # {}
         /\ \A l \in lines : l.kind = "state" => l.at = now /\ l.value \in {0, 1}
         /\ \/ Inj!HasState(lines)
            \/ lastState[k] # Inj!Nothing /\ now - lastState[k].at < Heartbeat
<1> DEFINE lines == Inj!Lines(k[1], k[2], r)
           status == [kind |-> "status", at |-> r.stamp, value |-> 0]
<1>0. SteadyReports /\ now \in Nat /\ BeatsOK(k) /\ k = <<k[1], k[2]>> /\ k[2] \in Machines
  BY KeyIsPair DEF BeatInv, FormOK
<1>1. r.stamp = now /\ r.vigente = TRUE /\ r.mode \in {"AUTO", "STOP"}
  <2>1. now - 0 = now
    BY <1>0
  <2> QED BY <1>0, <2>1 DEF Inj!Readings, SteadyReports
<1>2. Inj!OperatingState(r.mode) \in {0, 1}
  BY <1>1 DEF Inj!OperatingState
<1>3. ~Inj!Rejected(k[2], r)
  <2>1. ~(r.stamp > now + Future)
    BY <1>0, <1>1 DEF SteadyReports
  <2>2. k[2] \notin Unknown
    BY <1>0 DEF SteadyReports
  <2> QED BY <2>1, <2>2 DEF Inj!Rejected
<1>4. ~Inj!Older(k, r)
  <2>1. ASSUME latest[k] # Inj!Nothing PROVE ~(r.stamp <= latest[k].stamp)
    <3>1. /\ latest[k].stamp \in Nat /\ sent[k].at = latest[k].stamp /\ sent[k].count >= 1
          /\ sent[k].count \in Nat /\ latest[k].stamp <= now
      BY <1>0, <2>1 DEF BeatsOK, ReportOK
    <3>2. sent[k].at # now
      BY <1>0, <3>1 DEF Inj!SentNow, SteadyReports
    <3> QED BY <1>0, <1>1, <3>1, <3>2
  <2> QED BY <2>1 DEF Inj!Older
<1>5. Inj!Status(k[1], k[2], r) = "ACCEPTED"
  BY <1>0, <1>3, <1>4 DEF Inj!Status
<1>6. status \in lines
  BY <1>1, <1>5 DEF Inj!Lines
<1>7. ASSUME NEW l \in lines, l.kind = "state" PROVE l.at = now /\ l.value \in {0, 1}
  <2>1. l.at = r.stamp /\ l.value = Inj!OperatingState(r.mode)
    BY <1>7, StateLineOf
  <2> QED BY <1>1, <1>2, <2>1
<1>8. Inj!HasState(lines) \/ (lastState[k] # Inj!Nothing /\ now - lastState[k].at < Heartbeat)
  <2>1. CASE Inj!Beat(k, r)
    <3>1. Inj!WriteState(<<k[1], k[2]>>, r)
      BY <1>0, <1>1, <1>2, <2>1 DEF Inj!WriteState
    <3> QED BY <1>5, <3>1, StateLine
  <2>2. CASE ~Inj!Beat(k, r)
    <3>1. lastState[k] # Inj!Nothing /\ ~(now - lastState[k].at >= Heartbeat)
      BY <1>1, <2>2 DEF Inj!Beat
    <3>2. lastState[k].at \in Nat
      BY <1>0, <3>1 DEF BeatsOK, KeptOK
    <3> QED BY <1>0, <3>1, <3>2 DEF SteadyReports
  <2> QED BY <2>1, <2>2
<1> QED BY <1>1, <1>5, <1>6, <1>7, <1>8

\* The request a batch opens.
Opens(s, readings, b) ==
  /\ b.source = s /\ b.at = now /\ DOMAIN b.results = DOMAIN readings
  /\ \A m \in DOMAIN readings :
       /\ b.results[m].lines = Inj!Lines(s, m, readings[m])
       /\ b.results[m].stored = "waiting" <=> b.results[m].lines # {}
LEMMA RequestOpens ==
  ASSUME FormOK, MaxOpen = 1, NEW s \in Feeds, NEW ms \in SUBSET (Machines \cup Unknown),
         NEW readings \in [ms -> Inj!Readings], Inj!Receive(s, readings)
  PROVE  /\ FormOK' /\ open = {}
         /\ \E b : open' = {b} /\ Opens(s, readings, b)
<1>b. PICK b : b = [source |-> s, at |-> now,
                    results |-> [m \in ms |-> Inj!Result(s, m, readings[m])]]
  OBVIOUS
<1>0. open = {} /\ DOMAIN readings = ms
  BY NoneOpen DEF FormOK
<1>1. open' = {b} /\ UNCHANGED <<now, lastState, series, failed, restarts>>
  BY <1>b, <1>0 DEF Inj!Receive
<1>2. /\ b.source = s /\ b.at = now
      /\ b = [source |-> b.source, at |-> b.at, results |-> b.results]
      /\ DOMAIN b.results = ms /\ b.results = [m \in ms |-> b.results[m]]
      /\ \A m \in ms : b.results[m] = Inj!Result(s, m, readings[m])
  BY <1>b
<1>3. \A m \in ms : \A r : LET q == Inj!Result(s, m, r) IN
        /\ ResultForm(q) /\ q.lines = Inj!Lines(s, m, r)
        /\ q.stored = IF Inj!Lines(s, m, r) = {} THEN "no" ELSE "waiting"
  BY DEF Inj!Result, ResultForm
<1>4. RequestForm(b)
  BY <1>2, <1>3 DEF RequestForm
<1>5. FormOK'
  <2>1. latest' = [k \in Inj!Keys |-> latest'[k]]
    BY DEF Inj!Receive, Inj!Caches
  <2>2. (\A k \in Inj!Keys : series[k] = [status |-> series[k].status, state |-> series[k].state,
                                      shot |-> series[k].shot])'
    BY <1>1 DEF FormOK, Inj!Keys
  <2>3. (\A d \in open : RequestForm(d))'
    BY <1>1, <1>4 DEF RequestForm, ResultForm
  <2> QED BY <1>0, <1>1, <2>1, <2>2, <2>3 DEF FormOK, Inj!Keys
<1>6. ASSUME NEW m \in DOMAIN readings
      PROVE  /\ b.results[m].lines = Inj!Lines(s, m, readings[m])
             /\ b.results[m].stored = "waiting" <=> b.results[m].lines # {}
  BY <1>0, <1>2, <1>3
<1>7. Opens(s, readings, b)
  <2>1. b.source = s /\ b.at = now /\ DOMAIN b.results = DOMAIN readings
    BY <1>0, <1>2
  <2> QED BY <1>6, <2>1, Zenon DEF Opens
<1> QED BY <1>0, <1>1, <1>5, <1>7

\* The series after a write: those of the machine it is of.
LEMMA SeriesStored ==
  ASSUME FormOK, NEW k0, NEW lines, series' = Inj!Stored(k0, lines)
  PROVE  /\ series' = [k \in Inj!Keys |-> series'[k]]
         /\ \A k \in Inj!Keys :
              /\ series'[k] = [status |-> series'[k].status, state |-> series'[k].state,
                               shot |-> series'[k].shot]
              /\ series'[k].state = IF k = k0 THEN Inj!Put(StateOf(k), lines, "state") ELSE StateOf(k)
              /\ k # k0 => series'[k] = series[k]
<1> DEFINE old == series[k0]
           new == [status |-> Inj!Put(old.status, lines, "status"),
                   state |-> Inj!Put(old.state, lines, "state"),
                   shot |-> Inj!Put(old.shot, lines, "shot")]
<1>1. series' = [series EXCEPT ![k0] = new]
  BY DEF Inj!Stored
<1>2. /\ new.state = Inj!Put(old.state, lines, "state")
      /\ new = [status |-> new.status, state |-> new.state, shot |-> new.shot]
  OBVIOUS
<1> HIDE DEF new
<1>3. /\ series' = [k \in Inj!Keys |-> series'[k]]
      /\ \A k \in Inj!Keys : series'[k] = IF k = k0 THEN new ELSE series[k]
  BY <1>1 DEF FormOK
<1>4. ASSUME NEW k \in Inj!Keys
      PROVE  /\ series'[k] = [status |-> series'[k].status, state |-> series'[k].state,
                              shot |-> series'[k].shot]
             /\ series'[k].state = IF k = k0 THEN Inj!Put(StateOf(k), lines, "state") ELSE StateOf(k)
             /\ k # k0 => series'[k] = series[k]
  <2>1. CASE k = k0
    BY <1>2, <1>3, <2>1 DEF StateOf
  <2>2. CASE k # k0
    BY <1>3, <2>2 DEF FormOK, StateOf
  <2> QED BY <2>1, <2>2
<1> QED BY <1>3, <1>4

\* A write that has ended, one way or the other, leaves the rest of its request.
AfterWrite(b, m, c) ==
  /\ RequestForm(c) /\ c.source = b.source /\ c.at = b.at
  /\ \A x \in DOMAIN c.results : c.results[x].stored = "waiting" =>
       x \in DOMAIN b.results /\ x # m /\ c.results[x] = b.results[x]
  /\ \A k \in Inj!Keys : k # <<b.source, m>> =>
       /\ Waiting(c, k) <=> Waiting(b, k)
       /\ Waiting(b, k) => c.results[k[2]] = b.results[k[2]]

LEMMA WriteSettles ==
  ASSUME FormOK, NEW b \in open, NEW m \in DOMAIN b.results, NEW stored \in {"yes", "no"},
         Inj!Settle(b, m, stored)
  PROVE  open = {b} /\ \E c : open' = {c} /\ AfterWrite(b, m, c)
<1>1. PICK c : c = [b EXCEPT !.results[m].stored = stored]
  OBVIOUS
<1>2. open = {b} /\ RequestForm(b)
  BY DEF FormOK
<1>3. open' = {c}
  BY <1>1, <1>2 DEF Inj!Settle
<1>4. /\ RequestForm(c) /\ c.source = b.source /\ c.at = b.at
      /\ DOMAIN c.results = DOMAIN b.results
      /\ \A x \in DOMAIN b.results \ {m} : c.results[x] = b.results[x]
      /\ c.results[m].stored = stored
  BY <1>1, <1>2, SettledForm
<1>5. ASSUME NEW x \in DOMAIN c.results, c.results[x].stored = "waiting"
      PROVE  x \in DOMAIN b.results /\ x # m /\ c.results[x] = b.results[x]
  <2>1. x # m
    BY <1>4, <1>5
  <2> QED BY <1>4, <2>1
<1>6. ASSUME NEW k \in Inj!Keys, k # <<b.source, m>>
      PROVE  /\ Waiting(c, k) <=> Waiting(b, k)
             /\ Waiting(b, k) => c.results[k[2]] = b.results[k[2]]
  <2>0. k = <<k[1], k[2]>>
    BY KeyIsPair
  <2>1. CASE k[1] = b.source /\ k[2] \in DOMAIN b.results
    <3>1. k[2] # m
      BY <1>6, <2>0, <2>1
    <3> QED BY <1>4, <2>1, <3>1 DEF Waiting
  <2>2. CASE ~(k[1] = b.source /\ k[2] \in DOMAIN b.results)
    BY <1>4, <2>2 DEF Waiting
  <2> QED BY <2>1, <2>2
<1>7. AfterWrite(b, m, c)
  BY <1>4, <1>5, <1>6 DEF AfterWrite
<1> QED BY <1>2, <1>3, <1>7

\* A point that is stored follows the ones before it in time.
LEMMA PointFollows ==
  ASSUME SteadyReports, NEW n \in 0 .. MaxFailures, NEW k, KeptOK(k), Linked(k, n + 1),
         latest[k] # Inj!Nothing, latest[k].stamp \in Nat, NEW p \in 0 .. MaxFailures,
         UNCHANGED latest, DOMAIN StateOf(k)' = DOMAIN StateOf(k) \cup {latest[k].stamp}
  PROVE  Linked(k, p)'
<1> DEFINE stamp == latest[k].stamp
           dom == DOMAIN StateOf(k)
<1>0. /\ stamp \in Nat /\ \A t \in dom : t \in Nat /\ t <= stamp
      /\ Gap \in Nat /\ Silence(n + 1) \in Nat /\ Silence(n + 1) < Gap
      /\ Silence(p) \in Nat
  <2>1. Silence(n + 1) \in Nat /\ Silence(n + 1) + 1 < Gap /\ Silence(p) \in Nat
    BY SilenceFits
  <2>2. Gap \in Nat
    BY DEF SteadyReports
  <2>3. \A t \in dom : t \in Nat /\ t <= stamp
    BY DEF KeptOK
  <2> HIDE DEF dom, stamp
  <2> QED BY <2>1, <2>2, <2>3 DEF stamp
<1>1. ASSUME NEW t \in dom \cup {stamp}
      PROVE  \/ \E u \in dom \cup {stamp} : t < u /\ u <= t + Gap
             \/ stamp <= t + Silence(p)
  <2>1. CASE t = stamp
    BY <1>0, <2>1
  <2>2. CASE t \in dom /\ \E u \in dom : t < u /\ u <= t + Gap
    BY <2>2
  <2>3. CASE t \in dom /\ t # stamp /\ stamp <= t + Silence(n + 1)
    <3>1. t < stamp /\ stamp <= t + Gap
      BY <1>0, <2>3
    <3> QED BY <3>1
  <2> QED BY <1>1, <2>1, <2>2, <2>3 DEF Linked
<1>2. (latest[k].stamp)' = stamp /\ DOMAIN StateOf(k)' = dom \cup {stamp}
  OBVIOUS
<1>3. Silence(p)' = Silence(p)
  BY DEF Silence
<1> QED BY <1>1, <1>2, <1>3 DEF Linked

\* The points of a machine after a write: those there were, and the state written.
LEMMA StatePut ==
  ASSUME NEW k, KeptOK(k), latest[k] # Inj!Nothing, latest[k].stamp \in Nat, NEW lines,
         \A l \in lines : l.kind = "state" => l.at = latest[k].stamp /\ l.value \in {0, 1},
         UNCHANGED latest,
         series'[k].state = Inj!Put(StateOf(k), lines, "state")
  PROVE  /\ DOMAIN StateOf(k)' = IF Inj!HasState(lines) THEN DOMAIN StateOf(k) \cup {latest[k].stamp}
                                ELSE DOMAIN StateOf(k)
         /\ IsFiniteSet(DOMAIN StateOf(k)')
         /\ \A t \in DOMAIN StateOf(k)' :
              t \in Nat /\ StateOf(k)'[t] \in {0, 1} /\ t <= latest[k].stamp
<1> DEFINE stamp == latest[k].stamp
           states == {l \in lines : l.kind = "state"}
           dom == DOMAIN StateOf(k) \cup {l.at : l \in states}
           new == [t \in dom |-> IF \E l \in states : l.at = t
                                 THEN (CHOOSE l \in states : l.at = t).value ELSE StateOf(k)[t]]
<1>1. StateOf(k)' = new
  BY DEF Inj!Put, StateOf
<1>2. dom = IF Inj!HasState(lines) THEN DOMAIN StateOf(k) \cup {stamp} ELSE DOMAIN StateOf(k)
  <2>1. CASE Inj!HasState(lines)
    <3>1. {l.at : l \in states} = {stamp}
      BY <2>1 DEF Inj!HasState
    <3> QED BY <2>1, <3>1
  <2>2. CASE ~Inj!HasState(lines)
    <3>1. states = {}
      BY <2>2 DEF Inj!HasState
    <3> QED BY <2>2, <3>1
  <2> QED BY <2>1, <2>2
<1>3. ASSUME NEW t \in dom PROVE new[t] \in {0, 1}
  <2>1. CASE \E l \in states : l.at = t
    <3> DEFINE c == CHOOSE l \in states : l.at = t
    <3>1. c \in states
      BY <2>1
    <3>2. new[t] = c.value
      BY <2>1, <1>3
    <3> HIDE DEF c, new
    <3> QED BY <3>1, <3>2
  <2>2. CASE ~\E l \in states : l.at = t
    <3>1. t \in DOMAIN StateOf(k) /\ new[t] = StateOf(k)[t]
      BY <1>3, <2>2
    <3> QED BY <3>1 DEF KeptOK
  <2> QED BY <2>1, <2>2
<1>4. DOMAIN new = dom
  OBVIOUS
<1> HIDE DEF new, dom
<1>5. IsFiniteSet(dom)
  <2>1. IsFiniteSet(DOMAIN StateOf(k)) /\ IsFiniteSet(DOMAIN StateOf(k) \cup {stamp})
    BY FS_AddElement DEF KeptOK
  <2> QED BY <1>2, <2>1
<1>6. \A t \in dom : t \in Nat /\ t <= stamp
  BY <1>2 DEF KeptOK
<1> QED BY <1>1, <1>2, <1>3, <1>4, <1>5, <1>6

\* What is told of a machine holds on while its caches and its points do not change.
LEMMA SameMachine ==
  ASSUME NEW k, latest'[k] = latest[k], lastState'[k] = lastState[k], series'[k] = series[k]
  PROVE  /\ KeptOK(k) => KeptOK(k)'
         /\ \A n, p : Linked(k, n) /\ p = n => Linked(k, p)'
         /\ StateOf(k)' = StateOf(k)
<1>1. StateOf(k)' = StateOf(k)
  BY DEF StateOf
<1>2. KeptOK(k) => KeptOK(k)'
  BY <1>1 DEF KeptOK, Inj!Nothing
<1>3. \A n : Silence(n)' = Silence(n)
  BY DEF Silence
<1>4. ASSUME NEW n, Linked(k, n) PROVE Linked(k, n)'
  BY <1>1, <1>3, <1>4 DEF Linked
<1> QED BY <1>1, <1>2, <1>4

LEMMA BeatComes ==
  ASSUME BeatInv, NEW s \in Feeds, NEW ms \in SUBSET (Machines \cup Unknown),
         NEW readings \in [ms -> Inj!Readings], Inj!Receive(s, readings)
  PROVE  BeatInv'
<1>0. /\ SteadyReports /\ FormOK /\ now \in Nat /\ failed \in 0 .. MaxFailures
      /\ DOMAIN readings = ms /\ UNCHANGED <<now, lastState, series, failed, restarts>>
  BY DEF BeatInv, FormOK, Inj!Receive
<1>1. FormOK' /\ open = {}
  BY <1>0, RequestOpens DEF SteadyReports
<1>2. PICK b : /\ open' = {b} /\ b.source = s /\ b.at = now /\ DOMAIN b.results = ms
               /\ \A m \in ms :
                    /\ b.results[m].lines = Inj!Lines(s, m, readings[m])
                    /\ b.results[m].stored = "waiting" <=> b.results[m].lines # {}
  <2>1. MaxOpen = 1
    BY <1>0 DEF SteadyReports
  <2>2. PICK b : open' = {b} /\ Opens(s, readings, b)
    BY <1>0, <2>1, RequestOpens
  <2>3. /\ open' = {b} /\ b.source = s /\ b.at = now /\ DOMAIN b.results = ms
        /\ \A m \in ms :
             /\ b.results[m].lines = Inj!Lines(s, m, readings[m])
             /\ b.results[m].stored = "waiting" <=> b.results[m].lines # {}
    BY <1>0, <2>2 DEF Opens
  <2> QED BY <2>3
<1>3. /\ latest' = [k \in Inj!Keys |->
           IF k[1] = s /\ Inj!Fresh(s, readings, k[2])
           THEN [stamp |-> readings[k[2]].stamp, at |-> now, vigente |-> readings[k[2]].vigente,
                 mode |-> readings[k[2]].mode]
           ELSE latest[k]]
      /\ sent' = [k \in Inj!Keys |-> IF k[1] = s /\ k[2] \in ms
                                   THEN [at |-> now, count |-> Inj!SentNow(k) + 1] ELSE sent[k]]
      /\ \A m \in ms \cap Machines : Inj!SentNow(<<s, m>>) < PerInstant
  BY <1>0 DEF Inj!Receive, Inj!Caches
<1>4. ASSUME NEW k \in Inj!Keys PROVE BeatsOK(k)'
  <2>0. /\ KeptOK(k) /\ ReportOK(k) /\ Linked(k, failed)
        /\ k = <<k[1], k[2]>> /\ k[2] \in Machines
    BY <1>1, KeyIsPair DEF BeatInv, BeatsOK
  <2>1. CASE k[1] = s /\ k[2] \in ms
    <3> DEFINE r == readings[k[2]]
               lines == Inj!Lines(k[1], k[2], r)
               stamp == latest[k].stamp
    <3>1. Inj!SentNow(k) < PerInstant /\ r \in Inj!Readings
      BY <1>3, <2>0, <2>1
    <3>2. /\ r.stamp = now /\ Inj!Status(k[1], k[2], r) = "ACCEPTED" /\ lines # {}
          /\ \A l \in lines : l.kind = "state" => l.at = now /\ l.value \in {0, 1}
          /\ \/ Inj!HasState(lines)
             \/ lastState[k] # Inj!Nothing /\ now - lastState[k].at < Heartbeat
      BY <3>1, BeatIsAccepted
    <3>3. latest'[k] # Inj!Nothing /\ latest'[k].stamp = now
      <4> DEFINE new == [stamp |-> r.stamp, at |-> now, vigente |-> r.vigente, mode |-> r.mode]
      <4>1. Inj!Fresh(s, readings, k[2])
        BY <1>0, <2>1, <3>2 DEF Inj!Fresh
      <4>2. latest'[k] = new
        BY <1>3, <2>1, <4>1
      <4>3. "stamp" \in DOMAIN new /\ "stamp" \notin DOMAIN Inj!Nothing
        BY DEF Inj!Nothing
      <4>4. new # Inj!Nothing /\ new.stamp = now
        BY <3>2, <4>3
      <4> QED BY <4>2, <4>4
    <3>4. sent'[k].at = now /\ sent'[k].count \in Nat /\ sent'[k].count >= 1
      <4>1. Inj!SentNow(k) \in Nat
        BY <2>0 DEF ReportOK, Inj!SentNow
      <4>2. sent'[k] = [at |-> now, count |-> Inj!SentNow(k) + 1]
        BY <1>3, <2>1
      <4> QED BY <4>1, <4>2
    <3>5. StateOf(k)' = StateOf(k) /\ lastState'[k] = lastState[k] /\ now' = now /\ failed' = failed
      BY <1>0 DEF StateOf
    <3>6. \A t \in DOMAIN StateOf(k) :
            /\ t \in Nat /\ latest[k] # Inj!Nothing /\ stamp \in Nat /\ t <= stamp /\ stamp <= now
            /\ now <= stamp + Period
      BY <2>0 DEF KeptOK, ReportOK
    <3>7. KeptOK(k)'
      <4>1. \A t \in DOMAIN StateOf(k) : t <= now
        BY <1>0, <3>6
      <4> QED BY <2>0, <3>3, <3>5, <4>1 DEF KeptOK, Inj!Nothing
    <3>8. ReportOK(k)'
      <4>1. now <= now + Period
        BY <1>0 DEF SteadyReports
      <4> QED BY <1>0, <3>3, <3>4, <3>5, <4>1 DEF ReportOK, Inj!Nothing, Inj!Never
    <3>9. Waiting(b, k) /\ b.results[k[2]].lines = lines
      BY <1>2, <2>1, <3>2 DEF Waiting
    <3>10. WritingOK(k, b)'
      <4>1. /\ \A l \in b.results[k[2]].lines : l.kind = "state" => l.at = now /\ l.value \in {0, 1}
            /\ \/ Inj!HasState(b.results[k[2]].lines)
               \/ lastState[k] # Inj!Nothing /\ now - lastState[k].at < Heartbeat
        BY <3>2, <3>9
      <4>2. b.at = now /\ now <= now + 1
        BY <1>0, <1>2
      <4> HIDE DEF lines
      <4> QED BY <3>3, <3>5, <4>1, <4>2 DEF WritingOK, Inj!Nothing, Inj!HasState
    <3>11. Linked(k, failed + 1)'
      <4>1. \A t \in DOMAIN StateOf(k) :
              \/ \E u \in DOMAIN StateOf(k) : t < u /\ u <= t + Gap
              \/ now <= t + Silence(failed + 1)
        <5>1. ASSUME NEW t \in DOMAIN StateOf(k), stamp <= t + Silence(failed)
              PROVE  now <= t + Silence(failed + 1)
          <6>1. /\ Silence(failed) \in Nat /\ Silence(failed + 1) = Silence(failed) + Period
                /\ Period \in Nat
            BY <1>0, SilenceFits DEF SteadyReports
          <6> HIDE DEF stamp
          <6> QED BY <1>0, <3>6, <5>1, <6>1
        <5> QED BY <2>0, <5>1 DEF Linked
      <4> QED BY <3>3, <3>5, <4>1 DEF Linked, Silence
    <3>12. (\A d \in open : WritingOK(k, d))' /\ ~(\A d \in open : ~Waiting(d, k))'
      <4>1. Waiting(b, k)'
        BY <3>9 DEF Waiting
      <4> QED BY <1>2, <3>10, <4>1
    <3> QED BY <3>7, <3>8, <3>11, <3>12 DEF BeatsOK
  <2>2. CASE ~(k[1] = s /\ k[2] \in ms)
    <3>1. latest'[k] = latest[k] /\ sent'[k] = sent[k]
      <4>1. ~(k[1] = s /\ Inj!Fresh(s, readings, k[2]))
        BY <1>0, <2>2 DEF Inj!Fresh
      <4> QED BY <1>3, <2>2, <4>1
    <3>2. /\ KeptOK(k)' /\ StateOf(k)' = StateOf(k)
          /\ \A n, p : Linked(k, n) /\ p = n => Linked(k, p)'
      BY <1>0, <2>0, <3>1, SameMachine
    <3>3. ReportOK(k)'
      BY <1>0, <2>0, <3>1 DEF ReportOK, Inj!Nothing, Inj!Never
    <3>4. ~Waiting(b, k)
      BY <1>2, <2>2 DEF Waiting
    <3>5. (\A d \in open : WritingOK(k, d))'
      BY <1>2, <3>4 DEF WritingOK, Waiting
    <3>6. Linked(k, failed)'
      BY <1>0, <2>0, <3>1, <3>2 DEF Linked, Silence
    <3>7. ~(\E d \in open : Waiting(d, k))'
      BY <1>2, <3>4 DEF Waiting
    <3> QED BY <3>2, <3>3, <3>5, <3>6, <3>7 DEF BeatsOK
  <2> QED BY <2>1, <2>2
<1>5. (sent = [k \in Inj!Keys |-> sent[k]])'
  BY <1>3 DEF Inj!Keys
<1>6. (\A d \in open : WritesKnown(d))'
  <2>1. ASSUME NEW m \in ms, b.results[m].stored = "waiting" PROVE m \in Machines
    <3>1. Inj!Lines(s, m, readings[m]) # {}
      BY <1>2, <2>1
    <3>2. m \notin Unknown
      BY <3>1 DEF Inj!Lines, Inj!Status, Inj!Updated, Inj!Rejected
    <3> QED BY <3>2
  <2>2. \A m \in DOMAIN b.results : b.results[m].stored = "waiting" => <<b.source, m>> \in Inj!Keys
    BY <1>2, <2>1 DEF Inj!Keys
  <2> QED BY <1>2, <2>2 DEF WritesKnown, Inj!Keys
<1> QED BY <1>0, <1>1, <1>4, <1>5, <1>6 DEF BeatInv, SteadyReports, Inj!Keys

\* A write under way is the reading's the machine sent last.
LEMMA WriteOfMachine ==
  ASSUME BeatInv, NEW b \in open, NEW m \in DOMAIN b.results, b.results[m].stored = "waiting"
  PROVE  LET k == <<b.source, m>>
             lines == b.results[m].lines
         IN  /\ k \in Inj!Keys /\ KeptOK(k) /\ ReportOK(k) /\ Linked(k, failed + 1)
             /\ latest[k] # Inj!Nothing /\ latest[k].stamp \in Nat
             /\ \A l \in lines : l.kind = "state" => l.at = latest[k].stamp /\ l.value \in {0, 1}
             /\ \/ Inj!HasState(lines)
                \/ lastState[k] # Inj!Nothing /\ latest[k].stamp - lastState[k].at < Heartbeat
<1> DEFINE k == <<b.source, m>>
<1>1. k \in Inj!Keys
  BY DEF BeatInv, WritesKnown
<1>2. k[1] = b.source /\ k[2] = m
  OBVIOUS
<1> HIDE DEF k
<1>3. Waiting(b, k) /\ BeatsOK(k)
  BY <1>1, <1>2 DEF Waiting, BeatInv
<1>4. WritingOK(k, b) /\ Linked(k, failed + 1) /\ KeptOK(k) /\ ReportOK(k)
  BY <1>3 DEF BeatsOK
<1>5. latest[k] # Inj!Nothing /\ latest[k].stamp \in Nat
  BY <1>3, <1>4 DEF WritingOK, ReportOK
<1>6. /\ \A l \in b.results[m].lines : l.kind = "state" => l.at = latest[k].stamp /\ l.value \in {0, 1}
      /\ \/ Inj!HasState(b.results[m].lines)
         \/ lastState[k] # Inj!Nothing /\ latest[k].stamp - lastState[k].at < Heartbeat
  BY <1>2, <1>3, <1>4 DEF WritingOK
<1> QED BY <1>1, <1>4, <1>5, <1>6 DEF k

\* The machines whose write has not ended are told as before.
LEMMA OthersWait ==
  ASSUME BeatInv, NEW b \in open, NEW m \in DOMAIN b.results, NEW c, AfterWrite(b, m, c),
         open' = {c}, UNCHANGED <<now, latest, sent>>, failed' = failed,
         NEW k \in Inj!Keys, k # <<b.source, m>>,
         lastState'[k] = lastState[k], series'[k] = series[k]
  PROVE  BeatsOK(k)'
<1>1. BeatsOK(k) /\ open = {b}
  BY DEF BeatInv, FormOK
<1>2. /\ KeptOK(k)' /\ StateOf(k)' = StateOf(k)
      /\ \A n, p : Linked(k, n) /\ p = n => Linked(k, p)'
  BY <1>1, SameMachine DEF BeatsOK
<1>3. ReportOK(k)'
  BY <1>1 DEF BeatsOK, ReportOK, Inj!Nothing, Inj!Never
<1>4. /\ Waiting(c, k) <=> Waiting(b, k)
      /\ Waiting(b, k) => c.results[k[2]] = b.results[k[2]]
      /\ c.at = b.at
  BY DEF AfterWrite
<1>5. WritingOK(k, c)'
  <2>1. WritingOK(k, b)
    BY <1>1 DEF BeatsOK
  <2>2. ASSUME Waiting(c, k)
        PROVE  /\ latest[k] # Inj!Nothing /\ c.at = latest[k].stamp /\ now <= c.at + 1
               /\ \A l \in c.results[k[2]].lines :
                    l.kind = "state" => l.at = latest[k].stamp /\ l.value \in {0, 1}
               /\ \/ Inj!HasState(c.results[k[2]].lines)
                  \/ lastState[k] # Inj!Nothing /\ latest[k].stamp - lastState[k].at < Heartbeat
    BY <1>4, <2>1, <2>2 DEF WritingOK
  <2> QED BY <2>2 DEF WritingOK, Waiting, Inj!Nothing, Inj!HasState
<1>6. /\ Waiting(b, k) => Linked(k, failed + 1)
      /\ ~Waiting(b, k) => Linked(k, failed)
  BY <1>1 DEF BeatsOK
<1>7. /\ Waiting(c, k) => Linked(k, failed + 1)'
      /\ ~Waiting(c, k) => Linked(k, failed)'
  BY <1>2, <1>4, <1>6 DEF Linked, Silence
<1>8. Waiting(c, k)' <=> Waiting(c, k)
  BY DEF Waiting
<1> QED BY <1>2, <1>3, <1>5, <1>7, <1>8 DEF BeatsOK

\* What is written still is of the catalogue, and the caches keep their form.
LEMMA WriteForm ==
  ASSUME BeatInv, NEW b \in open, NEW m \in DOMAIN b.results, NEW c, AfterWrite(b, m, c),
         open' = {c}, UNCHANGED <<now, latest, restarts, sent>>, failed' \in 0 .. MaxFailures,
         series' = [k \in Inj!Keys |-> series'[k]], lastState' = [k \in Inj!Keys |-> lastState'[k]],
         \A k \in Inj!Keys : series'[k] = [status |-> series'[k].status, state |-> series'[k].state,
                                           shot |-> series'[k].shot]
  PROVE  FormOK' /\ (\A d \in open : WritesKnown(d))' /\ SteadyReports'
         /\ (sent = [k \in Inj!Keys |-> sent[k]])'
<1>1. RequestForm(c) /\ open = {b}
  BY DEF AfterWrite, BeatInv, FormOK
<1>2. FormOK'
  <2>1. (\A d \in open : RequestForm(d))'
    BY <1>1 DEF RequestForm, ResultForm
  <2> QED BY <2>1 DEF BeatInv, FormOK, Inj!Keys
<1>3. WritesKnown(c)
  BY DEF BeatInv, AfterWrite, WritesKnown
<1>4. (\A d \in open : WritesKnown(d))'
  BY <1>3 DEF WritesKnown, Inj!Keys
<1>5. SteadyReports' /\ (sent = [k \in Inj!Keys |-> sent[k]])'
  BY DEF BeatInv, SteadyReports, Inj!Keys
<1> QED BY <1>2, <1>4, <1>5

\* Where a write may fail, there is one machine.
LEMMA OneMachine ==
  ASSUME SteadyReports, MaxFailures # 0, NEW k \in Inj!Keys, NEW j \in Inj!Keys
  PROVE  k = j
<1>1. PICK s, m : Feeds = {s} /\ Machines = {m}
  BY DEF SteadyReports
<1>2. k = <<s, m>> /\ j = <<s, m>>
  BY <1>1, KeyIsPair
<1> QED BY <1>2

LEMMA BeatIsWritten ==
  ASSUME BeatInv, NEW b \in open, NEW m \in DOMAIN b.results, Inj!WriteDone(b, m)
  PROVE  BeatInv'
<1> DEFINE k0 == <<b.source, m>>
           lines == b.results[m].lines
<1>0. /\ SteadyReports /\ FormOK /\ failed \in 0 .. MaxFailures
      /\ 0 \in 0 .. MaxFailures
      /\ b.results[m].stored = "waiting" /\ UNCHANGED <<now, latest, restarts, sent>>
      /\ failed' = 0 /\ series' = Inj!Stored(k0, lines) /\ Inj!Settle(b, m, "yes")
  <2>1. SteadyReports /\ FormOK
    BY DEF BeatInv
  <2>2. failed \in 0 .. MaxFailures /\ 0 \in 0 .. MaxFailures
    BY <2>1 DEF FormOK, SteadyReports
  <2>3. /\ b.results[m].stored = "waiting" /\ UNCHANGED <<now, latest, restarts, sent>>
        /\ failed' = 0 /\ series' = Inj!Stored(k0, lines) /\ Inj!Settle(b, m, "yes")
    BY DEF Inj!WriteDone
  <2> QED BY <2>1, <2>2, <2>3
<1>1. open = {b}
  BY <1>0, WriteSettles
<1>2. PICK c : open' = {c} /\ AfterWrite(b, m, c)
  BY <1>0, WriteSettles
<1>3. /\ k0 \in Inj!Keys /\ KeptOK(k0) /\ ReportOK(k0) /\ Linked(k0, failed + 1)
      /\ latest[k0] # Inj!Nothing /\ latest[k0].stamp \in Nat
      /\ \A l \in lines : l.kind = "state" => l.at = latest[k0].stamp /\ l.value \in {0, 1}
      /\ \/ Inj!HasState(lines)
         \/ lastState[k0] # Inj!Nothing /\ latest[k0].stamp - lastState[k0].at < Heartbeat
  BY <1>0, WriteOfMachine
<1>4. /\ series' = [k \in Inj!Keys |-> series'[k]]
      /\ \A k \in Inj!Keys :
           /\ series'[k] = [status |-> series'[k].status, state |-> series'[k].state,
                            shot |-> series'[k].shot]
           /\ k # k0 => series'[k] = series[k]
      /\ series'[k0].state = Inj!Put(StateOf(k0), lines, "state")
  BY <1>0, <1>3, SeriesStored
<1>5. /\ lastState' = [k \in Inj!Keys |-> lastState'[k]]
      /\ \A k \in Inj!Keys : k # k0 => lastState'[k] = lastState[k]
      /\ ~Inj!HasState(lines) => lastState' = lastState
      /\ Inj!HasState(lines) => lastState'[k0] # Inj!Nothing /\ lastState'[k0].at = latest[k0].stamp
  <2>1. CASE ~Inj!HasState(lines)
    BY <1>0, <2>1 DEF Inj!WriteDone, FormOK
  <2>2. CASE Inj!HasState(lines)
    <3>1. PICK l \in lines : /\ l.kind = "state"
                             /\ lastState' = [lastState EXCEPT ![k0] = [value |-> l.value, at |-> l.at]]
      BY <2>2 DEF Inj!WriteDone, Inj!RememberState
    <3> DEFINE memory == [value |-> l.value, at |-> l.at]
    <3>2. memory.at = latest[k0].stamp /\ memory # Inj!Nothing
      <4>1. l.at = latest[k0].stamp
        BY <1>3, <3>1
      <4>2. "at" \in DOMAIN memory /\ "at" \notin DOMAIN Inj!Nothing
        BY DEF Inj!Nothing
      <4> QED BY <4>1, <4>2
    <3> HIDE DEF memory
    <3>3. lastState = [k \in Inj!Keys |-> lastState[k]] /\ lastState' = [lastState EXCEPT ![k0] = memory]
      BY <1>0, <3>1 DEF FormOK, memory
    <3>4. lastState'[k0] = memory
      BY <1>3, <3>3
    <3>5. /\ lastState' = [k \in Inj!Keys |-> lastState'[k]]
          /\ \A k \in Inj!Keys : k # k0 => lastState'[k] = lastState[k]
      BY <3>3
    <3> QED BY <2>2, <3>2, <3>4, <3>5
  <2> QED BY <2>1, <2>2
<1>6. FormOK' /\ (\A d \in open : WritesKnown(d))' /\ SteadyReports'
      /\ (sent = [k \in Inj!Keys |-> sent[k]])'
  BY <1>0, <1>2, <1>4, <1>5, WriteForm
<1> HIDE DEF lines
<1>7. BeatsOK(k0)'
  <2> DEFINE stamp == latest[k0].stamp
  <2>1. /\ DOMAIN StateOf(k0)' = IF Inj!HasState(lines) THEN DOMAIN StateOf(k0) \cup {stamp}
                                 ELSE DOMAIN StateOf(k0)
        /\ IsFiniteSet(DOMAIN StateOf(k0)')
        /\ \A t \in DOMAIN StateOf(k0)' :
             t \in Nat /\ StateOf(k0)'[t] \in {0, 1} /\ t <= stamp
    BY <1>0, <1>3, <1>4, StatePut
  <2>2. (lastState[k0] # Inj!Nothing)' => (lastState[k0].at \in DOMAIN StateOf(k0))'
    BY <1>3, <1>5, <2>1 DEF KeptOK, Inj!Nothing
  <2>3. KeptOK(k0)'
    BY <1>0, <1>3, <2>1, <2>2 DEF KeptOK, Inj!Nothing
  <2>4. ReportOK(k0)'
    BY <1>0, <1>3 DEF ReportOK, Inj!Nothing, Inj!Never
  <2>5. ~Waiting(c, k0)'
    BY <1>2 DEF AfterWrite, Waiting
  <2>6. WritingOK(k0, c)'
    BY <2>5 DEF WritingOK
  <2>7. Linked(k0, failed)'
    <3>1. CASE Inj!HasState(lines)
      <4>1. Linked(k0, 0)'
        BY <1>0, <1>3, <2>1, <3>1, PointFollows
      <4> QED BY <1>0, <4>1 DEF Linked, Silence
    <3>2. CASE ~Inj!HasState(lines)
      <4> DEFINE at == lastState[k0].at
                 dom == DOMAIN StateOf(k0)
      <4>1. /\ at \in dom /\ stamp - at < Heartbeat /\ stamp \in Nat
            /\ \A t \in dom : t \in Nat /\ t <= stamp
            /\ \A t \in dom : \/ \E u \in dom : t < u /\ u <= t + Gap
                              \/ stamp <= t + Silence(failed + 1)
        BY <1>3, <3>2 DEF KeptOK, Linked
      <4>2. /\ Silence(failed + 1) \in Nat /\ Silence(failed + 1) + 1 < Gap
            /\ Silence(0) = Heartbeat - 1
        BY <1>0, SilenceFits
      <4>3. Gap \in Nat /\ Heartbeat \in Nat
        BY <1>0 DEF SteadyReports
      <4> HIDE DEF at, dom, stamp
      <4>4. ASSUME NEW t \in dom, stamp <= t + Silence(failed + 1)
            PROVE  \/ \E u \in dom : t < u /\ u <= t + Gap
                   \/ stamp <= t + Silence(0)
        <5>1. CASE t < at
          <6>1. at \in dom /\ t < at /\ at <= t + Gap
            BY <4>1, <4>2, <4>3, <4>4, <5>1
          <6> QED BY <6>1
        <5>2. CASE ~(t < at)
          BY <4>1, <4>2, <4>3, <5>2
        <5> QED BY <5>1, <5>2
      <4>5. \A t \in dom : \/ \E u \in dom : t < u /\ u <= t + Gap
                           \/ stamp <= t + Silence(0)
        BY <4>1, <4>4
      <4>6. DOMAIN StateOf(k0)' = dom /\ (latest[k0].stamp)' = stamp
        BY <1>0, <2>1, <3>2 DEF dom, stamp
      <4> QED BY <1>0, <4>5, <4>6 DEF Linked, Silence
    <3> QED BY <3>1, <3>2
  <2>8. ~(\E d \in open : Waiting(d, k0))' /\ (\A d \in open : WritingOK(k0, d))'
    BY <1>2, <2>5, <2>6
  <2> QED BY <2>3, <2>4, <2>7, <2>8 DEF BeatsOK
<1>8. ASSUME NEW k \in Inj!Keys, k # k0 PROVE BeatsOK(k)'
  <2>1. failed' = failed
    BY <1>0, <1>3, <1>8, OneMachine
  <2> QED BY <1>0, <1>2, <1>4, <1>5, <1>8, <2>1, OthersWait
<1>9. \A k \in Inj!Keys : BeatsOK(k)'
  BY <1>7, <1>8
<1> QED BY <1>6, <1>9 DEF BeatInv, Inj!Keys

\* A write that fails costs one of the failures there may be; what it left is of use.
LEMMA BeatFails ==
  ASSUME BeatInv, NEW b \in open, NEW m \in DOMAIN b.results, NEW kept \in BOOLEAN,
         Inj!WriteFails(b, m, kept)
  PROVE  BeatInv'
<1> DEFINE k0 == <<b.source, m>>
           lines == b.results[m].lines
<1>0. /\ SteadyReports /\ FormOK /\ failed \in 0 .. MaxFailures
      /\ b.results[m].stored = "waiting"
      /\ UNCHANGED <<now, latest, restarts, sent, lastState>>
      /\ Inj!Settle(b, m, "no")
      /\ series' = IF kept THEN Inj!Stored(k0, lines) ELSE series
  <2>1. SteadyReports /\ FormOK
    BY DEF BeatInv
  <2>2. failed \in 0 .. MaxFailures
    BY <2>1 DEF FormOK
  <2>3. /\ b.results[m].stored = "waiting"
        /\ UNCHANGED <<now, latest, restarts, sent, lastState>>
        /\ Inj!Settle(b, m, "no")
        /\ series' = IF kept THEN Inj!Stored(k0, lines) ELSE series
    BY DEF Inj!WriteFails, Inj!Fails
  <2> QED BY <2>1, <2>2, <2>3
<1>1. MaxFailures \in Nat /\ MaxFailures # 0 /\ failed' = failed + 1 /\ failed' \in 0 .. MaxFailures
  BY <1>0 DEF Inj!WriteFails, Inj!Fails, SteadyReports
<1>2. PICK c : open' = {c} /\ AfterWrite(b, m, c)
  BY <1>0, WriteSettles
<1>3. /\ k0 \in Inj!Keys /\ KeptOK(k0) /\ ReportOK(k0) /\ Linked(k0, failed + 1)
      /\ latest[k0] # Inj!Nothing /\ latest[k0].stamp \in Nat
      /\ \A l \in lines : l.kind = "state" => l.at = latest[k0].stamp /\ l.value \in {0, 1}
  BY <1>0, WriteOfMachine
<1>4. /\ series' = [k \in Inj!Keys |-> series'[k]]
      /\ \A k \in Inj!Keys :
           series'[k] = [status |-> series'[k].status, state |-> series'[k].state,
                         shot |-> series'[k].shot]
      /\ kept => series'[k0].state = Inj!Put(StateOf(k0), lines, "state")
      /\ ~kept => series' = series
  <2>1. CASE kept
    <3>1. series' = Inj!Stored(k0, lines)
      BY <1>0, <2>1
    <3> QED BY <1>0, <1>3, <2>1, <3>1, SeriesStored
  <2>2. CASE ~kept
    BY <1>0, <2>2 DEF FormOK
  <2> QED BY <2>1, <2>2
<1>5. lastState' = [k \in Inj!Keys |-> lastState'[k]]
  BY <1>0 DEF FormOK
<1>6. FormOK' /\ (\A d \in open : WritesKnown(d))' /\ SteadyReports'
      /\ (sent = [k \in Inj!Keys |-> sent[k]])'
  BY <1>0, <1>1, <1>2, <1>4, <1>5, WriteForm
<1> HIDE DEF lines
<1>7. BeatsOK(k0)'
  <2> DEFINE stamp == latest[k0].stamp
             dom == DOMAIN StateOf(k0)
  <2>1. /\ DOMAIN StateOf(k0)' = dom \/ DOMAIN StateOf(k0)' = dom \cup {stamp}
        /\ IsFiniteSet(DOMAIN StateOf(k0)')
        /\ \A t \in DOMAIN StateOf(k0)' :
             t \in Nat /\ StateOf(k0)'[t] \in {0, 1} /\ t <= stamp
    <3>1. CASE kept
      <4>1. series'[k0].state = Inj!Put(StateOf(k0), lines, "state")
        BY <1>4, <3>1
      <4>2. /\ DOMAIN StateOf(k0)' = IF Inj!HasState(lines) THEN dom \cup {stamp} ELSE dom
            /\ IsFiniteSet(DOMAIN StateOf(k0)')
            /\ \A t \in DOMAIN StateOf(k0)' :
                 t \in Nat /\ StateOf(k0)'[t] \in {0, 1} /\ t <= stamp
        BY <1>0, <1>3, <4>1, StatePut
      <4> QED BY <4>2
    <3>2. CASE ~kept
      <4>1. StateOf(k0)' = StateOf(k0)
        BY <1>4, <3>2 DEF StateOf
      <4> QED BY <1>3, <4>1 DEF KeptOK
    <3> QED BY <3>1, <3>2
  <2>2. KeptOK(k0)'
    BY <1>0, <1>3, <2>1 DEF KeptOK, Inj!Nothing
  <2>3. ReportOK(k0)'
    BY <1>0, <1>3 DEF ReportOK, Inj!Nothing, Inj!Never
  <2>4. ~Waiting(c, k0)'
    BY <1>2 DEF AfterWrite, Waiting
  <2>5. WritingOK(k0, c)'
    BY <2>4 DEF WritingOK
  <2>6. \A t \in dom \cup {stamp} :
          \/ \E u \in dom : t < u /\ u <= t + Gap
          \/ stamp <= t + Silence(failed + 1)
    <3>1. Silence(failed + 1) \in Nat /\ stamp \in Nat
      BY <1>0, <1>3, SilenceFits
    <3>2. stamp <= stamp + Silence(failed + 1)
      BY <3>1
    <3>3. \A t \in dom : \/ \E u \in dom : t < u /\ u <= t + Gap
                         \/ stamp <= t + Silence(failed + 1)
      BY <1>3 DEF Linked
    <3> HIDE DEF dom, stamp
    <3> QED BY <3>2, <3>3
  <2>7. Linked(k0, failed)'
    <3>1. (latest[k0].stamp)' = stamp /\ dom \subseteq DOMAIN StateOf(k0)'
          /\ DOMAIN StateOf(k0)' \subseteq dom \cup {stamp}
      BY <1>0, <2>1
    <3> HIDE DEF dom, stamp
    <3> QED BY <1>1, <2>6, <3>1 DEF Linked, Silence
  <2>8. ~(\E d \in open : Waiting(d, k0))' /\ (\A d \in open : WritingOK(k0, d))'
    BY <1>2, <2>4, <2>5
  <2> QED BY <2>2, <2>3, <2>7, <2>8 DEF BeatsOK
<1>8. \A k \in Inj!Keys : k = k0
  BY <1>0, <1>1, <1>3, OneMachine
<1>9. \A k \in Inj!Keys : BeatsOK(k)'
  BY <1>7, <1>8
<1> QED BY <1>6, <1>9 DEF BeatInv, Inj!Keys

\* The answer and the clock leave what is stored; a request is answered before it is old.
LEMMA OthersBeat ==
  ASSUME BeatInv, \/ \E b \in open : Inj!Answer(b)
                  \/ Inj!Tick \/ Inj!Restart \/ UNCHANGED Inj!vars
  PROVE  BeatInv'
<1>0. SteadyReports /\ FormOK /\ now \in Nat /\ Period \in Nat \ {0}
  BY DEF BeatInv, FormOK, SteadyReports
<1>1. /\ UNCHANGED <<latest, lastState, series, failed, restarts, sent>>
      /\ \/ open' = open /\ now' = now
         \/ open' = {} /\ now' = now /\ \A b \in open : Inj!Settled(b)
         \/ Inj!Tick /\ open' = open
  <2>1. ASSUME NEW b \in open, Inj!Answer(b)
        PROVE  /\ UNCHANGED <<latest, lastState, series, failed, restarts, sent, now>>
               /\ open' = {} /\ Inj!Settled(b) /\ open = {b}
    BY <1>0, <2>1 DEF Inj!Answer, FormOK
  <2>2. CASE Inj!Tick
    BY <2>2 DEF Inj!Tick
  <2>3. ~Inj!Restart
    BY <1>0 DEF Inj!Restart, SteadyReports, FormOK
  <2>4. CASE UNCHANGED Inj!vars
    BY <2>4 DEF Inj!vars
  <2> QED BY <2>1, <2>2, <2>3, <2>4
<1>2. now' \in Nat
  BY <1>0, <1>1 DEF Inj!Tick
<1>3. FormOK' /\ SteadyReports' /\ (sent = [k \in Inj!Keys |-> sent[k]])'
      /\ (\A b \in open : WritesKnown(b))'
  <2>1. open' = open \/ open' = {}
    BY <1>1
  <2>2. (\A b \in open : RequestForm(b))' /\ (\A b \in open : WritesKnown(b))'
    BY <1>0, <2>1 DEF BeatInv, FormOK, RequestForm, ResultForm, WritesKnown, Inj!Keys
  <2>3. (\A k \in Inj!Keys : series[k] = [status |-> series[k].status, state |-> series[k].state,
                                      shot |-> series[k].shot])'
    BY <1>0, <1>1 DEF FormOK, Inj!Keys
  <2>4. (open = {} \/ \E b \in open : open = {b})'
    BY <1>0, <2>1 DEF FormOK
  <2>5. FormOK'
    BY <1>0, <1>1, <1>2, <2>2, <2>3, <2>4 DEF FormOK, Inj!Keys
  <2> QED BY <1>0, <1>1, <2>2, <2>5 DEF BeatInv, SteadyReports, Inj!Keys
<1>4. ASSUME NEW k \in Inj!Keys PROVE BeatsOK(k)'
  <2>1. BeatsOK(k) /\ KeptOK(k)
    BY DEF BeatInv, BeatsOK
  <2>2. /\ KeptOK(k)' /\ \A n, p : Linked(k, n) /\ p = n => Linked(k, p)'
    BY <1>1, <2>1, SameMachine
  <2>3. ReportOK(k)'
    <3>1. CASE latest[k] = Inj!Nothing
      BY <1>1, <2>1, <3>1 DEF BeatsOK, ReportOK, Inj!Nothing, Inj!Never
    <3>2. CASE latest[k] # Inj!Nothing
      <4>1. /\ latest[k].stamp \in Nat /\ sent[k].at = latest[k].stamp
            /\ sent[k].count >= 1 /\ sent[k].count \in Nat
            /\ latest[k].stamp <= now /\ now <= latest[k].stamp + Period
        BY <2>1, <3>2 DEF BeatsOK, ReportOK
      <4>2. Inj!Tick => now' = now + 1 /\ now - sent[k].at < Period
        <5>1. Inj!Reporting(k)
          BY <4>1 DEF Inj!Reporting, Inj!Never
        <5> QED BY <5>1 DEF Inj!Tick
      <4>3. latest[k].stamp <= now' /\ now' <= latest[k].stamp + Period
        <5>1. CASE Inj!Tick
          <6>1. now' = now + 1 /\ now - latest[k].stamp < Period
            BY <4>1, <4>2, <5>1
          <6> QED BY <1>0, <4>1, <6>1
        <5>2. CASE now' = now
          BY <4>1, <5>2
        <5> QED BY <1>1, <5>1, <5>2
      <4> QED BY <1>1, <3>2, <4>1, <4>3 DEF ReportOK, Inj!Nothing, Inj!Never
    <3> QED BY <3>1, <3>2
  <2>4. \A b \in open : Waiting(b, k)' <=> Waiting(b, k)
    BY DEF Waiting
  <2>5. ASSUME NEW b \in open, open' = open PROVE WritingOK(k, b)'
    <3>1. WritingOK(k, b)
      BY <2>1 DEF BeatsOK
    <3>2. ASSUME Waiting(b, k) PROVE now' <= b.at + 1
      <4>1. now <= b.at + 1
        BY <3>1, <3>2 DEF WritingOK
      <4>2. Inj!Tick => now' = now + 1 /\ b.at = now
        BY DEF Inj!Tick
      <4>3. now' = now \/ Inj!Tick
        BY <1>1
      <4>4. CASE now' = now
        BY <4>1, <4>4
      <4>5. CASE Inj!Tick
        <5>1. now' = now + 1 /\ b.at = now
          BY <4>2, <4>5
        <5>2. now + 1 <= now + 1
          BY <1>0
        <5> QED BY <5>1, <5>2
      <4> QED BY <4>3, <4>4, <4>5
    <3> QED BY <1>1, <3>1, <3>2 DEF WritingOK, Waiting, Inj!Nothing, Inj!HasState
  <2>6. CASE open' = open
    <3>1. /\ (\E b \in open : Waiting(b, k)) => Linked(k, failed + 1)
          /\ (\A b \in open : ~Waiting(b, k)) => Linked(k, failed)
      BY <2>1 DEF BeatsOK
    <3>2. /\ (\E b \in open : Waiting(b, k)) => Linked(k, failed + 1)'
          /\ (\A b \in open : ~Waiting(b, k)) => Linked(k, failed)'
      BY <1>1, <2>2, <3>1 DEF Linked, Silence
    <3>3. (\A b \in open : WritingOK(k, b))'
      BY <2>5, <2>6
    <3> QED BY <2>2, <2>3, <2>4, <2>6, <3>2, <3>3 DEF BeatsOK
  <2>7. CASE open' = {} /\ \A b \in open : Inj!Settled(b)
    <3>1. \A b \in open : ~Waiting(b, k)
      BY <2>7 DEF Inj!Settled, Waiting
    <3>2. Linked(k, failed)
      BY <2>1, <3>1 DEF BeatsOK
    <3>3. Linked(k, failed)'
      BY <1>1, <2>2, <3>2 DEF Linked, Silence
    <3> QED BY <2>2, <2>3, <2>7, <3>3 DEF BeatsOK
  <2> QED BY <1>1, <2>6, <2>7
<1>5. \A k \in Inj!Keys : BeatsOK(k)'
  BY <1>4
<1> QED BY <1>3, <1>5 DEF BeatInv, Inj!Keys

LEMMA BeatStarts == SteadyReports /\ Inj!Init => BeatInv
<1> SUFFICES ASSUME SteadyReports, Inj!Init PROVE BeatInv
  OBVIOUS
<1>1. /\ now = 0 /\ failed = 0 /\ restarts = 0 /\ open = {}
      /\ latest = [k \in Inj!Keys |-> Inj!Nothing] /\ lastState = [k \in Inj!Keys |-> Inj!Nothing]
      /\ series = [k \in Inj!Keys |-> [status |-> <<>>, state |-> <<>>, shot |-> <<>>]]
      /\ sent = [k \in Inj!Keys |-> [at |-> Inj!Never, count |-> 0]]
  BY DEF Inj!Init
<1>2. FormOK
  BY <1>1 DEF FormOK, SteadyReports
<1>3. ASSUME NEW k \in Inj!Keys PROVE BeatsOK(k)
  <2>1. /\ StateOf(k) = <<>> /\ latest[k] = Inj!Nothing /\ lastState[k] = Inj!Nothing
        /\ sent[k].at = Inj!Never /\ sent[k].count = 0
    BY <1>1 DEF StateOf
  <2>2. DOMAIN <<>> = {}
    OBVIOUS
  <2>3. IsFiniteSet(DOMAIN StateOf(k)) /\ DOMAIN StateOf(k) = {}
    BY <2>1, <2>2, FS_EmptySet
  <2> QED BY <1>1, <2>1, <2>3 DEF BeatsOK, KeptOK, ReportOK, Linked
<1> QED BY <1>1, <1>2, <1>3 DEF BeatInv

LEMMA BeatStep == BeatInv /\ [Inj!Next]_(Inj!vars) => BeatInv'
BY BeatComes, BeatIsWritten, BeatFails, OthersBeat DEF Inj!Next

\* No segment of a line ends after it.
LEMMA SegmentsEnd ==
  ASSUME NEW segments, NEW points, NEW start \in Int, NEW to \in Int,
         Tells(segments, points, start, to), NEW i \in 1 .. Len(segments)
  PROVE  segments[i].end <= to
<1> DEFINE n == Len(segments)
           S == {d \in Nat : d < n => segments[n - d].end <= to}
<1>0. /\ n \in Nat /\ \A j \in 1 .. n : segments[j] \in Segments
      /\ n > 0 => segments[n].end = to
      /\ \A j \in 1 .. n : SegmentTells(segments, j, points, start)
  BY DEF Tells
<1>1. 0 \in S
  BY <1>0
<1>2. ASSUME NEW d \in S PROVE d + 1 \in S
  <2>1. SUFFICES ASSUME d + 1 < n PROVE segments[n - (d + 1)].end <= to
    OBVIOUS
  <2> DEFINE j == n - d
  <2>2. /\ j \in 1 .. n /\ j - 1 \in 1 .. n /\ j # 1 /\ n - (d + 1) = j - 1
        /\ segments[j].end <= to
    BY <1>0, <2>1
  <2> HIDE DEF j
  <2>3. /\ segments[j].start = segments[j - 1].end /\ segments[j].start < segments[j].end
        /\ segments[j].end \in Int /\ segments[j - 1].end \in Int
    BY <1>0, <2>2 DEF SegmentTells, Segments
  <2> QED BY <2>2, <2>3
<1>3. S \in SUBSET Nat
  OBVIOUS
<1>4. n - i \in Nat /\ n - i < n /\ n - (n - i) = i
  BY <1>0
<1> HIDE DEF S
<1>5. n - i \in S
  BY <1>1, <1>2, <1>3, <1>4, NoLeastFailure
<1> QED BY <1>4, <1>5 DEF S

\* A grey segment after the first begins where the newest point heard is Gap old.
LEMMA HoleIsLate ==
  ASSUME Gap \in Nat \ {0}, now \in Nat, NEW points, NEW segments,
         Apart(points), Tells(segments, points, -Gap, now + 1),
         NEW i \in 2 .. Len(segments), segments[i].state = "unknown"
  PROVE  \E t \in Int : \E p \in points :
           /\ t <= now /\ p.value \in {0, 1} /\ t - p.at >= Gap
           /\ \A q \in points : q.at \in -Gap .. t /\ q.value \in {0, 1} => q.at <= p.at
<1> DEFINE s == segments[i]
           r == segments[i - 1]
           t == s.start
           H == Line!Heard(points, -Gap, t)
           G == Line!Heard(points, -Gap, t - 1)
           chosen == CHOOSE p \in H : \A q \in H : q.at <= p.at
<1>1. i \in 1 .. Len(segments) /\ i - 1 \in 1 .. Len(segments) /\ i # 1 /\ i > 1
  BY DEF Tells
<1>2. /\ s \in Segments /\ r \in Segments
      /\ t = r.end /\ t < s.end /\ s.state # r.state /\ r.start < r.end
      /\ \A u \in t .. s.end - 1 : s.state = Line!ColourAt(points, -Gap, u)
      /\ \A u \in r.start .. r.end - 1 : r.state = Line!ColourAt(points, -Gap, u)
  BY <1>1 DEF Tells, SegmentTells
<1>3. s.end <= now + 1
  <2>1. -Gap \in Int /\ now + 1 \in Int
    OBVIOUS
  <2> QED BY <1>1, <2>1, SegmentsEnd
<1>4. t \in Int /\ s.end \in Int /\ r.start \in Int /\ t <= now
  <2>1. t \in Int /\ s.end \in Int /\ r.start \in Int
    BY <1>2 DEF Segments
  <2> HIDE DEF s, r, t
  <2> QED BY <1>2, <1>3, <2>1
<1>5. t \in t .. s.end - 1 /\ t - 1 \in r.start .. r.end - 1
  <2> HIDE DEF s, r, t
  <2> QED BY <1>2, <1>4
<1>6. Line!ColourAt(points, -Gap, t) = "unknown" /\ Line!ColourAt(points, -Gap, t - 1) # "unknown"
  BY <1>2, <1>5
<1> HIDE DEF s, r, t
<1>7. G # {}
  BY <1>6 DEF Line!ColourAt
<1>8. G \subseteq H
  BY <1>4 DEF Line!Heard
<1>9. chosen \in H /\ \A q \in H : q.at <= chosen.at
  <2>1. H \in SUBSET points
    BY DEF Line!Heard
  <2>2. Apart(H)
    BY <2>1, FS_Subset DEF Apart
  <2>3. \E p \in H : \A q \in H : q.at <= p.at
    BY <1>7, <1>8, <2>2, LastReading
  <2> QED BY <2>3
<1>10. Line!ColourAt(points, -Gap, t) =
         IF H = {} THEN "unknown"
         ELSE IF t - chosen.at >= Gap THEN "unknown" ELSE Line!Colour(chosen.value)
  BY DEF Line!ColourAt
<1>11. Line!Colour(chosen.value) # "unknown"
  BY DEF Line!Colour
<1> HIDE DEF chosen
<1>12. t - chosen.at >= Gap
  BY <1>6, <1>9, <1>10, <1>11
<1>13. chosen \in points /\ chosen.value \in {0, 1}
       /\ \A q \in points : q.at \in -Gap .. t /\ q.value \in {0, 1} => q.at <= chosen.at
  BY <1>9 DEF Line!Heard
<1> QED BY <1>4, <1>12, <1>13

\* For any machines and senders, beats and retries that fit in Gap: while readings keep
\* coming, a machine's line shows no grey hole after its first point, however the writes
\* that fail are placed and whether their points are there (record,
\* injection-history.service.ts 25-90; receive, injection-machines.service.ts 155-305).
THEOREM LineHasNoHole ==
  SteadyReports => (Inj!Spec => []Inj!NoHoleWhileReporting)
<1>1. BeatInv => Inj!NoHoleWhileReporting
  <2>1. ASSUME BeatInv, NEW k \in Inj!Keys, NEW i \in 2 .. Len(Inj!Line(k)),
               Inj!Line(k)[i].state = "unknown"
        PROVE  FALSE
    <3>0. /\ SteadyReports /\ BeatsOK(k) /\ KeptOK(k) /\ ReportOK(k) /\ now \in Nat
          /\ failed \in 0 .. MaxFailures
      BY <2>1 DEF BeatInv, BeatsOK, FormOK
    <3>1. Gap \in Nat \ {0} /\ Period \in Nat \ {0}
      BY <3>0 DEF SteadyReports
    <3>2. /\ \A p \in Inj!Points(k) : p.at \in DOMAIN StateOf(k) /\ p.value = StateOf(k)[p.at]
          /\ \A t \in DOMAIN StateOf(k) : [at |-> t, value |-> StateOf(k)[t]] \in Inj!Points(k)
          /\ Apart(Inj!Points(k))
          /\ Tells(Inj!Line(k), Inj!Points(k), -Gap, now + 1)
      <4>1. IsFiniteSet(DOMAIN StateOf(k)) /\ DOMAIN StateOf(k) \subseteq Int
        BY <3>0 DEF KeptOK
      <4> QED BY <3>0, <3>1, <4>1, MachineLine
    <3>3. PICK t \in Int : \E p \in Inj!Points(k) :
            /\ t <= now /\ p.value \in {0, 1} /\ t - p.at >= Gap
            /\ \A q \in Inj!Points(k) : q.at \in -Gap .. t /\ q.value \in {0, 1} => q.at <= p.at
      BY <2>1, <3>0, <3>1, <3>2, HoleIsLate
    <3>4. PICK p \in Inj!Points(k) :
            /\ t <= now /\ p.value \in {0, 1} /\ t - p.at >= Gap
            /\ \A q \in Inj!Points(k) : q.at \in -Gap .. t /\ q.value \in {0, 1} => q.at <= p.at
      BY <3>3
    <3> DEFINE at == p.at
               stamp == latest[k].stamp
    <3>5. at \in DOMAIN StateOf(k) /\ at \in Nat /\ t - at >= Gap
      BY <3>0, <3>2, <3>4 DEF KeptOK
    <3>6. ASSUME NEW u \in DOMAIN StateOf(k), at < u, u <= at + Gap PROVE FALSE
      <4>1. u \in Nat /\ StateOf(k)[u] \in {0, 1}
        BY <3>0 DEF KeptOK
      <4> DEFINE q == [at |-> u, value |-> StateOf(k)[u]]
      <4>2. q \in Inj!Points(k) /\ q.at = u /\ q.value \in {0, 1}
        BY <3>2, <4>1
      <4>3. u \in -Gap .. t
        BY <3>1, <3>5, <3>6, <4>1
      <4> HIDE DEF q
      <4>4. u <= at
        BY <3>4, <4>2, <4>3
      <4> QED BY <3>5, <3>6, <4>1, <4>4
    <3>7. latest[k] # Inj!Nothing /\ stamp \in Nat /\ now <= stamp + Period
      BY <3>0, <3>5 DEF KeptOK, ReportOK
    <3>8. /\ Silence(failed) \in Nat /\ Silence(failed + 1) \in Nat
          /\ Silence(failed + 1) = Silence(failed) + Period /\ Silence(failed + 1) + 1 < Gap
      BY <3>0, SilenceFits
    <3> HIDE DEF at, stamp
    <3>9. CASE \E b \in open : Waiting(b, k)
      <4>1. PICK b \in open : Waiting(b, k)
        BY <3>9
      <4>2. WritingOK(k, b) /\ Linked(k, failed + 1)
        BY <3>0, <4>1 DEF BeatsOK
      <4>3. now <= stamp + 1
        BY <4>1, <4>2 DEF WritingOK, stamp
      <4>4. stamp <= at + Silence(failed + 1)
        BY <3>5, <3>6, <4>2 DEF Linked, stamp
      <4> QED BY <3>0, <3>1, <3>4, <3>5, <3>7, <3>8, <4>3, <4>4
    <3>10. CASE \A b \in open : ~Waiting(b, k)
      <4>1. Linked(k, failed)
        BY <3>0, <3>10 DEF BeatsOK
      <4>2. stamp <= at + Silence(failed)
        BY <3>5, <3>6, <4>1 DEF Linked, stamp
      <4> QED BY <3>0, <3>1, <3>4, <3>5, <3>7, <3>8, <4>2
    <3> QED BY <3>9, <3>10
  <2> QED BY <2>1 DEF Inj!NoHoleWhileReporting
<1> QED BY <1>1, BeatStarts, BeatStep, PTL DEF Inj!Spec

-----------------------------------------------------------------------------
(***************************************************************************)
(* The pages of the shots of a machine (CmsShots).                         *)
(***************************************************************************)
CONSTANTS Files, NoFile, PageSize, ReadLimit, MaxCopies, MaxRows, MaxChanges
VARIABLES table, current, changes, failures, key, pages, fetching

Cms == INSTANCE CmsShots

CmsFiles == Files \cup {NoFile}
CmsRows == [file : Files, number : Nat]
CmsPages == [status : {"NO_DATA", "AVAILABLE", "NO_CURRENT_FILE", "UNAVAILABLE"}, file : CmsFiles,
             rows : SUBSET (Nat \ {0}), next : Nat, upto : Nat]
CmsFetches == [file : CmsFiles, built : Seq(CmsPages), want : Nat]

(* The cursor of a page is its last row.                                    *)
CursorOK(page) ==
  page.next # Cms!None => page.next \in page.rows /\ \A i \in page.rows : page.next <= i

(* A list goes down the table: what follows a page lies below its cursor.   *)
Descends(list) ==
  /\ \A p \in DOMAIN list : CursorOK(list[p])
  /\ \A p, q \in DOMAIN list : p < q =>
       list[p].next # Cms!None /\ \A i \in list[q].rows : i < list[p].next

(* The lists kept, and the one a reading builds: it reads on only where the *)
(* last page gave a cursor.                                                 *)
FetchOK ==
  /\ fetching \in CmsFetches
  /\ Descends(fetching.built)
  /\ fetching.built # <<>> => fetching.built[Len(fetching.built)].next # Cms!None
CmsInv ==
  /\ Cms!PageAssumption
  /\ table \in Seq(CmsRows) /\ key \in CmsFiles /\ current \in CmsFiles
  /\ pages \in [CmsFiles -> Seq(CmsPages)]
  /\ \A f \in CmsFiles : Descends(pages[f])
  /\ fetching # Cms!NoFetch => FetchOK

(* The least of a set of rows is one of them.                               *)
LEMMA LeastRow ==
  ASSUME NEW S, S \subseteq Nat, S # {}
  PROVE  Cms!Min(S) \in S /\ \A i \in S : Cms!Min(S) <= i
<1>1. PICK m \in S : \A i \in S : ~ <<i, m>> \in OpToRel(<, Nat)
  BY NatLessThanWellFounded, WFMin
<1>2. ASSUME NEW i \in S PROVE m <= i
  <2>1. <<i, m>> \in Nat \X Nat
    OBVIOUS
  <2>2. ~ (i < m)
    BY <1>1, <1>2, <2>1 DEF OpToRel
  <2> QED BY <2>2
<1> QED BY <1>2 DEF Cms!Min

(* A page that follows the last one of a list keeps it descending: its rows *)
(* lie below the last cursor, which lies below the earlier ones.            *)
LEMMA AppendDescends ==
  ASSUME NEW list \in Seq(CmsPages), Descends(list), NEW page \in CmsPages, CursorOK(page),
         list # <<>> => /\ list[Len(list)].next # Cms!None
                        /\ \A i \in page.rows : i < list[Len(list)].next
  PROVE  Descends(Append(list, page))
<1> DEFINE n == Len(list)
           longer == Append(list, page)
<1>1. /\ n \in Nat /\ DOMAIN list = 1 .. n /\ DOMAIN longer = 1 .. (n + 1)
      /\ longer[n + 1] = page /\ \A p \in 1 .. n : longer[p] = list[p] /\ list[p] \in CmsPages
  OBVIOUS
<1> HIDE DEF n, longer
<1>2. \A p \in DOMAIN longer : CursorOK(longer[p])
  <2>1. \A p \in 1 .. n : CursorOK(list[p])
    BY <1>1 DEF Descends
  <2>2. \A p \in 1 .. (n + 1) : p \in 1 .. n \/ p = n + 1
    BY <1>1
  <2> QED BY <1>1, <2>1, <2>2
<1>3. ASSUME NEW p \in 1 .. n
      PROVE  list[p].next # Cms!None /\ \A i \in page.rows : i < list[p].next
  <2>1. n \in 1 .. n /\ list # <<>>
    BY <1>1, <1>3
  <2>2. /\ list[n].next # Cms!None /\ \A i \in page.rows : i < list[n].next
    BY <2>1 DEF n
  <2>3. CASE p = n
    BY <2>2, <2>3
  <2>4. CASE p < n
    <3>1. list[p].next # Cms!None /\ \A i \in list[n].rows : i < list[p].next
      BY <1>1, <2>1, <2>4 DEF Descends
    <3>2. list[n].next \in list[n].rows
      BY <1>1, <2>1, <2>2 DEF Descends, CursorOK
    <3>3. list[n].next < list[p].next
      BY <3>1, <3>2
    <3>4. list[n].next \in Nat /\ list[p].next \in Nat /\ page.rows \subseteq Nat
      BY <1>1, <2>1 DEF CmsPages
    <3>5. \A i \in page.rows : i < list[p].next
      BY <2>2, <3>3, <3>4
    <3> QED BY <3>1, <3>5
  <2> QED BY <1>1, <2>3, <2>4
<1>4. ASSUME NEW p \in DOMAIN longer, NEW q \in DOMAIN longer, p < q
      PROVE  longer[p].next # Cms!None /\ \A i \in longer[q].rows : i < longer[p].next
  <2>1. p \in 1 .. n
    BY <1>1, <1>4
  <2>2. CASE q = n + 1
    BY <1>1, <1>3, <2>1, <2>2
  <2>3. CASE q # n + 1
    <3>1. q \in 1 .. n
      BY <1>1, <1>4, <2>3
    <3> QED BY <1>1, <1>4, <2>1, <3>1 DEF Descends
  <2> QED BY <2>2, <2>3
<1> QED BY <1>2, <1>4 DEF Descends, longer

(* What the server answers for a cursor lies below it.                      *)
LEMMA AnswersLieBelow ==
  ASSUME CmsInv, NEW before \in Nat, NEW page \in Cms!Answers(before)
  PROVE  /\ page \in CmsPages /\ CursorOK(page)
         /\ before # Cms!None => \A i \in page.rows : i < before
<1>1. Len(table) \in Nat /\ DOMAIN table = 1 .. Len(table)
  BY DEF CmsInv
<1>2. ASSUME NEW status \in {"NO_CURRENT_FILE", "UNAVAILABLE"}, page = Cms!Failed(status)
      PROVE  /\ page \in CmsPages /\ CursorOK(page)
             /\ before # Cms!None => \A i \in page.rows : i < before
  BY <1>1, <1>2 DEF Cms!Failed, Cms!None, CmsPages, CursorOK, CmsInv
<1>3. ASSUME page = Cms!ReadByFile(current, before)
      PROVE  /\ page \in CmsPages /\ CursorOK(page)
             /\ before # Cms!None => \A i \in page.rows : i < before
  <2> DEFINE records == Cms!Read(current, before)
             rows == Cms!Rows(records)
             next == Cms!NextCursor(records, rows)
  <2>1. /\ records \subseteq DOMAIN table
        /\ before # Cms!None => \A i \in records : i < before
    BY DEF Cms!Read, Cms!Below, Cms!RowsOf
  <2>2. rows \subseteq records
    BY DEF Cms!Rows, Cms!Distinct
  <2>3. rows \subseteq Nat \ {0}
    BY <1>1, <2>1, <2>2
  <2>4. next # Cms!None => next \in rows /\ \A i \in rows : next <= i
    <3>1. ASSUME next # Cms!None PROVE rows # {}
      <4>1. Cms!Cardinality(rows) = PageSize
        BY <3>1 DEF Cms!NextCursor
      <4>2. Cms!Cardinality({}) = 0
        BY FS_EmptySet DEF Cms!Cardinality, Cardinality
      <4> QED BY <4>1, <4>2 DEF CmsInv, Cms!PageAssumption
    <3>2. next # Cms!None => next = Cms!Min(rows)
      BY DEF Cms!NextCursor
    <3> QED BY <2>3, <3>1, <3>2, LeastRow
  <2>5. next \in Nat
    <3>1. next = Cms!None \/ next \in rows
      BY <2>4
    <3> QED BY <2>3, <3>1 DEF Cms!None
  <2>6. page = [status |-> IF rows = {} THEN "NO_DATA" ELSE "AVAILABLE", file |-> current,
                rows |-> rows, next |-> next, upto |-> Len(table)]
    BY <1>3 DEF Cms!ReadByFile
  <2>7. current \in CmsFiles
    BY DEF CmsInv
  <2> HIDE DEF records, rows, next
  <2>8. page \in CmsPages
    BY <1>1, <2>3, <2>5, <2>6, <2>7 DEF CmsPages
  <2>9. page.rows = rows /\ page.next = next
    BY <2>6
  <2> QED BY <2>1, <2>2, <2>4, <2>8, <2>9 DEF CursorOK
<1> QED BY <1>2, <1>3 DEF Cms!Answers

(* A page arrives at the list that is read.                                 *)
LEMMA AnswerKeeps ==
  ASSUME CmsInv, fetching # Cms!NoFetch,
         NEW page \in Cms!Answers(Cms!Before), Cms!Answer(page)
  PROVE  CmsInv'
<1> DEFINE built == fetching.built
           longer == Append(built, page)
<1>1. /\ fetching \in CmsFetches /\ built \in Seq(CmsPages) /\ Descends(built)
      /\ built # <<>> => built[Len(built)].next # Cms!None
  BY DEF CmsInv, FetchOK, CmsFetches
<1>2. Cms!Before = IF built = <<>> THEN Cms!None ELSE built[Len(built)].next
  BY DEF Cms!Before, Cms!NextOf, Cms!Last
<1>3. Cms!Before \in Nat
  <2>1. built # <<>> => built[Len(built)] \in CmsPages
    BY <1>1
  <2> QED BY <1>2, <2>1 DEF Cms!None, CmsPages
<1>4. /\ page \in CmsPages /\ CursorOK(page)
      /\ built # <<>> => \A i \in page.rows : i < built[Len(built)].next
  BY <1>1, <1>2, <1>3, AnswersLieBelow
<1> HIDE DEF built, longer
<1>5. /\ longer \in Seq(CmsPages) /\ Descends(longer)
      /\ longer # <<>> /\ longer[Len(longer)] = page
  <2>1. Descends(Append(built, page))
    BY <1>1, <1>4, AppendDescends
  <2>2. /\ Append(built, page) \in Seq(CmsPages) /\ Append(built, page) # <<>>
        /\ Append(built, page)[Len(Append(built, page))] = page
    <3>1. built \in Seq(CmsPages) /\ page \in CmsPages /\ Len(built) \in Nat
      BY <1>1, <1>4
    <3>2. Append(built, page) \in Seq(CmsPages) /\ Len(Append(built, page)) = Len(built) + 1
      BY <3>1
    <3>3. Append(built, page)[Len(built) + 1] = page
      BY <3>1
    <3>4. Append(built, page) # <<>>
      BY <3>1, <3>2
    <3> QED BY <3>2, <3>3, <3>4
  <2> QED BY <2>1, <2>2 DEF longer
<1>6. UNCHANGED <<table, current, key>>
  BY DEF Cms!Answer
<1>7. CASE pages' = [pages EXCEPT ![fetching.file] = longer] /\ fetching' = Cms!NoFetch
  BY <1>1, <1>5, <1>6, <1>7 DEF CmsInv, CmsFetches
<1>8. CASE /\ page.next # Cms!None
           /\ fetching' = [fetching EXCEPT !.built = longer] /\ UNCHANGED pages
  <2>1. fetching' \in CmsFetches /\ fetching'.built = longer
    BY <1>1, <1>5, <1>8 DEF CmsFetches
  <2>2. FetchOK'
    BY <1>5, <1>8, <2>1 DEF FetchOK
  <2> QED BY <1>6, <1>8, <2>2 DEF CmsInv
<1> QED BY <1>7, <1>8 DEF Cms!Answer, longer, built

(* A list is begun, read on or read again.                                  *)
LEMMA FetchesKeep ==
  ASSUME CmsInv, Cms!Load \/ Cms!More \/ Cms!Refetch
  PROVE  CmsInv'
<1>1. UNCHANGED <<table, current, key, pages>>
  BY DEF Cms!Load, Cms!More, Cms!Refetch
<1>2. /\ key \in CmsFiles /\ pages[key] \in Seq(CmsPages) /\ Descends(pages[key])
  BY DEF CmsInv
<1>3. <<>> \in Seq(CmsPages) /\ Descends(<<>>)
  BY DEF Descends
<1>4. PICK list \in Seq(CmsPages), want \in Nat :
        /\ fetching' = [file |-> key, built |-> list, want |-> want]
        /\ Descends(list)
        /\ list # <<>> => list[Len(list)].next # Cms!None
  <2>1. CASE Cms!Load \/ Cms!Refetch
    <3>1. PICK want \in Nat : fetching' = [file |-> key, built |-> <<>>, want |-> want]
      BY <1>2, <2>1 DEF Cms!Load, Cms!Refetch
    <3> QED BY <1>3, <3>1
  <2>2. CASE Cms!More
    <3>1. /\ pages[key][Len(pages[key])].next # Cms!None
          /\ fetching' = [file |-> key, built |-> pages[key], want |-> Len(pages[key]) + 1]
      BY <2>2 DEF Cms!More, Cms!NextOf, Cms!Last
    <3>2. Len(pages[key]) + 1 \in Nat
      BY <1>2
    <3> QED BY <1>2, <3>1, <3>2
  <2> QED BY <2>1, <2>2
<1>5. FetchOK'
  <2>1. fetching' \in CmsFetches /\ fetching'.built = list
    BY <1>2, <1>4 DEF CmsFetches
  <2> QED BY <1>4, <2>1 DEF FetchOK
<1> QED BY <1>1, <1>5 DEF CmsInv

(* CMS, the machine and the snapshots of the page.                          *)
LEMMA ShotsGoOn ==
  ASSUME CmsInv,
         \/ \E f \in Files, number \in 1 .. MaxRows : Cms!Shoot(f, number)
         \/ \E f \in CmsFiles : Cms!ChangeFile(f)
         \/ Cms!Snapshot
         \/ UNCHANGED Cms!vars
  PROVE  CmsInv'
<1>1. UNCHANGED <<pages, fetching>>
  BY DEF Cms!Shoot, Cms!ChangeFile, Cms!Snapshot, Cms!vars
<1>2. table' \in Seq(CmsRows)
  <2>1. ASSUME NEW f \in Files, NEW number \in 1 .. MaxRows, Cms!Shoot(f, number)
        PROVE  table' \in Seq(CmsRows)
    <3>1. [file |-> f, number |-> number] \in CmsRows
      BY DEF CmsRows
    <3> QED BY <2>1, <3>1 DEF Cms!Shoot, CmsInv
  <2> QED BY <2>1 DEF Cms!ChangeFile, Cms!Snapshot, Cms!vars, CmsInv
<1>3. key' \in CmsFiles /\ current' \in CmsFiles
  BY DEF Cms!Shoot, Cms!ChangeFile, Cms!Snapshot, Cms!vars, CmsInv
<1>4. FetchOK <=> FetchOK'
  BY <1>1 DEF FetchOK
<1> QED BY <1>1, <1>2, <1>3, <1>4 DEF CmsInv

(* The lists go down from the start, and every step keeps them so.          *)
LEMMA CmsStart == Cms!PageAssumption /\ Cms!Init => CmsInv
<1>1. <<>> \in Seq(CmsPages) /\ Descends(<<>>) /\ <<>> \in Seq(CmsRows)
  BY DEF Descends
<1> QED BY <1>1 DEF Cms!Init, CmsInv, CmsFiles

(* A shot, another file, a snapshot, a reading or an answer.                *)
LEMMA CmsStep == CmsInv /\ [Cms!Next]_(Cms!vars) => CmsInv'
BY AnswerKeeps, FetchesKeep, ShotsGoOn DEF Cms!Next, CmsFiles

(* The pages of a list go down the table whatever file each of them came     *)
(* from, for any size of a page and of a reading, files, changes and         *)
(* failures: no row is on the screen twice (nextCursor and the query of      *)
(* readByFile, injection-cms-history.service.ts 27-130).                     *)
THEOREM PagesGoDown == Cms!PageAssumption => (Cms!Spec => []Cms!PagesDescend)
<1>1. CmsInv => Cms!PagesDescend
  <2>1. ASSUME CmsInv, NEW f \in CmsFiles, NEW p \in DOMAIN pages[f], NEW q \in DOMAIN pages[f],
               p < q, NEW i \in pages[f][p].rows, NEW j \in pages[f][q].rows
        PROVE  j < i
    <3>1. /\ pages[f][p].next # Cms!None /\ j < pages[f][p].next
          /\ CursorOK(pages[f][p])
      BY <2>1 DEF CmsInv, Descends
    <3>2. pages[f][p] \in CmsPages /\ pages[f][q] \in CmsPages
      BY <2>1 DEF CmsInv
    <3>3. i \in Nat /\ j \in Nat /\ pages[f][p].next \in Nat
      BY <3>2, <2>1 DEF CmsPages
    <3> QED BY <2>1, <3>1, <3>3 DEF CursorOK
  <2> QED BY <2>1 DEF Cms!PagesDescend, CmsFiles
<1> QED BY <1>1, CmsStart, CmsStep, PTL DEF Cms!Spec

(***************************************************************************)
(* A list of shots has no holes.                                           *)
(***************************************************************************)
(* A file whose machine keeps it, readings that come through, and a limit   *)
(* that holds the rows of a page of shots and one row more.                 *)
SteadyFile ==
  /\ MaxChanges = 0 /\ MaxFailures = 0 /\ NoFile \notin Files
  /\ MaxCopies \in Nat \ {0} /\ ReadLimit > PageSize * MaxCopies

(* CMS writes the shots of a file in the order of their numbers, MaxCopies  *)
(* rows of each at most.                                                    *)
CopiesAt(f, n) == {i \in Cms!RowsOf(f) : table[i].number = n}
TableOK ==
  /\ \A f \in Files : \A i, j \in Cms!RowsOf(f) : i < j => table[i].number <= table[j].number
  /\ \A f \in Files, n \in Nat : Cardinality(CopiesAt(f, n)) <= MaxCopies

(* A list shows every number of the rows from its last cursor up.           *)
ShownRows(list) == UNION {list[p].rows : p \in DOMAIN list}
WholeFor(f, list) ==
  list # <<>> =>
    /\ list[1].upto <= Len(table)
    /\ ShownRows(list) \subseteq Cms!RowsOf(f) \cap 1 .. list[1].upto
    /\ \A i \in Cms!RowsOf(f) \cap 1 .. list[1].upto :
         LET next == list[Len(list)].next
         IN  next = Cms!None \/ next <= i => \E j \in ShownRows(list) : table[j].number = table[i].number

WholeLists(f) == {list \in Seq(CmsPages) : WholeFor(f, list)}

(* The file is kept and read, and the lists are whole.                      *)
HolesInv ==
  /\ CmsInv /\ SteadyFile /\ TableOK
  /\ changes = 0 /\ failures = 0 /\ current \in Files /\ key = current
  /\ \A f \in Files : pages[f] \in WholeLists(f)
  /\ fetching # Cms!NoFetch =>
       fetching.file = current /\ fetching.built \in WholeLists(current)

Above(S, i) == {j \in S : j > i}
Top(S, k) == {i \in S : Cardinality(Above(S, i)) < k}

(* The operators of the instance count as those of this module.            *)
LEMMA CmsCardinality == \A S : Cms!Cardinality(S) = Cardinality(S)
<1> SUFFICES ASSUME NEW S PROVE Cms!Cardinality(S) = Cardinality(S)
  OBVIOUS
<1> QED BY DEF Cms!Cardinality, Cardinality

(* Products grow with a factor.                                             *)
LEMMA MoreIsMore ==
  ASSUME NEW a \in Nat, NEW b \in Nat, NEW c \in Nat, a <= b
  PROVE  a * c <= b * c
<1>1. PICK d \in Nat : b = a + d
  <2>1. b - a \in Nat /\ b = a + (b - a)
    OBVIOUS
  <2> QED BY <2>1
<1>2. b * c = a * c + d * c /\ d * c \in Nat /\ a * c \in Nat
  BY <1>1
<1> QED BY <1>2

(* A finite set of numbers that is not empty has a greatest one.            *)
LEMMA GreatestRow ==
  ASSUME NEW n \in Nat, NEW S, S \subseteq 1 .. n, S # {}
  PROVE  \E m \in S : \A i \in S : i <= m
<1> DEFINE D == {n - i : i \in S}
<1>1. D \subseteq Nat /\ D # {}
  <2>1. \A i \in S : i \in Nat /\ n - i \in Nat
    OBVIOUS
  <2> QED BY <2>1
<1>2. PICK d \in D : \A e \in D : d <= e
  BY <1>1, LeastRow
<1>3. PICK m \in S : d = n - m
  BY <1>2
<1>4. ASSUME NEW i \in S PROVE i <= m
  <2>1. n - i \in D
    OBVIOUS
  <2> QED BY <1>2, <1>3, <2>1
<1> QED BY <1>4

(* The newest k rows of a set: k of them, or all; those left out lie below. *)
LEMMA TopRows ==
  ASSUME NEW n \in Nat, NEW S, S \subseteq 1 .. n, NEW k \in Nat \ {0}
  PROVE  /\ IsFiniteSet(S) /\ IsFiniteSet(Top(S, k)) /\ Top(S, k) \subseteq S
         /\ Cardinality(Top(S, k)) \in 0 .. k
         /\ Top(S, k) # S => Cardinality(Top(S, k)) = k
         /\ \A i \in S \ Top(S, k), j \in Top(S, k) : i < j
<1>0. \A i \in S : i \in Nat
  OBVIOUS
<1>1. IsFiniteSet(S) /\ Top(S, k) \subseteq S
  <2>1. IsFiniteSet(1 .. n)
    BY FS_Interval
  <2> QED BY <2>1, FS_Subset DEF Top
<1>2. IsFiniteSet(Top(S, k)) /\ \A i : IsFiniteSet(Above(S, i))
  BY <1>1, FS_Subset DEF Above
<1>3. /\ Cardinality(Top(S, k)) \in Nat
      /\ \A i : Cardinality(Above(S, i)) \in Nat
  BY <1>2, FS_CardinalityType
<1>4. ASSUME NEW i \in S \ Top(S, k), NEW j \in Top(S, k) PROVE i < j
  <2>0. i \in Nat /\ j \in Nat
    BY <1>0, <1>1
  <2>1. SUFFICES ASSUME j <= i PROVE FALSE
    BY <2>0
  <2>2. Above(S, i) \subseteq Above(S, j)
    <3>1. \A x \in Above(S, i) : x \in S /\ x > i /\ x \in Nat
      BY <1>0 DEF Above
    <3>2. \A x \in Above(S, i) : x > j
      BY <2>0, <2>1, <3>1
    <3> QED BY <3>1, <3>2 DEF Above
  <2>3. Cardinality(Above(S, i)) <= Cardinality(Above(S, j))
    BY <1>2, <2>2, FS_Subset
  <2>4. Cardinality(Above(S, j)) < k /\ ~ (Cardinality(Above(S, i)) < k)
    BY <1>4 DEF Top
  <2> QED BY <1>3, <2>3, <2>4
<1>5. Cardinality(Top(S, k)) <= k
  <2>1. CASE Top(S, k) = {}
    <3>1. Cardinality(Top(S, k)) = 0
      BY <2>1, FS_EmptySet
    <3> QED BY <3>1
  <2>2. CASE Top(S, k) # {}
    <3>1. Top(S, k) \subseteq Nat
      BY <1>0, <1>1
    <3>2. PICK m \in Top(S, k) : \A i \in Top(S, k) : m <= i
      BY <2>2, <3>1, LeastRow
    <3>3. Top(S, k) \ {m} \subseteq Above(S, m)
      BY <1>1, <3>1, <3>2 DEF Above
    <3>4. Cardinality(Top(S, k) \ {m}) <= Cardinality(Above(S, m))
      BY <1>2, <3>3, FS_Subset
    <3>5. Cardinality(Top(S, k) \ {m}) = Cardinality(Top(S, k)) - 1
      BY <1>2, FS_RemoveElement
    <3>6. Cardinality(Above(S, m)) < k
      BY DEF Top
    <3> QED BY <1>3, <3>4, <3>5, <3>6
  <2> QED BY <2>1, <2>2
<1>6. ASSUME Top(S, k) # S PROVE Cardinality(Top(S, k)) >= k
  <2>1. S \ Top(S, k) # {} /\ S \ Top(S, k) \subseteq 1 .. n
    BY <1>1, <1>6
  <2>2. PICK m \in S \ Top(S, k) : \A i \in S \ Top(S, k) : i <= m
    BY <2>1, GreatestRow
  <2>3. Above(S, m) \subseteq Top(S, k)
    <3>1. \A j \in Above(S, m) : j \in S /\ j > m /\ j \in Nat /\ m \in Nat
      BY <2>1 DEF Above
    <3>2. \A j \in Above(S, m) : ~ (j <= m)
      BY <3>1
    <3> QED BY <2>2, <3>1, <3>2
  <2>4. Cardinality(Above(S, m)) <= Cardinality(Top(S, k))
    BY <1>2, <2>3, FS_Subset
  <2>5. ~ (Cardinality(Above(S, m)) < k)
    BY DEF Top
  <2> QED BY <1>3, <2>4, <2>5
<1> QED BY <1>1, <1>2, <1>3, <1>4, <1>5, <1>6

(* Rows that fall in groups of c at most are at most c for each group.      *)
LEMMA GroupsAreCounted ==
  ASSUME NEW n \in Nat, NEW R, R \subseteq 1 .. n, NEW D, IsFiniteSet(D), NEW c \in Nat \ {0},
         NEW of \in [R -> D], \A d \in D : Cardinality({i \in R : of[i] = d}) <= c
  PROVE  Cardinality(R) <= Cardinality(D) * c
<1> DEFINE before(i) == {j \in R : of[j] = of[i] /\ j < i}
           rank(i) == Cardinality(before(i))
           h == [i \in R |-> <<of[i], rank(i)>>]
           P == D \X (0 .. (c - 1))
<1>1. IsFiniteSet(R) /\ \A i : IsFiniteSet(before(i))
  <2>1. IsFiniteSet(1 .. n)
    BY FS_Interval
  <2>2. IsFiniteSet(R)
    BY <2>1, FS_Subset
  <2>3. \A i : before(i) \in SUBSET R
    OBVIOUS
  <2> HIDE DEF before
  <2> QED BY <2>2, <2>3, FS_Subset
<1>2. \A i : rank(i) \in Nat
  BY <1>1, FS_CardinalityType
<1>3. ASSUME NEW i \in R PROVE rank(i) < c
  <2> DEFINE G == {j \in R : of[j] = of[i]}
  <2>1. before(i) \subseteq G \ {i} /\ i \in G
    OBVIOUS
  <2>2. IsFiniteSet(G)
    BY <1>1, FS_Subset
  <2>3. Cardinality(G \ {i}) = Cardinality(G) - 1 /\ Cardinality(G) \in Nat
    BY <2>1, <2>2, FS_RemoveElement, FS_CardinalityType
  <2>4. IsFiniteSet(G \ {i})
    BY <2>2, FS_Subset
  <2>5. rank(i) <= Cardinality(G \ {i})
    BY <2>1, <2>4, FS_Subset
  <2>6. Cardinality(G) <= c
    <3>1. of[i] \in D
      OBVIOUS
    <3> QED BY <3>1
  <2> HIDE DEF G, before
  <2> QED BY <1>2, <2>3, <2>5, <2>6
<1>4. ASSUME NEW i \in R, NEW j \in R, of[i] = of[j], i < j PROVE rank(i) < rank(j)
  <2>0. \A x \in R : x \in Nat
    OBVIOUS
  <2>1. before(i) \subseteq before(j) /\ i \in before(j) /\ i \notin before(i)
    <3>1. \A x \in before(i) : x \in R /\ of[x] = of[j] /\ x < j
      BY <1>4, <2>0
    <3>2. i \in before(j)
      BY <1>4
    <3>3. ~ (i < i)
      BY <2>0
    <3> QED BY <3>1, <3>2, <3>3
  <2>2. /\ Cardinality(before(i)) <= Cardinality(before(j))
        /\ Cardinality(before(i)) = Cardinality(before(j)) => before(i) = before(j)
    BY <1>1, <2>1, FS_Subset
  <2> HIDE DEF before
  <2> QED BY <1>2, <2>1, <2>2
<1> HIDE DEF rank
<1>5. h \in [R -> P]
  BY <1>2, <1>3
<1>6. ASSUME NEW i \in R, NEW j \in R, h[i] = h[j] PROVE i = j
  <2>1. of[i] = of[j] /\ rank(i) = rank(j)
    BY <1>6
  <2>2. ~ (i < j) /\ ~ (j < i)
    BY <1>2, <1>4, <2>1
  <2>3. i \in Nat /\ j \in Nat
    OBVIOUS
  <2> QED BY <2>2, <2>3
<1>7. h \in Injection(R, P)
  <2> HIDE DEF h
  <2> QED BY <1>5, <1>6 DEF Injection, IsInjective
<1>8. IsFiniteSet(0 .. (c - 1)) /\ Cardinality(0 .. (c - 1)) = c
  BY FS_Interval
<1>9. IsFiniteSet(P) /\ Cardinality(P) = Cardinality(D) * c
  BY <1>8, FS_Product
<1> HIDE DEF h, P
<1> QED BY <1>1, <1>7, <1>9, FS_Injection

(* The rows of a file below a cursor, those read, those answered.           *)
LEMMA PageIsWhole ==
  ASSUME CmsInv, SteadyFile, TableOK, NEW f \in Files, NEW before \in Nat
  PROVE  LET page == Cms!ReadByFile(f, before)
         IN  /\ page.rows \subseteq Cms!Below(f, before)
             /\ \A i \in Cms!Below(f, before) :
                  page.next = Cms!None \/ page.next <= i =>
                    \E j \in page.rows : table[j].number = table[i].number
<1> DEFINE n == Len(table)
           below == Cms!Below(f, before)
           records == Cms!Read(f, before)
           distinct == Cms!Distinct(records)
           rows == Cms!Rows(records)
           next == Cms!NextCursor(records, rows)
<1>1. /\ n \in Nat /\ DOMAIN table = 1 .. n /\ \A i \in 1 .. n : table[i].number \in Nat
      /\ PageSize \in Nat \ {0} /\ ReadLimit \in Nat \ {0}
  <2>1. \A i \in 1 .. n : table[i] \in CmsRows
    BY DEF CmsInv
  <2> QED BY <2>1 DEF CmsInv, CmsRows, Cms!PageAssumption
<1>2. below \subseteq Cms!RowsOf(f) /\ Cms!RowsOf(f) \subseteq 1 .. n
  BY <1>1 DEF Cms!Below, Cms!RowsOf
<1>3. records = Top(below, ReadLimit) /\ rows = Top(distinct, PageSize)
  BY CmsCardinality DEF Cms!Read, Cms!Rows, Top, Above
<1>4. distinct \subseteq records /\ records \subseteq below
  BY <1>3 DEF Cms!Distinct, Top
<1>5. below \subseteq 1 .. n /\ distinct \subseteq 1 .. n
  BY <1>2, <1>4
<1> HIDE DEF n, below, records, rows
<1>6. /\ IsFiniteSet(records) /\ records \subseteq 1 .. n
      /\ records # below => Cardinality(records) = ReadLimit
      /\ \A i \in below \ records, j \in records : i < j
  BY <1>1, <1>3, <1>4, <1>5, TopRows
<1>7. ASSUME NEW i \in records
      PROVE  \E d \in distinct : i <= d /\ table[d].number = table[i].number
  <2> DEFINE same == {j \in records : table[j].number = table[i].number}
  <2>1. same \subseteq 1 .. n /\ i \in same
    BY <1>6
  <2>2. PICK d \in same : \A j \in same : j <= d
    BY <1>1, <2>1, GreatestRow
  <2>3. d \in distinct
    <3>1. \A j \in records : j > d => table[j].number # table[d].number
      <4>1. \A j \in same : ~ (j > d)
        BY <2>1, <2>2, <1>1
      <4> QED BY <4>1
    <3> QED BY <3>1 DEF Cms!Distinct
  <2> QED BY <2>1, <2>2, <2>3
<1> HIDE DEF distinct
<1>8. /\ IsFiniteSet(distinct) /\ IsFiniteSet(rows) /\ rows \subseteq distinct
      /\ Cardinality(rows) \in 0 .. PageSize
      /\ rows # distinct => Cardinality(rows) = PageSize
      /\ \A i \in distinct \ rows, j \in rows : i < j
  BY <1>1, <1>3, <1>5, TopRows
<1>9. ASSUME rows = distinct PROVE records = below
  <2> DEFINE of == [i \in records |-> table[i].number]
             numbers == {table[i].number : i \in distinct}
  <2>1. IsFiniteSet(numbers) /\ Cardinality(numbers) <= Cardinality(distinct)
    <3> DEFINE number == [i \in distinct |-> table[i].number]
    <3>1. number \in Surjection(distinct, numbers)
      BY DEF Surjection
    <3> HIDE DEF number, numbers
    <3> QED BY <1>8, <3>1, FS_Surjection
  <2>2. of \in [records -> numbers]
    BY <1>7
  <2>3. ASSUME NEW m \in numbers
        PROVE  Cardinality({i \in records : of[i] = m}) <= MaxCopies
    <3>1. m \in Nat
      BY <1>1, <1>5
    <3>2. {i \in records : of[i] = m} \subseteq CopiesAt(f, m)
      BY <1>2, <1>4 DEF CopiesAt
    <3>3. IsFiniteSet(CopiesAt(f, m)) /\ IsFiniteSet({i \in records : of[i] = m})
      <4>1. IsFiniteSet(1 .. n)
        BY <1>1, FS_Interval
      <4>2. CopiesAt(f, m) \subseteq 1 .. n
        BY <1>2 DEF CopiesAt
      <4>3. IsFiniteSet(CopiesAt(f, m))
        BY <4>1, <4>2, FS_Subset
      <4> HIDE DEF of
      <4> QED BY <3>2, <4>3, FS_Subset
    <3>4. Cardinality({i \in records : of[i] = m}) <= Cardinality(CopiesAt(f, m))
      <4> HIDE DEF of
      <4> QED BY <3>2, <3>3, FS_Subset
    <3>5. Cardinality(CopiesAt(f, m)) <= MaxCopies /\ MaxCopies \in Nat
      BY <3>1 DEF TableOK, SteadyFile
    <3>6. /\ Cardinality(CopiesAt(f, m)) \in Nat
          /\ Cardinality({i \in records : of[i] = m}) \in Nat
      <4> HIDE DEF of
      <4> QED BY <3>3, FS_CardinalityType
    <3> HIDE DEF of
    <3> QED BY <3>4, <3>5, <3>6
  <2> HIDE DEF of, numbers
  <2>4. MaxCopies \in Nat \ {0} /\ ReadLimit > PageSize * MaxCopies
    BY DEF SteadyFile
  <2>5. Cardinality(records) <= Cardinality(numbers) * MaxCopies
    BY <1>1, <1>6, <2>1, <2>2, <2>3, <2>4, GroupsAreCounted
  <2>6. /\ Cardinality(numbers) \in Nat /\ Cardinality(records) \in Nat
        /\ Cardinality(distinct) \in Nat
    BY <1>6, <1>8, <2>1, FS_CardinalityType
  <2>7. Cardinality(numbers) <= PageSize
    BY <1>1, <1>8, <1>9, <2>1, <2>6
  <2>8. Cardinality(numbers) * MaxCopies <= PageSize * MaxCopies
    BY <1>1, <2>4, <2>6, <2>7, MoreIsMore
  <2>9. Cardinality(numbers) * MaxCopies \in Nat /\ PageSize * MaxCopies \in Nat
    BY <1>1, <2>4, <2>6
  <2>10. Cardinality(records) < ReadLimit
    BY <1>1, <2>4, <2>5, <2>6, <2>8, <2>9
  <2> QED BY <1>1, <1>6, <2>6, <2>10
<1>10. /\ next = Cms!None => rows = distinct
       /\ next # Cms!None => next \in rows
  <2>1. ASSUME rows # {} PROVE Cms!Min(rows) \in rows /\ \A i \in rows : Cms!Min(rows) <= i
    <3>1. rows \subseteq Nat
      BY <1>5, <1>8
    <3> QED BY <2>1, <3>1, LeastRow
  <2>2. rows # {} => Cms!Min(rows) # Cms!None
    BY <2>1, <1>5, <1>8 DEF Cms!None
  <2>3. Cms!Cardinality(rows) = PageSize => rows # {}
    BY <1>1, CmsCardinality, FS_EmptySet
  <2>4. ASSUME Cardinality(rows) = PageSize, rows # distinct
        PROVE  \E i \in records : i < Cms!Min(rows)
    <3>1. rows # {}
      BY <2>3, <2>4, CmsCardinality
    <3>2. PICK i \in distinct \ rows : TRUE
      BY <1>8, <2>4
    <3> QED BY <1>4, <1>8, <2>1, <3>1, <3>2
  <2>5. next = IF Cms!Cardinality(rows) = PageSize /\ \E i \in records : i < Cms!Min(rows)
               THEN Cms!Min(rows) ELSE Cms!None
    BY DEF Cms!NextCursor
  <2> HIDE DEF next
  <2> QED BY <1>8, <2>1, <2>2, <2>3, <2>4, <2>5, CmsCardinality
<1> HIDE DEF next
<1>11. ASSUME NEW i \in below, next = Cms!None \/ next <= i
       PROVE  \E j \in rows : table[j].number = table[i].number
  <2>1. \A j \in 1 .. n : j \in Nat
    BY <1>1
  <2>2. i \in records
    <3>1. CASE next = Cms!None
      BY <1>9, <1>10, <3>1
    <3>2. CASE next # Cms!None
      <4>1. next \in rows /\ next \in records /\ next <= i
        BY <1>4, <1>8, <1>10, <1>11, <3>2
      <4>2. next \in Nat /\ i \in Nat
        BY <1>4, <1>5, <2>1, <4>1
      <4>3. ~ (i < next)
        BY <4>1, <4>2
      <4> QED BY <1>6, <4>1, <4>3
    <3> QED BY <3>1, <3>2
  <2>3. PICK d \in distinct : i <= d /\ table[d].number = table[i].number
    BY <1>7, <2>2
  <2>4. d \in rows
    <3>1. CASE next = Cms!None
      BY <1>10, <3>1
    <3>2. CASE next # Cms!None
      <4>1. next \in rows /\ next <= i
        BY <1>10, <1>11, <3>2
      <4>2. next \in Nat /\ d \in Nat /\ i \in Nat
        BY <1>5, <1>8, <2>1, <4>1
      <4>3. ~ (d < next)
        BY <2>3, <4>1, <4>2
      <4> QED BY <1>8, <4>1, <4>3
    <3> QED BY <3>1, <3>2
  <2> QED BY <2>3, <2>4
<1>12. /\ Cms!ReadByFile(f, before).rows = rows
       /\ Cms!ReadByFile(f, before).next = next
  BY DEF Cms!ReadByFile, rows, next, records
<1>13. rows \subseteq below
  BY <1>4, <1>8
<1> QED BY <1>11, <1>12, <1>13 DEF below

(* The rows of a file when CMS adds one.                                    *)
LEMMA RowsStay ==
  ASSUME CmsInv, NEW row \in CmsRows, table' = Append(table, row)
  PROVE  /\ Len(table) \in Nat /\ Len(table') = Len(table) + 1
         /\ DOMAIN table = 1 .. Len(table) /\ DOMAIN table' = 1 .. Len(table')
         /\ \A i \in DOMAIN table : i \in Nat /\ i \in DOMAIN table' /\ table'[i] = table[i]
                                    /\ table[i].number \in Nat
         /\ table'[Len(table) + 1] = row
<1>1. table \in Seq(CmsRows) /\ Len(table) \in Nat /\ DOMAIN table = 1 .. Len(table)
  BY DEF CmsInv
<1>2. \A i \in DOMAIN table : i \in Nat /\ table[i] \in CmsRows
  BY <1>1
<1>3. \A i \in DOMAIN table : table[i].number \in Nat
  BY <1>2 DEF CmsRows
<1>4. Append(table, row) \in Seq(CmsRows) /\ Len(Append(table, row)) = Len(table) + 1
  BY <1>1
<1>5. /\ DOMAIN Append(table, row) = 1 .. (Len(table) + 1)
      /\ Append(table, row)[Len(table) + 1] = row
      /\ \A i \in 1 .. Len(table) : Append(table, row)[i] = table[i]
  BY <1>1
<1> QED BY <1>1, <1>2, <1>3, <1>4, <1>5

(* A list stays as whole as it was while the table grows.                   *)
LEMMA WholeStays ==
  ASSUME CmsInv, NEW row \in CmsRows, table' = Append(table, row),
         NEW f, NEW list \in Seq(CmsPages), WholeFor(f, list)
  PROVE  WholeFor(f, list)'
<1> SUFFICES ASSUME list # <<>> PROVE WholeFor(f, list)'
  BY DEF WholeFor
<1> DEFINE upto == list[1].upto
<1>1. list[1] \in CmsPages
  BY DEF WholeFor
<1>2. upto \in Nat /\ upto <= Len(table)
  BY <1>1 DEF WholeFor, CmsPages
<1>3. upto <= Len(table')
  BY <1>2, RowsStay
<1>4. Cms!RowsOf(f)' \cap 1 .. upto = Cms!RowsOf(f) \cap 1 .. upto
  <2>1. \A i \in 1 .. upto : i \in DOMAIN table /\ i \in DOMAIN table' /\ table'[i] = table[i]
    BY <1>2, <1>3, RowsStay
  <2> QED BY <2>1 DEF Cms!RowsOf
<1>5. \A i \in Cms!RowsOf(f) \cap 1 .. upto : i \in DOMAIN table /\ table'[i] = table[i]
  BY RowsStay DEF Cms!RowsOf
<1> HIDE DEF upto
<1>6. \A j \in ShownRows(list) : table'[j] = table[j]
  BY <1>5 DEF WholeFor, upto
<1> QED BY <1>3, <1>4, <1>5, <1>6 DEF WholeFor, ShownRows, upto

(* So the lists that were whole stay so, when CMS adds a row and when not.  *)
LEMMA WholeListsStay ==
  ASSUME CmsInv, table' = table \/ \E row \in CmsRows : table' = Append(table, row), NEW f
  PROVE  WholeLists(f) \subseteq WholeLists(f)'
<1>1. ASSUME NEW list \in Seq(CmsPages), WholeFor(f, list) PROVE WholeFor(f, list)'
  <2>1. CASE \E row \in CmsRows : table' = Append(table, row)
    BY <1>1, <2>1, WholeStays
  <2>2. CASE table' = table
    BY <1>1, <2>2 DEF WholeFor, Cms!RowsOf, ShownRows
  <2> QED BY <2>1, <2>2
<1> QED BY <1>1 DEF WholeLists

(* A shot more is the newest of its file, and its rows are not too many.    *)
LEMMA ShootKeepsOrder ==
  ASSUME CmsInv, SteadyFile, TableOK, NEW f \in Files, NEW number \in 1 .. MaxRows,
         Cms!Shoot(f, number)
  PROVE  TableOK'
<1> DEFINE row == [file |-> f, number |-> number]
           n == Len(table)
<1>1. row \in CmsRows /\ table' = Append(table, row) /\ number \in Nat
  BY DEF CmsRows, Cms!Shoot
<1>2. /\ n \in Nat /\ DOMAIN table = 1 .. n /\ DOMAIN table' = 1 .. (n + 1)
      /\ \A i \in 1 .. n : i \in Nat /\ table'[i] = table[i] /\ table[i].number \in Nat
      /\ table'[n + 1] = row
  BY <1>1, RowsStay
<1> HIDE DEF n
<1>3. \A g : Cms!RowsOf(g) \subseteq 1 .. n
  BY <1>2 DEF Cms!RowsOf
<1>4. \A g : Cms!RowsOf(g)' = Cms!RowsOf(g) \cup {i \in {n + 1} : g = f}
  <2>1. \A i : i \in 1 .. (n + 1) <=> i \in 1 .. n \/ i = n + 1
    BY <1>2
  <2> QED BY <1>2, <2>1 DEF Cms!RowsOf
<1>5. /\ Cms!NumberOf(f) \in Nat /\ Cms!NumberOf(f) <= number
      /\ \A i \in Cms!RowsOf(f) : table[i].number <= Cms!NumberOf(f)
  <2>1. CASE Cms!RowsOf(f) = {}
    BY <1>1, <2>1 DEF Cms!NumberOf
  <2>2. CASE Cms!RowsOf(f) # {}
    <3> DEFINE last == Cms!Max(Cms!RowsOf(f))
    <3>1. \E m \in Cms!RowsOf(f) : \A i \in Cms!RowsOf(f) : i <= m
      BY <1>2, <1>3, <2>2, GreatestRow
    <3>2. last \in Cms!RowsOf(f) /\ \A i \in Cms!RowsOf(f) : last >= i
      BY <1>2, <1>3, <3>1 DEF Cms!Max
    <3>3. Cms!NumberOf(f) = table[last].number
      BY <2>2 DEF Cms!NumberOf
    <3> HIDE DEF last
    <3>4. last \in 1 .. n /\ table[last].number \in Nat
      BY <1>2, <1>3, <3>2
    <3>5. ASSUME NEW i \in Cms!RowsOf(f) PROVE table[i].number <= table[last].number
      <4>1. i \in Nat /\ last \in Nat /\ table[i].number \in Nat
        BY <1>2, <1>3, <3>4
      <4>2. i = last \/ i < last
        BY <3>2, <4>1
      <4>3. i < last => table[i].number <= table[last].number
        BY <3>2 DEF TableOK
      <4> QED BY <4>1, <4>2, <4>3
    <3>6. number = Cms!NumberOf(f) \/ number = Cms!NumberOf(f) + 1
      BY DEF Cms!Shoot
    <3> QED BY <3>3, <3>4, <3>5, <3>6
  <2> QED BY <2>1, <2>2
<1>6. ASSUME NEW g \in Files, NEW i \in Cms!RowsOf(g)', NEW j \in Cms!RowsOf(g)', i < j
      PROVE  table'[i].number <= table'[j].number
  <2>1. CASE i \in Cms!RowsOf(g) /\ j \in Cms!RowsOf(g)
    <3>1. table'[i] = table[i] /\ table'[j] = table[j]
      BY <1>2, <1>3, <2>1
    <3> QED BY <1>6, <2>1, <3>1 DEF TableOK
  <2>2. CASE j = n + 1 /\ g = f /\ i \in Cms!RowsOf(f)
    <3>1. table'[i] = table[i] /\ table[i].number \in Nat
      BY <1>2, <1>3, <2>2
    <3>2. table'[j].number = number
      BY <1>2, <2>2
    <3>3. table'[i].number <= Cms!NumberOf(f)
      BY <1>5, <2>2, <3>1
    <3>4. table'[i].number \in Nat
      BY <3>1
    <3>5. number \in Nat /\ Cms!NumberOf(f) \in Nat /\ Cms!NumberOf(f) <= number
      BY <1>1, <1>5
    <3> QED BY <3>2, <3>3, <3>4, <3>5
  <2>3. CASE i = n + 1
    <3>1. j \in 1 .. (n + 1)
      BY <1>3, <1>4, <1>2
    <3> QED BY <1>2, <1>6, <2>3, <3>1
  <2> QED BY <1>4, <2>1, <2>2, <2>3
<1>7. ASSUME NEW g \in Files, NEW m \in Nat
      PROVE  Cardinality(CopiesAt(g, m))' <= MaxCopies
  <2>1. CopiesAt(g, m)' = CopiesAt(g, m) \cup {i \in {n + 1} : g = f /\ m = number}
    <3>1. \A i \in Cms!RowsOf(g) : table'[i] = table[i] /\ i # n + 1
      BY <1>2, <1>3
    <3> QED BY <1>2, <1>4, <3>1 DEF CopiesAt
  <2>2. Cardinality(CopiesAt(g, m)) <= MaxCopies
    BY DEF TableOK
  <2>3. CASE ~ (g = f /\ m = number)
    <3>1. CopiesAt(g, m)' = CopiesAt(g, m)
      BY <2>1, <2>3
    <3> QED BY <2>2, <3>1
  <2>4. CASE g = f /\ m = number
    <3>1. CopiesAt(g, m)' = CopiesAt(g, m) \cup {n + 1} /\ n + 1 \notin CopiesAt(g, m)
      BY <1>2, <1>3, <2>1, <2>4 DEF CopiesAt
    <3>2. IsFiniteSet(CopiesAt(g, m))
      <4>1. IsFiniteSet(1 .. n) /\ CopiesAt(g, m) \subseteq 1 .. n
        BY <1>2, <1>3, FS_Interval DEF CopiesAt
      <4> QED BY <4>1, FS_Subset
    <3>3. Cardinality(CopiesAt(g, m))' = Cardinality(CopiesAt(g, m)) + 1
      BY <3>1, <3>2, FS_AddElement
    <3>4. Cardinality(CopiesAt(g, m)) \in Nat /\ MaxCopies \in Nat \ {0}
      BY <3>2, FS_CardinalityType DEF SteadyFile
    <3>5. CASE number = Cms!NumberOf(f) + 1
      <4>1. CopiesAt(g, m) = {}
        <5>1. \A i \in Cms!RowsOf(f) : table[i].number # number
          BY <1>2, <1>3, <1>5, <3>5
        <5> QED BY <2>4, <5>1 DEF CopiesAt
      <4>2. Cardinality(CopiesAt(g, m)) = 0
        BY <4>1, FS_EmptySet
      <4> QED BY <3>3, <3>4, <4>2
    <3>6. CASE number = Cms!NumberOf(f) /\ Cms!CopiesOf(f) \in 1 .. MaxCopies - 1
      <4>1. Cms!CopiesOf(f) = Cardinality(CopiesAt(g, m))
        BY <2>4, <3>6, CmsCardinality DEF Cms!CopiesOf, CopiesAt
      <4> QED BY <3>3, <3>4, <3>6, <4>1
    <3> QED BY <3>5, <3>6 DEF Cms!Shoot
  <2> QED BY <2>3, <2>4
<1> QED BY <1>6, <1>7 DEF TableOK

(* What makes a list whole, by its newest row and its cursor.               *)
LEMMA IsWhole ==
  ASSUME NEW f, NEW list, NEW upto, NEW next,
         list[1].upto = upto, list[Len(list)].next = next,
         upto <= Len(table), ShownRows(list) \subseteq Cms!RowsOf(f) \cap 1 .. upto,
         \A i \in Cms!RowsOf(f) \cap 1 .. upto : next = Cms!None \/ next <= i =>
           \E j \in ShownRows(list) : table[j].number = table[i].number
  PROVE  WholeFor(f, list)
BY DEF WholeFor

(* A page that arrives at the list leaves no row of the file out.           *)
LEMMA AppendIsWhole ==
  ASSUME HolesInv, fetching # Cms!NoFetch,
         NEW page \in Cms!Answers(Cms!Before)
  PROVE  Append(fetching.built, page) \in WholeLists(current)
<1> DEFINE built == fetching.built
           longer == Append(built, page)
           before == Cms!Before
           n == Len(built)
<1>1. /\ built \in Seq(CmsPages) /\ Descends(built)
      /\ built # <<>> => built[n].next # Cms!None
  BY DEF HolesInv, CmsInv, FetchOK, CmsFetches
<1>2. before = IF built = <<>> THEN Cms!None ELSE built[n].next
  BY DEF Cms!Before, Cms!NextOf, Cms!Last
<1>3. built # <<>> => built[n] \in CmsPages /\ built[1] \in CmsPages /\ n \in DOMAIN built
  BY <1>1
<1>4. before \in Nat
  BY <1>2, <1>3 DEF Cms!None, CmsPages
<1>5. page = Cms!ReadByFile(current, before)
  BY DEF Cms!Answers, HolesInv, SteadyFile
<1>6. page \in CmsPages
  BY <1>4, AnswersLieBelow DEF HolesInv
<1>7. /\ page.rows \subseteq Cms!Below(current, before)
      /\ \A i \in Cms!Below(current, before) :
           page.next = Cms!None \/ page.next <= i =>
             \E j \in page.rows : table[j].number = table[i].number
  BY <1>4, <1>5, PageIsWhole DEF HolesInv
<1>8. page.upto = Len(table) /\ Len(table) \in Nat /\ DOMAIN table = 1 .. Len(table)
  BY <1>5 DEF Cms!ReadByFile, HolesInv, CmsInv
<1>9. /\ n \in Nat /\ DOMAIN built = 1 .. n
      /\ longer \in Seq(CmsPages) /\ Len(longer) = n + 1 /\ DOMAIN longer = 1 .. (n + 1)
      /\ longer[n + 1] = page /\ \A p \in 1 .. n : longer[p] = built[p]
  BY <1>1, <1>6
<1>10. WholeFor(current, built)
  BY DEF HolesInv, WholeLists
<1> HIDE DEF built, longer, before, n
<1>11. ShownRows(longer) = ShownRows(built) \cup page.rows
  <2>1. \A p : p \in 1 .. (n + 1) <=> p \in 1 .. n \/ p = n + 1
    BY <1>9
  <2> QED BY <1>9, <2>1 DEF ShownRows
<1>12. longer # <<>> /\ longer[Len(longer)] = page
  BY <1>9
<1>13. CASE built = <<>>
  <2>1. longer[1].upto = Len(table) /\ before = Cms!None
    <3>1. n = 0
      BY <1>13 DEF n
    <3> QED BY <1>2, <1>8, <1>9, <1>13, <3>1
  <2>2. Cms!Below(current, before) = Cms!RowsOf(current) \cap 1 .. Len(table)
    BY <1>8, <2>1 DEF Cms!Below, Cms!RowsOf
  <2>3. ShownRows(built) = {}
    BY <1>13 DEF ShownRows
  <2>4. ShownRows(longer) = page.rows
    BY <1>11, <2>3
  <2>5. WholeFor(current, longer)
    BY <1>7, <1>8, <1>12, <2>1, <2>2, <2>4, IsWhole
  <2> QED BY <1>9, <2>5 DEF WholeLists, longer, built
<1>14. CASE built # <<>>
  <2> DEFINE upto == built[1].upto
             rowsOf == Cms!RowsOf(current) \cap 1 .. upto
  <2>1. /\ upto \in Nat /\ upto <= Len(table) /\ ShownRows(built) \subseteq rowsOf
        /\ \A i \in rowsOf :
             before <= i => \E j \in ShownRows(built) : table[j].number = table[i].number
    <3>1. upto \in Nat
      BY <1>3, <1>14 DEF CmsPages
    <3> QED BY <1>2, <1>10, <1>14, <3>1 DEF WholeFor, n
  <2>2. before # Cms!None /\ before \in 1 .. upto
    <3>1. before # Cms!None /\ before = built[n].next
      BY <1>1, <1>2, <1>14
    <3>2. before \in built[n].rows
      BY <1>1, <1>3, <1>14, <3>1 DEF Descends, CursorOK
    <3>3. before \in ShownRows(built)
      BY <1>3, <1>14, <3>2 DEF ShownRows
    <3> QED BY <2>1, <3>1, <3>3
  <2>3. longer[1].upto = upto
    <3>1. 1 \in 1 .. n
      BY <1>3, <1>9, <1>14
    <3> QED BY <1>9, <3>1
  <2>4. Cms!Below(current, before) \subseteq rowsOf
    <3>1. ASSUME NEW i \in Cms!Below(current, before) PROVE i \in rowsOf
      <4>1. i \in 1 .. Len(table) /\ i < before /\ i \in Cms!RowsOf(current)
        BY <1>8, <2>2, <3>1 DEF Cms!Below, Cms!RowsOf
      <4> QED BY <1>8, <2>1, <2>2, <4>1
    <3> QED BY <3>1
  <2>5. ShownRows(longer) \subseteq rowsOf
    BY <1>7, <1>11, <2>1, <2>4
  <2>6. ASSUME NEW i \in rowsOf, page.next = Cms!None \/ page.next <= i
        PROVE  \E j \in ShownRows(longer) : table[j].number = table[i].number
    <3>1. CASE before <= i
      BY <1>11, <2>1, <3>1
    <3>2. CASE ~ (before <= i)
      <4>1. i \in Nat
        OBVIOUS
      <4>2. i \in Cms!Below(current, before)
        BY <1>4, <3>2, <4>1 DEF Cms!Below
      <4> QED BY <1>7, <1>11, <2>6, <4>2
    <3> QED BY <3>1, <3>2
  <2> HIDE DEF upto
  <2>7. WholeFor(current, longer)
    BY <1>12, <2>1, <2>3, <2>5, <2>6, IsWhole
  <2> QED BY <1>9, <2>7 DEF WholeLists, longer, built
<1> QED BY <1>13, <1>14 DEF longer, built

(* The steps keep the lists whole.                                          *)
LEMMA HolesStep == HolesInv /\ [Cms!Next]_(Cms!vars) => HolesInv'
<1> SUFFICES ASSUME HolesInv, [Cms!Next]_(Cms!vars) PROVE HolesInv'
  OBVIOUS
<1>1. CmsInv /\ CmsInv' /\ SteadyFile
  BY CmsStep DEF HolesInv
<1>2. UNCHANGED <<changes, current>>
  <2>1. ~ \E f \in CmsFiles : Cms!ChangeFile(f)
    <3>1. ~ (changes < MaxChanges)
      BY DEF HolesInv, SteadyFile
    <3> QED BY <3>1 DEF Cms!ChangeFile
  <2> QED BY <2>1 DEF Cms!Next, Cms!Shoot, Cms!Snapshot, Cms!Load, Cms!More,
             Cms!Refetch, Cms!Answer, Cms!vars, CmsFiles
<1>3. UNCHANGED <<key, failures>>
  <2>1. ASSUME fetching # Cms!NoFetch, NEW page \in Cms!Answers(Cms!Before), Cms!Answer(page)
        PROVE  UNCHANGED <<key, failures>>
    <3>1. page = Cms!ReadByFile(current, Cms!Before)
      BY <2>1 DEF Cms!Answers, HolesInv, SteadyFile
    <3>2. page.status # "UNAVAILABLE"
      BY <3>1 DEF Cms!ReadByFile
    <3> QED BY <2>1, <3>2 DEF Cms!Answer
  <2>2. ~ Cms!Snapshot
    BY DEF HolesInv, Cms!Snapshot
  <2> QED BY <2>1, <2>2 DEF Cms!Next, Cms!Shoot, Cms!ChangeFile, Cms!Load, Cms!More,
             Cms!Refetch, Cms!vars
<1>4. TableOK' /\ \A f : WholeLists(f) \subseteq WholeLists(f)'
  <2>1. ASSUME NEW f \in Files, NEW number \in 1 .. MaxRows, Cms!Shoot(f, number)
        PROVE  TableOK' /\ \E row \in CmsRows : table' = Append(table, row)
    <3>1. [file |-> f, number |-> number] \in CmsRows
      BY DEF CmsRows
    <3> QED BY <2>1, <3>1, ShootKeepsOrder DEF HolesInv, Cms!Shoot
  <2>2. CASE UNCHANGED table
    <3>1. TableOK
      BY DEF HolesInv
    <3>2. TableOK'
      BY <2>2, <3>1 DEF TableOK, CopiesAt, Cms!RowsOf
    <3> QED BY <1>1, <2>2, <3>2, WholeListsStay
  <2>3. CASE \E f \in Files, number \in 1 .. MaxRows : Cms!Shoot(f, number)
    BY <1>1, <2>1, <2>3, WholeListsStay
  <2> QED BY <2>2, <2>3 DEF Cms!Next, Cms!ChangeFile, Cms!Snapshot, Cms!Load, Cms!More,
             Cms!Refetch, Cms!Answer, Cms!vars
<1>5. \A f \in Files : pages'[f] \in WholeLists(f)
  <2>1. CASE UNCHANGED pages
    BY <2>1 DEF HolesInv
  <2>2. CASE ~ UNCHANGED pages
    <3>1. PICK page \in Cms!Answers(Cms!Before) :
            /\ fetching # Cms!NoFetch
            /\ pages' = [pages EXCEPT ![fetching.file] = Append(fetching.built, page)]
      BY <2>2 DEF Cms!Next, Cms!Shoot, Cms!ChangeFile, Cms!Snapshot, Cms!Load, Cms!More,
             Cms!Refetch, Cms!Answer, Cms!vars
    <3>2. Append(fetching.built, page) \in WholeLists(current) /\ fetching.file = current
      BY <3>1, AppendIsWhole DEF HolesInv
    <3>3. \A f \in Files : f \in DOMAIN pages
      BY <1>1 DEF CmsInv, CmsFiles
    <3>4. \A f \in Files :
            pages'[f] = IF f = current THEN Append(fetching.built, page) ELSE pages[f]
      BY <3>1, <3>2, <3>3
    <3> QED BY <3>2, <3>4 DEF HolesInv
  <2> QED BY <2>1, <2>2
<1>6. fetching' # Cms!NoFetch => fetching'.file = current /\ fetching'.built \in WholeLists(current)
  <2>1. CASE UNCHANGED fetching
    BY <2>1 DEF HolesInv
  <2>2. CASE Cms!Load \/ Cms!Refetch \/ Cms!More
    <3>1. /\ fetching'.file = key
          /\ fetching'.built = <<>> \/ fetching'.built = pages[key]
      BY <2>2 DEF Cms!Load, Cms!Refetch, Cms!More
    <3>2. <<>> \in WholeLists(current) /\ pages[current] \in WholeLists(current) /\ key = current
      BY DEF WholeLists, WholeFor, HolesInv
    <3> QED BY <3>1, <3>2
  <2>3. ASSUME NEW page \in Cms!Answers(Cms!Before), fetching # Cms!NoFetch, Cms!Answer(page),
               fetching' # Cms!NoFetch
        PROVE  fetching'.file = current /\ fetching'.built \in WholeLists(current)
    <3>1. fetching' = [fetching EXCEPT !.built = Append(fetching.built, page)]
      BY <2>3 DEF Cms!Answer
    <3>2. Append(fetching.built, page) \in WholeLists(current) /\ fetching.file = current
      BY <2>3, AppendIsWhole DEF HolesInv
    <3>3. fetching \in CmsFetches
      BY <1>1, <2>3 DEF CmsInv, FetchOK
    <3> QED BY <3>1, <3>2, <3>3 DEF CmsFetches
  <2> QED BY <2>1, <2>2, <2>3 DEF Cms!Next, Cms!Shoot, Cms!ChangeFile, Cms!Snapshot, Cms!vars
<1> QED BY <1>1, <1>2, <1>3, <1>4, <1>5, <1>6 DEF HolesInv

(* Every row from the last cursor up is shown, so what is shown is the      *)
(* newest there was.                                                        *)
LEMMA WholeHasNoHoles == HolesInv => Cms!ListWithoutHoles
<1> SUFFICES ASSUME HolesInv, NEW f \in Files, pages[f] # <<>>
             PROVE  LET offered == Cms!Offered(f, pages[f][1].upto)
                        shown == Cms!Shown(pages[f])
                    IN  /\ shown \subseteq offered
                        /\ \A n \in shown, o \in offered : o > n => o \in shown
                        /\ Cms!NextOf(pages[f]) = Cms!None => shown = offered
  BY DEF Cms!ListWithoutHoles
<1> DEFINE list == pages[f]
           last == Len(list)
           next == list[last].next
           rowsOf == Cms!RowsOf(f) \cap 1 .. list[1].upto
<1>1. list \in Seq(CmsPages) /\ Descends(list) /\ WholeFor(f, list)
  BY DEF HolesInv, CmsInv, CmsFiles, WholeLists
<1>2. /\ DOMAIN list = 1 .. last /\ last \in DOMAIN list /\ last \in Nat
      /\ \A p \in DOMAIN list : list[p] \in CmsPages
  BY <1>1
<1>3. Cms!Shown(list) = {table[i].number : i \in ShownRows(list)}
  BY DEF Cms!Shown, ShownRows
<1>4. Cms!Offered(f, list[1].upto) = {table[i].number : i \in rowsOf}
  BY DEF Cms!Offered
<1>5. Cms!NextOf(list) = next
  BY DEF Cms!NextOf, Cms!Last
<1> HIDE DEF list, last, rowsOf, next
<1>6. /\ ShownRows(list) \subseteq rowsOf
      /\ \A i \in rowsOf : next = Cms!None \/ next <= i =>
           \E j \in ShownRows(list) : table[j].number = table[i].number
  BY <1>1 DEF WholeFor, list, next, last, rowsOf
<1>7. \A i \in rowsOf : i \in Nat /\ table[i].number \in Nat /\ i \in Cms!RowsOf(f)
  <2>1. \A i \in Cms!RowsOf(f) : i \in DOMAIN table /\ i \in Nat /\ table[i] \in CmsRows
    BY DEF HolesInv, CmsInv, Cms!RowsOf
  <2> QED BY <2>1 DEF CmsRows, rowsOf
<1>8. ASSUME NEW i \in ShownRows(list), next # Cms!None PROVE next <= i
  <2>1. PICK p \in DOMAIN list : i \in list[p].rows
    BY DEF ShownRows
  <2>2. next \in list[last].rows /\ \A j \in list[last].rows : next <= j
    BY <1>1, <1>2, <1>8 DEF Descends, CursorOK, next
  <2>3. CASE p = last
    BY <2>1, <2>2, <2>3
  <2>4. CASE p < last
    <3>1. list[p].next # Cms!None /\ next < list[p].next
      BY <1>1, <1>2, <2>2, <2>4 DEF Descends
    <3>2. list[p].next <= i
      BY <1>1, <2>1, <3>1 DEF Descends, CursorOK
    <3>3. list[p].next \in Nat /\ next \in Nat /\ i \in Nat
      <4>1. list[p] \in CmsPages /\ list[last] \in CmsPages
        BY <1>2
      <4> QED BY <4>1, <1>6, <1>7 DEF CmsPages, next
    <3> QED BY <3>1, <3>2, <3>3
  <2> QED BY <1>2, <2>3, <2>4
<1>9. ASSUME NEW i \in ShownRows(list), NEW j \in rowsOf, table[j].number > table[i].number
      PROVE  next = Cms!None \/ next <= j
  <2>1. i \in Nat /\ j \in Nat /\ table[i].number \in Nat /\ table[j].number \in Nat
    BY <1>6, <1>7
  <2>2. ~ (j < i)
    <3>1. j < i => table[j].number <= table[i].number
      BY <1>6, <1>7 DEF HolesInv, TableOK
    <3> QED BY <1>9, <2>1, <3>1
  <2>3. next \in Nat
    BY <1>2 DEF CmsPages, next
  <2> QED BY <1>8, <2>1, <2>2, <2>3
<1>10. ASSUME NEW i \in ShownRows(list), NEW j \in rowsOf, table[j].number > table[i].number
       PROVE  table[j].number \in Cms!Shown(list)
  <2>1. PICK k \in ShownRows(list) : table[k].number = table[j].number
    BY <1>6, <1>9, <1>10
  <2> QED BY <1>3, <2>1
<1>11. Cms!Shown(list) \subseteq Cms!Offered(f, list[1].upto)
  BY <1>3, <1>4, <1>6
<1>12. ASSUME NEW n \in Cms!Shown(list), NEW o \in Cms!Offered(f, list[1].upto), o > n
       PROVE  o \in Cms!Shown(list)
  <2>1. PICK i \in ShownRows(list) : n = table[i].number
    BY <1>3
  <2>2. PICK j \in rowsOf : o = table[j].number
    BY <1>4
  <2> QED BY <1>10, <1>12, <2>1, <2>2
<1>13. ASSUME next = Cms!None PROVE Cms!Offered(f, list[1].upto) \subseteq Cms!Shown(list)
  BY <1>3, <1>4, <1>6, <1>13
<1> QED BY <1>5, <1>11, <1>12, <1>13 DEF list

(* A list has no holes: while the machine keeps its file and its readings   *)
(* come through, it shows the newest numbers there were when it was begun,  *)
(* and all of them when it offers no more, for any size of a page, however  *)
(* many rows and lists: if a reading holds one row more than a page of      *)
(* shots with all their copies (LIMIT 151 and the 50 rows of readByFile,    *)
(* injection-cms-history.service.ts 27-130; the list of                     *)
(* InjectionMachinesPage).                                                  *)
THEOREM ListsHaveNoHoles ==
  Cms!PageAssumption /\ SteadyFile => (Cms!Spec => []Cms!ListWithoutHoles)
<1>1. Cms!PageAssumption /\ SteadyFile /\ Cms!Init => HolesInv
  <2> SUFFICES ASSUME Cms!PageAssumption, SteadyFile, Cms!Init PROVE HolesInv
    OBVIOUS
  <2>1. CmsInv
    BY CmsStart
  <2>2. table = <<>> /\ \A f \in Files : pages[f] = <<>>
    BY DEF Cms!Init
  <2>3. \A f : Cms!RowsOf(f) = {}
    BY <2>2 DEF Cms!RowsOf
  <2>4. TableOK
    <3>1. \A f, m : CopiesAt(f, m) = {}
      BY <2>3 DEF CopiesAt
    <3>2. Cardinality({}) = 0 /\ 0 <= MaxCopies
      BY FS_EmptySet DEF SteadyFile
    <3> QED BY <2>3, <3>1, <3>2 DEF TableOK
  <2> QED BY <2>1, <2>2, <2>4 DEF HolesInv, WholeFor, WholeLists, Cms!Init
<1> QED BY <1>1, HolesStep, WholeHasNoHoles, PTL DEF Cms!Spec
=================================================================================
