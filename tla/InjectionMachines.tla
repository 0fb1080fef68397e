-------------------------- MODULE InjectionMachines --------------------------
(***************************************************************************)
(* Telemetry of the injection machines of ENVASES                          *)
(* (injection-machines.service.ts, injection-history.service.ts): batches  *)
(* of readings sent by Node-RED, the caches in memory, the points written  *)
(* to InfluxDB while the request waits, the answer, the snapshot of the    *)
(* screens and the line of states of the popup.                            *)
(*                                                                         *)
(* One unit of time is about ten seconds; the thresholds keep their        *)
(* proportions. A request is open for less than two seconds (the write     *)
(* gives up after 1.5), so the clock turns at most once while it is open.  *)
(***************************************************************************)
EXTENDS Integers, FiniteSets, Sequences

CONSTANTS
  Machines,       \* visible machines of the catalogue
  Unknown,        \* machines whose address, model or code is not the catalogue's
  Sources,        \* senders of the plant: the real one, the simulator where it is enabled
  MaxTime,        \* bound: the clock
  MaxOpen,        \* bound: requests served at the same time
  MaxFailures,    \* bound: failed writes in a row
  MaxRestarts,    \* bound: restarts of the server
  PerInstant,     \* bound: readings of a machine in one instant
  Period,         \* the longest silence of a sender that is reporting
  Future, CmsFresh, NodeRedFresh, Heartbeat, Gap,   \* thresholds (30, 10, 30, 30, 90 s)
  Lags,           \* how far behind the clock a stamp of CMS may be (negative: ahead)
  Modes,          \* operation_status_text: "AUTO", "STOP" or another one
  Vigencies,      \* cms_row_fresh
  Shots           \* technical cycles: [number, at, mine], mine when it tells its machine

\* CMS counts the cycles of a machine: a number is of one cycle.
InjectionAssumption ==
  \A shot, again \in Shots : shot.number = again.number => shot.at = again.at

VARIABLES now, latest, technical, lastBatchAt, lastState, open, series, failed,
          restarts, sent

vars == <<now, latest, technical, lastBatchAt, lastState, open, series, failed,
          restarts, sent>>

T == INSTANCE StateTimeline

Keys == Sources \X Machines
Nothing == [none |-> TRUE]
NoShot == [number |-> -1, at |-> -1, mine |-> FALSE]
Never == -100

OperatingState(mode) == CASE mode = "AUTO" -> 1 [] mode = "STOP" -> 0 [] OTHER -> -1

Readings ==
  [stamp : {now - lag : lag \in Lags}, vigente : Vigencies, mode : Modes,
   shot : {NoShot} \cup {shot \in Shots : shot.at <= now}]

Init ==
  /\ now = 0
  /\ latest = [k \in Keys |-> Nothing]
  /\ technical = [k \in Keys |-> NoShot]
  /\ lastBatchAt = [s \in Sources |-> Never]
  /\ lastState = [k \in Keys |-> Nothing]
  /\ open = {}
  /\ series = [k \in Keys |-> [status |-> <<>>, state |-> <<>>, shot |-> <<>>]]
  /\ failed = 0
  /\ restarts = 0
  /\ sent = [k \in Keys |-> [at |-> Never, count |-> 0]]

(***************************************************************************)
(* receive: what is decided of each reading, against the caches.           *)
(***************************************************************************)
Rejected(m, r) == m \in Unknown \/ r.stamp > now + Future

NewShotLater(k, shot) == shot.number > technical[k].number /\ shot.at >= technical[k].at
NewShot(k, shot) == shot.mine /\ (technical[k] = NoShot \/ NewShotLater(k, shot))

Older(k, r) == latest[k] # Nothing /\ r.stamp <= latest[k].stamp

Status(s, m, r) ==
  IF Rejected(m, r) THEN "REJECTED"
  ELSE IF Older(<<s, m>>, r) THEN "IGNORED_OLDER" ELSE "ACCEPTED"
Updated(s, m, r) == ~Rejected(m, r) /\ NewShot(<<s, m>>, r.shot)

(***************************************************************************)
(* history.record: the lines of one reading, built before the write is     *)
(* awaited. A line is [kind, at, value].                                   *)
(***************************************************************************)
Beat(k, r) ==
  \/ lastState[k] = Nothing
  \/ lastState[k].value # OperatingState(r.mode)
  \/ r.stamp - lastState[k].at >= Heartbeat

WriteState(k, r) == r.vigente /\ OperatingState(r.mode) # -1 /\ Beat(k, r)
\* Mutant of ShotLine: the cycle is filed under the stamp of the reading.
ShotLineOfReading(r) == [kind |-> "shot", at |-> r.stamp, value |-> r.shot.number]
ShotLine(r) == [kind |-> "shot", at |-> r.shot.at, value |-> r.shot.number]
Lines(s, m, r) ==
  LET k == <<s, m>>
      accepted == Status(s, m, r) = "ACCEPTED"
  IN  {l \in {[kind |-> "status", at |-> r.stamp, value |-> 0]} : accepted /\ r.vigente}
      \cup {l \in {[kind |-> "state", at |-> r.stamp, value |-> OperatingState(r.mode)]} :
              accepted /\ WriteState(k, r)}
      \cup {l \in {ShotLine(r)} : Updated(s, m, r)}

Result(s, m, r) ==
  [status |-> Status(s, m, r), updated |-> Updated(s, m, r), shot |-> r.shot, lines |-> Lines(s, m, r),
   stored |-> IF Lines(s, m, r) = {} THEN "no" ELSE "waiting"]

(***************************************************************************)
(* A batch: one reading of each of some machines. The caches change at     *)
(* once; the writes are under way when the request waits. Node-RED offers  *)
(* the last cycle again with every reading until there is a newer one.     *)
(***************************************************************************)
Fresh(s, readings, m) == m \in DOMAIN readings /\ Status(s, m, readings[m]) = "ACCEPTED"

Caches(s, readings) ==
  /\ latest' = [k \in Keys |->
       IF k[1] = s /\ Fresh(s, readings, k[2])
       THEN [stamp |-> readings[k[2]].stamp, at |-> now, vigente |-> readings[k[2]].vigente,
             mode |-> readings[k[2]].mode]
       ELSE latest[k]]
  /\ technical' = [k \in Keys |->
       IF k[1] = s /\ k[2] \in DOMAIN readings /\ Updated(s, k[2], readings[k[2]])
       THEN readings[k[2]].shot ELSE technical[k]]

SentNow(k) == IF sent[k].at = now THEN sent[k].count ELSE 0

(* Two requests of the same instant with the same readings are one here *)
Receive(s, readings) ==
  /\ Cardinality(open) < MaxOpen
  /\ Caches(s, readings)
  /\ open' = open \cup {[source |-> s, at |-> now,
                         results |-> [m \in DOMAIN readings |-> Result(s, m, readings[m])]]}
  /\ \A m \in DOMAIN readings \cap Machines : SentNow(<<s, m>>) < PerInstant
  /\ sent' = [k \in Keys |-> IF k[1] = s /\ k[2] \in DOMAIN readings
                            THEN [at |-> now, count |-> SentNow(k) + 1] ELSE sent[k]]
  /\ UNCHANGED <<now, lastBatchAt, lastState, series, failed, restarts>>

(* A point of the same series and time replaces the one there was *)
Put(of, lines, kind) ==
  LET new == {l \in lines : l.kind = kind}
  IN  [t \in DOMAIN of \cup {l.at : l \in new} |->
         IF \E l \in new : l.at = t THEN (CHOOSE l \in new : l.at = t).value ELSE of[t]]
Stored(k, lines) ==
  [series EXCEPT ![k] = [status |-> Put(@.status, lines, "status"),
                         state |-> Put(@.state, lines, "state"),
                         shot |-> Put(@.shot, lines, "shot")]]

Settle(b, m, stored) ==
  open' = (open \ {b}) \cup {[b EXCEPT !.results[m].stored = stored]}

RememberState(k, lines) ==
  \E l \in lines : l.kind = "state"
    /\ lastState' = [lastState EXCEPT ![k] = [value |-> l.value, at |-> l.at]]
HasState(lines) == \E l \in lines : l.kind = "state"

WriteDone(b, m) ==
  LET k == <<b.source, m>>
      lines == b.results[m].lines
  IN  /\ b.results[m].stored = "waiting"
      /\ series' = Stored(k, lines)
      /\ IF HasState(lines) THEN RememberState(k, lines) ELSE UNCHANGED lastState
      /\ Settle(b, m, "yes")
      /\ failed' = 0
      /\ UNCHANGED <<now, latest, technical, lastBatchAt, restarts, sent>>

(* The write is refused, or its answer does not come in time: then the points may be there *)
Fails(b, m, kept) ==
  /\ b.results[m].stored = "waiting"
  /\ failed < MaxFailures
  /\ failed' = failed + 1
  /\ series' = IF kept THEN Stored(<<b.source, m>>, b.results[m].lines) ELSE series
  /\ Settle(b, m, "no")
  /\ UNCHANGED <<now, latest, technical, lastBatchAt, restarts, sent>>
WriteFails(b, m, kept) == Fails(b, m, kept) /\ UNCHANGED lastState

(* persisted: something was worth storing and all of it is stored *)
Worth(result) == result.status = "ACCEPTED" \/ result.updated

Persisted(results) ==
  /\ \E m \in DOMAIN results : Worth(results[m])
  /\ \A m \in DOMAIN results : Worth(results[m]) => results[m].stored = "yes"

Settled(b) == \A m \in DOMAIN b.results : b.results[m].stored # "waiting"

(* The answer tells Persisted(b.results) *)
Answer(b) ==
  /\ Settled(b)
  /\ open' = open \ {b}
  /\ lastBatchAt' = [lastBatchAt EXCEPT ![b.source] = b.at]
  /\ UNCHANGED <<now, latest, technical, lastState, series, failed, restarts, sent>>

(* A reporting sender is never silent for longer than Period *)
Reporting(k) == sent[k].at # Never
Tick ==
  /\ now < MaxTime
  /\ now' = now + 1
  /\ \A b \in open : b.at = now
  /\ \A k \in Keys : Reporting(k) => now - sent[k].at < Period
  /\ UNCHANGED <<latest, technical, lastBatchAt, lastState, open, series, failed,
                 restarts, sent>>

(* The caches live in memory: a restart loses them and what was being served *)
Restart ==
  /\ restarts < MaxRestarts
  /\ restarts' = restarts + 1
  /\ latest' = [k \in Keys |-> Nothing]
  /\ technical' = [k \in Keys |-> NoShot]
  /\ lastBatchAt' = [s \in Sources |-> Never]
  /\ lastState' = [k \in Keys |-> Nothing]
  /\ open' = {}
  /\ UNCHANGED <<now, series, failed, sent>>

Next ==
  \/ \E s \in Sources, ms \in SUBSET (Machines \cup Unknown) \ {{}} :
       \E readings \in [ms -> Readings] : Receive(s, readings)
  \/ \E b \in open : \E m \in DOMAIN b.results :
       WriteDone(b, m) \/ WriteFails(b, m, TRUE) \/ WriteFails(b, m, FALSE)
  \/ \E b \in open : Answer(b)
  \/ Tick
  \/ Restart

Spec == Init /\ [][Next]_vars

(***************************************************************************)
(* snapshot: whether a machine is shown live.                              *)
(***************************************************************************)
Communication(s) == now - lastBatchAt[s] <= NodeRedFresh
IsCmsFresh(k) ==
  /\ latest[k] # Nothing
  /\ latest[k].stamp <= now /\ now - latest[k].stamp <= CmsFresh
  /\ latest[k].vigente
Live(k) == Communication(k[1]) /\ IsCmsFresh(k) /\ now - latest[k].at <= NodeRedFresh

(* The card of a machine, and the end of the line of states in its popup *)
Card(k) == IF Live(k) THEN OperatingState(latest[k].mode) ELSE -1
Points(k) == {[at |-> t, value |-> series[k].state[t]] : t \in DOMAIN series[k].state}
Line(k) == T!Timeline(Points(k), -Gap, now + 1)

(***************************************************************************)
(* Properties.                                                             *)
(***************************************************************************)
Times == -1 .. MaxTime + Future
InjTypeOK ==
  /\ now \in 0 .. MaxTime
  /\ \A k \in Keys :
       /\ latest[k] = Nothing \/ latest[k].stamp \in Times
       /\ technical[k] = NoShot \/ technical[k] \in Shots
       /\ lastState[k] = Nothing \/ lastState[k].value \in {0, 1}
       /\ DOMAIN series[k].status \cup DOMAIN series[k].state \subseteq Times
  /\ Cardinality(open) <= MaxOpen

(* "persisted" told to Node-RED is true of the database: every reading of  *)
(* the batch that was accepted and in force has its point, and every new   *)
(* cycle too (results and stored paired by position in receive).           *)
PersistedIsStored ==
  \A b \in open : Settled(b) /\ Persisted(b.results) =>
    \A m \in DOMAIN b.results : \A l \in b.results[m].lines :
      l.at \in DOMAIN series[<<b.source, m>>][l.kind]

(* A cycle sent again, by the sender or after a restart that forgot it,    *)
(* never becomes a second point of the series of cycles.                   *)
CycleStoredOnce ==
  \A k \in Keys : \A t, u \in DOMAIN series[k].shot :
    series[k].shot[t] = series[k].shot[u] => t = u

(* Obsolete readings and older ones leave no trace in the line of states:  *)
(* once nothing is being written, the popup's line ends in the colour of   *)
(* the card, whatever came before.                                         *)
CardAgreesWithLine ==
  open = {} => \A k \in Keys : Card(k) # -1 =>
    Line(k)[Len(Line(k))].state = T!Colour(Card(k))

(* While a machine reports often enough, and few writes fail in a row, its *)
(* line has no grey hole after its first point: the beat every Heartbeat   *)
(* and the retries fit in Gap.                                             *)
NoHoleWhileReporting ==
  \A k \in Keys : \A i \in 2 .. Len(Line(k)) : Line(k)[i].state # "unknown"

(* docs/INTEGRACION_ENVASES_WOOJIN.md:82: the backend writes the state of  *)
(* the machine when it changes: what is in force is what the series says.  *)
ChangeIsWritten ==
  open = {} => \A k \in Keys :
    latest[k] # Nothing /\ latest[k].vigente /\ OperatingState(latest[k].mode) # -1 =>
      T!ColourAt(Points(k), -Gap, latest[k].stamp) = T!Colour(OperatingState(latest[k].mode))

(* docs/INTEGRACION_ENVASES_WOOJIN.md:78: a valid batch brings the last    *)
(* communication of its sender up to date: it never goes back.             *)
CommunicationAdvances ==
  [][\A s \in Sources : lastBatchAt'[s] >= lastBatchAt[s] \/ restarts' # restarts]_vars

(* docs/INTEGRACION_ENVASES_WOOJIN.md:94: one point for each attributed    *)
(* cycle: when the writes of an answer succeeded, the cycle it offered is  *)
(* in the series.                                                          *)
OfferedCycleIsStored ==
  \A b \in open : \A m \in DOMAIN b.results :
    LET result == b.results[m]
    IN  /\ Settled(b) /\ result.status # "REJECTED" /\ result.shot.mine
        /\ (result.lines # {} => result.stored = "yes")
        => result.shot.at \in DOMAIN series[<<b.source, m>>].shot
==============================================================================
