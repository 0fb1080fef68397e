------------------------------ MODULE Telemetry ------------------------------
(***************************************************************************)
(* The readings of scales and packaging lines that PlantService keeps in   *)
(* the memory of the process (plant.service.ts, 44-84 and 877-1075) and    *)
(* what the tank cards show of them (786-873).                             *)
(*                                                                         *)
(* A batch captures "now" when it begins and looks each scale up in the    *)
(* database, so other batches, the clock or a restart may come between two *)
(* of its readings; the comparison with the cached reading and the write   *)
(* that follows it are one synchronous piece.  A refused key changes       *)
(* nothing and is no step.                                                 *)
(***************************************************************************)
EXTENDS Integers, Sequences

CONSTANTS
  Scales,          \* scale keys that senders name
  Enabled,         \* those of an active tank in AUTOMATIC mode
  Lines,           \* packaging lines
  LineOf,          \* line of the order of each tank
  Tanks,
  Senders,         \* requests that may be in flight at once
  WeightBatches,   \* batches of weights a sender may send
  SpeedBatches,    \* batches of speeds; << >> stands for no speeds
  None,            \* undefined
  SignalTimeout,   \* WEIGHT_SIGNAL_TIMEOUT_MS
  Skew,            \* how far a stamp may be ahead of the measurement
  MaxTime          \* bound on the clock, for TLC only

Routes == {"weights", "plant weights"}

\* What a sender may send: a measurement "age" ago, stamped with an error of
\* "ahead", without a stamp or with a stamp that is no date.
Offers(keys) == [key: keys, age: Nat, ahead: 0 .. Skew,
                 stamp: {"date", "missing", "invalid"}]

Readings == [taken: Nat, measuredAt: Nat, receivedAt: Nat, stamped: BOOLEAN]

\* What the constants must be.
TelemetryAssumption ==
  /\ None \notin Nat \cup Readings
  /\ Enabled \subseteq Scales
  /\ "DEVREE" \in Lines /\ LineOf \in [Tanks -> Lines]
  /\ SignalTimeout \in Nat /\ Skew \in Nat /\ MaxTime \in Nat
  /\ WeightBatches \subseteq Seq(Offers(Scales)) /\ SpeedBatches \subseteq Seq(Offers(Lines))

\* A sender that gives no stamp sends what it has just measured: the server takes
\* such a reading as measured when its batch arrives.
PromptWithoutStamp ==
  \A b \in WeightBatches : \A i \in DOMAIN b : b[i].stamp = "missing" => b[i].age <= Skew

VARIABLES
  clock,
  weights,      \* cached reading of each scale, or None
  speeds,       \* cached reading of each line, or None
  batch,        \* the batch each sender has in flight, or None
  orderStart,   \* startedAt of the open order of a tank in ENVASANDO, or None
  newest,       \* instant of the newest measurement of a scale the process has
                \* handled since it started, or None
  heard         \* instant at which it last stored a reading of a scale, or None

vars == <<clock, weights, speeds, batch, orderStart, newest, heard>>

TelemetryTypeOK ==
  /\ clock \in 0 .. MaxTime
  /\ weights \in [Scales -> Readings \cup {None}]
  /\ speeds \in [Lines -> Readings \cup {None}]
  /\ \A s \in Senders : batch[s] # None =>
       /\ batch[s].route \in Routes
       /\ batch[s].now \in 0 .. clock
       /\ batch[s].done \in 0 .. Len(batch[s].readings)
  /\ orderStart \in [Tanks -> Nat \cup {None}]
  /\ newest \in [Scales -> Nat \cup {None}]
  /\ heard \in [Scales -> Nat \cup {None}]

Init ==
  /\ clock = 0
  /\ weights = [s \in Scales |-> None]
  /\ speeds = [l \in Lines |-> None]
  /\ batch = [s \in Senders |-> None]
  /\ orderStart = [t \in Tanks |-> None]
  /\ newest = [s \in Scales |-> None]
  /\ heard = [s \in Scales |-> None]

-----------------------------------------------------------------------------
Sent(offer) == [key |-> offer.key, stamp |-> offer.stamp,
                taken |-> clock - offer.age,
                at |-> clock - offer.age + offer.ahead]
SentAll(b) == [i \in DOMAIN b |-> Sent(b[i])]
InTheRun(b) == \A i \in DOMAIN b : b[i].age <= clock

\* The instant a reading counts as measured at: its stamp, or the "now" of the
\* batch when it has none.
MeasuredAt(r, now) == IF r.stamp = "date" THEN r.at ELSE now

\* Mutant of Newer: whatever arrives last replaces the cached reading.
LastToArrive(cache, r, now) == TRUE
Newer(cache, r, now) ==
  cache[r.key] # None => MeasuredAt(r, now) > cache[r.key].measuredAt

Stored(cache, r, now) ==
  [cache EXCEPT ![r.key] = [taken |-> r.taken, measuredAt |-> MeasuredAt(r, now),
                            receivedAt |-> now, stamped |-> r.stamp = "date"]]

\* acceptPackagingSpeeds: one synchronous loop over the readings.
AfterSpeeds(cache, rs, now) ==
  LET after[i \in 0 .. Len(rs)] ==
        IF i = 0 THEN cache
        ELSE IF Newer(after[i - 1], rs[i], now) THEN Stored(after[i - 1], rs[i], now)
        ELSE after[i - 1]
  IN  after[Len(rs)]

\* The key of the batch is accepted and "now" captured.
BeginBatch(s, route, b, sp) ==
  /\ batch[s] = None
  /\ InTheRun(b) /\ InTheRun(sp)
  /\ batch' = [batch EXCEPT ![s] =
       [route |-> route, now |-> clock, readings |-> SentAll(b),
        speeds |-> SentAll(sp), done |-> 0]]
  /\ UNCHANGED <<clock, weights, speeds, orderStart, newest, heard>>

NextReading(s) == batch[s].readings[batch[s].done + 1]
MoreReadings(s) == batch[s] # None /\ batch[s].done < Len(batch[s].readings)
Usable(r) == r.key \in Enabled /\ r.stamp # "invalid"

Advance(s) == batch' = [batch EXCEPT ![s].done = @ + 1]

\* A reading of an enabled scale replaces the cached one if it is newer.
StoreReading(s) ==
  LET r == NextReading(s) IN
  /\ MoreReadings(s)
  /\ Usable(r)
  /\ Newer(weights, r, batch[s].now)
  /\ weights' = Stored(weights, r, batch[s].now)
  /\ newest' = [newest EXCEPT ![r.key] =
       IF @ = None \/ r.taken > @ THEN r.taken ELSE @]
  /\ heard' = [heard EXCEPT ![r.key] = clock]
  /\ Advance(s)
  /\ UNCHANGED <<clock, speeds, orderStart>>

\* An older one is passed over (IGNORED_OLDER).
IgnoreReading(s) ==
  LET r == NextReading(s) IN
  /\ MoreReadings(s)
  /\ Usable(r)
  /\ ~Newer(weights, r, batch[s].now)
  /\ newest' = [newest EXCEPT ![r.key] =
       IF @ = None \/ r.taken > @ THEN r.taken ELSE @]
  /\ Advance(s)
  /\ UNCHANGED <<clock, weights, speeds, orderStart, heard>>

\* An unknown scale or a stamp that is no date: the route of the plant lists it
\* as REJECTED and goes on.
RejectReading(s) ==
  /\ MoreReadings(s)
  /\ batch[s].route = "plant weights"
  /\ ~Usable(NextReading(s))
  /\ Advance(s)
  /\ UNCHANGED <<clock, weights, speeds, orderStart, newest, heard>>

\* The old route throws: the batch ends there, without its speeds, and what it
\* stored before stays.
ThrowOnReading(s) ==
  /\ MoreReadings(s)
  /\ batch[s].route = "weights"
  /\ ~Usable(NextReading(s))
  /\ batch' = [batch EXCEPT ![s] = None]
  /\ UNCHANGED <<clock, weights, speeds, orderStart, newest, heard>>

\* After the last reading, the speeds and the answer.
EndBatch(s) ==
  /\ batch[s] # None /\ ~MoreReadings(s)
  /\ speeds' = AfterSpeeds(speeds, batch[s].speeds, clock)
  /\ batch' = [batch EXCEPT ![s] = None]
  /\ UNCHANGED <<clock, weights, orderStart, newest, heard>>

\* Starting and finishing the packaging of a tank (startPackaging and
\* finishPackaging; module Plant has the whole of them).
StartOrder(t) ==
  /\ orderStart[t] = None
  /\ orderStart' = [orderStart EXCEPT ![t] = clock]
  /\ UNCHANGED <<clock, weights, speeds, batch, newest, heard>>

FinishOrder(t) ==
  /\ orderStart[t] # None
  /\ orderStart' = [orderStart EXCEPT ![t] = None]
  /\ UNCHANGED <<clock, weights, speeds, batch, newest, heard>>

\* The process starts again: the caches and the batches in flight are gone.
Restart ==
  /\ weights' = [s \in Scales |-> None]
  /\ speeds' = [l \in Lines |-> None]
  /\ batch' = [s \in Senders |-> None]
  /\ newest' = [s \in Scales |-> None]
  /\ heard' = [s \in Scales |-> None]
  /\ UNCHANGED <<clock, orderStart>>

Tick ==
  /\ clock < MaxTime
  /\ clock' = clock + 1
  /\ UNCHANGED <<weights, speeds, batch, orderStart, newest, heard>>

Next ==
  \/ \E s \in Senders :
       \/ \E route \in Routes, b \in WeightBatches, sp \in SpeedBatches :
            BeginBatch(s, route, b, sp)
       \/ StoreReading(s) \/ IgnoreReading(s) \/ RejectReading(s)
       \/ ThrowOnReading(s) \/ EndBatch(s)
  \/ \E t \in Tanks : StartOrder(t) \/ FinishOrder(t)
  \/ Restart
  \/ Tick

Spec == Init /\ [][Next]_vars

-----------------------------------------------------------------------------
(* What a tank card shows. *)

Online(s) == weights[s] # None /\ clock - weights[s].receivedAt <= SignalTimeout

\* The speed of DEVREE goes before that of the line of the order, whatever its
\* age.
SpeedOf(t) ==
  IF speeds["DEVREE"] # None THEN speeds["DEVREE"] ELSE speeds[LineOf[t]]

ShowsSpeed(t) ==
  /\ orderStart[t] # None
  /\ SpeedOf(t) # None
  /\ clock - SpeedOf(t).receivedAt <= SignalTimeout
  /\ SpeedOf(t).measuredAt >= orderStart[t]

-----------------------------------------------------------------------------
\* Batches that overtake each other, come late or twice, or lack stamps never
\* hide a newer weight for an older one by more than the error of the stamps, as
\* long as what has no stamp was sent at once (PromptWithoutStamp): the card shows
\* the newest measurement handled since the process started.
NewestWithinSkew ==
  \A s \in Scales : newest[s] # None =>
    /\ weights[s] # None
    /\ weights[s].taken + Skew >= newest[s]

\* A scale is shown ONLINE only if the process really stored a reading of it
\* within the signal timeout, however the stamps of its sender run.
OnlineIsHeard ==
  \A s \in Scales : Online(s) => heard[s] # None /\ clock - heard[s] <= SignalTimeout

\* What a batch has passed is kept even if it ends badly: each usable reading
\* before the present one is in the cache or older than the cached one, so a
\* retry of the whole batch does no harm and none of it is missed.
PassedReadingsKept ==
  \A s \in Senders : batch[s] # None =>
    \A i \in 1 .. batch[s].done :
      LET r == batch[s].readings[i] IN
      Usable(r) => /\ weights[r.key] # None
                   /\ weights[r.key].measuredAt >= MeasuredAt(r, batch[s].now)

\* A speed with a stamp shown beside a tank was measured during the order of the
\* tank, up to the error of the stamp: never the speed of the order before.  (One
\* without a stamp counts as measured when its batch ends, and the order may have
\* started while the batch waited for the database.)
SpeedOfTheOrder ==
  \A t \in Tanks : ShowsSpeed(t) /\ SpeedOf(t).stamped =>
    SpeedOf(t).taken + Skew >= orderStart[t]

\* "Una balanza se muestra sin señal después de 10 segundos sin recepción."
\* (docs/OPERACION_PLANTA.md:72): the clock of the run counts 10 seconds a tick.
SilentAfterTenSeconds ==
  \A s \in Scales : Online(s) => clock - heard[s] <= 1
=============================================================================
