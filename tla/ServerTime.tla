----------------------------- MODULE ServerTime -----------------------------
(***************************************************************************)
(* useServerTime: the clock of the public screens.  A request in flight is *)
(* stamped by the server at some moment of its trip; the hook takes the    *)
(* stamp plus half of the trip as the server's time at the answer and lets *)
(* it run on the monotonic clock of the browser.  Only differences with    *)
(* the server's clock matter, so every time is kept as an error or an age; *)
(* errors are doubled, to halve the trip in integers.                      *)
(***************************************************************************)
EXTENDS Integers

CONSTANTS Timeout,     \* of the api client, 15 s
          SyncEvery,   \* SYNC_INTERVAL_MS
          TickEvery,   \* the timer that recomputes what is shown, 1 s
          MaxAge       \* MAX_SYNC_AGE_MS

ASSUME TimeAssumption == /\ Timeout \in Nat \ {0} /\ TickEvery \in Nat \ {0}
                         /\ SyncEvery \in Nat /\ Timeout < SyncEvery
                         /\ MaxAge \in Nat

VARIABLES enabled, trip, anchor, shown, sinceSync, sinceTick

vars == <<enabled, trip, anchor, shown, sinceSync, sinceTick>>

(* "on" tells whether there is a trip, an anchor or a shown time at all.   *)
NoTrip == [on |-> FALSE, age |-> 0, stamped |-> FALSE, stampAge |-> 0]
NewTrip == [on |-> TRUE, age |-> 0, stamped |-> FALSE, stampAge |-> 0]
NoAnchor == [on |-> FALSE, error2 |-> 0, age |-> 0]
NoTime == [on |-> FALSE, error2 |-> 0, anchorAge |-> 0]

Init == /\ enabled = FALSE
        /\ trip = NoTrip /\ anchor = NoAnchor /\ shown = NoTime
        /\ sinceSync = 0 /\ sinceTick = 0

(* The effect starts with a request and its two timers.                    *)
Enable ==
    /\ ~enabled
    /\ enabled' = TRUE
    /\ trip' = NewTrip
    /\ sinceSync' = 0 /\ sinceTick' = 0
    /\ UNCHANGED <<anchor, shown>>

(* The cleanup: a late answer finds the effect inactive.  What was shown   *)
(* stays in the state of the hook.                                         *)
Disable ==
    /\ enabled
    /\ enabled' = FALSE
    /\ trip' = NoTrip /\ anchor' = NoAnchor
    /\ UNCHANGED <<shown, sinceSync, sinceTick>>

Sync ==
    /\ enabled /\ sinceSync = SyncEvery
    /\ trip' = NewTrip
    /\ sinceSync' = 0
    /\ UNCHANGED <<enabled, anchor, shown, sinceTick>>

(* The server writes its time into the answer.                             *)
Stamp ==
    /\ trip.on /\ ~trip.stamped
    /\ trip' = [trip EXCEPT !.stamped = TRUE]
    /\ UNCHANGED <<enabled, anchor, shown, sinceSync, sinceTick>>

\* Mutant of Answer: the stamp is taken as it came, without half of the trip.
AnswerLate ==
    /\ trip.on /\ trip.stamped
    /\ anchor' = [on |-> TRUE, error2 |-> -2 * trip.stampAge, age |-> 0]
    /\ shown' = [on |-> TRUE, error2 |-> anchor'.error2, anchorAge |-> 0]
    /\ trip' = NoTrip
    /\ UNCHANGED <<enabled, sinceSync, sinceTick>>

Answer ==
    /\ trip.on /\ trip.stamped
    /\ anchor' = [on |-> TRUE, error2 |-> trip.age - 2 * trip.stampAge, age |-> 0]
    /\ shown' = [on |-> TRUE, error2 |-> anchor'.error2, anchorAge |-> 0]
    /\ trip' = NoTrip
    /\ UNCHANGED <<enabled, sinceSync, sinceTick>>

(* An error, or the client's timeout: the last reference stays.            *)
Fail ==
    /\ trip.on
    /\ trip' = NoTrip
    /\ UNCHANGED <<enabled, anchor, shown, sinceSync, sinceTick>>

Tick ==
    /\ enabled /\ sinceTick = TickEvery
    /\ shown' = IF anchor.on /\ anchor.age <= MaxAge
                THEN [on |-> TRUE, error2 |-> anchor.error2, anchorAge |-> anchor.age]
                ELSE NoTime
    /\ sinceTick' = 0
    /\ UNCHANGED <<enabled, trip, anchor, sinceSync>>

(* Time passes while the hook is enabled; the timers fire when due and the *)
(* client gives up at its timeout.  The anchor is not counted further once *)
(* the tick has dropped it, nor is what a hook shows without an anchor.    *)
Pass ==
    /\ enabled /\ sinceTick < TickEvery /\ sinceSync < SyncEvery
    /\ trip.on => trip.age < Timeout
    /\ trip' = IF trip.on THEN [trip EXCEPT !.age = @ + 1,
                                            !.stampAge = IF trip.stamped THEN @ + 1 ELSE @]
               ELSE trip
    /\ anchor' = IF anchor.on /\ anchor.age <= MaxAge + TickEvery
                 THEN [anchor EXCEPT !.age = @ + 1] ELSE anchor
    /\ shown' = IF shown.on /\ anchor.on
                THEN [shown EXCEPT !.error2 = @ - 2, !.anchorAge = @ + 1] ELSE shown
    /\ sinceSync' = sinceSync + 1 /\ sinceTick' = sinceTick + 1
    /\ UNCHANGED enabled

Next == Enable \/ Disable \/ Sync \/ Stamp \/ Answer \/ Fail \/ Tick \/ Pass

Spec == Init /\ [][Next]_vars

-----------------------------------------------------------------------------
(* Type invariant of the hook. *)
TimeTypeOK ==
    /\ enabled \in BOOLEAN
    /\ trip \in [on : BOOLEAN, age : 0..Timeout, stamped : BOOLEAN, stampAge : Nat]
    /\ trip.stampAge <= trip.age
    /\ anchor \in [on : BOOLEAN, error2 : Int, age : Nat]
    /\ shown \in [on : BOOLEAN, error2 : Int, anchorAge : Nat]
    /\ sinceSync \in 0..SyncEvery /\ sinceTick \in 0..TickEvery

(* The reference is off by at most half of the longest trip, wherever in   *)
(* the trip the server took its time.                                      *)
AnchorAccurate == -Timeout <= anchor.error2 /\ anchor.error2 <= Timeout

(* Once an answer came the screen is at most half a trip ahead and half a  *)
(* trip and one tick behind, however many answers are lost.  Before it, a  *)
(* hook enabled again may show the time of its last use until a tick.      *)
ShownAccurate == anchor.on /\ shown.on =>
    -Timeout - 2 * TickEvery <= shown.error2 /\ shown.error2 <= Timeout

(* A reference older than the limit is not shown: the screens say that the *)
(* time is not verified.                                                   *)
OldTimeNotShown == anchor.on /\ shown.on => shown.anchorAge <= MaxAge + TickEvery
=============================================================================
