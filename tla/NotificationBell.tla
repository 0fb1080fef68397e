-------------------------- MODULE NotificationBell --------------------------
(***************************************************************************)
(* The bell of one user: the notifications of the server that the user may *)
(* see, the query that fetches the newest ones of the active plant every   *)
(* 3 s, the requests that mark them as read and the sound that announces   *)
(* new ones.  Notifications are numbered in the order of their creation;   *)
(* the plant modules model what creates them (notifyTankAction).           *)
(***************************************************************************)
EXTENDS Integers, FiniteSets, FiniteSetsExt, SequencesExt

CONSTANTS Plants, First,    \* the plant that is active at the start
          Limit,            \* 50 in the code
          MaxNotes, MaxSwitches, MaxMarks     \* bounds

ASSUME BellAssumption == First \in Plants /\ Limit \in Nat \ {0}
ASSUME BellBounds == MaxNotes \in Nat /\ MaxNotes >= 2    \* Init has up to two

VARIABLES notes,      \* the notifications: [plant, read]
          active,     \* the active plant
          data,       \* the answer the query holds, or NoData
          fetch,      \* the request in flight: "none", "sent" or its answer
          known,      \* knownIdsRef
          marking,    \* the mutation in flight: an id, or All; and its plant
          announced,  \* history: id -> times it was new in a list that sounded
          seeded,     \* history: notifications there were at the first list
          seen,       \* history: the ids some list has shown
          unseenRead, \* history: read by "all" without having been shown
          switches, marks

vars == <<notes, active, data, fetch, known, marking, announced, seeded, seen, unseenRead,
          switches, marks>>

NoData == [ids |-> {}, unread |-> {}, count |-> -1]
Ids == 1..MaxNotes
All == 0
NoMark == [what |-> -1, plant |-> First]
Done == [what |-> -2, plant |-> First]

(* What there was before the application was opened. *)
Init == /\ notes \in UNION {[1..n -> [plant : Plants, read : BOOLEAN]] : n \in 0..2}
        /\ active = First /\ data = NoData
        /\ fetch = [state |-> "none", answer |-> NoData]
        /\ known = {-1} /\ marking = NoMark
        /\ announced = [i \in Ids |-> 0]
        /\ seeded = -1 /\ seen = {} /\ unseenRead = {}
        /\ switches = 0 /\ marks = 0

NoFetch == [state |-> "none", answer |-> NoData]
Sent == [state |-> "sent", answer |-> NoData]
history == <<announced, seeded, seen, unseenRead>>

-----------------------------------------------------------------------------
(* NotificationsService.  visibleTo: the plant of the request.             *)
Visible(p) == {i \in DOMAIN notes : notes[i].plant = p}
\* Mutant of Newest: the list is cut at the wrong end.
OldestFirst(ids) == {i \in ids : Cardinality({j \in ids : j < i}) < Limit}
Newest(ids) == {i \in ids : Cardinality({j \in ids : j > i}) < Limit}

List(p) == [ids    |-> Newest(Visible(p)),
            unread |-> {i \in Newest(Visible(p)) : ~notes[i].read},
            count  |-> Cardinality({i \in Visible(p) : ~notes[i].read})]

Arrive(p) ==
    /\ Len(notes) < MaxNotes
    /\ notes' = Append(notes, [plant |-> p, read |-> FALSE])
    /\ UNCHANGED <<active, data, fetch, known, marking, history, switches, marks>>

-----------------------------------------------------------------------------
(* The query. *)
Poll ==
    /\ fetch = NoFetch
    /\ fetch' = Sent
    /\ UNCHANGED <<notes, active, data, known, marking, history, switches, marks>>

Answer ==
    /\ fetch.state = "sent"
    /\ fetch' = [state |-> "answered", answer |-> List(active)]
    /\ UNCHANGED <<notes, active, data, known, marking, history, switches, marks>>

(* An error keeps the data of the last answer.                             *)
Lose ==
    /\ fetch # NoFetch
    /\ fetch' = NoFetch
    /\ UNCHANGED <<notes, active, data, known, marking, history, switches, marks>>

(* The ids of the last list are the known ones of the next.                *)
Know(answer) == known' = answer.ids

\* Mutant of New: the known ids are renewed before they are compared.
NewAfterwards(answer) == {i \in answer.unread : known # {-1} /\ i \notin known \union answer.ids}

(* hasNewUnread: nothing is new in the first list.                         *)
New(answer) == {i \in answer.unread : known # {-1} /\ i \notin known}

(* The answer arrives and the effect runs.                                 *)
Deliver ==
    /\ fetch.state = "answered"
    /\ LET a == fetch.answer IN
       /\ data' = a
       /\ Know(a)
       /\ announced' = [i \in Ids |-> IF i \in New(a) THEN announced[i] + 1 ELSE announced[i]]
       /\ seeded' = IF known = {-1} THEN Max({0} \union DOMAIN notes) ELSE seeded
       /\ seen' = seen \union a.ids
    /\ fetch' = NoFetch
    /\ UNCHANGED <<notes, active, marking, unseenRead, switches, marks>>

-----------------------------------------------------------------------------
(* markRead and markAllRead cancel the fetch in flight first.  They then   *)
(* write their guess under the key 'plant-notifications' alone, which no   *)
(* query has: the list waits for the refetch at the end.                   *)
Mark(what) ==
    /\ data # NoData /\ marking = NoMark /\ marks < MaxMarks
    /\ what # All => what \in data.unread
    /\ what = All => data.count > 0
    /\ marking' = [what |-> what, plant |-> active] /\ marks' = marks + 1
    /\ fetch' = NoFetch
    /\ UNCHANGED <<notes, active, data, known, history, switches>>

Marked(m) ==
    notes' = [i \in DOMAIN notes |->
                 IF i = m.what \/ (m.what = All /\ i \in Visible(m.plant))
                 THEN [notes[i] EXCEPT !.read = TRUE] ELSE notes[i]]

(* The server's part.                                                      *)
MarkServed ==
    /\ marking \notin {NoMark, Done}
    /\ Marked(marking)
    /\ unseenRead' = unseenRead \union {i \in DOMAIN notes : marking.what = All /\ ~notes[i].read
                                                           /\ notes'[i].read /\ i \notin seen}
    /\ marking' = Done
    /\ UNCHANGED <<active, data, fetch, known, announced, seeded, seen, switches, marks>>

(* onSettled, after an answer or an error: the query is fetched again.     *)
MarkSettled ==
    /\ marking # NoMark
    /\ marking' = NoMark
    /\ fetch' = Sent
    /\ UNCHANGED <<notes, active, data, known, history, switches, marks>>

(* select: the plant's queries are cancelled and removed.  The reference   *)
(* of the known ids stays.                                                 *)
SelectPlant(p) ==
    /\ p # active /\ switches < MaxSwitches
    /\ active' = p /\ switches' = switches + 1
    /\ data' = NoData /\ fetch' = Sent
    /\ UNCHANGED <<notes, known, marking, history, marks>>

Next == \/ \E p \in Plants : Arrive(p) \/ SelectPlant(p)
        \/ Poll \/ Answer \/ Lose \/ Deliver
        \/ \E what \in {All} \union Ids : Mark(what)
        \/ MarkServed \/ MarkSettled

Spec == Init /\ [][Next]_vars

(* The interval never stops (refetchIntervalInBackground), one fetch in    *)
(* many gets through, and the mutations settle.                            *)
FairSpec == Spec /\ WF_vars(Poll) /\ SF_vars(Answer) /\ SF_vars(Deliver) /\ WF_vars(MarkSettled)

-----------------------------------------------------------------------------
(* Type invariant of the bell. *)
BellTypeOK ==
    /\ DOMAIN notes \in {1..n : n \in 0..MaxNotes}
    /\ \A i \in DOMAIN notes : notes[i] \in [plant : Plants, read : BOOLEAN]
    /\ active \in Plants
    /\ {data, fetch.answer} \subseteq [ids : SUBSET Ids, unread : SUBSET Ids, count : -1..MaxNotes]
    /\ fetch.state \in {"none", "sent", "answered"}
    /\ known \in (SUBSET Ids) \union {{-1}}
    /\ marking \in [what : -2..MaxNotes, plant : Plants]
    /\ Cardinality(data.ids) <= Limit

(* Without changes of plant a notification is announced at most once, and  *)
(* once more for each change, whatever answers are late, lost or cancelled *)
(* by the marking of others.                                               *)
AnnouncedOnce == \A i \in Ids : announced[i] <= 1 + switches

(* A list never shows as unread what was never announced nor there at the  *)
(* first list: nothing new slips in silently, though fetches are cancelled *)
(* and lists are cut at the limit.                                         *)
NothingSilent == \A i \in data.unread : seeded >= 0 /\ i > seeded => announced[i] > 0

(* The three together. *)
BellHolds == BellTypeOK /\ AnnouncedOnce /\ NothingSilent

(* Under the fair interval every notification of the plant on the screen   *)
(* that arrives after the first list is heard, or something newer of the   *)
(* plant is, unless it was read before or the user goes to another plant.  *)
ArrivalHeard ==
    \A i \in Ids : (i \in Visible(active) /\ seeded >= 0 /\ i > seeded) ~>
                   \/ i \notin Visible(active)
                   \/ \E j \in Visible(active) : j >= i /\ (announced[j] > 0 \/ notes[j].read)

(* What the release notes of version 0.0.16 say of the action that marks   *)
(* all: it marks the visible ones.                                         *)
AllMarksTheVisible == unseenRead = {}

(* And of the sound: it announces what is received while the application   *)
(* is open.                                                                *)
SoundIsForTheNew == \A i \in Ids : announced[i] > 0 => i > seeded
=============================================================================
