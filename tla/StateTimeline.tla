---------------------------- MODULE StateTimeline ----------------------------
(***************************************************************************)
(* The line of states of an injection machine (injectionStateTimeline.ts): *)
(* stored readings, 1 for producing and 0 for stopped, become segments     *)
(* that fill the whole window, grey where nothing was heard for longer     *)
(* than Gap.                                                               *)
(*                                                                         *)
(* A reading is a record [at, value]; a value that is neither 0 nor 1      *)
(* stands for the points the page leaves out.                              *)
(***************************************************************************)
EXTENDS Integers, FiniteSets, SequencesExt

CONSTANT Gap      \* readings apart more than this leave a grey hole (90 s)

(* What the constant must be. *)
GapAssumption == Gap \in Nat \ {0}

Colour(value) == IF value = 1 THEN "producing" ELSE "stopped"

(* The readings in the window, each in the place the ones before it leave. *)
Usable(points, start, now) ==
  LET usable == {p \in points : p.at \in start .. now /\ p.value \in {0, 1}}
      Before(p) == {q \in usable : q.at < p.at}
  IN  [i \in 1 .. Cardinality(usable) |->
         CHOOSE p \in usable : Cardinality(Before(p)) = i - 1]

(* append: nothing for an empty stretch, longer when the state goes on *)
Append2(segments, from, to, state) ==
  IF to <= from THEN segments
  ELSE IF /\ segments # <<>>
          /\ Last(segments).state = state
          /\ Last(segments).end = from
       THEN [segments EXCEPT ![Len(segments)].end = to]
       ELSE Append(segments, [start |-> from, end |-> to, state |-> state])

Minimum(S) == CHOOSE x \in S : \A y \in S : x <= y

NextAt(readings, i, now) == IF i < Len(readings) THEN readings[i + 1].at ELSE now
EndOf(readings, i, now) == Minimum({NextAt(readings, i, now), now, readings[i].at + Gap})

\* Mutant of Reading1: the hole in front of a reading is not filled.
Reading2(readings, i, now, done) ==
  [segments |-> Append2(done.segments, readings[i].at, EndOf(readings, i, now), Colour(readings[i].value)),
   cursor |-> EndOf(readings, i, now)]

Reading1(readings, i, now, done) ==
  LET grey == Append2(done.segments, done.cursor, readings[i].at, "unknown")
  IN  [segments |-> Append2(grey, readings[i].at, EndOf(readings, i, now), Colour(readings[i].value)),
       cursor |-> EndOf(readings, i, now)]

Timeline(points, start, now) ==
  LET readings == Usable(points, start, now)
      done[i \in 0 .. Len(readings)] ==
        IF i = 0 THEN [segments |-> <<>>, cursor |-> start]
        ELSE Reading1(readings, i, now, done[i - 1])
      all == done[Len(readings)]
  IN  Append2(all.segments, all.cursor, now, "unknown")

(***************************************************************************)
(* What the line promises: an instant has the colour of the newest reading *)
(* at or before it, unless that one is Gap old or older.                   *)
(***************************************************************************)
Heard(points, start, t) == {p \in points : p.at \in start .. t /\ p.value \in {0, 1}}
ColourAt(points, start, t) ==
  LET heard == Heard(points, start, t)
      newest == CHOOSE p \in heard : \A q \in heard : q.at <= p.at
  IN  IF heard = {} THEN "unknown"
      ELSE IF t - newest.at >= Gap THEN "unknown" ELSE Colour(newest.value)
==============================================================================
