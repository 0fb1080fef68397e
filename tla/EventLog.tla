------------------------------- MODULE EventLog -------------------------------
(***************************************************************************)
(* What the entrance of industrial events promises to the plant: an event  *)
(* that occurred is kept once, whatever is retried, lost or repeated on    *)
(* the way, and nothing is kept that did not occur.                        *)
(***************************************************************************)
EXTENDS Integers

CONSTANTS Events, Size(_)           \* how many events a set has
VARIABLES occurred, kept, count     \* count: how many events were told new

Init == occurred = {} /\ kept = {} /\ count = 0

Occur(e) ==
  /\ e \notin occurred
  /\ occurred' = occurred \cup {e}
  /\ UNCHANGED <<kept, count>>

Keep(new) ==
  /\ new # {} /\ new \subseteq occurred \ kept
  /\ kept' = kept \cup new
  /\ count' = count + Size(new)
  /\ UNCHANGED occurred

Next == (\E e \in Events : Occur(e)) \/ (\E new \in SUBSET Events : Keep(new))

Spec == Init /\ [][Next]_<<occurred, kept, count>>
LiveSpec == Spec /\ \A e \in Events : []((e \in occurred) => <>(e \in kept))
==============================================================================
