------------------------------ MODULE AuditPages ------------------------------
(***************************************************************************)
(* The pages of the audit log (audit.service.ts, AuditPage.tsx).  Two      *)
(* logs, of the system and of the plants, are read with two more           *)
(* statements that count them, each on its own; the rows are merged by     *)
(* time and cut to the page.  The page of the screen keeps the answers it  *)
(* has for half a minute, each under its filter and number, and the        *)
(* reader goes through them with Siguiente.                                *)
(*                                                                         *)
(* Events are numbered by createdAt, no two alike; the transaction that    *)
(* writes one may be committed after that of a later event.  Newest is     *)
(* TRUE for the dashboard and FALSE for the history of one user, which is  *)
(* read oldest first and has no filter of source.                          *)
(***************************************************************************)
EXTENDS Integers, FiniteSets, Sequences, SequencesExt, FiniteSetsExt

CONSTANTS
  Newest,        \* dashboard (newest first) or history of a user
  Filters,       \* sources the reader may choose; ALL is no filter
  Limit,         \* movements of a page
  MaxEvents,     \* bound: events of both logs
  MaxReads       \* bound: readings

PagesAssumption == Limit \in Nat \ {0} /\ MaxEvents \in Nat /\ "ALL" \in Filters

VARIABLES
  source,        \* source of each event begun
  committed,     \* events a statement can read
  filter, page,  \* filter and page of the screen
  answers,       \* answers kept, by filter and page; {} when there is none
  reading,       \* statements already answered of the reading under way
  asked,         \* its filter, its page and the events committed when asked
  reads,
  walk           \* the reader's way since page 1: see Start

vars == <<source, committed, filter, page, answers, reading, asked, reads, walk>>

Begun == DOMAIN source
Statements == {"systemRows", "plantRows", "systemTotal", "plantTotal"}
Keys == Filters \X (1 .. MaxEvents + 1)
Idle == asked = {}
Key == <<filter, page>>

(***************************************************************************)
(* What the server answers: dashboard and userActivity.                    *)
(***************************************************************************)
Before(a, b) == IF Newest THEN a > b ELSE a < b
Place(S, e) == Cardinality({d \in S : Before(d, e)}) + 1

Of(S, log) == {e \in S : source[e] = log}
Includes(f, log) == f \in {"ALL", log}

Fetched(S, n) == {e \in S : Place(S, e) <= n}

\* The rows of S in order, from one place to another.
Slice(S, p) ==
  LET skip == (p - 1) * Limit
      last == Min({Limit, Cardinality(S) - skip})
  IN  [n \in 1 .. last |-> CHOOSE e \in S : Place(S, e) = skip + n]

Items(parts, f, p) ==
  LET rows(log, part) == IF Includes(f, log) THEN Fetched(Of(parts[part], log), p * Limit) ELSE {}
  IN  Slice(rows("SYSTEM", "systemRows") \cup rows("PLANT", "plantRows"), p)

Total(parts, f) ==
  LET count(log, part) == IF Includes(f, log) THEN Cardinality(Of(parts[part], log)) ELSE 0
  IN  count("SYSTEM", "systemTotal") + count("PLANT", "plantTotal")

\* Mutant of TotalPages: only full pages are counted.
TotalPagesFull(total) == Max({total \div Limit, 1})
TotalPages(total) == Max({(total + Limit - 1) \div Limit, 1})

(***************************************************************************)
(* The screen.                                                             *)
(***************************************************************************)
Shown == answers[Key]

(* A walk starts at page 1: what was committed when it was asked, what has *)
(* been on the screen, whether an answer mixed two moments, and the pages  *)
(* taken from the answers kept.                                            *)
Start(a, kept) == [base |-> a.base, seen |-> ToSet(a.items), torn |-> a.torn, kept |-> kept]
Follow(a, kept) == [walk EXCEPT !.seen = @ \cup ToSet(a.items), !.torn = @ \/ a.torn, !.kept = kept]
NoWalk == [base |-> {}, seen |-> {}, torn |-> FALSE, kept |-> {}]

Init ==
  /\ source = <<>>
  /\ committed = {}
  /\ filter = "ALL" /\ page = 1
  /\ answers = [k \in Keys |-> {}]
  /\ reading = <<>>
  /\ asked = {} /\ reads = 0
  /\ walk = NoWalk

(* Another user is doing something: its event has its time and is not yet  *)
(* committed.                                                              *)
Begin(log) ==
  /\ Len(source) < MaxEvents
  /\ source' = Append(source, log)
  /\ UNCHANGED <<committed, filter, page, answers, reading, asked, reads, walk>>

Commit(e) ==
  /\ e \notin committed
  /\ committed' = committed \cup {e}
  /\ UNCHANGED <<source, filter, page, answers, reading, asked, reads, walk>>

Ask(key) ==
  /\ reads < MaxReads
  /\ reads' = reads + 1
  /\ asked' = {[key |-> key, base |-> committed]}
  /\ reading' = <<>>

(* One statement of Promise.all: in any order, each at its own moment.     *)
Statement(part) ==
  /\ ~Idle
  /\ part \notin DOMAIN reading
  /\ reading' = [q \in DOMAIN reading \cup {part} |-> IF q = part THEN committed ELSE reading[q]]
  /\ UNCHANGED <<source, committed, filter, page, answers, asked, reads, walk>>

Answer ==
  /\ DOMAIN reading = Statements
  /\ LET q == CHOOSE q \in asked : TRUE
         a == [items |-> Items(reading, q.key[1], q.key[2]), total |-> Total(reading, q.key[1]),
               base |-> q.base, torn |-> \E s \in Statements : reading[s] # q.base, fresh |-> TRUE]
     IN  /\ answers' = [answers EXCEPT ![q.key] = {a}]
         /\ walk' = IF q.key # Key THEN walk
                    ELSE IF page = 1 THEN Start(a, {})
                    ELSE Follow(a, walk.kept \ {page})
  /\ asked' = {} /\ reading' = <<>>
  /\ UNCHANGED <<source, committed, filter, page, reads>>

(* The answer of a page is half a minute old.                              *)
Age(k) ==
  /\ answers' = [answers EXCEPT ![k] = {[a EXCEPT !.fresh = FALSE] : a \in @}]
  /\ answers' # answers
  /\ UNCHANGED <<source, committed, filter, page, reading, asked, reads, walk>>

(* The screen shows the answer kept for the page, if any, and asks for it  *)
(* again when there is none or it is old.                                  *)
Show(f, p) ==
  /\ Idle
  /\ filter' = f /\ page' = p
  /\ walk' = IF answers[<<f, p>>] = {} THEN (IF p = 1 THEN NoWalk ELSE walk)
             ELSE LET a == CHOOSE a \in answers[<<f, p>>] : TRUE
                  IN  IF p = 1 THEN Start(a, {}) ELSE Follow(a, walk.kept \cup {p})
  /\ IF \E a \in answers[<<f, p>>] : a.fresh
     THEN UNCHANGED <<reading, asked, reads>>
     ELSE Ask(<<f, p>>)
  /\ UNCHANGED <<source, committed, answers>>

Open == Shown = {} /\ Show(filter, page)

NextPage == \E a \in Shown : page < TotalPages(a.total) /\ Show(filter, page + 1)
Previous == Shown # {} /\ page > 1 /\ Show(filter, page - 1)

SetSource(f) == Shown # {} /\ f # filter /\ Show(f, 1)

(* Actualizar reads the page on the screen again, and no other.            *)
Refresh ==
  /\ Newest
  /\ Idle /\ Shown # {}
  /\ Ask(Key)
  /\ UNCHANGED <<source, committed, filter, page, answers, walk>>

Next ==
  \/ \E log \in {"SYSTEM", "PLANT"} : Begin(log)
  \/ \E e \in Begun : Commit(e)
  \/ \E part \in Statements : Statement(part)
  \/ Answer
  \/ \E k \in Keys : Age(k)
  \/ Open \/ NextPage \/ Previous \/ Refresh
  \/ \E f \in Filters : SetSource(f)

Spec == Init /\ [][Next]_vars

-----------------------------------------------------------------------------
Matches(S, f) == {e \in S : Includes(f, source[e])}

AuditTypeOK ==
  /\ source \in Seq({"SYSTEM", "PLANT"})
  /\ committed \subseteq Begun
  /\ Key \in Keys
  /\ \A k \in Keys : \A a \in answers[k] :
       /\ ToSet(a.items) \subseteq Matches(committed, k[1])
       /\ Len(a.items) <= Limit /\ a.total \in 0 .. Cardinality(committed)
  /\ walk.seen \subseteq committed /\ walk.kept \subseteq 2 .. MaxEvents + 1

(* An answer whose statements saw the same logs holds the page of the two  *)
(* logs put together: reading skip + limit rows of each is enough for any  *)
(* mix of them.                                                            *)
PageIsRight ==
  \A k \in Keys : \A a \in answers[k] : ~a.torn =>
    /\ a.items = Slice(Matches(a.base, k[1]), k[2])
    /\ a.total = Cardinality(Matches(a.base, k[1]))

(* The screen never shows an empty page of a log that has movements,       *)
(* whatever pages and filters the reader went through to get there.        *)
NoEmptyPage ==
  \A a \in Shown : ~a.torn /\ a.items = <<>> => a.total = 0

(* The reader who has gone from page 1 to the last one.                    *)
AtTheEnd == Idle /\ \E a \in Shown : page >= TotalPages(a.total)

Complete == AtTheEnd => Matches(walk.base, filter) \subseteq walk.seen

(* Whatever is written meanwhile, the reader who goes through all pages    *)
(* sees every movement there was at the start, when each page was read on  *)
(* the way and no movement was committed between the statements of one.    *)
WalkIsComplete == ~walk.torn /\ walk.kept = {} => Complete

(* The same without the condition on the statements.                       *)
WalkSurvivesCommits == walk.kept = {} => Complete

(* The same without the condition on the answers kept.                     *)
WalkSurvivesKept == ~walk.torn => Complete
=============================================================================
