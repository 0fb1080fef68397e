------------------------------- MODULE CmsShots -------------------------------
(***************************************************************************)
(* The shots of an injection machine read from the database of CMS by      *)
(* pages (injection-cms-history.service.ts, privateCmsShots and the list   *)
(* of InjectionMachinesPage): the server reads the shots of the file the   *)
(* machine last reported, newest first, and the page follows the cursors   *)
(* while CMS goes on adding shots and the machine changes its file.        *)
(*                                                                         *)
(* The table is a sequence of [file, number]; a position is the idx. CMS   *)
(* repeats a shot in rows next to each other.                              *)
(***************************************************************************)
EXTENDS Integers, FiniteSets, Sequences, SequencesExt, FiniteSetsExt

CONSTANTS
  Files,
  NoFile,         \* the machine reported no file in the last two minutes
  PageSize,       \* shots of a page (50)
  ReadLimit,      \* rows read for a page (151)
  MaxCopies,      \* rows of one shot
  MaxRows,        \* bound: rows of the table
  MaxChanges,     \* bound: changes of the file of the machine
  MaxFailures     \* bound: failed readings

(* What the constants must be. *)
PageAssumption == PageSize \in Nat \ {0} /\ ReadLimit \in Nat \ {0}

VARIABLES
  table,          \* shot_data
  current,        \* file of the last reading, on the server
  changes, failures,
  key,            \* file the page asks for, as its last snapshot told
  pages,          \* the pages kept for each file
  fetching        \* the reading under way: [file, built, want], or NoFetch

vars == <<table, current, changes, failures, key, pages, fetching>>

NoFetch == [want |-> 0]
None == 0         \* no cursor

Init ==
  /\ table = <<>>
  /\ current \in Files
  /\ changes = 0 /\ failures = 0
  /\ key = current
  /\ pages = [f \in Files \cup {NoFile} |-> <<>>]
  /\ fetching = NoFetch

(***************************************************************************)
(* CMS and the machine.                                                    *)
(***************************************************************************)
RowsOf(f) == {i \in DOMAIN table : table[i].file = f}
NumberOf(f) == IF RowsOf(f) = {} THEN 0 ELSE table[Max(RowsOf(f))].number
CopiesOf(f) == Cardinality({i \in RowsOf(f) : table[i].number = NumberOf(f)})

Shoot(f, number) ==
  /\ Len(table) < MaxRows
  /\ \/ number = NumberOf(f) + 1
     \/ number = NumberOf(f) /\ CopiesOf(f) \in 1 .. MaxCopies - 1
  /\ table' = Append(table, [file |-> f, number |-> number])
  /\ UNCHANGED <<current, changes, failures, key, pages, fetching>>

ChangeFile(f) ==
  /\ changes < MaxChanges /\ f # current
  /\ changes' = changes + 1
  /\ current' = f
  /\ UNCHANGED <<table, failures, key, pages, fetching>>

(***************************************************************************)
(* readByFile: the newest rows below the cursor, one for each number, at   *)
(* most a page of them; the cursor of the next page if any row is left.    *)
(***************************************************************************)
Below(f, before) == {i \in RowsOf(f) : before = None \/ i < before}
Read(f, before) ==
  LET below == Below(f, before)
  IN  {i \in below : Cardinality({j \in below : j > i}) < ReadLimit}
Distinct(records) ==
  {i \in records : \A j \in records : j > i => table[j].number # table[i].number}
Rows(records) ==
  {i \in Distinct(records) : Cardinality({j \in Distinct(records) : j > i}) < PageSize}

\* Mutant of NextCursor: there is one only when the whole limit was read.
NextCursorShort(records, rows) ==
  IF Cardinality(rows) = PageSize /\ Cardinality(records) = ReadLimit THEN Min(rows) ELSE None
NextCursor(records, rows) ==
  IF Cardinality(rows) = PageSize /\ \E i \in records : i < Min(rows) THEN Min(rows) ELSE None

ReadByFile(f, before) ==
  LET records == Read(f, before)
      rows == Rows(records)
  IN  [status |-> IF rows = {} THEN "NO_DATA" ELSE "AVAILABLE", file |-> f, rows |-> rows,
       next |-> NextCursor(records, rows), upto |-> Len(table)]
Failed(status) ==
  [status |-> status, file |-> current, rows |-> {}, next |-> None, upto |-> Len(table)]

(* privateCmsShots: always of the file the server knows now *)
Answers(before) ==
  IF current = NoFile THEN {Failed("NO_CURRENT_FILE")}
  ELSE {ReadByFile(current, before)} \cup
       {page \in {Failed("UNAVAILABLE")} : failures < MaxFailures}

(***************************************************************************)
(* The page: its list belongs to the file of the last snapshot. Reading    *)
(* again begins with the first page and follows the new cursors.           *)
(***************************************************************************)
Snapshot ==
  /\ key # current
  /\ key' = current
  /\ UNCHANGED <<table, current, changes, failures, pages, fetching>>

NextOf(list) == Last(list).next
Load ==
  /\ fetching = NoFetch /\ pages[key] = <<>>
  /\ fetching' = [file |-> key, built |-> <<>>, want |-> 1]
  /\ UNCHANGED <<table, current, changes, failures, key, pages>>
More ==
  /\ fetching = NoFetch /\ pages[key] # <<>>
  /\ NextOf(pages[key]) # None
  /\ fetching' = [file |-> key, built |-> pages[key], want |-> Len(pages[key]) + 1]
  /\ UNCHANGED <<table, current, changes, failures, key, pages>>
Refetch ==
  /\ fetching = NoFetch /\ pages[key] # <<>>
  /\ fetching' = [file |-> key, built |-> <<>>, want |-> Len(pages[key])]
  /\ UNCHANGED <<table, current, changes, failures, key, pages>>

Answer(page) ==
  LET built == Append(fetching.built, page)
  IN  /\ IF Len(built) = fetching.want \/ page.next = None
         THEN /\ pages' = [pages EXCEPT ![fetching.file] = built]
              /\ fetching' = NoFetch
         ELSE /\ fetching' = [fetching EXCEPT !.built = built]
              /\ UNCHANGED pages
      /\ failures' = IF page.status = "UNAVAILABLE" THEN failures + 1 ELSE failures
      /\ UNCHANGED <<table, current, changes, key>>

Before == IF fetching.built = <<>> THEN None ELSE NextOf(fetching.built)

Next ==
  \/ \E f \in Files, number \in 1 .. MaxRows : Shoot(f, number)
  \/ \E f \in Files \cup {NoFile} : ChangeFile(f)
  \/ Snapshot \/ Load \/ More \/ Refetch
  \/ fetching # NoFetch /\ \E page \in Answers(Before) : Answer(page)

Spec == Init /\ [][Next]_vars

(* The list on the screen: the numbers of its pages, each once *)
Shown(list) == {table[i].number : i \in UNION {list[p].rows : p \in DOMAIN list}}
Offered(f, upto) == {table[i].number : i \in RowsOf(f) \cap 1 .. upto}

(***************************************************************************)
(* Properties.                                                             *)
(***************************************************************************)
CmsTypeOK ==
  /\ \A f \in Files \cup {NoFile} : \A p \in DOMAIN pages[f] :
       /\ pages[f][p].rows \subseteq DOMAIN table
       /\ Cardinality(pages[f][p].rows) <= PageSize
  /\ key \in Files \cup {NoFile}
  /\ fetching = NoFetch \/ fetching.file \in Files \cup {NoFile}

(* The pages of a list go down the table, whatever file each of them came  *)
(* from: no row twice, and following the cursors ends (nextCursor is the   *)
(* idx of the last row and the query asks for smaller ones).               *)
PagesDescend ==
  \A f \in Files \cup {NoFile} : \A p, q \in DOMAIN pages[f] : p < q =>
    \A i \in pages[f][p].rows, j \in pages[f][q].rows : j < i

(* A list has no holes: it shows the newest numbers there were when it was *)
(* begun, without any left out among them, and when it offers no more it   *)
(* shows them all - with at most MaxCopies rows of a shot, which ReadLimit *)
(* allows for.                                                             *)
ListWithoutHoles ==
  \A f \in Files : pages[f] # <<>> =>
    LET offered == Offered(f, pages[f][1].upto)
    IN  /\ Shown(pages[f]) \subseteq offered
        /\ \A n \in Shown(pages[f]), o \in offered : o > n => o \in Shown(pages[f])
        /\ NextOf(pages[f]) = None => Shown(pages[f]) = offered

(* docs/INTEGRACION_ENVASES_WOOJIN.md:84: the cursor loads the earlier     *)
(* shots: when the list offers none, there is none.                        *)
EndMeansAll ==
  \A f \in Files : pages[f] # <<>> /\ pages[f][1].status = "AVAILABLE" /\ NextOf(pages[f]) = None =>
    Offered(f, pages[f][1].upto) \subseteq Shown(pages[f])

(* docs/INTEGRACION_ENVASES_WOOJIN.md:84: the shots of the list are those  *)
(* of the current file, by exact coincidence.                              *)
ListOfOneFile ==
  \A f \in Files : \A p \in DOMAIN pages[f] : \A i \in pages[f][p].rows : table[i].file = f
==============================================================================
