-------------------------------- MODULE Pages --------------------------------
(***************************************************************************)
(* Keyset pagination of threads and messages (list_page of the             *)
(* repositories, /threads/paginated, /messages/paginated): a client walks  *)
(* the pages, newest first, while threads are created, touched and         *)
(* deleted.  Several rows may have the same time.                          *)
(***************************************************************************)
EXTENDS Integers, Sequences, FiniteSets, SequencesExt

CONSTANTS
  Ids,      \* row ids, compared as numbers
  MaxTime,  \* bound: the last time
  Limits    \* page sizes asked for

ASSUME PagesAssumption ==
  Ids \subseteq Nat /\ IsFiniteSet(Ids) /\ MaxTime \in Nat /\ Limits \subseteq Int

VARIABLES
  moment,    \* the clock
  updated,   \* updated_at of each row, 0 if there is none to list
  boundary,  \* the client's cursor: <<time, id>>, <<>> before the first page
  walk,      \* the ids received so far
  quiet,     \* rows that have not changed since the walk began
  walked     \* the last page has been received

pageVars == <<moment, updated, boundary, walk, quiet, walked>>

PagesInit ==
  /\ moment = 1 /\ updated \in [Ids -> 0..1]
  /\ boundary = <<>> /\ walk = <<>> /\ walked = FALSE
  /\ quiet = {i \in Ids : updated[i] > 0}

\* A row is created, touched (which moves it to the front) or deleted.
Touch(i, t) ==
  /\ moment' \in {moment, moment + 1} /\ moment' <= MaxTime
  /\ updated' = [updated EXCEPT ![i] = IF t THEN moment' ELSE 0]
  /\ updated[i] > 0 \/ t
  /\ quiet' = quiet \ {i}
  /\ UNCHANGED <<boundary, walk, walked>>

\* (updated_at, id) < (cursor_time, cursor_id)
Before_TimeOnly(i) == boundary = <<>> \/ updated[i] < boundary[1]
Before(i) ==
  \/ boundary = <<>>
  \/ updated[i] < boundary[1]
  \/ updated[i] = boundary[1] /\ i < boundary[2]
\* ORDER BY updated_at DESC, id DESC: j does not come after i.
NotAfter(j, i) == updated[j] > updated[i] \/ (updated[j] = updated[i] /\ j >= i)
list_page(limit) ==
  LET size == IF limit < 1 THEN 1 ELSE limit
      Found == {i \in Ids : updated[i] > 0 /\ Before(i)}
      count == Cardinality(Found)
  IN [items |-> [k \in 1..(IF count < size THEN count ELSE size) |->
                   CHOOSE i \in Found : Cardinality({j \in Found : NotAfter(j, i)}) = k],
      has_more |-> count > size]

FetchPage(limit) ==
  LET page == list_page(limit) IN
  /\ ~walked
  /\ walk' = walk \o page.items
  /\ walked' = ~page.has_more
  /\ boundary' = IF page.has_more THEN <<updated[Last(page.items)], Last(page.items)>>
                 ELSE boundary
  /\ UNCHANGED <<moment, updated, quiet>>

PagesNext == \/ \E i \in Ids, t \in BOOLEAN : Touch(i, t)
             \/ \E limit \in Limits : FetchPage(limit)

\* A walk to the last page shows every row that did not change meanwhile, and
\* no such row twice, whatever happened to the others.
WalkIsComplete ==
  /\ \A i \in quiet : Cardinality({n \in DOMAIN walk : walk[n] = i}) <= 1
  /\ walked => quiet \subseteq {walk[n] : n \in DOMAIN walk}
=============================================================================
