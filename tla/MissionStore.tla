---------------------------- MODULE MissionStore ----------------------------
(***************************************************************************)
(* The mission store: one row per mission and the table of its events.     *)
(* persistence/postgres.py is the reference; persistence/memory.py is the  *)
(* same store in one process, and its guard is stated next to the one of   *)
(* Postgres so that the two can be compared.                               *)
(*                                                                         *)
(* A row holds the typed result's status (the column the guard looks at),  *)
(* the status inside the raw payload, the async marker and the raw events. *)
(* An event is its kind and the sequence number its author gave it.        *)
(***************************************************************************)
EXTENDS Integers, Sequences, FiniteSets

CONSTANT Missions

VARIABLES
  row,     \* missions: what get and get_raw return
  table    \* mission_events: the persisted events, as a set of numbered kinds

storeVars == <<row, table>>

Statuses == {"running", "completed", "partial", "failed", "cancelled"}
Kinds == {"accepted", "created", "wave", "completed", "partial", "failed", "cancelled"}
Event(kind, seq) == [kind |-> kind, seq |-> seq]
NoRow == [result |-> "none", raw |-> "none", async |-> FALSE, events |-> <<>>]

StoreInit ==
  /\ row = [m \in Missions |-> NoRow]
  /\ table = [m \in Missions |-> {}]

-----------------------------------------------------------------------------
(* Events                                                                  *)

\* The numbers readers see: never below the author's, always increasing.
Renumber(events) ==
  LET cursor[i \in 0..Len(events)] ==
        IF i = 0 THEN 0
        ELSE IF cursor[i - 1] + 1 > events[i].seq THEN cursor[i - 1] + 1
             ELSE events[i].seq
  IN [i \in 1..Len(events) |-> [events[i] EXCEPT !.seq = cursor[i]]]

Numbered(events) ==
  LET es == Renumber(events) IN {es[i] : i \in 1..Len(es)}

Upsert(stored, events) ==
  {e \in stored : \A f \in Numbered(events) : e.seq # f.seq} \cup Numbered(events)

Prune_Linger(stored, events) == stored

Prune(stored, events) ==
  {e \in stored : \E f \in Numbered(events) : e.seq = f.seq}

PutEvents(stored, events) == Prune(Upsert(stored, events), events)

-----------------------------------------------------------------------------
(* put                                                                     *)

\* ON CONFLICT ... DO UPDATE ... WHERE: a cancelled mission stays cancelled,
\* and a cancel only replaces a running one.
PutApplies(old, new) ==
  \/ old.result = "none"
  \/ new # "cancelled" /\ old.result # "cancelled"
  \/ new = "cancelled" /\ old.result = "running"

\* The same decision as InMemoryMissionStore.put takes it: the raw payload
\* first, the typed result where there is no payload.
MemoryPutApplies(old, new) ==
  LET current == IF old.raw # "none" THEN old.raw ELSE old.result
  IN /\ new # "cancelled" => old.raw # "cancelled" /\ old.result # "cancelled"
     /\ new = "cancelled" => current \in {"none", "running"}

Put_Resurrect(m, new, raw) ==
  IF new # "cancelled" \/ PutApplies(row[m], new)
  THEN /\ row' = [row EXCEPT ![m] = [raw EXCEPT !.result = new]]
       /\ table' = [table EXCEPT ![m] = PutEvents(@, raw.events)]
  ELSE UNCHANGED storeVars

Put_AnyCancel(m, new, raw) ==
  IF new = "cancelled" \/ PutApplies(row[m], new)
  THEN /\ row' = [row EXCEPT ![m] = [raw EXCEPT !.result = new]]
       /\ table' = [table EXCEPT ![m] = PutEvents(@, raw.events)]
  ELSE UNCHANGED storeVars

Put(m, new, raw) ==
  IF PutApplies(row[m], new)
  THEN /\ row' = [row EXCEPT ![m] = [raw EXCEPT !.result = new]]
       /\ table' = [table EXCEPT ![m] = PutEvents(@, raw.events)]
  ELSE UNCHANGED storeVars

get(m) == row[m].result
get_raw(m) == row[m]

-----------------------------------------------------------------------------
(* Every persisted row is one the program writes.                          *)
StoreTypeOK ==
  /\ row \in [Missions -> [result: Statuses \cup {"none"}, raw: Statuses \cup {"none"},
                           async: BOOLEAN, events: Seq([kind: Kinds, seq: Nat])]]
  /\ \A m \in Missions : table[m] \subseteq [kind: Kinds, seq: Nat]

(* "Mirror the raw state exactly" (postgres.py:132): the event table holds *)
(* the events of the raw payload and nothing else, after any sequence of   *)
(* puts by attempts, cancels and failures that write different lists.      *)
EventsMirrorRaw ==
  \A m \in Missions : table[m] = Numbered(row[m].events)

(* Whatever attempts still report, a cancelled mission stays cancelled.    *)
CancelledForever ==
  [][\A m \in Missions : row[m].result = "cancelled" => row'[m].result = "cancelled"]_row

(* A cancel only ever replaces a running mission: a mission that has an    *)
(* outcome, of whichever attempt, never becomes a cancelled one.           *)
OutcomeNeverCancelled ==
  [][\A m \in Missions :
       row[m].result # "cancelled" /\ row'[m].result = "cancelled"
         => row[m].result = "running"]_row
=============================================================================
