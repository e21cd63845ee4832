--------------------------- MODULE MissionsProofs ---------------------------
(***************************************************************************)
(* Theorems about Missions, for every set of missions, jobs and cancel     *)
(* requests: any number of deliveries of one mission at once, cancels and  *)
(* deaths of processes at any moment. And about the daily snapshots of     *)
(* DomainHealth, for any domains, histories and thresholds, wherever a run *)
(* is killed; and about which days the words of a question mean            *)
(* (TimeRange).                                                            *)
(***************************************************************************)
EXTENDS DomainHealth, Missions, TimeRange, FiniteSetTheorems, SequenceTheorems, InductionLemmas, TLAPS

-----------------------------------------------------------------------------
(* The inductive invariant.                                                *)

Events == [kind: Kinds, seq: Nat]
RowRecord == [result: Statuses \cup {"none"}, raw: Statuses \cup {"none"},
              async: BOOLEAN, events: Seq(Events)]
Places == {"idle", "agent", "check", "restore", "mark", "markget", "markput",
           "except", "fail", "context", "contextget", "contextput", "dropflag",
           "cancel1", "cancel2", "cancel3", "cancel4", "cancel5",
           "refused", "accepted"}
Cancelling == {"cancel1", "cancel2", "cancel3", "cancel4", "cancel5"}
ProcRecord == [pc: Places, m: Missions \cup {"none"},
               ret: {"none", "client", "job", "except"},
               raw: RowRecord, got: Statuses \cup {"none"}]

StoreTypes ==
  /\ row \in [Missions -> RowRecord]
  /\ table = [m \in Missions |-> Numbered(row[m].events)]

FlagTypes ==
  /\ redis \in BOOLEAN /\ (~redis => shared = {})
  /\ local \in [Nodes -> SUBSET Missions] /\ shared \subseteq Missions

OtherTypes ==
  /\ thread \subseteq Missions
  /\ back \in [Missions -> Statuses \cup {"none", "todo", "done"}]
  /\ queued \subseteq Missions /\ threadCancel \subseteq queued
  /\ crashes \in 0..MaxCrashes
  /\ starts \in [Missions -> 0..MaxStarts] /\ ended \subseteq Missions

ProcTypes == proc \in [Processes -> ProcRecord]

\* A process at work has a mission; jobs and clients stay in their own code.
AtWork(p) ==
  /\ proc[p].pc = "idle" <=> proc[p].m = "none"
  /\ proc[p].pc = "idle" => proc[p].raw = NoRow
  /\ p \in Jobs => /\ proc[p].pc \notin {"refused", "accepted"}
                   /\ proc[p].pc \in Cancelling => proc[p].ret \in {"job", "except"}
  /\ p \in Clients => /\ proc[p].pc \in {"idle", "refused", "accepted"} \cup Cancelling
                      /\ proc[p].pc # "idle" => proc[p].ret = "client"

\* A payload that says cancelled, in the row or in the hands of a process, is
\* that of a mission that is.
CancelsAreTrue ==
  /\ \A m \in Missions : row[m].raw = "cancelled" => row[m].result = "cancelled"
  /\ \A p \in Processes :
       proc[p].raw.raw = "cancelled" \/ proc[p].pc = "accepted"
         => row[proc[p].m].result = "cancelled"

\* Whatever is queued or at work has a row, and what is put has a status.
RowsAreThere ==
  /\ \A m \in Missions : /\ row[m].result = "none" => row[m].raw = "none"
                         /\ m \in queued => row[m].result # "none"
                         /\ back[m] # "none" => m \in queued
  /\ \A p \in Processes :
       /\ proc[p].pc # "idle" => row[proc[p].m].result # "none"
       /\ proc[p].pc \in {"markput", "contextput"} => proc[p].got # "none"

\* A flag that is set belongs to a settled mission or to a process that is on
\* its way to take it back.
Settled(m) == row[m].raw = "cancelled" \/ m \in threadCancel \/ crashes > 0
Holds(p, m) == proc[p].m = m /\ proc[p].pc \in {"cancel3", "cancel4", "cancel5"}
FlagsAreOwned ==
  \A m \in Missions : ~Settled(m) =>
    /\ m \in shared => \E p \in Processes : Holds(p, m)
    /\ \A n \in Nodes : m \in local[n] => \E p \in Processes : Node(p) = n /\ Holds(p, m)

MissionsIInv ==
  /\ StoreTypes /\ FlagTypes /\ OtherTypes /\ ProcTypes
  /\ \A p \in Processes : AtWork(p)
  /\ CancelsAreTrue
  /\ RowsAreThere
  /\ FlagsAreOwned

-----------------------------------------------------------------------------
(* While no two executions of one mission overlap.                         *)

DeliveriesApart ==
  \A j, k \in Jobs : proc[j].m = proc[k].m /\ proc[j].m # "none" => j = k

Class(s) == IF s \in {"none", "running", "cancelled"} THEN s ELSE "ended"
SameClass(r) == Class(r.result) = Class(r.raw)

\* What a job that is about to put the row back has read of it.
HeldAgrees(j) ==
  LET p == proc[j] IN
  p.m \notin thread =>
    /\ p.pc \in {"restore", "check", "mark", "markget", "markput"} =>
         Class(row[p.m].result) \in {"ended", "cancelled"}
    /\ p.pc \in {"markget", "markput"} => Class(p.raw.raw) = "ended"
    /\ p.pc = "markput" => Class(p.got) = "ended"
    /\ p.pc \in {"contextget", "contextput"} =>
         /\ SameClass(p.raw)
         /\ row[p.m].result \in {"cancelled", p.raw.result}
    /\ p.pc = "contextput" =>
         \/ p.got = p.raw.result
         \/ p.got = "cancelled" /\ row[p.m].result = "cancelled"

SerialIInv ==
  /\ \A m \in Missions \ thread : SameClass(row[m]) /\ back[m] \in {"none", "done"}
  /\ \A j \in Jobs : HeldAgrees(j)

-----------------------------------------------------------------------------
(* The event table.                                                        *)

\* The cursor of Renumber is a natural number at every event, and follows its
\* definition.
LEMMA CursorOfRenumber ==
  ASSUME NEW events \in Seq(Events)
  PROVE  \E cursor \in [0..Len(events) -> Nat] :
           /\ Renumber(events) = [i \in 1..Len(events) |-> [events[i] EXCEPT !.seq = cursor[i]]]
           /\ \A i \in 1..Len(events) :
                cursor[i] = IF cursor[i - 1] + 1 > events[i].seq THEN cursor[i - 1] + 1
                            ELSE events[i].seq
<1> DEFINE n == Len(events)
           Number(g, i) == IF i = 0 THEN 0
                          ELSE IF g[i - 1] + 1 > events[i].seq THEN g[i - 1] + 1
                               ELSE events[i].seq
           Cursor(k) == {g \in [0..k -> Nat] : \A i \in 0..k : g[i] = Number(g, i)}
           cursor == CHOOSE g : g = [i \in 0..n |-> Number(g, i)]
<1>1. n \in Nat /\ \A i \in 1..n : events[i] \in Events /\ events[i].seq \in Nat
  <2>1. n \in Nat
    BY LenProperties
  <2>2. \A i \in 1..n : events[i] \in Events
    BY ElementOfSeq
  <2> QED BY <2>1, <2>2 DEF Events
<1> HIDE DEF n
\* There is a numbering of every prefix.
<1>2. \E g : g \in Cursor(n)
  <2> DEFINE S == {k \in Nat : k <= n => \E g : g \in Cursor(k)}
  <2>1. 0 \in S
    <3>1. [i \in 0..0 |-> 0] \in Cursor(0)
      OBVIOUS
    <3> QED BY <3>1
  <2>2. ASSUME NEW k \in Nat, k \in S PROVE k + 1 \in S
    <3> SUFFICES ASSUME k + 1 <= n PROVE \E g : g \in Cursor(k + 1)
      <4> HIDE DEF Cursor
      <4>1. k + 1 \in Nat
        OBVIOUS
      <4> QED BY <4>1
    <3>1. k <= n /\ k + 1 \in 1..n
      BY <1>1
    <3>2. PICK g \in Cursor(k) : TRUE
      <4> HIDE DEF Cursor
      <4> QED BY <2>2, <3>1
    <3> DEFINE v == IF g[k] + 1 > events[k + 1].seq THEN g[k] + 1 ELSE events[k + 1].seq
               h == [i \in 0..(k + 1) |-> IF i = k + 1 THEN v ELSE g[i]]
    <3>3. v \in Nat
      BY <3>1, <3>2, <1>1
    <3>4. h \in [0..(k + 1) -> Nat]
      BY <3>2, <3>3
    <3>5. ASSUME NEW i \in 0..(k + 1) PROVE h[i] = Number(h, i)
      <4>1. CASE i = k + 1
        <5>1. h[i] = v /\ h[i - 1] = g[k] /\ i # 0 /\ i - 1 = k
          BY <4>1
        <5> QED BY <4>1, <5>1
      <4>2. CASE i \in 1..k
        <5>1. h[i] = g[i] /\ h[i - 1] = g[i - 1] /\ i # 0 /\ i \in 0..k
          BY <4>2
        <5>2. g[i] = Number(g, i)
          BY <3>2, <5>1
        <5> QED BY <5>1, <5>2
      <4>3. CASE i = 0
        BY <3>2, <4>3
      <4> QED BY <4>1, <4>2, <4>3
    <3> QED BY <3>4, <3>5
  <2> HIDE DEF S
  <2>3. n \in S
    BY <1>1, <2>1, <2>2, InductionOverASet
  <2>4. n <= n
    BY <1>1
  <2> HIDE DEF Cursor
  <2> QED BY <2>3, <2>4 DEF S
<1>3. cursor = [i \in 0..n |-> Number(cursor, i)]
  <2>1. PICK g : g \in Cursor(n)
    BY <1>2
  <2>2. g = [i \in 0..n |-> Number(g, i)]
    BY <2>1
  <2> QED BY <2>2
<1> HIDE DEF cursor
<1>4. \A i \in 0..n : cursor[i] = Number(cursor, i)
  BY <1>3
<1>5. \A i \in 0..n : cursor[i] \in Nat
  <2> DEFINE S == {k \in Nat : k <= n => cursor[k] \in Nat}
  <2>1. 0 \in S
    <3>1. 0 \in 0..n
      BY <1>1
    <3>2. cursor[0] = 0
      BY <1>4, <3>1
    <3> QED BY <3>2
  <2>2. ASSUME NEW k \in Nat, k \in S PROVE k + 1 \in S
    <3> SUFFICES ASSUME k + 1 <= n PROVE cursor[k + 1] \in Nat
      OBVIOUS
    <3>1. k <= n /\ k + 1 # 0 /\ (k + 1) - 1 = k /\ k + 1 \in 0..n /\ k + 1 \in 1..n
      BY <1>1
    <3>2. cursor[k] \in Nat
      BY <2>2, <3>1
    <3>3. cursor[k + 1] = Number(cursor, k + 1)
      BY <1>4, <3>1
    <3> QED BY <1>1, <3>1, <3>2, <3>3
  <2> HIDE DEF S
  <2>3. Nat \subseteq S
    BY <2>1, <2>2, InductionOverASet
  <2> QED BY <2>3, <1>1 DEF S
<1>6. Renumber(events) = [i \in 1..n |-> [events[i] EXCEPT !.seq = cursor[i]]]
  BY DEF Renumber, cursor, n
<1>7. cursor \in [0..n -> Nat]
  BY <1>3, <1>5
<1>8. \A i \in 1..n : cursor[i] = IF cursor[i - 1] + 1 > events[i].seq THEN cursor[i - 1] + 1
                                  ELSE events[i].seq
  <2>1. \A i \in 1..n : i \in 0..n /\ i # 0
    OBVIOUS
  <2> QED BY <1>4, <2>1
<1> QED BY <1>6, <1>7, <1>8 DEF n

LEMMA RenumberTypes ==
  ASSUME NEW events \in Seq(Events)
  PROVE  Renumber(events) \in [1..Len(events) -> Events]
<1>1. PICK cursor \in [0..Len(events) -> Nat] :
        Renumber(events) = [i \in 1..Len(events) |-> [events[i] EXCEPT !.seq = cursor[i]]]
  BY CursorOfRenumber
<1>2. ASSUME NEW i \in 1..Len(events)
      PROVE  [events[i] EXCEPT !.seq = cursor[i]] \in Events
  <2>1. events[i] \in Events
    BY ElementOfSeq
  <2>2. cursor[i] \in Nat
    BY LenProperties
  <2> QED BY <2>1, <2>2 DEF Events
<1> QED BY <1>1, <1>2

LEMMA NumberedTypes ==
  ASSUME NEW events \in Seq(Events)
  PROVE  Numbered(events) \subseteq Events
<1>1. Renumber(events) \in [1..Len(events) -> Events]
  BY RenumberTypes
<1>2. Len(Renumber(events)) = Len(events)
  <2>1. Renumber(events) \in Seq(Events) /\ Len(events) \in Nat
    BY <1>1, LenProperties, IsASeq
  <2> QED BY <1>1, <2>1, LenProperties
<1> QED BY <1>1, <1>2 DEF Numbered

\* "Never below the author's, always increasing": a reader that has seen the
\* events up to one number misses none, whatever numbers their authors chose.
THEOREM RenumberIncreases ==
  ASSUME NEW events \in Seq(Events), NEW i \in 1..Len(events)
  PROVE  /\ Renumber(events)[i].kind = events[i].kind
         /\ Renumber(events)[i].seq >= events[i].seq
         /\ i > 1 => Renumber(events)[i].seq > Renumber(events)[i - 1].seq
<1>1. PICK cursor \in [0..Len(events) -> Nat] :
        /\ Renumber(events) = [k \in 1..Len(events) |-> [events[k] EXCEPT !.seq = cursor[k]]]
        /\ \A k \in 1..Len(events) :
             cursor[k] = IF cursor[k - 1] + 1 > events[k].seq THEN cursor[k - 1] + 1
                         ELSE events[k].seq
  BY CursorOfRenumber
<1>2. Len(events) \in Nat /\ \A k \in 1..Len(events) : events[k] \in Events
  BY LenProperties, ElementOfSeq
<1>3. \A k \in 1..Len(events) :
        /\ Renumber(events)[k].seq = cursor[k] /\ Renumber(events)[k].kind = events[k].kind
        /\ events[k].seq \in Nat
  BY <1>1, <1>2 DEF Events
<1>4. cursor[i] \in Nat /\ cursor[i - 1] \in Nat
  BY <1>1, <1>2
<1>5. cursor[i] >= events[i].seq /\ cursor[i] > cursor[i - 1]
  BY <1>1, <1>3, <1>4
<1>6. i > 1 => i - 1 \in 1..Len(events)
  BY <1>2
<1> QED BY <1>3, <1>5, <1>6

\* "Mirror the raw state exactly": the upsert and the pruning together leave
\* the numbered events and nothing else, whatever was stored before.
LEMMA PutEventsMirrors ==
  ASSUME NEW stored, NEW events
  PROVE  PutEvents(stored, events) = Numbered(events)
BY DEF PutEvents, Prune, Upsert

-----------------------------------------------------------------------------
(* What a put does to the rows.                                            *)

\* A cancelled row is left as it is, a row becomes cancelled only from running,
\* and no payload says cancelled of a mission that is not.
RowsKept ==
  /\ StoreTypes'
  /\ \A m \in Missions :
       /\ row[m].result = "cancelled" => row'[m] = row[m]
       /\ row'[m].raw = "cancelled" => row'[m].result = "cancelled"
       /\ row[m].result # "cancelled" /\ row'[m].result = "cancelled"
            => row[m].result = "running"
       /\ row'[m].result = "none" => row[m].result = "none" /\ row'[m].raw = "none"

LEMMA NoRowRecord == NoRow \in RowRecord
<1>1. <<>> \in Seq(Events)
  OBVIOUS
<1> QED BY <1>1 DEF NoRow, RowRecord

LEMMA SettledIsKept ==
  ASSUME StoreTypes, CancelsAreTrue, RowsKept, threadCancel \subseteq threadCancel',
         crashes' \in Nat, crashes \in Nat, crashes <= crashes', NEW m \in Missions, Settled(m)
  PROVE  Settled(m)'
BY DEF Settled, RowsKept, CancelsAreTrue

LEMMA StoreUnchanged ==
  ASSUME StoreTypes, CancelsAreTrue, RowsAreThere, UNCHANGED storeVars
  PROVE  RowsKept
BY DEF StoreTypes, storeVars, RowsKept, CancelsAreTrue, RowsAreThere

LEMMA PutKeepsRows ==
  ASSUME StoreTypes, CancelsAreTrue, RowsAreThere,
         NEW m \in Missions, NEW new \in Statuses, NEW raw \in RowRecord,
         Put(m, new, raw),
         raw.raw = "cancelled" => new = "cancelled" \/ row[m].result = "cancelled",
         row[m].result # "none" \/ new # "cancelled"
  PROVE  /\ RowsKept
         /\ \A k \in Missions : k # m => row'[k] = row[k]
         /\ \/ row'[m] = row[m]
            \/ PutApplies(row[m], new) /\ row'[m] = [raw EXCEPT !.result = new]
<1>1. CASE ~PutApplies(row[m], new)
  <2>1. UNCHANGED storeVars
    BY <1>1 DEF Put
  <2> QED BY <2>1, StoreUnchanged DEF storeVars
<1>2. CASE PutApplies(row[m], new)
  <2> DEFINE r == [raw EXCEPT !.result = new]
  <2>1. /\ row' = [row EXCEPT ![m] = r]
        /\ table' = [table EXCEPT ![m] = PutEvents(@, raw.events)]
    BY <1>2 DEF Put
  <2>2. r \in RowRecord /\ r.result = new /\ r.raw = raw.raw /\ r.events = raw.events
    BY DEF RowRecord
  <2> HIDE DEF r
  <2>3. row' \in [Missions -> RowRecord]
    BY <2>1, <2>2 DEF StoreTypes
  <2>4. row'[m] = r /\ \A k \in Missions : k # m => row'[k] = row[k]
    BY <2>1 DEF StoreTypes
  <2>5. table' = [k \in Missions |-> Numbered(row'[k].events)]
    <3>1. table' = [table EXCEPT ![m] = Numbered(raw.events)]
      BY <2>1, PutEventsMirrors
    <3> QED BY <2>2, <2>4, <3>1 DEF StoreTypes
  <2>6. row[m].result # "cancelled"
    BY <1>2 DEF PutApplies
  <2>7. new = "cancelled" => row[m].result = "running"
    BY <1>2 DEF PutApplies
  <2>8. new # "none"
    BY DEF Statuses
  <2>9. ASSUME NEW k \in Missions
        PROVE  /\ row[k].result = "cancelled" => row'[k] = row[k]
               /\ row'[k].raw = "cancelled" => row'[k].result = "cancelled"
               /\ row[k].result # "cancelled" /\ row'[k].result = "cancelled"
                    => row[k].result = "running"
               /\ row'[k].result = "none" => row[k].result = "none" /\ row'[k].raw = "none"
    <3>1. CASE k = m
      BY <2>2, <2>4, <2>6, <2>7, <2>8, <3>1
    <3>2. CASE k # m
      BY <2>4, <3>2 DEF CancelsAreTrue, RowsAreThere
    <3> QED BY <3>1, <3>2
  <2>10. RowsKept
    BY <2>3, <2>5, <2>9 DEF RowsKept, StoreTypes
  <2> QED BY <1>2, <2>4, <2>10 DEF r
<1> QED BY <1>1, <1>2

-----------------------------------------------------------------------------
(* The invariant is kept.                                                  *)

\* One process moves.
OneMoves(p) ==
  /\ proc' \in [Processes -> ProcRecord]
  /\ \A q \in Processes : q # p => proc'[q] = proc[q]

LEMMA GotoFields ==
  ASSUME ProcTypes, NEW p \in Processes, NEW pc \in Places, Goto(p, pc)
  PROVE  /\ OneMoves(p)
         /\ proc'[p].pc = pc /\ proc'[p].m = proc[p].m /\ proc'[p].ret = proc[p].ret
         /\ proc'[p].raw = NoRow /\ proc'[p].got = "none"
<1>1. proc' = [proc EXCEPT ![p].pc = pc, ![p].raw = NoRow, ![p].got = "none"]
  BY DEF Goto
<1>2. proc[p] \in ProcRecord
  BY DEF ProcTypes
<1>3. /\ proc'[p] = [proc[p] EXCEPT !.pc = pc, !.raw = NoRow, !.got = "none"]
      /\ \A q \in Processes : q # p => proc'[q] = proc[q]
      /\ DOMAIN proc' = Processes /\ proc' = [q \in Processes |-> proc'[q]]
  BY <1>1 DEF ProcTypes
<1>4. proc'[p] \in ProcRecord
  BY <1>2, <1>3, NoRowRecord DEF ProcRecord
<1>5. /\ proc'[p].pc = pc /\ proc'[p].m = proc[p].m /\ proc'[p].ret = proc[p].ret
      /\ proc'[p].raw = NoRow /\ proc'[p].got = "none"
  BY <1>2, <1>3 DEF ProcRecord
<1>6. OneMoves(p)
  BY <1>3, <1>4 DEF OneMoves, ProcTypes
<1> QED BY <1>5, <1>6

\* A step of one process that stays on its mission has to be looked at for that
\* process and that mission only.
LEMMA WorkStep ==
  ASSUME MissionsIInv, RowsKept, NEW p \in Processes, OneMoves(p),
         proc[p].pc # "idle", proc'[p].m = proc[p].m, proc'[p].pc # "idle",
         UNCHANGED <<fixed, back, queued, threadCancel, starts, ended, crashes>>,
         AtWork(p)',
         proc'[p].raw.raw = "cancelled" \/ proc'[p].pc = "accepted"
           => row'[proc[p].m].result = "cancelled",
         proc'[p].pc \in {"markput", "contextput"} => proc'[p].got # "none",
         \/ /\ UNCHANGED flagVars
            /\ Holds(p, proc[p].m) => Holds(p, proc[p].m)' \/ row'[proc[p].m].raw = "cancelled"
         \/ clear_cancel(p, proc[p].m)
         \/ request_cancel(p, proc[p].m) /\ Holds(p, proc[p].m)'
  PROVE  MissionsIInv'
<1> DEFINE m == proc[p].m
<1>1. /\ StoreTypes /\ FlagTypes /\ OtherTypes /\ ProcTypes /\ CancelsAreTrue
      /\ RowsAreThere /\ FlagsAreOwned
      /\ \A q \in Processes : AtWork(q)
  BY DEF MissionsIInv
<1>2. /\ proc' \in [Processes -> ProcRecord]
      /\ \A q \in Processes : q # p => proc'[q] = proc[q]
  BY DEF OneMoves
<1>3. \A q \in Processes : proc[q] \in ProcRecord /\ proc[q].m \in Missions \cup {"none"}
  BY <1>1 DEF ProcTypes, ProcRecord
<1>4. m \in Missions
  BY <1>1, <1>3 DEF AtWork
<1>5. StoreTypes' /\ ProcTypes'
  BY <1>2 DEF RowsKept, ProcTypes
<1>6. FlagTypes'
  BY <1>1, <1>4 DEF FlagTypes, flagVars, fixed, clear_cancel, request_cancel
<1>7. OtherTypes'
  BY <1>1 DEF OtherTypes, fixed
<1>8. \A q \in Processes : AtWork(q)'
  BY <1>1, <1>2 DEF AtWork
<1>9. CancelsAreTrue'
  <2>1. \A k \in Missions : row'[k].raw = "cancelled" => row'[k].result = "cancelled"
    BY DEF RowsKept
  <2>2. ASSUME NEW q \in Processes,
               proc'[q].raw.raw = "cancelled" \/ proc'[q].pc = "accepted"
        PROVE  row'[proc'[q].m].result = "cancelled"
    <3>1. CASE q = p
      BY <2>2, <3>1
    <3>2. CASE q # p
      <4>1. proc'[q] = proc[q] /\ row[proc[q].m].result = "cancelled"
        BY <1>1, <1>2, <2>2, <3>2 DEF CancelsAreTrue
      <4>2. proc[q].pc # "idle"
        BY <1>1, <2>2, <4>1 DEF AtWork, NoRow
      <4>3. proc[q].m \in Missions
        BY <1>1, <1>3, <4>2 DEF AtWork
      <4> QED BY <4>1, <4>3 DEF RowsKept
    <3> QED BY <3>1, <3>2
  <2> QED BY <2>1, <2>2 DEF CancelsAreTrue
<1>10. RowsAreThere'
  <2>1. ASSUME NEW k \in Missions
        PROVE  /\ row'[k].result = "none" => row'[k].raw = "none"
               /\ k \in queued' => row'[k].result # "none"
               /\ back'[k] # "none" => k \in queued'
    BY <1>1 DEF RowsKept, RowsAreThere
  <2>2. ASSUME NEW q \in Processes
        PROVE  /\ proc'[q].pc # "idle" => row'[proc'[q].m].result # "none"
               /\ proc'[q].pc \in {"markput", "contextput"} => proc'[q].got # "none"
    <3>1. CASE q = p
      BY <1>1, <1>4, <3>1 DEF RowsKept, RowsAreThere
    <3>2. CASE q # p
      <4>1. proc'[q] = proc[q]
        BY <1>2, <3>2
      <4>2. proc[q].pc # "idle" => proc[q].m \in Missions
        BY <1>1, <1>3 DEF AtWork
      <4> QED BY <1>1, <4>1, <4>2 DEF RowsKept, RowsAreThere
    <3> QED BY <3>1, <3>2
  <2> QED BY <2>1, <2>2 DEF RowsAreThere
<1>11. FlagsAreOwned'
  <2>1. SUFFICES ASSUME NEW k \in Missions, ~Settled(k)'
        PROVE  /\ k \in shared' => \E q \in Processes : Holds(q, k)'
               /\ \A n \in Nodes : k \in local'[n] =>
                    \E q \in Processes : Node(q) = n /\ Holds(q, k)'
    BY DEF FlagsAreOwned, Node
  <2>2. ~Settled(k) /\ (k = m => row'[m].raw # "cancelled")
    BY <1>1, <2>1 DEF Settled, RowsKept, CancelsAreTrue
  <2>3. \A q \in Processes : q # p /\ Holds(q, k) => Holds(q, k)'
    BY <1>2 DEF Holds
  <2>4. k # m => ~Holds(p, k) /\ ~Holds(p, k)'
    BY DEF Holds
  <2>5. /\ k \in shared => \E q \in Processes : Holds(q, k)
        /\ \A n \in Nodes : k \in local[n] => \E q \in Processes : Node(q) = n /\ Holds(q, k)
    BY <1>1, <2>2 DEF FlagsAreOwned
  <2>6. Node(p) \in Nodes
    BY DEF Node, Nodes
  <2>7. CASE UNCHANGED flagVars /\ (Holds(p, m) => Holds(p, m)' \/ row'[m].raw = "cancelled")
    BY <2>2, <2>3, <2>4, <2>5, <2>7 DEF flagVars
  <2>8. CASE clear_cancel(p, m)
    <3>1. /\ shared' \subseteq shared /\ (redis => (k = m => k \notin shared'))
          /\ local' = [local EXCEPT ![Node(p)] = @ \ {m}]
      BY <2>8 DEF clear_cancel
    <3>2. k \in shared' => redis
      BY <1>1, <3>1 DEF FlagTypes
    <3>3. \A n \in Nodes : k \in local'[n] => k \in local[n] /\ (k = m => n # Node(p))
      BY <1>1, <2>6, <3>1 DEF FlagTypes
    <3> QED BY <2>3, <2>4, <2>5, <3>1, <3>2, <3>3
  <2>9. CASE request_cancel(p, m) /\ Holds(p, m)'
    <3>1. /\ k # m => (k \in shared' => k \in shared)
          /\ local' = [local EXCEPT ![Node(p)] = @ \cup {m}]
      BY <2>9 DEF request_cancel
    <3>2. \A n \in Nodes : k \in local'[n] => k \in local[n] \/ (k = m /\ n = Node(p))
      BY <1>1, <2>6, <3>1 DEF FlagTypes
    <3> QED BY <2>3, <2>4, <2>5, <2>9, <3>1, <3>2
  <2> QED BY <2>7, <2>8, <2>9
<1> QED BY <1>5, <1>6, <1>7, <1>8, <1>9, <1>10, <1>11 DEF MissionsIInv

\* What an action of a process at work starts from.
LEMMA AtWorkFacts ==
  ASSUME MissionsIInv, NEW p \in Processes, proc[p].pc # "idle"
  PROVE  /\ ProcTypes /\ AtWork(p) /\ proc[p] \in ProcRecord
         /\ proc[p].m \in Missions
         /\ row[proc[p].m] \in RowRecord /\ row[proc[p].m].result # "none"
         /\ row[proc[p].m].raw = "cancelled" => row[proc[p].m].result = "cancelled"
         /\ proc[p].raw.raw = "cancelled" => row[proc[p].m].result = "cancelled"
<1>1. ProcTypes /\ AtWork(p) /\ StoreTypes /\ CancelsAreTrue /\ RowsAreThere
  BY DEF MissionsIInv
<1>2. proc[p] \in ProcRecord
  BY <1>1 DEF ProcTypes
<1>3. proc[p].m \in Missions
  BY <1>1, <1>2 DEF AtWork, ProcRecord
<1> QED BY <1>1, <1>2, <1>3 DEF StoreTypes, CancelsAreTrue, RowsAreThere

LEMMA QuietRows ==
  ASSUME MissionsIInv, UNCHANGED storeVars
  PROVE  RowsKept
BY StoreUnchanged DEF MissionsIInv

\* A job that goes somewhere else without touching store or flags.
LEMMA JobGoes ==
  ASSUME MissionsIInv, NEW j \in Jobs, NEW pc \in Places \ ({"idle", "refused", "accepted"} \cup Cancelling),
         pc \notin {"markput", "contextput"},
         proc[j].pc \notin {"idle"} \cup Cancelling, Goto(j, pc), RowsKept,
         UNCHANGED flagVars \/ clear_cancel(j, proc[j].m),
         UNCHANGED <<fixed, back, queued, threadCancel, starts, ended, crashes>>
  PROVE  MissionsIInv'
<1>1. j \in Processes /\ j \notin Clients
  BY MissionBounds DEF Processes
<1>2. ProcTypes /\ AtWork(j)
  BY <1>1, AtWorkFacts
<1>3. /\ OneMoves(j)
      /\ proc'[j].pc = pc /\ proc'[j].m = proc[j].m /\ proc'[j].ret = proc[j].ret
      /\ proc'[j].raw = NoRow /\ proc'[j].got = "none"
  BY <1>1, <1>2, GotoFields
<1>4. AtWork(j)'
  BY <1>1, <1>2, <1>3 DEF AtWork
<1>5. proc'[j].raw.raw # "cancelled" /\ proc'[j].pc # "accepted"
  BY <1>3 DEF NoRow
<1>6. ~Holds(j, proc[j].m)
  BY DEF Holds, Cancelling
<1> QED BY <1>1, <1>3, <1>4, <1>5, <1>6, WorkStep

\* The payload of an agent's outcome.
LEMMA OutcomeRow ==
  ASSUME NEW status \in {"completed", "partial", "failed"}, NEW wave \in BOOLEAN
  PROVE  [NoRow EXCEPT !.raw = status, !.events = v3_events(status, wave)] \in RowRecord
<1>1. v3_events(status, wave) \in Seq(Events)
  <2>1. <<Event("created", 1)>> \in Seq(Events)
    BY DEF Event, Events, Kinds
  <2>2. <<Event("wave", 2)>> \in Seq(Events) /\ <<>> \in Seq(Events)
    BY DEF Event, Events, Kinds
  <2>3. <<Event(status, IF wave THEN 3 ELSE 2)>> \in Seq(Events)
    BY DEF Event, Events, Kinds
  <2> QED BY <2>1, <2>2, <2>3, ConcatProperties DEF v3_events
<1> QED BY <1>1, NoRowRecord DEF RowRecord, NoRow, Statuses

LEMMA AgentReturnsStep ==
  ASSUME MissionsIInv, NEW j \in Jobs, AgentReturns(j)
  PROVE  MissionsIInv' /\ RowsKept
<1>1. proc[j].pc = "agent" /\ Goto(j, "check")
      /\ UNCHANGED <<fixed, back, flagVars, queued, threadCancel, starts, ended, crashes>>
  BY DEF AgentReturns
<1>2. proc[j].m \in Missions /\ row[proc[j].m].result # "none"
  BY <1>1, AtWorkFacts DEF Processes
<1>3. PICK status \in Outcomes, wave \in BOOLEAN :
        Put(proc[j].m, status, [NoRow EXCEPT !.raw = status, !.events = v3_events(status, wave)])
  BY DEF AgentReturns
<1> DEFINE raw == [NoRow EXCEPT !.raw = status, !.events = v3_events(status, wave)]
<1>4. status \in {"completed", "partial", "failed"}
  BY MissionBounds
<1>6. raw \in RowRecord /\ raw.raw = status
  BY <1>4, OutcomeRow DEF NoRow
<1>7. RowsKept
  <2> HIDE DEF raw
  <2>1. status \in Statuses /\ raw.raw # "cancelled"
    BY <1>4, <1>6 DEF Statuses
  <2>2. Put(proc[j].m, status, raw)
    BY <1>3 DEF raw
  <2> QED BY <1>2, <1>6, <2>1, <2>2, PutKeepsRows DEF MissionsIInv
<1>8. "check" \in Places \ ({"idle", "refused", "accepted"} \cup Cancelling)
  BY DEF Places, Cancelling
<1>9. proc[j].pc \notin {"idle"} \cup Cancelling
  BY <1>1 DEF Cancelling
<1> QED BY <1>1, <1>7, <1>8, <1>9, JobGoes

\* An action that sets the place of a process and one more field.
LEMMA RawFields ==
  ASSUME ProcTypes, NEW p \in Processes, NEW pc \in Places, NEW r \in RowRecord,
         proc' = [proc EXCEPT ![p].pc = pc, ![p].raw = r]
  PROVE  /\ OneMoves(p)
         /\ proc'[p].pc = pc /\ proc'[p].m = proc[p].m /\ proc'[p].raw = r
         /\ proc'[p].ret = proc[p].ret /\ proc'[p].got = proc[p].got
<1>1. proc[p] \in ProcRecord
  BY DEF ProcTypes
<1>2. /\ proc'[p] = [proc[p] EXCEPT !.pc = pc, !.raw = r]
      /\ \A q \in Processes : q # p => proc'[q] = proc[q]
      /\ proc' = [q \in Processes |-> proc'[q]]
  BY DEF ProcTypes
<1>3. proc'[p] \in ProcRecord
  BY <1>1, <1>2 DEF ProcRecord
<1>4. OneMoves(p)
  BY <1>2, <1>3 DEF OneMoves, ProcTypes
<1> QED BY <1>1, <1>2, <1>4 DEF ProcRecord

LEMMA GotFields ==
  ASSUME ProcTypes, NEW p \in Processes, NEW pc \in Places, NEW g \in Statuses \cup {"none"},
         proc' = [proc EXCEPT ![p].pc = pc, ![p].got = g]
  PROVE  /\ OneMoves(p)
         /\ proc'[p].pc = pc /\ proc'[p].m = proc[p].m /\ proc'[p].got = g
         /\ proc'[p].ret = proc[p].ret /\ proc'[p].raw = proc[p].raw
<1>1. proc[p] \in ProcRecord
  BY DEF ProcTypes
<1>2. /\ proc'[p] = [proc[p] EXCEPT !.pc = pc, !.got = g]
      /\ \A q \in Processes : q # p => proc'[q] = proc[q]
      /\ proc' = [q \in Processes |-> proc'[q]]
  BY DEF ProcTypes
<1>3. proc'[p] \in ProcRecord
  BY <1>1, <1>2 DEF ProcRecord
<1>4. OneMoves(p)
  BY <1>2, <1>3 DEF OneMoves, ProcTypes
<1> QED BY <1>1, <1>2, <1>4 DEF ProcRecord

LEMMA RetFields ==
  ASSUME ProcTypes, NEW p \in Processes, NEW pc \in Places, NEW t \in {"none", "client", "job", "except"},
         proc' = [proc EXCEPT ![p].pc = pc, ![p].ret = t]
  PROVE  /\ OneMoves(p)
         /\ proc'[p].pc = pc /\ proc'[p].m = proc[p].m /\ proc'[p].ret = t
         /\ proc'[p].raw = proc[p].raw /\ proc'[p].got = proc[p].got
<1>1. proc[p] \in ProcRecord
  BY DEF ProcTypes
<1>2. /\ proc'[p] = [proc[p] EXCEPT !.pc = pc, !.ret = t]
      /\ \A q \in Processes : q # p => proc'[q] = proc[q]
      /\ proc' = [q \in Processes |-> proc'[q]]
  BY DEF ProcTypes
<1>3. proc'[p] \in ProcRecord
  BY <1>1, <1>2 DEF ProcRecord
<1>4. OneMoves(p)
  BY <1>2, <1>3 DEF OneMoves, ProcTypes
<1> QED BY <1>1, <1>2, <1>4 DEF ProcRecord

LEMMA JobPlaces ==
  \A pc \in {"agent", "check", "restore", "mark", "except", "fail", "context", "dropflag",
             "contextget", "markget"} :
    pc \in Places \ ({"idle", "refused", "accepted"} \cup Cancelling)
BY DEF Places, Cancelling

LEMMA AgentRaisesStep ==
  ASSUME MissionsIInv, NEW j \in Jobs, AgentRaises(j)
  PROVE  MissionsIInv'
<1>1. /\ proc[j].pc = "agent" /\ Goto(j, "except")
      /\ UNCHANGED <<storeVars, fixed, back, flagVars, queued, threadCancel, starts, ended, crashes>>
  BY DEF AgentRaises
<1>2. proc[j].pc \notin {"idle"} \cup Cancelling
  BY <1>1 DEF Cancelling
<1> QED BY <1>1, <1>2, JobPlaces, JobGoes, QuietRows

LEMMA JobCheckStep ==
  ASSUME MissionsIInv, NEW j \in Jobs, JobCheck(j)
  PROVE  MissionsIInv'
<1>1. /\ proc[j].pc = "check" /\ (Goto(j, "restore") \/ Goto(j, "mark"))
      /\ UNCHANGED <<storeVars, fixed, back, flagVars, queued, threadCancel, starts, ended, crashes>>
  BY DEF JobCheck
<1>2. proc[j].pc \notin {"idle"} \cup Cancelling
  BY <1>1 DEF Cancelling
<1> QED BY <1>1, <1>2, JobPlaces, JobGoes, QuietRows

\* A job that turns to cancel_running_mission.
LEMMA JobCancels ==
  ASSUME MissionsIInv, NEW j \in Jobs, NEW ret \in {"job", "except"},
         proc[j].pc \notin {"idle"} \cup Cancelling,
         proc' = [proc EXCEPT ![j].pc = "cancel1", ![j].ret = ret],
         UNCHANGED <<storeVars, flagVars, fixed, back, queued, threadCancel, starts, ended, crashes>>
  PROVE  MissionsIInv'
<1>1. j \in Processes /\ j \notin Clients
  BY MissionBounds DEF Processes
<1>2. /\ ProcTypes /\ AtWork(j)
      /\ proc[j].raw.raw = "cancelled" => row[proc[j].m].result = "cancelled"
  BY <1>1, AtWorkFacts
<1>3. /\ OneMoves(j)
      /\ proc'[j].pc = "cancel1" /\ proc'[j].m = proc[j].m /\ proc'[j].ret = ret
      /\ proc'[j].raw = proc[j].raw
  <2>1. "cancel1" \in Places
    BY DEF Places
  <2> QED BY <1>1, <1>2, <2>1, RetFields
<1>4. AtWork(j)'
  BY <1>1, <1>2, <1>3 DEF AtWork
<1>5. row' = row /\ ~Holds(j, proc[j].m)
  BY DEF storeVars, Holds, Cancelling
<1> QED BY <1>1, <1>2, <1>3, <1>4, <1>5, WorkStep, QuietRows

LEMMA JobRestoreStep ==
  ASSUME MissionsIInv, NEW j \in Jobs, JobRestore(j)
  PROVE  MissionsIInv'
<1>1. /\ proc[j].pc = "restore"
      /\ UNCHANGED <<storeVars, fixed, back, queued, threadCancel, starts, ended, crashes>>
      /\ \/ clear_cancel(j, proc[j].m) /\ Goto(j, "context")
         \/ /\ proc' = [proc EXCEPT ![j].pc = "cancel1", ![j].ret = "job"]
            /\ UNCHANGED flagVars
  BY DEF JobRestore
<1>2. proc[j].pc \notin {"idle"} \cup Cancelling
  BY <1>1 DEF Cancelling
<1>3. CASE clear_cancel(j, proc[j].m) /\ Goto(j, "context")
  BY <1>1, <1>2, <1>3, JobPlaces, JobGoes, QuietRows
<1>4. CASE /\ proc' = [proc EXCEPT ![j].pc = "cancel1", ![j].ret = "job"]
           /\ UNCHANGED flagVars
  BY <1>1, <1>2, <1>4, JobCancels
<1> QED BY <1>1, <1>3, <1>4

LEMMA JobMarkStep ==
  ASSUME MissionsIInv, NEW j \in Jobs, JobMark(j)
  PROVE  MissionsIInv'
<1> DEFINE m == proc[j].m
           raw == [row[m] EXCEPT !.async = TRUE]
<1>1. /\ proc[j].pc = "mark"
      /\ UNCHANGED <<storeVars, fixed, back, queued, threadCancel, starts, ended, crashes>>
      /\ \/ /\ row[m].raw # "cancelled" /\ UNCHANGED flagVars
            /\ proc' = [proc EXCEPT ![j].pc = "markget", ![j].raw = raw]
         \/ clear_cancel(j, m) /\ Goto(j, "context")
  BY DEF JobMark, get_raw
<1>2. proc[j].pc \notin {"idle"} \cup Cancelling
  BY <1>1 DEF Cancelling
<1>3. j \in Processes /\ j \notin Clients
  BY MissionBounds DEF Processes
<1>4. CASE clear_cancel(j, m) /\ Goto(j, "context")
  BY <1>1, <1>2, <1>4, JobPlaces, JobGoes, QuietRows
<1>5. CASE /\ row[m].raw # "cancelled" /\ UNCHANGED flagVars
           /\ proc' = [proc EXCEPT ![j].pc = "markget", ![j].raw = raw]
  <2>1. ProcTypes /\ AtWork(j) /\ row[m] \in RowRecord
    BY <1>2, <1>3, AtWorkFacts
  <2>2. raw \in RowRecord /\ raw.raw # "cancelled"
    BY <1>5, <2>1 DEF RowRecord
  <2> HIDE DEF raw
  <2>3. /\ OneMoves(j)
        /\ proc'[j].pc = "markget" /\ proc'[j].m = m /\ proc'[j].ret = proc[j].ret
        /\ proc'[j].raw = raw
    <3>1. "markget" \in Places
      BY DEF Places
    <3> QED BY <1>3, <1>5, <2>1, <2>2, <3>1, RawFields
  <2>4. AtWork(j)'
    BY <1>2, <1>3, <2>1, <2>3 DEF AtWork, Cancelling
  <2>5. ~Holds(j, m)
    BY <1>1 DEF Holds
  <2> QED BY <1>1, <1>3, <1>5, <2>2, <2>3, <2>4, <2>5, WorkStep, QuietRows
<1> QED BY <1>1, <1>4, <1>5

\* get(m): what was put before is read.
LEMMA JobReads ==
  ASSUME MissionsIInv, NEW j \in Jobs, NEW pc \in {"markput", "contextput"},
         proc[j].pc \notin {"idle"} \cup Cancelling,
         proc' = [proc EXCEPT ![j].pc = pc, ![j].got = row[proc[j].m].result],
         UNCHANGED <<storeVars, flagVars, fixed, back, queued, threadCancel, starts, ended, crashes>>
  PROVE  MissionsIInv'
<1>1. j \in Processes /\ j \notin Clients
  BY MissionBounds DEF Processes
<1>2. /\ ProcTypes /\ AtWork(j) /\ row[proc[j].m] \in RowRecord
      /\ row[proc[j].m].result # "none"
      /\ proc[j].raw.raw = "cancelled" => row[proc[j].m].result = "cancelled"
  BY <1>1, AtWorkFacts
<1>3. /\ OneMoves(j)
      /\ proc'[j].pc = pc /\ proc'[j].m = proc[j].m /\ proc'[j].ret = proc[j].ret
      /\ proc'[j].raw = proc[j].raw /\ proc'[j].got = row[proc[j].m].result
  <2> DEFINE g == row[proc[j].m].result
  <2>1. pc \in Places /\ g \in Statuses \cup {"none"}
    BY <1>2 DEF Places, RowRecord
  <2>2. proc' = [proc EXCEPT ![j].pc = pc, ![j].got = g]
    OBVIOUS
  <2> HIDE DEF g
  <2>3. /\ OneMoves(j)
        /\ proc'[j].pc = pc /\ proc'[j].m = proc[j].m /\ proc'[j].got = g
        /\ proc'[j].ret = proc[j].ret /\ proc'[j].raw = proc[j].raw
    BY <1>1, <1>2, <2>1, <2>2, GotFields
  <2> QED BY <2>3 DEF g
<1>4. AtWork(j)'
  BY <1>1, <1>2, <1>3 DEF AtWork, Cancelling
<1>5. row' = row /\ ~Holds(j, proc[j].m)
  BY DEF storeVars, Holds, Cancelling
<1> QED BY <1>1, <1>2, <1>3, <1>4, <1>5, WorkStep, QuietRows

LEMMA JobMarkGetStep ==
  ASSUME MissionsIInv, NEW j \in Jobs, JobMarkGet(j)
  PROVE  MissionsIInv'
<1>1. /\ proc[j].pc = "markget"
      /\ UNCHANGED <<storeVars, fixed, back, queued, threadCancel, starts, ended, crashes>>
      /\ \/ /\ proc' = [proc EXCEPT ![j].pc = "markput", ![j].got = row[proc[j].m].result]
            /\ UNCHANGED flagVars
         \/ clear_cancel(j, proc[j].m) /\ Goto(j, "context")
  BY DEF JobMarkGet, get
<1>2. proc[j].pc \notin {"idle"} \cup Cancelling
  BY <1>1 DEF Cancelling
<1>3. CASE clear_cancel(j, proc[j].m) /\ Goto(j, "context")
  BY <1>1, <1>2, <1>3, JobPlaces, JobGoes, QuietRows
<1>4. CASE /\ proc' = [proc EXCEPT ![j].pc = "markput", ![j].got = row[proc[j].m].result]
           /\ UNCHANGED flagVars
  BY <1>1, <1>2, <1>4, JobReads
<1> QED BY <1>1, <1>3, <1>4

LEMMA JobMarkPutStep ==
  ASSUME MissionsIInv, NEW j \in Jobs, JobMarkPut(j)
  PROVE  MissionsIInv' /\ RowsKept
<1>1. /\ proc[j].pc = "markput" /\ Put(proc[j].m, proc[j].got, proc[j].raw)
      /\ clear_cancel(j, proc[j].m) /\ Goto(j, "context")
      /\ UNCHANGED <<fixed, back, queued, threadCancel, starts, ended, crashes>>
  BY DEF JobMarkPut
<1>2. proc[j].pc \notin {"idle"} \cup Cancelling
  BY <1>1 DEF Cancelling
<1>3. RowsKept
  <2>1. j \in Processes /\ proc[j].got # "none"
    BY <1>1 DEF Processes, MissionsIInv, RowsAreThere
  <2>2. /\ proc[j] \in ProcRecord /\ proc[j].m \in Missions /\ row[proc[j].m].result # "none"
        /\ proc[j].raw.raw = "cancelled" => row[proc[j].m].result = "cancelled"
    BY <1>2, <2>1, AtWorkFacts
  <2>3. proc[j].got \in Statuses /\ proc[j].raw \in RowRecord
    BY <2>1, <2>2 DEF ProcRecord
  <2> QED BY <1>1, <2>2, <2>3, PutKeepsRows DEF MissionsIInv
<1> QED BY <1>1, <1>2, <1>3, JobPlaces, JobGoes

LEMMA JobExceptStep ==
  ASSUME MissionsIInv, NEW j \in Jobs, JobExcept(j)
  PROVE  MissionsIInv'
<1>1. /\ proc[j].pc = "except"
      /\ UNCHANGED <<storeVars, fixed, back, queued, threadCancel, starts, ended, crashes>>
      /\ \/ Goto(j, "fail") /\ UNCHANGED flagVars
         \/ clear_cancel(j, proc[j].m) /\ Goto(j, "context")
         \/ /\ proc' = [proc EXCEPT ![j].pc = "cancel1", ![j].ret = "except"]
            /\ UNCHANGED flagVars
  BY DEF JobExcept
<1>2. proc[j].pc \notin {"idle"} \cup Cancelling
  BY <1>1 DEF Cancelling
<1>3. CASE \/ Goto(j, "fail") /\ UNCHANGED flagVars
           \/ clear_cancel(j, proc[j].m) /\ Goto(j, "context")
  BY <1>1, <1>2, <1>3, JobPlaces, JobGoes, QuietRows
<1>4. CASE /\ proc' = [proc EXCEPT ![j].pc = "cancel1", ![j].ret = "except"]
           /\ UNCHANGED flagVars
  BY <1>1, <1>2, <1>4, JobCancels
<1> QED BY <1>1, <1>3, <1>4

LEMMA JobFailStep ==
  ASSUME MissionsIInv, NEW j \in Jobs, JobFail(j)
  PROVE  MissionsIInv' /\ RowsKept
<1> DEFINE raw == [NoRow EXCEPT !.raw = "failed", !.async = TRUE, !.events = <<Event("failed", 2)>>]
<1>1. /\ proc[j].pc = "fail" /\ Put(proc[j].m, "failed", raw)
      /\ clear_cancel(j, proc[j].m) /\ Goto(j, "context")
      /\ UNCHANGED <<fixed, back, queued, threadCancel, starts, ended, crashes>>
  BY DEF JobFail
<1>2. proc[j].pc \notin {"idle"} \cup Cancelling
  BY <1>1 DEF Cancelling
<1>3. raw \in RowRecord /\ raw.raw = "failed"
  <2>1. <<Event("failed", 2)>> \in Seq(Events)
    BY DEF Event, Events, Kinds
  <2> QED BY <2>1, NoRowRecord DEF RowRecord, NoRow, Statuses
<1> HIDE DEF raw
<1>4. RowsKept
  <2>1. j \in Processes /\ "failed" \in Statuses
    BY DEF Processes, Statuses
  <2>2. proc[j].m \in Missions /\ row[proc[j].m].result # "none"
    BY <1>2, <2>1, AtWorkFacts
  <2> QED BY <1>1, <1>3, <2>1, <2>2, PutKeepsRows DEF MissionsIInv
<1> QED BY <1>1, <1>2, <1>4, JobPlaces, JobGoes

LEMMA DropFlagStep ==
  ASSUME MissionsIInv, NEW j \in Jobs, DropFlag(j)
  PROVE  MissionsIInv'
<1>1. /\ proc[j].pc = "dropflag" /\ clear_cancel(j, proc[j].m) /\ Goto(j, "context")
      /\ UNCHANGED <<storeVars, fixed, back, queued, threadCancel, starts, ended, crashes>>
  BY DEF DropFlag
<1>2. proc[j].pc \notin {"idle"} \cup Cancelling
  BY <1>1 DEF Cancelling
<1> QED BY <1>1, <1>2, JobPlaces, JobGoes, QuietRows

LEMMA ContextReadStep ==
  ASSUME MissionsIInv, NEW j \in Jobs, ContextRead(j)
  PROVE  MissionsIInv'
<1> DEFINE raw == row[proc[j].m]
<1>1. /\ proc[j].pc = "context"
      /\ proc' = [proc EXCEPT ![j].pc = "contextget", ![j].raw = raw]
      /\ UNCHANGED <<storeVars, fixed, back, flagVars, queued, threadCancel, starts, ended, crashes>>
  BY DEF ContextRead, get_raw
<1>2. j \in Processes /\ j \notin Clients
  BY MissionBounds DEF Processes
<1>3. ProcTypes /\ AtWork(j) /\ raw \in RowRecord /\ (raw.raw = "cancelled" => raw.result = "cancelled")
  BY <1>1, <1>2, AtWorkFacts
<1>4. raw = row'[proc[j].m]
  BY <1>1 DEF storeVars
<1> HIDE DEF raw
<1>5. /\ OneMoves(j)
      /\ proc'[j].pc = "contextget" /\ proc'[j].m = proc[j].m /\ proc'[j].ret = proc[j].ret
      /\ proc'[j].raw = raw
  <2>1. "contextget" \in Places
    BY DEF Places
  <2> QED BY <1>1, <1>2, <1>3, <2>1, RawFields
<1>6. AtWork(j)'
  BY <1>1, <1>2, <1>3, <1>5 DEF AtWork, Cancelling
<1>7. ~Holds(j, proc[j].m)
  BY <1>1 DEF Holds
<1> QED BY <1>1, <1>2, <1>3, <1>4, <1>5, <1>6, <1>7, WorkStep, QuietRows

LEMMA ContextGetStep ==
  ASSUME MissionsIInv, NEW j \in Jobs, ContextGet(j)
  PROVE  MissionsIInv'
<1>1. /\ proc[j].pc = "contextget"
      /\ proc' = [proc EXCEPT ![j].pc = "contextput", ![j].got = row[proc[j].m].result]
      /\ UNCHANGED <<storeVars, fixed, back, flagVars, queued, threadCancel, starts, ended, crashes>>
  BY DEF ContextGet, get
<1>2. proc[j].pc \notin {"idle"} \cup Cancelling
  BY <1>1 DEF Cancelling
<1> QED BY <1>1, <1>2, JobReads

-----------------------------------------------------------------------------
(* Cancelling.                                                             *)

\* A process inside cancel_running_mission goes on, there or where its caller
\* takes it up.
LEMMA CancelGoes ==
  ASSUME MissionsIInv, NEW p \in Processes, proc[p].pc \in Cancelling, RowsKept,
         NEW pc \in {"cancel2", "cancel3", "cancel5", "context", "accepted", "refused", "except", "dropflag"},
         Goto(p, pc),
         UNCHANGED <<fixed, back, queued, threadCancel, starts, ended, crashes>>,
         pc \in {"accepted", "refused"} => proc[p].ret = "client",
         pc \in {"context", "except", "dropflag"} => proc[p].ret # "client",
         pc = "accepted" => row'[proc[p].m].result = "cancelled",
         \/ /\ UNCHANGED flagVars
            /\ \/ pc \in {"cancel3", "cancel5"} \/ row'[proc[p].m].raw = "cancelled"
               \/ proc[p].pc \in {"cancel1", "cancel2"}
         \/ clear_cancel(p, proc[p].m)
         \/ request_cancel(p, proc[p].m) /\ pc = "cancel3"
  PROVE  MissionsIInv'
<1>1. proc[p].pc # "idle" /\ pc \in Places /\ pc \notin {"idle", "markput", "contextput"}
  BY DEF Cancelling, Places
<1>2. ProcTypes /\ AtWork(p)
  BY <1>1, AtWorkFacts
<1>3. /\ OneMoves(p)
      /\ proc'[p].pc = pc /\ proc'[p].m = proc[p].m /\ proc'[p].ret = proc[p].ret
      /\ proc'[p].raw = NoRow /\ proc'[p].got = "none"
  BY <1>1, <1>2, GotoFields
<1>4. AtWork(p)'
  BY <1>1, <1>2, <1>3 DEF AtWork, Cancelling
<1>5. proc'[p].raw.raw # "cancelled"
  BY <1>3 DEF NoRow
<1>6. /\ proc[p].pc \in {"cancel1", "cancel2"} => ~Holds(p, proc[p].m)
      /\ pc \in {"cancel3", "cancel5"} => Holds(p, proc[p].m)'
  BY <1>3 DEF Holds
<1> QED BY <1>1, <1>3, <1>4, <1>5, <1>6, WorkStep

LEMMA RefusedPlaces ==
  ASSUME MissionsIInv, NEW p \in Processes, proc[p].pc \in Cancelling
  PROVE  \/ Refused(p) = "refused" /\ proc[p].ret = "client"
         \/ Refused(p) \in {"except", "dropflag"} /\ proc[p].ret # "client"
<1>1. proc[p].ret \in {"client", "job", "except"}
  <2>1. AtWork(p)
    BY DEF MissionsIInv
  <2> QED BY <2>1 DEF AtWork, Processes, Cancelling
<1> QED BY <1>1 DEF Refused

LEMMA CancelFirstCheckStep ==
  ASSUME MissionsIInv, NEW p \in Processes, CancelFirstCheck(p)
  PROVE  MissionsIInv'
<1>1. /\ proc[p].pc = "cancel1" /\ (Goto(p, "cancel2") \/ Goto(p, Refused(p)))
      /\ UNCHANGED <<storeVars, fixed, back, flagVars, queued, threadCancel, starts, ended, crashes>>
  BY DEF CancelFirstCheck
<1>2. proc[p].pc \in Cancelling /\ RowsKept
  BY <1>1, QuietRows DEF Cancelling
<1>3. CASE Goto(p, "cancel2")
  BY <1>1, <1>2, <1>3, CancelGoes
<1>4. CASE Goto(p, Refused(p))
  BY <1>1, <1>2, <1>4, CancelGoes, RefusedPlaces
<1> QED BY <1>1, <1>3, <1>4

LEMMA CancelFlagStep ==
  ASSUME MissionsIInv, NEW p \in Processes, CancelFlag(p)
  PROVE  MissionsIInv'
<1>1. /\ proc[p].pc = "cancel2" /\ request_cancel(p, proc[p].m) /\ Goto(p, "cancel3")
      /\ UNCHANGED <<storeVars, fixed, back, queued, threadCancel, starts, ended, crashes>>
  BY DEF CancelFlag
<1>2. proc[p].pc \in Cancelling /\ RowsKept
  BY <1>1, QuietRows DEF Cancelling
<1> QED BY <1>1, <1>2, CancelGoes

LEMMA CancelSecondCheckStep ==
  ASSUME MissionsIInv, NEW p \in Processes, CancelSecondCheck(p)
  PROVE  MissionsIInv'
<1> DEFINE m == proc[p].m
           raw == row[m]
<1>1. /\ proc[p].pc = "cancel3"
      /\ UNCHANGED <<storeVars, fixed, back, queued, threadCancel, starts, ended, crashes>>
      /\ \/ /\ raw.raw = "running" /\ UNCHANGED flagVars
            /\ proc' = [proc EXCEPT ![p].pc = "cancel4", ![p].raw = raw]
         \/ clear_cancel(p, m) /\ Goto(p, Refused(p))
  BY DEF CancelSecondCheck, get_raw
<1>2. proc[p].pc \in Cancelling /\ proc[p].pc # "idle" /\ RowsKept
  BY <1>1, QuietRows DEF Cancelling
<1>3. CASE clear_cancel(p, m) /\ Goto(p, Refused(p))
  BY <1>1, <1>2, <1>3, CancelGoes, RefusedPlaces
<1>4. CASE /\ raw.raw = "running" /\ UNCHANGED flagVars
           /\ proc' = [proc EXCEPT ![p].pc = "cancel4", ![p].raw = raw]
  <2>1. ProcTypes /\ AtWork(p) /\ raw \in RowRecord
    BY <1>2, AtWorkFacts
  <2> HIDE DEF raw
  <2>2. /\ OneMoves(p)
        /\ proc'[p].pc = "cancel4" /\ proc'[p].m = m /\ proc'[p].ret = proc[p].ret
        /\ proc'[p].raw = raw
    <3>1. "cancel4" \in Places
      BY DEF Places
    <3> QED BY <1>4, <2>1, <3>1, RawFields
  <2>3. AtWork(p)'
    BY <1>2, <2>1, <2>2 DEF AtWork, Cancelling
  <2>4. Holds(p, m)'
    BY <2>2 DEF Holds
  <2> QED BY <1>1, <1>2, <1>4, <2>2, <2>3, <2>4, WorkStep
<1> QED BY <1>1, <1>3, <1>4

\* The payload a cancel puts.
LEMMA CancelledRow ==
  ASSUME NEW old \in RowRecord
  PROVE  [old EXCEPT !.raw = "cancelled", !.async = TRUE,
                     !.events = Append(old.events, Event("cancelled", Len(old.events) + 1))]
           \in RowRecord
<1> DEFINE events == Append(old.events, Event("cancelled", Len(old.events) + 1))
<1>1. old.events \in Seq(Events) /\ Len(old.events) \in Nat
  BY LenProperties DEF RowRecord
<1>2. Event("cancelled", Len(old.events) + 1) \in Events
  BY <1>1 DEF Event, Events, Kinds
<1>3. events \in Seq(Events)
  BY <1>1, <1>2, AppendProperties
<1> HIDE DEF events
<1>4. "cancelled" \in Statuses
  BY DEF Statuses
<1>5. [old EXCEPT !.raw = "cancelled", !.async = TRUE, !.events = events] \in RowRecord
  BY <1>3, <1>4 DEF RowRecord
<1> QED BY <1>5 DEF events

LEMMA CancelPutStep ==
  ASSUME MissionsIInv, NEW p \in Processes, CancelPut(p)
  PROVE  MissionsIInv' /\ RowsKept
<1> DEFINE old == proc[p].raw
           events == Append(old.events, Event("cancelled", Len(old.events) + 1))
           raw == [old EXCEPT !.raw = "cancelled", !.async = TRUE, !.events = events]
<1>1. /\ proc[p].pc = "cancel4" /\ Put(proc[p].m, "cancelled", raw) /\ Goto(p, "cancel5")
      /\ UNCHANGED <<fixed, back, flagVars, queued, threadCancel, starts, ended, crashes>>
  BY DEF CancelPut
<1>2. proc[p].pc \in Cancelling /\ proc[p].pc # "idle"
  BY <1>1 DEF Cancelling
<1>3. /\ proc[p] \in ProcRecord /\ proc[p].m \in Missions /\ row[proc[p].m].result # "none"
  BY <1>2, AtWorkFacts
<1>4. raw \in RowRecord
  BY <1>3, CancelledRow DEF ProcRecord
<1> HIDE DEF raw
<1>5. RowsKept
  <2>1. "cancelled" \in Statuses
    BY DEF Statuses
  <2> QED BY <1>1, <1>3, <1>4, <2>1, PutKeepsRows DEF MissionsIInv
<1> QED BY <1>1, <1>2, <1>5, CancelGoes

LEMMA CancelConfirmStep ==
  ASSUME MissionsIInv, NEW p \in Processes, CancelConfirm(p)
  PROVE  MissionsIInv'
<1> DEFINE m == proc[p].m
<1>1. /\ proc[p].pc = "cancel5"
      /\ UNCHANGED <<storeVars, fixed, back, queued, threadCancel, starts, ended, crashes>>
      /\ \/ /\ row[m].raw = "cancelled" /\ proc[p].ret = "client"
            /\ UNCHANGED flagVars /\ Goto(p, "accepted")
         \/ /\ row[m].raw = "cancelled" /\ proc[p].ret # "client"
            /\ clear_cancel(p, m) /\ Goto(p, "context")
         \/ clear_cancel(p, m) /\ Goto(p, Refused(p))
  BY DEF CancelConfirm, get_raw
<1>2. proc[p].pc \in Cancelling /\ proc[p].pc # "idle" /\ RowsKept
  BY <1>1, QuietRows DEF Cancelling
<1>3. row' = row /\ (row[m].raw = "cancelled" => row[m].result = "cancelled")
  BY <1>1, <1>2, AtWorkFacts DEF storeVars
<1>4. CASE clear_cancel(p, m) /\ Goto(p, Refused(p))
  BY <1>1, <1>2, <1>4, CancelGoes, RefusedPlaces
<1>5. CASE /\ row[m].raw = "cancelled" /\ proc[p].ret = "client"
           /\ UNCHANGED flagVars /\ Goto(p, "accepted")
  BY <1>1, <1>2, <1>3, <1>5, CancelGoes
<1>6. CASE /\ row[m].raw = "cancelled" /\ proc[p].ret # "client"
           /\ clear_cancel(p, m) /\ Goto(p, "context")
  BY <1>1, <1>2, <1>6, CancelGoes
<1> QED BY <1>1, <1>4, <1>5, <1>6

-----------------------------------------------------------------------------
(* Submission, deliveries and deaths.                                      *)

\* What the invariant says of one process, and how it survives the steps of the
\* others.
ProcOK(p) ==
  /\ AtWork(p)
  /\ proc[p].raw.raw = "cancelled" \/ proc[p].pc = "accepted"
       => row[proc[p].m].result = "cancelled"
  /\ proc[p].pc # "idle" => row[proc[p].m].result # "none"
  /\ proc[p].pc \in {"markput", "contextput"} => proc[p].got # "none"

LEMMA OtherProcess ==
  ASSUME MissionsIInv, RowsKept, NEW p \in Processes, proc'[p] = proc[p]
  PROVE  ProcOK(p)'
<1>1. /\ AtWork(p) /\ proc[p] \in ProcRecord /\ CancelsAreTrue /\ RowsAreThere
  BY DEF MissionsIInv, ProcTypes
<1>2. AtWork(p)'
  BY <1>1 DEF AtWork
<1>3. CASE proc[p].pc = "idle"
  BY <1>1, <1>2, <1>3 DEF ProcOK, AtWork, NoRow
<1>4. CASE proc[p].pc # "idle"
  <2>1. proc[p].m \in Missions
    BY <1>4, AtWorkFacts
  <2> QED BY <1>1, <1>2, <2>1 DEF ProcOK, RowsKept, CancelsAreTrue, RowsAreThere
<1> QED BY <1>3, <1>4

LEMMA IdleRecord == Idle \in ProcRecord
BY NoRowRecord DEF Idle, ProcRecord, Places

LEMMA IdleProcess ==
  ASSUME NEW p \in Processes, proc'[p] = Idle
  PROVE  ProcOK(p)'
BY DEF ProcOK, AtWork, Idle, NoRow, Cancelling

\* A step that moves no process.
LEMMA SubmissionStep ==
  ASSUME MissionsIInv, RowsKept,
         UNCHANGED <<fixed, flagVars, threadCancel, starts, ended, crashes, proc>>,
         queued \subseteq queued', queued' \subseteq Missions,
         back' \in [Missions -> Statuses \cup {"none", "todo", "done"}],
         \A m \in Missions : /\ m \in queued' => row'[m].result # "none"
                             /\ back'[m] # "none" => m \in queued'
  PROVE  MissionsIInv'
<1>1. /\ StoreTypes /\ FlagTypes /\ OtherTypes /\ ProcTypes /\ CancelsAreTrue
      /\ RowsAreThere /\ FlagsAreOwned
  BY DEF MissionsIInv
<1>2. StoreTypes' /\ FlagTypes' /\ OtherTypes' /\ ProcTypes'
  BY <1>1 DEF RowsKept, FlagTypes, OtherTypes, ProcTypes, flagVars, fixed
<1>3. \A p \in Processes : ProcOK(p)'
  BY OtherProcess
<1>4. \A m \in Missions : /\ row'[m].raw = "cancelled" => row'[m].result = "cancelled"
                          /\ row'[m].result = "none" => row'[m].raw = "none"
  BY DEF RowsKept
<1>5. FlagsAreOwned'
  <2>1. \A m \in Missions : Settled(m) => Settled(m)'
    BY <1>1 DEF Settled, RowsKept, CancelsAreTrue
  <2>2. UNCHANGED <<local, shared, proc>>
    BY DEF flagVars
  <2> QED BY <1>1, <2>1, <2>2 DEF FlagsAreOwned, Holds, Node
<1> QED
  BY <1>2, <1>3, <1>4, <1>5 DEF MissionsIInv, ProcOK, CancelsAreTrue, RowsAreThere

LEMMA PlaceholderRow == Placeholder \in RowRecord /\ Placeholder.raw = "running"
<1>1. <<Event("accepted", 1)>> \in Seq(Events)
  BY DEF Event, Events, Kinds
<1> QED BY <1>1, NoRowRecord DEF RowRecord, NoRow, Placeholder, Statuses

LEMMA SeedStep ==
  ASSUME MissionsIInv, NEW m \in Missions, seed_running_mission(m)
  PROVE  MissionsIInv' /\ RowsKept
<1>1. /\ row[m].result = "none" /\ Put(m, "running", Placeholder)
      /\ UNCHANGED <<fixed, back, flagVars, queued, threadCancel, starts, ended, crashes, proc>>
  BY DEF seed_running_mission
<1>2. Placeholder \in RowRecord /\ Placeholder.raw = "running"
  BY PlaceholderRow
<1>3. RowsKept
  <2>1. "running" \in Statuses
    BY DEF Statuses
  <2> QED BY <1>1, <1>2, <2>1, PutKeepsRows DEF MissionsIInv
<1>4. RowsAreThere /\ OtherTypes
  BY DEF MissionsIInv
<1> QED BY <1>1, <1>3, <1>4, SubmissionStep DEF RowsAreThere, RowsKept, OtherTypes

LEMMA EnqueueStep ==
  ASSUME MissionsIInv, NEW m \in Missions, enqueue_durable_mission(m)
  PROVE  MissionsIInv'
<1> DEFINE b == IF m \in thread THEN "todo" ELSE "done"
<1>1. /\ row[m].result # "none" /\ queued' = queued \cup {m}
      /\ back' = [back EXCEPT ![m] = b]
      /\ UNCHANGED <<storeVars, fixed, flagVars, threadCancel, starts, ended, crashes, proc>>
  BY DEF enqueue_durable_mission, get
<1>2. RowsAreThere /\ OtherTypes /\ RowsKept /\ row' = row
  BY <1>1, QuietRows DEF MissionsIInv, storeVars
<1>3. b \in {"todo", "done"}
  OBVIOUS
<1> HIDE DEF b
<1> QED BY <1>1, <1>2, <1>3, SubmissionStep DEF RowsAreThere, OtherTypes

LEMMA PutBackGetStep ==
  ASSUME MissionsIInv, NEW m \in Missions, PutBackGet(m)
  PROVE  MissionsIInv'
<1>1. /\ back[m] = "todo" /\ back' = [back EXCEPT ![m] = row[m].result]
      /\ UNCHANGED <<storeVars, fixed, flagVars, queued, threadCancel, starts, ended, crashes, proc>>
  BY DEF PutBackGet, get
<1>2. RowsAreThere /\ OtherTypes /\ StoreTypes /\ RowsKept /\ row' = row
  BY <1>1, QuietRows DEF MissionsIInv, storeVars
<1>3. row[m].result \in Statuses \cup {"none"}
  BY <1>2 DEF StoreTypes, RowRecord
<1> QED BY <1>1, <1>2, <1>3, SubmissionStep DEF RowsAreThere, OtherTypes

LEMMA PutBackPutStep ==
  ASSUME MissionsIInv, NEW m \in Missions, PutBackPut(m)
  PROVE  MissionsIInv' /\ RowsKept
<1>1. /\ back[m] \in Statuses /\ Put(m, back[m], Placeholder)
      /\ back' = [back EXCEPT ![m] = "done"]
      /\ UNCHANGED <<fixed, flagVars, queued, threadCancel, starts, ended, crashes, proc>>
  BY DEF PutBackPut
<1>2. Placeholder \in RowRecord /\ Placeholder.raw = "running"
  BY PlaceholderRow
<1>3. RowsAreThere /\ OtherTypes /\ back[m] # "none"
  BY <1>1 DEF MissionsIInv, Statuses
<1>4. m \in queued /\ row[m].result # "none"
  BY <1>3 DEF RowsAreThere
<1>5. RowsKept
  BY <1>1, <1>2, <1>4, PutKeepsRows DEF MissionsIInv
<1> QED BY <1>1, <1>3, <1>4, <1>5, SubmissionStep DEF RowsAreThere, RowsKept, OtherTypes

\* A step that takes a process up or lays it down, and leaves the rows alone.
LEMMA ProcessStep ==
  ASSUME MissionsIInv, RowsKept,
         UNCHANGED <<fixed, back, queued>>,
         threadCancel \subseteq threadCancel', threadCancel' \subseteq queued,
         crashes' \in 0..MaxCrashes, crashes <= crashes',
         starts' \in [Missions -> 0..MaxStarts], ended' \subseteq Missions,
         proc' \in [Processes -> ProcRecord],
         \A p \in Processes : ProcOK(p)',
         FlagTypes', FlagsAreOwned'
  PROVE  MissionsIInv'
<1>1. OtherTypes /\ RowsAreThere
  BY DEF MissionsIInv
<1>2. StoreTypes' /\ OtherTypes' /\ ProcTypes'
  BY <1>1 DEF RowsKept, OtherTypes, ProcTypes, fixed
<1>3. \A m \in Missions : /\ row'[m].raw = "cancelled" => row'[m].result = "cancelled"
                          /\ row'[m].result = "none" => row'[m].raw = "none"
  BY DEF RowsKept
<1>4. \A m \in Missions : /\ m \in queued' => row'[m].result # "none"
                          /\ back'[m] # "none" => m \in queued'
  BY <1>1 DEF RowsAreThere, RowsKept
<1> QED
  BY <1>2, <1>3, <1>4 DEF MissionsIInv, ProcOK, CancelsAreTrue, RowsAreThere

\* Flags that are left as they are stay owned if nobody leaves who owns one.
LEMMA FlagsStay ==
  ASSUME MissionsIInv, RowsKept, UNCHANGED <<redis, flagVars>>,
         threadCancel \subseteq threadCancel',
         crashes' \in Nat, crashes <= crashes',
         \A p \in Processes, m \in Missions : Holds(p, m) => Holds(p, m)'
  PROVE  FlagTypes' /\ FlagsAreOwned'
<1>1. FlagTypes /\ FlagsAreOwned /\ StoreTypes /\ CancelsAreTrue /\ crashes \in Nat
  BY DEF MissionsIInv, OtherTypes
<1>2. \A m \in Missions : Settled(m) => Settled(m)'
  BY <1>1, SettledIsKept
<1>3. UNCHANGED <<local, shared>>
  BY DEF flagVars
<1> QED BY <1>1, <1>2, <1>3 DEF FlagTypes, FlagsAreOwned, Node

\* A process that was idle, or becomes so, has a record all its own.
LEMMA RecordSet ==
  ASSUME ProcTypes, NEW p \in Processes, NEW q \in ProcRecord,
         proc' = [proc EXCEPT ![p] = q]
  PROVE  OneMoves(p) /\ proc'[p] = q
BY DEF ProcTypes, OneMoves

LEMMA JobStartStep ==
  ASSUME MissionsIInv, NEW j \in Jobs, NEW m \in Missions, JobStart(j, m)
  PROVE  MissionsIInv'
<1> DEFINE pc == IF is_cancel_requested(j, m) THEN "context" ELSE "agent"
           q == [Idle EXCEPT !.m = m, !.pc = pc]
<1>1. /\ proc[j].pc = "idle" /\ m \in queued /\ starts[m] < MaxStarts
      /\ starts' = [starts EXCEPT ![m] = @ + 1]
      /\ proc' = [proc EXCEPT ![j] = q]
      /\ UNCHANGED <<storeVars, fixed, back, flagVars, queued, threadCancel, ended, crashes>>
  BY DEF JobStart
<1>2. pc \in {"context", "agent"}
  OBVIOUS
<1> HIDE DEF pc
<1>3. /\ q \in ProcRecord /\ q.m = m /\ q.pc = pc /\ q.ret = "none" /\ q.raw = NoRow
  BY <1>2, IdleRecord DEF ProcRecord, Places, Idle
<1> HIDE DEF q
<1>4. j \in Processes /\ j \notin Clients
  BY MissionBounds DEF Processes
<1>5. /\ ProcTypes /\ OtherTypes /\ RowsAreThere /\ AtWork(j)
  BY <1>4 DEF MissionsIInv
<1>6. OneMoves(j) /\ proc'[j] = q
  BY <1>1, <1>3, <1>4, <1>5, RecordSet
<1>7. RowsKept /\ row' = row
  BY <1>1, QuietRows DEF storeVars
<1>8. ASSUME NEW p \in Processes PROVE ProcOK(p)'
  <2>1. CASE p = j
    <3>1. AtWork(p)'
      BY <1>2, <1>3, <1>4, <1>6, <2>1, MissionBounds DEF AtWork, Cancelling
    <3> QED BY <1>1, <1>2, <1>3, <1>5, <1>6, <1>7, <2>1, <3>1 DEF ProcOK, RowsAreThere, NoRow
  <2>2. CASE p # j
    BY <1>6, <1>7, <2>2, OtherProcess DEF OneMoves
  <2> QED BY <2>1, <2>2
<1>9. starts' \in [Missions -> 0..MaxStarts]
  <2>1. starts[m] \in 0..MaxStarts /\ starts[m] + 1 \in 0..MaxStarts
    BY <1>1, <1>5, MissionBounds DEF OtherTypes
  <2> QED BY <1>1, <1>5, <2>1 DEF OtherTypes
<1>11. \A p \in Processes, k \in Missions : Holds(p, k) => Holds(p, k)'
  BY <1>1, <1>6 DEF Holds, OneMoves
<1>12. crashes' \in 0..MaxCrashes /\ crashes' \in Nat /\ crashes <= crashes'
  BY <1>1, <1>5, MissionBounds DEF OtherTypes
<1>13. FlagTypes' /\ FlagsAreOwned'
  BY <1>1, <1>7, <1>11, <1>12, FlagsStay DEF fixed
<1> QED
  BY <1>1, <1>5, <1>6, <1>7, <1>8, <1>9, <1>12, <1>13, ProcessStep
     DEF OneMoves, OtherTypes

LEMMA ContextPutStep ==
  ASSUME MissionsIInv, NEW j \in Jobs, ContextPut(j)
  PROVE  MissionsIInv' /\ RowsKept
<1>1. /\ proc[j].pc = "contextput" /\ Put(proc[j].m, proc[j].got, proc[j].raw)
      /\ ended' = ended \cup {proc[j].m}
      /\ proc' = [proc EXCEPT ![j] = Idle]
      /\ UNCHANGED <<fixed, back, flagVars, queued, threadCancel, starts, crashes>>
  BY DEF ContextPut
<1>2. j \in Processes /\ proc[j].pc # "idle"
  BY <1>1 DEF Processes
<1>3. /\ ProcTypes /\ OtherTypes /\ RowsAreThere
  BY DEF MissionsIInv
<1>4. RowsKept
  <2>1. proc[j].got # "none"
    BY <1>1, <1>2, <1>3 DEF RowsAreThere
  <2>2. /\ proc[j] \in ProcRecord /\ proc[j].m \in Missions /\ row[proc[j].m].result # "none"
        /\ proc[j].raw.raw = "cancelled" => row[proc[j].m].result = "cancelled"
    BY <1>2, AtWorkFacts
  <2>3. proc[j].got \in Statuses /\ proc[j].raw \in RowRecord
    BY <2>1, <2>2 DEF ProcRecord
  <2> QED BY <1>1, <2>2, <2>3, PutKeepsRows DEF MissionsIInv
<1>5. OneMoves(j) /\ proc'[j] = Idle
  BY <1>1, <1>2, <1>3, IdleRecord, RecordSet
<1>6. ASSUME NEW p \in Processes PROVE ProcOK(p)'
  BY <1>4, <1>5, IdleProcess, OtherProcess DEF OneMoves
<1>7. ended' \subseteq Missions
  BY <1>1, <1>2, <1>3, AtWorkFacts DEF OtherTypes
<1>8. \A p \in Processes, k \in Missions : Holds(p, k) => Holds(p, k)'
  BY <1>1, <1>5 DEF Holds, OneMoves
<1>9. crashes' \in 0..MaxCrashes /\ crashes' \in Nat /\ crashes <= crashes'
  BY <1>1, <1>3, MissionBounds DEF OtherTypes
<1>10. FlagTypes' /\ FlagsAreOwned'
  BY <1>1, <1>4, <1>8, <1>9, FlagsStay DEF fixed
<1> QED
  BY <1>1, <1>3, <1>4, <1>5, <1>6, <1>7, <1>9, <1>10, ProcessStep
     DEF OneMoves, OtherTypes

LEMMA JobCancelledStep ==
  ASSUME MissionsIInv, NEW j \in Jobs, JobCancelled(j)
  PROVE  MissionsIInv'
<1>1. /\ proc[j].pc = "agent" /\ proc' = [proc EXCEPT ![j] = Idle]
      /\ UNCHANGED <<storeVars, fixed, back, flagVars, queued, threadCancel, starts, ended, crashes>>
  BY DEF JobCancelled
<1>2. j \in Processes
  BY DEF Processes
<1>3. ProcTypes /\ OtherTypes
  BY DEF MissionsIInv
<1>4. RowsKept
  BY <1>1, QuietRows DEF storeVars
<1>5. OneMoves(j) /\ proc'[j] = Idle
  BY <1>1, <1>2, <1>3, IdleRecord, RecordSet
<1>6. ASSUME NEW p \in Processes PROVE ProcOK(p)'
  BY <1>4, <1>5, IdleProcess, OtherProcess DEF OneMoves
<1>7. \A p \in Processes, k \in Missions : Holds(p, k) => Holds(p, k)'
  BY <1>1, <1>5 DEF Holds, OneMoves
<1>8. crashes' \in 0..MaxCrashes /\ crashes' \in Nat /\ crashes <= crashes'
  BY <1>1, <1>3, MissionBounds DEF OtherTypes
<1>9. FlagTypes' /\ FlagsAreOwned'
  BY <1>1, <1>4, <1>7, <1>8, FlagsStay DEF fixed
<1> QED
  BY <1>1, <1>3, <1>4, <1>5, <1>6, <1>8, <1>9, ProcessStep DEF OneMoves, OtherTypes

\* A client that begins to cancel a mission.
LEMMA ClientBegins ==
  ASSUME MissionsIInv, RowsKept, NEW c \in Clients, NEW m \in Missions,
         proc[c].pc = "idle", row[m].result # "none",
         proc' = [proc EXCEPT ![c] = [Idle EXCEPT !.pc = "cancel1", !.m = m, !.ret = "client"]],
         UNCHANGED <<row, fixed, back, queued, starts, ended, crashes>>,
         threadCancel \subseteq threadCancel', threadCancel' \subseteq queued,
         \/ UNCHANGED flagVars
         \/ request_cancel(c, m) /\ m \in threadCancel'
  PROVE  MissionsIInv'
<1> DEFINE q == [Idle EXCEPT !.pc = "cancel1", !.m = m, !.ret = "client"]
<1>1. /\ q \in ProcRecord /\ q.m = m /\ q.pc = "cancel1" /\ q.ret = "client" /\ q.raw = NoRow
  BY IdleRecord DEF ProcRecord, Places, Idle
<1>2. proc' = [proc EXCEPT ![c] = q]
  OBVIOUS
<1> HIDE DEF q
<1>3. c \in Processes /\ c \notin Jobs
  BY MissionBounds DEF Processes
<1>4. /\ ProcTypes /\ OtherTypes /\ RowsAreThere /\ FlagTypes /\ FlagsAreOwned
      /\ StoreTypes /\ CancelsAreTrue
  BY DEF MissionsIInv
<1>5. OneMoves(c) /\ proc'[c] = q
  BY <1>1, <1>2, <1>3, <1>4, RecordSet
<1>6. ASSUME NEW p \in Processes PROVE ProcOK(p)'
  <2>1. CASE p = c
    <3>1. AtWork(p)'
      BY <1>1, <1>3, <1>5, <2>1, MissionBounds DEF AtWork, Cancelling
    <3>2. q.raw.raw = "none"
      BY <1>1 DEF NoRow
    <3>3. proc'[p] = q
      BY <1>5, <2>1
    <3>4. row' = row
      OBVIOUS
    <3>5. row'[m].result # "none"
      BY <3>4
    <3> QED BY <1>1, <3>1, <3>2, <3>3, <3>5 DEF ProcOK
  <2>2. CASE p # c
    BY <1>5, <2>2, OtherProcess DEF OneMoves
  <2> QED BY <2>1, <2>2
<1>8. \A p \in Processes, k \in Missions : Holds(p, k) => Holds(p, k)'
  BY <1>5 DEF Holds, OneMoves
<1>9. crashes' \in 0..MaxCrashes /\ crashes' \in Nat /\ crashes \in Nat /\ crashes <= crashes'
  BY <1>4, MissionBounds DEF OtherTypes
<1>10. CASE UNCHANGED flagVars
  <2>1. FlagTypes' /\ FlagsAreOwned'
    BY <1>8, <1>9, <1>10, FlagsStay DEF fixed
  <2> QED
    BY <1>4, <1>5, <1>6, <1>9, <2>1, ProcessStep DEF OneMoves, OtherTypes
<1>11. CASE request_cancel(c, m) /\ m \in threadCancel'
  <2>1. /\ shared' \subseteq shared \cup {m} /\ (~redis => shared' = shared)
        /\ local' = [local EXCEPT ![Node(c)] = @ \cup {m}] /\ Node(c) \in Nodes
    BY <1>11 DEF request_cancel, Node, Nodes
  <2>2. FlagTypes'
    BY <1>4, <2>1 DEF FlagTypes, fixed
  <2>3. \A n \in Nodes : local'[n] \subseteq local[n] \cup {m}
    BY <1>4, <2>1 DEF FlagTypes
  <2>4. \A k \in Missions : Settled(k) => Settled(k)'
    BY <1>4, <1>9, SettledIsKept
  <2>5. Settled(m)'
    BY <1>11 DEF Settled
  <2>6. FlagsAreOwned'
    BY <1>4, <1>8, <2>1, <2>3, <2>4, <2>5 DEF FlagsAreOwned, Node
  <2> QED
    BY <1>4, <1>5, <1>6, <1>9, <2>2, <2>6, ProcessStep DEF OneMoves, OtherTypes
<1> QED BY <1>10, <1>11

LEMMA CancelMissionStep ==
  ASSUME MissionsIInv, NEW c \in Clients, NEW m \in Missions, cancel_mission(c, m)
  PROVE  MissionsIInv'
<1>1. /\ proc[c].pc = "idle" /\ row[m].raw # "none"
      /\ proc' = [proc EXCEPT ![c] = [Idle EXCEPT !.pc = "cancel1", !.m = m, !.ret = "client"]]
      /\ UNCHANGED <<storeVars, fixed, back, flagVars, queued, threadCancel, starts, ended, crashes>>
  BY DEF cancel_mission, get_raw
<1>2. row[m].result # "none" /\ threadCancel \subseteq queued
  BY <1>1 DEF MissionsIInv, RowsAreThere, OtherTypes
<1>3. RowsKept /\ row' = row
  BY <1>1, QuietRows DEF storeVars
<1> QED BY <1>1, <1>2, <1>3, ClientBegins

LEMMA CancelRunStep ==
  ASSUME MissionsIInv, NEW c \in Clients, NEW m \in Missions, cancel_run(c, m)
  PROVE  MissionsIInv'
<1>1. /\ proc[c].pc = "idle" /\ m \in queued
      /\ proc' = [proc EXCEPT ![c] = [Idle EXCEPT !.pc = "cancel1", !.m = m, !.ret = "client"]]
      /\ threadCancel' = threadCancel \cup {m} /\ request_cancel(c, m)
      /\ UNCHANGED <<storeVars, fixed, back, queued, starts, ended, crashes>>
  BY DEF cancel_run
<1>2. row[m].result # "none" /\ threadCancel' \subseteq queued
  BY <1>1 DEF MissionsIInv, RowsAreThere, OtherTypes
<1>3. RowsKept /\ row' = row
  BY <1>1, QuietRows DEF storeVars
<1> QED BY <1>1, <1>2, <1>3, ClientBegins

\* A process dies, and its work and its flags with it.
LEMMA CrashStep ==
  ASSUME MissionsIInv, NEW n \in Nodes, Crash(n)
  PROVE  MissionsIInv'
<1>1. /\ crashes < MaxCrashes /\ crashes' = crashes + 1
      /\ local' = [local EXCEPT ![n] = {}]
      /\ proc' = [p \in Processes |->
                    IF Node(p) = n /\ proc[p].pc \notin {"refused", "accepted"}
                    THEN Idle ELSE proc[p]]
      /\ UNCHANGED <<storeVars, fixed, back, shared, queued, threadCancel, starts, ended>>
  BY DEF Crash
<1>2. /\ ProcTypes /\ OtherTypes /\ RowsAreThere /\ FlagTypes
      /\ \A p \in Processes : AtWork(p)
  BY DEF MissionsIInv
<1>3. RowsKept
  BY <1>1, QuietRows
<1>4. proc' \in [Processes -> ProcRecord]
  BY <1>1, <1>2, IdleRecord DEF ProcTypes
<1>5. ASSUME NEW p \in Processes PROVE ProcOK(p)'
  BY <1>1, <1>3, IdleProcess, OtherProcess
<1>6. crashes' \in 0..MaxCrashes /\ crashes <= crashes' /\ crashes' > 0
  BY <1>1, <1>2, MissionBounds DEF OtherTypes
<1>7. FlagTypes'
  BY <1>1, <1>2 DEF FlagTypes, fixed
<1>8. FlagsAreOwned'
  BY <1>6 DEF FlagsAreOwned, Settled
<1>10. starts' \in [Missions -> 0..MaxStarts] /\ ended' \subseteq Missions
  BY <1>1, <1>2 DEF OtherTypes
<1>11. threadCancel \subseteq queued
  BY <1>2 DEF OtherTypes
<1> QED
  BY <1>1, <1>3, <1>4, <1>5, <1>6, <1>7, <1>8, <1>10, <1>11, ProcessStep

-----------------------------------------------------------------------------
(* The theorems.                                                           *)

LEMMA MissionsStart == MissionsInit => MissionsIInv
<1> SUFFICES ASSUME MissionsInit PROVE MissionsIInv
  OBVIOUS
<1>1. /\ row = [m \in Missions |-> NoRow] /\ table = [m \in Missions |-> {}]
      /\ redis \in BOOLEAN /\ thread \in SUBSET Missions
      /\ back = [m \in Missions |-> "none"]
      /\ local = [n \in Nodes |-> {}] /\ shared = {}
      /\ queued = {} /\ threadCancel = {}
      /\ starts = [m \in Missions |-> 0] /\ ended = {} /\ crashes = 0
      /\ proc = [p \in Processes |-> Idle]
  BY DEF MissionsInit, StoreInit
<1>2. StoreTypes
  <2>1. Numbered(<<>>) = {}
    <3>0. <<>> \in Seq(Events)
      OBVIOUS
    <3>1. Renumber(<<>>) \in [1..Len(<<>>) -> Events]
      BY <3>0, RenumberTypes
    <3>2. 1..Len(<<>>) = {}
      OBVIOUS
    <3>3. Renumber(<<>>) \in Seq(Events) /\ Len(Renumber(<<>>)) = 0
      <4>1. Renumber(<<>>) \in [1..0 -> Events]
        BY <3>1
      <4> QED BY <4>1, IsASeq, LenProperties
    <3> QED BY <3>3 DEF Numbered
  <2>2. NoRow.events = <<>>
    BY DEF NoRow
  <2> QED BY <1>1, <2>1, <2>2, NoRowRecord DEF StoreTypes
<1>3. FlagTypes
  BY <1>1 DEF FlagTypes
<1>4. OtherTypes
  BY <1>1, MissionBounds DEF OtherTypes
<1>5. ProcTypes
  BY <1>1, IdleRecord DEF ProcTypes
<1>6. \A p \in Processes : AtWork(p)
  BY <1>1 DEF AtWork, Idle, NoRow, Cancelling
<1>7. CancelsAreTrue /\ RowsAreThere
  BY <1>1 DEF CancelsAreTrue, RowsAreThere, Idle, NoRow
<1>8. FlagsAreOwned
  BY <1>1 DEF FlagsAreOwned
<1> QED BY <1>2, <1>3, <1>4, <1>5, <1>6, <1>7, <1>8 DEF MissionsIInv

LEMMA MissionsNextKeeps ==
  ASSUME MissionsIInv, MissionsNext
  PROVE  MissionsIInv' /\ RowsKept
<1>1. ASSUME NEW m \in Missions,
             seed_running_mission(m) \/ enqueue_durable_mission(m) \/ PutBackGet(m) \/ PutBackPut(m)
      PROVE  MissionsIInv' /\ RowsKept
  BY <1>1, SeedStep, EnqueueStep, PutBackGetStep, PutBackPutStep, QuietRows
     DEF enqueue_durable_mission, PutBackGet
<1>2. ASSUME NEW j \in Jobs, JobStep(j) PROVE MissionsIInv' /\ RowsKept
  <2>1. CASE AgentReturns(j) \/ JobMarkPut(j) \/ JobFail(j) \/ ContextPut(j)
    BY <2>1, AgentReturnsStep, JobMarkPutStep, JobFailStep, ContextPutStep
  <2>2. CASE AgentRaises(j) \/ JobCheck(j) \/ JobRestore(j) \/ JobMark(j) \/ JobMarkGet(j)
    <3>1. UNCHANGED storeVars
      BY <2>2 DEF AgentRaises, JobCheck, JobRestore, JobMark, JobMarkGet
    <3> QED
      BY <2>2, <3>1, AgentRaisesStep, JobCheckStep, JobRestoreStep, JobMarkStep,
         JobMarkGetStep, QuietRows
  <2>3. CASE JobExcept(j) \/ ContextRead(j) \/ ContextGet(j) \/ DropFlag(j)
    <3>1. UNCHANGED storeVars
      BY <2>3 DEF JobExcept, ContextRead, ContextGet, DropFlag
    <3> QED
      BY <2>3, <3>1, JobExceptStep, ContextReadStep, ContextGetStep, DropFlagStep, QuietRows
  <2> QED BY <1>2, <2>1, <2>2, <2>3 DEF JobStep
<1>3. ASSUME NEW p \in Processes, CancelStep(p) PROVE MissionsIInv' /\ RowsKept
  <2>1. CASE CancelPut(p)
    BY <2>1, CancelPutStep
  <2>2. CASE ~CancelPut(p)
    <3>1. UNCHANGED storeVars
      BY <1>3, <2>2 DEF CancelStep, CancelFirstCheck, CancelFlag, CancelSecondCheck, CancelConfirm
    <3> QED
      BY <1>3, <2>2, <3>1, CancelFirstCheckStep, CancelFlagStep, CancelSecondCheckStep,
         CancelConfirmStep, QuietRows DEF CancelStep
  <2> QED BY <2>1, <2>2
<1>4. ASSUME NEW j \in Jobs, NEW m \in Missions, JobStart(j, m) PROVE MissionsIInv' /\ RowsKept
  BY <1>4, JobStartStep, QuietRows DEF JobStart
<1>5. ASSUME NEW c \in Clients, NEW m \in Missions, cancel_mission(c, m) \/ cancel_run(c, m)
      PROVE  MissionsIInv' /\ RowsKept
  BY <1>5, CancelMissionStep, CancelRunStep, QuietRows DEF cancel_mission, cancel_run
<1>6. ASSUME NEW n \in Nodes, Crash(n) PROVE MissionsIInv' /\ RowsKept
  BY <1>6, CrashStep, QuietRows DEF Crash
<1>7. ASSUME NEW j \in Jobs, JobCancelled(j) PROVE MissionsIInv' /\ RowsKept
  BY <1>7, JobCancelledStep, QuietRows DEF JobCancelled
<1> QED BY <1>1, <1>2, <1>3, <1>4, <1>5, <1>6, <1>7 DEF MissionsNext

LEMMA MissionsStutterKeeps ==
  ASSUME MissionsIInv, UNCHANGED missionVars
  PROVE  MissionsIInv' /\ RowsKept
<1>1. UNCHANGED <<row, table, thread, back, redis, local, shared, queued, threadCancel,
                  starts, ended, crashes, proc>>
  BY DEF missionVars
<1>2. RowsKept
  BY <1>1, QuietRows DEF storeVars
<1>3. /\ StoreTypes' /\ FlagTypes' /\ OtherTypes' /\ ProcTypes'
  BY <1>1 DEF MissionsIInv, StoreTypes, FlagTypes, OtherTypes, ProcTypes
<1>4. (\A p \in Processes : AtWork(p))' /\ CancelsAreTrue' /\ RowsAreThere'
  BY <1>1 DEF MissionsIInv, AtWork, CancelsAreTrue, RowsAreThere
<1>5. FlagsAreOwned'
  BY <1>1 DEF MissionsIInv, FlagsAreOwned, Settled, Holds, Node
<1> QED BY <1>2, <1>3, <1>4, <1>5 DEF MissionsIInv

\* The inductive invariant of the missions.
THEOREM MissionsInductive == MissionsSpec => []MissionsIInv
<1>1. MissionsIInv /\ [MissionsNext]_missionVars => MissionsIInv'
  BY MissionsNextKeeps, MissionsStutterKeeps
<1> QED BY <1>1, MissionsStart, PTL DEF MissionsSpec

\* "A cancelled mission stays cancelled" and a cancel never overrides an
\* outcome: of put's guard in every process at once, for any number of
\* deliveries of the same mission.
THEOREM CancelIsFinalAlways == MissionsSpec => CancelIsFinal
<1>1. MissionsIInv /\ [MissionsNext]_missionVars
        => /\ [\A m \in Missions : row[m].result = "cancelled" => row'[m].result = "cancelled"]_row
           /\ [\A m \in Missions :
                 row[m].result # "cancelled" /\ row'[m].result = "cancelled"
                   => row[m].result = "running"]_row
  BY MissionsNextKeeps, MissionsStutterKeeps DEF RowsKept
<1> QED
  BY <1>1, MissionsInductive, PTL
     DEF MissionsSpec, CancelIsFinal, CancelledForever, OutcomeNeverCancelled

LEMMA MissionsFacts ==
  ASSUME MissionsIInv
  PROVE  MissionsTypeOK /\ EventsMirrorRaw /\ NoStickyFlag /\ AcceptedCancelHolds
<1>1. /\ StoreTypes /\ FlagTypes /\ OtherTypes /\ ProcTypes /\ CancelsAreTrue
      /\ FlagsAreOwned /\ \A p \in Processes : AtWork(p)
  BY DEF MissionsIInv
<1>2. StoreTypeOK
  <2>1. row \in [Missions -> RowRecord] /\ \A m \in Missions : table[m] = Numbered(row[m].events)
    BY <1>1 DEF StoreTypes
  <2>2. ASSUME NEW m \in Missions PROVE table[m] \subseteq Events
    <3>1. row[m].events \in Seq(Events)
      BY <2>1 DEF RowRecord
    <3> QED BY <2>1, <3>1, NumberedTypes
  <2> QED BY <2>1, <2>2 DEF StoreTypeOK, RowRecord, Events
<1>3. MissionsTypeOK
  <2>1. ASSUME NEW p \in Processes
        PROVE  proc[p].pc \in Places /\ (proc[p].pc # "idle" => proc[p].m \in Missions)
    BY <1>1, AtWorkFacts DEF ProcTypes, ProcRecord
  <2> QED BY <1>1, <1>2, <2>1 DEF MissionsTypeOK, FlagTypes, OtherTypes, Places
<1>4. EventsMirrorRaw
  BY <1>1 DEF StoreTypes, EventsMirrorRaw
<1>5. NoStickyFlag
  BY <1>1 DEF NoStickyFlag, FlagsAreOwned, Settled, Holds
<1>6. AcceptedCancelHolds
  BY <1>1 DEF AcceptedCancelHolds, CancelsAreTrue, Processes
<1> QED BY <1>3, <1>4, <1>5, <1>6

\* Of missions delivered any number of times at once: the event table mirrors
\* the payload, no flag is left behind that nobody will take back, and a client
\* that was told "cancelled" was told the truth.
THEOREM MissionsHoldAlways ==
  MissionsSpec => [](MissionsTypeOK /\ EventsMirrorRaw /\ NoStickyFlag /\ AcceptedCancelHolds)
BY MissionsInductive, MissionsFacts, PTL

-----------------------------------------------------------------------------
(* Serial deliveries: the two statuses of a row agree.                     *)

Careful == {"check", "restore", "mark", "markget", "markput", "contextget", "contextput"}

LEMMA CarelessAgrees ==
  ASSUME NEW j, proc'[j].pc \notin Careful
  PROVE  HeldAgrees(j)'
BY DEF HeldAgrees, Careful

\* What a job holds stays right when others only cancel its mission.
LEMMA HeldIsKept ==
  ASSUME MissionsIInv, NEW j \in Jobs, HeldAgrees(j), proc'[j] = proc[j], thread' = thread,
         \/ proc[j].m \in thread
         \/ row'[proc[j].m].result \in {row[proc[j].m].result, "cancelled"}
         \/ proc[j].pc = "idle"
  PROVE  HeldAgrees(j)'
<1>1. CASE proc[j].m \in thread
  BY <1>1 DEF HeldAgrees
<1>2. CASE proc[j].pc = "idle"
  BY <1>2, CarelessAgrees DEF Careful
<1>3. CASE row'[proc[j].m].result = row[proc[j].m].result
  BY <1>3 DEF HeldAgrees, SameClass, Class
<1>4. CASE row'[proc[j].m].result = "cancelled"
  BY <1>4 DEF HeldAgrees, SameClass, Class
<1> QED BY <1>1, <1>2, <1>3, <1>4

LEMMA QuietSerial ==
  ASSUME MissionsIInv, SerialIInv, UNCHANGED <<row, back, thread>>,
         \A j \in Jobs : HeldAgrees(j)' \/ proc'[j] = proc[j]
  PROVE  SerialIInv'
<1>1. \A m \in Missions \ thread : SameClass(row'[m]) /\ back'[m] \in {"none", "done"}
  BY DEF SerialIInv
<1>2. \A j \in Jobs : HeldAgrees(j)'
  BY HeldIsKept DEF SerialIInv
<1> QED BY <1>1, <1>2 DEF SerialIInv

\* A step that writes the row of one mission.
LEMMA WritingSerial ==
  ASSUME MissionsIInv, SerialIInv, UNCHANGED thread, NEW m \in Missions,
         \A k \in Missions : k # m => row'[k] = row[k] /\ back'[k] = back[k],
         m \notin thread => SameClass(row'[m]) /\ back'[m] \in {"none", "done"},
         \A j \in Jobs : \/ HeldAgrees(j)'
                         \/ /\ proc'[j] = proc[j]
                            /\ proc[j].m = m
                                 => \/ m \in thread
                                    \/ row'[m].result \in {row[m].result, "cancelled"}
  PROVE  SerialIInv'
<1>1. \A k \in Missions \ thread' : SameClass(row'[k]) /\ back'[k] \in {"none", "done"}
  BY DEF SerialIInv
<1>2. ASSUME NEW j \in Jobs, ~HeldAgrees(j)' PROVE FALSE
  <2>1. proc[j].pc = "idle" \/ proc[j].m \in Missions
    BY AtWorkFacts DEF Processes
  <2>2. proc'[j] = proc[j]
    BY <1>2
  <2>3. \/ proc[j].pc = "idle"
        \/ proc[j].m \in thread
        \/ row'[proc[j].m].result \in {row[proc[j].m].result, "cancelled"}
    BY <1>2, <2>1
  <2>4. HeldAgrees(j)
    BY DEF SerialIInv
  <2> QED BY <1>2, <2>2, <2>3, <2>4, HeldIsKept
<1> QED BY <1>1, <1>2 DEF SerialIInv

\* A put writes the one row, whole or not at all.
LEMMA PutOneRow ==
  ASSUME MissionsIInv, NEW m \in Missions, NEW new, NEW raw \in RowRecord, Put(m, new, raw)
  PROVE  /\ \A k \in Missions : k # m => row'[k] = row[k]
         /\ \/ ~PutApplies(row[m], new) /\ row'[m] = row[m]
            \/ PutApplies(row[m], new) /\ row'[m].result = new /\ row'[m].raw = raw.raw
<1>1. row \in [Missions -> RowRecord]
  BY DEF MissionsIInv, StoreTypes
<1>2. CASE ~PutApplies(row[m], new)
  <2>1. row' = row
    BY <1>2 DEF Put, storeVars
  <2> QED BY <1>2, <2>1
<1>3. CASE PutApplies(row[m], new)
  <2> DEFINE r == [raw EXCEPT !.result = new]
  <2>1. row' = [row EXCEPT ![m] = r]
    BY <1>3 DEF Put
  <2>2. r.result = new /\ r.raw = raw.raw
    BY DEF RowRecord
  <2> HIDE DEF r
  <2> QED BY <1>1, <1>3, <2>1, <2>2
<1> QED BY <1>2, <1>3

\* The jobs other than the one at work on a mission have other missions.
LEMMA OthersElsewhere ==
  ASSUME MissionsIInv, DeliveriesApart, NEW j \in Jobs, proc[j].pc # "idle",
         NEW k \in Jobs, k # j
  PROVE  proc[k].m # proc[j].m
<1>1. proc[j].m # "none"
  BY MissionBounds, AtWorkFacts DEF Processes
<1> QED BY <1>1 DEF DeliveriesApart

\* A step of one process to a place where nothing is held.
LEMMA GoesSerial ==
  ASSUME MissionsIInv, SerialIInv, NEW p \in Processes, UNCHANGED <<row, back, thread>>,
         \A k \in Processes : k # p => proc'[k] = proc[k],
         p \in Jobs => HeldAgrees(p)'
  PROVE  SerialIInv'
<1>1. \A j \in Jobs : HeldAgrees(j)' \/ proc'[j] = proc[j]
  BY DEF Processes
<1> QED BY <1>1, QuietSerial

LEMMA GotoSerial ==
  ASSUME MissionsIInv, NEW p \in Processes, NEW pc, Goto(p, pc)
  PROVE  /\ \A k \in Processes : k # p => proc'[k] = proc[k]
         /\ proc'[p].pc = pc /\ proc'[p].m = proc[p].m
<1>1. proc \in [Processes -> ProcRecord] /\ proc[p] \in ProcRecord
  BY DEF MissionsIInv, ProcTypes
<1>2. proc' = [proc EXCEPT ![p].pc = pc, ![p].raw = NoRow, ![p].got = "none"]
  BY DEF Goto
<1>3. /\ proc'[p] = [proc[p] EXCEPT !.pc = pc, !.raw = NoRow, !.got = "none"]
      /\ \A k \in Processes : k # p => proc'[k] = proc[k]
  BY <1>1, <1>2
<1> QED BY <1>1, <1>3 DEF ProcRecord

LEMMA ToCareless ==
  ASSUME MissionsIInv, SerialIInv, NEW p \in Processes, NEW pc, pc \notin Careful,
         Goto(p, pc), UNCHANGED <<row, back, thread>>
  PROVE  SerialIInv'
<1>1. /\ \A k \in Processes : k # p => proc'[k] = proc[k]
      /\ proc'[p].pc = pc
  BY GotoSerial
<1>2. HeldAgrees(p)'
  BY <1>1, CarelessAgrees
<1> QED BY <1>1, <1>2, GoesSerial

\* The row a job is at work on when it puts its outcome.
LEMMA OutcomePut ==
  ASSUME MissionsIInv, SerialIInv, DeliveriesApart, NEW j \in Jobs, proc[j].pc # "idle",
         NEW new, NEW raw \in RowRecord, Put(proc[j].m, new, raw),
         Class(new) = "ended", Class(raw.raw) = "ended", UNCHANGED <<back, thread>>,
         NEW pc, Goto(j, pc), pc \in {"check", "context"}
  PROVE  SerialIInv'
<1> DEFINE m == proc[j].m
<1>1. j \in Processes /\ Jobs \subseteq Processes /\ m \in Missions
  BY AtWorkFacts DEF Processes
<1>2. /\ \A k \in Missions : k # m => row'[k] = row[k]
      /\ \/ ~PutApplies(row[m], new) /\ row'[m] = row[m]
         \/ row'[m].result = new /\ row'[m].raw = raw.raw
  BY <1>1, PutOneRow
<1>3. /\ \A k \in Processes : k # j => proc'[k] = proc[k]
      /\ proc'[j].pc = pc /\ proc'[j].m = m
  BY <1>1, GotoSerial
<1>4. new # "cancelled"
  BY DEF Class
<1>5. m \notin thread => SameClass(row'[m]) /\ back'[m] \in {"none", "done"}
  BY <1>1, <1>2 DEF SameClass, SerialIInv
<1>6. Class(row'[m].result) \in {"ended", "cancelled"}
  BY <1>2, <1>4 DEF PutApplies, Class
<1>7. HeldAgrees(j)'
  BY <1>3, <1>6 DEF HeldAgrees
<1>8. \A k \in Jobs : k # j => proc'[k] = proc[k] /\ proc[k].m # m
  BY <1>1, <1>3, OthersElsewhere
<1> HIDE DEF m
<1> QED BY <1>1, <1>2, <1>5, <1>7, <1>8, WritingSerial

LEMMA AgentReturnsSerial ==
  ASSUME MissionsIInv, SerialIInv, DeliveriesApart, NEW j \in Jobs, AgentReturns(j)
  PROVE  SerialIInv'
<1>1. proc[j].pc = "agent" /\ Goto(j, "check") /\ UNCHANGED <<back, thread>>
  BY DEF AgentReturns, fixed
<1>2. PICK status \in Outcomes, wave \in BOOLEAN :
        Put(proc[j].m, status, [NoRow EXCEPT !.raw = status, !.events = v3_events(status, wave)])
  BY DEF AgentReturns
<1>3. status \in {"completed", "partial", "failed"}
  BY MissionBounds
<1>4. [NoRow EXCEPT !.raw = status, !.events = v3_events(status, wave)] \in RowRecord
  BY <1>3, OutcomeRow
<1>5. Class(status) = "ended" /\ [NoRow EXCEPT !.raw = status, !.events = v3_events(status, wave)].raw = status
  BY <1>3 DEF Class, NoRow
<1> QED BY <1>1, <1>2, <1>4, <1>5, OutcomePut

LEMMA JobFailSerial ==
  ASSUME MissionsIInv, SerialIInv, DeliveriesApart, NEW j \in Jobs, JobFail(j)
  PROVE  SerialIInv'
<1> DEFINE raw == [NoRow EXCEPT !.raw = "failed", !.async = TRUE, !.events = <<Event("failed", 2)>>]
<1>1. /\ proc[j].pc = "fail" /\ Goto(j, "context") /\ UNCHANGED <<back, thread>>
      /\ Put(proc[j].m, "failed", raw)
  BY DEF JobFail, fixed
<1>2. raw \in RowRecord /\ raw.raw = "failed"
  <2>1. <<Event("failed", 2)>> \in Seq(Events)
    BY DEF Event, Events, Kinds
  <2> QED BY <2>1, NoRowRecord DEF RowRecord, NoRow, Statuses
<1>3. Class("failed") = "ended"
  BY DEF Class
<1> HIDE DEF raw
<1> QED BY <1>1, <1>2, <1>3, OutcomePut

LEMMA JobMarkPutSerial ==
  ASSUME MissionsIInv, SerialIInv, DeliveriesApart, NEW j \in Jobs, JobMarkPut(j)
  PROVE  SerialIInv'
<1> DEFINE m == proc[j].m
<1>1. /\ proc[j].pc = "markput" /\ Goto(j, "context") /\ UNCHANGED <<back, thread>>
      /\ Put(m, proc[j].got, proc[j].raw)
  BY DEF JobMarkPut, fixed
<1>2. j \in Processes /\ m \in Missions /\ proc[j].raw \in RowRecord
  BY <1>1, AtWorkFacts DEF Processes, ProcRecord
<1>3. CASE m \notin thread
  <2>1. Class(proc[j].got) = "ended" /\ Class(proc[j].raw.raw) = "ended"
    BY <1>1, <1>3 DEF SerialIInv, HeldAgrees
  <2> QED BY <1>1, <1>2, <2>1, OutcomePut
<1>4. CASE m \in thread
  <2>1. \A k \in Missions : k # m => row'[k] = row[k]
    BY <1>1, <1>2, PutOneRow
  <2>2. /\ \A k \in Processes : k # j => proc'[k] = proc[k]
        /\ proc'[j].pc = "context"
    BY <1>1, <1>2, GotoSerial
  <2>3. HeldAgrees(j)'
    BY <2>2, CarelessAgrees DEF Careful
  <2>4. \A k \in Jobs : k # j => proc'[k] = proc[k]
    BY <2>2 DEF Processes
  <2> HIDE DEF m
  <2> QED BY <1>1, <1>2, <1>4, <2>1, <2>3, <2>4, WritingSerial
<1> QED BY <1>3, <1>4

LEMMA ContextPutSerial ==
  ASSUME MissionsIInv, SerialIInv, DeliveriesApart, NEW j \in Jobs, ContextPut(j)
  PROVE  SerialIInv'
<1> DEFINE m == proc[j].m
           got == proc[j].got
           raw == proc[j].raw
<1>1. /\ proc[j].pc = "contextput" /\ proc' = [proc EXCEPT ![j] = Idle]
      /\ UNCHANGED <<back, thread>> /\ Put(m, got, raw)
  BY DEF ContextPut, fixed
<1>2. j \in Processes /\ m \in Missions /\ raw \in RowRecord /\ proc \in [Processes -> ProcRecord]
  BY <1>1, AtWorkFacts DEF Processes, ProcRecord, ProcTypes
<1>3. /\ \A k \in Missions : k # m => row'[k] = row[k]
      /\ \/ ~PutApplies(row[m], got) /\ row'[m] = row[m]
         \/ PutApplies(row[m], got) /\ row'[m].result = got /\ row'[m].raw = raw.raw
  BY <1>1, <1>2, PutOneRow
<1>4. proc'[j].pc = "idle" /\ \A k \in Processes : k # j => proc'[k] = proc[k]
  BY <1>1, <1>2 DEF Idle
<1>5. HeldAgrees(j)'
  BY <1>4, CarelessAgrees DEF Careful
<1>6. \A k \in Jobs : k # j => proc'[k] = proc[k] /\ proc[k].m # m
  BY <1>1, <1>4, OthersElsewhere DEF Processes
<1>7. ASSUME m \notin thread PROVE SameClass(row'[m]) /\ back'[m] \in {"none", "done"}
  <2>1. /\ SameClass(row[m]) /\ back[m] \in {"none", "done"}
    BY <1>2, <1>7 DEF SerialIInv
  <2>2. /\ SameClass(raw)
        /\ got = raw.result \/ (got = "cancelled" /\ row[m].result = "cancelled")
    <3>1. HeldAgrees(j)
      BY DEF SerialIInv
    <3>2. SameClass(raw)
      BY <1>1, <1>7, <3>1 DEF HeldAgrees
    <3>3. got = raw.result \/ (got = "cancelled" /\ row[m].result = "cancelled")
      BY <1>1, <1>7, <3>1 DEF HeldAgrees
    <3> QED BY <3>2, <3>3
  <2>3. CASE PutApplies(row[m], got)
    <3>1. got = raw.result
      BY <2>2, <2>3 DEF PutApplies
    <3> QED BY <1>1, <1>3, <2>1, <2>2, <2>3, <3>1 DEF SameClass
  <2>4. CASE ~PutApplies(row[m], got)
    BY <1>1, <1>3, <2>1, <2>4
  <2> QED BY <2>3, <2>4
<1> HIDE DEF m, got, raw
<1> QED BY <1>1, <1>2, <1>3, <1>5, <1>6, <1>7, WritingSerial

\* The other steps of a job.
LEMMA JobReadsSerial ==
  ASSUME MissionsIInv, SerialIInv, NEW j \in Jobs,
         JobCheck(j) \/ JobMark(j) \/ JobMarkGet(j) \/ ContextRead(j) \/ ContextGet(j)
  PROVE  SerialIInv'
<1> DEFINE m == proc[j].m
<1>1. /\ proc[j].pc \in {"check", "mark", "markget", "context", "contextget"}
      /\ UNCHANGED <<row, back, thread>>
  BY DEF JobCheck, JobMark, JobMarkGet, ContextRead, ContextGet, storeVars, fixed
<1>2. /\ j \in Processes /\ m \in Missions /\ proc[j] \in ProcRecord
      /\ proc \in [Processes -> ProcRecord] /\ row[m] \in RowRecord
  BY <1>1, AtWorkFacts DEF Processes, ProcTypes
<1>3. HeldAgrees(j) /\ (m \notin thread => SameClass(row[m]))
  BY <1>2 DEF SerialIInv
<1>4. CASE JobCheck(j)
  <2>1. proc[j].pc = "check" /\ (Goto(j, "restore") \/ Goto(j, "mark"))
    BY <1>4 DEF JobCheck
  <2>2. /\ \A k \in Processes : k # j => proc'[k] = proc[k]
        /\ proc'[j].pc \in {"restore", "mark"} /\ proc'[j].m = m
    BY <1>2, <2>1, GotoSerial
  <2>3. HeldAgrees(j)'
    BY <1>1, <1>3, <2>1, <2>2 DEF HeldAgrees
  <2> QED BY <1>1, <1>2, <2>2, <2>3, GoesSerial
<1>5. CASE JobMark(j)
  <2> DEFINE raw == [row[m] EXCEPT !.async = TRUE]
  <2>1. /\ proc[j].pc = "mark"
        /\ \/ Goto(j, "context")
           \/ /\ row[m].raw \notin {"none", "cancelled"}
              /\ proc' = [proc EXCEPT ![j].pc = "markget", ![j].raw = raw]
    BY <1>5 DEF JobMark, get_raw
  <2>2. CASE Goto(j, "context")
    BY <1>1, <1>2, <2>2, ToCareless DEF Careful
  <2>3. CASE /\ row[m].raw \notin {"none", "cancelled"}
             /\ proc' = [proc EXCEPT ![j].pc = "markget", ![j].raw = raw]
    <3>1. /\ proc'[j] = [proc[j] EXCEPT !.pc = "markget", !.raw = raw]
          /\ \A k \in Processes : k # j => proc'[k] = proc[k]
      BY <1>2, <2>3
    <3>2. raw.raw = row[m].raw
      BY <1>2 DEF RowRecord
    <3>3. proc'[j].pc = "markget" /\ proc'[j].m = m /\ proc'[j].raw.raw = row[m].raw
      BY <1>2, <3>1, <3>2 DEF ProcRecord
    <3>4. m \notin thread => Class(row[m].result) = "ended" /\ Class(row[m].raw) = "ended"
      BY <1>3, <2>1, <2>3 DEF HeldAgrees, SameClass, Class
    <3> HIDE DEF m, raw
    <3>5. HeldAgrees(j)'
      BY <1>1, <3>3, <3>4 DEF HeldAgrees
    <3> QED BY <1>1, <1>2, <3>1, <3>5, GoesSerial
  <2> QED BY <2>1, <2>2, <2>3
<1>6. CASE JobMarkGet(j)
  <2>1. /\ proc[j].pc = "markget"
        /\ \/ Goto(j, "context")
           \/ /\ row[m].result # "cancelled"
              /\ proc' = [proc EXCEPT ![j].pc = "markput", ![j].got = row[m].result]
    BY <1>6 DEF JobMarkGet, get
  <2>2. CASE Goto(j, "context")
    BY <1>1, <1>2, <2>2, ToCareless DEF Careful
  <2>3. CASE /\ row[m].result # "cancelled"
             /\ proc' = [proc EXCEPT ![j].pc = "markput", ![j].got = row[m].result]
    <3>1. /\ proc'[j] = [proc[j] EXCEPT !.pc = "markput", !.got = row[m].result]
          /\ \A k \in Processes : k # j => proc'[k] = proc[k]
      BY <1>2, <2>3
    <3>2. /\ proc'[j].pc = "markput" /\ proc'[j].m = m /\ proc'[j].raw = proc[j].raw
          /\ proc'[j].got = row[m].result
      BY <1>2, <3>1 DEF ProcRecord
    <3>3. m \notin thread => /\ Class(row[m].result) = "ended"
                             /\ Class(proc[j].raw.raw) = "ended"
      BY <1>3, <2>1, <2>3 DEF HeldAgrees, Class
    <3> HIDE DEF m
    <3>4. HeldAgrees(j)'
      BY <1>1, <3>2, <3>3 DEF HeldAgrees
    <3> QED BY <1>1, <1>2, <3>1, <3>4, GoesSerial
  <2> QED BY <2>1, <2>2, <2>3
<1>7. CASE ContextRead(j)
  <2>1. proc' = [proc EXCEPT ![j].pc = "contextget", ![j].raw = row[m]]
    BY <1>7 DEF ContextRead, get_raw
  <2>2. /\ proc'[j] = [proc[j] EXCEPT !.pc = "contextget", !.raw = row[m]]
        /\ \A k \in Processes : k # j => proc'[k] = proc[k]
    BY <1>2, <2>1
  <2>3. proc'[j].pc = "contextget" /\ proc'[j].m = m /\ proc'[j].raw = row[m]
    BY <1>2, <2>2 DEF ProcRecord
  <2> HIDE DEF m
  <2>4. HeldAgrees(j)'
    BY <1>1, <1>3, <2>3 DEF HeldAgrees
  <2> QED BY <1>1, <1>2, <2>2, <2>4, GoesSerial
<1>8. CASE ContextGet(j)
  <2>1. /\ proc[j].pc = "contextget"
        /\ proc' = [proc EXCEPT ![j].pc = "contextput", ![j].got = row[m].result]
    BY <1>8 DEF ContextGet, get
  <2>2. /\ proc'[j] = [proc[j] EXCEPT !.pc = "contextput", !.got = row[m].result]
        /\ \A k \in Processes : k # j => proc'[k] = proc[k]
    BY <1>2, <2>1
  <2>3. /\ proc'[j].pc = "contextput" /\ proc'[j].m = m /\ proc'[j].raw = proc[j].raw
        /\ proc'[j].got = row[m].result
    BY <1>2, <2>2 DEF ProcRecord
  <2>4. m \notin thread => SameClass(proc[j].raw) /\ row[m].result \in {"cancelled", proc[j].raw.result}
    BY <1>3, <2>1 DEF HeldAgrees
  <2> HIDE DEF m
  <2>5. HeldAgrees(j)'
    BY <1>1, <2>3, <2>4 DEF HeldAgrees
  <2> QED BY <1>1, <1>2, <2>2, <2>5, GoesSerial
<1> QED BY <1>4, <1>5, <1>6, <1>7, <1>8

\* The steps that hold nothing of the row afterwards.
LEMMA JobGoesSerial ==
  ASSUME MissionsIInv, SerialIInv, NEW j \in Jobs,
         AgentRaises(j) \/ JobRestore(j) \/ JobExcept(j) \/ DropFlag(j)
  PROVE  SerialIInv'
<1>1. j \in Processes /\ UNCHANGED <<row, back, thread>>
  BY DEF AgentRaises, JobRestore, JobExcept, DropFlag, storeVars, fixed, Processes
<1>2. \/ \E pc \in {"except", "context", "fail"} : Goto(j, pc)
      \/ \E ret \in {"job", "except"} : proc' = [proc EXCEPT ![j].pc = "cancel1", ![j].ret = ret]
  BY DEF AgentRaises, JobRestore, JobExcept, DropFlag
<1>3. CASE \E pc \in {"except", "context", "fail"} : Goto(j, pc)
  BY <1>1, <1>3, ToCareless DEF Careful
<1>4. CASE \E ret \in {"job", "except"} : proc' = [proc EXCEPT ![j].pc = "cancel1", ![j].ret = ret]
  <2>1. PICK ret \in {"job", "except"} : proc' = [proc EXCEPT ![j].pc = "cancel1", ![j].ret = ret]
    BY <1>4
  <2>2. proc \in [Processes -> ProcRecord] /\ proc[j] \in ProcRecord
    BY <1>1 DEF MissionsIInv, ProcTypes
  <2>3. /\ proc'[j] = [proc[j] EXCEPT !.pc = "cancel1", !.ret = ret]
        /\ \A k \in Processes : k # j => proc'[k] = proc[k]
    BY <1>1, <2>1, <2>2
  <2>4. proc'[j].pc = "cancel1"
    BY <2>2, <2>3 DEF ProcRecord
  <2>5. HeldAgrees(j)'
    BY <2>4, CarelessAgrees DEF Careful
  <2> QED BY <1>1, <2>3, <2>5, GoesSerial
<1> QED BY <1>2, <1>3, <1>4

LEMMA JobStartSerial ==
  ASSUME MissionsIInv, SerialIInv, NEW j \in Jobs, NEW m \in Missions, JobStart(j, m)
  PROVE  SerialIInv'
<1> DEFINE pc == IF is_cancel_requested(j, m) THEN "context" ELSE "agent"
<1>1. /\ j \in Processes /\ UNCHANGED <<row, back, thread>>
      /\ proc' = [proc EXCEPT ![j] = [Idle EXCEPT !.m = m, !.pc = pc]]
  BY DEF JobStart, storeVars, fixed, Processes
<1>2. pc \in {"context", "agent"}
  OBVIOUS
<1> HIDE DEF pc
<1>3. /\ proc'[j].pc = pc
      /\ \A k \in Processes : k # j => proc'[k] = proc[k]
  BY <1>1 DEF Idle, MissionsIInv, ProcTypes
<1>4. HeldAgrees(j)'
  BY <1>2, <1>3, CarelessAgrees DEF Careful
<1> QED BY <1>1, <1>3, <1>4, GoesSerial

LEMMA CancelSerial ==
  ASSUME MissionsIInv, SerialIInv, NEW p \in Processes, CancelStep(p)
  PROVE  SerialIInv'
<1> DEFINE m == proc[p].m
<1>1. proc[p].pc \in Cancelling /\ UNCHANGED <<back, thread>>
  BY DEF CancelStep, CancelFirstCheck, CancelFlag, CancelSecondCheck, CancelPut, CancelConfirm,
         fixed, Cancelling
<1>2. /\ m \in Missions /\ proc[p] \in ProcRecord /\ proc \in [Processes -> ProcRecord]
      /\ row[m] \in RowRecord
  BY <1>1, AtWorkFacts DEF Cancelling, ProcTypes
<1>3. Refused(p) \in {"refused", "except", "dropflag"}
  BY <1>1, RefusedPlaces
<1>4. CASE CancelPut(p)
  <2> DEFINE old == proc[p].raw
             events == Append(old.events, Event("cancelled", Len(old.events) + 1))
             raw == [old EXCEPT !.raw = "cancelled", !.async = TRUE, !.events = events]
  <2>1. proc[p].pc = "cancel4" /\ Put(m, "cancelled", raw) /\ Goto(p, "cancel5")
    BY <1>4 DEF CancelPut
  <2>2. raw \in RowRecord /\ raw.raw = "cancelled"
    BY <1>2, CancelledRow DEF ProcRecord, RowRecord
  <2> HIDE DEF raw
  <2>3. /\ \A k \in Missions : k # m => row'[k] = row[k]
        /\ \/ row'[m] = row[m]
           \/ row'[m].result = "cancelled" /\ row'[m].raw = "cancelled"
    BY <1>2, <2>1, <2>2, PutOneRow
  <2>4. /\ \A k \in Processes : k # p => proc'[k] = proc[k]
        /\ proc'[p].pc = "cancel5"
    BY <2>1, GotoSerial
  <2>5. p \in Jobs => HeldAgrees(p)'
    BY <2>4, CarelessAgrees DEF Careful
  <2>6. m \notin thread => SameClass(row'[m]) /\ back'[m] \in {"none", "done"}
    BY <1>1, <1>2, <2>3 DEF SerialIInv, SameClass
  <2>7. \A j \in Jobs : HeldAgrees(j)' \/ proc'[j] = proc[j]
    BY <2>4, <2>5 DEF Processes
  <2>8. row'[m].result \in {row[m].result, "cancelled"}
    BY <2>3
  <2> HIDE DEF m
  <2> QED BY <1>1, <1>2, <2>3, <2>6, <2>7, <2>8, WritingSerial
<1>5. CASE ~CancelPut(p)
  <2>1. UNCHANGED row
    BY <1>5 DEF CancelStep, CancelFirstCheck, CancelFlag, CancelSecondCheck, CancelConfirm, storeVars
  <2>2. CASE \E pc \in {"cancel2", "cancel3", "accepted", "context", "refused", "except", "dropflag"} :
               Goto(p, pc)
    BY <1>1, <2>1, <2>2, ToCareless DEF Careful
  <2>3. CASE proc' = [proc EXCEPT ![p].pc = "cancel4", ![p].raw = row[m]]
    <3>1. /\ proc'[p] = [proc[p] EXCEPT !.pc = "cancel4", !.raw = row[m]]
          /\ \A k \in Processes : k # p => proc'[k] = proc[k]
      BY <1>2, <2>3
    <3>2. proc'[p].pc = "cancel4"
      BY <1>2, <3>1 DEF ProcRecord
    <3>3. HeldAgrees(p)'
      BY <3>2, CarelessAgrees DEF Careful
    <3> QED BY <1>1, <2>1, <3>1, <3>3, GoesSerial
  <2>4. \/ \E pc \in {"cancel2", "cancel3", "accepted", "context", Refused(p)} : Goto(p, pc)
        \/ proc' = [proc EXCEPT ![p].pc = "cancel4", ![p].raw = row[m]]
    <3>1. CASE CancelFirstCheck(p)
      BY <3>1 DEF CancelFirstCheck
    <3>2. CASE CancelFlag(p)
      BY <3>2 DEF CancelFlag
    <3>3. CASE CancelSecondCheck(p)
      BY <3>3 DEF CancelSecondCheck, get_raw
    <3>4. CASE CancelConfirm(p)
      BY <3>4 DEF CancelConfirm
    <3> QED BY <1>5, <3>1, <3>2, <3>3, <3>4 DEF CancelStep
  <2> QED BY <1>3, <2>2, <2>3, <2>4
<1> QED BY <1>4, <1>5

LEMMA OutsideSerial ==
  ASSUME MissionsIInv, SerialIInv,
         \/ \E c \in Clients, m \in Missions : cancel_mission(c, m) \/ cancel_run(c, m)
         \/ \E n \in Nodes : Crash(n)
         \/ \E j \in Jobs : JobCancelled(j)
  PROVE  SerialIInv'
<1>1. ASSUME NEW c \in Clients, NEW m \in Missions, cancel_mission(c, m) \/ cancel_run(c, m)
      PROVE  SerialIInv'
  <2>1. UNCHANGED <<row, back, thread>>
    BY <1>1 DEF cancel_mission, cancel_run, storeVars, fixed
  <2>2. c \in Processes /\ c \notin Jobs
    BY MissionBounds DEF Processes
  <2>3. proc' = [proc EXCEPT ![c] = [Idle EXCEPT !.pc = "cancel1", !.m = m, !.ret = "client"]]
    BY <1>1 DEF cancel_mission, cancel_run
  <2>4. \A k \in Processes : k # c => proc'[k] = proc[k]
    BY <2>3 DEF MissionsIInv, ProcTypes
  <2> QED BY <2>1, <2>2, <2>4, GoesSerial
<1>2. ASSUME NEW n \in Nodes, Crash(n) PROVE SerialIInv'
  <2>1. UNCHANGED <<row, back, thread>>
    BY <1>2 DEF Crash, storeVars, fixed
  <2>2. proc' = [p \in Processes |->
                   IF Node(p) = n /\ proc[p].pc \notin {"refused", "accepted"}
                   THEN Idle ELSE proc[p]]
    BY <1>2 DEF Crash
  <2>3. ASSUME NEW j \in Jobs PROVE HeldAgrees(j)' \/ proc'[j] = proc[j]
    <3>1. proc'[j] = Idle \/ proc'[j] = proc[j]
      BY <2>2 DEF Processes
    <3>2. Idle.pc \notin Careful
      BY DEF Idle, Careful
    <3> QED BY <3>1, <3>2, CarelessAgrees
  <2> QED BY <2>1, <2>3, QuietSerial
<1>3. ASSUME NEW j \in Jobs, JobCancelled(j) PROVE SerialIInv'
  <2>1. UNCHANGED <<row, back, thread>> /\ proc' = [proc EXCEPT ![j] = Idle]
    BY <1>3 DEF JobCancelled, storeVars, fixed
  <2>2. ASSUME NEW k \in Jobs PROVE HeldAgrees(k)' \/ proc'[k] = proc[k]
    <3>1. proc'[k] = Idle \/ proc'[k] = proc[k]
      BY <2>1 DEF MissionsIInv, ProcTypes, Processes
    <3>2. Idle.pc \notin Careful
      BY DEF Idle, Careful
    <3> QED BY <3>1, <3>2, CarelessAgrees
  <2> QED BY <2>1, <2>2, QuietSerial
<1> QED BY <1>1, <1>2, <1>3

LEMMA SubmitSerial ==
  ASSUME MissionsIInv, SerialIInv, NEW m \in Missions,
         \/ seed_running_mission(m) \/ enqueue_durable_mission(m)
         \/ PutBackGet(m) \/ PutBackPut(m)
  PROVE  SerialIInv'
<1>1. UNCHANGED <<thread, proc>> /\ Jobs \subseteq Processes
  BY DEF seed_running_mission, enqueue_durable_mission, PutBackGet, PutBackPut, fixed, Processes
<1>2. back \in [Missions -> Statuses \cup {"none", "todo", "done"}]
  BY DEF MissionsIInv, OtherTypes
<1>3. m \notin thread => SameClass(row[m]) /\ back[m] \in {"none", "done"}
  BY DEF SerialIInv
<1>4. CASE seed_running_mission(m)
  <2>1. /\ row[m].result = "none" /\ Put(m, "running", Placeholder) /\ UNCHANGED back
    BY <1>4 DEF seed_running_mission
  <2>2. Placeholder \in RowRecord /\ Placeholder.raw = "running"
    BY PlaceholderRow
  <2>3. /\ \A k \in Missions : k # m => row'[k] = row[k]
        /\ row'[m].result = "running" /\ row'[m].raw = "running"
    BY <2>1, <2>2, PutOneRow DEF PutApplies
  <2>4. \A j \in Jobs : proc[j].m # m
    <3>1. \A j \in Jobs : proc[j].pc # "idle" => row[proc[j].m].result # "none"
      BY <1>1, AtWorkFacts
    <3>2. \A j \in Jobs : proc[j].pc = "idle" => proc[j].m = "none"
      BY <1>1 DEF MissionsIInv, AtWork
    <3> QED BY <2>1, <3>1, <3>2, MissionBounds
  <2> QED BY <1>1, <1>3, <2>1, <2>3, <2>4, WritingSerial DEF SameClass
<1>5. CASE enqueue_durable_mission(m)
  <2>1. /\ back' = [back EXCEPT ![m] = IF m \in thread THEN "todo" ELSE "done"]
        /\ UNCHANGED row
    BY <1>5 DEF enqueue_durable_mission, storeVars
  <2>2. /\ \A k \in Missions : k # m => back'[k] = back[k]
        /\ m \notin thread => back'[m] = "done"
    BY <1>2, <2>1
  <2> QED BY <1>1, <1>3, <2>1, <2>2, WritingSerial
<1>6. CASE PutBackGet(m)
  <2>1. /\ back[m] = "todo" /\ back' = [back EXCEPT ![m] = row[m].result] /\ UNCHANGED row
    BY <1>6 DEF PutBackGet, get, storeVars
  <2>2. m \in thread /\ \A k \in Missions : k # m => back'[k] = back[k]
    BY <1>2, <1>3, <2>1
  <2> QED BY <1>1, <2>1, <2>2, WritingSerial
<1>7. CASE PutBackPut(m)
  <2>1. /\ back[m] \in Statuses /\ Put(m, back[m], Placeholder)
        /\ back' = [back EXCEPT ![m] = "done"]
    BY <1>7 DEF PutBackPut
  <2>2. m \in thread /\ \A k \in Missions : k # m => back'[k] = back[k]
    BY <1>2, <1>3, <2>1 DEF Statuses
  <2>3. \A k \in Missions : k # m => row'[k] = row[k]
    BY <2>1, PlaceholderRow, PutOneRow
  <2> QED BY <1>1, <2>2, <2>3, WritingSerial
<1> QED BY <1>4, <1>5, <1>6, <1>7

LEMMA SerialKept ==
  ASSUME MissionsIInv, SerialIInv, DeliveriesApart, [MissionsNext]_missionVars
  PROVE  SerialIInv'
<1>1. CASE MissionsNext
  <2>1. ASSUME NEW j \in Jobs, JobStep(j) PROVE SerialIInv'
    BY <2>1, AgentReturnsSerial, JobMarkPutSerial, JobFailSerial, ContextPutSerial,
       JobReadsSerial, JobGoesSerial DEF JobStep
  <2> QED
    BY <1>1, <2>1, SubmitSerial, JobStartSerial, CancelSerial, OutsideSerial DEF MissionsNext
<1>2. CASE UNCHANGED missionVars
  BY <1>2, QuietSerial DEF missionVars
<1> QED BY <1>1, <1>2

\* What the two stores decide of a row whose statuses agree is the same.
LEMMA AgreeingRow ==
  ASSUME NEW r \in RowRecord, SameClass(r), NEW new \in Statuses
  PROVE  PutApplies(r, new) = MemoryPutApplies(r, new)
<1>1. CASE r.result = "none"
  BY <1>1 DEF SameClass, Class, PutApplies, MemoryPutApplies, RowRecord, Statuses
<1>2. CASE r.result = "running"
  BY <1>2 DEF SameClass, Class, PutApplies, MemoryPutApplies, RowRecord, Statuses
<1>3. CASE r.result = "cancelled"
  BY <1>3 DEF SameClass, Class, PutApplies, MemoryPutApplies, RowRecord, Statuses
<1>4. CASE r.result \in {"completed", "partial", "failed"}
  BY <1>4 DEF SameClass, Class, PutApplies, MemoryPutApplies, RowRecord, Statuses
<1> QED BY <1>1, <1>2, <1>3, <1>4 DEF RowRecord, Statuses

\* As long as no two executions of one mission overlap - they do only when a
\* worker whose lease ran out goes on beside its successor - the in-memory store
\* and Postgres decide alike on every write to a mission of the mission API, and
\* so everything that the runs check of a mission holds for any number of
\* missions, workers, cancels and deaths.
THEOREM MissionsAgreeWhileApart == MissionsSpec /\ []DeliveriesApart => []MissionsInv
<1>1. MissionsInit => SerialIInv
  <2> SUFFICES ASSUME MissionsInit PROVE SerialIInv
    OBVIOUS
  <2>1. \A m \in Missions : row[m] = NoRow /\ back[m] = "none"
    BY DEF MissionsInit, StoreInit
  <2>2. \A j \in Jobs : proc[j].pc = "idle"
    BY DEF MissionsInit, Processes, Idle
  <2>3. \A j \in Jobs : HeldAgrees(j)
    BY <2>2 DEF HeldAgrees
  <2> QED BY <2>1, <2>3 DEF SerialIInv, SameClass, NoRow
<1>2. MissionsIInv /\ SerialIInv /\ DeliveriesApart /\ [MissionsNext]_missionVars => SerialIInv'
  BY SerialKept
<1>3. MissionsIInv /\ SerialIInv => MissionsInv
  <2> SUFFICES ASSUME MissionsIInv, SerialIInv PROVE MissionsInv
    OBVIOUS
  <2>1. ASSUME NEW m \in Missions \ thread, NEW new \in Statuses
        PROVE  PutApplies(row[m], new) = MemoryPutApplies(row[m], new)
    <3>1. row[m] \in RowRecord /\ SameClass(row[m])
      BY DEF SerialIInv, MissionsIInv, StoreTypes
    <3> QED BY <3>1, AgreeingRow
  <2>2. StoresAgree
    BY <2>1 DEF StoresAgree
  <2> QED BY <2>2, MissionsFacts DEF MissionsInv
<1> QED BY <1>1, <1>2, <1>3, MissionsInductive, PTL DEF MissionsSpec

-----------------------------------------------------------------------------
(* The daily health snapshots (DomainHealth).  What a run files is honest   *)
(* of itself, whoever else runs; that what was filed can still be read      *)
(* needs the runs to come one after the other.                              *)

\* A snapshot of a day: the worst status, and signals that were measured.
WorstOf(d, x) ==
  LET found == {x.metrics[i].status : i \in DOMAIN Profiles_[d]} IN
  x.status = IF "UNAVAILABLE" \in found THEN "UNAVAILABLE"
             ELSE IF "PARTIAL" \in found THEN "DEGRADED" ELSE "OK"
MeasuredBy(d, x) ==
  \A i \in x.signals :
    LET rows == x.series[i].rows
        delta == x.metrics[i].delta IN
    /\ \E n \in DOMAIN rows : rows[n] = delta[1]
    /\ IF Profiles_[d][i].class = "windowed" THEN x.previous
       ELSE \E n \in DOMAIN rows : rows[n] = delta[2]
Honest(d, t, x) == x.kind = "whole" /\ x.as_of = t /\ WorstOf(d, x) /\ MeasuredBy(d, x)
HonestFile(d, t, x) == x = NoFile_ \/ x = Torn \/ Honest(d, t, x)

\* A file, a temporary file and what a process holds are one of the three.
FilesHonest ==
  \A d \in DomainSet, t \in Days : HonestFile(d, t, disk[d][t]) /\ HonestFile(d, t, tmp_[d][t])
Carries(r) == runner[r].at \in {"opening", "writing", "replacing"}
RunnersHonest ==
  \A r \in Runners :
    /\ runner[r].at # "idle" => runner[r].n \in 1..Len(Domains)
    /\ runner[r].n \in 0..Len(Domains)
    /\ Carries(r) \/ At(r, "resolving") => runner[r].as_of \in Days
    /\ Carries(r) => Honest(Domain(r), runner[r].as_of, runner[r].snapshot)
IsFileMap(files) == files = [d \in DomainSet |-> [t \in Days |-> files[d][t]]]
HealthShapes ==
  /\ date \in Days /\ killed_ \in 0..MaxKilledRuns
  /\ IsFileMap(disk) /\ IsFileMap(tmp_)
  /\ runner = [r \in Runners |-> runner[r]]
  /\ \A r \in Runners : DOMAIN runner[r] = DOMAIN Asleep
  /\ saved = [d \in DomainSet |-> saved[d]]
HealthIInv == HealthShapes /\ FilesHonest /\ RunnersHonest

\* With one run at a time the temporary file is whole when it is put in place, no
\* file is ever torn, and the newest file that was saved is there.
FilesKept ==
  /\ \A d \in DomainSet, t \in Days : disk[d][t] # Torn
  /\ \A d \in DomainSet :
       saved[d] \in 0..LastDay /\ (saved[d] > 0 => Readable(d, saved[d]))
  /\ \A r \in Runners :
       At(r, "replacing") => tmp_[Domain(r)][runner[r].as_of] = runner[r].snapshot

\* One run at a time: cron starts the next when the last has ended.
OneAtATime == \A r, q \in Runners : r = q

HealthSpec == HealthInit /\ [][HealthNext]_healthVars

\* The newest of some points is one of them.
LEMMA NewestIsAPoint ==
  ASSUME NEW points, points # {}, NEW n \in Nat, \A p \in points : p[1] \in 1..n
  PROVE  NewestPoint(points) \in points
<1> DEFINE T == {n - p[1] : p \in points}
<1>1. T \subseteq Nat /\ T # {}  OBVIOUS
<1>2. PICK k \in T : \A l \in T : ~(l < k)  BY <1>1, LeastNumber
<1>3. PICK p \in points : k = n - p[1]  BY <1>2
<1>4. \A q \in points : q[1] <= p[1]
  <2> SUFFICES ASSUME NEW q \in points PROVE q[1] <= p[1]
    OBVIOUS
  <2>1. n - q[1] \in T  OBVIOUS
  <2>2. ~(n - q[1] < n - p[1])  BY <1>2, <1>3, <2>1
  <2> QED BY <2>2
<1> QED BY <1>4 DEF NewestPoint

\* What a metric's state says was read in a row.
LEMMA StateIsMeasured ==
  ASSUME NEW features \in BOOLEAN, NEW s, s.rows \in Seq(Int)
  PROVE  LET state == get_metric_state(features, s) IN
         /\ state.status \in {"UNAVAILABLE", "PARTIAL", "OK"}
         /\ state.actual # Missing => \E n \in DOMAIN s.rows : s.rows[n] = state.actual
         /\ state.delta # NoDelta =>
              /\ \E n \in DOMAIN s.rows : s.rows[n] = state.delta[1]
              /\ \E n \in DOMAIN s.rows : s.rows[n] = state.delta[2]
<1> DEFINE points == fetch_series(s)
           earlier == points \ {NewestPoint(points)}
<1>1. Len(s.rows) \in Nat /\ DOMAIN s.rows = 1..Len(s.rows)
  OBVIOUS
<1>2. \A p \in points : p[1] \in 1..Len(s.rows) /\ p[2] = s.rows[p[1]]
  BY <1>1 DEF fetch_series
<1>3. points # {} => NewestPoint(points) \in points
  <2> HIDE DEF points
  <2> QED BY <1>1, <1>2, NewestIsAPoint
<1>4. earlier # {} => NewestPoint(earlier) \in points
  <2>1. \A p \in earlier : p[1] \in 1..Len(s.rows)  BY <1>2
  <2>2. earlier \subseteq points  OBVIOUS
  <2> HIDE DEF points, earlier
  <2> QED BY <1>1, <2>1, <2>2, NewestIsAPoint
<1>5. \A p \in points : \E n \in DOMAIN s.rows : s.rows[n] = p[2]
  BY <1>1, <1>2
<1>6. period_delta_pct(points) # NoDelta =>
        /\ points # {} /\ earlier # {}
        /\ period_delta_pct(points) = <<NewestPoint(points)[2], NewestPoint(earlier)[2]>>
  <2>1. earlier # {} => points # {}  OBVIOUS
  <2> HIDE DEF points
  <2> QED BY <2>1 DEF period_delta_pct, Delta
<1> HIDE DEF points, earlier
<1>7. CASE s.error \/ points = {}
  BY <1>7 DEF get_metric_state, points
<1>8. CASE ~(s.error \/ points = {})
  <2>1. get_metric_state(features, s) =
          [status |-> IF features /\ Sparse(points) THEN "PARTIAL" ELSE "OK",
           actual |-> NewestPoint(points)[2],
           delta |-> IF features THEN period_delta_pct(points) ELSE NoDelta]
    BY <1>8 DEF get_metric_state, points
  <2>2. \E n \in DOMAIN s.rows : s.rows[n] = NewestPoint(points)[2]
    BY <1>3, <1>5, <1>8
  <2>3. period_delta_pct(points) # NoDelta =>
           /\ \E n \in DOMAIN s.rows : s.rows[n] = period_delta_pct(points)[1]
           /\ \E n \in DOMAIN s.rows : s.rows[n] = period_delta_pct(points)[2]
    <3>1. SUFFICES ASSUME period_delta_pct(points) # NoDelta
                  PROVE  /\ \E n \in DOMAIN s.rows : s.rows[n] = period_delta_pct(points)[1]
                         /\ \E n \in DOMAIN s.rows : s.rows[n] = period_delta_pct(points)[2]
      OBVIOUS
    <3>2. period_delta_pct(points)[1] = NewestPoint(points)[2]
          /\ period_delta_pct(points)[2] = NewestPoint(earlier)[2]
      BY <1>6, <3>1
    <3> QED BY <1>3, <1>4, <1>5, <1>6, <3>1, <3>2
  <2>4. get_metric_state(features, s).status \in {"UNAVAILABLE", "PARTIAL", "OK"}
        /\ get_metric_state(features, s).actual = NewestPoint(points)[2]
        /\ get_metric_state(features, s).delta =
             IF features THEN period_delta_pct(points) ELSE NoDelta
    BY <2>1
  <2> QED BY <2>2, <2>3, <2>4
<1> QED BY <1>7, <1>8

\* A domain is as bad as its worst metric, in whichever order they come.
LEMMA StatusIsTheWorst ==
  ASSUME NEW n \in Nat, NEW found \in [1..n -> {"UNAVAILABLE", "PARTIAL", "OK"}]
  PROVE  Status(found) = LET F == {found[i] : i \in 1..n} IN
                         IF "UNAVAILABLE" \in F THEN "UNAVAILABLE"
                         ELSE IF "PARTIAL" \in F THEN "DEGRADED" ELSE "OK"
<1> DEFINE V == {"UNAVAILABLE", "DEGRADED", "OK"}
           Value(f, i) == IF i = 0 THEN "OK" ELSE Worse(f[i - 1], found[i])
           upto == CHOOSE f : f = [i \in 0..n |-> Value(f, i)]
           W(k) == LET F == {found[i] : i \in 1..k} IN
                   IF "UNAVAILABLE" \in F THEN "UNAVAILABLE"
                   ELSE IF "PARTIAL" \in F THEN "DEGRADED" ELSE "OK"
<1>1. Len(found) = n
  OBVIOUS
<1>2. \E f : f = [i \in 0..n |-> Value(f, i)]
  <2> DEFINE step == [p \in V \X (1..n) |-> Worse(p[1], found[p[2]])]
  <2>1. step \in [V \X (1..n) -> V]
    BY DEF Worse
  <2>2. PICK f \in [0..n -> V] : Recursion(f, "OK", step, n)
    <3>1. "OK" \in V  OBVIOUS
    <3> HIDE DEF step, V
    <3> QED BY <2>1, <3>1, RecursionExists
  <2>3. \A i \in 0..n : f[i] = Value(f, i)
    <3> SUFFICES ASSUME NEW i \in 0..n PROVE f[i] = Value(f, i)
      OBVIOUS
    <3>1. i = 0 \/ (i \in 1..n /\ i - 1 \in 0..n)  OBVIOUS
    <3>2. i # 0 => <<f[i - 1], i>> \in V \X (1..n)  BY <3>1
    <3> QED BY <2>2, <3>1, <3>2 DEF Recursion
  <2>4. f = [i \in 0..n |-> f[i]]  BY <2>2
  <2> HIDE DEF step, V
  <2> QED BY <2>3, <2>4
<1>3. upto = [i \in 0..n |-> Value(upto, i)]
  BY <1>2
<1>4. Status(found) = upto[n]
  BY <1>1 DEF Status
<1> HIDE DEF upto
<1> DEFINE S == {k \in Nat : k <= n => upto[k] = W(k)}
<1>5. 0 \in S
  BY <1>3
<1>6. ASSUME NEW k \in Nat, k \in S PROVE k + 1 \in S
  <2> SUFFICES ASSUME k + 1 <= n PROVE upto[k + 1] = W(k + 1)
    OBVIOUS
  <2>1. upto[k] = W(k) /\ k + 1 \in 1..n
    BY <1>6
  <2>2. upto[k + 1] = Worse(W(k), found[k + 1])
    <3>1. k + 1 \in 0..n /\ k + 1 # 0 /\ (k + 1) - 1 = k  BY <2>1
    <3> HIDE DEF W
    <3> QED BY <1>3, <2>1, <3>1
  <2>3. {found[i] : i \in 1..(k + 1)} = {found[i] : i \in 1..k} \cup {found[k + 1]}
    <3>1. 1..(k + 1) = (1..k) \cup {k + 1}  OBVIOUS
    <3> QED BY <3>1
  <2>4. found[k + 1] \in {"UNAVAILABLE", "PARTIAL", "OK"}  BY <2>1
  <2> QED BY <2>2, <2>3, <2>4 DEF Worse
<1> HIDE DEF S, W
<1>7. n \in S /\ n <= n
  BY <1>5, <1>6, InductionOverASet
<1> QED BY <1>4, <1>7 DEF S, W

\* What the resolver makes of any rows is honest of them.
LEMMA ResolvedIsHonest ==
  ASSUME NEW d \in DomainSet, NEW t, NEW series \in Fetches, NEW previous,
         DOMAIN series = DOMAIN Profiles_[d]
  PROVE  Honest(d, t, Resolved(d, t, series, previous))
<1> DEFINE metrics == ResolvedMetrics(d, series, previous)
           x == Resolved(d, t, series, previous)
           n == Len(Profiles_[d])
           found == [i \in DOMAIN metrics |-> metrics[i].status]
           ClassOf(i) == Profiles_[d][i].class
           State(i) == get_metric_state(ClassOf(i) = "features", series[i])
<1>1. d \in DOMAIN Profiles_ /\ n \in Nat /\ DOMAIN Profiles_[d] = 1..n
  BY HealthAssumption DEF DomainSet
<1>2. DOMAIN metrics = 1..n
  BY <1>1 DEF ResolvedMetrics
<1>3. \A i \in 1..n :
        /\ metrics[i].status = State(i).status
        /\ metrics[i].delta = IF ClassOf(i) = "windowed"
                              THEN Delta(State(i).actual, PreviousValue(previous, i))
                              ELSE State(i).delta
  BY <1>1 DEF ResolvedMetrics
<1>4. \A i \in 1..n : series[i].rows \in Seq(Int)
  BY <1>1, HealthAssumption
<1>5. ASSUME NEW i \in 1..n
      PROVE  /\ State(i).status \in {"UNAVAILABLE", "PARTIAL", "OK"}
             /\ State(i).actual # Missing => \E k \in DOMAIN series[i].rows : series[i].rows[k] = State(i).actual
             /\ State(i).delta # NoDelta =>
                  /\ \E k \in DOMAIN series[i].rows : series[i].rows[k] = State(i).delta[1]
                  /\ \E k \in DOMAIN series[i].rows : series[i].rows[k] = State(i).delta[2]
  <2>1. (ClassOf(i) = "features") \in BOOLEAN /\ series[i].rows \in Seq(Int)  BY <1>4
  <2> HIDE DEF metrics, x, n, found
  <2> QED BY <2>1, StateIsMeasured
<1> HIDE DEF metrics
<1>6. /\ x.kind = "whole" /\ x.as_of = t /\ x.metrics = metrics /\ x.status = Status(found)
      /\ x.signals = {i \in DOMAIN metrics : Breached(Profiles_[d][i].rule, metrics[i].delta)}
      /\ x.series = series /\ x.previous = (previous.kind # "absent")
  BY DEF Resolved, metrics
<1> HIDE DEF x, State
<1>7. WorstOf(d, x)
  <2>1. found \in [1..n -> {"UNAVAILABLE", "PARTIAL", "OK"}]
    <3>1. \A i \in 1..n : metrics[i].status = State(i).status  BY <1>3
    <3> QED BY <1>2, <1>5, <3>1
  <2>2. {found[i] : i \in 1..n} = {metrics[i].status : i \in DOMAIN Profiles_[d]}
    BY <1>1, <1>2
  <2> HIDE DEF found, n
  <2>3. Status(found) = IF "UNAVAILABLE" \in {found[i] : i \in 1..n} THEN "UNAVAILABLE"
                        ELSE IF "PARTIAL" \in {found[i] : i \in 1..n} THEN "DEGRADED" ELSE "OK"
    BY <1>1, <2>1, StatusIsTheWorst
  <2> QED BY <1>6, <2>2, <2>3 DEF WorstOf
<1>8. ASSUME NEW i \in x.signals
      PROVE  LET rows == x.series[i].rows
                 delta == x.metrics[i].delta IN
             /\ \E k \in DOMAIN rows : rows[k] = delta[1]
             /\ IF Profiles_[d][i].class = "windowed" THEN x.previous
                ELSE \E k \in DOMAIN rows : rows[k] = delta[2]
  <2>1. i \in 1..n /\ metrics[i].delta # NoDelta
    BY <1>2, <1>6 DEF Breached
  <2>2. CASE ClassOf(i) = "windowed"
    <3>1. metrics[i].delta = Delta(State(i).actual, PreviousValue(previous, i))
      BY <1>3, <2>1, <2>2
    <3>2. /\ State(i).actual # Missing /\ PreviousValue(previous, i) # Missing
          /\ metrics[i].delta = <<State(i).actual, PreviousValue(previous, i)>>
      BY <2>1, <3>1 DEF Delta
    <3>3. metrics[i].delta[1] = State(i).actual
      BY <3>2
    <3>4. previous.kind # "absent"
      BY <3>2 DEF PreviousValue
    <3> QED BY <1>5, <1>6, <2>1, <2>2, <3>2, <3>3, <3>4
  <2>3. CASE ClassOf(i) # "windowed"
    <3>1. metrics[i].delta = State(i).delta
      BY <1>3, <2>1, <2>3
    <3> QED BY <1>5, <1>6, <2>1, <2>3, <3>1
  <2> QED BY <2>2, <2>3
<1>9. MeasuredBy(d, x)
  <2> HIDE DEF n, found
  <2> QED BY <1>8 DEF MeasuredBy
<1> QED BY <1>6, <1>7, <1>9 DEF Honest, x

-----------------------------------------------------------------------------
\* Every file is replaced by one that is no older, whoever wrote it.
LEMMA HealthStart == HealthInit => HealthIInv /\ FilesKept
<1> SUFFICES ASSUME HealthInit PROVE HealthIInv /\ FilesKept
  OBVIOUS
<1>1. LastDay \in Nat \ {0} /\ MaxKilledRuns \in Nat /\ Len(Domains) \in Nat
  BY HealthAssumption
<1>2. \A r \in Runners : runner[r] = Asleep  BY DEF HealthInit
<1>3. \A d \in DomainSet : saved[d] = 0 /\ \A t \in Days : disk[d][t] = NoFile_ /\ tmp_[d][t] = NoFile_
  BY DEF HealthInit
<1>4. NoFile_ # Torn
  <2>1. NoFile_.kind # Torn.kind  BY DEF NoFile_, Torn
  <2> QED BY <2>1
<1>5. HealthShapes
  BY <1>1 DEF HealthInit, HealthShapes, IsFileMap, Asleep, Days
<1>6. FilesHonest
  BY <1>3 DEF FilesHonest, HonestFile
<1>7. RunnersHonest
  BY <1>1, <1>2 DEF RunnersHonest, Carries, At, Asleep
<1>8. FilesKept
  BY <1>1, <1>2, <1>3, <1>4 DEF FilesKept, At, Asleep
<1> QED BY <1>5, <1>6, <1>7, <1>8 DEF HealthIInv

LEMMA DomainOfARunner ==
  ASSUME RunnersHonest, NEW r \in Runners, runner[r].at # "idle"
  PROVE  Domain(r) \in DomainSet /\ runner[r].n \in 1..Len(Domains)
<1>1. runner[r].n \in 1..Len(Domains)  BY DEF RunnersHonest
<1>2. DOMAIN Domains = 1..Len(Domains)  BY HealthAssumption
<1> QED BY <1>1, <1>2 DEF Domain, DomainSet

LEMMA HealthStep == HealthIInv /\ HealthNext => HealthIInv'
<1> SUFFICES ASSUME HealthIInv, HealthNext PROVE HealthIInv'
  OBVIOUS
<1> USE DEF HealthIInv
<1>a. LastDay \in Nat \ {0} /\ MaxKilledRuns \in Nat /\ Len(Domains) \in Nat /\ Len(Domains) # 0
  BY HealthAssumption
\* A step of one process: its own record changes.
<1>b. ASSUME NEW r \in Runners, NEW x, Becomes(r, x), UNCHANGED <<disk, tmp_>>,
             DOMAIN x = DOMAIN Asleep,
             x.n \in 0..Len(Domains), x.at # "idle" => x.n \in 1..Len(Domains),
             x.at \in {"resolving", "opening", "writing", "replacing"} => x.as_of \in Days,
             x.at \in {"opening", "writing", "replacing"} => Honest(Domains[x.n], x.as_of, x.snapshot),
             date' \in Days, killed_' \in 0..MaxKilledRuns, UNCHANGED saved
      PROVE  HealthIInv'
  <2>1. /\ runner'[r] = x /\ \A q \in Runners : q # r => runner'[q] = runner[q]
        /\ runner' = [q \in Runners |-> IF q = r THEN x ELSE runner[q]]
    BY <1>b DEF Becomes, HealthShapes
  <2>2. HealthShapes'
    <3>1. \A q \in Runners : DOMAIN runner'[q] = DOMAIN Asleep
      BY <1>b, <2>1 DEF HealthShapes
    <3>2. runner' = [q \in Runners |-> runner'[q]]  BY <2>1
    <3> QED BY <1>b, <3>1, <3>2 DEF HealthShapes, IsFileMap
  <2>3. FilesHonest'
    BY <1>b DEF FilesHonest
  <2>4. RunnersHonest'
    <3> SUFFICES ASSUME NEW q \in Runners
                 PROVE  (/\ runner[q].at # "idle" => runner[q].n \in 1..Len(Domains)
                         /\ runner[q].n \in 0..Len(Domains)
                         /\ Carries(q) \/ At(q, "resolving") => runner[q].as_of \in Days
                         /\ Carries(q) => Honest(Domain(q), runner[q].as_of, runner[q].snapshot))'
      BY DEF RunnersHonest
    <3>1. CASE q = r
      BY <1>b, <2>1, <3>1 DEF Carries, At, Domain, Days
    <3>2. CASE q # r
      BY <1>b, <2>1, <3>2 DEF RunnersHonest, Carries, At, Domain, Days
    <3> QED BY <3>1, <3>2
  <2> QED BY <2>2, <2>3, <2>4
<1>c. DOMAIN Asleep = {"at", "n", "as_of", "previous", "snapshot"}
      /\ \A r \in Runners : DOMAIN runner[r] = {"at", "n", "as_of", "previous", "snapshot"}
  BY DEF HealthShapes, Asleep
<1>d. date \in Days /\ killed_ \in 0..MaxKilledRuns  BY DEF HealthShapes
\* A step that writes a file of the process's domain and day.
<1>e. ASSUME NEW d \in DomainSet, NEW t \in Days, NEW x, HonestFile(d, t, x),
             NEW files, IsFileMap(files),
             \A e \in DomainSet, u \in Days : HonestFile(e, u, files[e][u])
      PROVE  /\ IsFileMap(Put_(files, d, t, x))
             /\ \A e \in DomainSet, u \in Days : HonestFile(e, u, Put_(files, d, t, x)[e][u])
  <2> DEFINE new == Put_(files, d, t, x)
  <2>1. new = [e \in DomainSet |-> [u \in Days |-> IF e = d /\ u = t THEN x ELSE files[e][u]]]
    BY <1>e DEF Put_, IsFileMap
  <2> HIDE DEF new
  <2>2. \A e \in DomainSet, u \in Days : new[e][u] = IF e = d /\ u = t THEN x ELSE files[e][u]
    BY <2>1
  <2>3. IsFileMap(new)
    BY <2>1 DEF IsFileMap
  <2> QED BY <1>e, <2>2, <2>3 DEF new
<1>f. /\ IsFileMap(tmp_) /\ IsFileMap(disk)
      /\ \A e \in DomainSet, u \in Days : HonestFile(e, u, tmp_[e][u]) /\ HonestFile(e, u, disk[e][u])
  BY DEF HealthShapes, FilesHonest
<1>1. ASSUME NextDay PROVE HealthIInv'
  <2>1. date' \in Days /\ UNCHANGED <<disk, tmp_, runner, killed_, saved>>
    BY <1>1, <1>a, <1>d DEF NextDay, Days
  <2> QED BY <2>1 DEF HealthShapes, IsFileMap, FilesHonest, RunnersHonest, Carries, At, Domain
<1>2. ASSUME NEW r \in Runners, StartRun(r) PROVE HealthIInv'
  <2> DEFINE x == [Asleep EXCEPT !.at = "reading", !.n = 1]
  <2>1. DOMAIN x = DOMAIN Asleep /\ x.at = "reading" /\ x.n = 1
    BY DEF Asleep
  <2>2. Becomes(r, x) /\ UNCHANGED <<date, disk, tmp_, killed_, saved>>
    BY <1>2 DEF StartRun
  <2> HIDE DEF x
  <2> QED BY <1>a, <1>b, <1>d, <2>1, <2>2
<1>3. ASSUME NEW r \in Runners, ReadPrevious(r) PROVE HealthIInv'
  <2> DEFINE x == [runner[r] EXCEPT !.at = "resolving", !.as_of = date, !.previous = get_latest(Domain(r))]
  <2>1. DOMAIN x = DOMAIN Asleep /\ x.at = "resolving" /\ x.n = runner[r].n /\ x.as_of = date
    BY <1>c
  <2>2. Becomes(r, x) /\ UNCHANGED <<date, disk, tmp_, killed_, saved>> /\ At(r, "reading")
    BY <1>3 DEF ReadPrevious
  <2>3. runner[r].n \in 1..Len(Domains)
    BY <2>2, DomainOfARunner DEF At
  <2> HIDE DEF x
  <2> QED BY <1>a, <1>b, <1>d, <2>1, <2>2, <2>3
<1>4. ASSUME NEW r \in Runners, NEW series \in Fetches, Resolve(r, series) PROVE HealthIInv'
  <2> DEFINE s == Resolved(Domain(r), runner[r].as_of, series, runner[r].previous)
             x == [runner[r] EXCEPT !.at = "opening", !.previous = NoFile_, !.snapshot = s]
  <2>1. DOMAIN x = DOMAIN Asleep /\ x.at = "opening" /\ x.n = runner[r].n
        /\ x.as_of = runner[r].as_of /\ x.snapshot = s
    BY <1>c
  <2>2. Becomes(r, x) /\ UNCHANGED <<date, disk, tmp_, killed_, saved>> /\ At(r, "resolving")
        /\ DOMAIN series = DOMAIN Profiles_[Domain(r)]
    BY <1>4 DEF Resolve
  <2>3. runner[r].n \in 1..Len(Domains) /\ Domain(r) \in DomainSet
    BY <2>2, DomainOfARunner DEF At
  <2>4. runner[r].as_of \in Days
    BY <2>2 DEF RunnersHonest
  <2>5. Honest(Domains[runner[r].n], runner[r].as_of, s)
    BY <2>2, <2>3, ResolvedIsHonest DEF Domain
  <2> HIDE DEF x, s
  <2> QED BY <1>a, <1>b, <1>d, <2>1, <2>2, <2>3, <2>4, <2>5
<1>5. ASSUME NEW r \in Runners, OpenTmp_(r) \/ WriteTmp_(r) PROVE HealthIInv'
  <2> DEFINE y == IF OpenTmp_(r) THEN Torn ELSE runner[r].snapshot
             a == IF OpenTmp_(r) THEN "writing" ELSE "replacing"
             x == [runner[r] EXCEPT !.at = a]
             d == Domain(r)
             t == runner[r].as_of
  <2>1. /\ Carries(r) /\ runner[r].at # "idle" /\ tmp_' = Put_(tmp_, d, t, y)
        /\ Becomes(r, x) /\ UNCHANGED <<date, disk, killed_, saved>>
    BY <1>5 DEF OpenTmp_, WriteTmp_, FileDay, Carries, At
  <2>2. d \in DomainSet /\ runner[r].n \in 1..Len(Domains)
    BY <2>1, DomainOfARunner
  <2>3. t \in Days /\ Honest(d, t, runner[r].snapshot)
    BY <2>1 DEF RunnersHonest
  <2>4. HonestFile(d, t, y)
    BY <2>3 DEF HonestFile
  <2>5. DOMAIN x = DOMAIN Asleep /\ x.at = a /\ x.n = runner[r].n /\ x.as_of = t
        /\ x.snapshot = runner[r].snapshot
    BY <1>c
  <2>6. a \in {"writing", "replacing"}  OBVIOUS
  <2>7. \A e \in DomainSet, u \in Days : HonestFile(e, u, disk[e][u])
    BY DEF FilesHonest
  <2> HIDE DEF y, a
  <2>8. IsFileMap(tmp_')
        /\ \A e \in DomainSet, u \in Days : HonestFile(e, u, tmp_'[e][u])
    BY <1>e, <1>f, <2>1, <2>2, <2>3, <2>4
  <2> HIDE DEF x, t, d
  <2>9. runner' = [q \in Runners |-> IF q = r THEN x ELSE runner[q]]
    BY <2>1 DEF Becomes, HealthShapes
  <2>10. HealthShapes'
    <3>1. \A q \in Runners : DOMAIN runner'[q] = DOMAIN Asleep
      BY <2>5, <2>9 DEF HealthShapes
    <3>2. runner' = [q \in Runners |-> runner'[q]]  BY <2>9
    <3> QED BY <2>1, <2>8, <3>1, <3>2 DEF HealthShapes
  <2>11. FilesHonest'
    BY <2>1, <2>7, <2>8 DEF FilesHonest
  <2>12. RunnersHonest'
    <3> SUFFICES ASSUME NEW q \in Runners
                 PROVE  (/\ runner[q].at # "idle" => runner[q].n \in 1..Len(Domains)
                         /\ runner[q].n \in 0..Len(Domains)
                         /\ Carries(q) \/ At(q, "resolving") => runner[q].as_of \in Days
                         /\ Carries(q) => Honest(Domain(q), runner[q].as_of, runner[q].snapshot))'
      BY DEF RunnersHonest
    <3>1. CASE q = r
      BY <1>a, <2>2, <2>3, <2>5, <2>6, <2>9, <3>1 DEF Carries, At, Domain, Days, t, d
    <3>2. CASE q # r
      BY <2>9, <3>2 DEF RunnersHonest, Carries, At, Domain, Days
    <3> QED BY <3>1, <3>2
  <2> QED BY <2>10, <2>11, <2>12
<1>6. ASSUME NEW r \in Runners, ReplaceFile(r) PROVE HealthIInv'
  <2> DEFINE d == Domain(r)
             t == runner[r].as_of
  <2>1. At(r, "replacing") /\ UNCHANGED <<date, killed_>>
    BY <1>6 DEF ReplaceFile
  <2>2. d \in DomainSet /\ runner[r].n \in 1..Len(Domains)
    BY <2>1, DomainOfARunner DEF At
  <2>3. t \in Days
    BY <2>1 DEF RunnersHonest, Carries, At
  <2>4. CASE tmp_[d][t] = NoFile_
    <3>1. Becomes(r, Asleep) /\ UNCHANGED <<disk, tmp_, saved>>
      BY <1>6, <2>4 DEF ReplaceFile, FileDay
    <3> QED BY <1>a, <1>b, <1>d, <2>1, <3>1 DEF Asleep
  <2>5. CASE tmp_[d][t] # NoFile_
    <3> DEFINE x == IF runner[r].n = Len(Domains) THEN Asleep
                    ELSE [Asleep EXCEPT !.at = "reading", !.n = runner[r].n + 1]
    <3>1. /\ disk' = Put_(disk, d, t, tmp_[d][t])
          /\ tmp_' = Put_(tmp_, d, t, NoFile_)
          /\ saved' = [saved EXCEPT ![d] = IF t > @ THEN t ELSE @]
          /\ Becomes(r, x)
      BY <1>6, <2>5 DEF ReplaceFile, FileDay
    <3>2. HonestFile(d, t, tmp_[d][t]) /\ HonestFile(d, t, NoFile_)
      BY <2>2, <2>3 DEF FilesHonest, HonestFile
    <3>3. IsFileMap(disk')
          /\ \A e \in DomainSet, u \in Days : HonestFile(e, u, disk'[e][u])
      BY <1>e, <1>f, <2>2, <2>3, <3>1, <3>2
    <3>4. IsFileMap(tmp_')
          /\ \A e \in DomainSet, u \in Days : HonestFile(e, u, tmp_'[e][u])
      BY <1>e, <1>f, <2>2, <2>3, <3>1, <3>2
    <3>5. saved' = [e \in DomainSet |-> saved'[e]]
      BY <3>1 DEF HealthShapes
    <3>6. DOMAIN x = DOMAIN Asleep
          /\ x.at = (IF runner[r].n = Len(Domains) THEN "idle" ELSE "reading")
          /\ x.n = (IF runner[r].n = Len(Domains) THEN 0 ELSE runner[r].n + 1)
      BY DEF Asleep
    <3> HIDE DEF x, d, t
    <3>7. runner' = [q \in Runners |-> IF q = r THEN x ELSE runner[q]]
      BY <3>1 DEF Becomes, HealthShapes
    <3>8. HealthShapes'
      <4>1. \A q \in Runners : DOMAIN runner'[q] = DOMAIN Asleep
        BY <3>6, <3>7 DEF HealthShapes
      <4>2. runner' = [q \in Runners |-> runner'[q]]  BY <3>7
      <4>3. date' \in Days /\ killed_' \in 0..MaxKilledRuns  BY <1>d, <2>1
      <4> QED BY <3>3, <3>4, <3>5, <4>1, <4>2, <4>3 DEF HealthShapes
    <3>9. FilesHonest'
      BY <3>3, <3>4 DEF FilesHonest
    <3>10. RunnersHonest'
      <4> SUFFICES ASSUME NEW q \in Runners
                   PROVE  (/\ runner[q].at # "idle" => runner[q].n \in 1..Len(Domains)
                           /\ runner[q].n \in 0..Len(Domains)
                           /\ Carries(q) \/ At(q, "resolving") => runner[q].as_of \in Days
                           /\ Carries(q) => Honest(Domain(q), runner[q].as_of, runner[q].snapshot))'
        BY DEF RunnersHonest
      <4>1. CASE q = r
        <5>1. runner'[q].at \in {"idle", "reading"} /\ runner'[q].n \in 0..Len(Domains)
              /\ (runner'[q].at # "idle" => runner'[q].n \in 1..Len(Domains))
          BY <1>a, <2>2, <3>6, <3>7, <4>1
        <5> QED BY <5>1 DEF Carries, At
      <4>2. CASE q # r
        BY <3>7, <4>2 DEF RunnersHonest, Carries, At, Domain, Days
      <4> QED BY <4>1, <4>2
    <3> QED BY <3>8, <3>9, <3>10
  <2> QED BY <2>4, <2>5
<1>7. ASSUME NEW r \in Runners, KillRun(r) PROVE HealthIInv'
  <2>1. Becomes(r, Asleep) /\ UNCHANGED <<date, disk, tmp_, saved>> /\ killed_' \in 0..MaxKilledRuns
    BY <1>7, <1>a, <1>d DEF KillRun
  <2> QED BY <1>a, <1>b, <1>d, <2>1 DEF Asleep
<1> QED BY <1>1, <1>2, <1>3, <1>4, <1>5, <1>6, <1>7 DEF HealthNext

\* With one run at a time what was saved is not torn by a run that dies.
LEMMA FilesKeptStep == OneAtATime /\ HealthIInv /\ FilesKept /\ HealthNext => FilesKept'
<1> SUFFICES ASSUME OneAtATime, HealthIInv, FilesKept, HealthNext PROVE FilesKept'
  OBVIOUS
<1> USE DEF HealthIInv
<1>a. LastDay \in Nat \ {0} /\ Days = 1..LastDay
  BY HealthAssumption DEF Days
\* Nothing is put in place.
<1>b. ASSUME UNCHANGED <<disk, saved>>,
             \A r \in Runners : At(r, "replacing")' => tmp_'[Domain(r)'][runner'[r].as_of] = runner'[r].snapshot
      PROVE  FilesKept'
  BY <1>b DEF FilesKept, Readable, At
<1>c. ASSUME NEW r \in Runners, NEW x, Becomes(r, x)
      PROVE  runner'[r] = x /\ \A q \in Runners : q = r
  BY <1>c DEF Becomes, HealthShapes, OneAtATime
<1>1. ASSUME NextDay PROVE FilesKept'
  BY <1>1, <1>b DEF NextDay, FilesKept, At, Domain
<1>2. ASSUME NEW r \in Runners, NEW x, Becomes(r, x), UNCHANGED <<disk, saved>>, x.at # "replacing"
      PROVE  FilesKept'
  BY <1>2, <1>b, <1>c DEF At
<1>f. DOMAIN Asleep = {"at", "n", "as_of", "previous", "snapshot"}
      /\ \A r \in Runners : DOMAIN runner[r] = {"at", "n", "as_of", "previous", "snapshot"}
  BY DEF HealthShapes, Asleep
<1>3. ASSUME NEW r \in Runners, StartRun(r) \/ KillRun(r) PROVE FilesKept'
  <2> DEFINE x == [Asleep EXCEPT !.at = "reading", !.n = 1]
  <2>1. x.at # "replacing" /\ Asleep.at # "replacing"
    BY DEF Asleep
  <2>2. (Becomes(r, x) \/ Becomes(r, Asleep)) /\ UNCHANGED <<disk, saved>>
    BY <1>3 DEF StartRun, KillRun
  <2> HIDE DEF x
  <2> QED BY <1>2, <2>1, <2>2
<1>4. ASSUME NEW r \in Runners, ReadPrevious(r) PROVE FilesKept'
  <2> DEFINE x == [runner[r] EXCEPT !.at = "resolving", !.as_of = date, !.previous = get_latest(Domain(r))]
  <2>1. x.at # "replacing"
    BY <1>f
  <2>2. Becomes(r, x) /\ UNCHANGED <<disk, saved>>
    BY <1>4 DEF ReadPrevious
  <2> HIDE DEF x
  <2> QED BY <1>2, <2>1, <2>2
<1>5. ASSUME NEW r \in Runners, NEW series \in Fetches, Resolve(r, series) PROVE FilesKept'
  <2> DEFINE s == Resolved(Domain(r), runner[r].as_of, series, runner[r].previous)
             x == [runner[r] EXCEPT !.at = "opening", !.previous = NoFile_, !.snapshot = s]
  <2>1. x.at # "replacing"
    BY <1>f
  <2>2. Becomes(r, x) /\ UNCHANGED <<disk, saved>>
    BY <1>5 DEF Resolve
  <2> HIDE DEF x
  <2> QED BY <1>2, <2>1, <2>2
<1>6. ASSUME NEW r \in Runners, OpenTmp_(r) PROVE FilesKept'
  <2> DEFINE x == [runner[r] EXCEPT !.at = "writing"]
  <2>1. x.at # "replacing"
    BY <1>f
  <2>2. Becomes(r, x) /\ UNCHANGED <<disk, saved>>
    BY <1>6 DEF OpenTmp_
  <2> HIDE DEF x
  <2> QED BY <1>2, <2>1, <2>2
<1>7. ASSUME NEW r \in Runners, WriteTmp_(r) PROVE FilesKept'
  <2> DEFINE x == [runner[r] EXCEPT !.at = "replacing"]
             d == Domain(r)
             t == runner[r].as_of
  <2>1. /\ At(r, "writing") /\ tmp_' = Put_(tmp_, d, t, runner[r].snapshot)
        /\ Becomes(r, x) /\ UNCHANGED <<disk, saved>>
    BY <1>7 DEF WriteTmp_, FileDay
  <2>2. d \in DomainSet /\ t \in Days
    BY <2>1, DomainOfARunner DEF RunnersHonest, Carries, At
  <2>3. tmp_'[d][t] = runner[r].snapshot
    BY <2>1, <2>2 DEF Put_, HealthShapes, IsFileMap
  <2>4. x.n = runner[r].n /\ x.as_of = t /\ x.snapshot = runner[r].snapshot
    BY <1>f
  <2> HIDE DEF x
  <2>5. runner'[r] = x /\ \A q \in Runners : q = r
    BY <1>c, <2>1
  <2>6. Domain(r)' = d
    BY <2>4, <2>5 DEF Domain
  <2> HIDE DEF d, t
  <2> QED BY <1>b, <2>1, <2>3, <2>4, <2>5, <2>6
<1>8. ASSUME NEW r \in Runners, ReplaceFile(r) PROVE FilesKept'
  <2> DEFINE d == Domain(r)
             t == runner[r].as_of
             x == IF runner[r].n = Len(Domains) THEN Asleep
                  ELSE [Asleep EXCEPT !.at = "reading", !.n = runner[r].n + 1]
  <2>1. At(r, "replacing")
    BY <1>8 DEF ReplaceFile
  <2>2. d \in DomainSet /\ t \in Days /\ Honest(d, t, runner[r].snapshot)
    BY <2>1, DomainOfARunner DEF RunnersHonest, Carries, At
  <2>3. tmp_[d][t] = runner[r].snapshot
    BY <2>1 DEF FilesKept
  <2>4. tmp_[d][t].kind = "whole" /\ NoFile_.kind = "absent" /\ Torn.kind = "torn"
    BY <2>2, <2>3 DEF Honest, NoFile_, Torn
  <2>5. /\ disk' = Put_(disk, d, t, tmp_[d][t])
        /\ saved' = [saved EXCEPT ![d] = IF t > @ THEN t ELSE @]
        /\ Becomes(r, x)
    BY <1>8, <2>4 DEF ReplaceFile, FileDay
  <2>6. x.at # "replacing"
    BY DEF Asleep
  <2> HIDE DEF x, d, t
  <2>7. ASSUME NEW q \in Runners PROVE ~At(q, "replacing")'
    BY <1>c, <2>5, <2>6 DEF At
  <2>8. \A e \in DomainSet, u \in Days : disk'[e][u] = IF e = d /\ u = t THEN tmp_[d][t] ELSE disk[e][u]
    <3>1. disk' = [e \in DomainSet |-> [u \in Days |-> IF e = d /\ u = t THEN tmp_[d][t] ELSE disk[e][u]]]
      BY <2>2, <2>5 DEF Put_, HealthShapes, IsFileMap
    <3> QED BY <3>1
  <2>9. \A e \in DomainSet, u \in Days : disk'[e][u] # Torn
    BY <2>4, <2>8 DEF FilesKept
  <2>10. \A e \in DomainSet : saved'[e] = IF e = d THEN (IF t > saved[d] THEN t ELSE saved[d]) ELSE saved[e]
    BY <2>2, <2>5 DEF HealthShapes
  <2>11. ASSUME NEW e \in DomainSet
         PROVE  saved'[e] \in 0..LastDay /\ (saved'[e] > 0 => disk'[e][saved'[e]].kind = "whole")
    <3>1. saved[e] \in 0..LastDay /\ (saved[e] > 0 => disk[e][saved[e]].kind = "whole")
      BY DEF FilesKept, Readable
    <3>2. saved'[e] \in 0..LastDay /\ (saved'[e] > 0 => saved'[e] \in Days)
      BY <1>a, <2>2, <2>10, <3>1
    <3> QED BY <1>a, <2>4, <2>8, <2>10, <3>1, <3>2
  <2> QED BY <2>7, <2>9, <2>11 DEF FilesKept, Readable
<1> QED BY <1>1, <1>3, <1>4, <1>5, <1>6, <1>7, <1>8 DEF HealthNext

\* What HealthInv asks of a file that was put in place.
LEMMA HonestFilesSuffice ==
  ASSUME HealthIInv
  PROVE  HealthTypeOK /\ StatusIsWorst /\ SignalIsMeasured
<1> USE DEF HealthIInv
<1>1. HealthTypeOK
  <2>1. \A d \in DomainSet, t \in Days : HonestFile(d, t, disk[d][t])
    BY DEF FilesHonest
  <2>2. \A d \in DomainSet, t \in Days :
          /\ disk[d][t].kind \in {"absent", "torn", "whole"}
          /\ disk[d][t].kind = "whole" => disk[d][t].as_of = t
    BY <2>1 DEF HonestFile, Honest, NoFile_, Torn
  <2> QED BY <2>2 DEF HealthTypeOK, HealthShapes, RunnersHonest
<1>2. ASSUME NEW d \in DomainSet, NEW t \in Days, Readable(d, t) PROVE Honest(d, t, disk[d][t])
  <2>1. HonestFile(d, t, disk[d][t]) /\ disk[d][t].kind = "whole"
    BY <1>2 DEF FilesHonest, Readable
  <2>2. NoFile_.kind # "whole" /\ Torn.kind # "whole"
    BY DEF NoFile_, Torn
  <2> QED BY <2>1, <2>2 DEF HonestFile
<1>3. StatusIsWorst
  BY <1>2 DEF StatusIsWorst, Honest, WorstOf
<1>4. SignalIsMeasured
  BY <1>2 DEF SignalIsMeasured, Honest, MeasuredBy
<1> QED BY <1>1, <1>3, <1>4

LEMMA SavedIsLatest == HealthIInv /\ FilesKept => LatestNeverGoesBack
<1> SUFFICES ASSUME HealthIInv, FilesKept, NEW d \in DomainSet, saved[d] > 0
             PROVE  get_latest(d).kind = "whole" /\ get_latest(d).as_of >= saved[d]
  BY DEF LatestNeverGoesBack
<1> DEFINE whole == {t \in Days : disk[d][t].kind = "whole"}
           T == {LastDay - t : t \in whole}
<1>1. saved[d] \in whole /\ LastDay \in Nat /\ Days = 1..LastDay
  BY HealthAssumption DEF FilesKept, Readable, Days
<1>2. T \subseteq Nat /\ T # {}
  BY <1>1
<1>3. PICK k \in T : \A l \in T : ~(l < k)
  <2> HIDE DEF T
  <2> QED BY <1>2, LeastNumber
<1>4. PICK u \in whole : k = LastDay - u
  BY <1>3
<1>5. \A v \in whole : v <= u
  <2> SUFFICES ASSUME NEW v \in whole PROVE v <= u
    OBVIOUS
  <2>1. LastDay - v \in T /\ v \in 1..LastDay /\ u \in 1..LastDay
    BY <1>1
  <2>2. ~(LastDay - v < LastDay - u)
    BY <1>3, <1>4, <2>1
  <2> QED BY <1>1, <2>1, <2>2
<1> DEFINE c == CHOOSE t \in whole : \A v \in whole : v <= t
<1>6. c \in whole /\ saved[d] <= c
  BY <1>1, <1>4, <1>5
<1>7. get_latest(d) = disk[d][c]
  BY <1>1 DEF get_latest
<1>8. disk[d][c].kind = "whole" /\ c \in Days
  BY <1>6
<1> HIDE DEF c, whole
<1>9. disk[d][c].as_of = c
  BY <1>8, HonestFilesSuffice DEF HealthTypeOK
<1> QED BY <1>1, <1>6, <1>7, <1>8, <1>9

\* However many runs overlap and wherever they are killed, a file that was put in
\* place is torn or says of its domain what its metrics say and what was measured.
THEOREM SnapshotsAreHonest == HealthSpec => [](HealthTypeOK /\ StatusIsWorst /\ SignalIsMeasured)
<1>1. HealthIInv /\ UNCHANGED healthVars => HealthIInv'
  <2> SUFFICES ASSUME HealthIInv, UNCHANGED healthVars PROVE HealthIInv'
    OBVIOUS
  <2>1. UNCHANGED <<date, disk, tmp_, runner, killed_, saved>>
    BY DEF healthVars
  <2> QED BY <2>1 DEF HealthIInv, HealthShapes, IsFileMap, FilesHonest, RunnersHonest, Carries, At, Domain
<1> QED BY <1>1, HealthStart, HealthStep, HonestFilesSuffice, PTL DEF HealthSpec

\* "A crash mid-write must never leave a torn file": with one run at a time the
\* snapshot that the next one compares with is never older than one that was
\* saved, wherever the runs between were killed.
THEOREM SnapshotsAreKept ==
  ASSUME OneAtATime
  PROVE  HealthSpec => []HealthInv
<1>1. HealthIInv /\ FilesKept /\ UNCHANGED healthVars => HealthIInv' /\ FilesKept'
  <2> SUFFICES ASSUME HealthIInv, FilesKept, UNCHANGED healthVars PROVE HealthIInv' /\ FilesKept'
    OBVIOUS
  <2>1. UNCHANGED <<date, disk, tmp_, runner, killed_, saved>>
    BY DEF healthVars
  <2>2. HealthIInv'
    BY <2>1 DEF HealthIInv, HealthShapes, IsFileMap, FilesHonest, RunnersHonest, Carries, At, Domain
  <2>3. FilesKept'
    BY <2>1 DEF FilesKept, Readable, At, Domain
  <2> QED BY <2>2, <2>3
<1>2. HealthIInv /\ FilesKept /\ [HealthNext]_healthVars => HealthIInv' /\ FilesKept'
  BY <1>1, HealthStep, FilesKeptStep
<1>3. HealthIInv /\ FilesKept => HealthInv
  BY HonestFilesSuffice, SavedIsLatest DEF HealthInv
<1> QED BY <1>2, <1>3, HealthStart, PTL DEF HealthSpec

-----------------------------------------------------------------------------
(* TimeRange: the calendar.                                                *)

\* The days before a year, and before a month of it.
DaysBefore(b) == 365 * b + b \div 4 - b \div 100 + b \div 400
LeapDays(y) == IF Leap(y) THEN 1 ELSE 0

\* A year has 365 days, or 366 (Leap).
LEMMA YearLength ==
  ASSUME NEW b \in Int
  PROVE  /\ DaysBefore(b) \in Int
         /\ DaysBefore(b + 1) = DaysBefore(b) + 365 + LeapDays(b + 1)
<1>1. /\ b \div 4 \in Int /\ b \div 100 \in Int /\ b \div 400 \in Int
      /\ (b + 1) \div 4 \in Int /\ (b + 1) \div 100 \in Int /\ (b + 1) \div 400 \in Int
  OBVIOUS
<1>2. (b + 1) \div 4 = b \div 4 + (IF (b + 1) % 4 = 0 THEN 1 ELSE 0)
  OBVIOUS
<1>3. (b + 1) \div 100 = b \div 100 + (IF (b + 1) % 100 = 0 THEN 1 ELSE 0)
  OBVIOUS
<1>4. (b + 1) \div 400 = b \div 400 + (IF (b + 1) % 400 = 0 THEN 1 ELSE 0)
  OBVIOUS
<1>5. /\ (b + 1) % 400 = 0 => (b + 1) % 100 = 0
      /\ (b + 1) % 100 = 0 => (b + 1) % 4 = 0
  OBVIOUS
<1>6. CASE (b + 1) % 400 = 0
  BY <1>1, <1>2, <1>3, <1>4, <1>5, <1>6 DEF DaysBefore, LeapDays, Leap
<1>7. CASE (b + 1) % 400 # 0 /\ (b + 1) % 100 = 0
  BY <1>1, <1>2, <1>3, <1>4, <1>5, <1>7 DEF DaysBefore, LeapDays, Leap
<1>8. CASE (b + 1) % 100 # 0 /\ (b + 1) % 4 = 0
  BY <1>1, <1>2, <1>3, <1>4, <1>5, <1>8 DEF DaysBefore, LeapDays, Leap
<1>9. CASE (b + 1) % 4 # 0
  BY <1>1, <1>2, <1>3, <1>4, <1>5, <1>9 DEF DaysBefore, LeapDays, Leap
<1> QED BY <1>6, <1>7, <1>8, <1>9

\* The first days of the months of a year.
LEMMA MonthFirsts ==
  ASSUME NEW y \in Int
  PROVE  LET b == DaysBefore(y - 1)
             l == LeapDays(y) IN
         /\ Day(y, 1, 1) = b + 1 /\ Day(y, 2, 1) = b + 32
         /\ Day(y, 3, 1) = b + 60 + l /\ Day(y, 4, 1) = b + 91 + l
         /\ Day(y, 5, 1) = b + 121 + l /\ Day(y, 6, 1) = b + 152 + l
         /\ Day(y, 7, 1) = b + 182 + l /\ Day(y, 8, 1) = b + 213 + l
         /\ Day(y, 9, 1) = b + 244 + l /\ Day(y, 10, 1) = b + 274 + l
         /\ Day(y, 11, 1) = b + 305 + l /\ Day(y, 12, 1) = b + 335 + l
<1>1. DaysBefore(y - 1) \in Int
  BY YearLength
<1> QED BY <1>1 DEF Day, DaysBefore, LeapDays

\* A later day of a month.
LEMMA DayOfTheMonth ==
  ASSUME NEW y \in Int, NEW m \in 1..12, NEW d \in Int
  PROVE  Day(y, m, 1) \in Int /\ Day(y, m, d) = Day(y, m, 1) + d - 1
<1>1. DaysBefore(y - 1) \in Int
  BY YearLength
<1>2. <<0, 31, 59, 90, 120, 151, 181, 212, 243, 273, 304, 334>>[m] \in Int
  OBVIOUS
<1> QED BY <1>1, <1>2 DEF Day, DaysBefore

\* Months are counted through: month k is month k % 12 + 1 of year k \div 12.
YearOf(k) == k \div 12
MonthOf(k) == (k % 12) + 1
FirstDay(k) == Day(YearOf(k), MonthOf(k), 1)
DaysIn(k) == monthrange(YearOf(k), MonthOf(k))
MonthNumber(y, m) == y * 12 + m - 1

LEMMA MonthNumbers ==
  /\ \A k \in Int : YearOf(k) \in Int /\ MonthOf(k) \in 1..12 /\ MonthNumber(YearOf(k), MonthOf(k)) = k
  /\ \A y \in Int, m \in 1..12 :
       /\ MonthNumber(y, m) \in Int
       /\ YearOf(MonthNumber(y, m)) = y /\ MonthOf(MonthNumber(y, m)) = m
  /\ \A k \in Int : IF MonthOf(k) = 12 THEN YearOf(k + 1) = YearOf(k) + 1 /\ MonthOf(k + 1) = 1
                    ELSE YearOf(k + 1) = YearOf(k) /\ MonthOf(k + 1) = MonthOf(k) + 1
BY DEF YearOf, MonthOf, MonthNumber

\* A month has 28 to 31 days, February 29 in a leap year only.
LEMMA MonthLengths ==
  ASSUME NEW y, NEW m \in 1..12
  PROVE  /\ monthrange(y, m) \in 28..31
         /\ m # 2 => \A z : monthrange(z, m) = monthrange(y, m)
         /\ m = 2 => monthrange(y, m) = 28 + LeapDays(y)
BY DEF monthrange, LeapDays

\* Each month begins where the one before it ends.
LEMMA NextMonth ==
  ASSUME NEW k \in Int
  PROVE  /\ FirstDay(k) \in Int /\ DaysIn(k) \in 28..31
         /\ FirstDay(k + 1) = FirstDay(k) + DaysIn(k)
<1> DEFINE y == YearOf(k)
           m == MonthOf(k)
<1>1. /\ y \in Int /\ m \in 1..12
      /\ YearOf(k + 1) = (IF m = 12 THEN y + 1 ELSE y)
      /\ MonthOf(k + 1) = (IF m = 12 THEN 1 ELSE m + 1)
  BY MonthNumbers
<1>2. /\ FirstDay(k) = Day(y, m, 1) /\ DaysIn(k) = monthrange(y, m)
      /\ FirstDay(k + 1) = IF m = 12 THEN Day(y + 1, 1, 1) ELSE Day(y, m + 1, 1)
  BY <1>1 DEF FirstDay, DaysIn
<1> HIDE DEF y, m
<1>3. /\ DaysBefore(y - 1) \in Int /\ LeapDays(y) \in 0..1
      /\ DaysBefore(y) = DaysBefore(y - 1) + 365 + LeapDays(y)
  <2>1. y - 1 \in Int /\ (y - 1) + 1 = y
    BY <1>1
  <2> QED BY <2>1, YearLength DEF LeapDays
<1>4. Day(y + 1, 1, 1) = DaysBefore(y) + 1
  <2>1. (y + 1) - 1 = y /\ y + 1 \in Int
    BY <1>1
  <2> QED BY <2>1, MonthFirsts
<1>5. monthrange(y, m) = CASE m \in {4, 6, 9, 11} -> 30
                           [] m = 2 -> 28 + LeapDays(y)
                           [] OTHER -> 31
  BY DEF monthrange, LeapDays
<1>6. m = 1 \/ m = 2 \/ m = 3 \/ m = 4 \/ m = 5 \/ m = 6 \/ m = 7 \/ m = 8 \/ m = 9
      \/ m = 10 \/ m = 11 \/ m = 12
  BY <1>1
<1> QED BY <1>1, <1>2, <1>3, <1>4, <1>5, <1>6, MonthFirsts, MonthLengths

\* A later month begins after an earlier one has ended.
LEMMA MonthsInOrder ==
  ASSUME NEW j \in Int, NEW k \in Int, j < k
  PROVE  FirstDay(j) + DaysIn(j) <= FirstDay(k)
<1> DEFINE S == {n \in Nat : FirstDay(j + 1) <= FirstDay(j + 1 + n)}
<1>1. 0 \in S
  <2>1. FirstDay(j + 1) \in Int /\ j + 1 + 0 = j + 1
    BY NextMonth
  <2> QED BY <2>1
<1>2. ASSUME NEW n \in Nat, n \in S PROVE n + 1 \in S
  <2>1. j + 1 + n \in Int /\ j + 1 + (n + 1) = (j + 1 + n) + 1 /\ j + 1 \in Int
    OBVIOUS
  <2>2. /\ FirstDay(j + 1) \in Int /\ FirstDay(j + 1 + n) \in Int
        /\ FirstDay((j + 1 + n) + 1) > FirstDay(j + 1 + n) /\ FirstDay((j + 1 + n) + 1) \in Int
    BY <2>1, NextMonth
  <2> QED BY <1>2, <2>1, <2>2
<1>3. \A n \in Nat : n \in S
  <2> HIDE DEF S
  <2> QED BY <1>1, <1>2, InductionOverASet
<1>4. k - (j + 1) \in Nat /\ j + 1 + (k - (j + 1)) = k
  OBVIOUS
<1> QED BY <1>3, <1>4, NextMonth

\* A date has one number and a number one date.
Valid(y, m, d) == y \in Int /\ m \in 1..12 /\ d \in 1..monthrange(y, m)
LEMMA DayIs ==
  ASSUME NEW y, NEW m, NEW d, Valid(y, m, d)
  PROVE  LET k == MonthNumber(y, m) IN
         /\ k \in Int /\ d \in Int /\ Day(y, m, d) \in Int
         /\ Day(y, m, d) = FirstDay(k) + d - 1 /\ 1 <= d /\ d <= DaysIn(k)
         /\ FirstDay(k) \in Int /\ DaysIn(k) \in 28..31
<1>1. /\ y \in Int /\ m \in 1..12 /\ MonthNumber(y, m) \in Int
      /\ FirstDay(MonthNumber(y, m)) = Day(y, m, 1)
      /\ DaysIn(MonthNumber(y, m)) = monthrange(y, m)
  BY MonthNumbers DEF FirstDay, DaysIn, Valid
<1>2. monthrange(y, m) \in 28..31
  BY <1>1, MonthLengths
<1>3. d \in Int /\ 1 <= d /\ d <= monthrange(y, m)
  BY <1>2 DEF Valid
<1>4. Day(y, m, 1) \in Int /\ Day(y, m, d) = Day(y, m, 1) + d - 1
  BY <1>1, <1>3, DayOfTheMonth
<1>5. Day(y, m, 1) + d - 1 \in Int
  BY <1>3, <1>4
<1> QED BY <1>1, <1>2, <1>3, <1>4, <1>5

LEMMA EarlierMonth ==
  ASSUME NEW y, NEW m, NEW d, Valid(y, m, d), NEW z, NEW n, NEW e, Valid(z, n, e),
         MonthNumber(y, m) < MonthNumber(z, n)
  PROVE  Day(y, m, d) < Day(z, n, e)
<1> DEFINE j == MonthNumber(y, m)
           k == MonthNumber(z, n)
<1>1. /\ j \in Int /\ d \in Int /\ Day(y, m, d) = FirstDay(j) + d - 1 /\ d <= DaysIn(j)
      /\ FirstDay(j) \in Int /\ DaysIn(j) \in 28..31
  BY DayIs
<1>2. /\ k \in Int /\ e \in Int /\ Day(z, n, e) = FirstDay(k) + e - 1 /\ 1 <= e
      /\ FirstDay(k) \in Int
  BY DayIs
<1>3. FirstDay(j) + DaysIn(j) <= FirstDay(k)
  BY <1>1, <1>2, MonthsInOrder
<1> HIDE DEF j, k
<1> QED BY <1>1, <1>2, <1>3

LEMMA OneDate ==
  ASSUME NEW y, NEW m, NEW d, Valid(y, m, d), NEW z, NEW n, NEW e, Valid(z, n, e),
         Day(y, m, d) = Day(z, n, e)
  PROVE  y = z /\ m = n /\ d = e
<1>1. MonthNumber(y, m) \in Int /\ MonthNumber(z, n) \in Int
  BY DayIs
<1>2. MonthNumber(y, m) = MonthNumber(z, n)
  <2>1. ~(MonthNumber(y, m) < MonthNumber(z, n))
    <3> SUFFICES ASSUME MonthNumber(y, m) < MonthNumber(z, n) PROVE FALSE
      OBVIOUS
    <3>1. Day(y, m, d) < Day(z, n, e) /\ Day(y, m, d) \in Int
      BY EarlierMonth, DayIs
    <3> QED BY <3>1
  <2>2. ~(MonthNumber(z, n) < MonthNumber(y, m))
    <3> SUFFICES ASSUME MonthNumber(z, n) < MonthNumber(y, m) PROVE FALSE
      OBVIOUS
    <3>1. Day(z, n, e) < Day(y, m, d) /\ Day(y, m, d) \in Int
      BY EarlierMonth, DayIs
    <3> QED BY <3>1
  <2> QED BY <1>1, <2>1, <2>2
<1>3. y = z /\ m = n
  <2>1. y \in Int /\ m \in 1..12 /\ z \in Int /\ n \in 1..12
    BY DEF Valid
  <2>2. /\ YearOf(MonthNumber(y, m)) = y /\ MonthOf(MonthNumber(y, m)) = m
        /\ YearOf(MonthNumber(z, n)) = z /\ MonthOf(MonthNumber(z, n)) = n
    BY <2>1, MonthNumbers
  <2> QED BY <1>2, <2>2
<1>4. Day(y, m, d) = FirstDay(MonthNumber(y, m)) + d - 1 /\ d \in Int
      /\ FirstDay(MonthNumber(y, m)) \in Int
  BY DayIs
<1>5. Day(z, n, e) = FirstDay(MonthNumber(y, m)) + e - 1 /\ e \in Int
  BY <1>2, DayIs
<1>6. d = e
  <2>1. \A f, v, w \in Int : f + v - 1 = f + w - 1 => v = w
    OBVIOUS
  <2> QED BY <1>4, <1>5, <2>1
<1> QED BY <1>3, <1>6

\* The calendar gives back the date a day was made from.
LEMMA CalendarIs ==
  ASSUME NEW y \in FirstYear..LastYear, NEW m \in 1..12, NEW d \in 1..monthrange(y, m)
  PROVE  LET n == Day(y, m, d) IN Year(n) = y /\ Month(n) = m /\ DayOfMonth(n) = d
<1> DEFINE n == Day(y, m, d)
           t == CHOOSE t \in Dates : Day(t[1], t[2], t[3]) = n
<1>1. Valid(y, m, d)
  BY CalendarAssumption DEF Valid
<1>2. monthrange(y, m) \in 28..31
  BY MonthLengths
<1>3. <<y, m, d>> \in Dates
  BY <1>2 DEF Dates
<1>4. t \in Dates /\ Day(t[1], t[2], t[3]) = n
  BY <1>3
<1>5. n \in {Day(u[1], u[2], u[3]) : u \in Dates}
  BY <1>3
<1>6. Calendar[n] = t
  BY <1>5 DEF Calendar
<1> HIDE DEF t
<1>7. Valid(t[1], t[2], t[3])
  <2>1. /\ t[1] \in FirstYear..LastYear /\ t[2] \in 1..12 /\ t[3] \in 1..31
        /\ t[3] <= monthrange(t[1], t[2])
    BY <1>4 DEF Dates
  <2>2. t[1] \in Int /\ monthrange(t[1], t[2]) \in 28..31
    BY <2>1, CalendarAssumption, MonthLengths
  <2> QED BY <2>1, <2>2 DEF Valid
<1>8. y = t[1] /\ m = t[2] /\ d = t[3]
  BY <1>1, <1>4, <1>7, OneDate
<1> QED BY <1>6, <1>8 DEF Year, Month, DayOfMonth

-----------------------------------------------------------------------------
(* TimeRange: the windows.                                                 *)

\* A day of the calendar with a whole year before it.
Within(n, y, m, d) ==
  /\ y \in (FirstYear + 1)..LastYear /\ m \in 1..12 /\ d \in 1..monthrange(y, m)
  /\ n = Day(y, m, d)

LEMMA WithinIs ==
  ASSUME NEW n, NEW y, NEW m, NEW d, Within(n, y, m, d)
  PROVE  /\ Valid(y, m, d) /\ n \in Int /\ y \in Int /\ d \in Int /\ y > 1
         /\ Year(n) = y /\ Month(n) = m /\ DayOfMonth(n) = d
         /\ n = FirstDay(MonthNumber(y, m)) + d - 1
         /\ 1 <= d /\ d <= DaysIn(MonthNumber(y, m))
<1>1. y \in FirstYear..LastYear /\ y \in Int /\ y > 1
  BY CalendarAssumption DEF Within
<1>2. Valid(y, m, d)
  BY <1>1 DEF Within, Valid
<1>3. n \in Int /\ d \in Int
      /\ n = FirstDay(MonthNumber(y, m)) + d - 1
      /\ 1 <= d /\ d <= DaysIn(MonthNumber(y, m))
  BY <1>2, DayIs DEF Within
<1>4. m \in 1..12 /\ d \in 1..monthrange(y, m) /\ n = Day(y, m, d)
  BY DEF Within
<1> QED BY <1>1, <1>2, <1>3, <1>4, CalendarIs

\* Days are counted from 1.
LEMMA DaysArePositive ==
  ASSUME NEW y, NEW m, NEW d, Valid(y, m, d), y >= 1
  PROVE  Day(y, m, d) \in Nat /\ Day(y, m, d) > 0
<1>1. y \in Int /\ m \in 1..12 /\ y - 1 \in Nat
  BY DEF Valid
<1>2. DaysBefore(y - 1) \in Nat
  <2>1. ASSUME NEW b \in Nat
        PROVE  DaysBefore(b) \in Nat
    <3>1. /\ b \div 4 \in Nat /\ b \div 100 \in Nat /\ b \div 400 \in Nat
          /\ b \div 100 <= b
      OBVIOUS
    <3> QED BY <3>1 DEF DaysBefore
  <2> QED BY <1>1, <2>1
<1>3. LeapDays(y) \in Nat
  BY DEF LeapDays
<1>4. Day(y, m, 1) \in Nat /\ Day(y, m, 1) > 0
  <2>1. m = 1 \/ m = 2 \/ m = 3 \/ m = 4 \/ m = 5 \/ m = 6 \/ m = 7 \/ m = 8 \/ m = 9
        \/ m = 10 \/ m = 11 \/ m = 12
    BY <1>1
  <2> QED BY <1>1, <1>2, <1>3, <2>1, MonthFirsts
<1>5. d \in Int /\ d >= 1
  BY DayIs
<1>6. Day(y, m, d) = Day(y, m, 1) + d - 1
  BY <1>1, <1>5, DayOfTheMonth
<1> QED BY <1>4, <1>5, <1>6

\* _sub_months goes k months back, to the same day of the month or the last.
LEMMA MonthsBack ==
  ASSUME NEW n, NEW y, NEW m, NEW d, Within(n, y, m, d), NEW k \in Nat
  PROVE  LET j == MonthNumber(y, m) - k
             e == IF d < DaysIn(j) THEN d ELSE DaysIn(j) IN
         /\ _sub_months(n, k) = Day(YearOf(j), MonthOf(j), e)
         /\ Valid(YearOf(j), MonthOf(j), e)
         /\ MonthNumber(YearOf(j), MonthOf(j)) = j /\ j \in Int
<1> DEFINE j == MonthNumber(y, m) - k
           e == IF d < DaysIn(j) THEN d ELSE DaysIn(j)
<1>1. /\ Year(n) = y /\ Month(n) = m /\ DayOfMonth(n) = d
      /\ y \in Int /\ m \in 1..12 /\ d \in Int /\ 1 <= d
  BY WithinIs DEF Within
<1>2. j \in Int
  <2>1. MonthNumber(y, m) \in Int
    BY <1>1, MonthNumbers
  <2> QED BY <2>1
<1>3. _sub_months(n, k) = Day(YearOf(j), MonthOf(j), e)
  BY <1>1 DEF _sub_months, YearOf, MonthOf, DaysIn, MonthNumber
<1>4. YearOf(j) \in Int /\ MonthOf(j) \in 1..12 /\ MonthNumber(YearOf(j), MonthOf(j)) = j
  BY <1>2, MonthNumbers
<1>5. DaysIn(j) \in 28..31 /\ DaysIn(j) = monthrange(YearOf(j), MonthOf(j))
  BY <1>2, NextMonth DEF DaysIn
<1> HIDE DEF j
<1>6. Valid(YearOf(j), MonthOf(j), e)
  BY <1>1, <1>4, <1>5 DEF Valid
<1> QED BY <1>2, <1>3, <1>4, <1>6 DEF j

\* ... which is no later, and earlier when there is a month between.
LEMMA BackIsEarlier ==
  ASSUME NEW n, NEW y, NEW m, NEW d, Within(n, y, m, d), NEW k \in Nat
  PROVE  /\ _sub_months(n, k) \in Int /\ _sub_months(n, k) <= n
<1> DEFINE j == MonthNumber(y, m) - k
           e == IF d < DaysIn(j) THEN d ELSE DaysIn(j)
<1>1. /\ _sub_months(n, k) = Day(YearOf(j), MonthOf(j), e)
      /\ Valid(YearOf(j), MonthOf(j), e)
      /\ MonthNumber(YearOf(j), MonthOf(j)) = j /\ j \in Int
  BY MonthsBack
<1>2. /\ Valid(y, m, d) /\ n \in Int /\ n = Day(y, m, d) /\ MonthNumber(y, m) \in Int
      /\ y \in Int /\ m \in 1..12 /\ d \in Int /\ d <= DaysIn(MonthNumber(y, m))
  BY WithinIs, DayIs DEF Within
<1>3. _sub_months(n, k) \in Int
  BY <1>1, DayIs
<1>4. CASE k = 0
  <2>1. j = MonthNumber(y, m)
    BY <1>2, <1>4
  <2>2. YearOf(j) = y /\ MonthOf(j) = m
    <3>1. YearOf(MonthNumber(y, m)) = y /\ MonthOf(MonthNumber(y, m)) = m
      BY <1>2, MonthNumbers
    <3> QED BY <2>1, <3>1
  <2>3. e = d
    <3>1. DaysIn(j) \in Int
      BY <1>1, NextMonth
    <3> HIDE DEF j
    <3> QED BY <1>2, <2>1, <3>1
  <2> QED BY <1>1, <1>2, <2>2, <2>3
<1>5. CASE k # 0
  <2>1. j < MonthNumber(y, m)
    BY <1>2, <1>5
  <2> HIDE DEF j, e
  <2>2. Day(YearOf(j), MonthOf(j), e) < Day(y, m, d)
    BY <1>1, <1>2, <2>1, EarlierMonth
  <2> QED BY <1>1, <1>2, <1>3, <2>2
<1> QED BY <1>3, <1>4, <1>5

\* A window of a period and the one before (PeriodsMatch).
PriorWindow(n, unit) ==
  LET w == _period_vs_prior(n, unit) IN Comparison(w[1], w[2], w[3], w[4], <<unit, 0>>)
PeriodFits(w, unit) ==
  /\ w.start_b <= w.end_b /\ w.end_b < w.start /\ w.start <= w.end
  /\ unit = "week" => weekday(w.start) = 0 /\ weekday(w.start_b) = 0
  /\ unit # "week" => DayOfMonth(w.start) = 1 /\ DayOfMonth(w.start_b) = 1
  /\ unit = "month" => Month(w.end_b) = ((Month(w.end) + 10) % 12) + 1
  /\ unit = "year" => Year(w.end_b) = Year(w.end) - 1 /\ Month(w.end_b) = Month(w.end)
  /\ \/ w.end_b - w.start_b = w.end - w.start
     \/ unit = "month" /\ DayOfMonth(w.end_b + 1) = 1
     \/ unit = "year" /\ (Leap(Year(w.end)) \/ Leap(Year(w.end_b)))

LEMMA WeeksFit ==
  ASSUME NEW n \in Int
  PROVE  PeriodFits(PriorWindow(n, "week"), "week")
<1> DEFINE monday == n - weekday(n)
           w == PriorWindow(n, "week")
<1>1. /\ w.start = monday /\ w.end = n /\ w.start_b = monday - 7 /\ w.end_b = n - 7
  BY DEF PriorWindow, _period_vs_prior, Comparison
<1>2. weekday(n) \in 0..6
  BY DEF weekday
<1>3. weekday(monday) = 0 /\ weekday(monday - 7) = 0
  BY DEF weekday
<1> HIDE DEF w
<1>4. /\ monday \in Int /\ monday <= n /\ n - 7 < monday
  BY <1>2
<1> HIDE DEF monday
<1>5. w.start_b <= w.end_b /\ w.end_b < w.start /\ w.start <= w.end
  BY <1>1, <1>4
<1>6. w.end_b - w.start_b = w.end - w.start
  BY <1>1, <1>4
<1>7. weekday(w.start) = 0 /\ weekday(w.start_b) = 0
  BY <1>1, <1>3
<1> QED BY <1>5, <1>6, <1>7 DEF PeriodFits, w

\* The month and the year of a day within the calendar, and of the days before.
LEMMA MonthsFit ==
  ASSUME NEW n, NEW y, NEW m, NEW d, Within(n, y, m, d)
  PROVE  PeriodFits(PriorWindow(n, "month"), "month")
<1> DEFINE k == MonthNumber(y, m)
           j == k - 1
           z == YearOf(j)
           i == MonthOf(j)
           e == IF d < DaysIn(j) THEN d ELSE DaysIn(j)
           past == _sub_months(n, 1)
           w == PriorWindow(n, "month")
<1>1. /\ Year(n) = y /\ Month(n) = m /\ DayOfMonth(n) = d
      /\ y \in (FirstYear + 1)..LastYear /\ y \in Int /\ m \in 1..12 /\ d \in Int /\ 1 <= d
      /\ n \in Int /\ n = FirstDay(k) + d - 1 /\ d <= DaysIn(k)
  BY WithinIs DEF Within
<1>2. /\ past = Day(z, i, e) /\ Valid(z, i, e) /\ MonthNumber(z, i) = j /\ j \in Int
  BY MonthsBack
<1>3. /\ k \in Int /\ YearOf(k) = y /\ MonthOf(k) = m /\ k = j + 1
  <2>1. k \in Int /\ YearOf(k) = y /\ MonthOf(k) = m
    BY <1>1, MonthNumbers
  <2> HIDE DEF k
  <2> QED BY <2>1
<1>4. /\ z \in Int /\ i \in 1..12
      /\ IF i = 12 THEN y = z + 1 /\ m = 1 ELSE y = z /\ m = i + 1
  BY <1>2, <1>3, MonthNumbers
<1>5. /\ FirstDay(j) \in Int /\ DaysIn(j) \in 28..31
      /\ FirstDay(k) = FirstDay(j) + DaysIn(j) /\ FirstDay(k) \in Int
  BY <1>2, <1>3, NextMonth
<1> HIDE DEF k, j, z, i
<1>6. e \in Int /\ 1 <= e /\ e <= d /\ e <= DaysIn(j) /\ (e = d \/ e = DaysIn(j))
  BY <1>1, <1>5
<1>7. past = FirstDay(j) + e - 1
  BY <1>2, DayIs
<1> HIDE DEF e
<1>8. z \in FirstYear..LastYear /\ y \in FirstYear..LastYear
  BY <1>1, <1>4, CalendarAssumption
<1>9. e \in 1..monthrange(z, i)
  BY <1>2 DEF Valid
<1>10. Year(past) = z /\ Month(past) = i
  BY <1>2, <1>4, <1>8, <1>9, CalendarIs
<1>11. /\ FirstDay(j) = Day(z, i, 1) /\ FirstDay(k) = Day(y, m, 1)
  <2>1. FirstDay(k) = Day(y, m, 1)
    BY <1>3 DEF FirstDay
  <2>2. FirstDay(j) = Day(z, i, 1)
    BY DEF FirstDay, z, i
  <2> QED BY <2>1, <2>2
<1>12. DayOfMonth(FirstDay(j)) = 1 /\ DayOfMonth(FirstDay(k)) = 1
  <2>1. 1 \in 1..monthrange(z, i) /\ 1 \in 1..monthrange(y, m)
    BY <1>1, <1>4, MonthLengths
  <2> QED BY <1>1, <1>4, <1>8, <1>11, <2>1, CalendarIs
<1>13. /\ w.start = FirstDay(k) /\ w.end = n
       /\ w.start_b = FirstDay(j) /\ w.end_b = past
  BY <1>1, <1>10, <1>11 DEF PriorWindow, _period_vs_prior, Comparison, MonthStart
<1> HIDE DEF past, w
<1>14. i = ((m + 10) % 12) + 1
  <2>1. m \in {1, 2, 3, 4, 5, 6, 7, 8, 9, 10, 11, 12}
    BY <1>1
  <2> QED BY <1>4, <2>1
<1>15. past \in Int /\ FirstDay(j) <= past /\ past < FirstDay(k) /\ FirstDay(k) <= n
  BY <1>1, <1>5, <1>6, <1>7
<1>16. past - FirstDay(j) = n - FirstDay(k) \/ past + 1 = FirstDay(k)
  BY <1>1, <1>5, <1>6, <1>7
<1>17. w.start_b <= w.end_b /\ w.end_b < w.start /\ w.start <= w.end
  BY <1>13, <1>15
<1>18. DayOfMonth(w.start) = 1 /\ DayOfMonth(w.start_b) = 1
  BY <1>12, <1>13
<1>19. Month(w.end_b) = ((Month(w.end) + 10) % 12) + 1
  BY <1>1, <1>10, <1>13, <1>14
<1>20. w.end_b - w.start_b = w.end - w.start \/ DayOfMonth(w.end_b + 1) = 1
  BY <1>12, <1>13, <1>16
<1> QED BY <1>17, <1>18, <1>19, <1>20 DEF PeriodFits, w

\* In two years without a leap day every month begins on the same day.
LEMMA PlainYears ==
  ASSUME NEW y \in Int, NEW m \in 1..12, ~Leap(y), ~Leap(y - 1)
  PROVE  Day(y, m, 1) - Day(y, 1, 1) = Day(y - 1, m, 1) - Day(y - 1, 1, 1)
<1>1. /\ y - 1 \in Int /\ DaysBefore(y - 1) \in Int /\ DaysBefore((y - 1) - 1) \in Int
      /\ LeapDays(y) = 0 /\ LeapDays(y - 1) = 0
  BY YearLength DEF LeapDays
<1>2. m = 1 \/ m = 2 \/ m = 3 \/ m = 4 \/ m = 5 \/ m = 6 \/ m = 7 \/ m = 8 \/ m = 9
      \/ m = 10 \/ m = 11 \/ m = 12
  OBVIOUS
<1> QED BY <1>1, <1>2, MonthFirsts

LEMMA YearsFit ==
  ASSUME NEW n, NEW y, NEW m, NEW d, Within(n, y, m, d)
  PROVE  PeriodFits(PriorWindow(n, "year"), "year")
<1> DEFINE k == MonthNumber(y, m)
           j == k - 12
           z == YearOf(j)
           i == MonthOf(j)
           e == IF d < DaysIn(j) THEN d ELSE DaysIn(j)
           past == _sub_months(n, 12)
           w == PriorWindow(n, "year")
<1>1. /\ Year(n) = y /\ Month(n) = m /\ DayOfMonth(n) = d
      /\ y \in (FirstYear + 1)..LastYear /\ y \in Int /\ m \in 1..12 /\ d \in Int /\ 1 <= d
      /\ n \in Int /\ n = Day(y, m, d) /\ Valid(y, m, d) /\ d <= DaysIn(k)
  BY WithinIs DEF Within
<1>2. /\ past = Day(z, i, e) /\ Valid(z, i, e) /\ MonthNumber(z, i) = j /\ j \in Int
  BY MonthsBack
<1>3. z = y - 1 /\ i = m
  <2>1. y - 1 \in Int /\ MonthNumber(y - 1, m) = j
    BY <1>1 DEF MonthNumber
  <2>2. YearOf(MonthNumber(y - 1, m)) = y - 1 /\ MonthOf(MonthNumber(y - 1, m)) = m
    BY <1>1, <2>1, MonthNumbers
  <2> QED BY <2>1, <2>2
<1>4. /\ DaysIn(j) \in 28..31 /\ DaysIn(j) = monthrange(y - 1, m)
      /\ DaysIn(k) \in 28..31 /\ DaysIn(k) = monthrange(y, m)
  <2>1. k \in Int /\ YearOf(k) = y /\ MonthOf(k) = m
    BY <1>1, MonthNumbers
  <2> QED BY <1>2, <1>3, <2>1, NextMonth DEF DaysIn
<1> HIDE DEF z, i, j, k
<1>5. y - 1 \in FirstYear..LastYear /\ y \in FirstYear..LastYear /\ y - 1 \in Int
  BY <1>1, CalendarAssumption
<1>6. e \in 1..monthrange(y - 1, m) /\ e \in Int /\ e <= d
  BY <1>1, <1>4
<1> HIDE DEF e
<1>7. Year(past) = y - 1 /\ Month(past) = m
  BY <1>1, <1>2, <1>3, <1>5, <1>6, CalendarIs
<1>8. /\ w.start = Day(y, 1, 1) /\ w.end = n
      /\ w.start_b = Day(y - 1, 1, 1) /\ w.end_b = past
  BY <1>1, <1>7 DEF PriorWindow, _period_vs_prior, Comparison, YearStart
<1> HIDE DEF w
<1>9. DayOfMonth(Day(y, 1, 1)) = 1 /\ DayOfMonth(Day(y - 1, 1, 1)) = 1
  <2>1. 1 \in 1..12 /\ 1 \in 1..monthrange(y, 1) /\ 1 \in 1..monthrange(y - 1, 1)
    BY MonthLengths
  <2> QED BY <1>5, <2>1, CalendarIs
<1>10. /\ Day(y, 1, 1) \in Int /\ Day(y - 1, 1, 1) \in Int
       /\ Day(y, m, 1) \in Int /\ Day(y - 1, m, 1) \in Int
       /\ n = Day(y, m, 1) + d - 1 /\ past = Day(y - 1, m, 1) + e - 1
  <2>1. /\ Day(y, m, 1) \in Int /\ Day(y - 1, m, 1) \in Int
        /\ Day(y, 1, 1) \in Int /\ Day(y - 1, 1, 1) \in Int
    <3>1. 1 \in 1..12 /\ 1 \in Int
      OBVIOUS
    <3> QED BY <1>1, <1>5, <3>1, DayOfTheMonth
  <2>2. Day(y, m, d) = Day(y, m, 1) + d - 1
    BY <1>1, DayOfTheMonth
  <2>3. Day(y - 1, m, e) = Day(y - 1, m, 1) + e - 1
    <3>1. z \in Int /\ i \in 1..12
      BY <1>1, <1>3, <1>5
    <3>2. Day(z, i, e) = Day(z, i, 1) + e - 1
      BY <1>6, <3>1, DayOfTheMonth
    <3> QED BY <1>3, <3>2
  <2> QED BY <1>1, <1>2, <1>3, <2>1, <2>2, <2>3
<1>11. Day(y, m, 1) >= Day(y, 1, 1) /\ Day(y - 1, m, 1) >= Day(y - 1, 1, 1)
  <2>1. m = 1 \/ m = 2 \/ m = 3 \/ m = 4 \/ m = 5 \/ m = 6 \/ m = 7 \/ m = 8 \/ m = 9
        \/ m = 10 \/ m = 11 \/ m = 12
    BY <1>1
  <2>2. DaysBefore(y - 1) \in Int /\ LeapDays(y) \in 0..1
        /\ DaysBefore((y - 1) - 1) \in Int /\ LeapDays(y - 1) \in 0..1
    BY <1>1, <1>5, YearLength DEF LeapDays
  <2> QED BY <1>1, <1>5, <2>1, <2>2, MonthFirsts
<1>12. past < Day(y, 1, 1)
  <2>1. Valid(y, 1, 1)
    BY <1>1, MonthLengths DEF Valid
  <2>2. Valid(y - 1, m, e)
    BY <1>2, <1>3
  <2>3. MonthNumber(y - 1, m) < MonthNumber(y, 1)
    BY <1>1, <1>5 DEF MonthNumber
  <2>4. Day(y - 1, m, e) < Day(y, 1, 1)
    BY <2>1, <2>2, <2>3, EarlierMonth
  <2> QED BY <1>2, <1>3, <2>4
<1>15. w.start_b <= w.end_b /\ w.end_b < w.start /\ w.start <= w.end
  <2>1. e >= 1 /\ past \in Int
    BY <1>6, <1>10
  <2>2. Day(y - 1, 1, 1) <= past /\ Day(y, 1, 1) <= n
    BY <1>1, <1>6, <1>10, <1>11, <2>1
  <2> QED BY <1>8, <1>12, <2>2
<1>16. DayOfMonth(w.start) = 1 /\ DayOfMonth(w.start_b) = 1
  BY <1>8, <1>9
<1>17. Year(w.end_b) = Year(w.end) - 1 /\ Month(w.end_b) = Month(w.end)
  BY <1>1, <1>7, <1>8
<1>13. CASE Leap(y) \/ Leap(y - 1)
  <2>1. Leap(Year(w.end)) \/ Leap(Year(w.end_b))
    BY <1>1, <1>7, <1>8, <1>13
  <2> QED BY <1>15, <1>16, <1>17, <2>1 DEF PeriodFits, w
<1>14. CASE ~(Leap(y) \/ Leap(y - 1))
  <2>1. Day(y, m, 1) - Day(y, 1, 1) = Day(y - 1, m, 1) - Day(y - 1, 1, 1)
    BY <1>1, <1>14, PlainYears
  <2>2. monthrange(y - 1, m) = monthrange(y, m)
    BY <1>14 DEF monthrange
  <2>3. e = d
    BY <1>1, <1>4, <2>2 DEF e
  <2>4. past - Day(y - 1, 1, 1) = n - Day(y, 1, 1)
    BY <1>1, <1>10, <2>1, <2>3
  <2>5. w.end_b - w.start_b = w.end - w.start
    BY <1>8, <2>4
  <2> QED BY <1>15, <1>16, <1>17, <2>5 DEF PeriodFits, w
<1> QED BY <1>13, <1>14

\* Every unit fits, on every day that has a year before it.
OnCalendar(n) == \E y, m, d : Within(n, y, m, d)
UnitNames == {"week", "month", "year"}
LEMMA PeriodsFit ==
  ASSUME NEW n, OnCalendar(n), NEW unit \in UnitNames
  PROVE  PeriodFits(PriorWindow(n, unit), unit)
<1>1. PICK y, m, d : Within(n, y, m, d)
  BY DEF OnCalendar
<1>2. n \in Int
  BY <1>1, WithinIs
<1>3. unit = "week" \/ unit = "month" \/ unit = "year"
  BY DEF UnitNames
<1> QED BY <1>1, <1>2, <1>3, WeeksFit, MonthsFit, YearsFit

\* The day of a question is on the calendar, and so is the next.
Anchored(n) == \E t \in Anchors : n = Day(t[1], t[2], t[3])
LEMMA AskedOnCalendar ==
  ASSUME NEW n, Anchored(n)
  PROVE  OnCalendar(n) /\ OnCalendar(n + 1)
<1>1. PICK t \in Anchors : n = Day(t[1], t[2], t[3])
  BY DEF Anchored
<1> DEFINE y == t[1]
           m == t[2]
           d == t[3]
           k == MonthNumber(y, m)
<1>2. /\ y \in FirstYear..LastYear /\ m \in 1..12 /\ d \in 1..31 /\ d <= monthrange(y, m)
      /\ FirstYear < y /\ y < LastYear /\ n = Day(y, m, d)
  BY <1>1, AnchorsAssumption DEF Dates
<1> HIDE DEF y, m, d
<1>3. /\ y \in (FirstYear + 1)..LastYear /\ y + 1 \in (FirstYear + 1)..LastYear
      /\ y \in Int /\ d \in Int /\ d >= 1
  BY <1>2, CalendarAssumption
<1>4. monthrange(y, m) \in 28..31
  BY <1>2, MonthLengths
<1>5. d \in 1..monthrange(y, m)
  BY <1>2, <1>3, <1>4
<1>6. Within(n, y, m, d)
  BY <1>2, <1>3, <1>5 DEF Within
<1>7. /\ n \in Int /\ n = FirstDay(k) + d - 1 /\ Valid(y, m, d)
  BY <1>6, WithinIs
<1>8. /\ k \in Int /\ YearOf(k) = y /\ MonthOf(k) = m
  BY <1>2, <1>3, MonthNumbers
<1> HIDE DEF k
<1>9. /\ FirstDay(k + 1) = FirstDay(k) + DaysIn(k) /\ FirstDay(k) \in Int
      /\ DaysIn(k) = monthrange(y, m)
  BY <1>8, NextMonth DEF DaysIn
<1>10. CASE d < monthrange(y, m)
  <2>1. d + 1 \in 1..monthrange(y, m) /\ d + 1 \in Int
    BY <1>3, <1>4, <1>10
  <2>2. Valid(y, m, d + 1)
    BY <1>2, <1>3, <2>1 DEF Valid
  <2>3. Day(y, m, d + 1) = FirstDay(k) + (d + 1) - 1
    BY <2>2, DayIs DEF k
  <2>4. n + 1 = Day(y, m, d + 1)
    BY <1>3, <1>7, <1>9, <2>3
  <2>5. Within(n + 1, y, m, d + 1)
    BY <1>2, <1>3, <2>1, <2>4 DEF Within
  <2> QED BY <1>6, <2>5 DEF OnCalendar
<1>11. CASE ~(d < monthrange(y, m))
  <2>1. n + 1 = FirstDay(k + 1)
    BY <1>3, <1>4, <1>5, <1>7, <1>9, <1>11
  <2>2. YearOf(k + 1) \in {y, y + 1} /\ MonthOf(k + 1) \in 1..12
    <3>1. IF m = 12 THEN YearOf(k + 1) = y + 1 /\ MonthOf(k + 1) = 1
          ELSE YearOf(k + 1) = y /\ MonthOf(k + 1) = m + 1
      BY <1>8, MonthNumbers
    <3> QED BY <1>2, <3>1
  <2>3. 1 \in 1..monthrange(YearOf(k + 1), MonthOf(k + 1))
    BY <2>2, MonthLengths
  <2>4. Within(n + 1, YearOf(k + 1), MonthOf(k + 1), 1)
    BY <1>3, <2>1, <2>2, <2>3 DEF Within, FirstDay
  <2> QED BY <1>6, <2>4 DEF OnCalendar
<1> QED BY <1>10, <1>11

\* The first of the kinds that the question has is found.
LEMMA FirstFound ==
  ASSUME NEW kinds, Len(kinds) \in Nat, NEW ps, Some(kinds, ps)
  PROVE  FirstOf(kinds, ps) \in 1..Len(kinds) /\ Has(ps, kinds[FirstOf(kinds, ps)])
<1> DEFINE T == {i \in 1..Len(kinds) : Has(ps, kinds[i])}
<1>1. T \subseteq Nat /\ T # {}
  BY DEF Some
<1>2. PICK n \in T : \A j \in T : ~(j < n)
  BY <1>1, LeastNumber
<1>3. n \in 1..Len(kinds) /\ Has(ps, kinds[n])
  BY <1>2
<1>4. \A j \in 1..(n - 1) : ~Has(ps, kinds[j])
  <2> SUFFICES ASSUME NEW j \in 1..(n - 1), Has(ps, kinds[j]) PROVE FALSE
    OBVIOUS
  <2>1. j \in T /\ j < n
    BY <1>3
  <2> QED BY <1>2, <2>1
<1> QED BY <1>3, <1>4 DEF FirstOf

\* ... and so is its first phrase.
LEMMA PhraseFound ==
  ASSUME NEW ps \in Phrasings, NEW is, is \subseteq DOMAIN ps, is # {}
  PROVE  /\ Earliest(is) \in is
         /\ ps[Earliest(is)] \in [kind: STRING, n: Nat, a: Nat, b: Nat]
<1>1. ps \in Seq([kind: STRING, n: Nat, a: Nat, b: Nat])
  BY PhrasesAssumption
<1>2. DOMAIN ps \subseteq Nat
  BY <1>1
<1>3. Earliest(is) \in is
  BY <1>2, LeastIsChosen DEF Earliest
<1>4. ps[Earliest(is)] \in [kind: STRING, n: Nat, a: Nat, b: Nat]
  <2>1. \A S : ps \in Seq(S) => \A i \in DOMAIN ps : ps[i] \in S
    OBVIOUS
  <2>2. Earliest(is) \in DOMAIN ps
    BY <1>3
  <2> QED BY <1>1, <2>1, <2>2
<1> QED BY <1>3, <1>4

\* What an explicit phrase says is two days.
LEMMA SpokenDays ==
  ASSUME NEW ps \in Phrasings, NEW i \in DOMAIN ps,
         ps[i] \in [kind: STRING, n: Nat, a: Nat, b: Nat],
         ps[i].kind \in {"range", "named_month", "date"}
  PROVE  /\ Spoken(ps[i])[1] \in Nat /\ Spoken(ps[i])[2] \in Nat
         /\ Spoken(ps[i])[1] > 0 /\ Spoken(ps[i])[2] > 0
<1>1. /\ ps[i].a \in Nat /\ ps[i].b \in Nat /\ ps[i].a > 0
      /\ ps[i].kind = "range" => ps[i].b > 0
      /\ ps[i].kind = "named_month" => ps[i].b \in 1..12
  BY PhrasesAssumption
<1>2. CASE ps[i].kind = "range"
  BY <1>1, <1>2 DEF Spoken
<1>3. CASE ps[i].kind = "named_month"
  <2> DEFINE y == ps[i].a
             m == ps[i].b
  <2>1. y \in Int /\ y >= 1 /\ m \in 1..12
    BY <1>1, <1>3
  <2>2. Spoken(ps[i]) = <<Day(y, m, 1), Day(y, m, monthrange(y, m))>>
    BY <1>3 DEF Spoken, _month_range
  <2> HIDE DEF y, m
  <2>3. monthrange(y, m) \in 28..31
    BY <2>1, MonthLengths
  <2>4. Valid(y, m, 1) /\ Valid(y, m, monthrange(y, m))
    BY <2>1, <2>3 DEF Valid
  <2> QED BY <2>1, <2>2, <2>4, DaysArePositive
<1>4. CASE ps[i].kind = "date"
  BY <1>1, <1>4 DEF Spoken
<1> QED BY <1>2, <1>3, <1>4

\* The windows that words name (window_from_query).
LastKinds == {"last_d", "last_w", "last_m", "last_q"}
LastWindow(n, kind, k) ==
  Absolute(CASE kind = "last_d" -> n - (k - 1)
             [] kind = "last_w" -> n - 7 * k
             [] kind = "last_m" -> _sub_months(n, k)
             [] OTHER -> _sub_months(n, 3 * k), n, <<kind, k>>)
WordNames == {"yesterday", "today", "this_month", "this_week", "this_year"}
WordWindow(n, word) ==
  CASE word = "yesterday" -> Absolute(n - 1, n - 1, <<word, 0>>)
    [] word = "today" -> Absolute(n, n, <<word, 0>>)
    [] word = "this_month" -> Absolute(MonthStart(n), n, <<word, 0>>)
    [] word = "this_week" -> Absolute(n - weekday(n), n, <<word, 0>>)
    [] OTHER -> Absolute(YearStart(n), n, <<word, 0>>)

SaysLast(ps) == \E kind \in LastKinds, k \in Nat :
  /\ kind = "last_d" => k \in 1..90
  /\ \A n : window_from_query(ps, n) = LastWindow(n, kind, k)
SaysDays(ps) ==
  \/ \E a, b \in Nat \ {0} : \A n : window_from_query(ps, n) = Absolute(a, b, NoToken)
  \/ \E a, b, c, d : \A n : window_from_query(ps, n) = Comparison(a, b, c, d, NoToken)
SaysUnit(ps) == \E unit \in UnitNames : \A n : window_from_query(ps, n) = PriorWindow(n, unit)
SaysWord(ps) == \E word \in WordNames : \A n : window_from_query(ps, n) = WordWindow(n, word)
SaysNothing(ps) == \A n : window_from_query(ps, n) = NoWindow

LEMMA LastSaid ==
  ASSUME NEW ps \in Phrasings, Some(LastN, ps)
  PROVE  SaysLast(ps)
<1> DEFINE kind == LastN[FirstOf(LastN, ps)]
           said == ps[Earliest(OfKind(ps, kind))].n
           k == IF kind = "last_d" THEN Clamped(said) ELSE said
<1>1. Len(LastN) = 4 /\ FirstOf(LastN, ps) \in 1..4 /\ Has(ps, kind)
  <2>1. Len(LastN) = 4
    BY DEF LastN
  <2> QED BY <2>1, FirstFound
<1>2. kind \in LastKinds
  BY <1>1 DEF LastN, LastKinds
<1>3. ps[Earliest(OfKind(ps, kind))] \in [kind: STRING, n: Nat, a: Nat, b: Nat]
  <2>1. OfKind(ps, kind) \subseteq DOMAIN ps /\ OfKind(ps, kind) # {}
    BY <1>1 DEF OfKind, Has
  <2> HIDE DEF kind
  <2> QED BY <2>1, PhraseFound
<1>4. said \in Nat
  BY <1>3
<1>5. k \in Nat /\ (kind = "last_d" => k \in 1..90)
  <2> HIDE DEF said, kind
  <2> QED BY <1>4 DEF Clamped
<1>6. \A n : window_from_query(ps, n) = LastWindow(n, kind, k)
  BY DEF window_from_query, LastWindow
<1> HIDE DEF kind, k
<1> QED BY <1>2, <1>5, <1>6 DEF SaysLast

LEMMA DaysSaid ==
  ASSUME NEW ps \in Phrasings, ~Some(LastN, ps), Some(ExplicitKinds, ps)
  PROVE  SaysDays(ps)
<1> DEFINE kind == ExplicitKinds[FirstOf(ExplicitKinds, ps)]
           is == OfKind(ps, kind)
           rest == is \ {Earliest(is)}
           s == Spoken(ps[Earliest(is)])
           t == Spoken(ps[Earliest(rest)])
<1>1. Len(ExplicitKinds) = 3 /\ FirstOf(ExplicitKinds, ps) \in 1..3 /\ Has(ps, kind)
  <2>1. Len(ExplicitKinds) = 3
    BY DEF ExplicitKinds
  <2> QED BY <2>1, FirstFound
<1>2. kind \in {"range", "named_month", "date"}
  BY <1>1 DEF ExplicitKinds
<1>3. \A n : window_from_query(ps, n) = Explicit(ps, kind)
  BY DEF window_from_query
<1> HIDE DEF kind
<1>4. is \subseteq DOMAIN ps /\ is # {} /\ (\A i \in is : ps[i].kind = kind)
  BY <1>1 DEF OfKind, Has
<1> HIDE DEF is
<1>5. /\ s[1] \in Nat \ {0} /\ s[2] \in Nat \ {0} /\ Earliest(is) \in is
  <2>1. /\ Earliest(is) \in is
        /\ ps[Earliest(is)] \in [kind: STRING, n: Nat, a: Nat, b: Nat]
    BY <1>4, PhraseFound
  <2> QED BY <1>2, <1>4, <2>1, SpokenDays
<1>6. CASE is = {Earliest(is)}
  <2>1. Explicit(ps, kind) = Absolute(s[1], s[2], NoToken)
    BY <1>6 DEF Explicit, is
  <2> HIDE DEF s
  <2> QED BY <1>3, <1>5, <2>1 DEF SaysDays
<1>7. CASE is # {Earliest(is)}
  <2>1. Explicit(ps, kind) = Comparison(s[1], s[2], t[1], t[2], NoToken)
    BY <1>7 DEF Explicit, is
  <2> HIDE DEF s, t
  <2> QED BY <1>3, <2>1 DEF SaysDays
<1> QED BY <1>6, <1>7

LEMMA UnitSaid ==
  ASSUME NEW ps \in Phrasings, ~Some(LastN, ps), ~Some(ExplicitKinds, ps),
         Has(ps, "verb"), Some(Units, ps)
  PROVE  SaysUnit(ps)
<1> DEFINE unit == Units[FirstOf(Units, ps)]
<1>1. FirstOf(Units, ps) \in 1..3
  <2>1. Len(Units) = 3
    BY DEF Units
  <2> QED BY <2>1, FirstFound
<1>2. unit \in UnitNames
  BY <1>1 DEF Units, UnitNames
<1>3. \A n : window_from_query(ps, n) = PriorWindow(n, unit)
  BY DEF window_from_query, PriorWindow
<1> HIDE DEF unit
<1> QED BY <1>2, <1>3 DEF SaysUnit

LEMMA WordSaid ==
  ASSUME NEW ps \in Phrasings, ~Some(LastN, ps), ~Some(ExplicitKinds, ps),
         ~(Has(ps, "verb") /\ Some(Units, ps)), Some(Words, ps)
  PROVE  SaysWord(ps)
<1> DEFINE word == Words[FirstOf(Words, ps)]
<1>1. FirstOf(Words, ps) \in 1..5
  <2>1. Len(Words) = 5
    BY DEF Words
  <2> QED BY <2>1, FirstFound
<1>2. word \in WordNames
  BY <1>1 DEF Words, WordNames
<1>3. \A n : window_from_query(ps, n) = WordWindow(n, word)
  BY DEF window_from_query, WordWindow
<1> HIDE DEF word
<1> QED BY <1>2, <1>3 DEF SaysWord

\* A question is read in one of five ways, on whatever day.
LEMMA WaysToRead ==
  ASSUME NEW ps \in Phrasings
  PROVE  SaysLast(ps) \/ SaysDays(ps) \/ SaysUnit(ps) \/ SaysWord(ps) \/ SaysNothing(ps)
<1>1. CASE /\ ~Some(LastN, ps) /\ ~Some(ExplicitKinds, ps)
           /\ ~(Has(ps, "verb") /\ Some(Units, ps)) /\ ~Some(Words, ps)
  <2>1. \A n : window_from_query(ps, n) = NoWindow
    BY <1>1 DEF window_from_query
  <2> QED BY <2>1 DEF SaysNothing
<1> QED BY <1>1, LastSaid, DaysSaid, UnitSaid, WordSaid

\* The first days of the month and of the year are no later than the day.
LEMMA PeriodStarts ==
  ASSUME NEW n, OnCalendar(n)
  PROVE  /\ n \in Int /\ n > 0
         /\ MonthStart(n) \in Int /\ MonthStart(n) <= n
         /\ YearStart(n) \in Int /\ YearStart(n) <= n
<1>1. PICK y, m, d : Within(n, y, m, d)
  BY DEF OnCalendar
<1>2. /\ Valid(y, m, d) /\ n \in Int /\ y \in Int /\ d \in Int /\ y > 1 /\ d >= 1
      /\ Year(n) = y /\ Month(n) = m /\ m \in 1..12 /\ n = Day(y, m, d)
  BY <1>1, WithinIs DEF Within
<1>3. n > 0
  BY <1>2, DaysArePositive
<1>4. Valid(y, m, 1) /\ Valid(y, 1, 1) /\ monthrange(y, m) \in 28..31
  BY <1>2, MonthLengths DEF Valid
<1>5. /\ n = FirstDay(MonthNumber(y, m)) + d - 1 /\ FirstDay(MonthNumber(y, m)) \in Int
      /\ Day(y, m, 1) = FirstDay(MonthNumber(y, m)) /\ Day(y, 1, 1) \in Int
  BY <1>2, <1>4, DayIs
<1>6. MonthStart(n) = Day(y, m, 1) /\ YearStart(n) = Day(y, 1, 1)
  BY <1>2 DEF MonthStart, YearStart
<1>7. Day(y, 1, 1) <= Day(y, m, 1)
  <2>1. CASE m = 1
    BY <1>5, <2>1
  <2>2. CASE m # 1
    <3>1. MonthNumber(y, 1) < MonthNumber(y, m)
      BY <1>2, <2>2 DEF MonthNumber
    <3>2. Day(y, 1, 1) < Day(y, m, 1)
      BY <1>4, <3>1, EarlierMonth
    <3> QED BY <1>5, <3>2
  <2> QED BY <2>1, <2>2
<1> QED BY <1>2, <1>3, <1>5, <1>6, <1>7

-----------------------------------------------------------------------------
(* TimeRange: the steps.                                                   *)

\* What is read is what the question says on the day it was asked, and what it is
\* resolved to is worked out on that day or the next.
TimeIInv ==
  /\ phrases \in Phrasings /\ Anchored(asked)
  /\ today = asked \/ today = asked + 1
  /\ window = NoWindow => today = asked /\ resolved = NoWindow
  /\ window # NoWindow => window = window_from_query(phrases, asked)
  /\ resolved # NoWindow => window # NoWindow /\ resolved = resolve_time_range(window, today)

LEMMA TimeIsKept ==
  /\ TimeInit => TimeIInv
  /\ TimeIInv /\ [TimeNext]_timeVars => TimeIInv'
<1>1. ASSUME TimeInit PROVE TimeIInv
  BY <1>1 DEF TimeInit, TimeIInv, Anchored
<1>2. ASSUME TimeIInv, [TimeNext]_timeVars PROVE TimeIInv'
  <2>1. CASE Read
    <3>1. window' # NoWindow
      BY <2>1 DEF Read, NoWindow
    <3> QED BY <1>2, <2>1, <3>1 DEF TimeIInv, Read
  <2>2. CASE Midnight
    BY <1>2, <2>2 DEF TimeIInv, Midnight
  <2>3. CASE ResolveWindow
    BY <1>2, <2>3 DEF TimeIInv, ResolveWindow
  <2>4. CASE UNCHANGED timeVars
    BY <1>2, <2>4 DEF TimeIInv, timeVars
  <2> QED BY <1>2, <2>1, <2>2, <2>3, <2>4 DEF TimeNext
<1> QED BY <1>1, <1>2

\* A single window is resolved to itself.
LEMMA SingleIsKept ==
  ASSUME NEW a, NEW b, NEW token, NEW n, b # 0 \/ a = b
  PROVE  LET r == resolve_time_range(Absolute(a, b, token), n) IN
         /\ Span(r) = Span(Absolute(a, b, token)) /\ r.token \in {NoToken, token}
<1> DEFINE w == Absolute(a, b, token)
<1>1. /\ w.kind = "absolute" /\ w.start = a /\ w.end = b /\ w.token = token
      /\ w.start_b = 0 /\ w.end_b = 0
  BY DEF Absolute
<1> HIDE DEF w
<1>2. CASE a # 0
  <2>1. b # 0
    BY <1>2
  <2>2. resolve_time_range(w, n) = Absolute(a, b, NoToken)
    BY <1>1, <1>2, <2>1 DEF resolve_time_range
  <2> QED BY <2>2 DEF Absolute, Span, w
<1>3. CASE a = 0
  <2>1. resolve_time_range(w, n) = w
    BY <1>1, <1>3 DEF resolve_time_range
  <2> QED BY <1>1, <2>1 DEF w
<1> QED BY <1>2, <1>3 DEF w

\* A comparison of dates is kept, and one of periods is worked out again.
LEMMA ComparisonsResolve ==
  /\ \A a, b, c, d, n : LET w == Comparison(a, b, c, d, NoToken) IN resolve_time_range(w, n) = w
  /\ \A unit \in UnitNames : \A m, n : resolve_time_range(PriorWindow(m, unit), n) = PriorWindow(n, unit)
<1>1. ASSUME NEW a, NEW b, NEW c, NEW d, NEW n
      PROVE  resolve_time_range(Comparison(a, b, c, d, NoToken), n) = Comparison(a, b, c, d, NoToken)
  <2> DEFINE w == Comparison(a, b, c, d, NoToken)
  <2>1. w.kind = "comparison" /\ w.token[1] = "none"
    BY DEF Comparison, NoToken
  <2>2. "none" \notin {Units[i] : i \in 1..3}
    BY DEF Units
  <2> HIDE DEF w
  <2>3. resolve_time_range(w, n) = w
    BY <2>1, <2>2 DEF resolve_time_range
  <2> QED BY <2>3 DEF w
<1>2. ASSUME NEW unit \in UnitNames, NEW m, NEW n
      PROVE  resolve_time_range(PriorWindow(m, unit), n) = PriorWindow(n, unit)
  <2> DEFINE w == PriorWindow(m, unit)
  <2>1. w.kind = "comparison" /\ w.token = <<unit, 0>> /\ w.token[1] = unit
    BY DEF Comparison, PriorWindow
  <2>2. unit \in {Units[i] : i \in 1..3} /\ unit # "yesterday_vs_as_of"
    <3>1. Units[1] = "week" /\ Units[2] = "month" /\ Units[3] = "year"
      BY DEF Units
    <3>2. unit = Units[1] \/ unit = Units[2] \/ unit = Units[3]
      BY <3>1 DEF UnitNames
    <3> QED BY <3>2 DEF UnitNames
  <2> HIDE DEF w
  <2>3. resolve_time_range(w, n) = PriorWindow(n, unit)
    BY <2>1, <2>2 DEF resolve_time_range, PriorWindow
  <2> QED BY <2>3 DEF w
<1> QED BY <1>1, <1>2

\* The window of a last N and of a word, resolved from its token, is the same.
LEMMA LastIsSaidTwice ==
  ASSUME NEW n, NEW kind \in LastKinds, NEW k \in Nat, kind = "last_d" => k \in 1..90
  PROVE  /\ Relative(<<kind, k>>, n) = LastWindow(n, kind, k)
         /\ Span(resolve_time_range([LastWindow(n, kind, k) EXCEPT !.kind = "relative"], n))
              = Span(LastWindow(n, kind, k))
<1> DEFINE w == LastWindow(n, kind, k)
           r == [w EXCEPT !.kind = "relative"]
<1>1. Relative(<<kind, k>>, n) = w
  <2>1. kind = "last_d" \/ kind = "last_w" \/ kind = "last_m" \/ kind = "last_q"
    BY DEF LastKinds
  <2>2. kind = "last_d" => Clamped(k) = k
    BY DEF Clamped
  <2> QED BY <2>1, <2>2 DEF Relative, LastWindow
<1>2. r.kind = "relative" /\ r.token = <<kind, k>>
  BY DEF LastWindow, Absolute
<1> HIDE DEF r
<1>3. resolve_time_range(r, n) = w
  BY <1>1, <1>2 DEF resolve_time_range
<1> QED BY <1>1, <1>3 DEF r

LEMMA WordIsSaidTwice ==
  ASSUME NEW n, NEW word \in WordNames
  PROVE  Span(resolve_time_range([WordWindow(n, word) EXCEPT !.kind = "relative"], n))
           = Span(WordWindow(n, word))
<1> DEFINE w == WordWindow(n, word)
           r == [w EXCEPT !.kind = "relative"]
<1>1. \/ word = "yesterday" \/ word = "today" \/ word = "this_month" \/ word = "this_week"
      \/ word = "this_year"
  BY DEF WordNames
<1>2. Relative(<<word, 0>>, n) = w
  BY <1>1 DEF Relative, WordWindow
<1>3. r.kind = "relative" /\ r.token = <<word, 0>>
  BY <1>1 DEF WordWindow, Absolute
<1> HIDE DEF r
<1>4. resolve_time_range(r, n) = w
  BY <1>2, <1>3 DEF resolve_time_range
<1> QED BY <1>4 DEF r

\* The window of a last N ends on its day and is not empty.
LEMMA LastIsSound ==
  ASSUME NEW n, OnCalendar(n), NEW kind \in LastKinds, NEW k \in Nat,
         kind = "last_d" => k \in 1..90
  PROVE  LET w == LastWindow(n, kind, k) IN
         /\ w.kind = "absolute" /\ w.token = <<kind, k>> /\ w.end = n /\ n \in Int /\ n > 0
         /\ w = Absolute(w.start, n, <<kind, k>>)
         /\ w.start <= w.end
         /\ kind = "last_d" => w.end - w.start + 1 = k
<1> DEFINE w == LastWindow(n, kind, k)
<1>1. PICK y, m, d : Within(n, y, m, d)
  BY DEF OnCalendar
<1>2. n \in Int /\ n > 0
  BY PeriodStarts
<1>3. /\ w.kind = "absolute" /\ w.token = <<kind, k>> /\ w.end = n
      /\ w = Absolute(w.start, n, <<kind, k>>)
  BY DEF LastWindow, Absolute
<1>4. CASE kind = "last_d"
  <2>1. w.start = n - (k - 1) /\ k \in 1..90
    BY <1>4 DEF LastWindow, Absolute
  <2> QED BY <1>2, <1>3, <2>1
<1>5. CASE kind = "last_w"
  <2>1. w.start = n - 7 * k
    BY <1>5 DEF LastWindow, Absolute
  <2> QED BY <1>2, <1>3, <1>5, <2>1
<1>6. CASE kind = "last_m"
  <2>1. w.start = _sub_months(n, k)
    BY <1>6 DEF LastWindow, Absolute
  <2>2. w.start <= n
    BY <1>1, <2>1, BackIsEarlier
  <2> QED BY <1>2, <1>3, <1>6, <2>2
<1>7. CASE kind = "last_q"
  <2>1. w.start = _sub_months(n, 3 * k) /\ 3 * k \in Nat
    BY <1>7 DEF LastWindow, Absolute
  <2>2. w.start <= n
    BY <1>1, <2>1, BackIsEarlier
  <2> QED BY <1>2, <1>3, <1>7, <2>2
<1> QED BY <1>4, <1>5, <1>6, <1>7 DEF LastKinds

\* ... and so is the window of a word, or it is yesterday.
LEMMA WordIsSound ==
  ASSUME NEW n, OnCalendar(n), NEW word \in WordNames
  PROVE  LET w == WordWindow(n, word) IN
         /\ w.kind = "absolute" /\ w.token = <<word, 0>> /\ n \in Int
         /\ w = Absolute(w.start, w.end, <<word, 0>>)
         /\ w.start <= w.end /\ w.end \in {n - 1, n}
         /\ w.end # 0 \/ w.start = w.end
<1> DEFINE w == WordWindow(n, word)
<1>1. /\ n \in Int /\ n > 0 /\ MonthStart(n) \in Int /\ MonthStart(n) <= n
      /\ YearStart(n) \in Int /\ YearStart(n) <= n
  BY PeriodStarts
<1>2. CASE word = "yesterday"
  <2>1. w = Absolute(n - 1, n - 1, <<word, 0>>)
    BY <1>2 DEF WordWindow
  <2>2. n - 1 <= n - 1
    BY <1>1
  <2> QED BY <1>1, <1>2, <2>1, <2>2 DEF Absolute
<1>3. CASE word = "today"
  <2>1. w = Absolute(n, n, <<word, 0>>)
    BY <1>3 DEF WordWindow
  <2> QED BY <1>1, <1>3, <2>1 DEF Absolute
<1>4. CASE word = "this_month"
  <2>1. w = Absolute(MonthStart(n), n, <<word, 0>>)
    BY <1>4 DEF WordWindow
  <2> QED BY <1>1, <1>4, <2>1 DEF Absolute
<1>5. CASE word = "this_week"
  <2>1. w = Absolute(n - weekday(n), n, <<word, 0>>)
    BY <1>5 DEF WordWindow
  <2>2. n - weekday(n) <= n
    BY <1>1 DEF weekday
  <2> QED BY <1>1, <1>5, <2>1, <2>2 DEF Absolute
<1>6. CASE word = "this_year"
  <2>1. w = Absolute(YearStart(n), n, <<word, 0>>)
    BY <1>6 DEF WordWindow
  <2> QED BY <1>1, <1>6, <2>1 DEF Absolute
<1> QED BY <1>2, <1>3, <1>4, <1>5, <1>6 DEF WordNames

\* What holds of the two windows, whichever way the question was read.
Fine == NeverMixed /\ TokenSaysTheSame /\ PeriodsMatch /\ WindowIsSound

LEMMA NothingIsFine ==
  ASSUME window = NoWindow, resolved = NoWindow
  PROVE  Fine
<1>1. "none" \notin {Units[i] : i \in 1..3}
  BY DEF Units
<1> QED BY <1>1 DEF Fine, NeverMixed, TokenSaysTheSame, PeriodsMatch, WindowIsSound, NoWindow, NoToken

\* A single window, with a token or without.
LEMMA SingleIsFine ==
  ASSUME NEW a, NEW b, NEW token, window = Absolute(a, b, token), b # 0 \/ a = b,
         resolved # NoWindow => resolved = resolve_time_range(window, today),
         token[1] \notin UnitNames, TokenSaysTheSame, WindowIsSound
  PROVE  Fine
<1>1. window.kind = "absolute" /\ window.token = token
  BY DEF Absolute
<1>2. ASSUME resolved # NoWindow
      PROVE  Span(resolved) = Span(window) /\ resolved.token \in {NoToken, token}
  <2>1. LET r == resolve_time_range(Absolute(a, b, token), today) IN
        Span(r) = Span(Absolute(a, b, token)) /\ r.token \in {NoToken, token}
    BY SingleIsKept
  <2> QED BY <1>2, <2>1
<1>3. NeverMixed
  BY <1>1, <1>2 DEF NeverMixed
<1>4. PeriodsMatch
  <2>1. {Units[i] : i \in 1..3} = UnitNames
    <3>1. Units[1] = "week" /\ Units[2] = "month" /\ Units[3] = "year"
      BY DEF Units
    <3>2. \A i \in 1..3 : i = 1 \/ i = 2 \/ i = 3
      OBVIOUS
    <3> QED BY <3>1, <3>2 DEF UnitNames
  <2>2. NoToken[1] \notin UnitNames
    BY DEF NoToken, UnitNames
  <2>3. IF resolved # NoWindow THEN resolved.token[1] \notin UnitNames
        ELSE window.token[1] \notin UnitNames
    BY <1>1, <1>2, <2>2
  <2> QED BY <2>1, <2>3 DEF PeriodsMatch
<1> QED BY <1>3, <1>4 DEF Fine

LEMMA LastIsFine ==
  ASSUME TimeIInv, window # NoWindow, SaysLast(phrases), OnCalendar(asked)
  PROVE  Fine
<1>1. PICK kind \in LastKinds, k \in Nat :
        /\ kind = "last_d" => k \in 1..90
        /\ \A n : window_from_query(phrases, n) = LastWindow(n, kind, k)
  BY DEF SaysLast
<1>2. /\ window = LastWindow(asked, kind, k)
      /\ today = asked \/ today = asked + 1
      /\ resolved # NoWindow => resolved = resolve_time_range(window, today)
  BY <1>1 DEF TimeIInv
<1>3. /\ window.kind = "absolute" /\ window.token = <<kind, k>> /\ window.end = asked
      /\ asked \in Int /\ asked > 0 /\ window = Absolute(window.start, asked, <<kind, k>>)
      /\ window.start <= window.end
      /\ kind = "last_d" => window.end - window.start + 1 = k
  BY <1>1, <1>2, LastIsSound
<1>4. TokenSaysTheSame
  BY <1>1, <1>2, LastIsSaidTwice DEF TokenSaysTheSame
<1>5. WindowIsSound
  <2>1. window.end <= today
    BY <1>2, <1>3
  <2> QED BY <1>1, <1>3, <2>1 DEF WindowIsSound
<1>6. kind \notin UnitNames
  BY <1>1 DEF LastKinds, UnitNames
<1> QED BY <1>2, <1>3, <1>4, <1>5, <1>6, SingleIsFine

LEMMA WordIsFine ==
  ASSUME TimeIInv, window # NoWindow, SaysWord(phrases), OnCalendar(asked)
  PROVE  Fine
<1>1. PICK word \in WordNames : \A n : window_from_query(phrases, n) = WordWindow(n, word)
  BY DEF SaysWord
<1>2. /\ window = WordWindow(asked, word)
      /\ today = asked \/ today = asked + 1
      /\ resolved # NoWindow => resolved = resolve_time_range(window, today)
  BY <1>1 DEF TimeIInv
<1>3. /\ window.kind = "absolute" /\ window.token = <<word, 0>> /\ asked \in Int
      /\ window = Absolute(window.start, window.end, <<word, 0>>)
      /\ window.start <= window.end /\ window.end \in {asked - 1, asked}
      /\ window.end # 0 \/ window.start = window.end
  BY <1>1, <1>2, WordIsSound
<1>4. TokenSaysTheSame
  BY <1>1, <1>2, WordIsSaidTwice DEF TokenSaysTheSame
<1>5. WindowIsSound
  <2>1. window.end <= today
    BY <1>2, <1>3
  <2>2. word # "last_d"
    BY DEF WordNames
  <2> QED BY <1>1, <1>3, <2>1, <2>2 DEF WindowIsSound
<1>6. word \notin UnitNames
  BY <1>1 DEF WordNames, UnitNames
<1> QED BY <1>2, <1>3, <1>4, <1>5, <1>6, SingleIsFine

LEMMA DaysAreFine ==
  ASSUME TimeIInv, window # NoWindow, SaysDays(phrases)
  PROVE  Fine
<1>1. /\ window = window_from_query(phrases, asked)
      /\ resolved # NoWindow => resolved = resolve_time_range(window, today)
  BY DEF TimeIInv
<1>2. CASE \E a, b \in Nat \ {0} : \A n : window_from_query(phrases, n) = Absolute(a, b, NoToken)
  <2>1. PICK a \in Nat \ {0}, b \in Nat \ {0} : window = Absolute(a, b, NoToken)
    BY <1>1, <1>2
  <2>2. window.token = NoToken
    BY <2>1 DEF Absolute
  <2>3. TokenSaysTheSame /\ WindowIsSound
    BY <2>2 DEF TokenSaysTheSame, WindowIsSound
  <2>4. NoToken[1] \notin UnitNames /\ b # 0
    BY DEF NoToken, UnitNames
  <2> QED BY <1>1, <2>1, <2>3, <2>4, SingleIsFine
<1>3. CASE \E a, b, c, d : \A n : window_from_query(phrases, n) = Comparison(a, b, c, d, NoToken)
  <2>1. PICK a, b, c, d : window = Comparison(a, b, c, d, NoToken)
    BY <1>1, <1>3
  <2>2. window.kind = "comparison" /\ window.token[1] = "none"
    BY <2>1 DEF Comparison, NoToken
  <2>3. resolved # NoWindow => resolved = window
    BY <1>1, <2>1, ComparisonsResolve
  <2>4. "none" \notin {Units[i] : i \in 1..3}
    BY DEF Units
  <2> QED BY <2>2, <2>3, <2>4 DEF Fine, NeverMixed, TokenSaysTheSame, PeriodsMatch, WindowIsSound
<1> QED BY <1>2, <1>3 DEF SaysDays

LEMMA UnitIsFine ==
  ASSUME TimeIInv, window # NoWindow, SaysUnit(phrases), OnCalendar(asked), OnCalendar(today)
  PROVE  Fine
<1>1. PICK unit \in UnitNames : \A n : window_from_query(phrases, n) = PriorWindow(n, unit)
  BY DEF SaysUnit
<1>2. window = PriorWindow(asked, unit)
  BY <1>1 DEF TimeIInv
<1>3. resolved # NoWindow => resolved = PriorWindow(today, unit)
  BY <1>1, <1>2, ComparisonsResolve DEF TimeIInv
<1>4. window.kind = "comparison" /\ window.token[1] = unit
  BY <1>2 DEF PriorWindow, Comparison
<1>5. resolved # NoWindow => resolved.token[1] = unit
  BY <1>3 DEF PriorWindow, Comparison
<1>6. NeverMixed
  BY <1>1, <1>3, <1>4 DEF NeverMixed
<1>7. PeriodsMatch
  <2> DEFINE w == IF resolved # NoWindow THEN resolved ELSE window
  <2>1. PeriodFits(w, unit)
    BY <1>2, <1>3, PeriodsFit
  <2>2. w.token[1] = unit
    BY <1>4, <1>5
  <2> HIDE DEF w
  <2>3. LET u == w.token[1] IN u \in {Units[i] : i \in 1..3} => PeriodFits(w, u)
    BY <2>1, <2>2
  <2> QED BY <2>3 DEF PeriodsMatch, PeriodFits, w
<1> QED BY <1>4, <1>6, <1>7 DEF Fine, TokenSaysTheSame, WindowIsSound

LEMMA TimeIsFine == TimeIInv => Fine
<1> SUFFICES ASSUME TimeIInv PROVE Fine
  OBVIOUS
<1>1. CASE window = NoWindow
  BY <1>1, NothingIsFine DEF TimeIInv
<1>2. CASE window # NoWindow
  <2>1. OnCalendar(asked) /\ OnCalendar(today)
    <3>1. Anchored(asked)
      BY DEF TimeIInv
    <3> QED BY <3>1, AskedOnCalendar DEF TimeIInv
  <2>2. ~SaysNothing(phrases)
    BY <1>2 DEF TimeIInv, SaysNothing
  <2>3. phrases \in Phrasings
    BY DEF TimeIInv
  <2> QED BY <1>2, <2>1, <2>2, <2>3, WaysToRead, LastIsFine, DaysAreFine, UnitIsFine, WordIsFine
<1> QED BY <1>1, <1>2

\* On every day of the calendar and for every question: midnight between reading
\* and fetching never mixes two days, a token says what its words say, a window
\* compares a period with the whole of the same part of the one before, and the
\* last N end on the day they were asked (window_from_query, resolve_time_range).
THEOREM WindowsAreSound == TimeInit /\ [][TimeNext]_timeVars => []TimeInv
<1>1. TimeIInv => TimeInv
  BY TimeIsFine DEF Fine, TimeInv
<1> QED BY <1>1, TimeIsKept, PTL
=============================================================================
