------------------------------ MODULE Memories ------------------------------
(***************************************************************************)
(* A user's memories (conversations/context.py MemoryService, the memory   *)
(* endpoints and repositories): statements extracted from messages wait    *)
(* for consent, a confirmed one supersedes the one it contradicts, and the *)
(* active ones go into the context of new runs.  Every change reads a row  *)
(* and writes a changed copy of it back, and nothing keeps two requests    *)
(* for one row apart; confirm does so to two rows, one after the other.    *)
(***************************************************************************)
EXTENDS Integers, FiniteSets

CONSTANTS
  Items,      \* memory ids
  Says,       \* what an item says: [subject, negated]
  Calls,      \* requests, each of which is made once
  Databases   \* "postgres", "memory"

ASSUME MemoriesAssumption ==
  /\ "none" \notin Items
  /\ \A i \in Items : Says[i].negated \in BOOLEAN
  /\ Databases \subseteq {"postgres", "memory"}

VARIABLES
  database,   \* which repository is configured
  memory,     \* the rows
  opted_out,  \* the user's preference
  call,       \* where each request is
  clobbered   \* history: rows over which a stale copy was written, not out since

memoryVars == <<database, memory, opted_out, call, clobbered>>

MemoryStatus == {"none", "PENDING_CONSENT", "ACTIVE", "SUPERSEDED", "ARCHIVED", "DELETED"}
\* ended: valid_to has passed.
MemoryRow == [status: MemoryStatus, consented: BOOLEAN, ended: BOOLEAN,
              supersedes: Items \cup {"none"}]
NoMemory == [status |-> "none", consented |-> FALSE, ended |-> FALSE,
             supersedes |-> "none"]
Ops == {"none", "create", "ingest", "merge", "patch", "archive", "revoke",
        "confirm", "supersede", "delete", "build"}
\* reads, writes: the rows the request has read, and what it will write over them
IdleCall == [op |-> "none", at |-> "idle", reads |-> [i \in {} |-> NoMemory],
             writes |-> [i \in {} |-> NoMemory]]

MemoriesTypeOK ==
  /\ database \in Databases
  /\ memory \in [Items -> MemoryRow]
  /\ opted_out \in BOOLEAN
  /\ \A q \in Calls :
       /\ call[q].op \in Ops /\ call[q].at \in {"idle", "writing", "prior", "over"}
       /\ DOMAIN call[q].writes \subseteq Items
       /\ DOMAIN call[q].reads = DOMAIN call[q].writes
       /\ \A i \in DOMAIN call[q].writes : {call[q].reads[i], call[q].writes[i]} \subseteq MemoryRow
  /\ clobbered \subseteq Items

MemoriesInit ==
  /\ database \in Databases
  /\ memory = [i \in Items |-> NoMemory]
  /\ opted_out = FALSE
  /\ call = [q \in Calls |-> IdleCall]
  /\ clobbered = {}

-----------------------------------------------------------------------------
Pending(q) == call[q].at \in {"writing", "prior"}
Holds(q, i) == Pending(q) /\ i \in DOMAIN call[q].writes
\* A uuid: no row has it, and nobody is about to insert one.
NewId(i) == memory[i] = NoMemory /\ \A q \in Calls : ~Holds(q, i)

Holding(q, op, i, row) ==
  call' = [call EXCEPT ![q] = [op |-> op, at |-> "writing",
                               reads |-> [j \in {i} |-> memory[i]],
                               writes |-> [j \in {i} |-> row]]]
Finished == [IdleCall EXCEPT !.at = "over"]
CallOver(q) == call' = [call EXCEPT ![q] = Finished]

\* memories.get: a deleted row is not found.
_owned_memory_AnyRow(i) == memory[i].status # "none"
_owned_memory(i) == memory[i].status \notin {"none", "DELETED"}
\* memories.list without include_inactive.
Listed(i) == memory[i].status = "ACTIVE" /\ ~memory[i].ended

\* create_memory looks at the preference and then inserts an ACTIVE row: what
\* the user writes themselves is consented to.
BeginCreate(q, i) ==
  /\ call[q].at = "idle" /\ NewId(i)
  /\ ~opted_out
  /\ Holding(q, "create", i, [NoMemory EXCEPT !.status = "ACTIVE", !.consented = TRUE])
  /\ UNCHANGED <<database, memory, opted_out, clobbered>>

set_memory_preference(b) ==
  /\ opted_out' = b
  /\ UNCHANGED <<database, memory, call, clobbered>>

\* ingest_candidates: what a message says is merged into a live memory that
\* says the same, or inserted for the user to confirm, naming the memory it
\* contradicts, if any.
Duplicate(d, i) ==
  /\ memory[d].status \notin {"none", "SUPERSEDED", "ARCHIVED", "DELETED"}
  /\ Says[d] = Says[i]
memories_contradict(d, i) == /\ Says[d].subject = Says[i].subject
                             /\ Says[d].negated # Says[i].negated
BeginIngest(q, i) ==
  /\ call[q].at = "idle" /\ NewId(i)
  /\ ~opted_out
  /\ \/ \E d \in Items : Duplicate(d, i) /\ Holding(q, "merge", d, memory[d])
     \/ /\ ~\E d \in Items : Duplicate(d, i)
        /\ \E d \in Items \cup {"none"} :
             /\ IF d = "none"
                THEN ~\E e \in Items : _owned_memory(e) /\ memories_contradict(e, i)
                ELSE _owned_memory(d) /\ memories_contradict(d, i)
             /\ Holding(q, "ingest", i, [NoMemory EXCEPT !.status = "PENDING_CONSENT",
                                                         !.supersedes = d])
  /\ UNCHANGED <<database, memory, opted_out, clobbered>>

\* The endpoints that change one row, and revoke.
Confirmed_Unasked(row) == [row EXCEPT !.status = "ACTIVE"]
Confirmed(row) == [row EXCEPT !.status = "ACTIVE", !.consented = TRUE]
Changed_Expired(op, row) ==
  CASE op = "archive" -> [row EXCEPT !.status = "ARCHIVED"]
    [] op = "revoke" -> [row EXCEPT !.status = "EXPIRED", !.ended = TRUE]
    [] op = "confirm" -> Confirmed(row)
    [] OTHER -> row
Changed(op, row) ==
  CASE op = "archive" -> [row EXCEPT !.status = "ARCHIVED"]
    [] op = "revoke" -> [row EXCEPT !.status = "ARCHIVED", !.ended = TRUE]
    [] op = "confirm" -> Confirmed(row)
    [] OTHER -> row                          \* patch, pin, move
BeginEdit(q, i, op) ==
  /\ op \in {"patch", "archive", "revoke", "confirm"}
  /\ call[q].at = "idle" /\ _owned_memory(i)
  /\ Holding(q, op, i, Changed(op, memory[i]))
  /\ UNCHANGED <<database, memory, opted_out, clobbered>>

\* The second half of confirm: the memory that the confirmed one supersedes.
ReadPrior_Ended(q, i, prior) ==
  /\ call[q].at = "prior" /\ i \in DOMAIN call[q].writes
  /\ prior = call[q].writes[i].supersedes
  /\ IF _owned_memory(prior) /\ memory[prior].ended
     THEN Holding(q, "supersede", prior,
            [memory[prior] EXCEPT !.status = "SUPERSEDED"])
     ELSE CallOver(q)
  /\ UNCHANGED <<database, memory, opted_out, clobbered>>
ReadPrior(q, i, prior) ==
  /\ call[q].at = "prior" /\ i \in DOMAIN call[q].writes
  /\ prior = call[q].writes[i].supersedes
  /\ IF _owned_memory(prior)
     THEN Holding(q, "supersede", prior,
            [memory[prior] EXCEPT !.status = "SUPERSEDED", !.ended = TRUE])
     ELSE CallOver(q)
  /\ UNCHANGED <<database, memory, opted_out, clobbered>>

\* delete_memory; the update that it makes changes the status alone, and in
\* process it is a read and a write of the whole row.
BeginDelete(q, i) ==
  /\ call[q].at = "idle" /\ _owned_memory(i)
  /\ Holding(q, "delete", i, [memory[i] EXCEPT !.status = "DELETED"])
  /\ UNCHANGED <<database, memory, opted_out, clobbered>>

\* ContextBuilder.build for a new run, and record_usage, which in process
\* writes back the rows that build read.
BeginBuild(q) ==
  /\ call[q].at = "idle" /\ ~opted_out
  /\ LET rows == [i \in {j \in Items : Listed(j)} |-> memory[i]] IN
     call' = [call EXCEPT ![q] = [op |-> "build", at |-> "writing", reads |-> rows, writes |-> rows]]
  /\ UNCHANGED <<database, memory, opted_out, clobbered>>

\* What of a pending write reaches the row.
Written(q, i) ==
  LET w == call[q].writes[i] IN
  CASE database = "postgres" /\ call[q].op = "delete" ->
         IF _owned_memory(i) THEN [memory[i] EXCEPT !.status = "DELETED"] ELSE memory[i]
    [] database = "postgres" /\ call[q].op = "build" -> memory[i]
    [] OTHER -> w
\* update writes the whole row, whatever became of it since it was read.
IsStale(q, i) ==
  /\ memory[i] # call[q].reads[i]
  /\ ~(database = "postgres" /\ call[q].op \in {"delete", "build"})
\* What a memory that is out has: nothing lists it, and no endpoint takes this off it.
OutOf(row) == row.status = "DELETED" \/ row.ended
WriteMemory(q) ==
  /\ call[q].at = "writing"
  /\ memory' = [i \in Items |-> IF i \in DOMAIN call[q].writes THEN Written(q, i)
                                 ELSE memory[i]]
  /\ IF call[q].op = "confirm" /\ \E i \in DOMAIN call[q].writes :
                                     call[q].writes[i].supersedes # "none"
     THEN call' = [call EXCEPT ![q].at = "prior"]
     ELSE CallOver(q)
  /\ clobbered' = {i \in clobbered \cup {j \in DOMAIN call[q].writes : IsStale(q, j)} :
                     ~OutOf(memory'[i])}
  /\ UNCHANGED <<database, opted_out>>

MemoriesNext ==
  \/ \E b \in BOOLEAN : set_memory_preference(b)
  \/ \E q \in Calls :
       \/ BeginBuild(q) \/ WriteMemory(q)
       \/ \E i \in Items :
            \/ BeginCreate(q, i) \/ BeginIngest(q, i) \/ BeginDelete(q, i)
            \/ \E op \in {"patch", "archive", "revoke", "confirm"} : BeginEdit(q, i, op)
            \/ \E prior \in Items : ReadPrior(q, i, prior)

MemoriesSpec == MemoriesInit /\ [][MemoriesNext]_memoryVars

-----------------------------------------------------------------------------
\* A memory and the one that it supersedes are not both in the context of later
\* runs: once the confirmation is through (confirm writes one row, then the
\* other), the prior one stays out, whatever is asked of either afterwards, unless
\* a request writes back a copy of the prior one that it read before.
SupersededStaysOut ==
  \A i \in Items : memory[i].status = "ACTIVE" /\ memory[i].supersedes # "none" =>
    \/ ~Listed(memory[i].supersedes)
    \/ memory[i].supersedes \in clobbered
    \/ \E q \in Calls : /\ call[q].op = "confirm"
                       /\ Holds(q, i)
    \/ \E q \in Calls : /\ call[q].op = "supersede"
                       /\ Holds(q, memory[i].supersedes)

\* "It cannot become ACTIVE without an affirmative consent timestamp"
\* (docs/47_CONVERSATION_DATA_POLICY.md): neither the rows nor the copies that
\* requests are about to write over them.
ActiveIsConsented ==
  /\ \A i \in Items : memory[i].status = "ACTIVE" => memory[i].consented
  /\ \A q \in Calls : \A i \in DOMAIN call[q].writes :
       call[q].writes[i].status = "ACTIVE" => call[q].writes[i].consented

\* What the user has contradicted is not remembered beside its contradiction, and
\* nothing is remembered that the user did not agree to.
MemoriesInv ==
  /\ MemoriesTypeOK
  /\ SupersededStaysOut
  /\ ActiveIsConsented

\* The memory is out, and no request under way would bring it back.
Gone(i) ==
  /\ OutOf(memory[i])
  /\ \A q \in Calls : call[q].at = "writing" /\ Holds(q, i) => OutOf(Written(q, i))
\* Once a deleted, revoked or superseded memory is gone, nothing that is asked
\* later brings it back: no endpoint, merge, confirmation or use in a run, in any
\* order and however they overlap.
ForgottenForGood == [][\A i \in Items : Gone(i) => Gone(i)']_memoryVars

\* "deletion or revocation prevents future retrieval"
\* (docs/47_CONVERSATION_DATA_POLICY.md): a memory that is out is not listed by
\* any later step.
ForgottenStaysOut == [][\A i \in Items : OutOf(memory[i]) => ~Listed(i)']_memoryVars
=============================================================================
