----------------------------- MODULE Migrations -----------------------------
(***************************************************************************)
(* The SQL migration runner (persistence/migrate.py), run by every replica *)
(* of a rolling release before it serves: replicas of two releases, whose  *)
(* directories differ, may start together, and any of them may be killed   *)
(* between two transactions.                                               *)
(*                                                                         *)
(* A script is its version (its place in the sorted directory) and its     *)
(* checksum; a row of schema_migrations may be older than checksums.       *)
(***************************************************************************)
EXTENDS Integers

CONSTANTS
  Replicas,
  Directory,    \* of each replica: its versions and their checksums
  LegacyRows,   \* versions recorded before checksums were
  MaxKills      \* bound on crashes and repairs

ASSUME MigrationsAssumption ==
  /\ \A r \in Replicas : DOMAIN Directory[r] \subseteq Nat
  /\ \A r \in Replicas : \A v \in DOMAIN Directory[r] : Directory[r][v] # "null"
  /\ LegacyRows \subseteq Nat /\ MaxKills \in Nat /\ "none" \notin Replicas

VARIABLES
  schema_migrations,   \* version -> checksum ("null" for none) and dirty
  schema,              \* version -> what was committed of it: [sum, times]
  advisory,            \* who holds pg_advisory_lock, or "none"
  migrator,            \* what each replica is doing
  kills

migrationVars == <<schema_migrations, schema, advisory, migrator, kills>>

Asleep == [at |-> "idle", known |-> {}, unread |-> {}, version |-> 0]
MigrationsInit ==
  /\ schema_migrations = [v \in LegacyRows |-> [sum |-> "null", dirty |-> FALSE]]
  /\ schema = [v \in LegacyRows |-> [sum |-> "old", times |-> 1]]
  /\ advisory = "none" /\ migrator = [r \in Replicas |-> Asleep] /\ kills = 0

Puts(f, v, x) == [y \in DOMAIN f \cup {v} |-> IF y = v THEN x ELSE f[y]]
MigratorTo(r, to) == migrator' = [migrator EXCEPT ![r] = to]
\* The finally clause gives the lock back, whatever happened.
Unlock(r, at) == advisory' = "none" /\ MigratorTo(r, [Asleep EXCEPT !.at = at])

\* pg_advisory_lock waits until nobody else holds it.
AdvisoryLock(r) ==
  /\ migrator[r].at = "idle" /\ advisory = "none" /\ advisory' = r
  /\ MigratorTo(r, [Asleep EXCEPT !.at = "read"])
  /\ UNCHANGED <<schema_migrations, schema, kills>>

DirtyRows_Ignored == {}
DirtyRows == {v \in DOMAIN schema_migrations : schema_migrations[v].dirty}
ReadRows(r) ==
  /\ migrator[r].at = "read"
  /\ IF DirtyRows # {} THEN Unlock(r, "raised")
     ELSE /\ MigratorTo(r, [at |-> "verify", known |-> DOMAIN schema_migrations,
                            unread |-> DOMAIN schema_migrations, version |-> 0])
          /\ UNCHANGED advisory
  /\ UNCHANGED <<schema_migrations, schema, kills>>

\* One row, in the order the database gave them: a checksum that is not the file's
\* stops the replica, a missing one is filled in by a transaction of its own.
Mismatch_Never(r, v) == FALSE
Mismatch(r, v) ==
  v \in DOMAIN Directory[r] /\ schema_migrations[v].sum \notin {"null", Directory[r][v]}
VerifyRow(r, v) ==
  /\ migrator[r].at = "verify" /\ v \in migrator[r].unread
  /\ IF Mismatch(r, v) THEN Unlock(r, "raised") /\ UNCHANGED schema_migrations
     ELSE /\ MigratorTo(r, [migrator[r] EXCEPT !.unread = @ \ {v}]) /\ UNCHANGED advisory
          /\ schema_migrations' =
               IF v \in DOMAIN Directory[r] /\ schema_migrations[v].sum = "null"
               THEN [schema_migrations EXCEPT ![v].sum = Directory[r][v]] ELSE schema_migrations
  /\ UNCHANGED <<schema, kills>>

\* The next file that is not known: its row is committed dirty before it runs.
InsertDirty(r) ==
  /\ migrator[r].at = "verify" /\ migrator[r].unread = {}
  /\ LET todo == DOMAIN Directory[r] \ migrator[r].known IN
     IF todo = {} THEN Unlock(r, "served") /\ UNCHANGED schema_migrations
     ELSE LET v == CHOOSE x \in todo : \A y \in todo : x <= y IN
          /\ v \notin DOMAIN schema_migrations
          /\ schema_migrations' = Puts(schema_migrations, v, [sum |-> Directory[r][v], dirty |-> TRUE])
          /\ MigratorTo(r, [migrator[r] EXCEPT !.at = "run", !.version = v, !.known = @ \cup {v}])
          /\ UNCHANGED advisory
  /\ UNCHANGED <<schema, kills>>

Committed(v, sum) ==
  Puts(schema, v, [sum |-> sum, times |-> (IF v \in DOMAIN schema THEN schema[v].times ELSE 0) + 1])
\* The script and the end of its dirtiness are one transaction.
RunScript_TwoTransactions(r, ok) ==
  /\ migrator[r].at = "run" /\ ok
  /\ LET v == migrator[r].version IN
     IF migrator[r].unread = {}
     THEN /\ schema' = Committed(v, Directory[r][v])
          /\ MigratorTo(r, [migrator[r] EXCEPT !.unread = {v}]) /\ UNCHANGED schema_migrations
     ELSE /\ schema_migrations' = [schema_migrations EXCEPT ![v].dirty = FALSE]
          /\ MigratorTo(r, [migrator[r] EXCEPT !.at = "verify", !.unread = {}]) /\ UNCHANGED schema
  /\ UNCHANGED <<advisory, kills>>
RunScript(r, ok) ==
  /\ migrator[r].at = "run"
  /\ LET v == migrator[r].version IN
     IF ok
     THEN /\ schema' = Committed(v, Directory[r][v])
          /\ schema_migrations' = [schema_migrations EXCEPT ![v].dirty = FALSE]
          /\ MigratorTo(r, [migrator[r] EXCEPT !.at = "verify"]) /\ UNCHANGED advisory
     ELSE Unlock(r, "raised") /\ UNCHANGED <<schema, schema_migrations>>
  /\ UNCHANGED kills

\* The process is killed: its session ends and the lock with it.  It starts again,
\* as does one that raised.
Kill(r) ==
  /\ kills < MaxKills /\ kills' = kills + 1
  /\ MigratorTo(r, Asleep) /\ advisory' = IF advisory = r THEN "none" ELSE advisory
  /\ UNCHANGED <<schema_migrations, schema>>
\* "requires repair": the operator takes the dirty row away.
Repair ==
  /\ kills < MaxKills /\ kills' = kills + 1 /\ DirtyRows # {} /\ advisory = "none"
  /\ schema_migrations' = [v \in DOMAIN schema_migrations \ DirtyRows |-> schema_migrations[v]]
  /\ UNCHANGED <<schema, advisory, migrator>>

MigrationsNext ==
  \/ Repair
  \/ \E r \in Replicas :
       \/ AdvisoryLock(r) \/ ReadRows(r) \/ InsertDirty(r) \/ Kill(r)
       \/ \E v \in migrator[r].unread : VerifyRow(r, v)
       \/ \E ok \in BOOLEAN : RunScript(r, ok)

MigrationsSpec == MigrationsInit /\ [][MigrationsNext]_migrationVars

-----------------------------------------------------------------------------
\* No kill and no repair makes a script take effect twice.
ScriptsRunOnce == \A v \in DOMAIN schema : schema[v].times = 1

\* A replica serves only on a schema that has every script of its release, and each
\* of them in the release's wording (rows older than checksums aside).
ServesOnItsSchema ==
  \A r \in Replicas : migrator[r].at = "served" =>
    \A v \in DOMAIN Directory[r] :
      /\ v \in DOMAIN schema
      /\ v \notin LegacyRows => schema[v].sum = Directory[r][v]

\* A script is never run before one of its release that sorts before it.
ScriptsInOrder ==
  \A r \in Replicas : migrator[r].at = "run" =>
    \A v \in DOMAIN Directory[r] : v < migrator[r].version => v \in DOMAIN schema

\* Whichever releases start at once and wherever they die, each script runs
\* once and in order, and nobody serves a schema that is not its own.
MigrationsInv ==
  /\ ScriptsRunOnce
  /\ ServesOnItsSchema
  /\ ScriptsInOrder
=============================================================================
