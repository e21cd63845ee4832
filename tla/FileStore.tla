------------------------------ MODULE FileStore ------------------------------
(***************************************************************************)
(* The local-disk backend (persistence/file_store.py and                   *)
(* conversations/file_store.py): stores kept in memory, each written out   *)
(* whole to its JSON file after every change, and read back at the start.  *)
(* A write fills one temporary file and renames it over the old one.       *)
(*                                                                         *)
(* Writers carry out the two long operations of a conversation, submitting *)
(* a message and finishing a run, and single requests; they run in threads,*)
(* as FastAPI runs its synchronous handlers, and take no lock while they   *)
(* save.  The process may be killed at any point.  met and lone remember   *)
(* who was at work on the same file as another.                            *)
(***************************************************************************)
EXTENDS Integers, Sequences, FiniteSets

CONSTANTS
  Writers,    \* each with the operation it carries out
  Does,       \* writer -> a name of Script
  MaxKilled   \* bound on the kills

VARIABLES
  memory_,     \* file -> the rows in memory
  disk,        \* file -> the rows of its JSON, or HalfWritten
  tmp,         \* file -> those of its .tmp, HalfWritten while it is filled, NoTmp
  deferring,   \* state["defer"]: units of work under way
  writer,
  saved,       \* rows whose write was acknowledged
  killed,
  met,         \* history: files on which two writers have been at work at once
  lone         \* history: writers that have had their file to themselves so far

fileVars == <<memory_, disk, tmp, deferring, writer, saved, killed, met, lone>>

JsonFiles == {"conversations", "missions", "v3_missions", "v3_artifacts"}
\* The writes of each operation, in the order the code makes them.
Script_RunFirst == [
  submit |-> <<[file |-> "missions", rows |-> <<"seed">>],
               [file |-> "conversations", rows |-> <<"run", "message">>]>>,
  finish |-> <<[file |-> "v3_artifacts", rows |-> <<"evidence">>],
               [file |-> "v3_missions", rows |-> <<"finished">>],
               [file |-> "conversations", rows |-> <<"completed">>],
               [file |-> "missions", rows |-> <<"outcome">>],
               [file |-> "conversations", rows |-> <<"reply">>]>>,
  rename |-> <<[file |-> "conversations", rows |-> <<"title">>]>>]
Script == [
  submit |-> <<[file |-> "missions", rows |-> <<"seed">>],
               [file |-> "conversations", rows |-> <<"run", "message">>]>>,
  finish |-> <<[file |-> "v3_artifacts", rows |-> <<"evidence">>],
               [file |-> "v3_missions", rows |-> <<"finished">>],
               [file |-> "missions", rows |-> <<"outcome">>],
               [file |-> "conversations", rows |-> <<"reply">>],
               [file |-> "conversations", rows |-> <<"completed">>]>>,
  rename |-> <<[file |-> "conversations", rows |-> <<"title">>]>>]

ASSUME FileStoreAssumption ==
  Does \in [Writers -> DOMAIN Script] /\ MaxKilled \in Nat

\* What a file holds that no JSON can be read from, and what stands for no file.
HalfWritten == {<<"nobody", "torn">>}
NoTmp == {<<"nobody", "none">>}

FileStoreInit ==
  /\ memory_ = [f \in JsonFiles |-> {}] /\ disk = [f \in JsonFiles |-> {}] /\ tmp = [f \in JsonFiles |-> NoTmp]
  /\ deferring = 0 /\ saved = [f \in JsonFiles |-> {}] /\ killed = 0 /\ met = {} /\ lone = {}
  /\ writer = [w \in Writers |-> [at |-> "ready", step |-> 1, row |-> 1, before |-> {}, snap |-> {}]]

Doing(w) == Script[Does[w]][writer[w].step]
Row(w, i) == <<w, Doing(w).rows[i]>>
WriterTo(w, to) == writer' = [writer EXCEPT ![w] = to]
\* A step of several rows is a unit of work.
IsUnit(w) == Len(Doing(w).rows) > 1

\* Whom a writer finds at work on its file when it begins a step.
AtWork(w, f) == writer[w].at \notin {"ready", "over"} /\ Doing(w).file = f
Begins(w) ==
  LET others == {v \in Writers \ {w} : AtWork(v, Doing(w).file)} IN
  /\ writer[w].at = "ready"
  /\ met' = IF others = {} THEN met ELSE met \cup {Doing(w).file}
  /\ lone' = IF others = {} THEN lone \cup {w} ELSE lone \ (others \cup {w})

\* The next step of the operation, when this one is acknowledged.
Acknowledge(w) ==
  /\ saved' = [saved EXCEPT ![Doing(w).file] = @ \cup {Row(w, i) : i \in DOMAIN Doing(w).rows}]
  /\ WriterTo(w, [at |-> IF writer[w].step = Len(Script[Does[w]]) THEN "over" ELSE "ready",
                  step |-> IF writer[w].step = Len(Script[Does[w]]) THEN writer[w].step
                           ELSE writer[w].step + 1,
                  row |-> 1, before |-> {}, snap |-> {}])

-----------------------------------------------------------------------------
\* A mutating method through its proxy, or a method of a file store.
Mutate(w) ==
  /\ Begins(w) /\ ~IsUnit(w)
  /\ memory_' = [memory_ EXCEPT ![Doing(w).file] = @ \cup {Row(w, 1)}]
  /\ WriterTo(w, [writer[w] EXCEPT !.at = "changed"])
  /\ UNCHANGED <<disk, tmp, deferring, saved, killed>>
\* Inside somebody's unit of work the proxy leaves the saving to that unit.
Deferred(w) == Doing(w).file = "conversations" /\ deferring > 0
SaveOrDefer(w) ==
  /\ writer[w].at = "changed"
  /\ IF Deferred(w) THEN Acknowledge(w)
     ELSE WriterTo(w, [writer[w] EXCEPT !.at = "save"]) /\ UNCHANGED saved
  /\ UNCHANGED <<memory_, disk, tmp, deferring, killed, met, lone>>

\* unit_of_work: the rows go straight to memory; an exception puts back the
\* repositories as they were at its start.
BeginUnit(w) ==
  /\ Begins(w) /\ IsUnit(w) /\ deferring' = deferring + 1
  /\ WriterTo(w, [writer[w] EXCEPT !.at = "unit", !.before = memory_["conversations"]])
  /\ UNCHANGED <<memory_, disk, tmp, saved, killed>>
UnitWrite_Saved(w) ==
  /\ writer[w].at = "unit"
  /\ LET last == writer[w].row = Len(Doing(w).rows) IN
     /\ memory_' = [memory_ EXCEPT !["conversations"] = @ \cup {Row(w, writer[w].row)}]
     /\ disk' = [disk EXCEPT !["conversations"] = memory_'["conversations"]]
     /\ WriterTo(w, [writer[w] EXCEPT !.at = IF last THEN "save" ELSE @, !.row = IF last THEN @ ELSE @ + 1])
  /\ UNCHANGED <<tmp, deferring, saved, killed, met, lone>>
UnitWrite(w) ==
  /\ writer[w].at = "unit"
  /\ LET last == writer[w].row = Len(Doing(w).rows) IN
     /\ memory_' = [memory_ EXCEPT !["conversations"] = @ \cup {Row(w, writer[w].row)}]
     /\ WriterTo(w, [writer[w] EXCEPT !.at = IF last THEN "save" ELSE @, !.row = IF last THEN @ ELSE @ + 1])
  /\ UNCHANGED <<disk, tmp, deferring, saved, killed, met, lone>>
UnitRaises(w) ==
  /\ writer[w].at = "unit" /\ deferring' = deferring - 1
  /\ memory_' = [memory_ EXCEPT !["conversations"] = writer[w].before]
  /\ WriterTo(w, [writer[w] EXCEPT !.at = "over"])
  /\ UNCHANGED <<disk, tmp, saved, killed, met, lone>>

-----------------------------------------------------------------------------
(* _atomic_write                                                           *)

Snapshot_AtStart(w) ==
  /\ writer[w].at = "save"
  /\ WriterTo(w, [writer[w] EXCEPT !.at = "open",
                  !.snap = IF IsUnit(w) THEN writer[w].before ELSE memory_[Doing(w).file]])
  /\ UNCHANGED <<memory_, disk, tmp, deferring, saved, killed, met, lone>>
Snapshot(w) ==
  /\ writer[w].at = "save"
  /\ WriterTo(w, [writer[w] EXCEPT !.at = "open", !.snap = memory_[Doing(w).file]])
  /\ UNCHANGED <<memory_, disk, tmp, deferring, saved, killed, met, lone>>
OpenTmp_InPlace(w) ==
  /\ writer[w].at = "open" /\ WriterTo(w, [writer[w] EXCEPT !.at = "fill"])
  /\ disk' = [disk EXCEPT ![Doing(w).file] = HalfWritten] /\ tmp' = [tmp EXCEPT ![Doing(w).file] = HalfWritten]
  /\ UNCHANGED <<memory_, deferring, saved, killed, met, lone>>
OpenTmp(w) ==
  /\ writer[w].at = "open" /\ WriterTo(w, [writer[w] EXCEPT !.at = "fill"])
  /\ tmp' = [tmp EXCEPT ![Doing(w).file] = HalfWritten]
  /\ UNCHANGED <<memory_, disk, deferring, saved, killed, met, lone>>
\* With another writer in the same file what comes out may be no JSON, and a file
\* that was renamed meanwhile is written where it now is.
FillTmp(w) ==
  LET f == Doing(w).file
      shared == tmp[f] # HalfWritten \/ \E v \in Writers \ {w} : AtWork(v, f) /\ writer[v].at = "fill" IN
  /\ writer[w].at = "fill" /\ WriterTo(w, [writer[w] EXCEPT !.at = "rename"])
  /\ \E text \in {writer[w].snap} \cup (IF shared THEN {HalfWritten} ELSE {}) :
       \/ tmp[f] # NoTmp /\ tmp' = [tmp EXCEPT ![f] = text] /\ UNCHANGED disk
       \/ shared /\ disk' = [disk EXCEPT ![f] = text] /\ UNCHANGED tmp
  /\ UNCHANGED <<memory_, deferring, saved, killed, met, lone>>
\* replace raises when somebody else has already renamed the file.
RenameTmp(w) ==
  /\ writer[w].at = "rename"
  /\ deferring' = IF IsUnit(w) THEN deferring - 1 ELSE deferring
  /\ LET f == Doing(w).file IN
     IF tmp[f] = NoTmp
     THEN WriterTo(w, [writer[w] EXCEPT !.at = "over"]) /\ UNCHANGED <<disk, tmp, saved>>
     ELSE /\ disk' = [disk EXCEPT ![f] = tmp[f]] /\ tmp' = [tmp EXCEPT ![f] = NoTmp]
          /\ Acknowledge(w)
  /\ UNCHANGED <<memory_, killed, met, lone>>

\* The process is killed and started again: _read_json takes a file it cannot
\* parse for an empty one.
_read_json(f) == IF disk[f] = HalfWritten THEN {} ELSE disk[f]
KillAndRestore ==
  /\ killed < MaxKilled /\ killed' = killed + 1
  /\ memory_' = [f \in JsonFiles |-> _read_json(f)] /\ deferring' = 0
  /\ writer' = [w \in Writers |-> IF writer[w].at = "ready" /\ writer[w].step = 1 THEN writer[w]
                                  ELSE [writer[w] EXCEPT !.at = "over"]]
  /\ UNCHANGED <<disk, tmp, saved, met, lone>>

FileStoreNext ==
  \/ KillAndRestore
  \/ \E w \in Writers :
       \/ Mutate(w) \/ SaveOrDefer(w) \/ BeginUnit(w) \/ UnitWrite(w) \/ UnitRaises(w)
       \/ Snapshot(w) \/ OpenTmp(w) \/ FillTmp(w) \/ RenameTmp(w)

FileStoreSpec == FileStoreInit /\ [][FileStoreNext]_fileVars

-----------------------------------------------------------------------------
\* "Keep threads and answers across reloads" (persistence/file_store.py): what was
\* acknowledged is in memory and stays there, whenever the process is killed.
AcknowledgedSurvives == \A f \in JsonFiles : saved[f] \subseteq memory_[f]

\* So it is for a file on which no two writers were ever at work at once: what was
\* acknowledged is in memory and on disk.
SavedAlone == \A f \in JsonFiles \ met : saved[f] \subseteq memory_[f] \cap disk[f]

\* A reload never finds half of a submission.
UnitIsWhole ==
  \A w \in Writers : <<w, "run">> \in disk["conversations"] <=> <<w, "message">> \in disk["conversations"]

\* The four files are written one after the other, and a reload may come between
\* any two: a run that is completed on disk has its reply, its mission's outcome
\* and the evidence on disk, and a submitted run its mission.
FilesAgree ==
  \A w \in Writers :
    /\ <<w, "completed">> \in disk["conversations"] =>
         /\ <<w, "reply">> \in disk["conversations"] /\ <<w, "outcome">> \in disk["missions"]
         /\ <<w, "finished">> \in disk["v3_missions"] /\ <<w, "evidence">> \in disk["v3_artifacts"]
    /\ <<w, "run">> \in disk["conversations"] => <<w, "seed">> \in disk["missions"]

\* What was acknowledged is there after a restart, units of work are there
\* whole or not at all, and the files of the stores fit each other, each as long
\* as no two writers have met on the files it is about.
FileStoreInv ==
  /\ SavedAlone
  /\ "conversations" \notin met => UnitIsWhole
  /\ met = {} => FilesAgree

\* Saves that overlapped may leave rows off the disk, or a file that is no JSON; the
\* next save that has the file to itself writes all that is in memory.
LoneSaveHeals ==
  [][\A w \in lone : writer[w].at = "rename" /\ killed' = killed /\ writer'[w] # writer[w] =>
       disk'[Doing(w).file] = memory_'[Doing(w).file]]_fileVars
=============================================================================
