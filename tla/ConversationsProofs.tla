------------------------- MODULE ConversationsProofs -------------------------
(***************************************************************************)
(* Theorems about what a user keeps between runs: attachments (Library)    *)
(* and memories (Memories), the files of the local backend that keep them  *)
(* (FileStore), the pages that list them (Pages), and what of them a run   *)
(* is given (Context). The repositories read a row and write a changed     *)
(* copy of it back, with nothing to keep two requests apart: the           *)
(* invariants relate a copy to the row it was made from, and say what is   *)
(* still true of a row when an older copy has been written over it.        *)
(***************************************************************************)
EXTENDS Context, Library, Memories, FileStore, Pages, InductionLemmas, FiniteSetTheorems, TLAPS

-----------------------------------------------------------------------------
\* Library.  The copy of a row that an upload or a completion carries was made
\* while the row was PENDING and free, so writing it back over anything else shows.
\* A verdict that no other request got in the way of is backed by the blob, or by a
\* deletion that has removed the blob and has yet to write the row.
Live(r) == r.at \notin {"idle", "over"}
Carries(r) ==
  /\ r.op \in FileOps => \E f \in Files : r.files = {f}
  /\ r.at \in {"storing", "stat", "fetching", "removing"} => r.op \in FileOps
  /\ r.at = "removing" => r.op \in {"complete", "drop"}
  /\ Live(r) /\ r.op \in {"upload", "complete"} =>
       /\ r.read.status = "PENDING" /\ r.read.message = "none" /\ r.row.message = "none"
       /\ r.at = "writing" => r.row.status \in {"READY", "FAILED"}
       /\ r.at = "removing" => r.row.status = "FAILED"
       /\ r.row.status = "READY" => r.row.scan = "CLEAN"
Checked(r, f) == /\ r.at = "writing" /\ r.op \in {"upload", "complete"} /\ f \in r.files
                 /\ r.row.status = "READY"
Dropping(r, f) == r.at = "writing" /\ r.op = "drop" /\ f \in r.files
Backed(f) == blob[f] = "good" \/ \E q \in Requests : Dropping(serving[q], f)

RowIsThere ==
  \A q \in Requests, f \in Files :
    serving[q].op \in {"upload", "complete"} /\ f \in serving[q].files => file[f].status # "none"
SharedIsKnown ==
  \A q, r \in Requests, f \in Files : q # r /\ Storing(q, f) /\ Storing(r, f) => f \in clashed
FreshIsFree == \A f \in Files : file[f].status \in {"none", "PENDING"} => file[f].message = "none"
AcceptedIsOver == \A q \in accepted : serving[q].at = "over"
CheckedIsFit ==
  \A q \in Requests, f \in Files :
    Checked(serving[q], f) /\ f \notin clashed /\ file[f].status = "PENDING" =>
      serving[q].row.checksum = "good" /\ Backed(f)
ReadyIsFit ==
  \A f \in Files : file[f].status = "READY" =>
    /\ file[f].scan = "CLEAN"
    /\ f \notin clashed => file[f].checksum = "good" /\ Backed(f)

LibraryIInv ==
  /\ LibraryTypeOK
  /\ \A q \in Requests : Carries(serving[q])
  /\ RowIsThere
  /\ SharedIsKnown
  /\ FreshIsFree
  /\ AcceptedIsOver
  /\ AttachedOnce
  /\ CheckedIsFit
  /\ ReadyIsFit

\* One request moves, the others stay where they are.
LEMMA RequestMoves ==
  ASSUME LibraryTypeOK, NEW q \in Requests, NEW to \in Request,
         serving' = [serving EXCEPT ![q] = to]
  PROVE  /\ serving' \in [Requests -> Request] /\ serving'[q] = to
         /\ \A r \in Requests : r # q => serving'[r] = serving[r]
BY DEF LibraryTypeOK

\* A blob that stays goes on backing a verdict, as long as no deletion ends.
LEMMA StillBacked ==
  ASSUME NEW f \in Files, Backed(f), blob[f] = "good" => blob'[f] = "good",
         \A r \in Requests : Dropping(serving[r], f) => Dropping(serving'[r], f)
  PROVE  Backed(f)'
<1>1. CASE blob[f] = "good"
  BY <1>1 DEF Backed
<1>2. CASE \E r \in Requests : Dropping(serving[r], f)
  <2>1. PICK r \in Requests : Dropping(serving'[r], f)
    BY <1>2
  <2>2. (\E s \in Requests : Dropping(serving[s], f))'
    BY <2>1 DEF Dropping
  <2> QED BY <2>2 DEF Backed
<1> QED BY <1>1, <1>2 DEF Backed
LEMMA NowBacked ==
  ASSUME NEW f \in Files, blob'[f] = "good" \/ \E r \in Requests : Dropping(serving'[r], f)
  PROVE  Backed(f)'
<1>1. CASE \E r \in Requests : Dropping(serving'[r], f)
  <2>1. (\E s \in Requests : Dropping(serving[s], f))'
    BY <1>1 DEF Dropping
  <2> QED BY <2>1 DEF Backed
<1> QED BY <1>1 DEF Backed

\* What is left to show of a step of one request that leaves the rows alone: a blob
\* somebody relies on is dropped, or the change is remembered; and a new verdict is
\* backed.
LEMMA QuietMove ==
  ASSUME LibraryIInv, NEW q \in Requests, NEW to \in Request,
         serving' = [serving EXCEPT ![q] = to], UNCHANGED <<store, file, accepted>>,
         thread' \in ThreadStatus, blob' \in [Files -> Content \cup {"none"}],
         url' \in SUBSET Files, clashed' \in SUBSET Files, clashed \subseteq clashed',
         serving[q].at # "over", Carries(to),
         \A f \in Files : to.op \in {"upload", "complete"} /\ f \in to.files => file[f].status # "none",
         \A f \in Files \ clashed' :
           /\ Dropping(serving[q], f) => Dropping(to, f)
           /\ Storing(q, f)' => \A r \in Requests \ {q} : ~Storing(r, f)
           /\ file[f].status = "READY" \/ CheckedBy(Requests \ {q}, f) =>
                blob'[f] = blob[f] \/ Dropping(to, f)
           /\ Checked(to, f) /\ file[f].status = "PENDING" =>
                to.row.checksum = "good" /\ blob'[f] = "good"
  PROVE  LibraryIInv'
<1>1. /\ LibraryTypeOK /\ RowIsThere /\ SharedIsKnown /\ FreshIsFree /\ AcceptedIsOver
      /\ AttachedOnce /\ CheckedIsFit /\ ReadyIsFit /\ \A r \in Requests : Carries(serving[r])
  BY DEF LibraryIInv
<1>2. /\ serving' \in [Requests -> Request] /\ serving'[q] = to
      /\ \A r \in Requests : r # q => serving'[r] = serving[r]
  BY <1>1, RequestMoves
<1>3. LibraryTypeOK'
  BY <1>1, <1>2 DEF LibraryTypeOK
<1>4. (\A r \in Requests : Carries(serving[r]))'
  <2>1. \A r \in Requests : Carries(serving'[r])
    BY <1>1, <1>2
  <2> QED BY <2>1 DEF Carries, Live
<1>5. RowIsThere' /\ SharedIsKnown'
  <2>0. RowIsThere'
    BY <1>1, <1>2 DEF RowIsThere
  <2> SUFFICES ASSUME NEW r \in Requests, NEW s \in Requests, NEW f \in Files,
                      r # s, Storing(r, f)', Storing(s, f)'
               PROVE  f \in clashed'
    BY <2>0 DEF SharedIsKnown
  <2>1. \A p \in Requests \ {q} : Storing(p, f)' <=> Storing(p, f)
    BY <1>2 DEF Storing
  <2> QED BY <1>1, <2>1 DEF SharedIsKnown
<1>6. FreshIsFree' /\ AcceptedIsOver' /\ AttachedOnce'
  <2>1. \A r \in accepted : r # q /\ r \in Requests
    BY <1>1 DEF AcceptedIsOver, LibraryTypeOK
  <2> QED BY <1>1, <1>2, <2>1 DEF FreshIsFree, AcceptedIsOver, AttachedOnce
\* What was backed and relied on still is.
<1>7. ASSUME NEW f \in Files \ clashed', Backed(f),
             file[f].status = "READY" \/ CheckedBy(Requests \ {q}, f)
      PROVE  Backed(f)'
  <2>1. CASE Dropping(to, f)
    BY <1>2, <2>1, NowBacked
  <2>2. CASE blob'[f] = blob[f]
    <3>1. \A r \in Requests : Dropping(serving[r], f) => Dropping(serving'[r], f)
      BY <1>2
    <3> QED BY <1>7, <2>2, <3>1, StillBacked
  <2> QED BY <1>7, <2>1, <2>2
<1>8. CheckedIsFit'
  <2> SUFFICES ASSUME NEW r \in Requests, NEW f \in Files, Checked(serving'[r], f),
                      f \notin clashed', file'[f].status = "PENDING"
               PROVE  serving'[r].row.checksum = "good" /\ Backed(f)'
    BY DEF CheckedIsFit, Checked
  <2>1. CASE r = q
    BY <1>2, <2>1, NowBacked
  <2>2. CASE r # q
    <3>1. /\ Checked(serving[r], f) /\ serving'[r] = serving[r] /\ f \notin clashed
          /\ file[f].status = "PENDING"
      BY <1>2, <2>2
    <3>2. CheckedBy(Requests \ {q}, f)
      BY <2>2, <3>1 DEF CheckedBy, Checked
    <3>3. serving[r].row.checksum = "good" /\ Backed(f)
      BY <1>1, <3>1 DEF CheckedIsFit
    <3> QED BY <1>7, <3>1, <3>2, <3>3
  <2> QED BY <2>1, <2>2
<1>9. ReadyIsFit'
  <2> SUFFICES ASSUME NEW f \in Files, file'[f].status = "READY"
               PROVE  /\ file'[f].scan = "CLEAN"
                      /\ f \notin clashed' => file'[f].checksum = "good" /\ Backed(f)'
    BY DEF ReadyIsFit
  <2>1. /\ file[f].status = "READY" /\ file'[f] = file[f] /\ file[f].scan = "CLEAN"
        /\ f \notin clashed => file[f].checksum = "good" /\ Backed(f)
    BY <1>1 DEF ReadyIsFit
  <2> QED BY <1>7, <2>1
<1> QED BY <1>3, <1>4, <1>5, <1>6, <1>8, <1>9 DEF LibraryIInv

LEMMA NoFileIsARow == NoFile \in FileRow
BY DEF NoFile, FileRow

\* A request that begins has no verdict yet.
LEMMA BeginMove ==
  ASSUME LibraryIInv, NEW q \in Requests, NEW op \in FileOps \cup ThreadOps \cup {"submit"},
         NEW at \in {"storing", "stat", "removing", "writing"}, NEW files \in SUBSET Files,
         NEW row \in FileRow, Begin(q, op, at, files, row),
         UNCHANGED <<store, thread, file, blob, url, accepted>>,
         clashed' \in SUBSET Files, clashed \subseteq clashed',
         at # "writing" => op \in FileOps, at = "removing" => op = "drop", at = "writing" => op \notin FileOps,
         op \in FileOps => \E f \in Files : files = {f},
         op \in {"upload", "complete"} =>
           row.status = "PENDING" /\ row.message = "none" /\ at \in {"storing", "stat"},
         op \in {"upload", "complete"} => \A f \in files : file[f].status # "none",
         at = "storing" => \A f \in files : f \in clashed' \/ \A r \in Requests : ~Storing(r, f)
  PROVE  LibraryIInv'
<1> DEFINE to == [op |-> op, at |-> at, files |-> files, read |-> row, row |-> row,
                  status |-> thread]
<1>1. serving[q].at = "idle" /\ serving' = [serving EXCEPT ![q] = to]
  BY DEF Begin
<1>2. LibraryTypeOK
  BY DEF LibraryIInv
<1>3. /\ to \in Request /\ to.op = op /\ to.at = at /\ to.files = files /\ to.row = row
      /\ to.read = row
  BY <1>2 DEF Request, LibraryTypeOK
<1> HIDE DEF to
<1>4. serving'[q] = to
  BY <1>1, <1>2, <1>3, RequestMoves
<1>5. Carries(to)
  BY <1>3 DEF Carries, Live
<1>6. ASSUME NEW f \in Files \ clashed'
      PROVE  /\ Dropping(serving[q], f) => Dropping(to, f)
             /\ Storing(q, f)' => \A r \in Requests \ {q} : ~Storing(r, f)
             /\ ~Checked(to, f)
  <2>1. ~Dropping(serving[q], f)
    BY <1>1 DEF Dropping
  <2>2. Storing(q, f)' => at = "storing" /\ f \in files
    BY <1>3, <1>4 DEF Storing
  <2>3. ~Checked(to, f)
    BY <1>3 DEF Checked, FileOps
  <2> QED BY <2>1, <2>2, <2>3
<1>7. /\ thread' \in ThreadStatus /\ blob' \in [Files -> Content \cup {"none"}]
      /\ url' \in SUBSET Files
  BY <1>2 DEF LibraryTypeOK
<1>8. \A f \in Files : to.op \in {"upload", "complete"} /\ f \in to.files => file[f].status # "none"
  BY <1>3
<1> QED BY <1>1, <1>3, <1>5, <1>6, <1>7, <1>8, QuietMove

LEMMA BeginStep ==
  ASSUME LibraryIInv, NEW q \in Requests,
         \/ \E op \in ThreadOps : BeginThreadOp(q, op)
         \/ \E f \in Files : BeginUpload(q, f) \/ BeginComplete(q, f) \/ BeginDrop(q, f)
         \/ \E files \in SUBSET Files : BeginSubmit(q, files)
  PROVE  LibraryIInv'
<1>1. LibraryTypeOK /\ FreshIsFree /\ clashed \in SUBSET Files
  BY DEF LibraryIInv, LibraryTypeOK
<1>2. /\ {"upload", "complete", "drop"} \subseteq FileOps
      /\ \A op \in ThreadOps \cup {"submit"} : op \notin FileOps
  BY DEF FileOps, ThreadOps
<1>3. ASSUME NEW op \in ThreadOps, BeginThreadOp(q, op) PROVE LibraryIInv'
  <2>1. /\ Begin(q, op, "writing", {}, NoFile)
        /\ UNCHANGED <<store, thread, file, blob, url, accepted, clashed>>
        /\ op \notin FileOps /\ op \notin {"upload", "complete"}
    BY <1>2, <1>3 DEF BeginThreadOp, ThreadOps
  <2> QED BY <1>1, <2>1, NoFileIsARow, BeginMove
<1>4. ASSUME NEW files \in SUBSET Files, BeginSubmit(q, files) PROVE LibraryIInv'
  <2>1. /\ Begin(q, "submit", "writing", files, NoFile)
        /\ UNCHANGED <<store, thread, file, blob, url, accepted, clashed>>
    BY <1>4 DEF BeginSubmit
  <2> QED BY <1>1, <1>2, <2>1, NoFileIsARow, BeginMove
<1>5. ASSUME NEW f \in Files
      PROVE  file[f] \in FileRow /\ {f} \in SUBSET Files /\ \E g \in Files : {f} = {g}
  BY <1>1 DEF LibraryTypeOK
<1>6. ASSUME NEW f \in Files, BeginUpload(q, f) PROVE LibraryIInv'
  <2>1. /\ Begin(q, "upload", "storing", {f}, file[f]) /\ file[f].status = "PENDING"
        /\ clashed' = IF \E r \in Requests : Storing(r, f) THEN clashed \cup {f} ELSE clashed
        /\ UNCHANGED <<store, thread, file, blob, url, accepted>>
    BY <1>6 DEF BeginUpload
  <2>2. file[f].message = "none"
    BY <1>1, <2>1 DEF FreshIsFree
  <2>3. /\ clashed' \in SUBSET Files /\ clashed \subseteq clashed'
        /\ \A g \in {f} : g \in clashed' \/ \A r \in Requests : ~Storing(r, g)
    BY <1>1, <2>1
  <2> QED BY <1>2, <1>5, <2>1, <2>2, <2>3, BeginMove
<1>7. ASSUME NEW f \in Files, BeginComplete(q, f) PROVE LibraryIInv'
  <2>1. /\ Begin(q, "complete", "stat", {f}, file[f]) /\ file[f].status = "PENDING"
        /\ UNCHANGED <<store, thread, file, blob, url, accepted, clashed>>
    BY <1>7 DEF BeginComplete
  <2>2. file[f].message = "none"
    BY <1>1, <2>1 DEF FreshIsFree
  <2> QED BY <1>1, <1>2, <1>5, <2>1, <2>2, BeginMove
<1>8. ASSUME NEW f \in Files, BeginDrop(q, f) PROVE LibraryIInv'
  <2>1. /\ Begin(q, "drop", "removing", {f}, file[f])
        /\ UNCHANGED <<store, thread, file, blob, url, accepted, clashed>>
    BY <1>8 DEF BeginDrop
  <2> QED BY <1>1, <1>2, <1>5, <2>1, BeginMove
<1> QED BY <1>3, <1>4, <1>6, <1>7, <1>8

\* A request that ends without writing an attachment.
LEMMA EndMove ==
  ASSUME LibraryIInv, NEW q \in Requests, Live(serving[q]), Over(q),
         serving[q].op = "drop" => serving[q].at # "writing",
         UNCHANGED <<store, file, blob, url, accepted, clashed>>, thread' \in ThreadStatus
  PROVE  LibraryIInv'
<1> DEFINE to == [serving[q] EXCEPT !.at = "over"]
<1>1. /\ LibraryTypeOK /\ serving[q] \in Request /\ Carries(serving[q]) /\ serving[q].at # "over"
  BY DEF LibraryIInv, LibraryTypeOK, Live
<1>2. serving' = [serving EXCEPT ![q] = to]
  BY <1>1 DEF LibraryTypeOK, Over, GoTo
<1>3. /\ to \in Request /\ to.at = "over" /\ to.op = serving[q].op /\ to.files = serving[q].files
  BY <1>1 DEF Request
<1> HIDE DEF to
<1>4. serving'[q] = to
  BY <1>1, <1>2, <1>3, RequestMoves
<1>5. Carries(to)
  BY <1>1, <1>3 DEF Carries, Live
<1>6. \A f \in Files : ~Dropping(serving[q], f) /\ ~Storing(q, f)' /\ ~Checked(to, f)
  BY <1>3, <1>4 DEF Dropping, Storing, Checked
<1>7. /\ blob' \in [Files -> Content \cup {"none"}] /\ url' \in SUBSET Files
      /\ clashed' \in SUBSET Files /\ clashed \subseteq clashed' /\ \A f \in Files : blob'[f] = blob[f]
  BY <1>1 DEF LibraryTypeOK
<1>8. \A f \in Files : to.op \in {"upload", "complete"} /\ f \in to.files => file[f].status # "none"
  BY <1>3 DEF LibraryIInv, RowIsThere
<1> QED BY <1>1, <1>2, <1>3, <1>5, <1>6, <1>7, <1>8, QuietMove

LEMMA WriteThreadStep ==
  ASSUME LibraryIInv, NEW q \in Requests, WriteThread(q)
  PROVE  LibraryIInv'
<1>1. /\ serving[q].op \in ThreadOps /\ Live(serving[q]) /\ Over(q)
      /\ UNCHANGED <<store, file, blob, url, accepted, clashed>>
      /\ thread' = StatusAfter(serving[q].op, serving[q].status)
  BY DEF WriteThread, InFlight, Live
<1>2. LibraryTypeOK /\ serving[q] \in Request
  BY DEF LibraryIInv, LibraryTypeOK
<1>3. thread' \in ThreadStatus /\ serving[q].op # "drop"
  BY <1>1, <1>2 DEF StatusAfter, ThreadStatus, ThreadOps, Request
<1> QED BY <1>1, <1>3, EndMove

\* The attachment a request is about.
LEMMA TheFileIsHeld ==
  ASSUME LibraryIInv, NEW q \in Requests, serving[q].op \in FileOps
  PROVE  TheFile(q) \in Files /\ serving[q].files = {TheFile(q)}
<1>1. PICK f \in Files : serving[q].files = {f}
  BY DEF LibraryIInv, Carries
<1>2. TheFile(q) = f
  BY <1>1 DEF TheFile
<1> QED BY <1>1, <1>2

\* A request goes on with its attachment: a change of the blob that another relies
\* on is remembered, or it is a deletion; a verdict is backed by the blob.
LEMMA GoingOn ==
  ASSUME LibraryIInv, NEW q \in Requests, serving[q].op \in FileOps,
         serving[q].at \in {"storing", "stat", "fetching", "removing"},
         NEW at \in {"fetching", "removing", "writing"},
         NEW row \in FileRow, row.message = serving[q].row.message,
         serving' = [serving EXCEPT ![q] = [serving[q] EXCEPT !.at = at, !.row = row]],
         UNCHANGED <<store, thread, file, url, accepted>>,
         blob' \in [Files -> Content \cup {"none"}],
         \A f \in Files : f # TheFile(q) => blob'[f] = blob[f],
         clashed' = clashed \/ BlobChanged(q, TheFile(q)),
         blob'[TheFile(q)] # blob[TheFile(q)] =>
           BlobChanged(q, TheFile(q)) \/ (serving[q].op = "drop" /\ at = "writing"),
         at = "removing" => serving[q].op \in {"complete", "drop"},
         serving[q].op # "drop" =>
           /\ row.status = "READY" => row.scan = "CLEAN"
           /\ at = "writing" => row.status \in {"READY", "FAILED"}
           /\ at = "removing" => row.status = "FAILED"
           /\ at = "writing" /\ row.status = "READY" /\ TheFile(q) \notin clashed' =>
                row.checksum = "good" /\ blob'[TheFile(q)] = "good"
  PROVE  LibraryIInv'
<1> DEFINE to == [serving[q] EXCEPT !.at = at, !.row = row]
           f == TheFile(q)
<1>1. LibraryTypeOK /\ serving[q] \in Request /\ Carries(serving[q])
  BY DEF LibraryIInv, LibraryTypeOK
<1>2. /\ to \in Request /\ to.at = at /\ to.row = row /\ to.op = serving[q].op
      /\ to.files = serving[q].files /\ to.read = serving[q].read
  BY <1>1 DEF Request
<1>3. serving' = [serving EXCEPT ![q] = to]
  OBVIOUS
<1> HIDE DEF to
<1>4. f \in Files /\ serving[q].files = {f}
  BY TheFileIsHeld
<1> HIDE DEF f
<1>5. Carries(to)
  <2>1. serving[q].op \in {"upload", "complete"} =>
          /\ serving[q].read.status = "PENDING" /\ serving[q].read.message = "none"
          /\ serving[q].row.message = "none"
    BY <1>1 DEF Carries, Live
  <2>2. to.op \in {"upload", "complete"} => to.op # "drop"
    OBVIOUS
  <2> QED BY <1>2, <1>4, <2>1, <2>2 DEF Carries, Live
<1>6. serving'[q] = to
  BY <1>1, <1>2, <1>3, RequestMoves
<1>7. clashed' \in SUBSET Files /\ clashed \subseteq clashed'
  BY <1>1, <1>4 DEF BlobChanged, LibraryTypeOK, f
<1>8. ASSUME NEW g \in Files \ clashed'
      PROVE  /\ Dropping(serving[q], g) => Dropping(to, g)
             /\ Storing(q, g)' => \A r \in Requests \ {q} : ~Storing(r, g)
             /\ file[g].status = "READY" \/ CheckedBy(Requests \ {q}, g) =>
                  blob'[g] = blob[g] \/ Dropping(to, g)
             /\ Checked(to, g) /\ file[g].status = "PENDING" =>
                  to.row.checksum = "good" /\ blob'[g] = "good"
  <2>1. ~Dropping(serving[q], g)
    BY DEF Dropping
  <2>2. ~Storing(q, g)'
    BY <1>2, <1>6 DEF Storing
  <2>3. ASSUME file[g].status = "READY" \/ CheckedBy(Requests \ {q}, g), blob'[g] # blob[g]
        PROVE  Dropping(to, g)
    <3>1. g = f
      BY <2>3 DEF f
    <3>2. ~BlobChanged(q, f)
      BY <1>8, <2>3, <3>1 DEF BlobChanged
    <3> QED BY <1>2, <1>4, <2>3, <3>1, <3>2 DEF Dropping, f
  <2>4. ASSUME Checked(to, g) PROVE to.row.checksum = "good" /\ blob'[g] = "good"
    <3>1. /\ at = "writing" /\ g = f /\ row.status = "READY" /\ serving[q].op # "drop"
      BY <1>2, <1>4, <2>4 DEF Checked
    <3> QED BY <1>2, <1>8, <3>1 DEF f
  <2> QED BY <2>1, <2>2, <2>3, <2>4
<1>9. thread' \in ThreadStatus /\ url' \in SUBSET Files /\ serving[q].at # "over"
  BY <1>1 DEF LibraryTypeOK
<1>10. \A g \in Files : to.op \in {"upload", "complete"} /\ g \in to.files => file[g].status # "none"
  BY <1>2 DEF LibraryIInv, RowIsThere
<1> QED BY <1>2, <1>3, <1>5, <1>7, <1>8, <1>9, <1>10, QuietMove

\* What a scan or a rejection makes of a row.
Records(to, row, c, scan) ==
  /\ to \in FileRow /\ to.message = row.message /\ to.checksum = c
  /\ to.status \in {"READY", "FAILED"}
  /\ to.status = "READY" => scan = "CLEAN" /\ to.scan = "CLEAN"
  /\ scan # "CLEAN" => to.status = "FAILED"
LEMMA ScannedRow ==
  ASSUME NEW row \in FileRow, NEW c \in Content,
         NEW scan \in {"CLEAN", "QUARANTINED", "UNAVAILABLE", "FAILED"}
  PROVE  Records(Scanned(row, c, scan), row, c, scan)
<1> DEFINE status == IF scan = "CLEAN" THEN "READY" ELSE "FAILED"
           to == [row EXCEPT !.status = status, !.scan = scan, !.checksum = c]
<1>1. /\ status \in {"none", "PENDING", "READY", "FAILED", "DELETED"} /\ status \in {"READY", "FAILED"}
      /\ status = "READY" <=> scan = "CLEAN"
  OBVIOUS
<1> HIDE DEF status
<1>2. /\ to.status = status /\ to.checksum = c /\ to.message = row.message /\ to.scan = scan
      /\ to \in FileRow
  BY <1>1 DEF FileRow
<1>3. Scanned(row, c, scan) = to
  BY DEF Scanned, to, status
<1> HIDE DEF to
<1>4. Records(to, row, c, scan)
  BY <1>1, <1>2 DEF Records
<1> QED BY <1>3, <1>4
LEMMA RejectedRow ==
  ASSUME NEW row \in FileRow, NEW c \in Content \cup {"none"}
  PROVE  /\ Rejected(row, c) \in FileRow /\ Rejected(row, c).message = row.message
         /\ Rejected(row, c).status = "FAILED"
BY DEF Rejected, FileRow
LEMMA VerdictsAre ==
  ASSUME NEW c \in Content
  PROVE  /\ Verdicts(c) \subseteq {"CLEAN", "QUARANTINED", "UNAVAILABLE", "FAILED"}
         /\ "CLEAN" \in Verdicts(c) => c = "good"
BY DEF Verdicts

LEMMA StoreUploadStep ==
  ASSUME LibraryIInv, NEW q \in Requests, StoreUpload(q)
  PROVE  LibraryIInv'
<1> DEFINE f == TheFile(q)
           held(c) == IF Shared(q) THEN Content ELSE {c}
<1>1. /\ LibraryTypeOK /\ serving[q] \in Request /\ serving[q].row \in FileRow /\ SharedIsKnown
  BY DEF LibraryIInv, LibraryTypeOK, Request
<1>2. /\ serving[q].op = "upload" /\ serving[q].at = "storing" /\ serving[q].op \in FileOps
      /\ UNCHANGED <<store, thread, file, url, accepted>> /\ Live(serving[q])
  BY DEF StoreUpload, FileOps, Live
<1>3. f \in Files /\ serving[q].files = {f}
  BY <1>2, TheFileIsHeld
<1>4. ASSUME NEW c \in Content \ {"short"}, NEW t \in held(c),
             NEW scan \in UNION {Verdicts(d) : d \in held(c)},
             IF scan = "CLEAN" THEN blob' = [blob EXCEPT ![f] = t] /\ BlobChanged(q, f)
             ELSE UNCHANGED <<blob, clashed>>,
             serving' = [serving EXCEPT ![q].at = "writing",
                                        ![q].row = Scanned(serving[q].row, c, scan)]
      PROVE  LibraryIInv'
  <2> DEFINE row == Scanned(serving[q].row, c, scan)
  <2>1. held(c) \subseteq Content /\ c \in Content
    OBVIOUS
  <2>2. scan \in {"CLEAN", "QUARANTINED", "UNAVAILABLE", "FAILED"}
    BY <2>1, VerdictsAre
  <2>3. /\ row \in FileRow /\ row.message = serving[q].row.message
        /\ row.status \in {"READY", "FAILED"}
        /\ row.status = "READY" => scan = "CLEAN"
        /\ scan # "CLEAN" => row.status = "FAILED"
        /\ row.status = "READY" => row.scan = "CLEAN"
        /\ row.checksum = c
    <3>1. Records(row, serving[q].row, c, scan)
      BY <1>1, <2>1, <2>2, ScannedRow
    <3> QED BY <3>1 DEF Records
  <2> HIDE DEF row
  <2>4. serving' = [serving EXCEPT ![q] = [serving[q] EXCEPT !.at = "writing", !.row = row]]
    BY <1>1, <1>4 DEF LibraryTypeOK, row
  <2>5. /\ blob' \in [Files -> Content \cup {"none"}]
        /\ \A g \in Files : g # f => blob'[g] = blob[g]
        /\ scan = "CLEAN" => blob'[f] = t
        /\ clashed' = clashed \/ BlobChanged(q, f)
        /\ blob'[f] # blob[f] => BlobChanged(q, f)
    BY <1>1, <1>3, <1>4, <2>1 DEF LibraryTypeOK
  <2>6. ASSUME scan = "CLEAN", f \notin clashed' PROVE c = "good" /\ t = "good"
    <3>1. f \notin clashed
      BY <2>5, <2>6 DEF BlobChanged
    <3>2. ~Shared(q)
      BY <1>1, <1>2, <1>3, <3>1 DEF Shared, SharedIsKnown, Storing
    <3>3. held(c) = {c}
      BY <3>2
    <3>4. t = c /\ "CLEAN" \in Verdicts(c)
      BY <2>6, <3>3
    <3> QED BY <2>1, <3>4, VerdictsAre
  <2> QED BY <1>2, <2>3, <2>4, <2>5, <2>6, GoingOn
<1>5. ASSUME Over(q), UNCHANGED <<blob, clashed>> PROVE LibraryIInv'
  BY <1>1, <1>2, <1>5, EndMove DEF LibraryTypeOK
<1> QED BY <1>4, <1>5 DEF StoreUpload

\* A completion that is rejected, or goes on, without touching the blob.
LEMMA QuietCompletion ==
  ASSUME LibraryIInv, NEW q \in Requests, serving[q].op = "complete",
         serving[q].at \in {"stat", "fetching"},
         UNCHANGED <<store, thread, file, blob, url, accepted, clashed>>,
         \/ Over(q)
         \/ \E c \in Content \cup {"none"} : Reject(q, c)
         \/ GoTo(q, "fetching")
  PROVE  LibraryIInv'
<1>1. /\ LibraryTypeOK /\ serving[q] \in Request /\ serving[q].row \in FileRow /\ Carries(serving[q])
  BY DEF LibraryIInv, LibraryTypeOK, Request
<1>2. /\ serving[q].op \in FileOps /\ Live(serving[q]) /\ serving[q].op # "drop"
      /\ thread' \in ThreadStatus /\ blob' \in [Files -> Content \cup {"none"}]
      /\ \A f \in Files : blob'[f] = blob[f]
  BY <1>1 DEF FileOps, Live, LibraryTypeOK
<1>3. TheFile(q) \in Files
  BY <1>2, TheFileIsHeld
<1>4. CASE Over(q)
  BY <1>2, <1>4, EndMove
<1>5. ASSUME NEW c \in Content \cup {"none"}, Reject(q, c) PROVE LibraryIInv'
  <2> DEFINE row == Rejected(serving[q].row, c)
  <2>1. row \in FileRow /\ row.message = serving[q].row.message /\ row.status = "FAILED"
    BY <1>1, RejectedRow
  <2>2. serving' = [serving EXCEPT ![q] = [serving[q] EXCEPT !.at = "removing", !.row = row]]
    BY <1>1, <1>5 DEF Reject, LibraryTypeOK
  <2> HIDE DEF row
  <2> QED BY <1>2, <1>3, <2>1, <2>2, GoingOn
<1>6. CASE GoTo(q, "fetching")
  <2>1. serving' = [serving EXCEPT ![q] = [serving[q] EXCEPT !.at = "fetching", !.row = serving[q].row]]
    <3>1. [serving[q] EXCEPT !.at = "fetching"] = [serving[q] EXCEPT !.at = "fetching", !.row = serving[q].row]
      BY <1>1 DEF Request
    <3>2. serving' = [serving EXCEPT ![q] = [serving[q] EXCEPT !.at = "fetching"]]
      BY <1>1, <1>6 DEF GoTo, LibraryTypeOK
    <3> QED BY <3>1, <3>2
  <2>2. serving[q].row.status = "READY" => serving[q].row.scan = "CLEAN"
    BY <1>1, <1>2 DEF Carries
  <2> QED BY <1>1, <1>2, <1>3, <2>1, <2>2, GoingOn
<1> QED BY <1>4, <1>5, <1>6

LEMMA StatObjectStep ==
  ASSUME LibraryIInv, NEW q \in Requests, StatObject(q)
  PROVE  LibraryIInv'
<1>1. /\ serving[q].op = "complete" /\ serving[q].at = "stat"
      /\ UNCHANGED <<store, thread, file, blob, url, accepted, clashed>>
      /\ Over(q) \/ Reject(q, "none") \/ GoTo(q, "fetching")
  BY DEF StatObject
<1> QED BY <1>1, QuietCompletion

LEMMA FetchObjectStep ==
  ASSUME LibraryIInv, NEW q \in Requests, FetchObject(q)
  PROVE  LibraryIInv'
<1> DEFINE c == blob[TheFile(q)]
<1>1. /\ LibraryTypeOK /\ serving[q] \in Request /\ serving[q].row \in FileRow
  BY DEF LibraryIInv, LibraryTypeOK, Request
<1>2. /\ serving[q].op = "complete" /\ serving[q].at = "fetching" /\ serving[q].op \in FileOps
      /\ UNCHANGED <<store, thread, file, blob, url, accepted, clashed>> /\ serving[q].op # "drop"
  BY DEF FetchObject, FileOps
<1>3. TheFile(q) \in Files /\ c \in Content \cup {"none"}
  BY <1>1, <1>2, TheFileIsHeld DEF LibraryTypeOK
<1>4. /\ blob' \in [Files -> Content \cup {"none"}] /\ \A f \in Files : blob'[f] = blob[f]
  BY <1>1, <1>2 DEF LibraryTypeOK
<1>5. ASSUME c \notin {"none", "short"}, NEW scan \in Verdicts(c),
             serving' = [serving EXCEPT
                       ![q].at = IF scan = "CLEAN" THEN "writing" ELSE "removing",
                       ![q].row = Scanned(serving[q].row, c, scan)]
      PROVE  LibraryIInv'
  <2> DEFINE row == Scanned(serving[q].row, c, scan)
             at == IF scan = "CLEAN" THEN "writing" ELSE "removing"
  <2>1. /\ scan \in {"CLEAN", "QUARANTINED", "UNAVAILABLE", "FAILED"} /\ c \in Content
        /\ scan = "CLEAN" => c = "good"
    BY <1>3, <1>5, VerdictsAre
  <2>2. /\ row \in FileRow /\ row.message = serving[q].row.message
        /\ row.status \in {"READY", "FAILED"}
        /\ row.status = "READY" => scan = "CLEAN"
        /\ scan # "CLEAN" => row.status = "FAILED"
        /\ row.status = "READY" => row.scan = "CLEAN"
        /\ row.checksum = c
    <3>1. Records(row, serving[q].row, c, scan)
      BY <1>1, <2>1, ScannedRow
    <3> QED BY <3>1 DEF Records
  <2> HIDE DEF row
  <2>3. at \in {"writing", "removing"} /\ (at = "writing" <=> scan = "CLEAN")
    OBVIOUS
  <2>4. serving' = [serving EXCEPT ![q] = [serving[q] EXCEPT !.at = at, !.row = row]]
    BY <1>1, <1>5 DEF LibraryTypeOK, row
  <2> HIDE DEF at
  <2>5. blob'[TheFile(q)] = c
    BY <1>3, <1>4
  <2> QED BY <1>2, <1>3, <1>4, <2>1, <2>2, <2>3, <2>4, <2>5, GoingOn
<1>6. CASE Over(q) \/ \E d \in Content \cup {"none"} : Reject(q, d)
  BY <1>2, <1>6, QuietCompletion
<1> QED BY <1>3, <1>5, <1>6 DEF FetchObject

LEMMA RemoveBlobStep ==
  ASSUME LibraryIInv, NEW q \in Requests, RemoveBlob(q)
  PROVE  LibraryIInv'
<1>1. /\ LibraryTypeOK /\ serving[q] \in Request /\ serving[q].row \in FileRow /\ Carries(serving[q])
  BY DEF LibraryIInv, LibraryTypeOK, Request
<1>2. /\ serving[q].at = "removing" /\ UNCHANGED <<store, thread, file, url, accepted>>
      /\ Live(serving[q]) /\ serving[q].op \in FileOps
  BY <1>1 DEF RemoveBlob, Live, Carries
<1>3. TheFile(q) \in Files
  BY <1>2, TheFileIsHeld
<1>5. CASE Over(q) /\ UNCHANGED <<blob, clashed>>
  BY <1>1, <1>2, <1>5, EndMove DEF LibraryTypeOK
<1>6. CASE /\ blob' = [blob EXCEPT ![TheFile(q)] = "none"]
           /\ IF serving[q].op = "complete" THEN BlobChanged(q, TheFile(q)) ELSE UNCHANGED clashed
           /\ GoTo(q, "writing")
  <2>1. serving' = [serving EXCEPT ![q] = [serving[q] EXCEPT !.at = "writing", !.row = serving[q].row]]
    <3>1. [serving[q] EXCEPT !.at = "writing"] = [serving[q] EXCEPT !.at = "writing", !.row = serving[q].row]
      BY <1>1 DEF Request
    <3>2. serving' = [serving EXCEPT ![q] = [serving[q] EXCEPT !.at = "writing"]]
      BY <1>1, <1>6 DEF GoTo, LibraryTypeOK
    <3> QED BY <3>1, <3>2
  <2>2. /\ blob' \in [Files -> Content \cup {"none"}]
        /\ \A f \in Files : f # TheFile(q) => blob'[f] = blob[f]
    BY <1>1, <1>6 DEF LibraryTypeOK
  <2>3. serving[q].op # "drop" => serving[q].op = "complete" /\ serving[q].row.status = "FAILED"
    BY <1>1, <1>2 DEF Carries, Live
  <2> QED BY <1>1, <1>2, <1>6, <2>1, <2>2, <2>3, GoingOn
<1> QED BY <1>5, <1>6 DEF RemoveBlob

\* A step of nobody's request, which changes a blob at most: what somebody relies
\* on stays, or the change is remembered.
LEMMA BlobMove ==
  ASSUME LibraryIInv, UNCHANGED <<store, thread, file, serving, accepted>>,
         blob' \in [Files -> Content \cup {"none"}], url' \in SUBSET Files,
         clashed' \in SUBSET Files, clashed \subseteq clashed',
         \A f \in Files \ clashed' :
           file[f].status = "READY" \/ CheckedBy(Requests, f) => blob'[f] = blob[f]
  PROVE  LibraryIInv'
<1>1. /\ LibraryTypeOK /\ RowIsThere /\ SharedIsKnown /\ FreshIsFree /\ AcceptedIsOver
      /\ AttachedOnce /\ CheckedIsFit /\ ReadyIsFit /\ \A r \in Requests : Carries(serving[r])
  BY DEF LibraryIInv
<1>2. ASSUME NEW f \in Files \ clashed', Backed(f), file[f].status = "READY" \/ CheckedBy(Requests, f)
      PROVE  Backed(f)'
  BY <1>2, StillBacked
<1>3. CheckedIsFit'
  <2> SUFFICES ASSUME NEW r \in Requests, NEW f \in Files, Checked(serving[r], f),
                      f \notin clashed', file[f].status = "PENDING"
               PROVE  serving[r].row.checksum = "good" /\ Backed(f)'
    BY DEF CheckedIsFit, Checked
  <2>1. CheckedBy(Requests, f)
    BY DEF CheckedBy, Checked
  <2>2. serving[r].row.checksum = "good" /\ Backed(f)
    BY <1>1 DEF CheckedIsFit
  <2> QED BY <1>2, <2>1, <2>2
<1>4. ReadyIsFit'
  <2> SUFFICES ASSUME NEW f \in Files, file[f].status = "READY"
               PROVE  /\ file[f].scan = "CLEAN"
                      /\ f \notin clashed' => file[f].checksum = "good" /\ Backed(f)'
    BY DEF ReadyIsFit
  <2> QED BY <1>1, <1>2 DEF ReadyIsFit
<1>5. LibraryTypeOK' /\ RowIsThere' /\ FreshIsFree' /\ AcceptedIsOver' /\ AttachedOnce'
  BY <1>1 DEF LibraryTypeOK, RowIsThere, FreshIsFree, AcceptedIsOver, AttachedOnce
<1>6. SharedIsKnown' /\ (\A r \in Requests : Carries(serving[r]))'
  BY <1>1 DEF SharedIsKnown, Storing, Carries, Live
<1> QED BY <1>3, <1>4, <1>5, <1>6 DEF LibraryIInv

LEMMA BlobStep ==
  ASSUME LibraryIInv, NEW f \in Files,
         \/ ExpireUrl(f)
         \/ \E c \in Content : ClientPut(f, c)
         \/ \E q \in Requests, c \in Content : LateChunk(q, f, c)
  PROVE  LibraryIInv'
<1>1. LibraryTypeOK
  BY DEF LibraryIInv
<1>2. CASE ExpireUrl(f)
  <2>1. /\ UNCHANGED <<store, thread, file, blob, serving, accepted, clashed>> /\ url' = url \ {f}
    BY <1>2 DEF ExpireUrl
  <2>2. /\ blob' \in [Files -> Content \cup {"none"}] /\ url' \in SUBSET Files
        /\ clashed' \in SUBSET Files /\ clashed \subseteq clashed' /\ \A g \in Files : blob'[g] = blob[g]
    BY <1>1, <2>1 DEF LibraryTypeOK
  <2> QED BY <2>1, <2>2, BlobMove
<1>3. ASSUME NEW c \in Content, ClientPut(f, c) PROVE LibraryIInv'
  <2>1. /\ UNCHANGED <<store, thread, file, url, serving, accepted>>
        /\ blob' = [blob EXCEPT ![f] = c] /\ Requests \ {"none"} = Requests
        /\ clashed' = IF file[f].status = "READY" \/ CheckedBy(Requests, f)
                      THEN clashed \cup {f} ELSE clashed
    <3>1. Requests \ {"none"} = Requests
      BY LibraryAssumption
    <3> QED BY <1>3, <3>1 DEF ClientPut, BlobChanged
  <2>2. /\ blob' \in [Files -> Content \cup {"none"}] /\ url' \in SUBSET Files
        /\ clashed' \in SUBSET Files /\ clashed \subseteq clashed'
        /\ \A g \in Files : g # f => blob'[g] = blob[g]
    BY <1>1, <2>1 DEF LibraryTypeOK
  <2>3. ASSUME NEW g \in Files \ clashed', file[g].status = "READY" \/ CheckedBy(Requests, g)
        PROVE  blob'[g] = blob[g]
    <3>1. g # f
      BY <2>1, <2>3
    <3> QED BY <2>2, <3>1
  <2> QED BY <2>1, <2>2, <2>3, BlobMove
<1>4. ASSUME NEW q \in Requests, NEW c \in Content, LateChunk(q, f, c) PROVE LibraryIInv'
  <2>1. /\ UNCHANGED <<store, thread, file, url, serving, accepted, clashed>>
        /\ blob' = [blob EXCEPT ![f] = c] /\ f \in clashed
    BY <1>4 DEF LateChunk
  <2>2. /\ blob' \in [Files -> Content \cup {"none"}] /\ url' \in SUBSET Files
        /\ clashed' \in SUBSET Files /\ clashed \subseteq clashed'
        /\ \A g \in Files \ clashed' : blob'[g] = blob[g]
    BY <1>1, <2>1 DEF LibraryTypeOK
  <2> QED BY <2>1, <2>2, BlobMove
<1> QED BY <1>2, <1>3, <1>4

LEMMA InitiateStep ==
  ASSUME LibraryIInv, NEW f \in Files, initiate_attachment(f)
  PROVE  LibraryIInv'
<1>1. /\ file[f] = NoFile /\ file' = [file EXCEPT ![f].status = "PENDING"]
      /\ url' = IF store = "minio" THEN url \cup {f} ELSE url
      /\ UNCHANGED <<store, thread, blob, serving, accepted, clashed>>
  BY DEF initiate_attachment
<1>2. /\ LibraryTypeOK /\ RowIsThere /\ SharedIsKnown /\ FreshIsFree /\ AcceptedIsOver
      /\ AttachedOnce /\ CheckedIsFit /\ ReadyIsFit /\ \A r \in Requests : Carries(serving[r])
  BY DEF LibraryIInv
<1>3. /\ file' \in [Files -> FileRow] /\ file'[f].status = "PENDING" /\ file'[f].message = "none"
      /\ \A g \in Files : g # f => file'[g] = file[g]
  <2>1. file[f] \in FileRow
    BY <1>2 DEF LibraryTypeOK
  <2>2. file' = [file EXCEPT ![f] = [file[f] EXCEPT !.status = "PENDING"]]
    BY <1>1, <1>2 DEF LibraryTypeOK
  <2>3. [file[f] EXCEPT !.status = "PENDING"] \in FileRow
    BY <2>1 DEF FileRow
  <2>4. [file[f] EXCEPT !.status = "PENDING"].status = "PENDING" /\ [file[f] EXCEPT !.status = "PENDING"].message = "none"
    BY <1>1 DEF NoFile
  <2> QED BY <1>2, <2>2, <2>3, <2>4 DEF LibraryTypeOK
<1>4. file[f].status = "none" /\ file[f].message = "none"
  BY <1>1 DEF NoFile
<1>5. \A g \in Files : Backed(g) => Backed(g)'
  BY <1>1, StillBacked
<1>6. CheckedIsFit'
  <2> SUFFICES ASSUME NEW r \in Requests, NEW g \in Files, Checked(serving[r], g),
                      g \notin clashed, file'[g].status = "PENDING"
               PROVE  serving[r].row.checksum = "good" /\ Backed(g)'
    BY <1>1 DEF CheckedIsFit, Checked
  <2>1. g # f
    BY <1>2, <1>4 DEF RowIsThere, Checked
  <2> QED BY <1>2, <1>3, <1>5, <2>1 DEF CheckedIsFit
<1>7. ReadyIsFit'
  <2> SUFFICES ASSUME NEW g \in Files, file'[g].status = "READY"
               PROVE  /\ file'[g].scan = "CLEAN"
                      /\ g \notin clashed => file'[g].checksum = "good" /\ Backed(g)'
    BY <1>1 DEF ReadyIsFit
  <2>1. g # f /\ file'[g] = file[g]
    BY <1>3
  <2> QED BY <1>2, <1>5, <2>1 DEF ReadyIsFit
<1>8. LibraryTypeOK' /\ RowIsThere' /\ FreshIsFree' /\ AcceptedIsOver'
  BY <1>1, <1>2, <1>3 DEF LibraryTypeOK, RowIsThere, FreshIsFree, AcceptedIsOver
<1>9. SharedIsKnown' /\ (\A r \in Requests : Carries(serving[r]))'
  BY <1>1, <1>2 DEF SharedIsKnown, Storing, Carries, Live
<1>10. AttachedOnce'
  <2> SUFFICES ASSUME NEW q \in accepted, NEW g \in serving[q].files
               PROVE  file'[g].message = q \/ g \in clashed
    BY <1>1 DEF AttachedOnce
  <2>1. q \in Requests /\ g \in Files /\ (file[g].message = q \/ g \in clashed)
    BY <1>2 DEF AttachedOnce, LibraryTypeOK, Request
  <2>2. CASE g \in clashed
    BY <2>2
  <2>3. CASE file[g].message = q
    <3>1. g # f
      BY <1>4, <2>1, <2>3, LibraryAssumption
    <3> QED BY <1>3, <2>1, <2>3, <3>1
  <2> QED BY <2>1, <2>2, <2>3
<1> QED BY <1>6, <1>7, <1>8, <1>9, <1>10 DEF LibraryIInv

\* A request ends, having changed rows; no row becomes PENDING.
LEMMA LastMove ==
  ASSUME LibraryIInv, NEW q \in Requests, Live(serving[q]), Over(q), UNCHANGED <<store, blob, url>>,
         thread' \in ThreadStatus, file' \in [Files -> FileRow],
         accepted' \in {accepted, accepted \cup {q}},
         clashed' \in SUBSET Files, clashed \subseteq clashed',
         \A f \in Files : /\ file'[f].status = "PENDING" => file[f].status = "PENDING"
                          /\ file'[f].status = "none" => file[f].status = "none"
                          /\ Dropping(serving[q], f) => file'[f].status \notin {"PENDING", "READY"},
         FreshIsFree', AttachedOnce',
         \A f \in Files : file'[f].status = "READY" =>
           /\ file'[f].scan = "CLEAN"
           /\ f \notin clashed' => file'[f].checksum = "good" /\ Backed(f)
  PROVE  LibraryIInv'
<1> DEFINE to == [serving[q] EXCEPT !.at = "over"]
<1>1. /\ LibraryTypeOK /\ RowIsThere /\ SharedIsKnown /\ AcceptedIsOver /\ CheckedIsFit
      /\ serving[q] \in Request /\ \A r \in Requests : Carries(serving[r])
  BY DEF LibraryIInv, LibraryTypeOK
<1>2. /\ to \in Request /\ to.at = "over" /\ to.op = serving[q].op /\ to.files = serving[q].files
      /\ serving' = [serving EXCEPT ![q] = to]
  BY <1>1 DEF Request, Over, GoTo, LibraryTypeOK
<1> HIDE DEF to
<1>3. /\ serving' \in [Requests -> Request] /\ serving'[q] = to
      /\ \A r \in Requests : r # q => serving'[r] = serving[r]
  BY <1>1, <1>2, RequestMoves
<1>4. LibraryTypeOK'
  BY <1>1, <1>3 DEF LibraryTypeOK
<1>5. (\A r \in Requests : Carries(serving[r]))'
  <2>1. Carries(to)
    BY <1>1, <1>2 DEF Carries, Live
  <2>2. \A r \in Requests : Carries(serving'[r])
    BY <1>1, <1>3, <2>1
  <2> QED BY <2>2 DEF Carries, Live
<1>6. RowIsThere' /\ AcceptedIsOver'
  BY <1>1, <1>2, <1>3 DEF RowIsThere, AcceptedIsOver, LibraryTypeOK
<1>7. SharedIsKnown'
  <2>1. \A r \in Requests, f \in Files : Storing(r, f)' => Storing(r, f)
    BY <1>2, <1>3 DEF Storing
  <2> SUFFICES ASSUME NEW r \in Requests, NEW s \in Requests, NEW f \in Files,
                      r # s, Storing(r, f)', Storing(s, f)'
               PROVE  f \in clashed'
    BY DEF SharedIsKnown
  <2> QED BY <1>1, <2>1 DEF SharedIsKnown
<1>8. ASSUME NEW f \in Files, Backed(f), file'[f].status \in {"PENDING", "READY"}
      PROVE  Backed(f)'
  <2>1. \A r \in Requests : Dropping(serving[r], f) => Dropping(serving'[r], f)
    BY <1>3, <1>8
  <2> QED BY <1>8, <2>1, StillBacked
<1>9. CheckedIsFit'
  <2> SUFFICES ASSUME NEW r \in Requests, NEW f \in Files, Checked(serving'[r], f),
                      f \notin clashed', file'[f].status = "PENDING"
               PROVE  serving'[r].row.checksum = "good" /\ Backed(f)'
    BY DEF CheckedIsFit, Checked
  <2>1. serving'[r] = serving[r] /\ file[f].status = "PENDING" /\ f \notin clashed
    BY <1>2, <1>3 DEF Checked
  <2>2. serving[r].row.checksum = "good" /\ Backed(f)
    BY <1>1, <2>1 DEF CheckedIsFit
  <2> QED BY <1>8, <2>1, <2>2
<1>10. ReadyIsFit'
  <2> SUFFICES ASSUME NEW f \in Files, file'[f].status = "READY"
               PROVE  /\ file'[f].scan = "CLEAN"
                      /\ f \notin clashed' => file'[f].checksum = "good" /\ Backed(f)'
    BY DEF ReadyIsFit
  <2> QED BY <1>8
<1> QED BY <1>4, <1>5, <1>6, <1>7, <1>9, <1>10 DEF LibraryIInv

LEMMA WriteFileStep ==
  ASSUME LibraryIInv, NEW q \in Requests, WriteFile(q)
  PROVE  LibraryIInv'
<1> DEFINE f == TheFile(q)
<1>1. /\ serving[q].op \in FileOps /\ serving[q].at = "writing" /\ Over(q) /\ Live(serving[q])
      /\ UNCHANGED <<store, thread, blob, url, accepted>>
      /\ file' = IF serving[q].op = "drop" THEN [file EXCEPT ![f].status = "DELETED"]
                 ELSE [file EXCEPT ![f] = serving[q].row]
      /\ serving[q].op = "drop" => clashed' = clashed
      /\ serving[q].op # "drop" =>
           clashed' = IF file[f] # serving[q].read THEN clashed \cup {f} ELSE clashed
  BY DEF WriteFile, Live
<1>2. /\ LibraryTypeOK /\ FreshIsFree /\ AcceptedIsOver /\ AttachedOnce /\ CheckedIsFit /\ ReadyIsFit
      /\ serving[q] \in Request /\ serving[q].row \in FileRow /\ Carries(serving[q])
  BY DEF LibraryIInv, LibraryTypeOK, Request
<1>3. f \in Files /\ serving[q].files = {f}
  BY <1>1, TheFileIsHeld
<1> HIDE DEF f
<1>4. file[f] \in FileRow /\ clashed' \in SUBSET Files /\ clashed \subseteq clashed'
  BY <1>1, <1>2, <1>3 DEF LibraryTypeOK
<1>5. /\ file' \in [Files -> FileRow] /\ \A g \in Files : g # f => file'[g] = file[g]
      /\ serving[q].op = "drop" => file'[f] = [file[f] EXCEPT !.status = "DELETED"]
      /\ serving[q].op # "drop" => file'[f] = serving[q].row
  <2>1. [file[f] EXCEPT !.status = "DELETED"] \in FileRow
    BY <1>4 DEF FileRow
  <2>2. file' = IF serving[q].op = "drop" THEN [file EXCEPT ![f] = [file[f] EXCEPT !.status = "DELETED"]]
                ELSE [file EXCEPT ![f] = serving[q].row]
    BY <1>1, <1>2, <1>3 DEF LibraryTypeOK
  <2> QED BY <1>2, <1>3, <2>1, <2>2 DEF LibraryTypeOK
\* A row that is not the one that was read is remembered.
<1>6. ASSUME serving[q].op # "drop"
      PROVE  /\ file'[f].status \in {"READY", "FAILED"}
             /\ f \notin clashed' => file[f].status = "PENDING" /\ file[f].message = "none"
             /\ file'[f].status = "READY" =>
                  /\ file'[f].scan = "CLEAN"
                  /\ f \notin clashed' => file'[f].checksum = "good" /\ Backed(f)
  <2>1. /\ serving[q].op \in {"upload", "complete"}
        /\ serving[q].read.status = "PENDING" /\ serving[q].read.message = "none"
        /\ serving[q].row.status \in {"READY", "FAILED"}
        /\ serving[q].row.status = "READY" => serving[q].row.scan = "CLEAN"
    BY <1>1, <1>2, <1>6 DEF Carries, FileOps
  <2>2. f \notin clashed' => file[f] = serving[q].read /\ f \notin clashed
    BY <1>1, <1>6
  <2>3. serving[q].row.status = "READY" => Checked(serving[q], f)
    BY <1>1, <1>3, <2>1 DEF Checked
  <2> QED BY <1>2, <1>3, <1>5, <1>6, <2>1, <2>2, <2>3 DEF CheckedIsFit
<1>7. serving[q].op = "drop" => file'[f].status = "DELETED" /\ file'[f].message = file[f].message
  BY <1>4, <1>5 DEF FileRow
<1>8. FreshIsFree'
  BY <1>2, <1>5, <1>6, <1>7 DEF FreshIsFree
<1>9. AttachedOnce'
  <2> SUFFICES ASSUME NEW r \in accepted, NEW g \in serving'[r].files
               PROVE  file'[g].message = r \/ g \in clashed'
    BY <1>1 DEF AttachedOnce
  <2>1. r # q /\ r \in Requests
    BY <1>1, <1>2 DEF AcceptedIsOver, LibraryTypeOK
  <2>2. serving'[r] = serving[r]
    BY <1>1, <1>2, <2>1 DEF Over, GoTo, LibraryTypeOK
  <2>3. g \in Files /\ (file[g].message = r \/ g \in clashed)
    BY <1>2, <2>1, <2>2 DEF AttachedOnce, LibraryTypeOK, Request
  <2>4. CASE g \in clashed
    BY <1>4, <2>4
  <2>5. CASE file[g].message = r /\ g = f /\ serving[q].op # "drop"
    BY <1>6, <2>1, <2>5, LibraryAssumption
  <2>6. CASE file[g].message = r /\ ~(g = f /\ serving[q].op # "drop")
    BY <1>5, <1>7, <2>3, <2>6
  <2> QED BY <2>3, <2>4, <2>5, <2>6
<1>10. ASSUME NEW g \in Files
       PROVE  /\ file'[g].status = "PENDING" => file[g].status = "PENDING"
              /\ file'[g].status = "none" => file[g].status = "none"
              /\ Dropping(serving[q], g) => file'[g].status \notin {"PENDING", "READY"}
              /\ file'[g].status = "READY" =>
                   /\ file'[g].scan = "CLEAN"
                   /\ g \notin clashed' => file'[g].checksum = "good" /\ Backed(g)
  <2>1. CASE g = f
    BY <1>6, <1>7, <2>1 DEF Dropping
  <2>2. CASE g # f
    <3>1. file'[g] = file[g] /\ ~Dropping(serving[q], g) /\ (g \notin clashed' => g \notin clashed)
      BY <1>3, <1>4, <1>5, <2>2 DEF Dropping
    <3> QED BY <1>2, <3>1 DEF ReadyIsFit
  <2> QED BY <2>1, <2>2
<1>11. thread' \in ThreadStatus
  BY <1>1, <1>2 DEF LibraryTypeOK
<1> QED BY <1>1, <1>4, <1>5, <1>8, <1>9, <1>10, <1>11, LastMove

LEMMA CommitSubmitStep ==
  ASSUME LibraryIInv, NEW q \in Requests, CommitSubmit(q)
  PROVE  LibraryIInv'
<1> DEFINE files == serving[q].files
<1>1. /\ serving[q].op = "submit" /\ Live(serving[q]) /\ Over(q)
      /\ UNCHANGED <<store, blob, url, clashed>>
  BY DEF CommitSubmit, InFlight, Live
<1>2. /\ LibraryTypeOK /\ FreshIsFree /\ AcceptedIsOver /\ AttachedOnce /\ ReadyIsFit
      /\ serving[q] \in Request /\ serving[q].status \in ThreadStatus
      /\ clashed' \in SUBSET Files /\ clashed \subseteq clashed'
  BY <1>1 DEF LibraryIInv, LibraryTypeOK, Request
<1>3. /\ serving'[q].files = files
      /\ \A r \in Requests : r # q => serving'[r] = serving[r]
  BY <1>1, <1>2 DEF Over, GoTo, LibraryTypeOK, Request
<1>4. \A f \in Files : ~Dropping(serving[q], f)
  BY <1>1 DEF Dropping
<1>5. CASE associate_many(files)
  <2>1. /\ file' = [f \in Files |-> IF f \in files THEN [file[f] EXCEPT !.message = q] ELSE file[f]]
        /\ thread' = serving[q].status /\ accepted' = accepted \cup {q}
    BY <1>5 DEF CommitSubmit
  <2>2. \A f \in files : file[f].status = "READY" /\ file[f].message = "none"
    BY <1>5 DEF associate_many, Available
  <2>3. ASSUME NEW f \in Files
        PROVE  /\ file'[f] \in FileRow /\ file'[f].status = file[f].status
               /\ file'[f].checksum = file[f].checksum /\ file'[f].scan = file[f].scan
               /\ f \notin files => file'[f] = file[f]
               /\ f \in files => file'[f].message = q
    <3>1. file[f] \in FileRow /\ file'[f] = IF f \in files THEN [file[f] EXCEPT !.message = q] ELSE file[f]
      BY <1>2, <2>1 DEF LibraryTypeOK
    <3> QED BY <3>1 DEF FileRow
  <2>4. FreshIsFree'
    BY <1>2, <2>2, <2>3 DEF FreshIsFree
  <2>5. AttachedOnce'
    <3> SUFFICES ASSUME NEW r \in accepted \cup {q}, NEW g \in serving'[r].files
                 PROVE  file'[g].message = r \/ g \in clashed'
      BY <2>1 DEF AttachedOnce
    <3>1. CASE r = q
      BY <1>2, <1>3, <2>3, <3>1 DEF Request
    <3>2. CASE r # q
      <4>1. r \in Requests /\ r \in accepted
        BY <1>2, <3>2 DEF LibraryTypeOK
      <4>2. g \in Files /\ (file[g].message = r \/ g \in clashed)
        BY <1>2, <1>3, <3>2, <4>1 DEF AttachedOnce, LibraryTypeOK, Request
      <4>3. file[g].message = r => g \notin files
        BY <2>2, <4>1, LibraryAssumption
      <4> QED BY <1>1, <2>3, <4>2, <4>3
    <3> QED BY <3>1, <3>2
  <2>6. \A f \in Files : file'[f].status = "READY" =>
          /\ file'[f].scan = "CLEAN"
          /\ f \notin clashed' => file'[f].checksum = "good" /\ Backed(f)
    BY <1>1, <1>2, <2>3 DEF ReadyIsFit
  <2>7. file' \in [Files -> FileRow]
    BY <2>1, <2>3
  <2> QED BY <1>1, <1>2, <1>4, <2>1, <2>3, <2>4, <2>5, <2>6, <2>7, LastMove
<1>6. CASE ~associate_many(files)
  <2>1. UNCHANGED <<file, thread, accepted>>
    BY <1>6 DEF CommitSubmit
  <2>2. thread' \in ThreadStatus
    BY <1>2, <2>1 DEF LibraryTypeOK
  <2> QED BY <1>1, <1>4, <2>1, <2>2, EndMove
<1> QED BY <1>5, <1>6

LEMMA LibraryKept ==
  ASSUME LibraryIInv, [LibraryNext]_libraryVars
  PROVE  LibraryIInv'
<1>1. CASE LibraryNext
  BY <1>1, BeginStep, InitiateStep, BlobStep, WriteThreadStep, StoreUploadStep, StatObjectStep,
     FetchObjectStep, RemoveBlobStep, WriteFileStep, CommitSubmitStep DEF LibraryNext
<1>2. CASE UNCHANGED libraryVars
  <2>1. /\ UNCHANGED <<store, thread, file, serving, accepted>>
        /\ url' \in SUBSET Files /\ blob' \in [Files -> Content \cup {"none"}]
        /\ clashed' \in SUBSET Files /\ clashed \subseteq clashed' /\ \A f \in Files : blob'[f] = blob[f]
    BY <1>2 DEF libraryVars, LibraryIInv, LibraryTypeOK
  <2> QED BY <2>1, BlobMove
<1> QED BY <1>1, <1>2

\* The inductive invariant of the attachments, however the requests that rewrite
\* one row or one blob overlap.
THEOREM LibraryInductive == LibrarySpec => []LibraryIInv
<1>1. LibraryInit => LibraryIInv
  <2> SUFFICES ASSUME LibraryInit PROVE LibraryIInv
    OBVIOUS
  <2>1. /\ Idle.at = "idle" /\ Idle.op = "none" /\ NoFile.status = "none" /\ NoFile.message = "none"
        /\ Idle \in Request
    BY NoFileIsARow DEF Idle, NoFile, Request, ThreadStatus
  <2>2. /\ \A q \in Requests : serving[q] = Idle
        /\ \A f \in Files : file[f] = NoFile
        /\ accepted = {}
    BY DEF LibraryInit
  <2>3. LibraryTypeOK
    BY <2>1, NoFileIsARow DEF LibraryInit, LibraryTypeOK, ThreadStatus
  <2>4. \A q \in Requests : Carries(serving[q])
    BY <2>1, <2>2 DEF Carries, Live, FileOps
  <2>5. SharedIsKnown /\ RowIsThere /\ CheckedIsFit
    BY <2>1, <2>2 DEF SharedIsKnown, Storing, RowIsThere, CheckedIsFit, Checked
  <2> QED BY <2>1, <2>2, <2>3, <2>4, <2>5 DEF LibraryIInv, FreshIsFree, AcceptedIsOver, AttachedOnce,
                                              ReadyIsFit
<1>2. LibraryIInv /\ [LibraryNext]_libraryVars => LibraryIInv'
  BY LibraryKept
<1> QED BY <1>1, <1>2, PTL DEF LibrarySpec

\* An attachment belongs to one message, and READY means that there is something
\* to download; where that fails, two requests overlapped on that attachment.
THEOREM AttachmentsAreSound == LibrarySpec => []LibraryInv
<1>1. LibraryIInv => LibraryInv
  <2> SUFFICES ASSUME LibraryIInv PROVE LibraryInv
    OBVIOUS
  <2>1. ReadyHasContent
    <3> SUFFICES ASSUME NEW f \in Files, file[f].status = "READY"
                 PROVE  /\ file[f].scan = "CLEAN"
                        /\ f \in clashed \/ file[f].checksum = "good"
                        /\ \/ f \in clashed \/ blob[f] = "good"
                           \/ \E q \in Requests : InFlight(q) /\ serving[q].op = "drop" /\ f \in serving[q].files
      BY DEF ReadyHasContent
    <3> QED BY DEF LibraryIInv, ReadyIsFit, Backed, Dropping, InFlight
  <2> QED BY <2>1 DEF LibraryIInv, LibraryInv
<1> QED BY <1>1, LibraryInductive, PTL

\* What a request under way would make of the thread keeps it deleted.
Keeps(r) ==
  Live(r) => /\ r.op \in ThreadOps => StatusAfter(r.op, r.status) = "DELETED"
             /\ r.op = "submit" => r.status = "DELETED"

\* When every copy that is still under way says that the thread is deleted, only a
\* restore can bring it back.
THEOREM DeletedThreadStays == LibrarySpec => DeletionIsKept
<1>1. ASSUME LibraryIInv, [LibraryNext]_libraryVars, ThreadGone
      PROVE  ThreadGone' \/ (\E q \in Requests : serving'[q].op = "restore" /\ InFlight(q)')
  <2>1. LibraryTypeOK /\ thread = "DELETED" /\ \A q \in Requests : Keeps(serving[q])
    BY <1>1 DEF LibraryIInv, ThreadGone, InFlight, Keeps, Live
\* It is enough that the request which moves goes on keeping it.
  <2>2. ASSUME thread' = "DELETED", \A q \in Requests : serving'[q] = serving[q] \/ Keeps(serving'[q])
        PROVE  ThreadGone'
    <3>1. \A q \in Requests : Keeps(serving'[q])
      BY <2>1, <2>2
    <3> QED BY <2>2, <3>1 DEF ThreadGone, InFlight, Keeps, Live
  <2>4. ASSUME NEW q \in Requests, thread' = "DELETED", Over(q) PROVE ThreadGone'
    <3>1. \A r \in Requests : serving'[r] = serving[r] \/ serving'[r].at = "over"
      BY <2>1, <2>4 DEF Over, GoTo, LibraryTypeOK, Request
    <3> QED BY <2>2, <2>4, <3>1 DEF Keeps, Live
  <2>5. CASE UNCHANGED <<thread, serving>>
    BY <2>1, <2>2, <2>5
  <2>6. ASSUME NEW q \in Requests, NEW op \in ThreadOps, BeginThreadOp(q, op)
        PROVE  \E r \in Requests : serving'[r].op = "restore" /\ InFlight(r)'
    <3>1. op = "restore" /\ Begin(q, op, "writing", {}, NoFile)
      BY <2>1, <2>6 DEF BeginThreadOp, _owned_thread
    <3>2. serving'[q].op = "restore" /\ serving'[q].at = "writing"
      BY <2>1, <3>1 DEF Begin, LibraryTypeOK
    <3> QED BY <3>2 DEF InFlight
  <2>7. ASSUME NEW q \in Requests, NEW f \in Files,
               BeginUpload(q, f) \/ BeginComplete(q, f) \/ BeginDrop(q, f)
        PROVE  ThreadGone'
    <3>1. /\ thread' = "DELETED" /\ serving[q].at = "idle"
          /\ \E op \in FileOps, at \in {"storing", "stat", "removing"} : Begin(q, op, at, {f}, file[f])
      BY <2>1, <2>7 DEF BeginUpload, BeginComplete, BeginDrop, FileOps, Begin
    <3>2. \A r \in Requests : serving'[r] = serving[r] \/ serving'[r].op \in FileOps
      BY <2>1, <3>1 DEF Begin, LibraryTypeOK
    <3> QED BY <2>2, <3>1, <3>2 DEF Keeps, FileOps, ThreadOps
  <2>8. ASSUME NEW q \in Requests, NEW files \in SUBSET Files, BeginSubmit(q, files) PROVE FALSE
    BY <2>1, <2>8 DEF BeginSubmit
  <2>9. ASSUME NEW q \in Requests, WriteThread(q) PROVE ThreadGone'
    <3>1. Over(q) /\ thread' = StatusAfter(serving[q].op, serving[q].status)
          /\ serving[q].op \in ThreadOps /\ Live(serving[q])
      BY <2>9 DEF WriteThread, InFlight, Live
    <3>2. thread' = "DELETED"
      BY <2>1, <3>1 DEF Keeps
    <3> QED BY <2>4, <3>1, <3>2
  <2>10. ASSUME NEW q \in Requests, CommitSubmit(q) PROVE ThreadGone'
    <3>1. /\ Over(q) /\ thread' = "DELETED"
      BY <2>1, <2>10 DEF CommitSubmit, Keeps, InFlight, Live
    <3> QED BY <2>4, <3>1
\* The other steps of a request move it along.
  <2>11. ASSUME NEW q \in Requests,
                StoreUpload(q) \/ StatObject(q) \/ FetchObject(q) \/ RemoveBlob(q) \/ WriteFile(q)
         PROVE  ThreadGone'
    <3>1. serving[q].op \in FileOps /\ serving[q] \in Request /\ UNCHANGED thread
      <4>1. serving[q] \in Request /\ (serving[q].at = "removing" => serving[q].op \in FileOps)
        BY <1>1 DEF LibraryIInv, LibraryTypeOK, Carries
      <4> QED BY <2>11, <4>1 DEF StoreUpload, StatObject, FetchObject, RemoveBlob, WriteFile, FileOps
    <3>2. \A r \in Requests : r # q => serving'[r] = serving[r]
      BY <2>1, <2>11 DEF StoreUpload, StatObject, FetchObject, RemoveBlob, WriteFile, Over, GoTo,
                         Reject, LibraryTypeOK
    <3>3. serving'[q].op = serving[q].op
      BY <2>1, <2>11, <3>1 DEF StoreUpload, StatObject, FetchObject, RemoveBlob, WriteFile, Over, GoTo,
                               Reject, LibraryTypeOK, Request
    <3>4. Keeps(serving'[q])
      BY <3>1, <3>3 DEF Keeps, FileOps, ThreadOps
    <3> QED BY <2>1, <2>2, <3>1, <3>2, <3>4
  <2>12. CASE \E f \in Files : \/ initiate_attachment(f) \/ ExpireUrl(f)
                               \/ \E c \in Content : ClientPut(f, c)
                               \/ \E q \in Requests, c \in Content : LateChunk(q, f, c)
    BY <2>5, <2>12 DEF initiate_attachment, ExpireUrl, ClientPut, LateChunk
  <2> QED BY <1>1, <2>5, <2>6, <2>7, <2>8, <2>9, <2>10, <2>11, <2>12 DEF LibraryNext, libraryVars
<1>2. LibraryIInv /\ [LibraryNext]_libraryVars =>
        [ThreadGone => \/ ThreadGone'
                       \/ \E q \in Requests : serving'[q].op = "restore" /\ InFlight(q)']_libraryVars
  BY <1>1
<1> QED BY <1>2, LibraryInductive, PTL DEF LibrarySpec, DeletionIsKept

-----------------------------------------------------------------------------
(***************************************************************************)
(* Memories.  Requests for one row overlap as they like, so a pending      *)
(* write says nothing of the row it will replace; the inductive invariant  *)
(* relates it to the copy it was made from.  A write whose copy is still   *)
(* the row takes nothing back, and one whose copy is stale leaves its mark *)
(* in clobbered.                                                           *)
(***************************************************************************)
PartialRows == UNION {[D -> MemoryRow] : D \in SUBSET Items}
CallRecord == [op : Ops, at : {"idle", "writing", "prior", "over"}, reads : PartialRows,
               writes : PartialRows]
MemoryTypes ==
  /\ database \in Databases
  /\ memory \in [Items -> MemoryRow]
  /\ opted_out \in BOOLEAN
  /\ clobbered \subseteq Items
  /\ call \in [Calls -> CallRecord]

Inserting == {"create", "ingest"}
HeldBy(c, i) == c.at \in {"writing", "prior"} /\ i \in DOMAIN c.writes

\* What op makes of old, the row it has read: w, where rows are all the rows.
Follows(op, old, w, rows) ==
  /\ w.status # "none"
  /\ op = "create" => w.supersedes = "none"
  /\ op = "ingest" => w.status = "PENDING_CONSENT"
  /\ (op = "ingest" /\ w.supersedes # "none") => rows[w.supersedes].status # "none"
  /\ op \notin Inserting => w.supersedes = old.supersedes
  /\ (op \notin Inserting /\ OutOf(old)) => OutOf(w)
  /\ op = "supersede" => OutOf(w)
\* A row keeps what it supersedes for life: the copies of it have it too.
SameMemory(op, old, row) ==
  IF op \in Inserting THEN row = NoMemory
  ELSE row.status # "none" /\ old.supersedes = row.supersedes

CallFollows(c, rows) ==
  /\ c.at = "prior" => c.op = "confirm"
  /\ DOMAIN c.reads = DOMAIN c.writes
  /\ \A i \in Items : HeldBy(c, i) =>
       /\ c.op # "build" => DOMAIN c.writes = {i}
       /\ Follows(c.op, c.reads[i], c.writes[i], rows)
       /\ c.at = "writing" => SameMemory(c.op, c.reads[i], rows[i])
       /\ c.at = "prior" => SameMemory(c.op, c.writes[i], rows[i])
CallsFollow == \A q \in Calls : CallFollows(call[q], memory)
OneInserter == \A q, r \in Calls, i \in Items :
  /\ HeldBy(call[q], i) /\ call[q].op \in Inserting
  /\ HeldBy(call[r], i) /\ call[r].op \in Inserting
  => q = r

PriorIsKnown ==
  \A i \in Items : memory[i].supersedes # "none" => memory[memory[i].supersedes].status # "none"

\* c is the confirmation of i, on its way to p, the memory that i supersedes.
PriorGoes(c, i, p) ==
  \/ c.op = "confirm" /\ c.at = "prior" /\ i \in DOMAIN c.writes /\ p = c.writes[i].supersedes
  \/ c.op = "supersede" /\ c.at = "writing" /\ p \in DOMAIN c.writes
Retired(i, p) ==
  p # "none" => \/ OutOf(memory[p])
                \/ p \in clobbered
                \/ \E q \in Calls : PriorGoes(call[q], i, p)
\* The copies of an ACTIVE memory count as it does: they may be written.
CopyIsRetired(c) ==
  \A i \in Items : /\ c.at = "writing" /\ c.op # "confirm" /\ i \in DOMAIN c.writes
                   /\ c.writes[i].status = "ACTIVE"
                   => Retired(i, c.writes[i].supersedes)
SupersededGoes ==
  /\ \A i \in Items : memory[i].status = "ACTIVE" => Retired(i, memory[i].supersedes)
  /\ \A q \in Calls : CopyIsRetired(call[q])

MemoriesIInv ==
  /\ MemoryTypes
  /\ CallsFollow
  /\ OneInserter
  /\ PriorIsKnown
  /\ SupersededGoes
  /\ ActiveIsConsented

\* One call moves, the others stay where they are.
LEMMA CallMoves ==
  ASSUME MemoryTypes, NEW q \in Calls, NEW c \in CallRecord, call' = [call EXCEPT ![q] = c]
  PROVE  /\ call' \in [Calls -> CallRecord] /\ call'[q] = c
         /\ \A r \in Calls : r # q => call'[r] = call[r]
BY DEF MemoryTypes

Consented(c) == \A i \in DOMAIN c.writes : c.writes[i].status = "ACTIVE" => c.writes[i].consented

\* A step of one call that leaves the rows alone: what the call holds afterwards
\* follows, it inserts what nobody else holds, its copies are retired as the rows
\* are, and a confirmation on its way goes on.
LEMMA CallTurns ==
  ASSUME MemoriesIInv, NEW q \in Calls, NEW c \in CallRecord, call' = [call EXCEPT ![q] = c],
         UNCHANGED <<database, memory, opted_out, clobbered>>,
         CallFollows(c, memory), Consented(c), CopyIsRetired(c),
         \A i \in Items, r \in Calls :
           HeldBy(c, i) /\ c.op \in Inserting /\ r # q => ~HeldBy(call[r], i),
         \A i, p \in Items : PriorGoes(call[q], i, p)
                             => OutOf(memory[p]) \/ p \in clobbered \/ PriorGoes(c, i, p)
  PROVE  MemoriesIInv'
<1>1. MemoryTypes /\ CallsFollow /\ OneInserter /\ PriorIsKnown /\ SupersededGoes /\ ActiveIsConsented
  BY DEF MemoriesIInv
<1>2. /\ call' \in [Calls -> CallRecord] /\ call'[q] = c
      /\ \A r \in Calls : r # q => call'[r] = call[r]
  BY <1>1, CallMoves
<1>3. MemoryTypes'
  BY <1>1, <1>2 DEF MemoryTypes
<1>4. CallsFollow'
  <2> SUFFICES ASSUME NEW r \in Calls PROVE CallFollows(call'[r], memory)
    BY DEF CallsFollow
  <2>1. CASE r = q
    BY <1>2, <2>1
  <2>2. CASE r # q
    BY <1>1, <1>2, <2>2 DEF CallsFollow
  <2> QED BY <2>1, <2>2
<1>5. OneInserter'
  <2> SUFFICES ASSUME NEW r \in Calls, NEW s \in Calls, NEW i \in Items,
                      HeldBy(call'[r], i), call'[r].op \in Inserting,
                      HeldBy(call'[s], i), call'[s].op \in Inserting
               PROVE  r = s
    BY DEF OneInserter
  <2>1. r # q /\ s # q => r = s
    BY <1>1, <1>2 DEF OneInserter
  <2>2. r = q /\ s # q => FALSE
    BY <1>2
  <2>3. s = q /\ r # q => FALSE
    BY <1>2
  <2> QED BY <2>1, <2>2, <2>3
<1>6. PriorIsKnown'
  BY <1>1 DEF PriorIsKnown
<1>7. ASSUME NEW i \in Items, NEW p \in Items \cup {"none"}, Retired(i, p) PROVE Retired(i, p)'
  <2> SUFFICES ASSUME p # "none", ~OutOf(memory[p]), p \notin clobbered
               PROVE  \E r \in Calls : PriorGoes(call'[r], i, p)
    BY DEF Retired
  <2>1. PICK r \in Calls : PriorGoes(call[r], i, p)
    BY <1>7 DEF Retired
  <2>2. CASE r = q
    BY <1>2, <2>1, <2>2
  <2>3. CASE r # q
    BY <1>2, <2>1, <2>3
  <2> QED BY <2>2, <2>3
<1>8. SupersededGoes'
  <2>1. ASSUME NEW i \in Items, memory[i].status = "ACTIVE" PROVE Retired(i, memory[i].supersedes)'
    <3>1. memory[i].supersedes \in Items \cup {"none"}
      BY <1>1 DEF MemoryTypes, MemoryRow
    <3> QED BY <1>1, <1>7, <2>1, <3>1 DEF SupersededGoes
  <2>2. ASSUME NEW r \in Calls, NEW i \in Items, call'[r].at = "writing", call'[r].op # "confirm",
               i \in DOMAIN call'[r].writes, call'[r].writes[i].status = "ACTIVE",
               NEW p, p = call'[r].writes[i].supersedes
        PROVE  Retired(i, p)'
    <3>1. p \in Items \cup {"none"}
      BY <1>2, <2>2 DEF CallRecord, PartialRows, MemoryRow
    <3>2. Retired(i, p)
      <4>1. CASE r = q
        BY <1>2, <2>2, <4>1 DEF CopyIsRetired
      <4>2. CASE r # q
        BY <1>1, <1>2, <2>2, <4>2 DEF SupersededGoes, CopyIsRetired
      <4> QED BY <4>1, <4>2
    <3> QED BY <1>7, <3>1, <3>2
  <2>3. ASSUME NEW r \in Calls PROVE CopyIsRetired(call[r])'
    <3> SUFFICES ASSUME NEW i \in Items, call'[r].at = "writing", call'[r].op # "confirm",
                        i \in DOMAIN call'[r].writes, call'[r].writes[i].status = "ACTIVE"
                 PROVE  Retired(i, call[r].writes[i].supersedes)'
      BY DEF CopyIsRetired
    <3> QED BY <2>2
  <2> QED BY <2>1, <2>3 DEF SupersededGoes
<1>9. ActiveIsConsented'
  <2> SUFFICES ASSUME NEW r \in Calls PROVE Consented(call'[r])
    BY <1>1 DEF ActiveIsConsented, Consented
  <2>1. CASE r = q
    BY <1>2, <2>1
  <2>2. CASE r # q
    BY <1>1, <1>2, <2>2 DEF ActiveIsConsented, Consented
  <2> QED BY <2>1, <2>2
<1> QED BY <1>3, <1>4, <1>5, <1>6, <1>8, <1>9 DEF MemoriesIInv

\* A call that has nothing pending holds nothing.
LEMMA RestingCall ==
  ASSUME NEW c, c.at \notin {"writing", "prior"}
  PROVE  /\ \A i \in Items : ~HeldBy(c, i)
         /\ \A i, p : ~PriorGoes(c, i, p)
         /\ CopyIsRetired(c)
BY DEF HeldBy, PriorGoes, CopyIsRetired

\* The record that Holding writes.
LEMMA HoldingRecord ==
  ASSUME NEW op \in Ops, NEW i \in Items, NEW row \in MemoryRow, MemoryTypes,
         NEW c, c = [op |-> op, at |-> "writing", reads |-> [j \in {i} |-> memory[i]],
                     writes |-> [j \in {i} |-> row]]
  PROVE  /\ c \in CallRecord /\ c.op = op /\ c.at = "writing"
         /\ DOMAIN c.writes = {i} /\ c.writes[i] = row
         /\ DOMAIN c.reads = {i} /\ c.reads[i] = memory[i]
<1>1. /\ [j \in {i} |-> row] \in [{i} -> MemoryRow] /\ {i} \in SUBSET Items
      /\ [j \in {i} |-> memory[i]] \in [{i} -> MemoryRow]
  BY DEF MemoryTypes
<1>2. [j \in {i} |-> row] \in PartialRows /\ [j \in {i} |-> memory[i]] \in PartialRows
  BY <1>1 DEF PartialRows
<1> QED BY <1>2 DEF CallRecord

\* A call takes up a write of one row, which it has just read.
LEMMA TakesUp ==
  ASSUME MemoriesIInv, NEW q \in Calls, NEW op \in Ops, NEW i \in Items,
         NEW row \in MemoryRow, Holding(q, op, i, row),
         UNCHANGED <<database, memory, opted_out, clobbered>>,
         Follows(op, memory[i], row, memory), op # "build",
         row.status = "ACTIVE" => row.consented,
         op \notin {"create", "confirm"} /\ row.status = "ACTIVE" => memory[i].status = "ACTIVE",
         (op \in Inserting) <=> (memory[i].status = "none"),
         op \in Inserting => NewId(i),
         \A k, p \in Items : PriorGoes(call[q], k, p) => op = "supersede" /\ i = p
  PROVE  MemoriesIInv'
<1> DEFINE c == [op |-> op, at |-> "writing", reads |-> [j \in {i} |-> memory[i]],
                 writes |-> [j \in {i} |-> row]]
<1>1. MemoryTypes
  BY DEF MemoriesIInv
<1>2. /\ c \in CallRecord /\ c.op = op /\ c.at = "writing"
      /\ DOMAIN c.writes = {i} /\ c.writes[i] = row
      /\ DOMAIN c.reads = {i} /\ c.reads[i] = memory[i]
  BY <1>1, HoldingRecord
<1>3. call' = [call EXCEPT ![q] = c]
  BY DEF Holding
<1> HIDE DEF c
<1>4. CallFollows(c, memory)
  BY <1>2 DEF CallFollows, HeldBy, SameMemory, NewId
<1>5. Consented(c)
  BY <1>2 DEF Consented
<1>6. CopyIsRetired(c)
  <2> SUFFICES ASSUME op # "confirm", row.status = "ACTIVE" PROVE Retired(i, row.supersedes)
    BY <1>2 DEF CopyIsRetired
  <2>1. CASE op = "create"
    BY <2>1 DEF Follows, Retired
  <2>2. CASE op # "create"
    <3>1. op \notin Inserting
      BY <2>2 DEF Follows, Inserting
    <3> QED BY <2>2, <3>1 DEF Follows, MemoriesIInv, SupersededGoes
  <2> QED BY <2>1, <2>2
<1>7. \A k \in Items, r \in Calls :
        HeldBy(c, k) /\ c.op \in Inserting /\ r # q => ~HeldBy(call[r], k)
  BY <1>2 DEF HeldBy, NewId, Holds, Pending
<1>8. \A k, p \in Items : PriorGoes(call[q], k, p) => PriorGoes(c, k, p)
  BY <1>2 DEF PriorGoes
<1> QED BY <1>2, <1>3, <1>4, <1>5, <1>6, <1>7, <1>8, CallTurns

LEMMA IdleIsACall ==
  /\ IdleCall \in CallRecord /\ IdleCall.at = "idle" /\ DOMAIN IdleCall.writes = {}
  /\ DOMAIN IdleCall.reads = {}
<1>1. [i \in {} |-> NoMemory] \in [{} -> MemoryRow]
  OBVIOUS
<1>2. [i \in {} |-> NoMemory] \in PartialRows
  BY <1>1 DEF PartialRows
<1> QED BY <1>2 DEF IdleCall, CallRecord, Ops

LEMMA FinishedIsOver ==
  /\ Finished \in CallRecord /\ Finished.at = "over" /\ DOMAIN Finished.writes = {}
  /\ DOMAIN Finished.reads = {}
<1> HIDE DEF IdleCall
<1> QED BY IdleIsACall DEF Finished, CallRecord

LEMMA AtRestFollows ==
  ASSUME NEW c, c.at \notin {"writing", "prior"}, DOMAIN c.writes = {}, DOMAIN c.reads = {}
  PROVE  (\A rows : CallFollows(c, rows)) /\ Consented(c) /\ CopyIsRetired(c)
BY DEF CallFollows, HeldBy, Consented, CopyIsRetired

\* A call is through.
LEMMA CallEnds ==
  ASSUME MemoriesIInv, NEW q \in Calls, CallOver(q),
         UNCHANGED <<database, memory, opted_out, clobbered>>,
         \A i, p \in Items : PriorGoes(call[q], i, p) => OutOf(memory[p])
  PROVE  MemoriesIInv'
<1>1. /\ Finished \in CallRecord /\ Finished.at = "over" /\ DOMAIN Finished.writes = {}
      /\ DOMAIN Finished.reads = {}
  BY FinishedIsOver
<1>2. call' = [call EXCEPT ![q] = Finished]
  BY DEF CallOver
<1> HIDE DEF Finished
<1>3. CallFollows(Finished, memory) /\ Consented(Finished) /\ CopyIsRetired(Finished)
  BY <1>1, AtRestFollows
<1>4. \A i \in Items : ~HeldBy(Finished, i)
  BY <1>1, RestingCall
<1> QED BY <1>1, <1>2, <1>3, <1>4, CallTurns

LEMMA NoMemoryIsARow ==
  NoMemory \in MemoryRow /\ NoMemory.status = "none" /\ NoMemory.supersedes = "none"
<1>1. /\ NoMemory.status = "none" /\ NoMemory.supersedes = "none"
  BY DEF NoMemory
<1> QED BY <1>1 DEF NoMemory, MemoryRow, MemoryStatus

\* The steps in which a call reads rows and holds its copies of them.
LEMMA CreateStep ==
  ASSUME MemoriesIInv, NEW q \in Calls, NEW i \in Items, BeginCreate(q, i)
  PROVE  MemoriesIInv'
<1> DEFINE row == [NoMemory EXCEPT !.status = "ACTIVE", !.consented = TRUE]
<1>1. row \in MemoryRow /\ row.status = "ACTIVE" /\ row.supersedes = "none" /\ row.consented
  BY NoMemoryIsARow DEF MemoryRow, MemoryStatus
<1>2. "create" \in Ops /\ "create" \in Inserting
  BY DEF Ops, Inserting
<1>3. /\ Holding(q, "create", i, row) /\ UNCHANGED <<database, memory, opted_out, clobbered>>
      /\ NewId(i) /\ call[q].at = "idle"
  BY DEF BeginCreate
<1> HIDE DEF row
<1>4. Follows("create", memory[i], row, memory) /\ memory[i].status = "none"
  BY <1>1, <1>3, NoMemoryIsARow DEF Follows, NewId, Inserting
<1>5. \A k, p : ~PriorGoes(call[q], k, p)
  BY <1>3, RestingCall
<1> QED BY <1>1, <1>2, <1>3, <1>4, <1>5, TakesUp

LEMMA IngestStep ==
  ASSUME MemoriesIInv, NEW q \in Calls, NEW i \in Items, BeginIngest(q, i)
  PROVE  MemoriesIInv'
<1>1. /\ call[q].at = "idle" /\ NewId(i) /\ memory[i] = NoMemory
      /\ UNCHANGED <<database, memory, opted_out, clobbered>>
  BY DEF BeginIngest, NewId
<1>2. \A k, p : ~PriorGoes(call[q], k, p)
  BY <1>1, RestingCall
<1>3. memory \in [Items -> MemoryRow] /\ ActiveIsConsented
  BY DEF MemoriesIInv, MemoryTypes
<1>4. ASSUME NEW d \in Items, Duplicate(d, i), Holding(q, "merge", d, memory[d])
      PROVE  MemoriesIInv'
  <2>1. memory[d].status \in {"PENDING_CONSENT", "ACTIVE"} /\ memory[d] \in MemoryRow
    BY <1>3, <1>4 DEF Duplicate, MemoryRow, MemoryStatus
  <2>2. Follows("merge", memory[d], memory[d], memory) /\ "merge" \notin Inserting
    BY <2>1 DEF Follows, Inserting
  <2>3. "merge" \in Ops
    BY DEF Ops
  <2>4. memory[d].status = "ACTIVE" => memory[d].consented
    BY <1>3 DEF ActiveIsConsented
  <2> QED BY <1>1, <1>2, <1>4, <2>1, <2>2, <2>3, <2>4, TakesUp
<1>5. ASSUME NEW d \in Items \cup {"none"}, d # "none" => _owned_memory(d),
             Holding(q, "ingest", i, [NoMemory EXCEPT !.status = "PENDING_CONSENT", !.supersedes = d])
      PROVE  MemoriesIInv'
  <2> DEFINE row == [NoMemory EXCEPT !.status = "PENDING_CONSENT", !.supersedes = d]
  <2>1. /\ row \in MemoryRow /\ row.status = "PENDING_CONSENT" /\ row.supersedes = d
    BY NoMemoryIsARow DEF MemoryRow, MemoryStatus
  <2>2. Holding(q, "ingest", i, row) /\ "ingest" \in Ops /\ "ingest" \in Inserting
    BY <1>5 DEF Ops, Inserting
  <2> HIDE DEF row
  <2>3. Follows("ingest", memory[i], row, memory) /\ memory[i].status = "none"
    BY <1>1, <1>5, <2>1, NoMemoryIsARow DEF Follows, _owned_memory, Inserting
  <2> QED BY <1>1, <1>2, <2>1, <2>2, <2>3, TakesUp
<1> QED BY <1>4, <1>5 DEF BeginIngest

LEMMA EditStep ==
  ASSUME MemoriesIInv, NEW q \in Calls, NEW i \in Items,
         NEW op \in {"patch", "archive", "revoke", "confirm"}, BeginEdit(q, i, op)
  PROVE  MemoriesIInv'
<1>1. /\ call[q].at = "idle" /\ _owned_memory(i)
      /\ UNCHANGED <<database, memory, opted_out, clobbered>>
      /\ Holding(q, op, i, Changed(op, memory[i]))
  BY DEF BeginEdit
<1>2. \A k, p : ~PriorGoes(call[q], k, p)
  BY <1>1, RestingCall
<1>3. memory[i] \in MemoryRow /\ (memory[i].status = "ACTIVE" => memory[i].consented)
  BY DEF MemoriesIInv, MemoryTypes, ActiveIsConsented
<1>4. ASSUME NEW row, row = Changed(op, memory[i])
      PROVE  /\ row \in MemoryRow /\ row.supersedes = memory[i].supersedes
             /\ memory[i].ended => row.ended
             /\ row.status = "ACTIVE" => /\ op = "confirm" \/ memory[i].status = "ACTIVE"
                                         /\ row.consented
             /\ row.status # "none"
  <2>1. CASE op = "archive"
    BY <1>1, <1>3, <1>4, <2>1 DEF Changed, MemoryRow, MemoryStatus
  <2>2. CASE op = "revoke"
    BY <1>1, <1>3, <1>4, <2>2 DEF Changed, MemoryRow, MemoryStatus
  <2>3. CASE op = "confirm"
    BY <1>1, <1>3, <1>4, <2>3 DEF Changed, Confirmed, MemoryRow, MemoryStatus
  <2>4. CASE op = "patch"
    BY <1>1, <1>3, <1>4, <2>4 DEF Changed, MemoryRow, MemoryStatus, _owned_memory
  <2> QED BY <2>1, <2>2, <2>3, <2>4
<1>5. /\ Follows(op, memory[i], Changed(op, memory[i]), memory) /\ op \notin Inserting
      /\ op # "build" /\ op # "create" /\ memory[i].status # "none"
  BY <1>1, <1>4 DEF Follows, _owned_memory, Inserting, OutOf
<1>6. op \in Ops /\ Changed(op, memory[i]) \in MemoryRow
  BY <1>4 DEF Ops
<1> QED BY <1>1, <1>2, <1>4, <1>5, <1>6, TakesUp

LEMMA DeleteStep ==
  ASSUME MemoriesIInv, NEW q \in Calls, NEW i \in Items, BeginDelete(q, i)
  PROVE  MemoriesIInv'
<1> DEFINE row == [memory[i] EXCEPT !.status = "DELETED"]
<1>1. /\ call[q].at = "idle" /\ _owned_memory(i)
      /\ UNCHANGED <<database, memory, opted_out, clobbered>> /\ Holding(q, "delete", i, row)
  BY DEF BeginDelete
<1>2. memory[i] \in MemoryRow
  BY DEF MemoriesIInv, MemoryTypes
<1>3. /\ row \in MemoryRow /\ row.supersedes = memory[i].supersedes /\ row.status = "DELETED"
  BY <1>2 DEF MemoryRow, MemoryStatus
<1> HIDE DEF row
<1>4. /\ Follows("delete", memory[i], row, memory) /\ "delete" \in Ops /\ "delete" \notin Inserting
      /\ memory[i].status # "none"
  BY <1>1, <1>3 DEF Follows, _owned_memory, Ops, Inserting, OutOf
<1>5. \A k, p : ~PriorGoes(call[q], k, p)
  BY <1>1, RestingCall
<1> QED BY <1>1, <1>3, <1>4, <1>5, TakesUp

LEMMA ReadPriorStep ==
  ASSUME MemoriesIInv, NEW q \in Calls, NEW i \in Items, NEW prior \in Items,
         ReadPrior(q, i, prior)
  PROVE  MemoriesIInv'
<1>1. /\ call[q].at = "prior" /\ i \in DOMAIN call[q].writes
      /\ prior = call[q].writes[i].supersedes
      /\ UNCHANGED <<database, memory, opted_out, clobbered>>
  BY DEF ReadPrior
<1>2. CallFollows(call[q], memory) /\ MemoryTypes /\ PriorIsKnown
  BY DEF MemoriesIInv, CallsFollow
<1>3. call[q].op = "confirm" /\ HeldBy(call[q], i)
  BY <1>1, <1>2 DEF CallFollows, HeldBy
<1>4. DOMAIN call[q].writes = {i} /\ prior = memory[i].supersedes
  BY <1>1, <1>2, <1>3 DEF CallFollows, SameMemory, Inserting
<1>5. memory[prior] \in MemoryRow /\ (prior # "none" => memory[prior].status # "none")
  BY <1>2, <1>4 DEF MemoryTypes, PriorIsKnown
<1>6. \A k, p \in Items : PriorGoes(call[q], k, p) => p = prior
  BY <1>1, <1>3, <1>4 DEF PriorGoes
<1>7. CASE _owned_memory(prior)
  <2> DEFINE row == [memory[prior] EXCEPT !.status = "SUPERSEDED", !.ended = TRUE]
  <2>1. Holding(q, "supersede", prior, row)
    BY <1>7 DEF ReadPrior
  <2>2. /\ row \in MemoryRow /\ row.supersedes = memory[prior].supersedes
        /\ row.ended /\ row.status = "SUPERSEDED"
    BY <1>5 DEF MemoryRow, MemoryStatus
  <2> HIDE DEF row
  <2>3. /\ Follows("supersede", memory[prior], row, memory) /\ "supersede" \in Ops
        /\ "supersede" \notin Inserting /\ memory[prior].status # "none"
    BY <1>7, <2>2 DEF Follows, _owned_memory, Ops, Inserting, OutOf
  <2> QED BY <1>1, <1>6, <2>1, <2>2, <2>3, TakesUp
<1>8. CASE ~_owned_memory(prior)
  <2>1. CallOver(q)
    BY <1>8 DEF ReadPrior
  <2>2. memory[prior].status # "none"
    BY <1>5, MemoriesAssumption
  <2>3. OutOf(memory[prior])
    BY <1>8, <2>2 DEF _owned_memory, OutOf
  <2> QED BY <1>1, <1>6, <2>1, <2>3, CallEnds
<1> QED BY <1>7, <1>8

LEMMA BuildStep ==
  ASSUME MemoriesIInv, NEW q \in Calls, BeginBuild(q)
  PROVE  MemoriesIInv'
<1> DEFINE D == {j \in Items : Listed(j)}
           rows == [i \in D |-> memory[i]]
           c == [op |-> "build", at |-> "writing", reads |-> rows, writes |-> rows]
<1>1. /\ call[q].at = "idle" /\ call' = [call EXCEPT ![q] = c]
      /\ UNCHANGED <<database, memory, opted_out, clobbered>>
  BY DEF BeginBuild
<1>2. memory \in [Items -> MemoryRow] /\ ActiveIsConsented /\ SupersededGoes
  BY DEF MemoriesIInv, MemoryTypes
<1>3. rows \in [D -> MemoryRow] /\ D \in SUBSET Items
  BY <1>2
<1>4. rows \in PartialRows
  BY <1>3 DEF PartialRows
<1>5. /\ c \in CallRecord /\ c.op = "build" /\ c.at = "writing" /\ DOMAIN c.writes = D
      /\ DOMAIN c.reads = D
      /\ \A i \in D : c.writes[i] = memory[i] /\ c.reads[i] = memory[i]
  BY <1>4 DEF CallRecord, Ops
<1>6. \A i \in D : i \in Items /\ memory[i].status = "ACTIVE"
  BY DEF Listed
<1>7. \A i \in D : Follows("build", memory[i], memory[i], memory)
  BY <1>6 DEF Follows, Inserting
<1>8. \A k, p : ~PriorGoes(call[q], k, p)
  BY <1>1, RestingCall
<1> HIDE DEF c, D, rows
<1>9. CallFollows(c, memory)
  BY <1>5, <1>6, <1>7 DEF CallFollows, HeldBy, SameMemory, Inserting
<1>10. Consented(c)
  BY <1>2, <1>5, <1>6 DEF Consented, ActiveIsConsented
<1>11. CopyIsRetired(c)
  BY <1>2, <1>5, <1>6 DEF CopyIsRetired, SupersededGoes
<1>12. c.op \notin Inserting
  BY <1>5 DEF Inserting
<1> QED BY <1>1, <1>5, <1>8, <1>9, <1>10, <1>11, <1>12, CallTurns

\* What reaches a row that the call writes: it is brought back only by a copy that
\* was stale, and becomes ACTIVE only by a confirmation or by a copy that was.
LEMMA WrittenFollows ==
  ASSUME MemoriesIInv, NEW q \in Calls, call[q].at = "writing", NEW i \in Items,
         i \in DOMAIN call[q].writes
  PROVE  LET w == Written(q, i) IN
         /\ w \in MemoryRow /\ w.status # "none"
         /\ OutOf(memory[i]) /\ ~OutOf(w) => IsStale(q, i)
         /\ call[q].op = "supersede" => OutOf(w)
         /\ w.supersedes # "none" => memory[w.supersedes].status # "none"
         /\ call[q].op \notin Inserting => w.supersedes = memory[i].supersedes
         /\ call[q].op = "confirm" => w = call[q].writes[i]
         /\ w.status = "ACTIVE" => \/ w = memory[i]
                                   \/ w = call[q].writes[i]
<1> DEFINE c == call[q]
           w == Written(q, i)
<1>1. memory[i] \in MemoryRow /\ c \in CallRecord /\ PriorIsKnown
  BY DEF MemoriesIInv, MemoryTypes
<1>2. c.writes[i] \in MemoryRow
  BY <1>1 DEF CallRecord, PartialRows
<1>3. HeldBy(c, i) /\ Follows(c.op, c.reads[i], c.writes[i], memory) /\ SameMemory(c.op, c.reads[i], memory[i])
  BY DEF MemoriesIInv, CallsFollow, CallFollows, HeldBy
<1>4. CASE database = "postgres" /\ c.op = "delete"
  <2>1. c.op \notin Inserting
    BY <1>4 DEF Inserting
  <2>2. memory[i].status # "none"
    BY <1>3, <2>1 DEF SameMemory
  <2>3. CASE _owned_memory(i)
    <3>1. w = [memory[i] EXCEPT !.status = "DELETED"]
      BY <1>4, <2>3 DEF Written
    <3>2. w \in MemoryRow /\ w.status = "DELETED" /\ w.supersedes = memory[i].supersedes
      BY <1>1, <3>1 DEF MemoryRow, MemoryStatus
    <3> HIDE DEF w
    <3>3. OutOf(w)
      BY <3>2 DEF OutOf
    <3> QED BY <1>1, <1>4, <3>2, <3>3 DEF PriorIsKnown, w
  <2>4. CASE ~_owned_memory(i)
    <3>1. w = memory[i]
      BY <1>4, <2>4 DEF Written
    <3> HIDE DEF w
    <3> QED BY <1>1, <1>4, <2>2, <3>1 DEF PriorIsKnown, w
  <2> QED BY <2>3, <2>4
<1>5. CASE database = "postgres" /\ c.op = "build"
  <2>1. w = memory[i] /\ c.op \notin Inserting
    BY <1>5 DEF Written, Inserting
  <2>2. memory[i].status # "none"
    BY <1>3, <2>1 DEF SameMemory
  <2> HIDE DEF w
  <2> QED BY <1>1, <1>5, <2>1, <2>2 DEF PriorIsKnown, w
<1>6. CASE ~(database = "postgres" /\ c.op \in {"delete", "build"})
  <2>1. w = c.writes[i]
    BY <1>6 DEF Written
  <2>2. OutOf(memory[i]) /\ ~OutOf(w) => IsStale(q, i)
    <3> SUFFICES ASSUME OutOf(memory[i]), ~OutOf(w), memory[i] = c.reads[i] PROVE FALSE
      BY <1>6 DEF IsStale
    <3>1. CASE c.op \in Inserting
      BY <1>3, <3>1 DEF SameMemory, OutOf, NoMemory
    <3>2. CASE c.op \notin Inserting
      BY <1>3, <2>1, <3>2 DEF Follows
    <3> QED BY <3>1, <3>2
  <2>3. w.supersedes # "none" => memory[w.supersedes].status # "none"
    <3>1. CASE c.op \in Inserting
      BY <1>3, <2>1, <3>1 DEF Follows, Inserting
    <3>2. CASE c.op \notin Inserting
      BY <1>1, <1>3, <2>1, <3>2 DEF Follows, SameMemory, PriorIsKnown
    <3> QED BY <3>1, <3>2
  <2>4. c.op \notin Inserting => w.supersedes = memory[i].supersedes
    BY <1>3, <2>1 DEF Follows, SameMemory
  <2> QED BY <1>2, <1>3, <2>1, <2>2, <2>3, <2>4 DEF Follows
<1> QED BY <1>4, <1>5, <1>6

LEMMA WriteStep ==
  ASSUME MemoriesIInv, NEW q \in Calls, WriteMemory(q)
  PROVE  MemoriesIInv'
<1>1. /\ MemoryTypes /\ CallsFollow /\ OneInserter /\ PriorIsKnown /\ SupersededGoes
      /\ ActiveIsConsented
  BY DEF MemoriesIInv
<1>2. call[q].at = "writing" /\ UNCHANGED <<database, opted_out>> /\ call[q] \in CallRecord
  BY <1>1 DEF WriteMemory, MemoryTypes
<1>3. memory' = [i \in Items |-> IF i \in DOMAIN call[q].writes THEN Written(q, i) ELSE memory[i]]
  BY DEF WriteMemory
<1>4. DOMAIN call[q].writes \subseteq Items
  BY <1>2 DEF CallRecord, PartialRows
<1>5. ASSUME NEW i \in Items
      PROVE  /\ memory'[i] \in MemoryRow
             /\ memory[i].status # "none" => memory'[i].status # "none"
             /\ OutOf(memory[i]) \/ i \in clobbered => OutOf(memory'[i]) \/ i \in clobbered'
             /\ call[q].op = "supersede" /\ i \in DOMAIN call[q].writes => OutOf(memory'[i])
             /\ memory'[i].supersedes # "none" => memory[memory'[i].supersedes].status # "none"
             /\ memory[i].status # "none" => memory'[i].supersedes = memory[i].supersedes
             /\ i \notin DOMAIN call[q].writes => memory'[i] = memory[i]
             /\ i \in DOMAIN call[q].writes /\ call[q].op = "confirm" => memory'[i] = call[q].writes[i]
             /\ memory'[i].status = "ACTIVE" => \/ memory'[i] = memory[i]
                                                \/ /\ i \in DOMAIN call[q].writes
                                                   /\ memory'[i] = call[q].writes[i]
  <2>1. memory[i] \in MemoryRow
    BY <1>1 DEF MemoryTypes
  <2>2. clobbered' = {k \in clobbered \cup {j \in DOMAIN call[q].writes : IsStale(q, j)} :
                       ~OutOf(memory'[k])}
    BY DEF WriteMemory
  <2>3. CASE i \notin DOMAIN call[q].writes
    <3>1. memory'[i] = memory[i]
      BY <1>3, <2>3
    <3> QED BY <1>1, <2>1, <2>2, <2>3, <3>1 DEF PriorIsKnown
  <2>4. CASE i \in DOMAIN call[q].writes
    <3> DEFINE w == Written(q, i)
    <3>1. memory'[i] = w
      BY <1>3, <2>4
    <3>2. /\ w \in MemoryRow /\ w.status # "none"
          /\ OutOf(memory[i]) /\ ~OutOf(w) => IsStale(q, i)
          /\ call[q].op = "supersede" => OutOf(w)
          /\ w.supersedes # "none" => memory[w.supersedes].status # "none"
          /\ call[q].op \notin Inserting => w.supersedes = memory[i].supersedes
          /\ call[q].op = "confirm" => w = call[q].writes[i]
          /\ w.status = "ACTIVE" => w = memory[i] \/ w = call[q].writes[i]
      BY <1>2, <2>4, WrittenFollows
    <3> HIDE DEF w
    <3>3. call[q].op \in Inserting => memory[i].status = "none"
      BY <1>1, <1>2, <2>4, NoMemoryIsARow DEF CallsFollow, CallFollows, HeldBy, SameMemory
    <3>4. OutOf(memory[i]) \/ i \in clobbered => OutOf(w) \/ i \in clobbered'
      BY <2>2, <2>4, <3>1, <3>2
    <3> QED BY <2>4, <3>1, <3>2, <3>3, <3>4
  <2> QED BY <2>3, <2>4
<1>6. memory' \in [Items -> MemoryRow]
  BY <1>3, <1>5
<1>7. PICK c \in CallRecord :
        /\ call' = [call EXCEPT ![q] = c]
        /\ \/ /\ c.at = "over" /\ DOMAIN c.writes = {} /\ DOMAIN c.reads = {}
              /\ \A i \in Items : i \in DOMAIN call[q].writes /\ call[q].op = "confirm"
                                  => memory'[i].supersedes = "none"
           \/ /\ c.at = "prior" /\ c.op = "confirm" /\ call[q].op = "confirm"
              /\ c.writes = call[q].writes /\ c.reads = call[q].reads
  <2>1. CASE call[q].op = "confirm" /\ \E i \in DOMAIN call[q].writes : call[q].writes[i].supersedes # "none"
    <3> DEFINE c == [call[q] EXCEPT !.at = "prior"]
    <3>1. /\ c \in CallRecord /\ c.at = "prior" /\ c.op = "confirm" /\ c.writes = call[q].writes
          /\ c.reads = call[q].reads
      BY <1>2, <2>1 DEF CallRecord
    <3>2. call' = [call EXCEPT ![q] = c]
      BY <2>1 DEF WriteMemory
    <3> HIDE DEF c
    <3> QED BY <2>1, <3>1, <3>2
  <2>2. CASE ~(call[q].op = "confirm" /\ \E i \in DOMAIN call[q].writes : call[q].writes[i].supersedes # "none")
    <3>1. call' = [call EXCEPT ![q] = Finished]
      BY <2>2 DEF WriteMemory, CallOver
    <3>2. \A i \in Items : i \in DOMAIN call[q].writes /\ call[q].op = "confirm"
                           => memory'[i].supersedes = "none"
      BY <1>5, <2>2
    <3> QED BY <3>1, <3>2, FinishedIsOver
  <2> QED BY <2>1, <2>2
<1>8. /\ call' \in [Calls -> CallRecord] /\ call'[q] = c
      /\ \A r \in Calls : r # q => call'[r] = call[r]
  BY <1>1, <1>7, CallMoves
<1>9. MemoryTypes'
  <2>1. clobbered' \subseteq Items
    BY <1>1, <1>4 DEF WriteMemory, MemoryTypes
  <2> QED BY <1>1, <1>2, <1>6, <1>8, <2>1 DEF MemoryTypes
<1>10. ASSUME NEW i \in Items, NEW r \in Calls, r # q, HeldBy(call[r], i), NEW old,
              SameMemory(call[r].op, old, memory[i])
       PROVE  SameMemory(call[r].op, old, memory'[i])
  <2>1. CASE call[r].op \in Inserting
    <3>1. i \notin DOMAIN call[q].writes
      <4> SUFFICES ASSUME i \in DOMAIN call[q].writes PROVE FALSE
        OBVIOUS
      <4>1. HeldBy(call[q], i) /\ memory[i].status = "none"
        BY <1>2, <1>10, <2>1, NoMemoryIsARow DEF HeldBy, SameMemory
      <4>2. call[q].op \in Inserting
        BY <1>1, <1>2, <4>1 DEF CallsFollow, CallFollows, SameMemory
      <4> QED BY <1>1, <1>10, <2>1, <4>1, <4>2 DEF OneInserter
    <3> QED BY <1>5, <1>10, <3>1
  <2>2. CASE call[r].op \notin Inserting
    BY <1>5, <1>10, <2>2 DEF SameMemory
  <2> QED BY <2>1, <2>2
<1>11. ASSUME NEW op, NEW old, NEW w, w.supersedes \in Items \cup {"none"}, Follows(op, old, w, memory)
       PROVE  Follows(op, old, w, memory')
  BY <1>5, <1>11 DEF Follows, Inserting
<1>12. CallsFollow'
  <2> SUFFICES ASSUME NEW r \in Calls PROVE CallFollows(call'[r], memory')
    BY DEF CallsFollow
  <2>1. CASE r = q /\ c.at = "over"
    BY <1>7, <1>8, <2>1, AtRestFollows
  <2>2. CASE r = q /\ c.at # "over"
    <3>1. /\ c.at = "prior" /\ c.op = "confirm" /\ call[q].op = "confirm"
          /\ c.writes = call[q].writes /\ c.reads = call[q].reads
      BY <1>7, <2>2
    <3>2. ASSUME NEW i \in Items, HeldBy(c, i)
          PROVE  /\ DOMAIN c.writes = {i} /\ Follows("confirm", c.reads[i], c.writes[i], memory')
                 /\ SameMemory("confirm", c.writes[i], memory'[i])
      <4>1. HeldBy(call[q], i) /\ i \in DOMAIN call[q].writes
        BY <1>2, <3>1, <3>2 DEF HeldBy
      <4>2. /\ DOMAIN c.writes = {i} /\ Follows("confirm", c.reads[i], c.writes[i], memory)
            /\ SameMemory("confirm", c.reads[i], memory[i])
        BY <1>1, <1>2, <3>1, <4>1 DEF CallsFollow, CallFollows
      <4>3. memory'[i] = c.writes[i] /\ memory'[i].supersedes \in Items \cup {"none"}
        BY <1>5, <3>1, <4>1 DEF MemoryRow
      <4>4. Follows("confirm", c.reads[i], c.writes[i], memory')
        BY <1>11, <4>2, <4>3
      <4>5. SameMemory("confirm", c.writes[i], memory'[i])
        BY <1>5, <4>2, <4>3 DEF SameMemory, Inserting
      <4> QED BY <4>2, <4>4, <4>5
    <3>3. DOMAIN c.reads = DOMAIN c.writes
      BY <1>1, <3>1 DEF CallsFollow, CallFollows
    <3> QED BY <1>8, <2>2, <3>1, <3>2, <3>3 DEF CallFollows
  <2>3. CASE r # q
    <3>1. CallFollows(call[r], memory) /\ call[r] \in CallRecord
      BY <1>1 DEF CallsFollow, MemoryTypes
    <3>2. \A i \in Items : HeldBy(call[r], i) => call[r].writes[i].supersedes \in Items \cup {"none"}
      BY <3>1 DEF HeldBy, CallRecord, PartialRows, MemoryRow
    <3>3. \A i \in Items : HeldBy(call[r], i) => Follows(call[r].op, call[r].reads[i], call[r].writes[i], memory')
      BY <1>11, <3>1, <3>2 DEF CallFollows
    <3>4. \A i \in Items : HeldBy(call[r], i) =>
            /\ call[r].at = "writing" => SameMemory(call[r].op, call[r].reads[i], memory'[i])
            /\ call[r].at = "prior" => SameMemory(call[r].op, call[r].writes[i], memory'[i])
      BY <1>10, <2>3, <3>1 DEF CallFollows
    <3> QED BY <1>8, <2>3, <3>1, <3>3, <3>4 DEF CallFollows
  <2> QED BY <2>1, <2>2, <2>3
<1>13. OneInserter'
  <2>1. \A r \in Calls, i \in Items : HeldBy(call'[r], i) => HeldBy(call[r], i) /\ call'[r].op = call[r].op
    <3> SUFFICES ASSUME NEW r \in Calls, NEW i \in Items, HeldBy(call'[r], i)
                 PROVE  HeldBy(call[r], i) /\ call'[r].op = call[r].op
      OBVIOUS
    <3>1. CASE r # q
      BY <1>8, <3>1
    <3>2. CASE r = q
      BY <1>2, <1>7, <1>8, <3>2 DEF HeldBy
    <3> QED BY <3>1, <3>2
  <2> QED BY <1>1, <2>1 DEF OneInserter
<1>14. PriorIsKnown'
  <2> SUFFICES ASSUME NEW i \in Items, memory'[i].supersedes # "none"
               PROVE  memory'[memory'[i].supersedes].status # "none"
    BY DEF PriorIsKnown
  <2>1. memory'[i].supersedes \in Items
    BY <1>6 DEF MemoryRow
  <2> QED BY <1>5, <2>1
<1>15. ASSUME NEW i \in Items, NEW p \in Items \cup {"none"}, Retired(i, p) PROVE Retired(i, p)'
  <2> SUFFICES ASSUME p # "none", ~OutOf(memory'[p]), p \notin clobbered'
               PROVE  \E r \in Calls : PriorGoes(call'[r], i, p)
    BY DEF Retired
  <2>1. ~OutOf(memory[p]) /\ p \notin clobbered
    BY <1>5
  <2>2. PICK r \in Calls : PriorGoes(call[r], i, p)
    BY <1>15, <2>1 DEF Retired
  <2>3. r # q
    <3> SUFFICES ASSUME r = q PROVE FALSE
      OBVIOUS
    <3>1. call[q].op = "supersede" /\ p \in DOMAIN call[q].writes
      BY <1>2, <2>2 DEF PriorGoes
    <3> QED BY <1>5, <3>1
  <2>4. PriorGoes(call'[r], i, p)
    BY <1>8, <2>2, <2>3
  <2> QED BY <2>4
<1>16. ASSUME NEW i \in Items, memory'[i].status = "ACTIVE", NEW p, p = memory'[i].supersedes
       PROVE  Retired(i, p)'
  <2>1. p \in Items \cup {"none"}
    BY <1>6, <1>16 DEF MemoryRow
  <2>2. CASE memory'[i] = memory[i]
    BY <1>1, <1>15, <1>16, <2>1, <2>2 DEF SupersededGoes
  <2>3. CASE i \in DOMAIN call[q].writes /\ memory'[i] = call[q].writes[i]
    <3>1. CASE call[q].op # "confirm"
      <4>1. Retired(i, p)
        BY <1>1, <1>2, <1>16, <2>3, <3>1 DEF SupersededGoes, CopyIsRetired
      <4> QED BY <1>15, <2>1, <4>1
    <3>2. CASE call[q].op = "confirm" /\ c.at = "over"
      <4>1. p = "none"
        BY <1>7, <1>16, <2>3, <3>2
      <4> QED BY <4>1 DEF Retired
    <3>3. CASE call[q].op = "confirm" /\ c.at # "over"
      <4>1. PriorGoes(call'[q], i, p)
        BY <1>7, <1>8, <1>16, <2>3, <3>3 DEF PriorGoes
      <4> QED BY <4>1 DEF Retired
    <3> QED BY <3>1, <3>2, <3>3
  <2> QED BY <1>5, <1>16, <2>2, <2>3
<1>17. ASSUME NEW r \in Calls PROVE CopyIsRetired(call[r])'
  <2> SUFFICES ASSUME NEW i \in Items, call'[r].at = "writing", call'[r].op # "confirm",
                      i \in DOMAIN call'[r].writes, call'[r].writes[i].status = "ACTIVE",
                      NEW p, p = call'[r].writes[i].supersedes
               PROVE  Retired(i, p)'
    BY DEF CopyIsRetired
  <2>1. r # q /\ call'[r] = call[r]
    BY <1>7, <1>8
  <2>2. p \in Items \cup {"none"}
    BY <1>8 DEF CallRecord, PartialRows, MemoryRow
  <2>3. Retired(i, p)
    BY <1>1, <2>1 DEF SupersededGoes, CopyIsRetired
  <2> QED BY <1>15, <2>2, <2>3
<1>18. SupersededGoes'
  BY <1>16, <1>17 DEF SupersededGoes
<1>19. ActiveIsConsented'
  <2>1. \A i \in Items : memory'[i].status = "ACTIVE" => memory'[i].consented
    BY <1>1, <1>5 DEF ActiveIsConsented
  <2>2. ASSUME NEW r \in Calls PROVE Consented(call'[r])
    <3>1. CASE r # q
      BY <1>1, <1>8, <3>1 DEF ActiveIsConsented, Consented
    <3>2. CASE r = q
      BY <1>1, <1>7, <1>8, <3>2 DEF ActiveIsConsented, Consented
    <3> QED BY <3>1, <3>2
  <2> QED BY <2>1, <2>2 DEF ActiveIsConsented, Consented
<1> QED BY <1>9, <1>12, <1>13, <1>14, <1>18, <1>19 DEF MemoriesIInv

LEMMA PreferenceStep ==
  ASSUME MemoriesIInv, NEW b \in BOOLEAN, set_memory_preference(b)
  PROVE  MemoriesIInv'
<1>1. /\ database' = database /\ memory' = memory /\ call' = call /\ clobbered' = clobbered
      /\ opted_out' \in BOOLEAN
  BY DEF set_memory_preference
<1>2. MemoryTypes'
  BY <1>1 DEF MemoriesIInv, MemoryTypes
<1>3. (CallsFollow /\ OneInserter /\ PriorIsKnown /\ SupersededGoes /\ ActiveIsConsented)'
  BY <1>1 DEF MemoriesIInv, CallsFollow, OneInserter, PriorIsKnown, SupersededGoes, CopyIsRetired,
              Retired, ActiveIsConsented
<1> QED BY <1>2, <1>3 DEF MemoriesIInv

LEMMA MemoriesKept ==
  ASSUME MemoriesIInv, [MemoriesNext]_memoryVars
  PROVE  MemoriesIInv'
<1>1. CASE MemoriesNext
  BY <1>1, PreferenceStep, BuildStep, WriteStep, CreateStep, IngestStep, DeleteStep, EditStep,
     ReadPriorStep DEF MemoriesNext
<1>2. CASE UNCHANGED memoryVars
  BY <1>2 DEF memoryVars, MemoriesIInv, MemoryTypes, CallsFollow, OneInserter, PriorIsKnown,
              SupersededGoes, CopyIsRetired, Retired, ActiveIsConsented
<1> QED BY <1>1, <1>2

\* The inductive invariant of the memories, however the requests for one overlap.
THEOREM MemoriesInductive == MemoriesSpec => []MemoriesIInv
<1>1. MemoriesInit => MemoriesIInv
  <2> SUFFICES ASSUME MemoriesInit PROVE MemoriesIInv
    OBVIOUS
  <2>1. /\ IdleCall \in CallRecord /\ IdleCall.at = "idle" /\ DOMAIN IdleCall.writes = {}
        /\ DOMAIN IdleCall.reads = {}
    BY IdleIsACall
  <2>2. /\ \A q \in Calls : call[q] = IdleCall
        /\ \A i \in Items : memory[i] = NoMemory
    BY DEF MemoriesInit
  <2>3. MemoryTypes
    BY <2>1, NoMemoryIsARow DEF MemoriesInit, MemoryTypes
  <2>4. \A q \in Calls : /\ CallFollows(call[q], memory) /\ Consented(call[q])
                         /\ CopyIsRetired(call[q])
                         /\ \A i \in Items : ~HeldBy(call[q], i)
    BY <2>1, <2>2, AtRestFollows, RestingCall
  <2> QED BY <2>2, <2>3, <2>4, NoMemoryIsARow DEF MemoriesIInv, CallsFollow, OneInserter, PriorIsKnown,
                                                  SupersededGoes, ActiveIsConsented, Consented
<1>2. MemoriesIInv /\ [MemoriesNext]_memoryVars => MemoriesIInv'
  BY MemoriesKept
<1> QED BY <1>1, <1>2, PTL DEF MemoriesSpec

\* A superseded memory stays out of later contexts unless an older copy of it is
\* written back, and no memory is ACTIVE without consent: for any number of
\* requests, in any overlap.
THEOREM MemoriesStayAsTold == MemoriesSpec => []MemoriesInv
<1>1. MemoriesIInv => MemoriesInv
  <2> SUFFICES ASSUME MemoriesIInv PROVE MemoriesInv
    OBVIOUS
  <2>1. MemoryTypes /\ CallsFollow /\ SupersededGoes
    BY DEF MemoriesIInv
  <2>2. MemoriesTypeOK
    <3>1. \A q \in Calls : call[q] \in CallRecord /\ DOMAIN call[q].reads = DOMAIN call[q].writes
      BY <2>1 DEF MemoryTypes, CallsFollow, CallFollows
    <3> QED BY <2>1, <3>1 DEF MemoryTypes, MemoriesTypeOK, CallRecord, PartialRows
  <2>3. SupersededStaysOut
    <3> SUFFICES ASSUME NEW i \in Items, memory[i].status = "ACTIVE", memory[i].supersedes # "none",
                        Listed(memory[i].supersedes), memory[i].supersedes \notin clobbered
                 PROVE  \/ \E q \in Calls : call[q].op = "confirm" /\ Holds(q, i)
                        \/ \E q \in Calls : call[q].op = "supersede" /\ Holds(q, memory[i].supersedes)
      BY DEF SupersededStaysOut
    <3>1. ~OutOf(memory[memory[i].supersedes])
      BY DEF Listed, OutOf
    <3>2. PICK q \in Calls : PriorGoes(call[q], i, memory[i].supersedes)
      BY <2>1, <3>1 DEF SupersededGoes, Retired
    <3> QED BY <3>2 DEF PriorGoes, Holds, Pending
  <2> QED BY <2>2, <2>3 DEF MemoriesInv, MemoriesIInv
<1> QED BY <1>1, MemoriesInductive, PTL

\* A request that begins holds copies of the rows as they are, and the others keep
\* what they hold.
ReadsNow(q) ==
  /\ \A r \in Calls : r # q => call'[r] = call[r]
  /\ \A i \in Items : HeldBy(call'[q], i) => call'[q].reads[i] = memory[i]
LEMMA HoldingReadsNow ==
  ASSUME MemoriesIInv, NEW q \in Calls, NEW op, NEW i \in Items, NEW row, Holding(q, op, i, row)
  PROVE  ReadsNow(q)
<1>1. MemoryTypes
  BY DEF MemoriesIInv
<1>2. /\ call'[q] = [op |-> op, at |-> "writing", reads |-> [j \in {i} |-> memory[i]],
                     writes |-> [j \in {i} |-> row]]
      /\ \A r \in Calls : r # q => call'[r] = call[r]
  BY <1>1 DEF Holding, MemoryTypes
<1> QED BY <1>2 DEF ReadsNow, HeldBy

LEMMA EndReadsNow ==
  ASSUME MemoriesIInv, NEW q \in Calls, CallOver(q)
  PROVE  ReadsNow(q)
<1>1. MemoryTypes
  BY DEF MemoriesIInv
<1>2. call'[q] = Finished /\ \A r \in Calls : r # q => call'[r] = call[r]
  BY <1>1 DEF CallOver, MemoryTypes
<1> QED BY <1>2, FinishedIsOver DEF ReadsNow, HeldBy

LEMMA StepReadsNow ==
  ASSUME MemoriesIInv, MemoriesNext
  PROVE  \/ \E q \in Calls : WriteMemory(q)
         \/ UNCHANGED <<database, memory, call>>
         \/ UNCHANGED <<database, memory>> /\ \E q \in Calls : ReadsNow(q)
<1>1. ASSUME NEW q \in Calls, BeginBuild(q) PROVE UNCHANGED <<database, memory>> /\ ReadsNow(q)
  <2> DEFINE rows == [i \in {j \in Items : Listed(j)} |-> memory[i]]
  <2>1. /\ call'[q] = [op |-> "build", at |-> "writing", reads |-> rows, writes |-> rows]
        /\ \A r \in Calls : r # q => call'[r] = call[r]
    BY <1>1 DEF BeginBuild, MemoriesIInv, MemoryTypes
  <2> QED BY <1>1, <2>1 DEF BeginBuild, ReadsNow, HeldBy
<1>2. ASSUME NEW q \in Calls, NEW i \in Items, BeginCreate(q, i)
      PROVE  UNCHANGED <<database, memory>> /\ ReadsNow(q)
  BY <1>2, HoldingReadsNow DEF BeginCreate
<1>3. ASSUME NEW q \in Calls, NEW i \in Items, BeginIngest(q, i)
      PROVE  UNCHANGED <<database, memory>> /\ ReadsNow(q)
  BY <1>3, HoldingReadsNow DEF BeginIngest
<1>4. ASSUME NEW q \in Calls, NEW i \in Items, BeginDelete(q, i)
      PROVE  UNCHANGED <<database, memory>> /\ ReadsNow(q)
  BY <1>4, HoldingReadsNow DEF BeginDelete
<1>5. ASSUME NEW q \in Calls, NEW i \in Items, NEW op, BeginEdit(q, i, op)
      PROVE  UNCHANGED <<database, memory>> /\ ReadsNow(q)
  BY <1>5, HoldingReadsNow DEF BeginEdit
<1>6. ASSUME NEW q \in Calls, NEW i \in Items, NEW prior \in Items, ReadPrior(q, i, prior)
      PROVE  UNCHANGED <<database, memory>> /\ ReadsNow(q)
  BY <1>6, HoldingReadsNow, EndReadsNow DEF ReadPrior
<1> QED BY <1>1, <1>2, <1>3, <1>4, <1>5, <1>6 DEF MemoriesNext, set_memory_preference

\* A memory that is gone (deleted, revoked or superseded, with no older copy about
\* to be written over it) stays gone, whatever is asked later.
THEOREM GoneIsGone == MemoriesSpec => ForgottenForGood
<1>1. ASSUME MemoriesIInv, MemoriesIInv', MemoriesNext, NEW i \in Items, Gone(i)
      PROVE  Gone(i)'
  <2>1. /\ OutOf(memory[i])
        /\ \A q \in Calls : call[q].at = "writing" /\ Holds(q, i) => OutOf(Written(q, i))
    BY <1>1 DEF Gone, OutOf
  <2>2. ASSUME NEW q \in Calls, WriteMemory(q) PROVE Gone(i)'
    <3>1. /\ call[q].at = "writing" /\ database' = database
          /\ memory'[i] = IF i \in DOMAIN call[q].writes THEN Written(q, i) ELSE memory[i]
      BY <2>2 DEF WriteMemory
    <3>2. OutOf(memory'[i])
      BY <2>1, <3>1 DEF Holds, Pending
    <3>3. call'[q].at # "writing" /\ \A r \in Calls : r # q => call'[r] = call[r]
      <4>1. \/ call' = [call EXCEPT ![q].at = "prior"]
            \/ call' = [call EXCEPT ![q] = Finished]
        BY <2>2 DEF WriteMemory, CallOver
      <4> QED BY <1>1, <4>1, FinishedIsOver DEF MemoriesIInv, MemoryTypes, CallRecord
    <3>4. ASSUME NEW r \in Calls, call'[r].at = "writing", i \in DOMAIN call'[r].writes
          PROVE  OutOf(Written(r, i)')
      <4>1. call'[r] = call[r] /\ OutOf(Written(r, i))
        BY <2>1, <3>3, <3>4 DEF Holds, Pending
      <4>2. memory'[i] \in MemoryRow
        BY <1>1 DEF MemoriesIInv, MemoryTypes
      <4>3. OutOf([memory'[i] EXCEPT !.status = "DELETED"])
        BY <4>2 DEF OutOf, MemoryRow
      <4>4. ~(database = "postgres" /\ (call[r].op = "delete" \/ call[r].op = "build"))
            => OutOf(call[r].writes[i])
        BY <4>1 DEF Written
      <4> QED BY <3>1, <3>2, <4>1, <4>3, <4>4 DEF Written
    <3> QED BY <3>2, <3>4 DEF Gone, Holds
  <2>3. CASE UNCHANGED <<database, memory, call>>
    BY <1>1, <2>3 DEF Gone, Holds, Pending, Written, _owned_memory, OutOf
  <2>4. ASSUME UNCHANGED <<database, memory>>, NEW q \in Calls, ReadsNow(q) PROVE Gone(i)'
    <3> SUFFICES ASSUME NEW r \in Calls, call'[r].at = "writing", i \in DOMAIN call'[r].writes
                 PROVE  OutOf(Written(r, i)')
      BY <2>1, <2>4 DEF Gone, Holds
    <3>1. CASE r # q
      <4>1. call'[r] = call[r] /\ OutOf(Written(r, i))
        BY <2>1, <2>4, <3>1 DEF ReadsNow, Holds, Pending
      <4> QED BY <2>4, <4>1 DEF Written, _owned_memory
    <3>2. CASE r = q
      <4>1. HeldBy(call'[q], i) /\ call'[q].reads[i] = memory[i]
        BY <2>4, <3>2 DEF ReadsNow, HeldBy
      <4>2. /\ Follows(call'[q].op, call'[q].reads[i], call'[q].writes[i], memory')
            /\ SameMemory(call'[q].op, call'[q].reads[i], memory'[i])
        BY <1>1, <3>2, <4>1 DEF MemoriesIInv, CallsFollow, CallFollows
      <4>3. call'[q].op \notin Inserting
        BY <1>1, <2>1, <2>4, <4>2 DEF SameMemory, NoMemory, OutOf
      <4>4. OutOf(call'[q].writes[i])
        BY <2>1, <4>1, <4>2, <4>3 DEF Follows
      <4> QED BY <2>1, <2>4, <3>2, <4>4 DEF Written, OutOf
    <3> QED BY <3>1, <3>2
  <2> QED BY <1>1, <2>2, <2>3, <2>4, StepReadsNow
<1>2. ASSUME MemoriesIInv, MemoriesIInv', [MemoriesNext]_memoryVars
      PROVE  [\A i \in Items : Gone(i) => Gone(i)']_memoryVars
  BY <1>1, <1>2
<1> QED BY <1>2, MemoriesInductive, PTL DEF MemoriesSpec, ForgottenForGood


-----------------------------------------------------------------------------
(* FileStore.                                                              *)

RowNames == {"seed", "run", "message", "evidence", "finished", "outcome", "reply", "completed", "title"}
RowSet == Writers \X RowNames
StepOf(w, s) == Script[Does[w]][s]
LastStep(w) == Len(Script[Does[w]])
RowsOf(w, s) == {<<w, StepOf(w, s).rows[i]>> : i \in DOMAIN StepOf(w, s).rows}
Operating(r) == r.at \notin {"ready", "over"}
Works(r, w, f) == Operating(r) /\ StepOf(w, r.step).file = f

WriterRecord ==
  [at: {"ready", "changed", "unit", "save", "open", "fill", "rename", "over"},
   step: Nat, row: {1, 2}, before: SUBSET RowSet, snap: SUBSET RowSet]

\* The three operations, step by step: the shape of Script.
LEMMA ScriptTable ==
  ASSUME NEW w \in Writers
  PROVE
  \/ /\ Does[w] = "submit" /\ LastStep(w) = 2
     /\ StepOf(w, 1) = [file |-> "missions", rows |-> <<"seed">>]
     /\ StepOf(w, 2) = [file |-> "conversations", rows |-> <<"run", "message">>]
  \/ /\ Does[w] = "finish" /\ LastStep(w) = 5
     /\ StepOf(w, 1) = [file |-> "v3_artifacts", rows |-> <<"evidence">>]
     /\ StepOf(w, 2) = [file |-> "v3_missions", rows |-> <<"finished">>]
     /\ StepOf(w, 3) = [file |-> "missions", rows |-> <<"outcome">>]
     /\ StepOf(w, 4) = [file |-> "conversations", rows |-> <<"reply">>]
     /\ StepOf(w, 5) = [file |-> "conversations", rows |-> <<"completed">>]
  \/ /\ Does[w] = "rename" /\ LastStep(w) = 1
     /\ StepOf(w, 1) = [file |-> "conversations", rows |-> <<"title">>]
<1>1. Does[w] \in {"submit", "finish", "rename"}
  BY FileStoreAssumption DEF Script
<1>2. CASE Does[w] = "submit"
  <2>1. Script["submit"] = <<[file |-> "missions", rows |-> <<"seed">>],
               [file |-> "conversations", rows |-> <<"run", "message">>]>>
    BY DEF Script
  <2> QED BY <1>2, <2>1 DEF StepOf, LastStep
<1>3. CASE Does[w] = "finish"
  <2>1. Script["finish"] = <<[file |-> "v3_artifacts", rows |-> <<"evidence">>],
               [file |-> "v3_missions", rows |-> <<"finished">>],
               [file |-> "missions", rows |-> <<"outcome">>],
               [file |-> "conversations", rows |-> <<"reply">>],
               [file |-> "conversations", rows |-> <<"completed">>]>>
    BY DEF Script
  <2> QED BY <1>3, <2>1 DEF StepOf, LastStep
<1>4. CASE Does[w] = "rename"
  <2>1. Script["rename"] = <<[file |-> "conversations", rows |-> <<"title">>]>>
    BY DEF Script
  <2> QED BY <1>4, <2>1 DEF StepOf, LastStep
<1> QED BY <1>1, <1>2, <1>3, <1>4

\* The rows a step of one row, or of two, puts into its file.
LEMMA RowsOfOne ==
  ASSUME NEW w, NEW s, NEW f, NEW n, StepOf(w, s) = [file |-> f, rows |-> <<n>>]
  PROVE  StepOf(w, s).file = f /\ RowsOf(w, s) = {<<w, n>>} /\ Len(StepOf(w, s).rows) = 1
         /\ StepOf(w, s).rows[1] = n /\ DOMAIN StepOf(w, s).rows = {1}
<1>1. StepOf(w, s).rows = <<n>> /\ StepOf(w, s).file = f  OBVIOUS
<1>2. DOMAIN <<n>> = {1} /\ Len(<<n>>) = 1 /\ <<n>>[1] = n  OBVIOUS
<1>3. RowsOf(w, s) = {<<w, <<n>>[i]>> : i \in {1}}  BY <1>1, <1>2 DEF RowsOf
<1> QED BY <1>1, <1>2, <1>3
LEMMA RowsOfTwo ==
  ASSUME NEW w, NEW s, NEW f, NEW n, NEW o, StepOf(w, s) = [file |-> f, rows |-> <<n, o>>]
  PROVE  StepOf(w, s).file = f /\ RowsOf(w, s) = {<<w, n>>, <<w, o>>} /\ Len(StepOf(w, s).rows) = 2
         /\ StepOf(w, s).rows[1] = n /\ StepOf(w, s).rows[2] = o /\ DOMAIN StepOf(w, s).rows = {1, 2}
<1>1. StepOf(w, s).rows = <<n, o>> /\ StepOf(w, s).file = f  OBVIOUS
<1>2. DOMAIN <<n, o>> = {1, 2} /\ Len(<<n, o>>) = 2 /\ <<n, o>>[1] = n /\ <<n, o>>[2] = o  OBVIOUS
<1>3. RowsOf(w, s) = {<<w, <<n, o>>[i]>> : i \in {1, 2}}  BY <1>1, <1>2 DEF RowsOf
<1> QED BY <1>1, <1>2, <1>3

\* What every step of every operation has: its file, and the one row it adds,
\* or the two of a unit of work, which is a submission's second step.
Single(w, s) ==
  /\ Len(StepOf(w, s).rows) = 1 /\ DOMAIN StepOf(w, s).rows = {1}
  /\ StepOf(w, s).rows[1] \in RowNames \ {"run", "message"}
  /\ RowsOf(w, s) = {<<w, StepOf(w, s).rows[1]>>}
Double(w, s) ==
  /\ Len(StepOf(w, s).rows) = 2 /\ DOMAIN StepOf(w, s).rows = {1, 2}
  /\ StepOf(w, s).rows[1] = "run" /\ StepOf(w, s).rows[2] = "message"
  /\ StepOf(w, s).file = "conversations"
  /\ RowsOf(w, s) = {<<w, "run">>, <<w, "message">>}
LEMMA StepFacts ==
  ASSUME NEW w \in Writers, NEW s \in 1..LastStep(w)
  PROVE  StepOf(w, s).file \in JsonFiles /\ (Single(w, s) \/ Double(w, s)) /\ LastStep(w) \in Nat
<1>1. CASE /\ Does[w] = "submit" /\ LastStep(w) = 2
           /\ StepOf(w, 1) = [file |-> "missions", rows |-> <<"seed">>]
           /\ StepOf(w, 2) = [file |-> "conversations", rows |-> <<"run", "message">>]
  <2>1. s = 1 \/ s = 2  BY <1>1
  <2>2. CASE s = 1  BY <1>1, <2>2, RowsOfOne DEF Single, JsonFiles, RowNames
  <2>3. CASE s = 2  BY <1>1, <2>3, RowsOfTwo DEF Double, JsonFiles
  <2> QED BY <2>1, <2>2, <2>3
<1>2. CASE /\ Does[w] = "finish" /\ LastStep(w) = 5
           /\ StepOf(w, 1) = [file |-> "v3_artifacts", rows |-> <<"evidence">>]
           /\ StepOf(w, 2) = [file |-> "v3_missions", rows |-> <<"finished">>]
           /\ StepOf(w, 3) = [file |-> "missions", rows |-> <<"outcome">>]
           /\ StepOf(w, 4) = [file |-> "conversations", rows |-> <<"reply">>]
           /\ StepOf(w, 5) = [file |-> "conversations", rows |-> <<"completed">>]
  <2>1. s \in {1, 2, 3, 4, 5}  BY <1>2
  <2>2. CASE s = 1  BY <1>2, <2>2, RowsOfOne DEF Single, JsonFiles, RowNames
  <2>3. CASE s = 2  BY <1>2, <2>3, RowsOfOne DEF Single, JsonFiles, RowNames
  <2>4. CASE s = 3  BY <1>2, <2>4, RowsOfOne DEF Single, JsonFiles, RowNames
  <2>5. CASE s = 4  BY <1>2, <2>5, RowsOfOne DEF Single, JsonFiles, RowNames
  <2>6. CASE s = 5  BY <1>2, <2>6, RowsOfOne DEF Single, JsonFiles, RowNames
  <2> QED BY <2>1, <2>2, <2>3, <2>4, <2>5, <2>6, <1>2
<1>3. CASE /\ Does[w] = "rename" /\ LastStep(w) = 1
           /\ StepOf(w, 1) = [file |-> "conversations", rows |-> <<"title">>]
  <2>1. s = 1  BY <1>3
  <2> QED BY <1>3, <2>1, RowsOfOne DEF Single, JsonFiles, RowNames
<1> QED BY ScriptTable, <1>1, <1>2, <1>3
LEMMA RowsTyped ==
  ASSUME NEW w \in Writers, NEW s \in 1..LastStep(w)
  PROVE  /\ RowsOf(w, s) \subseteq RowSet
         /\ \A v \in Writers : /\ <<v, "run">> \in RowsOf(w, s) <=> v = w /\ Double(w, s)
                               /\ <<v, "message">> \in RowsOf(w, s) <=> v = w /\ Double(w, s)
         /\ \A v \in Writers, n \in RowNames : <<v, n>> \in RowsOf(w, s) => v = w
<1>1. CASE Single(w, s)
  <2>1. ~Double(w, s)  BY <1>1 DEF Single, Double
  <2> QED BY <1>1, <2>1 DEF Single, RowSet
<1>2. CASE Double(w, s)
  BY <1>2 DEF Double, RowSet, RowNames
<1> QED BY StepFacts, <1>1, <1>2

\* Moving a writer's record, one field at a time.
Ats == {"ready", "changed", "unit", "save", "open", "fill", "rename", "over"}
LEMMA MoveAt ==
  ASSUME NEW r \in WriterRecord, NEW a \in Ats
  PROVE  /\ [r EXCEPT !.at = a] \in WriterRecord /\ [r EXCEPT !.at = a].at = a
         /\ [r EXCEPT !.at = a].step = r.step /\ [r EXCEPT !.at = a].row = r.row
         /\ [r EXCEPT !.at = a].before = r.before /\ [r EXCEPT !.at = a].snap = r.snap
<1>1. r = [at |-> r.at, step |-> r.step, row |-> r.row, before |-> r.before, snap |-> r.snap]
  BY DEF WriterRecord
<1>2. r.at \in Ats /\ r.step \in Nat /\ r.row \in {1, 2} /\ r.before \in SUBSET RowSet /\ r.snap \in SUBSET RowSet
  BY DEF WriterRecord, Ats
<1>3. [r EXCEPT !.at = a] = [at |-> a, step |-> r.step, row |-> r.row, before |-> r.before, snap |-> r.snap]
  BY <1>1
<1> QED BY <1>2, <1>3 DEF WriterRecord, Ats
LEMMA MoveRow ==
  ASSUME NEW r \in WriterRecord, NEW n \in {1, 2}
  PROVE  /\ [r EXCEPT !.row = n] \in WriterRecord /\ [r EXCEPT !.row = n].row = n
         /\ [r EXCEPT !.row = n].at = r.at /\ [r EXCEPT !.row = n].step = r.step
         /\ [r EXCEPT !.row = n].before = r.before /\ [r EXCEPT !.row = n].snap = r.snap
<1>1. r = [at |-> r.at, step |-> r.step, row |-> r.row, before |-> r.before, snap |-> r.snap]
  BY DEF WriterRecord
<1>2. r.at \in Ats /\ r.step \in Nat /\ r.row \in {1, 2} /\ r.before \in SUBSET RowSet /\ r.snap \in SUBSET RowSet
  BY DEF WriterRecord, Ats
<1>3. [r EXCEPT !.row = n] = [at |-> r.at, step |-> r.step, row |-> n, before |-> r.before, snap |-> r.snap]
  BY <1>1
<1> QED BY <1>2, <1>3 DEF WriterRecord, Ats
LEMMA MoveBefore ==
  ASSUME NEW r \in WriterRecord, NEW b \in SUBSET RowSet
  PROVE  /\ [r EXCEPT !.before = b] \in WriterRecord /\ [r EXCEPT !.before = b].before = b
         /\ [r EXCEPT !.before = b].at = r.at /\ [r EXCEPT !.before = b].step = r.step
         /\ [r EXCEPT !.before = b].row = r.row /\ [r EXCEPT !.before = b].snap = r.snap
<1>1. r = [at |-> r.at, step |-> r.step, row |-> r.row, before |-> r.before, snap |-> r.snap]
  BY DEF WriterRecord
<1>2. r.at \in Ats /\ r.step \in Nat /\ r.row \in {1, 2} /\ r.before \in SUBSET RowSet /\ r.snap \in SUBSET RowSet
  BY DEF WriterRecord, Ats
<1>3. [r EXCEPT !.before = b] = [at |-> r.at, step |-> r.step, row |-> r.row, before |-> b, snap |-> r.snap]
  BY <1>1
<1> QED BY <1>2, <1>3 DEF WriterRecord, Ats
LEMMA MoveSnap ==
  ASSUME NEW r \in WriterRecord, NEW b \in SUBSET RowSet
  PROVE  /\ [r EXCEPT !.snap = b] \in WriterRecord /\ [r EXCEPT !.snap = b].snap = b
         /\ [r EXCEPT !.snap = b].at = r.at /\ [r EXCEPT !.snap = b].step = r.step
         /\ [r EXCEPT !.snap = b].row = r.row /\ [r EXCEPT !.snap = b].before = r.before
<1>1. r = [at |-> r.at, step |-> r.step, row |-> r.row, before |-> r.before, snap |-> r.snap]
  BY DEF WriterRecord
<1>2. r.at \in Ats /\ r.step \in Nat /\ r.row \in {1, 2} /\ r.before \in SUBSET RowSet /\ r.snap \in SUBSET RowSet
  BY DEF WriterRecord, Ats
<1>3. [r EXCEPT !.snap = b] = [at |-> r.at, step |-> r.step, row |-> r.row, before |-> r.before, snap |-> b]
  BY <1>1
<1> QED BY <1>2, <1>3 DEF WriterRecord, Ats

Text == (SUBSET RowSet) \cup {HalfWritten}
FileTypes ==
  /\ memory_ \in [JsonFiles -> SUBSET RowSet] /\ saved \in [JsonFiles -> SUBSET RowSet]
  /\ disk \in [JsonFiles -> Text] /\ tmp \in [JsonFiles -> Text \cup {NoTmp}]
  /\ deferring \in Int /\ writer \in [Writers -> WriterRecord]
  /\ met \subseteq JsonFiles /\ lone \subseteq Writers
  /\ \A w \in Writers : /\ writer[w].step \in 1..LastStep(w)
                        /\ writer[w].at = "ready" => writer[w].row = 1
                        /\ writer[w].at = "changed" => Single(w, writer[w].step)
                        /\ writer[w].at = "unit" => Double(w, writer[w].step)
\* A lone writer has its file to itself, and on a file where no two have met
\* everybody at work is one.
WorkAlone ==
  /\ \A w \in lone, v \in Writers, f \in JsonFiles :
       Works(writer[w], w, f) /\ Works(writer[v], v, f) => v = w
  /\ \A f \in JsonFiles \ met : \A w \in Writers : Works(writer[w], w, f) => w \in lone
\* What a lone writer relies on between the steps of its save.
InSave(w, r, mem, tp) ==
  /\ r.at \in {"open", "fill", "rename"} => r.snap = mem[StepOf(w, r.step).file]
  /\ r.at = "fill" => tp[StepOf(w, r.step).file] = HalfWritten
  /\ r.at = "rename" => tp[StepOf(w, r.step).file] = mem[StepOf(w, r.step).file]
LoneSaves == \A w \in lone : InSave(w, writer[w], memory_, tmp)

\* A file on which no two writers have met: it is never ahead of its store, nor
\* behind what was acknowledged; the steps behind a writer are on disk; and no
\* row is of a step ahead of it.
Filling == {"changed", "save", "open", "fill", "rename"}
QuietFile(f) ==
  /\ saved[f] \subseteq disk[f] /\ disk[f] \subseteq memory_[f]
  /\ \A w \in Writers : Works(writer[w], w, f) /\ writer[w].at \in Filling
                        => RowsOf(w, writer[w].step) \subseteq memory_[f]
  /\ \A w \in Writers : \A s \in 1..(writer[w].step - 1) :
       StepOf(w, s).file = f => RowsOf(w, s) \subseteq disk[f]
  /\ \A w \in Writers, n \in RowNames : <<w, n>> \in memory_[f] =>
       \E s \in 1..writer[w].step : StepOf(w, s).file = f /\ <<w, n>> \in RowsOf(w, s)
\* If that file is the conversations, one unit of work at most is under way, it
\* is counted, and it has its rows in memory one after the other.
Whole(S) == \A w \in Writers : <<w, "run">> \in S <=> <<w, "message">> \in S
InUnit(w, r, mem, dk) == r.at = "unit" =>
  /\ dk["conversations"] \subseteq r.before /\ Whole(r.before)
  /\ mem["conversations"] = r.before \cup (IF r.row = 1 THEN {} ELSE {<<w, "run">>})
QuietUnits ==
  /\ deferring \in {0, 1}
  /\ deferring = 1 <=> \E w \in Writers : Operating(writer[w]) /\ Double(w, writer[w].step)
  /\ Whole(disk["conversations"])
  /\ (\A w \in Writers : writer[w].at # "unit") => Whole(memory_["conversations"])
  /\ \A w \in Writers : InUnit(w, writer[w], memory_, disk)

FileStoreIInv ==
  /\ FileTypes
  /\ WorkAlone
  /\ LoneSaves
  /\ \A f \in JsonFiles \ met : QuietFile(f)
  /\ "conversations" \notin met => QuietUnits

\* The writer's own step, as the actions name it and as the invariant does.
LEMMA OwnStep ==
  ASSUME NEW w \in Writers, FileTypes
  PROVE  /\ Doing(w) = StepOf(w, writer[w].step) /\ Doing(w).file \in JsonFiles
         /\ StepOf(w, writer[w].step).file \in JsonFiles
         /\ writer[w].step \in 1..LastStep(w) /\ LastStep(w) \in Nat
         /\ {Row(w, i) : i \in DOMAIN Doing(w).rows} = RowsOf(w, writer[w].step)
         /\ IsUnit(w) <=> Double(w, writer[w].step)
         /\ ~IsUnit(w) <=> Single(w, writer[w].step)
         /\ IsUnit(w) => Doing(w).file = "conversations" /\ Row(w, 1) = <<w, "run">>
                         /\ Row(w, 2) = <<w, "message">> /\ Len(Doing(w).rows) = 2
         /\ ~IsUnit(w) => RowsOf(w, writer[w].step) = {Row(w, 1)}
         /\ RowsOf(w, writer[w].step) \subseteq RowSet
         /\ \A f : AtWork(w, f) <=> Works(writer[w], w, f)
<1>1. writer[w].step \in 1..LastStep(w)  BY DEF FileTypes
<1>2. Doing(w) = StepOf(w, writer[w].step)  BY DEF Doing, StepOf
<1>3. StepOf(w, writer[w].step).file \in JsonFiles /\ LastStep(w) \in Nat
      /\ (Single(w, writer[w].step) \/ Double(w, writer[w].step))
  BY <1>1, StepFacts
<1>4. {Row(w, i) : i \in DOMAIN Doing(w).rows} = RowsOf(w, writer[w].step)
  BY <1>2 DEF Row, RowsOf
<1>5. RowsOf(w, writer[w].step) \subseteq RowSet  BY <1>1, RowsTyped
<1>6. \A f : AtWork(w, f) <=> Works(writer[w], w, f)
  BY <1>2 DEF AtWork, Works, Operating
<1>7. CASE Single(w, writer[w].step)
  BY <1>1, <1>2, <1>3, <1>4, <1>5, <1>6, <1>7 DEF Single, Double, IsUnit, Row
<1>8. CASE Double(w, writer[w].step)
  BY <1>1, <1>2, <1>3, <1>4, <1>5, <1>6, <1>8 DEF Single, Double, IsUnit, Row
<1> QED BY <1>3, <1>7, <1>8

\* Who is at work on a quiet file is so alone, and so is a lone writer on any.
LEMMA Alone ==
  ASSUME NEW w \in Writers, FileTypes, WorkAlone, Operating(writer[w]),
         Doing(w).file \notin met \/ w \in lone
  PROVE  /\ w \in lone
         /\ \A v \in Writers \ {w} : ~Works(writer[v], v, Doing(w).file) /\ ~AtWork(v, Doing(w).file)
<1>1. Works(writer[w], w, Doing(w).file) /\ Doing(w).file \in JsonFiles
  BY OwnStep DEF Works
<1>2. w \in lone  BY <1>1 DEF WorkAlone
<1>3. \A v \in Writers \ {w} : ~Works(writer[v], v, Doing(w).file)
  BY <1>1, <1>2 DEF WorkAlone
<1> QED BY <1>2, <1>3, OwnStep

\* Nobody but the writer who begins, or carries on, has a unit of work under way
\* while the conversations are quiet.
LEMMA OneUnit ==
  ASSUME NEW w \in Writers, FileTypes, WorkAlone, QuietUnits, Doing(w).file = "conversations",
         \A v \in Writers \ {w} : ~Works(writer[v], v, "conversations")
  PROVE  /\ \A v \in Writers \ {w} : writer[v].at # "unit" /\ ~(Operating(writer[v]) /\ Double(v, writer[v].step))
         /\ ~Operating(writer[w]) => deferring = 0
         /\ Operating(writer[w]) => (deferring = 1 <=> IsUnit(w))
         /\ writer[w].at # "unit" => Whole(memory_["conversations"])
<1>1. \A v \in Writers \ {w} : ~(Operating(writer[v]) /\ Double(v, writer[v].step))
  BY DEF Double, Works
<1>2. \A v \in Writers \ {w} : writer[v].at # "unit"
  BY <1>1 DEF FileTypes, Operating
<1>3. IsUnit(w) <=> Double(w, writer[w].step)  BY OwnStep
<1> QED BY <1>1, <1>2, <1>3 DEF QuietUnits

\* What an action of one writer owes the invariant: the types, and on its own
\* file, if no two have met there, what is said of quiet files.
FilesTyped(mem, dk, tp, ack) ==
  /\ mem \in [JsonFiles -> SUBSET RowSet] /\ ack \in [JsonFiles -> SUBSET RowSet]
  /\ dk \in [JsonFiles -> Text] /\ tp \in [JsonFiles -> Text \cup {NoTmp}]
Elsewhere(w) == \A g \in JsonFiles \ {Doing(w).file} :
  memory_'[g] = memory_[g] /\ disk'[g] = disk[g] /\ saved'[g] = saved[g]
  /\ tmp'[g] = tmp[g]
MovesTo(w, to) ==
  /\ to \in WriterRecord /\ WriterTo(w, to) /\ to.step \in 1..LastStep(w)
  /\ to.at = "ready" => to.row = 1
  /\ to.at = "changed" => Single(w, to.step)
  /\ to.at = "unit" => Double(w, to.step)
  /\ to.step = writer[w].step \/ (to.step = writer[w].step + 1 /\ ~Operating(to))
KeepsFile(w, to) ==
  LET f == Doing(w).file
      own == RowsOf(w, writer[w].step) IN
  /\ saved'[f] \subseteq disk'[f] /\ disk'[f] \subseteq memory_'[f]
  /\ disk[f] \subseteq disk'[f] /\ memory_'[f] \subseteq memory_[f] \cup own
  /\ to.at \in Filling => own \subseteq memory_'[f]
  /\ to.step # writer[w].step => own \subseteq disk'[f]
KeepsUnits(w, to) ==
  /\ deferring' \in {0, 1} /\ (deferring' = 1 <=> Operating(to) /\ Double(w, to.step))
  /\ Whole(disk'["conversations"])
  /\ to.at # "unit" => Whole(memory_'["conversations"])
  /\ InUnit(w, to, memory_', disk')
LEMMA MovedOn ==
  ASSUME NEW w \in Writers, NEW to, FileStoreIInv, MovesTo(w, to), Elsewhere(w), deferring' \in Int,
         FilesTyped(memory_, disk, tmp, saved)',
         \/ Operating(writer[w]) /\ met' = met /\ lone' = lone
         \/ Begins(w) /\ to.step = writer[w].step,
         w \in lone' => InSave(w, to, memory_', tmp'),
         Doing(w).file \notin met' => KeepsFile(w, to),
         Doing(w).file = "conversations" /\ Doing(w).file \notin met' => KeepsUnits(w, to),
         Doing(w).file # "conversations" => deferring' = deferring
  PROVE  FileStoreIInv'
<1> DEFINE f == Doing(w).file
<1>1. /\ writer' \in [Writers -> WriterRecord] /\ writer'[w] = to
      /\ \A v \in Writers \ {w} : writer'[v] = writer[v]
  BY DEF FileStoreIInv, FileTypes, WriterTo, MovesTo
<1>2. /\ f \in JsonFiles /\ StepOf(w, writer[w].step).file = f
      /\ \A v \in Writers : /\ writer[v].step \in 1..LastStep(v) /\ LastStep(v) \in Nat
                            /\ writer'[v].step \in 1..LastStep(v)
                            /\ AtWork(v, f) <=> Works(writer[v], v, f)
      /\ to.step \in {writer[w].step, writer[w].step + 1}
  BY <1>1, OwnStep DEF MovesTo, FileStoreIInv
<1>3. \A v \in Writers, g \in JsonFiles :
        /\ Works(writer'[v], v, g) /\ v = w => g = f /\ to.step = writer[w].step
        /\ v # w => (Works(writer'[v], v, g) <=> Works(writer[v], v, g))
  BY <1>1, <1>2 DEF Works, MovesTo
<1>4. /\ met \subseteq met' /\ met' \subseteq met \cup {f} /\ met' \subseteq JsonFiles /\ lone' \subseteq Writers
      /\ \A v \in Writers \ {w} : v \in lone' => v \in lone
      /\ \A v \in Writers \ {w} : v \in lone /\ ~Works(writer[v], v, f) => v \in lone'
      /\ w \in lone' => \A v \in Writers \ {w} : Works(writer[v], v, f) => ~Operating(to)
      /\ f \notin met' => /\ \A v \in Writers \ {w} : ~Works(writer[v], v, f)
                          /\ w \in lone'
      /\ Operating(writer[w]) \/ \A v \in Writers \ {w} : v \in lone' => ~Works(writer[v], v, f)
  <2>0. met \subseteq JsonFiles /\ lone \subseteq Writers  BY DEF FileStoreIInv, FileTypes
  <2>1. CASE Operating(writer[w]) /\ met' = met /\ lone' = lone
    <3>1. f \notin met \/ w \in lone => w \in lone /\ \A v \in Writers \ {w} : ~Works(writer[v], v, f)
      BY <2>1, Alone DEF FileStoreIInv
    <3> QED BY <2>0, <2>1, <3>1, <1>2
  <2>2. CASE Begins(w)
    <3> DEFINE others == {v \in Writers \ {w} : AtWork(v, f)}
    <3>1. /\ met' = IF others = {} THEN met ELSE met \cup {f}
          /\ lone' = IF others = {} THEN lone \cup {w} ELSE lone \ (others \cup {w})
      BY <2>2 DEF Begins
    <3>2. \A v \in Writers \ {w} : v \in others <=> Works(writer[v], v, f)
      BY <1>2
    <3>3. CASE others = {}
      <4>1. \A v \in Writers \ {w} : ~Works(writer[v], v, f)  BY <3>2, <3>3
      <4> HIDE DEF others, f
      <4> QED BY <2>0, <3>1, <3>3, <4>1
    <3>4. CASE others # {}
      <4> HIDE DEF others, f
      <4> QED BY <2>0, <3>1, <3>2, <3>4, <1>2
    <3> QED BY <3>3, <3>4
  <2> QED BY <2>1, <2>2
<1>5. FileTypes'
  <2>1. \A v \in Writers : /\ writer'[v].at = "ready" => writer'[v].row = 1
                           /\ writer'[v].at = "changed" => Single(v, writer'[v].step)
                           /\ writer'[v].at = "unit" => Double(v, writer'[v].step)
    BY <1>1 DEF FileStoreIInv, FileTypes, MovesTo
  <2> QED BY <1>1, <1>2, <1>4, <2>1 DEF FileTypes, FilesTyped
<1>6. WorkAlone'
  <2>1. ASSUME NEW u \in lone', NEW v \in Writers, NEW g \in JsonFiles,
               Works(writer'[u], u, g), Works(writer'[v], v, g)
        PROVE  v = u
    <3>1. u \in Writers  BY <1>4
    <3>2. CASE u # w /\ v # w
      <4>1. u \in lone  BY <1>4, <3>1, <3>2
      <4> QED BY <2>1, <3>1, <3>2, <4>1, <1>3 DEF FileStoreIInv, WorkAlone
    <3>3. CASE u = w /\ v # w
      <4>1. g = f /\ Operating(to) /\ Works(writer[v], v, f)
        BY <2>1, <3>1, <3>3, <1>1, <1>3 DEF Works
      <4> QED BY <4>1, <3>3, <1>4
    <3>4. CASE u # w /\ v = w
      <4>1. g = f /\ Works(writer[u], u, f) /\ u \in lone
        BY <2>1, <3>1, <3>4, <1>3, <1>4
      <4>2. Operating(writer[w])
        BY <4>1, <3>1, <3>4, <1>4
      <4>3. Works(writer[w], w, f)  BY <4>2, <1>2 DEF Works
      <4> QED BY <4>1, <4>3, <3>4, <1>2 DEF FileStoreIInv, WorkAlone
    <3> QED BY <3>2, <3>3, <3>4
  <2>2. ASSUME NEW g \in JsonFiles \ met', NEW v \in Writers, Works(writer'[v], v, g)
        PROVE  v \in lone'
    <3>1. CASE v = w
      BY <2>2, <3>1, <1>3, <1>4
    <3>2. CASE v # w
      <4>1. Works(writer[v], v, g) /\ g \notin met  BY <2>2, <3>2, <1>3, <1>4
      <4>2. v \in lone  BY <4>1 DEF FileStoreIInv, WorkAlone
      <4>3. g # f  BY <2>2, <4>1, <3>2, <1>4
      <4>4. ~Works(writer[v], v, f)  BY <4>1, <4>3 DEF Works
      <4> QED BY <4>2, <4>4, <3>2, <1>4
    <3> QED BY <3>1, <3>2
  <2> QED BY <2>1, <2>2 DEF WorkAlone
<1>7. LoneSaves'
  <2> SUFFICES ASSUME NEW u \in lone' PROVE InSave(u, writer'[u], memory_', tmp')
    BY DEF LoneSaves
  <2>1. CASE u = w  BY <2>1, <1>1
  <2>2. CASE u # w
    <3>1. u \in lone /\ u \in Writers /\ writer'[u] = writer[u]  BY <2>2, <1>1, <1>4
    <3>2. InSave(u, writer[u], memory_, tmp)  BY <3>1 DEF FileStoreIInv, LoneSaves
    <3>3. CASE ~(writer[u].at \in {"open", "fill", "rename"})
      BY <3>1, <3>3 DEF InSave
    <3>4. CASE writer[u].at \in {"open", "fill", "rename"}
      <4> DEFINE g == StepOf(u, writer[u].step).file
      <4>1. Works(writer[u], u, g) /\ g \in JsonFiles
        BY <3>1, <3>4, OwnStep DEF Works, Operating, FileStoreIInv
      <4>2. g # f
        <5>1. SUFFICES ASSUME g = f PROVE FALSE  OBVIOUS
        <5>2. Operating(writer[w])  BY <5>1, <4>1, <3>1, <2>2, <1>4
        <5>3. Works(writer[w], w, f)  BY <5>2, <1>2 DEF Works
        <5> QED BY <5>1, <5>3, <4>1, <3>1, <2>2, <1>2 DEF FileStoreIInv, WorkAlone
      <4>3. memory_'[g] = memory_[g] /\ tmp'[g] = tmp[g]
        BY <4>1, <4>2 DEF Elsewhere
      <4> QED BY <3>1, <3>2, <4>3 DEF InSave
    <3> QED BY <3>3, <3>4
  <2> QED BY <2>1, <2>2
<1>8. ASSUME NEW g \in JsonFiles \ met' PROVE QuietFile(g)'
  <2>0. QuietFile(g) /\ g \in JsonFiles  BY <1>4 DEF FileStoreIInv
  <2>1. CASE g # f
    <3>1. memory_'[g] = memory_[g] /\ disk'[g] = disk[g] /\ saved'[g] = saved[g]
      BY <2>0, <2>1 DEF Elsewhere
    <3>2. \A v \in Writers : Works(writer'[v], v, g) /\ writer'[v].at \in Filling
                             => RowsOf(v, writer'[v].step) \subseteq memory_'[g]
      <4>1. ASSUME NEW v \in Writers, Works(writer'[v], v, g) PROVE v # w /\ writer'[v] = writer[v]
        BY <4>1, <2>0, <2>1, <1>1, <1>3
      <4> QED BY <4>1, <3>1, <2>0 DEF QuietFile
    <3>3. \A v \in Writers : \A s \in 1..(writer'[v].step - 1) :
            StepOf(v, s).file = g => RowsOf(v, s) \subseteq disk'[g]
      <4> SUFFICES ASSUME NEW v \in Writers, NEW s \in 1..(writer'[v].step - 1), StepOf(v, s).file = g
                   PROVE  RowsOf(v, s) \subseteq disk'[g]
        OBVIOUS
      <4>1. s \in 1..(writer[v].step - 1) \/ (v = w /\ s = writer[w].step)
        BY <1>1, <1>2
      <4>2. ~(v = w /\ s = writer[w].step)  BY <2>1, <1>2
      <4> QED BY <4>1, <4>2, <3>1, <2>0 DEF QuietFile
    <3>4. \A v \in Writers, n \in RowNames : <<v, n>> \in memory_'[g] =>
            \E s \in 1..writer'[v].step : StepOf(v, s).file = g /\ <<v, n>> \in RowsOf(v, s)
      <4> SUFFICES ASSUME NEW v \in Writers, NEW n \in RowNames, <<v, n>> \in memory_'[g]
                   PROVE  \E s \in 1..writer'[v].step : StepOf(v, s).file = g /\ <<v, n>> \in RowsOf(v, s)
        OBVIOUS
      <4>1. PICK s \in 1..writer[v].step : StepOf(v, s).file = g /\ <<v, n>> \in RowsOf(v, s)
        BY <2>0, <3>1 DEF QuietFile
      <4>2. s \in 1..writer'[v].step  BY <1>1, <1>2
      <4> QED BY <4>1, <4>2
    <3> QED BY <2>0, <3>1, <3>2, <3>3, <3>4 DEF QuietFile
  <2>2. CASE g = f
    <3>1. KeepsFile(w, to) /\ \A v \in Writers \ {w} : ~Works(writer[v], v, f)
      BY <1>8, <2>2, <1>4
    <3>2. \A v \in Writers : Works(writer'[v], v, g) /\ writer'[v].at \in Filling
                             => RowsOf(v, writer'[v].step) \subseteq memory_'[g]
      <4>1. ASSUME NEW v \in Writers, Works(writer'[v], v, g)
            PROVE  v = w /\ writer'[v] = to /\ to.step = writer[w].step
        BY <4>1, <2>0, <2>2, <3>1, <1>1, <1>3
      <4> QED BY <4>1, <3>1, <2>2 DEF KeepsFile
    <3>3. \A v \in Writers : \A s \in 1..(writer'[v].step - 1) :
            StepOf(v, s).file = g => RowsOf(v, s) \subseteq disk'[g]
      <4> SUFFICES ASSUME NEW v \in Writers, NEW s \in 1..(writer'[v].step - 1), StepOf(v, s).file = g
                   PROVE  RowsOf(v, s) \subseteq disk'[g]
        OBVIOUS
      <4>1. s \in 1..(writer[v].step - 1) \/ (v = w /\ s = writer[w].step /\ to.step # writer[w].step)
        BY <1>1, <1>2
      <4>2. CASE s \in 1..(writer[v].step - 1)
        <5>1. RowsOf(v, s) \subseteq disk[g]  BY <2>0, <4>2 DEF QuietFile
        <5> QED BY <5>1, <3>1, <2>2 DEF KeepsFile
      <4>3. CASE v = w /\ s = writer[w].step /\ to.step # writer[w].step
        BY <4>3, <3>1, <2>2 DEF KeepsFile
      <4> QED BY <4>1, <4>2, <4>3
    <3>4. \A v \in Writers, n \in RowNames : <<v, n>> \in memory_'[g] =>
            \E s \in 1..writer'[v].step : StepOf(v, s).file = g /\ <<v, n>> \in RowsOf(v, s)
      <4> SUFFICES ASSUME NEW v \in Writers, NEW n \in RowNames, <<v, n>> \in memory_'[g]
                   PROVE  \E s \in 1..writer'[v].step : StepOf(v, s).file = g /\ <<v, n>> \in RowsOf(v, s)
        OBVIOUS
      <4>1. <<v, n>> \in memory_[g] \/ <<v, n>> \in RowsOf(w, writer[w].step)
        BY <3>1, <2>2 DEF KeepsFile
      <4>2. CASE <<v, n>> \in memory_[g]
        <5>1. PICK s \in 1..writer[v].step : StepOf(v, s).file = g /\ <<v, n>> \in RowsOf(v, s)
          BY <2>0, <4>2 DEF QuietFile
        <5>2. s \in 1..writer'[v].step  BY <1>1, <1>2
        <5> QED BY <5>1, <5>2
      <4>3. CASE <<v, n>> \in RowsOf(w, writer[w].step)
        <5>1. v = w  BY <4>3, <1>2, RowsTyped
        <5>2. writer[w].step \in 1..writer'[w].step  BY <1>1, <1>2
        <5> QED BY <5>1, <5>2, <4>3, <2>2, <1>2
      <4> QED BY <4>1, <4>2, <4>3
    <3> QED BY <2>2, <3>1, <3>2, <3>3, <3>4 DEF QuietFile, KeepsFile
  <2> QED BY <2>1, <2>2
<1>9. ASSUME "conversations" \notin met' PROVE QuietUnits'
  <2>0. QuietUnits  BY <1>9, <1>4 DEF FileStoreIInv
  <2>1. CASE f = "conversations"
    <3>1. KeepsUnits(w, to) /\ \A v \in Writers \ {w} : ~Works(writer[v], v, "conversations")
      BY <1>9, <2>1, <1>4
    <3>2. \A v \in Writers \ {w} : writer'[v].at # "unit" /\ ~(Operating(writer'[v]) /\ Double(v, writer'[v].step))
      BY <3>1, <2>0, <2>1, <1>1, OneUnit DEF FileStoreIInv
    <3>3. \A v \in Writers : InUnit(v, writer'[v], memory_', disk')
      BY <3>1, <3>2, <1>1 DEF InUnit, KeepsUnits
    <3> QED BY <3>1, <3>2, <3>3, <1>1 DEF QuietUnits, KeepsUnits
  <2>2. CASE f # "conversations"
    <3>1. memory_'["conversations"] = memory_["conversations"] /\ disk'["conversations"] = disk["conversations"]
      BY <2>2 DEF Elsewhere, JsonFiles
    <3>2. deferring' = deferring  BY <2>2
    <3>3. /\ writer[w].at # "unit" /\ ~(Operating(writer[w]) /\ Double(w, writer[w].step))
          /\ to.at # "unit" /\ ~(Operating(to) /\ Double(w, to.step))
      BY <2>2, <1>2 DEF FileStoreIInv, FileTypes, Double, MovesTo, Operating
    <3>4. \A v \in Writers : /\ writer'[v].at = "unit" <=> writer[v].at = "unit"
                             /\ Operating(writer'[v]) /\ Double(v, writer'[v].step)
                                <=> Operating(writer[v]) /\ Double(v, writer[v].step)
      BY <3>3, <1>1
    <3>5. \A v \in Writers : InUnit(v, writer'[v], memory_', disk')
      BY <2>0, <3>1, <3>3, <1>1 DEF QuietUnits, InUnit
    <3> QED BY <2>0, <3>1, <3>2, <3>4, <3>5 DEF QuietUnits
  <2> QED BY <2>1, <2>2
<1> QED BY <1>5, <1>6, <1>7, <1>8, <1>9 DEF FileStoreIInv

\* Where an operation goes once a step's write is acknowledged.
Onward(w) ==
  [at |-> IF writer[w].step = LastStep(w) THEN "over" ELSE "ready",
   step |-> IF writer[w].step = LastStep(w) THEN writer[w].step ELSE writer[w].step + 1,
   row |-> 1, before |-> {}, snap |-> {}]
LEMMA OnwardFacts ==
  ASSUME NEW w \in Writers, FileTypes, Acknowledge(w)
  PROVE  /\ MovesTo(w, Onward(w)) /\ ~Operating(Onward(w)) /\ Onward(w).at \in {"ready", "over"}
         /\ saved' = [saved EXCEPT ![Doing(w).file] = @ \cup RowsOf(w, writer[w].step)]
<1>1. writer[w].step \in 1..LastStep(w) /\ LastStep(w) \in Nat  BY OwnStep
<1>2. Onward(w) \in WriterRecord /\ Onward(w).at \in {"ready", "over"}
      /\ Onward(w).step \in 1..LastStep(w)
      /\ (Onward(w).step = writer[w].step \/ Onward(w).step = writer[w].step + 1)
      /\ Onward(w).row = 1
  BY <1>1 DEF Onward, WriterRecord
<1>3. WriterTo(w, Onward(w)) /\ saved' = [saved EXCEPT ![Doing(w).file] = @ \cup RowsOf(w, writer[w].step)]
  BY OwnStep DEF Acknowledge, Onward, LastStep
<1> HIDE DEF Onward
<1> QED BY <1>2, <1>3 DEF MovesTo, Operating
\* ... or nowhere, when it is over.
LEMMA OverFacts ==
  ASSUME NEW w \in Writers, FileTypes, WriterTo(w, [writer[w] EXCEPT !.at = "over"])
  PROVE  /\ MovesTo(w, [writer[w] EXCEPT !.at = "over"]) /\ ~Operating([writer[w] EXCEPT !.at = "over"])
         /\ [writer[w] EXCEPT !.at = "over"].at = "over"
         /\ [writer[w] EXCEPT !.at = "over"].step = writer[w].step
<1> DEFINE to == [writer[w] EXCEPT !.at = "over"]
<1>1. writer[w] \in WriterRecord /\ writer[w].step \in 1..LastStep(w)  BY DEF FileTypes
<1>2. to \in WriterRecord /\ to.at = "over" /\ to.step = writer[w].step
  BY <1>1, MoveAt DEF Ats
<1> HIDE DEF to
<1>3. MovesTo(w, to) /\ ~Operating(to)
  BY <1>1, <1>2 DEF MovesTo, Operating, to
<1> QED BY <1>2, <1>3 DEF to

LEMMA Types ==
  ASSUME FileTypes
  PROVE  /\ FilesTyped(memory_, disk, tmp, saved) /\ deferring \in Int
         /\ \A w \in Writers : writer[w] \in WriterRecord /\ writer[w].step \in 1..LastStep(w)
BY DEF FileTypes, FilesTyped

LEMMA MutateKeeps ==
  ASSUME NEW w \in Writers, FileStoreIInv, Mutate(w)
  PROVE  FileStoreIInv'
<1> DEFINE to == [writer[w] EXCEPT !.at = "changed"]
           r == writer[w]
           own == RowsOf(w, r.step)
           f == Doing(w).file
<1>1. /\ Begins(w) /\ ~IsUnit(w) /\ WriterTo(w, to) /\ r \in WriterRecord /\ r.at = "ready"
      /\ r.step \in 1..LastStep(w) /\ Single(w, r.step) /\ ~Double(w, r.step)
      /\ f \in JsonFiles /\ own \subseteq RowSet
  BY OwnStep DEF Mutate, Begins, FileStoreIInv, FileTypes
<1>2. /\ memory_' = [memory_ EXCEPT ![f] = @ \cup own]
      /\ disk' = disk /\ tmp' = tmp /\ deferring' = deferring /\ saved' = saved
  BY <1>1, OwnStep DEF Mutate, FileStoreIInv
<1>3. to \in WriterRecord /\ to.at = "changed" /\ to.step = r.step
  BY <1>1, MoveAt DEF Ats
<1>4. MovesTo(w, to) /\ Operating(to)
  <2> HIDE DEF to, r
  <2> QED BY <1>1, <1>3 DEF MovesTo, Operating, r
<1>5. FilesTyped(memory_, disk, tmp, saved) /\ deferring \in Int
  BY Types DEF FileStoreIInv
<1>6. FilesTyped(memory_, disk, tmp, saved)' /\ Elsewhere(w) /\ memory_'[f] = memory_[f] \cup own
  <2> HIDE DEF own
  <2> QED BY <1>1, <1>2, <1>5 DEF FilesTyped, Elsewhere
<1>7. InSave(w, to, memory_', tmp')
  <2> HIDE DEF to
  <2> QED BY <1>3 DEF InSave
<1>8. ASSUME f \notin met' PROVE f \notin met /\ QuietFile(f) /\ \A v \in Writers \ {w} : ~Works(writer[v], v, f)
  <2>1. {v \in Writers \ {w} : AtWork(v, f)} = {} /\ f \notin met
    BY <1>1, <1>8 DEF Begins
  <2> QED BY <2>1, <1>1, OwnStep DEF FileStoreIInv
<1>9. f \notin met' => KeepsFile(w, to)
  <2> SUFFICES ASSUME f \notin met' PROVE KeepsFile(w, to)  OBVIOUS
  <2>1. saved[f] \subseteq disk[f] /\ disk[f] \subseteq memory_[f]  BY <1>8 DEF QuietFile
  <2> HIDE DEF to
  <2> QED BY <2>1, <1>2, <1>3, <1>6 DEF KeepsFile
<1>10. f = "conversations" /\ f \notin met' => KeepsUnits(w, to)
  <2> SUFFICES ASSUME f = "conversations", f \notin met' PROVE KeepsUnits(w, to)  OBVIOUS
  <2>1. QuietUnits /\ deferring = 0 /\ Whole(memory_["conversations"])
    <3>1. QuietUnits  BY <1>8 DEF FileStoreIInv
    <3> QED BY <3>1, <1>1, <1>8, OneUnit DEF FileStoreIInv, Operating
  <2>2. Whole(memory_'["conversations"])
    <3>0. \A v \in Writers : /\ <<v, "run">> \in own <=> v = w /\ Double(w, r.step)
                             /\ <<v, "message">> \in own <=> v = w /\ Double(w, r.step)
      <4> HIDE DEF r
      <4> QED BY <1>1, RowsTyped
    <3>1. \A v \in Writers : <<v, "run">> \notin own /\ <<v, "message">> \notin own
      BY <1>1, <3>0
    <3>2. memory_'["conversations"] = memory_["conversations"] \cup own  BY <1>6
    <3> HIDE DEF own
    <3> QED BY <2>1, <3>1, <3>2 DEF Whole
  <2> HIDE DEF to
  <2> QED BY <2>1, <2>2, <1>1, <1>2, <1>3 DEF KeepsUnits, InUnit, QuietUnits
<1> HIDE DEF to, r
<1> QED BY <1>1, <1>2, <1>3, <1>4, <1>5, <1>6, <1>7, <1>9, <1>10, MovedOn DEF r

LEMMA SaveOrDeferKeeps ==
  ASSUME NEW w \in Writers, FileStoreIInv, SaveOrDefer(w)
  PROVE  FileStoreIInv'
<1> DEFINE r == writer[w]
           f == Doing(w).file
           own == RowsOf(w, r.step)
           go == [writer[w] EXCEPT !.at = "save"]
<1>1. /\ r \in WriterRecord /\ r.at = "changed" /\ Operating(r) /\ Works(r, w, f) /\ f \in JsonFiles
      /\ Single(w, r.step) /\ ~Double(w, r.step) /\ ~IsUnit(w) /\ r.step \in 1..LastStep(w) /\ own \subseteq RowSet
      /\ UNCHANGED <<memory_, disk, tmp, deferring, met, lone>>
  BY OwnStep DEF SaveOrDefer, FileStoreIInv, FileTypes, Operating, Works
<1>2. FilesTyped(memory_, disk, tmp, saved) /\ deferring \in Int
  BY Types DEF FileStoreIInv
<1>3. ASSUME f \notin met
      PROVE  /\ QuietFile(f) /\ saved[f] \subseteq disk[f] /\ disk[f] \subseteq memory_[f] /\ own \subseteq memory_[f]
             /\ f = "conversations" => /\ deferring = 0 /\ Whole(disk["conversations"])
                                       /\ Whole(memory_["conversations"])
  <2>1. QuietFile(f)  BY <1>1, <1>3 DEF FileStoreIInv
  <2>2. f = "conversations" => /\ deferring = 0 /\ Whole(disk["conversations"])
                               /\ Whole(memory_["conversations"])
    <3> SUFFICES ASSUME f = "conversations" PROVE /\ deferring = 0 /\ Whole(disk["conversations"])
                                                  /\ Whole(memory_["conversations"])
      OBVIOUS
    <3>1. QuietUnits /\ \A v \in Writers \ {w} : ~Works(writer[v], v, f)
      BY <1>1, <1>3, Alone DEF FileStoreIInv
    <3> QED BY <3>1, <1>1, OneUnit DEF FileStoreIInv, QuietUnits
  <2> QED BY <2>1, <2>2, <1>1 DEF QuietFile, Filling
<1>4. CASE Deferred(w)
  <2> DEFINE to == Onward(w)
  <2>1. /\ MovesTo(w, to) /\ ~Operating(to) /\ to.at \in {"ready", "over"}
        /\ saved' = [saved EXCEPT ![f] = @ \cup own]
    BY <1>1, <1>4, OnwardFacts DEF SaveOrDefer, FileStoreIInv
  <2>2. f = "conversations" /\ f \in met
    BY <1>3, <1>4 DEF Deferred
  <2>3. FilesTyped(memory_, disk, tmp, saved)' /\ Elsewhere(w)
    <3> HIDE DEF own
    <3> QED BY <1>1, <1>2, <2>1 DEF FilesTyped, Elsewhere
  <2>4. InSave(w, to, memory_', tmp')
    <3> HIDE DEF to
    <3> QED BY <2>1 DEF InSave
  <2> HIDE DEF to
  <2> QED BY <1>1, <1>2, <2>1, <2>2, <2>3, <2>4, MovedOn
<1>5. CASE ~Deferred(w)
  <2>1. WriterTo(w, go) /\ saved' = saved  BY <1>5 DEF SaveOrDefer
  <2>2. go \in WriterRecord /\ go.at = "save" /\ go.step = r.step
    BY <1>1, MoveAt DEF Ats
  <2> HIDE DEF go
  <2>3. MovesTo(w, go)  BY <1>1, <2>1, <2>2 DEF MovesTo
  <2>4. FilesTyped(memory_, disk, tmp, saved)' /\ Elsewhere(w)
    BY <1>1, <1>2, <2>1 DEF FilesTyped, Elsewhere
  <2>5. InSave(w, go, memory_', tmp')  BY <2>2 DEF InSave
  <2>6. f \notin met' => KeepsFile(w, go)
    <3> HIDE DEF own
    <3> QED BY <1>1, <1>3, <2>1, <2>2 DEF KeepsFile, own
  <2>7. f = "conversations" /\ f \notin met' => KeepsUnits(w, go)
    BY <1>1, <1>3, <2>2 DEF KeepsUnits, InUnit
  <2> QED BY <1>1, <1>2, <2>3, <2>4, <2>5, <2>6, <2>7, MovedOn
<1> QED BY <1>4, <1>5

LEMMA BeginUnitKeeps ==
  ASSUME NEW w \in Writers, FileStoreIInv, BeginUnit(w)
  PROVE  FileStoreIInv'
<1> DEFINE r == writer[w]
           mid == [r EXCEPT !.at = "unit"]
           to == [mid EXCEPT !.before = memory_["conversations"]]
<1>1. /\ Begins(w) /\ IsUnit(w) /\ r \in WriterRecord /\ r.at = "ready" /\ r.row = 1
      /\ r.step \in 1..LastStep(w) /\ Double(w, r.step) /\ Doing(w).file = "conversations"
      /\ UNCHANGED <<memory_, disk, tmp, saved>> /\ deferring' = deferring + 1
  BY OwnStep DEF BeginUnit, Begins, FileStoreIInv, FileTypes
<1>2. FilesTyped(memory_, disk, tmp, saved) /\ deferring \in Int
  BY Types DEF FileStoreIInv
<1>3. WriterTo(w, to)
  <2>1. [r EXCEPT !.at = "unit", !.before = memory_["conversations"]] = to
    <3> HIDE DEF r
    <3> QED OBVIOUS
  <2> HIDE DEF to, mid
  <2> QED BY <2>1 DEF BeginUnit
<1>4. mid \in WriterRecord /\ mid.at = "unit" /\ mid.step = r.step /\ mid.row = r.row
  BY <1>1, MoveAt DEF Ats
<1>5. memory_["conversations"] \in SUBSET RowSet  BY <1>2 DEF FilesTyped, JsonFiles
<1>6. /\ to \in WriterRecord /\ to.at = "unit" /\ to.step = r.step /\ to.row = 1
      /\ to.before = memory_["conversations"]
  <2> HIDE DEF mid, r
  <2> QED BY <1>1, <1>4, <1>5, MoveBefore
<1> HIDE DEF to
<1>7. MovesTo(w, to) /\ Operating(to)
  BY <1>1, <1>3, <1>6 DEF MovesTo, Operating
<1>8. FilesTyped(memory_, disk, tmp, saved)' /\ Elsewhere(w) /\ InSave(w, to, memory_', tmp')
  BY <1>1, <1>2, <1>6 DEF FilesTyped, Elsewhere, InSave
<1>9. ASSUME "conversations" \notin met'
      PROVE  QuietFile("conversations") /\ QuietUnits /\ deferring = 0 /\ Whole(memory_["conversations"])
  <2>1. {v \in Writers \ {w} : AtWork(v, "conversations")} = {} /\ "conversations" \notin met
    BY <1>1, <1>9 DEF Begins
  <2>2. \A v \in Writers \ {w} : ~Works(writer[v], v, "conversations")  BY <2>1, OwnStep DEF FileStoreIInv
  <2>3. QuietFile("conversations") /\ QuietUnits  BY <2>1 DEF FileStoreIInv, JsonFiles
  <2> QED BY <2>2, <2>3, <1>1, OneUnit DEF FileStoreIInv, Operating
<1>10. Doing(w).file \notin met' => KeepsFile(w, to)
  <2> SUFFICES ASSUME "conversations" \notin met' PROVE KeepsFile(w, to)  BY <1>1
  <2> HIDE DEF r
  <2> QED BY <1>1, <1>6, <1>9 DEF KeepsFile, QuietFile, Filling, r
<1>11. Doing(w).file = "conversations" /\ Doing(w).file \notin met' => KeepsUnits(w, to)
  <2> SUFFICES ASSUME "conversations" \notin met' PROVE KeepsUnits(w, to)  BY <1>1
  <2>1. disk["conversations"] \subseteq memory_["conversations"]  BY <1>9 DEF QuietFile
  <2> HIDE DEF r
  <2> QED BY <1>1, <1>6, <1>7, <1>9, <2>1 DEF KeepsUnits, InUnit, QuietUnits
<1> QED BY <1>1, <1>2, <1>6, <1>7, <1>8, <1>10, <1>11, MovedOn

LEMMA UnitWriteKeeps ==
  ASSUME NEW w \in Writers, FileStoreIInv, UnitWrite(w)
  PROVE  FileStoreIInv'
<1> DEFINE r == writer[w]
           last == r.row = 2
           mid == [r EXCEPT !.at = IF last THEN "save" ELSE @]
           to == [mid EXCEPT !.row = IF last THEN @ ELSE @ + 1]
           conv == memory_["conversations"]
           conv2 == memory_'["conversations"]
           own == RowsOf(w, r.step)
<1>1. /\ r \in WriterRecord /\ r.at = "unit" /\ Operating(r) /\ r.row \in {1, 2}
      /\ Double(w, r.step) /\ IsUnit(w) /\ r.step \in 1..LastStep(w) /\ Len(Doing(w).rows) = 2
      /\ Row(w, 1) = <<w, "run">> /\ Row(w, 2) = <<w, "message">> /\ Doing(w).file = "conversations"
      /\ own = {<<w, "run">>, <<w, "message">>} /\ own \subseteq RowSet
  BY OwnStep DEF UnitWrite, FileStoreIInv, FileTypes, Operating, WriterRecord, Double
<1>2. FilesTyped(memory_, disk, tmp, saved) /\ deferring \in Int
  BY Types DEF FileStoreIInv
<1>3. /\ memory_' = [memory_ EXCEPT !["conversations"] = @ \cup {Row(w, r.row)}]
      /\ UNCHANGED <<disk, tmp, deferring, saved, met, lone>>
  BY DEF UnitWrite
<1>4. WriterTo(w, to)
  <2>1. [r EXCEPT !.at = IF last THEN "save" ELSE @, !.row = IF last THEN @ ELSE @ + 1] = to
    <3> HIDE DEF r
    <3> QED OBVIOUS
  <2>2. WriterTo(w, [r EXCEPT !.at = IF r.row = Len(Doing(w).rows) THEN "save" ELSE @,
                              !.row = IF r.row = Len(Doing(w).rows) THEN @ ELSE @ + 1])
    BY DEF UnitWrite
  <2>3. WriterTo(w, [r EXCEPT !.at = IF last THEN "save" ELSE @, !.row = IF last THEN @ ELSE @ + 1])
    BY <2>2, <1>1
  <2> QED BY <2>1, <2>3
<1>5. mid \in WriterRecord /\ mid.at = (IF last THEN "save" ELSE "unit") /\ mid.step = r.step
      /\ mid.row = r.row /\ mid.before = r.before
  <2>1. mid = [r EXCEPT !.at = IF last THEN "save" ELSE "unit"]
    <3> HIDE DEF r
    <3> QED BY <1>1
  <2>2. (IF last THEN "save" ELSE "unit") \in Ats  BY DEF Ats
  <2> HIDE DEF mid, last
  <2> QED BY <1>1, <2>1, <2>2, MoveAt
<1>6. to \in WriterRecord /\ to.at = mid.at /\ to.step = r.step /\ to.row = 2 /\ to.before = r.before
  <2>1. to = [mid EXCEPT !.row = 2]
    <3>1. (IF last THEN mid.row ELSE mid.row + 1) = 2
      <4> HIDE DEF mid
      <4> QED BY <1>1, <1>5
    <3>2. to = [mid EXCEPT !.row = IF last THEN mid.row ELSE mid.row + 1]
      <4> HIDE DEF mid, last
      <4> QED OBVIOUS
    <3> HIDE DEF mid, last
    <3> QED BY <3>1, <3>2
  <2> HIDE DEF mid, to
  <2> QED BY <1>5, <2>1, MoveRow
<1>7. to.at = IF last THEN "save" ELSE "unit"
  BY <1>5, <1>6
<1> HIDE DEF mid, to, last
<1>8. MovesTo(w, to) /\ Operating(to)
  BY <1>1, <1>4, <1>6, <1>7 DEF MovesTo, Operating
<1>9. conv2 = conv \cup {Row(w, r.row)} /\ Row(w, r.row) \in own /\ conv \in SUBSET RowSet
  BY <1>1, <1>2, <1>3 DEF JsonFiles, FilesTyped
<1>10. FilesTyped(memory_, disk, tmp, saved)' /\ Elsewhere(w) /\ InSave(w, to, memory_', tmp')
  <2>1. Row(w, r.row) \in RowSet  BY <1>1, <1>9
  <2> HIDE DEF own, r
  <2> QED BY <1>1, <1>2, <1>3, <1>7, <2>1 DEF FilesTyped, Elsewhere, InSave, JsonFiles
<1>11. ASSUME "conversations" \notin met'
       PROVE  /\ QuietFile("conversations") /\ QuietUnits /\ deferring = 1
              /\ disk["conversations"] \subseteq r.before /\ Whole(r.before)
              /\ conv = r.before \cup (IF r.row = 1 THEN {} ELSE {<<w, "run">>})
  <2>1. "conversations" \notin met  BY <1>3, <1>11
  <2>2. QuietFile("conversations") /\ QuietUnits  BY <2>1 DEF FileStoreIInv, JsonFiles
  <2>3. \A v \in Writers \ {w} : ~Works(writer[v], v, "conversations")
    BY <1>1, <2>1, Alone DEF FileStoreIInv
  <2>4. deferring = 1  BY <1>1, <2>2, <2>3, OneUnit DEF FileStoreIInv
  <2>5. InUnit(w, r, memory_, disk)  BY <2>2 DEF QuietUnits
  <2> QED BY <2>2, <2>4, <2>5, <1>1 DEF InUnit
<1>12. ASSUME "conversations" \notin met'
       PROVE  conv2 = r.before \cup (IF last THEN {<<w, "run">>, <<w, "message">>} ELSE {<<w, "run">>})
  <2>1. CASE r.row = 1  BY <1>9, <1>11, <1>12, <2>1, <1>1 DEF last
  <2>2. CASE r.row = 2  BY <1>9, <1>11, <1>12, <2>2, <1>1 DEF last
  <2> QED BY <1>1, <2>1, <2>2
<1>13. Doing(w).file \notin met' => KeepsFile(w, to)
  <2> SUFFICES ASSUME "conversations" \notin met' PROVE KeepsFile(w, to)  BY <1>1
  <2>1. saved["conversations"] \subseteq disk["conversations"] /\ disk["conversations"] \subseteq conv
    BY <1>11 DEF QuietFile
  <2>2. to.at \in Filling => own \subseteq conv2
    BY <1>1, <1>7, <1>12 DEF Filling
  <2> HIDE DEF own
  <2> QED BY <2>1, <2>2, <1>1, <1>3, <1>6, <1>9 DEF KeepsFile, own
<1>14. Doing(w).file = "conversations" /\ Doing(w).file \notin met' => KeepsUnits(w, to)
  <2> SUFFICES ASSUME "conversations" \notin met' PROVE KeepsUnits(w, to)  BY <1>1
  <2>1. to.at # "unit" => Whole(conv2)
    <3>1. SUFFICES ASSUME last PROVE Whole(conv2)  BY <1>7
    <3>2. \A v \in Writers : /\ <<v, "run">> \in conv2 <=> v = w \/ <<v, "run">> \in r.before
                             /\ <<v, "message">> \in conv2 <=> v = w \/ <<v, "message">> \in r.before
      BY <1>12, <3>1
    <3> QED BY <1>11, <3>2 DEF Whole
  <2>2. InUnit(w, to, memory_', disk')
    <3>1. SUFFICES ASSUME ~last PROVE InUnit(w, to, memory_', disk')  BY <1>7 DEF InUnit
    <3>2. conv2 = to.before \cup {<<w, "run">>}  BY <1>6, <1>12, <3>1
    <3> HIDE DEF r
    <3> QED BY <1>3, <1>6, <1>11, <3>2 DEF InUnit, r
  <2> HIDE DEF r, conv2
  <2> QED BY <2>1, <2>2, <1>1, <1>3, <1>6, <1>8, <1>11 DEF KeepsUnits, QuietUnits, conv2, r
<1> QED BY <1>1, <1>2, <1>3, <1>8, <1>10, <1>13, <1>14, MovedOn

LEMMA UnitRaisesKeeps ==
  ASSUME NEW w \in Writers, FileStoreIInv, UnitRaises(w)
  PROVE  FileStoreIInv'
<1> DEFINE r == writer[w]
           to == [r EXCEPT !.at = "over"]
<1>1. /\ r \in WriterRecord /\ r.at = "unit" /\ Operating(r) /\ r.before \in SUBSET RowSet
      /\ IsUnit(w) /\ Doing(w).file = "conversations"
  BY OwnStep DEF UnitRaises, FileStoreIInv, FileTypes, Operating, WriterRecord
<1>2. FilesTyped(memory_, disk, tmp, saved) /\ deferring \in Int
  BY Types DEF FileStoreIInv
<1>3. /\ memory_' = [memory_ EXCEPT !["conversations"] = r.before] /\ deferring' = deferring - 1
      /\ UNCHANGED <<disk, tmp, saved, met, lone>> /\ WriterTo(w, to)
  BY DEF UnitRaises
<1>4. MovesTo(w, to) /\ ~Operating(to) /\ to.at = "over" /\ to.step = r.step
  BY <1>3, OverFacts DEF FileStoreIInv
<1> HIDE DEF to
<1>5. FilesTyped(memory_, disk, tmp, saved)' /\ Elsewhere(w) /\ InSave(w, to, memory_', tmp')
  <2> HIDE DEF r
  <2> QED BY <1>1, <1>2, <1>3, <1>4 DEF FilesTyped, Elsewhere, InSave, JsonFiles, r
<1>6. ASSUME "conversations" \notin met'
      PROVE  /\ QuietFile("conversations") /\ QuietUnits /\ deferring = 1
             /\ disk["conversations"] \subseteq r.before /\ Whole(r.before)
             /\ r.before \subseteq memory_["conversations"]
  <2>1. "conversations" \notin met  BY <1>3, <1>6
  <2>2. QuietFile("conversations") /\ QuietUnits  BY <2>1 DEF FileStoreIInv, JsonFiles
  <2>3. \A v \in Writers \ {w} : ~Works(writer[v], v, "conversations")
    BY <1>1, <2>1, Alone DEF FileStoreIInv
  <2>4. deferring = 1  BY <1>1, <2>2, <2>3, OneUnit DEF FileStoreIInv
  <2>5. InUnit(w, r, memory_, disk)  BY <2>2 DEF QuietUnits
  <2> QED BY <2>2, <2>4, <2>5, <1>1 DEF InUnit
<1>7. memory_'["conversations"] = r.before
  BY <1>2, <1>3 DEF FilesTyped, JsonFiles
<1>8. Doing(w).file \notin met' => KeepsFile(w, to)
  <2> SUFFICES ASSUME "conversations" \notin met' PROVE KeepsFile(w, to)  BY <1>1
  <2>1. saved["conversations"] \subseteq disk["conversations"]  BY <1>6 DEF QuietFile
  <2> QED BY <2>1, <1>1, <1>3, <1>4, <1>6, <1>7 DEF KeepsFile, Filling
<1>9. Doing(w).file = "conversations" /\ Doing(w).file \notin met' => KeepsUnits(w, to)
  <2> SUFFICES ASSUME "conversations" \notin met' PROVE KeepsUnits(w, to)  BY <1>1
  <2> QED BY <1>3, <1>4, <1>6, <1>7 DEF KeepsUnits, InUnit, QuietUnits
<1>10. deferring' \in Int /\ Operating(writer[w]) /\ met' = met /\ lone' = lone
  BY <1>1, <1>2, <1>3
<1> HIDE DEF r
<1> QED BY <1>1, <1>4, <1>5, <1>8, <1>9, <1>10, MovedOn

\* Opening, filling and replacing the file change neither the memory nor, before
\* the last of them, what is on disk, if the writer is alone.
LEMMA SavingFacts ==
  ASSUME NEW w \in Writers, FileStoreIInv, writer[w].at \in {"save", "open", "fill", "rename"}
  PROVE  /\ writer[w] \in WriterRecord /\ Operating(writer[w]) /\ writer[w].step \in 1..LastStep(w)
         /\ FilesTyped(memory_, disk, tmp, saved) /\ deferring \in Int /\ Doing(w).file \in JsonFiles
         /\ StepOf(w, writer[w].step).file = Doing(w).file
         /\ w \in lone => InSave(w, writer[w], memory_, tmp)
         /\ RowsOf(w, writer[w].step) \subseteq RowSet
<1>1. writer[w] \in WriterRecord /\ Operating(writer[w])
  BY DEF FileStoreIInv, FileTypes, Operating
<1> QED BY <1>1, Types, OwnStep DEF FileStoreIInv, LoneSaves
LEMMA QuietSaving ==
  ASSUME NEW w \in Writers, FileStoreIInv, writer[w].at \in {"save", "open", "fill", "rename"},
         Doing(w).file \notin met
  PROVE  /\ w \in lone
         /\ saved[Doing(w).file] \subseteq disk[Doing(w).file]
         /\ disk[Doing(w).file] \subseteq memory_[Doing(w).file]
         /\ RowsOf(w, writer[w].step) \subseteq memory_[Doing(w).file]
         /\ Doing(w).file = "conversations" =>
              /\ deferring \in {0, 1} /\ (deferring = 1 <=> Double(w, writer[w].step))
              /\ deferring = 1 <=> IsUnit(w)
              /\ Whole(disk["conversations"]) /\ Whole(memory_["conversations"])
<1> DEFINE f == Doing(w).file
<1>1. Operating(writer[w]) /\ f \in JsonFiles /\ Works(writer[w], w, f) /\ writer[w].at \in Filling
  BY SavingFacts DEF Works, Filling
<1>2. w \in lone /\ \A v \in Writers \ {w} : ~Works(writer[v], v, f)
  BY <1>1, Alone DEF FileStoreIInv
<1>3. QuietFile(f)  BY <1>1 DEF FileStoreIInv
<1>4. ASSUME f = "conversations"
      PROVE  /\ deferring \in {0, 1} /\ (deferring = 1 <=> IsUnit(w))
             /\ Whole(disk["conversations"]) /\ Whole(memory_["conversations"])
  <2>1. QuietUnits  BY <1>4 DEF FileStoreIInv
  <2>2. writer[w].at # "unit"  OBVIOUS
  <2> QED BY <1>1, <1>2, <1>4, <2>1, <2>2, OneUnit DEF FileStoreIInv, QuietUnits
<1>5. IsUnit(w) <=> Double(w, writer[w].step)  BY OwnStep DEF FileStoreIInv
<1> QED BY <1>1, <1>2, <1>3, <1>4, <1>5 DEF QuietFile

\* A step of the save that leaves the stores and, if the writer is alone, the
\* disk as they are.
LEMMA SavedOn ==
  ASSUME NEW w \in Writers, FileStoreIInv, writer[w].at \in {"save", "open", "fill"},
         NEW to, MovesTo(w, to), to.at \in {"open", "fill", "rename"}, to.step = writer[w].step,
         UNCHANGED <<memory_, deferring, saved, met, lone>>, FilesTyped(memory_, disk, tmp, saved)',
         Elsewhere(w), w \in lone => disk' = disk /\ InSave(w, to, memory_', tmp')
  PROVE  FileStoreIInv'
<1>1. Operating(to) /\ to.at # "unit"  BY DEF Operating
<1>2. Doing(w).file \notin met' => KeepsFile(w, to)
  <2> SUFFICES ASSUME Doing(w).file \notin met PROVE KeepsFile(w, to)  OBVIOUS
  <2> QED BY QuietSaving DEF KeepsFile
<1>3. Doing(w).file = "conversations" /\ Doing(w).file \notin met' => KeepsUnits(w, to)
  <2> SUFFICES ASSUME Doing(w).file = "conversations", Doing(w).file \notin met PROVE KeepsUnits(w, to)
    OBVIOUS
  <2> QED BY QuietSaving, <1>1 DEF KeepsUnits, InUnit
<1>4. Operating(writer[w]) /\ deferring' \in Int
  BY SavingFacts
<1> QED BY <1>2, <1>3, <1>4, MovedOn

LEMMA SnapshotKeeps ==
  ASSUME NEW w \in Writers, FileStoreIInv, Snapshot(w)
  PROVE  FileStoreIInv'
<1> DEFINE r == writer[w]
           f == Doing(w).file
           mid == [r EXCEPT !.at = "open"]
           to == [mid EXCEPT !.snap = memory_[f]]
<1>1. r.at = "save" /\ UNCHANGED <<memory_, disk, tmp, deferring, saved, met, lone>>
  BY DEF Snapshot
<1>2. /\ r \in WriterRecord /\ memory_[f] \in SUBSET RowSet /\ r.step \in 1..LastStep(w)
      /\ StepOf(w, r.step).file = f /\ FilesTyped(memory_, disk, tmp, saved)
  BY <1>1, SavingFacts DEF FilesTyped
<1>3. WriterTo(w, to)
  <2>1. WriterTo(w, [r EXCEPT !.at = "open", !.snap = memory_[f]])  BY DEF Snapshot
  <2>2. [r EXCEPT !.at = "open", !.snap = memory_[f]] = to
    <3> HIDE DEF r, f
    <3> QED OBVIOUS
  <2> QED BY <2>1, <2>2
<1>4. mid \in WriterRecord /\ mid.at = "open" /\ mid.step = r.step
  BY <1>2, MoveAt DEF Ats
<1>5. to \in WriterRecord /\ to.at = "open" /\ to.step = r.step /\ to.snap = memory_[f]
  <2> HIDE DEF mid, f
  <2> QED BY <1>2, <1>4, MoveSnap
<1> HIDE DEF to, mid
<1>6. MovesTo(w, to)  BY <1>2, <1>3, <1>5 DEF MovesTo
<1>7. InSave(w, to, memory_', tmp')  BY <1>1, <1>2, <1>5 DEF InSave
<1>8. FilesTyped(memory_, disk, tmp, saved)' /\ Elsewhere(w)
  BY <1>1, <1>2 DEF FilesTyped, Elsewhere
<1> HIDE DEF r
<1> QED BY <1>1, <1>5, <1>6, <1>7, <1>8, SavedOn DEF r

LEMMA OpenTmpKeeps ==
  ASSUME NEW w \in Writers, FileStoreIInv, OpenTmp(w)
  PROVE  FileStoreIInv'
<1> DEFINE r == writer[w]
           f == Doing(w).file
           to == [r EXCEPT !.at = "fill"]
<1>1. /\ r.at = "open" /\ UNCHANGED <<memory_, disk, deferring, saved, met, lone>> /\ WriterTo(w, to)
      /\ tmp' = [tmp EXCEPT ![f] = HalfWritten]
  BY DEF OpenTmp
<1>2. /\ r \in WriterRecord /\ r.step \in 1..LastStep(w) /\ f \in JsonFiles
      /\ StepOf(w, r.step).file = f /\ FilesTyped(memory_, disk, tmp, saved)
      /\ w \in lone => InSave(w, r, memory_, tmp)
  BY <1>1, SavingFacts
<1>3. to \in WriterRecord /\ to.at = "fill" /\ to.step = r.step /\ to.snap = r.snap
  BY <1>2, MoveAt DEF Ats
<1> HIDE DEF to
<1>4. MovesTo(w, to)  BY <1>1, <1>2, <1>3 DEF MovesTo
<1>5. FilesTyped(memory_, disk, tmp, saved)' /\ Elsewhere(w) /\ tmp'[f] = HalfWritten
  <2>1. HalfWritten \in Text  BY DEF Text
  <2> HIDE DEF r
  <2> QED BY <1>1, <1>2, <2>1 DEF FilesTyped, Elsewhere
<1>6. w \in lone => InSave(w, to, memory_', tmp')
  BY <1>1, <1>2, <1>3, <1>5 DEF InSave
<1> HIDE DEF r
<1> QED BY <1>1, <1>3, <1>4, <1>5, <1>6, SavedOn DEF r

\* The .tmp a lone writer fills is its own, and is there.
LEMMA FillTmpKeeps ==
  ASSUME NEW w \in Writers, FileStoreIInv, FillTmp(w)
  PROVE  FileStoreIInv'
<1> DEFINE r == writer[w]
           f == Doing(w).file
           to == [r EXCEPT !.at = "rename"]
           shared == tmp[f] # HalfWritten \/ \E v \in Writers \ {w} : AtWork(v, f) /\ writer[v].at = "fill"
<1>1. r.at = "fill" /\ UNCHANGED <<memory_, deferring, saved, met, lone>> /\ WriterTo(w, to)
  BY DEF FillTmp
<1>2. PICK text \in {r.snap} \cup (IF shared THEN {HalfWritten} ELSE {}) :
        \/ tmp[f] # NoTmp /\ tmp' = [tmp EXCEPT ![f] = text] /\ UNCHANGED disk
        \/ shared /\ disk' = [disk EXCEPT ![f] = text] /\ UNCHANGED tmp
  BY DEF FillTmp
<1>3. /\ r \in WriterRecord /\ r.step \in 1..LastStep(w) /\ f \in JsonFiles /\ Operating(r)
      /\ StepOf(w, r.step).file = f /\ FilesTyped(memory_, disk, tmp, saved)
      /\ w \in lone => InSave(w, r, memory_, tmp)
  BY <1>1, SavingFacts
<1>4. to \in WriterRecord /\ to.at = "rename" /\ to.step = r.step /\ to.snap = r.snap
  BY <1>3, MoveAt DEF Ats
<1> HIDE DEF to
<1>5. MovesTo(w, to)  BY <1>1, <1>3, <1>4 DEF MovesTo
<1>6. text \in Text
  <2>1. r.snap \in Text /\ HalfWritten \in Text  BY <1>3 DEF WriterRecord, Text
  <2>2. text = r.snap \/ text = HalfWritten  BY <1>2
  <2> QED BY <2>1, <2>2
<1>7. FilesTyped(memory_, disk, tmp, saved)' /\ Elsewhere(w)
  <2> HIDE DEF shared
  <2> QED BY <1>1, <1>2, <1>3, <1>6 DEF FilesTyped, Elsewhere
<1>8. ASSUME w \in lone PROVE disk' = disk /\ InSave(w, to, memory_', tmp')
  <2>1. tmp[f] = HalfWritten /\ r.snap = memory_[f]  BY <1>1, <1>3, <1>8 DEF InSave
  <2>2. \A v \in Writers \ {w} : ~AtWork(v, f)  BY <1>3, <1>8, Alone DEF FileStoreIInv
  <2>3. ~shared  BY <2>1, <2>2
  <2>4. tmp' = [tmp EXCEPT ![f] = memory_[f]] /\ disk' = disk  BY <1>2, <2>1, <2>3
  <2>5. tmp'[f] = memory_[f]  BY <1>3, <2>4 DEF FilesTyped
  <2> QED BY <1>1, <1>3, <1>4, <2>1, <2>4, <2>5 DEF InSave
<1> HIDE DEF r
<1> QED BY <1>1, <1>4, <1>5, <1>7, <1>8, SavedOn DEF r

\* The file takes the place of the old one whole, and only then is the step
\* acknowledged.
LEMMA RenameTmpKeeps ==
  ASSUME NEW w \in Writers, FileStoreIInv, RenameTmp(w)
  PROVE  FileStoreIInv' /\ (w \in lone => disk'[Doing(w).file] = memory_'[Doing(w).file])
<1> DEFINE r == writer[w]
           f == Doing(w).file
           own == RowsOf(w, r.step)
<1>1. /\ r.at = "rename" /\ UNCHANGED <<memory_, met, lone>>
      /\ deferring' = IF IsUnit(w) THEN deferring - 1 ELSE deferring
  BY DEF RenameTmp
<1>2. /\ r \in WriterRecord /\ r.step \in 1..LastStep(w) /\ f \in JsonFiles /\ Operating(r)
      /\ StepOf(w, r.step).file = f /\ FilesTyped(memory_, disk, tmp, saved) /\ deferring \in Int
      /\ w \in lone => InSave(w, r, memory_, tmp)
      /\ own \subseteq RowSet
  BY <1>1, SavingFacts
<1>3. w \in lone => tmp[f] = memory_[f] /\ tmp[f] # NoTmp
  <2>1. "none" \notin RowNames  BY DEF RowNames
  <2>2. memory_[f] \subseteq RowSet  BY <1>2 DEF FilesTyped
  <2>3. <<"nobody", "none">> \notin memory_[f]  BY <2>1, <2>2 DEF RowSet
  <2> QED BY <1>1, <1>2, <2>3 DEF InSave, NoTmp
<1>4. IsUnit(w) => f = "conversations"  BY OwnStep DEF FileStoreIInv
<1>5. deferring' \in Int /\ (f # "conversations" => deferring' = deferring)
  BY <1>1, <1>2, <1>4
<1>6. CASE tmp[f] = NoTmp
  <2> DEFINE to == [r EXCEPT !.at = "over"]
  <2>1. WriterTo(w, to) /\ UNCHANGED <<disk, tmp, saved>>  BY <1>6 DEF RenameTmp
  <2>2. MovesTo(w, to) /\ ~Operating(to) /\ to.at = "over" /\ to.step = r.step
    BY <2>1, OverFacts DEF FileStoreIInv
  <2> HIDE DEF to
  <2>3. w \notin lone /\ f \in met  BY <1>1, <1>3, <1>6, QuietSaving
  <2>4. FilesTyped(memory_, disk, tmp, saved)' /\ Elsewhere(w) /\ InSave(w, to, memory_', tmp')
    BY <1>1, <1>2, <2>1, <2>2 DEF FilesTyped, Elsewhere, InSave
  <2> QED BY <1>1, <1>2, <1>5, <2>2, <2>3, <2>4, MovedOn
<1>7. CASE tmp[f] # NoTmp
  <2> DEFINE to == Onward(w)
  <2>1. /\ disk' = [disk EXCEPT ![f] = tmp[f]] /\ tmp' = [tmp EXCEPT ![f] = NoTmp]
        /\ Acknowledge(w)
    BY <1>7 DEF RenameTmp
  <2>2. /\ MovesTo(w, to) /\ ~Operating(to) /\ to.at \in {"ready", "over"}
        /\ saved' = [saved EXCEPT ![f] = @ \cup own]
    BY <2>1, OnwardFacts DEF FileStoreIInv
  <2> HIDE DEF to
  <2>3. FilesTyped(memory_, disk, tmp, saved)' /\ Elsewhere(w) /\ InSave(w, to, memory_', tmp')
        /\ disk'[f] = tmp[f] /\ saved'[f] = saved[f] \cup own
    <3>1. tmp[f] \in Text /\ NoTmp \in Text \cup {NoTmp}  BY <1>2, <1>7 DEF FilesTyped
    <3> HIDE DEF own, r
    <3> QED BY <1>1, <1>2, <2>1, <2>2, <3>1 DEF FilesTyped, Elsewhere, InSave
  <2>4. f \notin met' => KeepsFile(w, to)
    <3> SUFFICES ASSUME f \notin met PROVE KeepsFile(w, to)  BY <1>1
    <3>1. /\ w \in lone /\ saved[f] \subseteq disk[f] /\ disk[f] \subseteq memory_[f]
          /\ own \subseteq memory_[f]
      BY <1>1, QuietSaving
    <3>2. disk'[f] = memory_[f] /\ memory_'[f] = memory_[f]  BY <1>1, <1>3, <2>3, <3>1
    <3> HIDE DEF own
    <3> QED BY <2>2, <2>3, <3>1, <3>2 DEF KeepsFile, Filling, own
  <2>5. f = "conversations" /\ f \notin met' => KeepsUnits(w, to)
    <3> SUFFICES ASSUME f = "conversations", f \notin met PROVE KeepsUnits(w, to)  BY <1>1
    <3>1. /\ w \in lone /\ deferring \in {0, 1} /\ (deferring = 1 <=> IsUnit(w))
          /\ Whole(memory_["conversations"])
      BY <1>1, QuietSaving
    <3>2. deferring' = 0  BY <1>1, <3>1
    <3>3. disk'["conversations"] = memory_["conversations"]  BY <1>3, <2>3, <3>1
    <3> QED BY <1>1, <2>2, <3>1, <3>2, <3>3 DEF KeepsUnits, InUnit
  <2>6. w \in lone => disk'[f] = memory_'[f]
    BY <1>1, <1>3, <2>3
  <2> HIDE DEF r
  <2> QED BY <1>1, <1>2, <1>5, <2>2, <2>3, <2>4, <2>5, <2>6, MovedOn DEF r
<1> QED BY <1>6, <1>7

\* A restart takes the memory from the disk, and finds the quiet files whole.
LEMMA KillKeeps ==
  ASSUME FileStoreIInv, KillAndRestore
  PROVE  FileStoreIInv'
<1>1. /\ FilesTyped(memory_, disk, tmp, saved) /\ UNCHANGED <<disk, tmp, saved, met, lone>> /\ deferring' = 0
      /\ writer \in [Writers -> WriterRecord] /\ met \subseteq JsonFiles /\ lone \subseteq Writers
      /\ memory_' = [f \in JsonFiles |-> _read_json(f)]
  BY Types DEF FileStoreIInv, FileTypes, KillAndRestore
<1>2. "torn" \notin RowNames  BY DEF RowNames
<1>3. \A f \in JsonFiles : /\ _read_json(f) \in SUBSET RowSet
                           /\ disk[f] \subseteq RowSet => memory_'[f] = disk[f]
  <2> SUFFICES ASSUME NEW f \in JsonFiles
               PROVE  _read_json(f) \in SUBSET RowSet /\ (disk[f] \subseteq RowSet => memory_'[f] = disk[f])
    OBVIOUS
  <2>1. memory_'[f] = _read_json(f) /\ disk[f] \in Text  BY <1>1 DEF FilesTyped
  <2>2. <<"nobody", "torn">> \notin RowSet  BY <1>2 DEF RowSet
  <2>3. CASE disk[f] = HalfWritten
    <3>1. ~(disk[f] \subseteq RowSet)  BY <2>2, <2>3 DEF HalfWritten
    <3> QED BY <2>3, <3>1 DEF _read_json
  <2>4. CASE disk[f] # HalfWritten
    <3>1. disk[f] \in SUBSET RowSet  BY <2>1, <2>4 DEF Text
    <3> QED BY <2>1, <2>4, <3>1 DEF _read_json
  <2> QED BY <2>3, <2>4
<1>4. \A w \in Writers : /\ writer'[w] \in WriterRecord /\ writer'[w].step = writer[w].step
                         /\ writer'[w].at \in {"ready", "over"}
                         /\ writer'[w].at = "ready" => writer'[w].row = 1
  <2> SUFFICES ASSUME NEW w \in Writers
               PROVE  /\ writer'[w] \in WriterRecord /\ writer'[w].step = writer[w].step
                      /\ writer'[w].at \in {"ready", "over"}
                      /\ writer'[w].at = "ready" => writer'[w].row = 1
    OBVIOUS
  <2>1. writer'[w] = IF writer[w].at = "ready" /\ writer[w].step = 1 THEN writer[w]
                     ELSE [writer[w] EXCEPT !.at = "over"]
    BY DEF KillAndRestore
  <2>2. CASE writer'[w] = writer[w] /\ writer[w].at = "ready"
    BY <2>2, <1>1 DEF FileStoreIInv, FileTypes
  <2>3. CASE writer'[w] = [writer[w] EXCEPT !.at = "over"]
    <3>1. writer[w] \in WriterRecord /\ "over" \in Ats  BY <1>1 DEF Ats
    <3>2. /\ [writer[w] EXCEPT !.at = "over"] \in WriterRecord
          /\ [writer[w] EXCEPT !.at = "over"].at = "over"
          /\ [writer[w] EXCEPT !.at = "over"].step = writer[w].step
      BY <3>1, MoveAt
    <3> QED BY <2>3, <3>2
  <2> QED BY <2>1, <2>2, <2>3
<1>5. \A w \in Writers : writer[w].step \in 1..LastStep(w)
  BY DEF FileStoreIInv, FileTypes
<1>6. writer' \in [Writers -> WriterRecord]
  BY <1>4 DEF KillAndRestore
<1>7. \A w \in Writers : ~Operating(writer'[w]) /\ \A f : ~Works(writer'[w], w, f)
  BY <1>4 DEF Operating, Works
<1>8. FileTypes'
  BY <1>1, <1>3, <1>4, <1>5, <1>6 DEF FileTypes, FilesTyped
<1>9. WorkAlone'
  BY <1>1, <1>7 DEF WorkAlone
<1>10. LoneSaves'
  BY <1>1, <1>4 DEF LoneSaves, InSave
<1>11. ASSUME NEW f \in JsonFiles \ met' PROVE QuietFile(f)' /\ memory_'[f] = disk[f]
  <2>1. QuietFile(f)  BY <1>1, <1>11 DEF FileStoreIInv
  <2>2. saved[f] \subseteq disk[f] /\ disk[f] \subseteq memory_[f] /\ memory_[f] \subseteq RowSet
    BY <2>1, <1>1 DEF QuietFile, FilesTyped
  <2>3. memory_'[f] = disk[f]  BY <1>3, <2>2
  <2> QED BY <1>1, <1>4, <1>7, <2>1, <2>2, <2>3 DEF QuietFile
<1>12. ASSUME "conversations" \notin met' PROVE QuietUnits'
  <2>1. memory_'["conversations"] = disk["conversations"]  BY <1>11, <1>12 DEF JsonFiles
  <2>2. Whole(disk["conversations"])  BY <1>1, <1>12 DEF FileStoreIInv, QuietUnits
  <2>3. \A w \in Writers : InUnit(w, writer'[w], memory_', disk')  BY <1>4 DEF InUnit
  <2> QED BY <1>1, <1>7, <2>1, <2>2, <2>3 DEF QuietUnits
<1> QED BY <1>8, <1>9, <1>10, <1>11, <1>12 DEF FileStoreIInv

LEMMA FileStoreStarts ==
  ASSUME FileStoreInit
  PROVE  FileStoreIInv
<1> DEFINE r == [at |-> "ready", step |-> 1, row |-> 1, before |-> {}, snap |-> {}]
<1>1. writer = [w \in Writers |-> r]  BY DEF FileStoreInit
<1>2. r \in WriterRecord /\ r.at = "ready" /\ r.row = 1 /\ r.step = 1  BY DEF WriterRecord
<1>3. \A w \in Writers : 1 \in 1..LastStep(w)
  BY ScriptTable
<1> HIDE DEF r
<1>4. \A w \in Writers : writer[w] = r  BY <1>1
<1>5. FileTypes
  <2>1. {} \in Text /\ {} \in SUBSET RowSet  BY DEF Text
  <2>2. writer \in [Writers -> WriterRecord]  BY <1>1, <1>2
  <2> QED BY <1>2, <1>3, <1>4, <2>1, <2>2 DEF FileStoreInit, FileTypes
<1>6. \A f \in JsonFiles : memory_[f] = {} /\ disk[f] = {} /\ saved[f] = {}
  BY DEF FileStoreInit
<1>7. \A w \in Writers : ~Operating(writer[w]) /\ \A f : ~Works(writer[w], w, f)
  BY <1>2, <1>4 DEF Operating, Works
<1>8. WorkAlone /\ LoneSaves
  BY <1>7 DEF WorkAlone, LoneSaves, FileStoreInit
<1>9. \A f \in JsonFiles : QuietFile(f)
  BY <1>2, <1>4, <1>6, <1>7 DEF QuietFile
<1>10. QuietUnits
  <2>1. \A w \in Writers : InUnit(w, writer[w], memory_, disk)  BY <1>2, <1>4 DEF InUnit
  <2>2. Whole({})  BY DEF Whole
  <2> QED BY <1>6, <1>7, <2>1, <2>2 DEF QuietUnits, FileStoreInit, JsonFiles
<1> QED BY <1>5, <1>8, <1>9, <1>10 DEF FileStoreIInv

LEMMA FileStoreSteps ==
  ASSUME FileStoreIInv, [FileStoreNext]_fileVars
  PROVE  FileStoreIInv'
<1>1. CASE UNCHANGED fileVars
  BY <1>1 DEF fileVars, FileStoreIInv, FileTypes, WorkAlone, LoneSaves, QuietFile, QuietUnits
<1>2. CASE FileStoreNext
  BY <1>2, KillKeeps, MutateKeeps, SaveOrDeferKeeps, BeginUnitKeeps, UnitWriteKeeps, UnitRaisesKeeps,
     SnapshotKeeps, OpenTmpKeeps, FillTmpKeeps, RenameTmpKeeps DEF FileStoreNext
<1> QED BY <1>1, <1>2

\* Why a completed run has its reply, its outcome and its evidence on disk:
\* "completed" is a row of the last step of a finish, so the others are behind.
LEMMA CompletedIsLast ==
  ASSUME FileStoreIInv, met = {}, NEW w \in Writers, <<w, "completed">> \in disk["conversations"]
  PROVE  /\ <<w, "reply">> \in disk["conversations"] /\ <<w, "outcome">> \in disk["missions"]
         /\ <<w, "finished">> \in disk["v3_missions"] /\ <<w, "evidence">> \in disk["v3_artifacts"]
<1>0. FileTypes /\ \A f \in JsonFiles : QuietFile(f)  BY DEF FileStoreIInv
<1>1. <<w, "completed">> \in memory_["conversations"]
  BY <1>0 DEF QuietFile, JsonFiles
<1>2. PICK s \in 1..writer[w].step : <<w, "completed">> \in RowsOf(w, s)
  BY <1>0, <1>1 DEF QuietFile, JsonFiles, RowNames
<1>3. writer[w].step \in 1..LastStep(w) /\ LastStep(w) \in Nat  BY <1>0, OwnStep
<1>4. s \in 1..LastStep(w)  BY <1>3
<1>5. CASE /\ Does[w] = "finish" /\ LastStep(w) = 5
           /\ StepOf(w, 1) = [file |-> "v3_artifacts", rows |-> <<"evidence">>]
           /\ StepOf(w, 2) = [file |-> "v3_missions", rows |-> <<"finished">>]
           /\ StepOf(w, 3) = [file |-> "missions", rows |-> <<"outcome">>]
           /\ StepOf(w, 4) = [file |-> "conversations", rows |-> <<"reply">>]
           /\ StepOf(w, 5) = [file |-> "conversations", rows |-> <<"completed">>]
  <2>1. /\ RowsOf(w, 1) = {<<w, "evidence">>} /\ StepOf(w, 1).file = "v3_artifacts"
        /\ RowsOf(w, 2) = {<<w, "finished">>} /\ StepOf(w, 2).file = "v3_missions"
        /\ RowsOf(w, 3) = {<<w, "outcome">>} /\ StepOf(w, 3).file = "missions"
        /\ RowsOf(w, 4) = {<<w, "reply">>} /\ StepOf(w, 4).file = "conversations"
    BY <1>5, RowsOfOne
  <2>2. s = 5  BY <1>2, <1>4, <1>5, <2>1
  <2>3. writer[w].step = 5  BY <1>2, <1>3, <1>5, <2>2
  <2>4. \A i \in 1..4 : RowsOf(w, i) \subseteq disk[StepOf(w, i).file]
    <3>1. \A i \in 1..4 : i \in 1..(writer[w].step - 1) /\ i \in 1..LastStep(w)  BY <2>3, <1>5
    <3>2. \A i \in 1..4 : StepOf(w, i).file \in JsonFiles  BY <3>1, StepFacts
    <3> QED BY <1>0, <3>1, <3>2 DEF QuietFile
  <2> QED BY <2>1, <2>4
<1>6. CASE /\ Does[w] = "submit" /\ LastStep(w) = 2
           /\ StepOf(w, 1) = [file |-> "missions", rows |-> <<"seed">>]
           /\ StepOf(w, 2) = [file |-> "conversations", rows |-> <<"run", "message">>]
  <2>1. RowsOf(w, 1) = {<<w, "seed">>} /\ RowsOf(w, 2) = {<<w, "run">>, <<w, "message">>}
    BY <1>6, RowsOfOne, RowsOfTwo
  <2> QED BY <1>2, <1>4, <1>6, <2>1
<1>7. CASE /\ Does[w] = "rename" /\ LastStep(w) = 1
           /\ StepOf(w, 1) = [file |-> "conversations", rows |-> <<"title">>]
  <2>1. RowsOf(w, 1) = {<<w, "title">>}  BY <1>7, RowsOfOne
  <2> QED BY <1>2, <1>4, <1>7, <2>1
<1> QED BY ScriptTable, <1>5, <1>6, <1>7
LEMMA RunIsSecond ==
  ASSUME FileStoreIInv, met = {}, NEW w \in Writers, <<w, "run">> \in disk["conversations"]
  PROVE  <<w, "seed">> \in disk["missions"]
<1>0. FileTypes /\ \A f \in JsonFiles : QuietFile(f)  BY DEF FileStoreIInv
<1>1. <<w, "run">> \in memory_["conversations"]
  BY <1>0 DEF QuietFile, JsonFiles
<1>2. PICK s \in 1..writer[w].step : <<w, "run">> \in RowsOf(w, s)
  BY <1>0, <1>1 DEF QuietFile, JsonFiles, RowNames
<1>3. writer[w].step \in 1..LastStep(w) /\ LastStep(w) \in Nat  BY <1>0, OwnStep
<1>4. s \in 1..LastStep(w)  BY <1>3
<1>5. Double(w, s)  BY <1>2, <1>4, RowsTyped
<1>6. /\ Does[w] = "submit" /\ s = 2
      /\ StepOf(w, 1) = [file |-> "missions", rows |-> <<"seed">>]
  <2>1. StepOf(w, s).rows[1] = "run" /\ Len(StepOf(w, s).rows) = 2  BY <1>5 DEF Double
  <2>2. \A t, f, n : StepOf(w, t) = [file |-> f, rows |-> <<n>>] => Len(StepOf(w, t).rows) = 1
    BY RowsOfOne
  <2> QED BY <1>4, <2>1, <2>2, ScriptTable
<1>7. RowsOf(w, 1) = {<<w, "seed">>} /\ StepOf(w, 1).file = "missions"  BY <1>6, RowsOfOne
<1>8. RowsOf(w, 1) \subseteq disk["missions"]
  BY <1>0, <1>2, <1>3, <1>6, <1>7 DEF QuietFile, JsonFiles
<1> QED BY <1>7, <1>8

\* persistence/file_store.py and conversations/file_store.py: whatever operations
\* run, however their saves overlap and wherever the process is killed, a file on
\* which no two writers have met has what was acknowledged, holds a unit of work
\* whole or not at all, and, if all four are such files, a run on disk has on disk
\* what it refers to.
THEOREM SnapshotsSurvive == FileStoreSpec => []FileStoreInv
<1>1. FileStoreInit => FileStoreIInv
  BY FileStoreStarts
<1>2. FileStoreIInv /\ [FileStoreNext]_fileVars => FileStoreIInv'
  BY FileStoreSteps
<1>3. FileStoreIInv => FileStoreInv
  <2> SUFFICES ASSUME FileStoreIInv PROVE FileStoreInv  OBVIOUS
  <2>1. SavedAlone
    BY DEF FileStoreIInv, QuietFile, SavedAlone
  <2>2. "conversations" \notin met => UnitIsWhole
    BY DEF FileStoreIInv, QuietUnits, Whole, UnitIsWhole
  <2>3. met = {} => FilesAgree
    BY CompletedIsLast, RunIsSecond DEF FilesAgree
  <2> QED BY <2>1, <2>2, <2>3 DEF FileStoreInv
<1> QED BY <1>1, <1>2, <1>3, PTL DEF FileStoreSpec

KillsCounted == killed \in Nat
\* conversations/file_store.py:165-199: however much went wrong while saves
\* overlapped, the next one that has its file to itself, from the change on,
\* leaves on disk exactly what is in memory.
THEOREM LoneSavesHeal == FileStoreSpec => LoneSaveHeals
<1> DEFINE Heals == \A w \in lone : writer[w].at = "rename" /\ killed' = killed /\ writer'[w] # writer[w] =>
                      disk'[Doing(w).file] = memory_'[Doing(w).file]
<1>0. /\ FileStoreInit => KillsCounted
      /\ KillsCounted /\ [FileStoreNext]_fileVars => KillsCounted'
  <2>1. FileStoreInit => killed \in Nat  BY DEF FileStoreInit
  <2>2. ASSUME killed \in Nat, [FileStoreNext]_fileVars PROVE killed' \in Nat
    <3>1. CASE UNCHANGED fileVars  BY <2>2, <3>1 DEF fileVars
    <3>2. CASE KillAndRestore  BY <2>2, <3>2 DEF KillAndRestore
    <3>3. ASSUME NEW w \in Writers,
                 \/ Mutate(w) \/ SaveOrDefer(w) \/ BeginUnit(w) \/ UnitWrite(w) \/ UnitRaises(w)
                 \/ Snapshot(w) \/ OpenTmp(w) \/ FillTmp(w) \/ RenameTmp(w)
          PROVE  killed' = killed
      <4>1. CASE Mutate(w) \/ SaveOrDefer(w) \/ BeginUnit(w)
        BY <4>1 DEF Mutate, SaveOrDefer, BeginUnit
      <4>2. CASE UnitWrite(w) \/ UnitRaises(w) \/ Snapshot(w)
        BY <4>2 DEF UnitWrite, UnitRaises, Snapshot
      <4>3. CASE OpenTmp(w) \/ FillTmp(w) \/ RenameTmp(w)
        BY <4>3 DEF OpenTmp, FillTmp, RenameTmp
      <4> QED BY <3>3, <4>1, <4>2, <4>3
    <3> QED BY <2>2, <3>1, <3>2, <3>3 DEF FileStoreNext
  <2> QED BY <2>1, <2>2 DEF KillsCounted
<1>1. ASSUME FileStoreIInv, KillsCounted, [FileStoreNext]_fileVars
      PROVE  [Heals]_fileVars
  <2>1. CASE UNCHANGED fileVars  BY <2>1
  <2>2. CASE KillAndRestore
    <3>1. killed' # killed  BY <1>1, <2>2 DEF KillAndRestore, KillsCounted
    <3> QED BY <3>1
  <2>3. ASSUME NEW v \in Writers,
               \/ Mutate(v) \/ SaveOrDefer(v) \/ BeginUnit(v) \/ UnitWrite(v) \/ UnitRaises(v)
               \/ Snapshot(v) \/ OpenTmp(v) \/ FillTmp(v) \/ RenameTmp(v)
        PROVE  Heals
    <3> SUFFICES ASSUME NEW w \in lone, writer[w].at = "rename", writer'[w] # writer[w]
                 PROVE  disk'[Doing(w).file] = memory_'[Doing(w).file]
      OBVIOUS
    <3>1. w = v
      <4>1. \E to : WriterTo(v, to)
        BY <2>3 DEF Mutate, SaveOrDefer, BeginUnit, UnitWrite, UnitRaises, Snapshot, OpenTmp, FillTmp,
           RenameTmp, Acknowledge
      <4>2. w \in Writers /\ writer \in [Writers -> WriterRecord]
        BY <1>1 DEF FileStoreIInv, FileTypes
      <4> QED BY <4>1, <4>2 DEF WriterTo
    <3>2. RenameTmp(v)
      BY <2>3, <3>1 DEF Mutate, SaveOrDefer, BeginUnit, UnitWrite, UnitRaises, Snapshot, OpenTmp, FillTmp,
         Begins
    <3> QED BY <1>1, <3>1, <3>2, RenameTmpKeeps
  <2> QED BY <1>1, <2>1, <2>2, <2>3 DEF FileStoreNext
<1>2. FileStoreInit => FileStoreIInv  BY FileStoreStarts
<1>3. FileStoreIInv /\ [FileStoreNext]_fileVars => FileStoreIInv'  BY FileStoreSteps
<1>4. FileStoreSpec => [](FileStoreIInv /\ KillsCounted)
  BY <1>0, <1>2, <1>3, PTL DEF FileStoreSpec
<1> QED BY <1>1, <1>4, PTL DEF FileStoreSpec, LoneSaveHeals

-----------------------------------------------------------------------------
(* Pages.  Rows and cursors are compared by (updated_at, id).  A row that  *)
(* does not change is either before the cursor and not yet shown, or not   *)
(* before it and shown; a page shows the first of those that are before it *)
(* and moves the cursor to the last one shown.                             *)

\* Row i comes after the cursor b, whatever comes first in between.
After(u, i, b) == b = <<>> \/ u[i] < b[1] \/ (u[i] = b[1] /\ i < b[2])
Shown(w, i) == \E n \in 1..Len(w) : w[n] = i

Walking(u, b, w, still, over) ==
  /\ u \in [Ids -> Nat] /\ w \in Seq(Ids)
  /\ b = <<>> \/ b \in Nat \X Ids
  /\ still \subseteq Ids /\ \A i \in still : u[i] > 0
  /\ \A i \in still : \A m, n \in 1..Len(w) : w[m] = i /\ w[n] = i => m = n
  /\ over => \A i \in still : Shown(w, i)
  /\ ~over => \A i \in still : After(u, i, b) <=> ~Shown(w, i)
PagesIInv == moment \in Nat /\ Walking(updated, boundary, walk, quiet, walked)

Found(u, b) == {i \in Ids : u[i] > 0 /\ After(u, i, b)}
\* The order of a listing.
Listing(u, I) == {p \in I \X I : u[p[1]] > u[p[2]] \/ (u[p[1]] = u[p[2]] /\ p[1] >= p[2])}

LEMMA ListingIsOrder ==
  ASSUME NEW u \in [Ids -> Nat], NEW I \in SUBSET Ids
  PROVE  /\ IsOrder(Listing(u, I), I)
         /\ \A i, j \in I : <<i, j>> \in Listing(u, I) <=> u[i] > u[j] \/ (u[i] = u[j] /\ i >= j)
<1> DEFINE R == Listing(u, I)
<1>1. \A i, j \in I : <<i, j>> \in R <=> u[i] > u[j] \/ (u[i] = u[j] /\ i >= j)
  BY DEF Listing
<1>2. \A i \in I : u[i] \in Nat /\ i \in Nat
  BY PagesAssumption
<1> HIDE DEF R
<1>3. \A i, j \in I : <<i, j>> \in R \/ <<j, i>> \in R
  <2> SUFFICES ASSUME NEW i \in I, NEW j \in I PROVE <<i, j>> \in R \/ <<j, i>> \in R
    OBVIOUS
  <2>1. u[i] \in Nat /\ u[j] \in Nat /\ i \in Nat /\ j \in Nat  BY <1>2
  <2>2. \/ u[i] > u[j] \/ (u[i] = u[j] /\ i >= j)
        \/ u[j] > u[i] \/ (u[j] = u[i] /\ j >= i)
    BY <2>1
  <2> QED BY <1>1, <2>2
<1>4. \A i, j \in I : <<i, j>> \in R /\ <<j, i>> \in R => i = j
  BY <1>1, <1>2
<1>5. \A i, j, k \in I : <<i, j>> \in R /\ <<j, k>> \in R => <<i, k>> \in R
  BY <1>1, <1>2
<1> QED BY <1>1, <1>3, <1>4, <1>5 DEF IsOrder, R

\* A page: the first rows of what comes after the cursor, and whether there are more.
IsPage(u, b, items, more) ==
  \E s \in [1..Cardinality(Found(u, b)) -> Found(u, b)] :
    /\ Len(items) \in 1..Cardinality(Found(u, b)) \/ (Len(items) = 0 /\ Found(u, b) = {})
    /\ \A k \in 1..Len(items) : items[k] = s[k]
    /\ more <=> Len(items) < Cardinality(Found(u, b))
    /\ \A k, l \in 1..Cardinality(Found(u, b)) : k < l =>
         /\ s[k] # s[l]
         /\ u[s[k]] > u[s[l]] \/ (u[s[k]] = u[s[l]] /\ s[k] >= s[l])
    /\ {s[k] : k \in 1..Cardinality(Found(u, b))} = Found(u, b)

LEMMA PageIsRead ==
  ASSUME updated \in [Ids -> Nat], NEW limit \in Limits
  PROVE  /\ list_page(limit).items \in Seq(Ids)
         /\ IsPage(updated, boundary, list_page(limit).items, list_page(limit).has_more)
<1> DEFINE I == Found(updated, boundary)
           R == Listing(updated, I)
           count == Cardinality(I)
           size == IF limit < 1 THEN 1 ELSE limit
           n == IF count < size THEN count ELSE size
           items == list_page(limit).items
<1>1. I \in SUBSET Ids /\ IsFiniteSet(I)
  BY PagesAssumption, FS_Subset DEF Found
<1>2. {i \in Ids : updated[i] > 0 /\ Before(i)} = I
  BY DEF Found, After, Before
<1>3. /\ IsOrder(R, I)
      /\ \A i, j \in I : <<i, j>> \in R <=> updated[i] > updated[j] \/ (updated[i] = updated[j] /\ i >= j)
  BY <1>1, ListingIsOrder
<1>4. count \in Nat /\ (count = 0 <=> I = {})
  BY <1>1, FS_CardinalityType, FS_EmptySet
<1>5. size \in Nat /\ size >= 1
  BY PagesAssumption
<1>6. n \in 0..count /\ (n = 0 => count = 0) /\ (n < count <=> count > size)
  BY <1>4, <1>5
<1> HIDE DEF I, R, count, size
<1>7. \A i \in I : {j \in I : NotAfter(j, i)} = {j \in I : <<j, i>> \in R}
  BY <1>3 DEF NotAfter
<1> DEFINE first(k) == CHOOSE i \in I : Cardinality({j \in I : NotAfter(j, i)}) = k
           placed(k) == CHOOSE i \in I : Place(R, I, i) = k
<1>8. items = [k \in 1..n |-> first(k)] /\ list_page(limit).has_more = (count > size)
  <2> DEFINE A == {i \in Ids : updated[i] > 0 /\ Before(i)}
             m == Cardinality(A)
             page == [items |-> [k \in 1..(IF m < size THEN m ELSE size) |->
                                   CHOOSE i \in A : Cardinality({j \in A : NotAfter(j, i)}) = k],
                      has_more |-> m > size]
  <2>1. list_page(limit) = page  BY DEF list_page, size
  <2>2. A = I  BY <1>2
  <2>3. m = count  BY <2>2 DEF count
  <2>4. list_page(limit).items = page.items /\ list_page(limit).has_more = page.has_more
    <3> HIDE DEF page
    <3> QED BY <2>1
  <2>5. /\ page.has_more = (m > size)
        /\ page.items = [k \in 1..(IF m < size THEN m ELSE size) |->
                            CHOOSE i \in A : Cardinality({j \in A : NotAfter(j, i)}) = k]
    <3> HIDE DEF A, m
    <3> QED OBVIOUS
  <2> HIDE DEF A, m, page
  <2> QED BY <2>2, <2>3, <2>4, <2>5
<1>9. \A i \in I : Cardinality({j \in I : NotAfter(j, i)}) = Place(R, I, i)
  BY <1>7 DEF Place
<1>10. \A k : first(k) = placed(k)
  BY <1>9
<1>11. PICK s \in [1..count -> I] :
            /\ \A k \in 1..count : s[k] = placed(k)
            /\ \A k, l \in 1..count : k < l => <<s[k], s[l]>> \in R /\ s[k] # s[l]
            /\ {s[k] : k \in 1..count} = I
  BY <1>1, <1>3, PlacesEnumerate DEF count
<1> HIDE DEF first, placed, n, items
<1>12. \A k \in 1..n : k \in 1..count
  BY <1>4, <1>6
<1>13. \A k \in 1..n : first(k) = s[k] /\ s[k] \in Ids
  BY <1>1, <1>10, <1>11, <1>12
<1>14. items \in [1..n -> Ids] /\ \A k \in 1..n : items[k] = s[k]
  BY <1>8, <1>13
<1>15. items \in Seq(Ids) /\ Len(items) = n
  BY <1>6, <1>14
<1>16. \A k, l \in 1..count : k < l =>
         s[k] # s[l] /\ (updated[s[k]] > updated[s[l]] \/ (updated[s[k]] = updated[s[l]] /\ s[k] >= s[l]))
  <2> SUFFICES ASSUME NEW k \in 1..count, NEW l \in 1..count, k < l
               PROVE  s[k] # s[l] /\ (updated[s[k]] > updated[s[l]]
                                        \/ (updated[s[k]] = updated[s[l]] /\ s[k] >= s[l]))
    OBVIOUS
  <2>1. s[k] \in I /\ s[l] \in I /\ <<s[k], s[l]>> \in R /\ s[k] # s[l]  BY <1>11
  <2> QED BY <1>3, <2>1
<1>17. IsPage(updated, boundary, items, list_page(limit).has_more)
  <2>1. Len(items) \in 1..count \/ (Len(items) = 0 /\ I = {})
    BY <1>4, <1>6, <1>15
  <2>2. list_page(limit).has_more <=> Len(items) < count
    BY <1>6, <1>8, <1>15
  <2>3. \A k \in 1..Len(items) : items[k] = s[k]
    BY <1>14, <1>15
  <2> QED BY <1>11, <1>16, <2>1, <2>2, <2>3 DEF IsPage, I, count
<1> QED BY <1>15, <1>17 DEF items

\* The order is transitive: what is not after the cursor is not after a later one.
LEMMA CursorMovesOn ==
  ASSUME NEW u \in [Ids -> Nat], NEW b, b = <<>> \/ b \in Nat \X Ids, NEW l \in Found(u, b),
         NEW i \in Ids, ~After(u, i, b)
  PROVE  ~After(u, i, <<u[l], l>>)
<1>1. /\ u[i] \in Nat /\ u[l] \in Nat /\ i \in Nat /\ l \in Nat /\ After(u, l, b) /\ b # <<>>
  BY PagesAssumption DEF Found, After
<1>2. PICK t \in Nat, k \in Ids : b = <<t, k>>
  <2>1. b \in Nat \X Ids  BY <1>1
  <2>2. b[1] \in Nat /\ b[2] \in Ids /\ b = <<b[1], b[2]>>  BY <2>1
  <2> QED BY <2>2
<1>3. k \in Nat  BY PagesAssumption
<1>4. b[1] = t /\ b[2] = k  BY <1>2
<1>5. u[l] < t \/ (u[l] = t /\ l < k)  BY <1>1, <1>4 DEF After
<1>6. ~(u[i] < t) /\ ~(u[i] = t /\ i < k)  BY <1>4 DEF After
<1>7. ~(u[i] < u[l]) /\ ~(u[i] = u[l] /\ i < l)  BY <1>1, <1>2, <1>3, <1>5, <1>6
<1>8. <<u[l], l>> # <<>> /\ <<u[l], l>>[1] = u[l] /\ <<u[l], l>>[2] = l  OBVIOUS
<1> QED BY <1>7, <1>8 DEF After

LEMMA PageIsShown ==
  ASSUME NEW u, NEW b, NEW w, NEW still, Walking(u, b, w, still, FALSE),
         NEW items \in Seq(Ids), NEW more \in BOOLEAN, IsPage(u, b, items, more),
         NEW b2, b2 = IF more THEN <<u[items[Len(items)]], items[Len(items)]>> ELSE b
  PROVE  Walking(u, b2, w \o items, still, ~more)
<1> DEFINE I == Found(u, b)
           count == Cardinality(I)
           n == Len(items)
           w2 == w \o items
<1>1. /\ u \in [Ids -> Nat] /\ w \in Seq(Ids) /\ (b = <<>> \/ b \in Nat \X Ids)
      /\ still \subseteq Ids /\ \A i \in still : u[i] > 0
      /\ \A i \in still : \A h, k \in 1..Len(w) : w[h] = i /\ w[k] = i => h = k
      /\ \A i \in still : After(u, i, b) <=> ~Shown(w, i)
  BY DEF Walking
<1>2. PICK s \in [1..count -> I] :
           /\ n \in 1..count \/ (n = 0 /\ I = {})
           /\ \A k \in 1..n : items[k] = s[k]
           /\ more <=> n < count
           /\ \A k, l \in 1..count : k < l =>
                /\ s[k] # s[l]
                /\ u[s[k]] > u[s[l]] \/ (u[s[k]] = u[s[l]] /\ s[k] >= s[l])
           /\ {s[k] : k \in 1..count} = I
  BY DEF IsPage
<1>3. I \in SUBSET Ids /\ IsFiniteSet(I) /\ count \in Nat /\ n \in Nat /\ (I = {} => count = 0)
  BY PagesAssumption, FS_Subset, FS_CardinalityType, FS_EmptySet DEF Found
<1>4. n <= count /\ (n = 0 => ~more) /\ \A k \in 1..n : k \in 1..count
  BY <1>2, <1>3
<1>5. \A i \in still : i \in I <=> ~Shown(w, i)
  BY <1>1 DEF Found
<1>6. /\ w2 \in Seq(Ids) /\ Len(w2) = Len(w) + n /\ Len(w) \in Nat
      /\ \A k \in 1..Len(w) : w2[k] = w[k]
      /\ \A k \in 1..n : w2[Len(w) + k] = items[k]
  BY <1>1
<1> HIDE DEF I, count, n, w2
<1>7. \A k \in 1..Len(w2) : k \in 1..Len(w) \/ \E l \in 1..n : k = Len(w) + l
  <2> SUFFICES ASSUME NEW k \in 1..Len(w2), k \notin 1..Len(w)
               PROVE  \E l \in 1..n : k = Len(w) + l
    OBVIOUS
  <2>1. k - Len(w) \in 1..n /\ k = Len(w) + (k - Len(w))  BY <1>3, <1>6
  <2> QED BY <2>1
<1>8. \A k \in 1..n : items[k] = s[k] /\ s[k] \in I
  BY <1>2, <1>4
<1>9. \A k, l \in 1..n : s[k] = s[l] => k = l
  <2> SUFFICES ASSUME NEW k \in 1..n, NEW l \in 1..n, k # l PROVE s[k] # s[l]
    OBVIOUS
  <2>1. k \in 1..count /\ l \in 1..count /\ (k < l \/ l < k)  BY <1>4
  <2> QED BY <1>2, <2>1
<1>10. ASSUME NEW i \in still, NEW h \in 1..Len(w2), NEW k \in 1..Len(w2), w2[h] = i, w2[k] = i
       PROVE  h = k
  <2>1. CASE Shown(w, i)
    <3>1. i \notin I  BY <1>5, <2>1
    <3>2. ASSUME NEW x \in 1..Len(w2), w2[x] = i PROVE x \in 1..Len(w)
      <4>1. ~\E y \in 1..n : x = Len(w) + y
        <5> SUFFICES ASSUME NEW y \in 1..n, x = Len(w) + y PROVE FALSE
          OBVIOUS
        <5>1. w2[x] = s[y] /\ s[y] \in I  BY <1>6, <1>8
        <5> QED BY <3>1, <3>2, <5>1
      <4> QED BY <1>7, <4>1
    <3>3. h \in 1..Len(w) /\ k \in 1..Len(w)  BY <1>10, <3>2
    <3> QED BY <1>1, <1>6, <1>10, <3>3
  <2>2. CASE ~Shown(w, i)
    <3>1. h \notin 1..Len(w) /\ k \notin 1..Len(w)  BY <1>6, <1>10, <2>2 DEF Shown
    <3>2. PICK x \in 1..n : h = Len(w) + x  BY <1>7, <3>1
    <3>3. PICK y \in 1..n : k = Len(w) + y  BY <1>7, <3>1
    <3>4. s[x] = s[y]  BY <1>6, <1>8, <1>10, <3>2, <3>3
    <3> QED BY <1>9, <3>2, <3>3, <3>4
  <2> QED BY <2>1, <2>2
<1>11. ASSUME NEW i \in still PROVE Shown(w2, i) <=> Shown(w, i) \/ \E k \in 1..n : i = s[k]
  <2>1. ASSUME Shown(w, i) PROVE Shown(w2, i)
    <3>1. PICK k \in 1..Len(w) : w[k] = i  BY <2>1 DEF Shown
    <3>2. k \in 1..Len(w2)  BY <1>3, <1>6
    <3> QED BY <1>6, <3>1, <3>2 DEF Shown
  <2>2. ASSUME NEW k \in 1..n, i = s[k] PROVE Shown(w2, i)
    <3>1. Len(w) + k \in 1..Len(w2)  BY <1>3, <1>6
    <3> QED BY <1>6, <1>8, <2>2, <3>1 DEF Shown
  <2>3. ASSUME Shown(w2, i) PROVE Shown(w, i) \/ \E k \in 1..n : i = s[k]
    <3>1. PICK k \in 1..Len(w2) : w2[k] = i  BY <2>3 DEF Shown
    <3>2. CASE k \in 1..Len(w)  BY <1>6, <3>1, <3>2 DEF Shown
    <3>3. CASE \E l \in 1..n : k = Len(w) + l  BY <1>6, <1>8, <3>1, <3>3
    <3> QED BY <1>7, <3>2, <3>3
  <2> QED BY <2>1, <2>2, <2>3
<1>12. CASE ~more
  <2>1. n = count  BY <1>2, <1>3, <1>4, <1>12
  <2>2. \A i \in still : Shown(w2, i)
    <3> SUFFICES ASSUME NEW i \in still, ~Shown(w, i) PROVE \E k \in 1..n : i = s[k]
      BY <1>11
    <3>1. i \in I  BY <1>5
    <3> QED BY <1>2, <2>1, <3>1
  <2> QED BY <1>1, <1>6, <1>10, <1>12, <2>2 DEF Walking, w2
<1>13. CASE more
  <2>1. n \in 1..n /\ n < count /\ n \in 1..count  BY <1>2, <1>3, <1>4, <1>13
  <2> DEFINE l == s[n]
  <2>2. l \in I /\ l \in Ids /\ items[n] = l  BY <1>3, <1>8, <2>1
  <2>3. b2 = <<u[l], l>>  BY <1>13, <2>2 DEF n
  <2>4. u[l] \in Nat  BY <1>1, <2>2
  <2> HIDE DEF l
  <2>5. b2 \in Nat \X Ids  BY <2>2, <2>3, <2>4
  <2>6. ASSUME NEW i \in still PROVE After(u, i, b2) <=> ~Shown(w2, i)
    <3>1. CASE Shown(w, i)
      <4>1. ~After(u, i, b2)
        <5>1. i \in Ids /\ ~After(u, i, b) /\ l \in Found(u, b)  BY <1>1, <2>2, <3>1 DEF I
        <5>2. ~After(u, i, <<u[l], l>>)  BY <1>1, <5>1, CursorMovesOn
        <5> QED BY <2>3, <5>2
      <4> QED BY <1>11, <3>1, <4>1
    <3>2. CASE ~Shown(w, i)
      <4>1. i \in I  BY <1>5, <3>2
      <4>2. PICK k \in 1..count : i = s[k]  BY <1>2, <4>1
      <4>3. u[i] \in Nat /\ i \in Nat /\ l \in Nat  BY <1>1, <2>2, PagesAssumption
      <4>4. After(u, i, b2) <=> u[i] < u[l] \/ (u[i] = u[l] /\ i < l)
        BY <2>3 DEF After
      <4>5. CASE k <= n
        <5>1. k \in 1..n  BY <1>3, <4>5
        <5>2. u[i] > u[l] \/ (u[i] = u[l] /\ i >= l)
          <6>1. CASE k = n  BY <4>2, <4>3, <6>1 DEF l
          <6>2. CASE k < n  BY <1>2, <2>1, <4>2, <6>2 DEF l
          <6> QED BY <1>3, <4>5, <6>1, <6>2
        <5>3. ~After(u, i, b2)  BY <2>4, <4>3, <4>4, <5>2
        <5> QED BY <1>11, <4>2, <5>1, <5>3
      <4>6. CASE ~(k <= n)
        <5>1. n < k  BY <1>3, <4>6
        <5>2. i # l /\ (u[l] > u[i] \/ (u[l] = u[i] /\ l >= i))
          BY <1>2, <2>1, <4>2, <5>1 DEF l
        <5>3. After(u, i, b2)  BY <2>4, <4>3, <4>4, <5>2
        <5>4. ~\E m \in 1..n : i = s[m]
          <6> SUFFICES ASSUME NEW m \in 1..n PROVE s[k] # s[m]
            BY <4>2
          <6>1. m < k /\ m \in 1..count  BY <1>3, <1>4, <5>1
          <6> QED BY <1>2, <6>1
        <5> QED BY <1>11, <3>2, <5>3, <5>4
      <4> QED BY <4>5, <4>6
    <3> QED BY <3>1, <3>2
  <2> QED BY <1>1, <1>6, <1>10, <1>13, <2>5, <2>6 DEF Walking, w2
<1> QED BY <1>12, <1>13

LEMMA WalkGoesOn ==
  ASSUME PagesIInv, PagesNext
  PROVE  PagesIInv'
<1>1. moment \in Nat /\ Walking(updated, boundary, walk, quiet, walked)
  BY DEF PagesIInv
<1>2. ASSUME NEW limit \in Limits, FetchPage(limit) PROVE PagesIInv'
  <2> DEFINE page == list_page(limit)
             more == page.has_more
             items == page.items
  <2>1. /\ ~walked /\ walk' = walk \o items /\ walked' = ~more /\ UNCHANGED <<moment, updated, quiet>>
        /\ boundary' = IF more THEN <<updated[Last(items)], Last(items)>> ELSE boundary
    BY <1>2 DEF FetchPage
  <2>2. updated \in [Ids -> Nat]  BY <1>1 DEF Walking
  <2>3. items \in Seq(Ids) /\ IsPage(updated, boundary, items, more)
    BY <2>2, PageIsRead
  <2>4. more \in BOOLEAN  BY DEF list_page
  <2> HIDE DEF page, more, items
  <2>5. Walking(updated, boundary, walk, quiet, FALSE)
    BY <1>1, <2>1 DEF Walking
  <2>6. boundary' = IF more THEN <<updated[items[Len(items)]], items[Len(items)]>> ELSE boundary
    BY <2>1 DEF Last
  <2>7. Walking(updated, boundary', walk \o items, quiet, ~more)
    BY <2>3, <2>4, <2>5, <2>6, PageIsShown
  <2> QED BY <1>1, <2>1, <2>7 DEF PagesIInv
<1>3. ASSUME NEW i \in Ids, NEW t \in BOOLEAN, Touch(i, t) PROVE PagesIInv'
  <2>1. /\ moment' \in {moment, moment + 1} /\ updated' = [updated EXCEPT ![i] = IF t THEN moment' ELSE 0]
        /\ quiet' = quiet \ {i} /\ UNCHANGED <<boundary, walk, walked>>
    BY <1>3 DEF Touch
  <2>2. moment' \in Nat /\ updated \in [Ids -> Nat]  BY <1>1, <2>1 DEF Walking
  <2>3. updated' \in [Ids -> Nat] /\ \A j \in Ids \ {i} : updated'[j] = updated[j]
    BY <2>1, <2>2
  <2>4. \A j \in quiet' : j \in quiet /\ j \in Ids \ {i}
    BY <1>1, <2>1 DEF Walking
  <2>5. \A j \in quiet' : After(updated', j, boundary) <=> After(updated, j, boundary)
    BY <2>3, <2>4 DEF After
  <2>6. \A j \in quiet' : updated'[j] > 0
    BY <1>1, <2>3, <2>4 DEF Walking
  <2>7. Walking(updated', boundary, walk, quiet', walked)
    BY <1>1, <2>3, <2>4, <2>5, <2>6 DEF Walking
  <2> QED BY <2>1, <2>2, <2>7 DEF PagesIInv
<1> QED BY <1>2, <1>3 DEF PagesNext

\* A walk through the pages to the last one shows every thread or message that did
\* not change meanwhile, and shows none of them twice, however the others are created,
\* touched and deleted, also with many rows of one time (list_page's keyset query).
THEOREM WalksAreComplete == PagesInit /\ [][PagesNext]_pageVars => []WalkIsComplete
<1>1. PagesInit => PagesIInv
  <2> SUFFICES ASSUME PagesInit PROVE PagesIInv
    OBVIOUS
  <2>1. /\ moment = 1 /\ updated \in [Ids -> 0..1] /\ boundary = <<>> /\ walk = <<>> /\ walked = FALSE
        /\ quiet = {i \in Ids : updated[i] > 0}
    BY DEF PagesInit
  <2>2. updated \in [Ids -> Nat] /\ <<>> \in Seq(Ids) /\ Len(<<>>) = 0
    BY <2>1
  <2>3. \A i \in quiet : After(updated, i, boundary) /\ ~Shown(walk, i)
    BY <2>1, <2>2 DEF After, Shown
  <2>4. Walking(updated, boundary, walk, quiet, walked)
    BY <2>1, <2>2, <2>3 DEF Walking
  <2> QED BY <2>1, <2>4 DEF PagesIInv
<1>2. PagesIInv /\ [PagesNext]_pageVars => PagesIInv'
  <2>1. ASSUME PagesIInv, UNCHANGED pageVars PROVE PagesIInv'
    BY <2>1 DEF pageVars, PagesIInv
  <2> QED BY <2>1, WalkGoesOn
<1>3. PagesIInv => WalkIsComplete
  <2> SUFFICES ASSUME PagesIInv PROVE WalkIsComplete
    OBVIOUS
  <2>1. Walking(updated, boundary, walk, quiet, walked)  BY DEF PagesIInv
  <2>2. walk \in Seq(Ids) /\ DOMAIN walk = 1..Len(walk)  BY <2>1 DEF Walking
  <2>3. ASSUME NEW i \in quiet PROVE Cardinality({n \in DOMAIN walk : walk[n] = i}) <= 1
    <3> DEFINE P == {n \in DOMAIN walk : walk[n] = i}
    <3>1. \A m, n \in P : m = n  BY <2>1, <2>2 DEF Walking
    <3> HIDE DEF P
    <3>2. CASE P = {}
      <4>1. Cardinality(P) = 0  BY <3>2, FS_EmptySet
      <4> QED BY <4>1 DEF P
    <3>3. CASE P # {}
      <4>1. PICK n : P = {n}  BY <3>1, <3>3
      <4>2. Cardinality(P) = 1  BY <4>1, FS_Singleton
      <4> QED BY <4>2 DEF P
    <3> QED BY <3>2, <3>3
  <2>4. walked => quiet \subseteq {walk[n] : n \in DOMAIN walk}
    BY <2>1, <2>2 DEF Walking, Shown
  <2> QED BY <2>3, <2>4 DEF WalkIsComplete
<1> QED BY <1>1, <1>2, <1>3, PTL

-----------------------------------------------------------------------------
(* A run's context and a thread's summary (Context): what the greedy pass   *)
(* over a source leaves of the budgets, by induction on the texts.          *)

LEMMA TotalIsSumTo == \A w, n : Total(w, n) = SumTo(w, n)
BY DEF Total, SumTo

\* The sizes and tokens of a sequence of texts.
LEMMA MeasureTypes ==
  ASSUME NEW s \in Seq(Texts)
  PROVE  Size(s) \in Nat /\ Tokens(s) \in Nat
<1>1. Len(s) \in Nat /\ \A i \in 1..Len(s) : s[i].size \in Nat /\ s[i].tokens \in Nat
  <2>1. \A i \in 1..Len(s) : s[i] \in Texts  OBVIOUS
  <2> QED BY <2>1, ContextAssumption
<1> DEFINE v == [i \in DOMAIN s |-> s[i].size]
           w == [i \in DOMAIN s |-> s[i].tokens]
<1>2. \A i \in 1..Len(s) : v[i] \in Nat /\ w[i] \in Nat
  BY <1>1
<1>3. Size(s) = SumTo(v, Len(s)) /\ Tokens(s) = SumTo(w, Len(s))
  BY TotalIsSumTo DEF Size, Tokens
<1> HIDE DEF v, w
<1> QED BY <1>1, <1>2, <1>3, SumOfNats

LEMMA MeasureOfNothing == Size(<<>>) = 0 /\ Tokens(<<>>) = 0
<1> DEFINE v == [i \in DOMAIN << >> |-> << >>[i].size]
           w == [i \in DOMAIN << >> |-> << >>[i].tokens]
<1>1. Size(<< >>) = SumTo(v, 0) /\ Tokens(<< >>) = SumTo(w, 0)
  BY TotalIsSumTo DEF Size, Tokens
<1> HIDE DEF v, w
<1> QED BY <1>1, SumOneMore

\* One text after another: the whole is the sum of its parts.
LEMMA MeasureOfTwo ==
  ASSUME NEW s \in Seq(Texts), NEW t \in Seq(Texts)
  PROVE  /\ s \o t \in Seq(Texts)
         /\ Size(s \o t) = Size(s) + Size(t) /\ Tokens(s \o t) = Tokens(s) + Tokens(t)
<1> DEFINE n == Len(s)
           m == Len(t)
           c == s \o t
           v(x) == [i \in DOMAIN x |-> x[i].size]
           w(x) == [i \in DOMAIN x |-> x[i].tokens]
<1>1. /\ c \in Seq(Texts) /\ n \in Nat /\ m \in Nat /\ Len(c) = n + m
      /\ DOMAIN s = 1..n /\ DOMAIN t = 1..m /\ DOMAIN c = 1..(n + m)
  OBVIOUS
<1>2. (\A i \in 1..n : c[i] = s[i]) /\ (\A i \in 1..m : c[n + i] = t[i])
  OBVIOUS
<1>3. \A i \in 1..(n + m) : c[i].size \in Nat /\ c[i].tokens \in Nat
  <2>1. \A i \in 1..(n + m) : c[i] \in Texts  BY <1>1
  <2> QED BY <2>1, ContextAssumption
<1> HIDE DEF c, n, m
<1>4. \A i \in 1..n : i \in 1..(n + m)
  BY <1>1
<1>5. \A i \in 1..m : n + i \in 1..(n + m)
  BY <1>1
<1>6. Size(c) = SumTo(v(c), n + m) /\ Tokens(c) = SumTo(w(c), n + m)
  BY <1>1, TotalIsSumTo DEF Size, Tokens
<1>7. Size(s) = SumTo(v(s), n) /\ Tokens(s) = SumTo(w(s), n)
  BY TotalIsSumTo DEF Size, Tokens, n
<1>8. Size(t) = SumTo(v(t), m) /\ Tokens(t) = SumTo(w(t), m)
  BY TotalIsSumTo DEF Size, Tokens, m
<1>9. \A i \in 1..(n + m) : v(c)[i] \in Int /\ w(c)[i] \in Int
  BY <1>1, <1>3
<1>10. \A i \in 1..n : /\ v(s)[i] \in Int /\ v(c)[i] = v(s)[i]
                       /\ w(s)[i] \in Int /\ w(c)[i] = w(s)[i]
  BY <1>1, <1>2, <1>3, <1>4
<1>11. \A i \in 1..m : v(t)[i] = v(c)[n + i] /\ w(t)[i] = w(c)[n + i]
  BY <1>1, <1>2, <1>5
<1> DEFINE vc == v(c)  vs == v(s)  vt == v(t)  wc == w(c)  ws == w(s)  wt == w(t)
<1>12. SumTo(vs, n) = SumTo(vc, n) /\ SumTo(ws, n) = SumTo(wc, n)
  <2> HIDE DEF vc, vs, wc, ws
  <2>1. \A i \in 1..n : /\ vs[i] \in Int /\ vc[i] = vs[i] /\ ws[i] \in Int /\ wc[i] = ws[i]
    BY <1>10 DEF vc, vs, wc, ws
  <2> QED BY <1>1, <2>1, SumOfTheSame
<1>13. /\ SumTo(vc, n + m) = SumTo(vc, n) + SumTo(vt, m)
       /\ SumTo(wc, n + m) = SumTo(wc, n) + SumTo(wt, m)
  <2> HIDE DEF vc, vt, wc, wt
  <2>1. \A i \in 1..(n + m) : vc[i] \in Int /\ wc[i] \in Int
    BY <1>9 DEF vc, wc
  <2>2. \A i \in 1..m : vt[i] = vc[n + i] /\ wt[i] = wc[n + i]
    BY <1>11 DEF vc, vt, wc, wt
  <2>3. SumTo(vc, n + m) = SumTo(vc, n) + SumTo(vt, m)
    BY <1>1, <2>1, <2>2, SumOfTwoParts
  <2>4. SumTo(wc, n + m) = SumTo(wc, n) + SumTo(wt, m)
    BY <1>1, <2>1, <2>2, SumOfTwoParts
  <2> QED BY <2>3, <2>4
<1> HIDE DEF v, w
<1>14. Size(c) = Size(s) + Size(t) /\ Tokens(c) = Tokens(s) + Tokens(t)
  BY <1>6, <1>7, <1>8, <1>12, <1>13
<1> QED BY <1>1, <1>14 DEF c

LEMMA MeasureOfOne ==
  ASSUME NEW t \in Texts
  PROVE  Size(<<t>>) = t.size /\ Tokens(<<t>>) = t.tokens
<1> DEFINE s == <<t>>
           v == [i \in DOMAIN s |-> s[i].size]
           w == [i \in DOMAIN s |-> s[i].tokens]
<1>1. Len(s) = 1 /\ s[1] = t /\ t.size \in Nat /\ t.tokens \in Nat /\ DOMAIN s = 1..1
  BY ContextAssumption
<1>2. Size(s) = SumTo(v, 1) /\ Tokens(s) = SumTo(w, 1)
  BY <1>1, TotalIsSumTo DEF Size, Tokens
<1>3. v[1] = t.size /\ w[1] = t.tokens
  BY <1>1
<1>4. 1 - 1 = 0 /\ \A i \in 1..1 : v[i] \in Int /\ w[i] \in Int
  BY <1>1, <1>3
<1> HIDE DEF s, v, w
<1>5. SumTo(v, 1) = SumTo(v, 0) + v[1] /\ SumTo(w, 1) = SumTo(w, 0) + w[1]
  BY <1>4, SumOneMore
<1>6. SumTo(v, 0) = 0 /\ SumTo(w, 0) = 0
  BY SumOneMore
<1>7. Size(s) = t.size /\ Tokens(s) = t.tokens
  BY <1>1, <1>2, <1>3, <1>5, <1>6
<1> QED BY <1>7 DEF s

LEMMA MeasureOfOneMore ==
  ASSUME NEW s \in Seq(Texts), NEW t \in Texts
  PROVE  /\ Append(s, t) \in Seq(Texts)
         /\ Size(Append(s, t)) = Size(s) + t.size /\ Tokens(Append(s, t)) = Tokens(s) + t.tokens
<1>1. Append(s, t) = s \o <<t>> /\ <<t>> \in Seq(Texts) /\ Append(s, t) \in Seq(Texts)
  OBVIOUS
<1>2. Size(s \o <<t>>) = Size(s) + Size(<<t>>) /\ Tokens(s \o <<t>>) = Tokens(s) + Tokens(<<t>>)
  BY <1>1, MeasureOfTwo
<1> QED BY <1>1, <1>2, MeasureOfOne

\* "recent.reverse()" changes no count.
LEMMA MeasureReversed ==
  ASSUME NEW s \in Seq(Texts)
  PROVE  /\ Reverse(s) \in Seq(Texts)
         /\ Size(Reverse(s)) = Size(s) /\ Tokens(Reverse(s)) = Tokens(s)
<1> DEFINE n == Len(s)
           r == Reverse(s)
           v(x) == [i \in DOMAIN x |-> x[i].size]
           w(x) == [i \in DOMAIN x |-> x[i].tokens]
<1>1. n \in Nat /\ DOMAIN s = 1..n /\ \A i \in 1..n : s[i] \in Texts
  OBVIOUS
<1>2. r = [i \in 1..n |-> s[(n - i) + 1]] /\ \A i \in 1..n : (n - i) + 1 \in 1..n
  BY DEF Reverse
<1>3. r \in [1..n -> Texts]
  BY <1>1, <1>2
<1>4. r \in Seq(Texts) /\ DOMAIN r = 1..n /\ Len(r) = n
  <2> HIDE DEF r, n
  <2> QED BY <1>1, <1>3
<1> HIDE DEF r, n
<1>5. \A i \in 1..n : s[i].size \in Nat /\ s[i].tokens \in Nat
  BY <1>1, ContextAssumption
<1>6. Size(s) = SumTo(v(s), n) /\ Tokens(s) = SumTo(w(s), n)
  BY TotalIsSumTo DEF Size, Tokens, n
<1>7. Size(r) = SumTo(v(r), n) /\ Tokens(r) = SumTo(w(r), n)
  BY <1>4, TotalIsSumTo DEF Size, Tokens
<1> DEFINE vr == v(r)  vs == v(s)  wr == w(r)  ws == w(s)
<1>8. \A i \in 1..n : vs[i] \in Int /\ ws[i] \in Int
  BY <1>1, <1>5
<1>9. \A i \in 1..n : vr[i] = vs[(n - i) + 1] /\ wr[i] = ws[(n - i) + 1]
  BY <1>1, <1>2, <1>4
<1>10. SumTo(vr, n) = SumTo(vs, n) /\ SumTo(wr, n) = SumTo(ws, n)
  <2> HIDE DEF vr, vs, wr, ws
  <2> QED BY <1>1, <1>8, <1>9, SumReversed
<1> HIDE DEF v, w
<1>11. r \in Seq(Texts) /\ Size(r) = Size(s) /\ Tokens(r) = Tokens(s)
  BY <1>4, <1>6, <1>7, <1>10
<1> QED BY <1>11 DEF r

-----------------------------------------------------------------------------
\* What is left of the two budgets of the whole.
Lefts == [size: Int, tokens: Int]
NotSpent(left) == left.size >= 0 /\ left.tokens >= 0

\* The pass over a source: what it chose is accounted for, within the budget of
\* the source and within what was left.
LEMMA TakeKeepsTheBudget ==
  ASSUME NEW left \in Lefts, NotSpent(left), NEW values \in Seq(Texts), NEW budget \in Nat
  PROVE  LET a == take(left, values, budget) IN
         /\ a.chosen \in Seq(Texts)
         /\ Size(a.chosen) <= budget
         /\ a.left \in Lefts /\ NotSpent(a.left)
         /\ a.left.size = left.size - Size(a.chosen)
         /\ a.left.tokens = left.tokens - Tokens(a.chosen)
<1> DEFINE n == Len(values)
           V == [left: Lefts, used: Int, chosen: Seq(Texts)]
           base == [left |-> left, used |-> 0, chosen |-> <<>>]
           Value(f, i) == IF i = 0 THEN base ELSE TakeOne(f[i - 1], values[i], budget)
           after == CHOOSE f : f = [i \in 0..n |-> Value(f, i)]
           step == [p \in V \X (1..n) |-> TakeOne(p[1], values[p[2]], budget)]
           Good(a) == /\ a \in V /\ a.used = Size(a.chosen) /\ a.used <= budget
                      /\ NotSpent(a.left)
                      /\ a.left.size = left.size - Size(a.chosen)
                      /\ a.left.tokens = left.tokens - Tokens(a.chosen)
<1>1. n \in Nat /\ \A i \in 1..n : values[i] \in Texts /\ values[i] \in [size: Nat, tokens: Nat]
  BY ContextAssumption
<1>2. base \in V
  OBVIOUS
<1>3. ASSUME NEW a \in V, NEW t \in Texts PROVE TakeOne(a, t, budget) \in V
  <2>1. t.size \in Nat /\ t.tokens \in Nat
    BY ContextAssumption
  <2>2. Append(a.chosen, t) \in Seq(Texts)
    OBVIOUS
  <2>3. a.left.size \in Int /\ a.left.tokens \in Int /\ a.used \in Int
    BY DEF Lefts
  <2>4. Spend(a.left, t) \in Lefts /\ a.used + t.size \in Int
    BY <2>1, <2>3 DEF Spend, Lefts
  <2>5. [left |-> Spend(a.left, t), used |-> a.used + t.size, chosen |-> Append(a.chosen, t)] \in V
    BY <2>2, <2>4
  <2> HIDE DEF V
  <2> QED BY <2>5 DEF TakeOne
<1>4. step \in [V \X (1..n) -> V]
  <2>1. \A p \in V \X (1..n) : TakeOne(p[1], values[p[2]], budget) \in V
    <3> HIDE DEF V, n
    <3> QED BY <1>1, <1>3
  <2> HIDE DEF V, n
  <2> QED BY <2>1
<1>5. PICK f \in [0..n -> V] : Recursion(f, base, step, n)
  <2> HIDE DEF step, V, base, n
  <2> QED BY <1>1, <1>2, <1>4, RecursionExists
<1>6. ASSUME NEW i \in 0..n PROVE f[i] = Value(f, i)
  <2> HIDE DEF V, n, base
  <2>1. i = 0 \/ (i \in 1..n /\ i - 1 \in 0..n)  BY <1>1
  <2>2. i # 0 => <<f[i - 1], i>> \in V \X (1..n)  BY <1>5, <2>1
  <2> QED BY <1>5, <2>1, <2>2 DEF Recursion
<1>7. f = [i \in 0..n |-> Value(f, i)]
  <2> HIDE DEF V, n, Value
  <2> QED BY <1>5, <1>6
<1>8. after = [i \in 0..n |-> Value(after, i)]
  <2> HIDE DEF Value, n
  <2> QED BY <1>7
<1>9. take(left, values, budget) = after[n]
  BY DEF take
<1> HIDE DEF after, n
<1>10. after[0] = base /\ \A i \in 1..n : after[i] = TakeOne(after[i - 1], values[i], budget)
  <2>1. \A i \in 0..n : after[i] = Value(after, i)
    <3> HIDE DEF Value
    <3> QED BY <1>8
  <2>2. 0 \in 0..n /\ \A i \in 1..n : i \in 0..n /\ i # 0
    BY <1>1
  <2> HIDE DEF base
  <2> QED BY <2>1, <2>2
<1> DEFINE S == {k \in Nat : k <= n => Good(after[k])}
<1>11. Good(base)
  BY <1>2, MeasureOfNothing DEF Lefts
<1>12. ASSUME NEW a, Good(a), NEW t \in Texts PROVE Good(TakeOne(a, t, budget))
  <2>1. t.size \in Nat /\ t.tokens \in Nat
    BY ContextAssumption
  <2>2. CASE ~Fits(a.left, t, budget - a.used)
    <3> HIDE DEF Good
    <3> QED BY <1>12, <2>2 DEF TakeOne
  <2>3. CASE Fits(a.left, t, budget - a.used)
    <3> DEFINE b == TakeOne(a, t, budget)
    <3>1. b = [left |-> Spend(a.left, t), used |-> a.used + t.size, chosen |-> Append(a.chosen, t)]
      BY <2>3 DEF TakeOne
    <3>2. /\ a.chosen \in Seq(Texts) /\ a.used \in Int /\ a.left.size \in Int /\ a.left.tokens \in Int
          /\ left.size \in Int /\ left.tokens \in Int
      BY <1>12 DEF Lefts
    <3>3. /\ Size(a.chosen) \in Nat /\ Tokens(a.chosen) \in Nat
          /\ Size(Append(a.chosen, t)) = Size(a.chosen) + t.size
          /\ Tokens(Append(a.chosen, t)) = Tokens(a.chosen) + t.tokens
      BY <3>2, MeasureTypes, MeasureOfOneMore
    <3>4. /\ b.chosen = Append(a.chosen, t) /\ b.used = a.used + t.size
          /\ b.left = Spend(a.left, t)
          /\ b.left.size = a.left.size - t.size /\ b.left.tokens = a.left.tokens - t.tokens
      BY <3>1 DEF Spend
    <3>5. b \in V
      BY <1>3, <1>12
    <3>6. a.used = Size(a.chosen) /\ a.left.size = left.size - Size(a.chosen)
          /\ a.left.tokens = left.tokens - Tokens(a.chosen)
      BY <1>12
    <3>7. t.size <= budget - a.used /\ t.size <= a.left.size /\ t.tokens <= a.left.tokens
      BY <2>3 DEF Fits
    <3> HIDE DEF b, V
    <3>8. NotSpent(b.left) /\ b.used = Size(b.chosen) /\ b.used <= budget
      <4>1. b.left.size >= 0 /\ b.left.tokens >= 0
        <5>1. a.left.size - t.size >= 0 /\ a.left.tokens - t.tokens >= 0
          BY <2>1, <3>2, <3>7
        <5> QED BY <3>4, <5>1
      <4>2. b.used = a.used + t.size /\ b.used <= budget
        BY <2>1, <3>2, <3>4, <3>7
      <4>3. b.used = Size(b.chosen)
        BY <3>3, <3>4, <3>6
      <4> QED BY <4>1, <4>2, <4>3 DEF NotSpent
    <3>9. b.left.size = left.size - Size(b.chosen) /\ b.left.tokens = left.tokens - Tokens(b.chosen)
      <4>1. Size(b.chosen) = Size(a.chosen) + t.size /\ Tokens(b.chosen) = Tokens(a.chosen) + t.tokens
        BY <3>3, <3>4
      <4>2. \A x, y \in Int, u \in Nat, v \in Nat : y = x - u => y - v = x - (u + v)
        OBVIOUS
      <4>3. a.left.size - t.size = left.size - (Size(a.chosen) + t.size)
        BY <2>1, <3>2, <3>3, <3>6, <4>2
      <4>4. a.left.tokens - t.tokens = left.tokens - (Tokens(a.chosen) + t.tokens)
        BY <2>1, <3>2, <3>3, <3>6, <4>2
      <4> QED BY <3>4, <4>1, <4>3, <4>4
    <3> QED BY <3>5, <3>8, <3>9 DEF b
  <2> QED BY <2>2, <2>3
<1> HIDE DEF Good, base
<1>13. 0 \in S
  BY <1>10, <1>11
<1>14. ASSUME NEW k \in Nat, k \in S PROVE k + 1 \in S
  <2> SUFFICES ASSUME k + 1 <= n PROVE Good(after[k + 1])
    OBVIOUS
  <2>1. k + 1 \in 1..n /\ (k + 1) - 1 = k /\ Good(after[k])
    BY <1>1, <1>14
  <2>2. after[k + 1] = TakeOne(after[k], values[k + 1], budget) /\ values[k + 1] \in Texts
    BY <1>1, <1>10, <2>1
  <2> QED BY <1>12, <2>1, <2>2
<1> HIDE DEF S
<1>15. \A k \in Nat : k \in S
  BY <1>13, <1>14, InductionOverASet
<1>16. Good(take(left, values, budget))
  BY <1>1, <1>9, <1>15 DEF S
<1> QED BY <1>16 DEF Good

-----------------------------------------------------------------------------
\* The bundle of a run: seven passes, each of which starts with what is left.
LEMMA BundleFits == ContextInit => BundleWithinBudget
<1> SUFFICES ASSUME ContextInit PROVE BundleWithinBudget
  OBVIOUS
<1> DEFINE s == sources
           total == [size |-> s.budgets.total, tokens |-> s.budgets.tokens]
           permissions == take(total, <<s.permissions>>, s.budgets.total)
           messages == take(permissions.left, Reverse(s.messages), s.budgets.messages)
           summary == take(messages.left, s.summary, s.budgets.summary)
           memories == take(summary.left, s.memories, s.budgets.memories)
           artifacts == take(memories.left, s.artifacts, s.budgets.artifacts)
           config == take(artifacts.left, <<s.config>>, artifacts.left.size)
           provenance == take(config.left, memories.chosen, config.left.size)
           b == build(s)
<1>1. /\ s.messages \in Seq(Texts) /\ s.summary \in Seq(Texts) /\ s.memories \in Seq(Texts)
      /\ s.artifacts \in Seq(Texts) /\ <<s.config>> \in Seq(Texts) /\ <<s.permissions>> \in Seq(Texts)
      /\ s.budgets \in Budgets
  <2>1. MaxTexts \in Nat
    BY ContextAssumption
  <2>2. \A m \in Nat : SeqOf(Texts, m) \subseteq Seq(Texts)
    BY DEF SeqOf
  <2>3. /\ s.messages \in SeqOf(Texts, MaxTexts) /\ s.summary \in SeqOf(Texts, 1)
        /\ s.memories \in SeqOf(Texts, MaxTexts) /\ s.artifacts \in SeqOf(Texts, 1)
        /\ s.config \in Texts /\ s.permissions \in Texts /\ s.budgets \in Budgets
    BY DEF ContextInit
  <2> HIDE DEF s
  <2> QED BY <2>1, <2>2, <2>3
<1>2. /\ s.budgets.total \in Nat /\ s.budgets.tokens \in Nat /\ s.budgets.messages \in Nat
      /\ s.budgets.summary \in Nat /\ s.budgets.memories \in Nat /\ s.budgets.artifacts \in Nat
  BY <1>1, ContextAssumption
<1>3. total \in Lefts /\ NotSpent(total)
      /\ total.size = s.budgets.total /\ total.tokens = s.budgets.tokens
  BY <1>2 DEF Lefts, NotSpent
<1>4. /\ b.messages = Reverse(messages.chosen) /\ b.summary = summary.chosen
      /\ b.memories = memories.chosen /\ b.artifacts = artifacts.chosen
      /\ b.rest = permissions.chosen \o config.chosen \o provenance.chosen
      /\ b.character_count = s.budgets.total - provenance.left.size
      /\ b.token_estimate = s.budgets.tokens - provenance.left.tokens
  BY DEF build
<1> HIDE DEF s, b
<1>5. Reverse(s.messages) \in Seq(Texts)
  BY <1>1, MeasureReversed
<1> DEFINE Pass(l, a, budget) ==
             /\ a.chosen \in Seq(Texts) /\ Size(a.chosen) <= budget
             /\ a.left \in Lefts /\ NotSpent(a.left)
             /\ a.left.size = l.size - Size(a.chosen)
             /\ a.left.tokens = l.tokens - Tokens(a.chosen)
<1>6. ASSUME NEW l \in Lefts, NotSpent(l), NEW values \in Seq(Texts), NEW budget \in Nat
      PROVE  Pass(l, take(l, values, budget), budget)
  BY <1>6, TakeKeepsTheBudget
<1>7. ASSUME NEW l \in Lefts, NotSpent(l) PROVE l.size \in Nat /\ l.tokens \in Nat
  BY <1>7 DEF Lefts, NotSpent
<1> HIDE DEF total
<1>8. Pass(total, permissions, s.budgets.total)
  BY <1>1, <1>2, <1>3, <1>6
<1> HIDE DEF permissions
<1>9. Pass(permissions.left, messages, s.budgets.messages)
  BY <1>2, <1>5, <1>6, <1>8
<1> HIDE DEF messages
<1>10. Pass(messages.left, summary, s.budgets.summary)
  BY <1>1, <1>2, <1>6, <1>9
<1> HIDE DEF summary
<1>11. Pass(summary.left, memories, s.budgets.memories)
  BY <1>1, <1>2, <1>6, <1>10
<1> HIDE DEF memories
<1>12. Pass(memories.left, artifacts, s.budgets.artifacts)
  BY <1>1, <1>2, <1>6, <1>11
<1> HIDE DEF artifacts
<1>13. Pass(artifacts.left, config, artifacts.left.size)
  <2>1. artifacts.left.size \in Nat
    BY <1>7, <1>12
  <2> QED BY <1>1, <1>6, <1>12, <2>1
<1> HIDE DEF config
<1>14. Pass(config.left, provenance, config.left.size)
  <2>1. config.left.size \in Nat
    BY <1>7, <1>13
  <2> QED BY <1>6, <1>11, <1>13, <2>1
<1> HIDE DEF provenance
<1> DEFINE m == b.messages
           ms == m \o b.summary
           msm == ms \o b.memories
           msma == msm \o b.artifacts
           all == msma \o b.rest
           pc == permissions.chosen \o config.chosen
<1>15. m \in Seq(Texts) /\ Size(m) = Size(messages.chosen) /\ Tokens(m) = Tokens(messages.chosen)
  BY <1>4, <1>9, MeasureReversed
<1>16. /\ ms \in Seq(Texts) /\ Size(ms) = Size(m) + Size(summary.chosen)
       /\ Tokens(ms) = Tokens(m) + Tokens(summary.chosen)
  BY <1>4, <1>10, <1>15, MeasureOfTwo
<1>17. /\ msm \in Seq(Texts) /\ Size(msm) = Size(ms) + Size(memories.chosen)
       /\ Tokens(msm) = Tokens(ms) + Tokens(memories.chosen)
  <2> HIDE DEF ms
  <2> QED BY <1>4, <1>11, <1>16, MeasureOfTwo
<1>18. /\ msma \in Seq(Texts) /\ Size(msma) = Size(msm) + Size(artifacts.chosen)
       /\ Tokens(msma) = Tokens(msm) + Tokens(artifacts.chosen)
  <2> HIDE DEF msm
  <2> QED BY <1>4, <1>12, <1>17, MeasureOfTwo
<1>19. /\ pc \in Seq(Texts) /\ Size(pc) = Size(permissions.chosen) + Size(config.chosen)
       /\ Tokens(pc) = Tokens(permissions.chosen) + Tokens(config.chosen)
  BY <1>8, <1>13, MeasureOfTwo
<1>20. /\ b.rest \in Seq(Texts) /\ Size(b.rest) = Size(pc) + Size(provenance.chosen)
       /\ Tokens(b.rest) = Tokens(pc) + Tokens(provenance.chosen)
  <2>1. b.rest = pc \o provenance.chosen
    BY <1>4
  <2> HIDE DEF pc
  <2> QED BY <1>14, <1>19, <2>1, MeasureOfTwo
<1>21. Size(all) = Size(msma) + Size(b.rest) /\ Tokens(all) = Tokens(msma) + Tokens(b.rest)
  <2> HIDE DEF msma
  <2> QED BY <1>18, <1>20, MeasureOfTwo
<1>22. \A c \in Seq(Texts) : Size(c) \in Nat /\ Tokens(c) \in Nat
  BY MeasureTypes
<1>23. /\ permissions.chosen \in Seq(Texts) /\ messages.chosen \in Seq(Texts)
       /\ summary.chosen \in Seq(Texts) /\ memories.chosen \in Seq(Texts)
       /\ artifacts.chosen \in Seq(Texts) /\ config.chosen \in Seq(Texts)
       /\ provenance.chosen \in Seq(Texts)
  BY <1>8, <1>9, <1>10, <1>11, <1>12, <1>13, <1>14
<1>24. Size(all) = b.character_count /\ b.character_count <= s.budgets.total
  <2>1. /\ Size(permissions.chosen) \in Nat /\ Size(messages.chosen) \in Nat
        /\ Size(summary.chosen) \in Nat /\ Size(memories.chosen) \in Nat
        /\ Size(artifacts.chosen) \in Nat /\ Size(config.chosen) \in Nat
        /\ Size(provenance.chosen) \in Nat
    BY <1>22, <1>23
  <2>2. /\ permissions.left.size = s.budgets.total - Size(permissions.chosen)
        /\ messages.left.size = permissions.left.size - Size(messages.chosen)
        /\ summary.left.size = messages.left.size - Size(summary.chosen)
        /\ memories.left.size = summary.left.size - Size(memories.chosen)
        /\ artifacts.left.size = memories.left.size - Size(artifacts.chosen)
        /\ config.left.size = artifacts.left.size - Size(config.chosen)
        /\ provenance.left.size = config.left.size - Size(provenance.chosen)
        /\ provenance.left.size \in Nat
    BY <1>3, <1>7, <1>8, <1>9, <1>10, <1>11, <1>12, <1>13, <1>14
  <2>3. Size(all) = Size(messages.chosen) + Size(summary.chosen) + Size(memories.chosen)
          + Size(artifacts.chosen)
          + (Size(permissions.chosen) + Size(config.chosen) + Size(provenance.chosen))
    <3> HIDE DEF m, ms, msm, msma, all, pc
    <3> QED BY <1>15, <1>16, <1>17, <1>18, <1>19, <1>20, <1>21
  <2>4. b.character_count = s.budgets.total - provenance.left.size /\ s.budgets.total \in Nat
    BY <1>2, <1>4
  <2>5. provenance.left.size = s.budgets.total - Size(all)
    <3> HIDE DEF all
    <3> QED BY <2>1, <2>2, <2>3, <2>4
  <2>6. Size(all) \in Nat
    <3> HIDE DEF all
    <3> QED BY <2>1, <2>3
  <2> HIDE DEF all
  <2> QED BY <2>2, <2>4, <2>5, <2>6
<1>25. Tokens(all) = b.token_estimate /\ b.token_estimate <= s.budgets.tokens
  <2>1. /\ Tokens(permissions.chosen) \in Nat /\ Tokens(messages.chosen) \in Nat
        /\ Tokens(summary.chosen) \in Nat /\ Tokens(memories.chosen) \in Nat
        /\ Tokens(artifacts.chosen) \in Nat /\ Tokens(config.chosen) \in Nat
        /\ Tokens(provenance.chosen) \in Nat
    BY <1>22, <1>23
  <2>2. /\ permissions.left.tokens = s.budgets.tokens - Tokens(permissions.chosen)
        /\ messages.left.tokens = permissions.left.tokens - Tokens(messages.chosen)
        /\ summary.left.tokens = messages.left.tokens - Tokens(summary.chosen)
        /\ memories.left.tokens = summary.left.tokens - Tokens(memories.chosen)
        /\ artifacts.left.tokens = memories.left.tokens - Tokens(artifacts.chosen)
        /\ config.left.tokens = artifacts.left.tokens - Tokens(config.chosen)
        /\ provenance.left.tokens = config.left.tokens - Tokens(provenance.chosen)
        /\ provenance.left.tokens \in Nat
    BY <1>3, <1>7, <1>8, <1>9, <1>10, <1>11, <1>12, <1>13, <1>14
  <2>3. Tokens(all) = Tokens(messages.chosen) + Tokens(summary.chosen) + Tokens(memories.chosen)
          + Tokens(artifacts.chosen)
          + (Tokens(permissions.chosen) + Tokens(config.chosen) + Tokens(provenance.chosen))
    <3> HIDE DEF m, ms, msm, msma, all, pc
    <3> QED BY <1>15, <1>16, <1>17, <1>18, <1>19, <1>20, <1>21
  <2>4. b.token_estimate = s.budgets.tokens - provenance.left.tokens /\ s.budgets.tokens \in Nat
    BY <1>2, <1>4
  <2>5. provenance.left.tokens = s.budgets.tokens - Tokens(all)
    <3> HIDE DEF all
    <3> QED BY <2>1, <2>2, <2>3, <2>4
  <2>6. Tokens(all) \in Nat
    <3> HIDE DEF all
    <3> QED BY <2>1, <2>3
  <2> HIDE DEF all
  <2> QED BY <2>2, <2>4, <2>5, <2>6
<1>26. /\ Size(b.messages) <= s.budgets.messages /\ Size(b.summary) <= s.budgets.summary
       /\ Size(b.memories) <= s.budgets.memories /\ Size(b.artifacts) <= s.budgets.artifacts
  BY <1>4, <1>9, <1>10, <1>11, <1>12, <1>15
<1>27. all = b.messages \o b.summary \o b.memories \o b.artifacts \o b.rest
  OBVIOUS
<1> HIDE DEF all
<1> QED BY <1>24, <1>25, <1>26, <1>27 DEF BundleWithinBudget, s, b

-----------------------------------------------------------------------------
\* "used" is the thread from its first message: the loop breaks at the first line
\* that does not fit, and counts a newline after each.
LEMMA SummaryFits ==
  ASSUME NEW msgs \in Seq(Texts), NEW max \in Int
  PROVE  LET lines == SummaryLines(msgs, max) IN
         /\ IsPrefix(lines, msgs)
         /\ lines # <<>> => Size(lines) + Len(lines) - 1 <= AtLeastOne(max)
<1> DEFINE n == Len(msgs)
           m == AtLeastOne(max)
           V == [left: Int, over: BOOLEAN, lines: Seq(Texts)]
           base == [left |-> m, over |-> FALSE, lines |-> <<>>]
           Value(f, i) == IF i = 0 THEN base ELSE OneLine(f[i - 1], msgs[i])
           after == CHOOSE f : f = [i \in 0..n |-> Value(f, i)]
           step == [p \in V \X (1..n) |-> OneLine(p[1], msgs[p[2]])]
           Good(a, k) == /\ a \in V /\ Len(a.lines) <= k /\ (~a.over => Len(a.lines) = k)
                         /\ \A i \in 1..Len(a.lines) : a.lines[i] = msgs[i]
                         /\ a.left = m - (Size(a.lines) + Len(a.lines)) /\ a.left >= -1
<1>1. n \in Nat /\ m \in Nat \ {0} /\ \A i \in 1..n : msgs[i] \in Texts
  BY DEF AtLeastOne
<1>2. base \in V
  BY <1>1
<1>3. ASSUME NEW a \in V, NEW t \in Texts PROVE OneLine(a, t) \in V
  <2>1. t.size \in Nat
    BY ContextAssumption
  <2>2. Append(a.lines, t) \in Seq(Texts)
    OBVIOUS
  <2>3. a.left \in Int /\ a.left - t.size - 1 \in Int
    BY <2>1
  <2> QED BY <2>2, <2>3 DEF OneLine
<1>4. step \in [V \X (1..n) -> V]
  <2>1. \A p \in V \X (1..n) : OneLine(p[1], msgs[p[2]]) \in V
    <3> HIDE DEF V, n
    <3> QED BY <1>1, <1>3
  <2> HIDE DEF V, n
  <2> QED BY <2>1
<1>5. PICK f \in [0..n -> V] : Recursion(f, base, step, n)
  <2> HIDE DEF step, V, base, n
  <2> QED BY <1>1, <1>2, <1>4, RecursionExists
<1>6. ASSUME NEW i \in 0..n PROVE f[i] = Value(f, i)
  <2> HIDE DEF V, n, base
  <2>1. i = 0 \/ (i \in 1..n /\ i - 1 \in 0..n)  BY <1>1
  <2>2. i # 0 => <<f[i - 1], i>> \in V \X (1..n)  BY <1>5, <2>1
  <2> QED BY <1>5, <2>1, <2>2 DEF Recursion
<1>7. f = [i \in 0..n |-> Value(f, i)]
  <2> HIDE DEF V, n, Value
  <2> QED BY <1>5, <1>6
<1>8. after = [i \in 0..n |-> Value(after, i)]
  <2> HIDE DEF Value, n
  <2> QED BY <1>7
<1>9. SummaryLines(msgs, max) = after[n].lines
  BY DEF SummaryLines
<1> HIDE DEF after, n
<1>10. after[0] = base /\ \A i \in 1..n : after[i] = OneLine(after[i - 1], msgs[i])
  <2>1. \A i \in 0..n : after[i] = Value(after, i)
    <3> HIDE DEF Value
    <3> QED BY <1>8
  <2>2. 0 \in 0..n /\ \A i \in 1..n : i \in 0..n /\ i # 0
    BY <1>1
  <2> HIDE DEF base
  <2> QED BY <2>1, <2>2
<1>11. Good(base, 0)
  <2>1. base.lines = <<>> /\ base.over = FALSE /\ base.left = m /\ Len(base.lines) = 0
    OBVIOUS
  <2>2. Size(base.lines) = 0
    BY <2>1, MeasureOfNothing
  <2> HIDE DEF base, m
  <2> QED BY <1>1, <1>2, <2>1, <2>2
<1> HIDE DEF m
<1>12. ASSUME NEW k \in Nat, NEW a, Good(a, k), k + 1 \in 1..n PROVE Good(OneLine(a, msgs[k + 1]), k + 1)
  <2> DEFINE t == msgs[k + 1]
             b == OneLine(a, t)
  <2>1. t \in Texts /\ t.size \in Nat
    BY <1>1, <1>12, ContextAssumption
  <2>2. a \in V /\ a.lines \in Seq(Texts) /\ a.left \in Int /\ Len(a.lines) \in Nat
    BY <1>12
  <2>3. b \in V
    BY <1>3, <2>1, <2>2
  <2>4. CASE a.over \/ t.size > a.left
    <3>1. b = [left |-> a.left, over |-> TRUE, lines |-> a.lines]
      BY <2>4 DEF OneLine
    <3>2. b.left = a.left /\ b.over = TRUE /\ b.lines = a.lines
      BY <3>1
    <3>3. Len(a.lines) <= k /\ (\A i \in 1..Len(a.lines) : a.lines[i] = msgs[i])
          /\ a.left = m - (Size(a.lines) + Len(a.lines)) /\ a.left >= -1
      BY <1>12
    <3> HIDE DEF b, V
    <3>4. Len(b.lines) <= k + 1
      BY <2>2, <3>2, <3>3
    <3>5. Good(b, k + 1)
      BY <2>3, <3>2, <3>3, <3>4
    <3> QED BY <3>5 DEF b
  <2>5. CASE ~(a.over \/ t.size > a.left)
    <3>1. b = [left |-> a.left - t.size - 1, over |-> FALSE, lines |-> Append(a.lines, t)]
      BY <2>5 DEF OneLine
    <3>2. b.left = a.left - t.size - 1 /\ b.over = FALSE /\ b.lines = Append(a.lines, t)
      BY <3>1
    <3>3. Len(a.lines) = k /\ (\A i \in 1..k : a.lines[i] = msgs[i])
          /\ a.left = m - (Size(a.lines) + k)
      BY <1>12, <2>5
    <3>4. Len(b.lines) = k + 1 /\ \A i \in 1..(k + 1) : b.lines[i] = msgs[i]
      BY <2>1, <2>2, <3>2, <3>3
    <3>5. Size(b.lines) = Size(a.lines) + t.size /\ Size(a.lines) \in Nat
      BY <2>1, <2>2, <3>2, MeasureOfOneMore, MeasureTypes
    <3> HIDE DEF t
    <3>6. a.left - t.size - 1 = m - ((Size(a.lines) + t.size) + (k + 1)) /\ a.left - t.size - 1 >= -1
      <4>1. t.size <= a.left /\ m \in Nat
        BY <1>1, <2>1, <2>2, <2>5
      <4>2. \A x, u, l \in Int : l = m - (x + k) => l - u - 1 = m - ((x + u) + (k + 1))
        BY <4>1
      <4>3. Size(a.lines) \in Int /\ t.size \in Int /\ a.left \in Int /\ a.left = m - (Size(a.lines) + k)
        BY <2>1, <2>2, <3>3, <3>5
      <4>4. a.left - t.size - 1 = m - ((Size(a.lines) + t.size) + (k + 1))
        <5> HIDE DEF b, V
        <5> QED BY <4>2, <4>3
      <4> QED BY <2>1, <2>2, <4>1, <4>4
    <3>7. b.left = m - (Size(b.lines) + Len(b.lines)) /\ b.left >= -1
      BY <3>2, <3>4, <3>5, <3>6
    <3> HIDE DEF b, V
    <3>8. Len(b.lines) <= k + 1
      BY <3>4
    <3>9. Good(b, k + 1)
      BY <2>3, <3>4, <3>7, <3>8
    <3> QED BY <3>9 DEF b, t
  <2> QED BY <2>4, <2>5
<1> DEFINE S == {k \in Nat : k <= n => Good(after[k], k)}
<1> HIDE DEF Good, base
<1>13. 0 \in S
  BY <1>10, <1>11
<1>14. ASSUME NEW k \in Nat, k \in S PROVE k + 1 \in S
  <2> SUFFICES ASSUME k + 1 <= n PROVE Good(after[k + 1], k + 1)
    OBVIOUS
  <2>1. k + 1 \in 1..n /\ (k + 1) - 1 = k /\ Good(after[k], k)
    BY <1>1, <1>14
  <2>2. after[k + 1] = OneLine(after[k], msgs[k + 1])
    BY <1>10, <2>1
  <2> QED BY <1>12, <2>1, <2>2
<1> HIDE DEF S
<1>15. \A k \in Nat : k \in S
  BY <1>13, <1>14, InductionOverASet
<1>16. Good(after[n], n)
  BY <1>1, <1>15 DEF S
<1> DEFINE lines == after[n].lines
<1>17. /\ lines \in Seq(Texts) /\ Len(lines) <= n /\ (\A i \in 1..Len(lines) : lines[i] = msgs[i])
       /\ after[n].left = m - (Size(lines) + Len(lines)) /\ after[n].left >= -1
  BY <1>16 DEF Good
<1> HIDE DEF lines
<1>18. IsPrefix(lines, msgs)
  <2>1. Len(lines) \in Nat /\ Len(lines) <= Len(msgs)
    BY <1>17 DEF n
  <2>2. SubSeq(lines, 1, Len(lines)) = SubSeq(msgs, 1, Len(lines))
    BY <1>17, <2>1
  <2> QED BY <2>1, <2>2 DEF IsPrefix
<1>19. Size(lines) + Len(lines) - 1 <= m
  <2>1. Size(lines) \in Nat /\ Len(lines) \in Nat
    BY <1>17, MeasureTypes
  <2> QED BY <1>1, <1>17, <2>1
<1>20. SummaryLines(msgs, max) = lines
  BY <1>9 DEF lines
<1> QED BY <1>18, <1>19, <1>20 DEF m

LEMMA ContextsFit == ContextInit => ContextFits
<1> SUFFICES ASSUME ContextInit PROVE ContextFits
  OBVIOUS
<1>1. sources.messages \in Seq(Texts)
  <2>1. MaxTexts \in Nat
    BY ContextAssumption
  <2>2. \A m \in Nat : SeqOf(Texts, m) \subseteq Seq(Texts)
    BY DEF SeqOf
  <2>3. sources.messages \in SeqOf(Texts, MaxTexts)
    BY DEF ContextInit
  <2> QED BY <2>1, <2>2, <2>3
<1>2. SUFFICES ASSUME NEW max \in SummaryLimits
               PROVE  LET lines == SummaryLines(sources.messages, max) IN
                      /\ IsPrefix(lines, sources.messages)
                      /\ lines # <<>> => Size(lines) + Len(lines) - 1 <= AtLeastOne(max)
  BY BundleFits DEF ContextFits, SummaryIsPrefix
<1>3. max \in Int
  BY ContextAssumption
<1> QED BY <1>1, <1>3, SummaryFits

\* What a run reads and what a thread's summary says stay within their limits, for
\* every budget, every limit and any number of texts of any length; build and
\* create change nothing that they read.
THEOREM TextsFit == ContextInit /\ [][FALSE]_contextVars => []ContextFits
<1>1. ContextFits /\ [FALSE]_contextVars => ContextFits'
  <2> SUFFICES ASSUME ContextFits, UNCHANGED contextVars PROVE ContextFits'
    OBVIOUS
  <2>1. sources' = sources
    BY DEF contextVars
  <2> QED BY <2>1 DEF ContextFits, BundleWithinBudget, SummaryIsPrefix
<1> QED BY <1>1, ContextsFit, PTL
=============================================================================
