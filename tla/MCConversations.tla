--------------------------- MODULE MCConversations ---------------------------
(***************************************************************************)
(* Instances of what a user keeps between runs, for TLC.  The parts share  *)
(* no state: each initial state chooses one of them (focus), and the       *)
(* variables of the others stay as they are.                               *)
(***************************************************************************)
EXTENDS Approvals, Library, Memories, FileStore, Context, Pages, TLC

VARIABLE focus

\* Memories: all items say something of one subject, and the second denies it.
Facts == [i \in Items |-> [subject |-> "s", negated |-> i = "m2"]]

\* FileStore: a submission while a run ends.
TwoOperations == "w1" :> "submit" @@ "w2" :> "finish"

SomeTexts == {[size |-> 0, tokens |-> 0], [size |-> 1, tokens |-> 1],
              [size |-> 2, tokens |-> 1]}
SomeBudgets == {[total |-> 4, tokens |-> n, messages |-> 2, summary |-> 1,
                 memories |-> 2, artifacts |-> 1] : n \in {2, 9}}

\* The same model values stand for Library's requests and for Memories'.
Symmetry == Permutations(Handlers) \cup Permutations(Processes) \cup Permutations(Requests)

-----------------------------------------------------------------------------
LibraryAtRest == store = "local"
MemoriesAtRest == database = "memory"
ContextAtRest ==
  LET t == CHOOSE t \in Texts : TRUE IN
  sources = [messages |-> <<>>, summary |-> <<>>, memories |-> <<>>, artifacts |-> <<>>,
             config |-> t, permissions |-> t, budgets |-> CHOOSE b \in Budgets : TRUE]
PagesAtRest ==
  /\ moment = 1 /\ updated = [i \in Ids |-> 0] /\ boundary = <<>> /\ walk = <<>>
  /\ quiet = {} /\ walked = FALSE

ConversationsInit ==
  /\ focus \in {"approvals", "library", "memories", "files", "context", "pages"}
  /\ Init /\ LibraryInit /\ MemoriesInit /\ FileStoreInit
  /\ focus # "library" => LibraryAtRest
  /\ focus # "memories" => MemoriesAtRest
  /\ IF focus = "context" THEN ContextInit ELSE ContextAtRest
  /\ IF focus = "pages" THEN PagesInit ELSE PagesAtRest

\* The step of one part leaves the others alone.
Others(part) ==
  /\ focus = part /\ UNCHANGED <<focus, contextVars>>
  /\ part # "approvals" => UNCHANGED vars
  /\ part # "library" => UNCHANGED libraryVars
  /\ part # "memories" => UNCHANGED memoryVars
  /\ part # "files" => UNCHANGED fileVars
  /\ part # "pages" => UNCHANGED pageVars

ConversationsNext ==
  \/ Others("approvals") /\ Next
  \/ Others("library") /\ LibraryNext
  \/ Others("memories") /\ MemoriesNext
  \/ Others("files") /\ FileStoreNext
  \/ Others("pages") /\ PagesNext

conversationVars ==
  <<focus, vars, libraryVars, memoryVars, fileVars, contextVars, pageVars>>
ConversationsSpec == ConversationsInit /\ [][ConversationsNext]_conversationVars

\* What requests have settled stays settled, whatever other requests do later: a
\* thread that is gone (DeletionIsKept), a memory that is out (ForgottenForGood),
\* and the rows that a save which had its file to itself put on disk
\* (LoneSaveHeals).
SettledStays ==
  /\ DeletionIsKept
  /\ ForgottenForGood
  /\ LoneSaveHeals
=============================================================================
