-------------------------------- MODULE Voice --------------------------------
(***************************************************************************)
(* The voice worker's turns (voice/worker.py VoiceTurnRunner): every       *)
(* question becomes a message and a run of the thread, whose event stream  *)
(* the worker follows to speak how it ended.  A new question, or "never    *)
(* mind", cancels the task of the one before and asks the API to cancel    *)
(* its run, if the task had learnt the run's id.  A request may be lost,   *)
(* and one that was sent may be accepted although its sender no longer     *)
(* waits for the response.                                                 *)
(***************************************************************************)
EXTENDS Streams

CONSTANT Questions  \* the run that each question becomes, in the order asked

ASSUME QuestionsAssumption ==
  /\ Questions \in Seq(Runs)
  /\ \A p, q \in DOMAIN Questions : p # q => Questions[p] # Questions[q]

VARIABLES
  asked,     \* the number of the last question
  task,      \* where its task is
  run_id,    \* VoiceTurnRunner._run_id
  posts,     \* runs whose POST /messages is on its way
  accepted,  \* runs that submit_message has created
  cancels,   \* runs whose one POST /cancel was sent, whatever became of it
  dropped,   \* questions that a later one or "never mind" has ended
  reply,     \* per run: what the assistant's message shows
  spoken     \* per question: the line spoken at its end

voiceVars == <<asked, task, run_id, posts, accepted, cancels, dropped, reply, spoken>>
vars == <<allVars, voiceVars>>
V == "voice"

ASSUME WorkerListens == V \in Clients

Task == {"none", "starting", "posting", "following", "fetching", "done"}
Line == {"nothing", "answer", "refusal", "timeout", "error", "not sent"}
VoiceTypeOK ==
  /\ StreamsTypeOK
  /\ asked \in 0..Len(Questions)
  /\ task \in Task
  /\ run_id \in Runs \cup {"none"}
  /\ posts \subseteq Runs /\ accepted \subseteq Runs /\ cancels \subseteq Runs
  /\ dropped \subseteq DOMAIN Questions
  /\ reply \in [Runs -> {"pending", "answer", "warning"}]
  /\ spoken \in [DOMAIN Questions -> Line]

VoiceInit ==
  /\ StreamsInit
  /\ asked = 0 /\ task = "none" /\ run_id = "none"
  /\ posts = {} /\ accepted = {} /\ cancels = {} /\ dropped = {}
  /\ reply = [r \in Runs |-> "pending"]
  /\ spoken = [q \in DOMAIN Questions |-> "nothing"]

Current == Questions[asked]
Busy == task \notin {"none", "done"}

\* The worker stops reading the stream; its connection goes away.
StopListening(run) ==
  /\ follows' = [follows EXCEPT ![V] = run]
  /\ conn' = [conn EXCEPT ![V] = "closed"]
  /\ wire' = [wire EXCEPT ![V] = <<>>]
  /\ got' = [got EXCEPT ![V] = <<>>]
  /\ UNCHANGED <<logVars, backend, version, cursor, woken, drops>>

\* task.cancel() and, when the run is known, _cancel_run.
CancelTask_Always ==
  /\ dropped' = dropped \cup {asked}
  /\ cancels' = IF run_id # "none" THEN cancels \cup {run_id} ELSE cancels
  /\ run_id' = "none"
CancelTask ==
  /\ dropped' = IF Busy THEN dropped \cup {asked} ELSE dropped
  /\ cancels' = IF Busy /\ run_id # "none" THEN cancels \cup {run_id} ELSE cancels
  /\ run_id' = "none"

-----------------------------------------------------------------------------
\* submit: the new question's task, after that of the one before is cancelled.
submit_ForgetsRun ==
  /\ asked < Len(Questions)
  /\ dropped' = IF Busy THEN dropped \cup {asked} ELSE dropped
  /\ run_id' = "none"
  /\ asked' = asked + 1
  /\ task' = "starting"
  /\ StopListening("nothing")
  /\ UNCHANGED <<posts, accepted, cancels, reply, spoken>>
submit ==
  /\ asked < Len(Questions)
  /\ CancelTask
  /\ asked' = asked + 1
  /\ task' = "starting"
  /\ StopListening("nothing")
  /\ UNCHANGED <<posts, accepted, reply, spoken>>

\* cancel: "never mind".
cancel_RunOnly ==
  /\ Busy
  /\ dropped' = dropped \cup {asked}
  /\ cancels' = IF run_id # "none" THEN cancels \cup {run_id} ELSE cancels
  /\ run_id' = "none"
  /\ UNCHANGED <<allVars, task, asked, posts, accepted, reply, spoken>>
cancel ==
  /\ Busy
  /\ CancelTask
  /\ task' = "done"
  /\ StopListening("nothing")
  /\ UNCHANGED <<asked, posts, accepted, reply, spoken>>

\* _submit sends the question.
Post ==
  /\ task = "starting"
  /\ posts' = posts \cup {Current}
  /\ task' = "posting"
  /\ UNCHANGED <<allVars, asked, run_id, accepted, cancels, dropped, reply, spoken>>

\* The API creates the run, or answers with an error; either way nobody may be
\* waiting any more.
Say(q, line) == spoken' = [spoken EXCEPT ![q] = line]
ServerAccepts(r) ==
  /\ r \in posts
  /\ posts' = posts \ {r} /\ accepted' = accepted \cup {r}
  /\ UNCHANGED <<allVars, asked, task, run_id, cancels, dropped, reply, spoken>>
ServerRefuses(r) ==
  /\ r \in posts
  /\ posts' = posts \ {r}
  /\ IF task = "posting" /\ r = Current
     THEN Say(asked, "not sent") /\ task' = "done"
     ELSE UNCHANGED <<task, spoken>>
  /\ UNCHANGED <<allVars, asked, run_id, accepted, cancels, dropped, reply>>

\* The POST times out or its connection breaks, and _run's except speaks of it;
\* the request may still be on its way, or accepted already.
PostFails ==
  /\ task = "posting"
  /\ Say(asked, "error") /\ task' = "done"
  /\ UNCHANGED <<allVars, asked, run_id, posts, accepted, cancels, dropped, reply>>

\* The response names the run: _run remembers it and follows its stream.
PostReturns ==
  /\ task = "posting" /\ Current \in accepted
  /\ run_id' = Current /\ task' = "following"
  /\ StopListening(Current)
  /\ UNCHANGED <<asked, posts, accepted, cancels, dropped, reply, spoken>>

\* _follow's end: what is spoken depends on the terminal event alone.
EndTurn(line) ==
  /\ Say(asked, line) /\ task' = "done" /\ run_id' = "none"
  /\ UNCHANGED <<asked, posts, accepted, cancels, dropped, reply>>
FollowEnds ==
  /\ task = "following" /\ Done(V)
  /\ LET end == Last(got[V]).type IN
     \/ /\ end = "run.completed"
        /\ task' = "fetching"
        /\ UNCHANGED <<asked, run_id, posts, accepted, cancels, dropped, reply, spoken>>
     \/ end = "run.failed" /\ EndTurn("refusal")
     \/ end = "run.cancelled" /\ EndTurn("nothing")
  /\ UNCHANGED allVars

\* voice_mission_timeout_s passes before a terminal event is seen, or the
\* stream is refused.
FollowGivesUp_WhileConnected(line) ==
  /\ task = "following" /\ ~Done(V) /\ wire[V] # <<>>
  /\ EndTurn(line)
  /\ StopListening("nothing")
FollowGivesUp(line) ==
  /\ task = "following" /\ ~Done(V)
  /\ EndTurn(line)
  /\ StopListening("nothing")

\* _speak_answer reads the thread's messages, up to three times, for a part of
\* type TEXT that is not the placeholder's.
SpeakAnswer_AnyPart ==
  /\ task = "fetching"
  /\ \/ reply[Current] # "pending" /\ EndTurn("answer")
     \/ EndTurn("error")
  /\ UNCHANGED allVars
SpeakAnswer ==
  /\ task = "fetching"
  /\ \/ reply[Current] = "answer" /\ EndTurn("answer")
     \/ EndTurn("error")
  /\ UNCHANGED allVars

-----------------------------------------------------------------------------
\* The executor writes the reply before it finalizes: an answer if the run
\* completed with a response, otherwise a warning.  The runs are those the API
\* has created, and it cancels those of which the request arrives.
Ended(r) == \E n \in 1..MaxAttempts[r] :
              phase[<<r, n>>] # "ended" /\ phase'[<<r, n>>] = "ended"
Completed(r) == \E w \in Writers : /\ w[1] = r /\ tx'[w] # NoRow
                                    /\ tx'[w].type = "run.completed"
Executor ==
  /\ LogNext
  /\ \A w \in Writers : phase'[w] # phase[w] =>
       w[1] \in (IF w[2] = 0 THEN cancels ELSE accepted)
  /\ \E has_response \in BOOLEAN : reply' =
       [r \in Runs |-> IF ~Ended(r) THEN reply[r]
                       ELSE IF has_response /\ Completed(r) THEN "answer"
                       ELSE "warning"]
  /\ UNCHANGED <<streamVars, asked, task, run_id, posts, accepted, cancels,
                 dropped, spoken>>

\* The server polls: what a notifier adds is in module Streams.
StreamStep ==
  /\ ServerStep(V) \/ ClientStep(V) \/ Drop(V)
  /\ UNCHANGED voiceVars

TaskStep ==
  \/ Post \/ PostReturns \/ PostFails \/ FollowEnds \/ SpeakAnswer
  \/ \E line \in {"timeout", "error"} : FollowGivesUp(line)
VoiceNext ==
  \/ submit \/ cancel \/ TaskStep
  \/ \E r \in Runs : ServerAccepts(r) \/ ServerRefuses(r)
  \/ Executor \/ StreamStep

\* The worker's event loop runs its task on, and time passes.  Nothing else is
\* owed: a request may never arrive, and a run need never end.
VoiceSpec ==
  /\ VoiceInit /\ [][VoiceNext]_vars
  /\ WF_vars(TaskStep)

-----------------------------------------------------------------------------
\* "Nothing from a non-completed run is ever read aloud": an answer is spoken
\* only for a run that has completed, with an answer in its message.
OnlyCompletedSpoken ==
  \A q \in DOMAIN Questions : spoken[q] = "answer" =>
    /\ status[Questions[q]] = "run.completed"
    /\ reply[Questions[q]] = "answer"

\* A question that a later one or the user ended stays silent from then on.
DroppedStaysSilent ==
  [][\A q \in dropped : spoken'[q] = spoken[q]]_vars

\* Every question comes to an end the user hears of, unless the user ended it
\* or its run was cancelled.
EveryQuestionEnds ==
  \A q \in DOMAIN Questions :
    (asked = q) ~> \/ spoken[q] # "nothing" \/ q \in dropped
                   \/ status[Questions[q]] = "run.cancelled"

\* A run that the worker had been told of when its question was dropped is over,
\* or the request to cancel it was sent; that it arrives, nobody makes sure.
KnownRunIsAsked ==
  \A q \in DOMAIN Questions :
    []((run_id = Questions[q]) =>
         []((q \in dropped) => (\/ status[Questions[q]] # "open"
                               \/ Questions[q] \in cancels)))

\* "A new user question supersedes the running one: the old run is cancelled
\* through the existing cancel route" (voice/worker.py:463-464): a run of a
\* dropped question is over, or its cancellation has been asked for.
SupersededIsCancelled ==
  \A q \in dropped : Questions[q] \in accepted =>
    status[Questions[q]] # "open" \/ Questions[q] \in cancels

\* Nothing is spoken as the answer that no run has given.
VoiceInv ==
  /\ VoiceTypeOK
  /\ OnlyCompletedSpoken

\* Every question is over some time, and the run of a dropped one that the worker
\* knew of has been asked to stop.
QuestionsSettle ==
  /\ EveryQuestionEnds
  /\ KnownRunIsAsked
=============================================================================
