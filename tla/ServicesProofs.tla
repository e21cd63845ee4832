--------------------------- MODULE ServicesProofs ---------------------------
(***************************************************************************)
(* Theorems of the services beside the missions: the session shared by the *)
(* calls of the MCP transport (Sessions), the middleware's window          *)
(* (Admission), the event streams over the run's log (Streams) and the     *)
(* voice worker that follows them (Voice).                                 *)
(***************************************************************************)
EXTENDS Sessions, Admission, Voice, InductionLemmas, FiniteSetTheorems,
        SequenceTheorems, TLAPS

-----------------------------------------------------------------------------
(* Sessions.  A 404 tells of a session that the server has forgotten; to   *)
(* conclude that it was forgotten since the call began, the invariant says *)
(* of every call what it and the shared session may hold.                  *)

PostRecord ==
  [at: {"idle", "locking", "initializing", "opening", "telling", "calling", "sent", "over"},
   session: Nat, sent: Nat, tries: 0..(Attempts - 1), again: BOOLEAN, since: Nat,
   outcome: {"none", "ok", "not found", "refused", "unavailable", "failed"}]

SessionTypes ==
  /\ issued \in Nat /\ restarts \in Nat
  /\ session \in 0..issued /\ known_ \subseteq 1..issued
  /\ init_lock \in Posters \cup {"none"}
  /\ post \in [Posters -> PostRecord]

Handshaking(c) == post[c].at \in {"initializing", "opening", "telling"}
OnLine(c) == post[c].at \in {"calling", "sent"} /\ post[c].session # 0

\* What is or is about to become the shared session is known to the server.
FreshSession ==
  /\ session \in known_ \cup {0}
  /\ \A d \in Posters : post[d].at = "opening" => post[d].sent \in known_

\* The lock is held during a handshake, which is made only without a session.
LockHeld(c) ==
  /\ Handshaking(c) <=> init_lock = c
  /\ post[c].at \in {"initializing", "opening"} => session = 0
  /\ post[c].at \in {"opening", "telling"} => post[c].sent \in 1..issued

\* A session that is replaced has been forgotten before.
OldIsForgotten(c) ==
  /\ OnLine(c) => post[c].session \notin known_ \/ post[c].session = session
  /\ OnLine(c) /\ post[c].at = "sent" =>
       post[c].session \notin known_ \/ post[c].session = post[c].sent
  /\ post[c].session <= issued /\ post[c].sent <= issued

\* If the server has not restarted since the call began, then what the call
\* opened is known, so is what has replaced the session it started from, and
\* after its one 404 so is whatever it can meet.
SinceBegin(c) ==
  /\ post[c].since <= restarts
  /\ post[c].since = restarts =>
       /\ post[c].at \in {"opening", "telling"} => post[c].sent \in known_
       /\ post[c].at = "telling" => session = post[c].sent
       /\ post[c].at \in {"calling", "sent"} => post[c].session # 0
       /\ OnLine(c) => session = post[c].session \/ FreshSession
       /\ OnLine(c) => \A d \in Posters : post[d].at = "opening" => post[d].sent \in known_
       /\ post[c].again => FreshSession
       /\ post[c].again /\ post[c].at = "sent" => post[c].sent \in known_ \cup {0}
       /\ post[c].outcome # "not found"

SessionsIInv ==
  /\ SessionTypes
  /\ \A c \in Posters : LockHeld(c) /\ OldIsForgotten(c) /\ SinceBegin(c)

\* A step of one call leaves the records of the others alone.
LEMMA StepPosts ==
  ASSUME post \in [Posters -> PostRecord], NEW c \in Posters,
         NEW p \in PostRecord, Step(c, p)
  PROVE  /\ post' \in [Posters -> PostRecord]
         /\ post'[c] = p
         /\ \A d \in Posters : d # c => post'[d] = post[d]
  BY DEF Step

LEMMA NoPostRecord == NoPost \in PostRecord
<1>1. 0 \in 0..(Attempts - 1)
  BY SessionsAssumption
<1> QED BY <1>1 DEF NoPost, PostRecord

\* The invariant's types, as the steps use them.
LEMMA SessionNumbers ==
  ASSUME SessionsIInv
  PROVE  /\ issued \in Nat /\ restarts \in Nat /\ session \in Nat
         /\ session <= issued /\ 0 <= issued
         /\ init_lock \in Posters \cup {"none"}
         /\ post \in [Posters -> PostRecord]
         /\ \A c \in Posters :
              /\ post[c].session \in Nat /\ post[c].sent \in Nat /\ post[c].since \in Nat
              /\ post[c].again \in BOOLEAN
<1>1. SessionTypes
  BY DEF SessionsIInv
<1>2. issued \in Nat /\ restarts \in Nat /\ session \in 0..issued
  BY <1>1 DEF SessionTypes
<1>3. post \in [Posters -> PostRecord] /\ init_lock \in Posters \cup {"none"}
  BY <1>1 DEF SessionTypes
<1>4. ASSUME NEW c \in Posters
      PROVE  /\ post[c].session \in Nat /\ post[c].sent \in Nat /\ post[c].since \in Nat
             /\ post[c].again \in BOOLEAN
  <2>1. post[c] \in PostRecord
    BY <1>3
  <2> QED BY <2>1 DEF PostRecord
<1>5. session \in Nat /\ session <= issued /\ 0 <= issued
  BY <1>2
<1> QED BY <1>2, <1>3, <1>4, <1>5

\* A step that touches neither the shared session nor the server, and brings no
\* call to "opening", has to be looked at for its own call only.
LEMMA QuietStep ==
  ASSUME SessionsIInv, NEW c \in Posters,
         UNCHANGED <<session, issued, known_, restarts>>,
         post' \in [Posters -> PostRecord],
         \A d \in Posters : d # c => post'[d] = post[d],
         post'[c].at # "opening",
         init_lock' \in Posters \cup {"none"},
         \A d \in Posters : d # c => (init_lock' = d <=> init_lock = d),
         LockHeld(c)', OldIsForgotten(c)', SinceBegin(c)'
  PROVE  SessionsIInv'
<1>1. SessionTypes'
  BY DEF SessionsIInv, SessionTypes
<1>2. FreshSession => FreshSession'
  BY DEF FreshSession
<1>3. ASSUME NEW d \in Posters, d # c
      PROVE  LockHeld(d)' /\ OldIsForgotten(d)' /\ SinceBegin(d)'
  <2>1. LockHeld(d) /\ OldIsForgotten(d) /\ SinceBegin(d) /\ post'[d] = post[d]
    BY <1>3 DEF SessionsIInv
  <2>2. LockHeld(d)'
    BY <1>3, <2>1 DEF LockHeld, Handshaking
  <2>3. OldIsForgotten(d)'
    BY <2>1 DEF OldIsForgotten, OnLine
  <2>4. SinceBegin(d)'
    BY <2>1, <1>2 DEF SinceBegin, OnLine
  <2> QED BY <2>2, <2>3, <2>4
<1> QED BY <1>1, <1>3 DEF SessionsIInv

\* A call that is over holds nothing, whatever it failed with; only a 404 has
\* to be accounted for.
LEMMA OverStep ==
  ASSUME SessionsIInv, NEW c \in Posters,
         NEW outcome \in {"ok", "not found", "refused", "unavailable", "failed"},
         Over(c, outcome), UNCHANGED <<session, issued, known_, restarts>>,
         outcome = "not found" => post[c].since # restarts
  PROVE  SessionsIInv'
<1> DEFINE p == [NoPost EXCEPT !.at = "over", !.since = post[c].since, !.outcome = outcome]
<1>1. /\ p \in PostRecord
      /\ p.at = "over" /\ p.session = 0 /\ p.sent = 0
      /\ ~p.again /\ p.since = post[c].since /\ p.outcome = outcome
  <2>1. post[c].since \in Nat
    BY SessionNumbers
  <2>2. p \in PostRecord
    BY <2>1, NoPostRecord DEF PostRecord
  <2> QED BY <2>2 DEF NoPost
<1>0. Step(c, p) /\ init_lock' = IF init_lock = c THEN "none" ELSE init_lock
  BY DEF Over, Released
<1> HIDE DEF p
<1>2. /\ post' \in [Posters -> PostRecord] /\ post'[c] = p
      /\ \A d \in Posters : d # c => post'[d] = post[d]
  BY <1>0, <1>1, StepPosts, SessionNumbers
<1>3. /\ init_lock' \in Posters \cup {"none"} /\ init_lock' # c
      /\ \A d \in Posters : d # c => (init_lock' = d <=> init_lock = d)
  BY <1>0, SessionsAssumption, SessionNumbers
<1>4. LockHeld(c)'
  BY <1>1, <1>2, <1>3 DEF LockHeld, Handshaking
<1>5. OldIsForgotten(c)'
  <2>1. 0 <= issued
    BY SessionNumbers
  <2> QED BY <1>1, <1>2, <2>1 DEF OldIsForgotten, OnLine
<1>6. SinceBegin(c)'
  BY <1>1, <1>2 DEF SinceBegin, OnLine, SessionsIInv
<1> QED BY <1>1, <1>2, <1>3, <1>4, <1>5, <1>6, QuietStep

\* Where _ensure_session leaves a call that may go on with the session there is.
LEMMA CallingFields ==
  ASSUME NEW p \in PostRecord, NEW current \in Nat
  PROVE  /\ Calling(p, current) \in PostRecord
         /\ Calling(p, current).at = "calling"
         /\ Calling(p, current).session = current
         /\ Calling(p, current).sent = p.sent
         /\ Calling(p, current).again = p.again
         /\ Calling(p, current).since = p.since
         /\ Calling(p, current).outcome = p.outcome
<1>1. 0 \in 0..(Attempts - 1)
  BY SessionsAssumption
<1>2. Calling(p, current) \in PostRecord
  BY <1>1 DEF Calling, PostRecord
<1> QED BY <1>2 DEF Calling, PostRecord

LEMMA EnsuredFields ==
  ASSUME NEW p \in PostRecord, NEW current \in Nat
  PROVE  LET q == Ensured(p, current) IN
         /\ q \in PostRecord
         /\ q.at = IF current # 0 THEN "calling" ELSE "locking"
         /\ q.session = IF current # 0 THEN current ELSE p.session
         /\ q.sent = p.sent
         /\ q.again = p.again
         /\ q.since = p.since
         /\ q.outcome = p.outcome
<1>1. CASE current # 0
  BY <1>1, CallingFields DEF Ensured
<1>2. CASE current = 0
  <2>1. Ensured(p, current) = [p EXCEPT !.at = "locking"]
    BY <1>2 DEF Ensured
  <2> QED BY <1>2, <2>1 DEF PostRecord
<1> QED BY <1>1, <1>2

LEMMA BeginStep ==
  ASSUME SessionsIInv, NEW c \in Posters, Begin(c)
  PROVE  SessionsIInv'
<1> DEFINE n == [NoPost EXCEPT !.since = restarts]
           p == Ensured(n, session)
<1>1. /\ n \in PostRecord /\ n.session = 0 /\ n.sent = 0 /\ ~n.again
      /\ n.since = restarts /\ n.outcome = "none"
  <2>1. n \in PostRecord
    BY NoPostRecord, SessionNumbers DEF PostRecord
  <2> QED BY <2>1 DEF NoPost
<1>2. session \in Nat /\ session <= issued /\ issued \in Nat
  BY SessionNumbers
<1> HIDE DEF n
<1>3. /\ p \in PostRecord
      /\ p.at = IF session # 0 THEN "calling" ELSE "locking"
      /\ p.session = session /\ p.sent = 0 /\ ~p.again
      /\ p.since = restarts /\ p.outcome = "none"
  BY <1>1, <1>2, EnsuredFields
<1>4. Step(c, p) /\ post[c].at = "idle" /\ UNCHANGED <<session, init_lock, serverVars>>
  BY DEF Begin, n
<1> HIDE DEF p
<1>5. /\ post' \in [Posters -> PostRecord] /\ post'[c] = p
      /\ \A d \in Posters : d # c => post'[d] = post[d]
  BY <1>3, <1>4, StepPosts, SessionNumbers
<1>6. LockHeld(c)'
  BY <1>3, <1>4, <1>5 DEF LockHeld, Handshaking, SessionsIInv
<1>7. OldIsForgotten(c)'
  BY <1>2, <1>3, <1>4, <1>5 DEF OldIsForgotten, OnLine, serverVars
<1>8. SinceBegin(c)'
  <2>1. session # 0 => \A d \in Posters : post[d].at # "opening"
    BY DEF SessionsIInv, LockHeld
  <2>2. session # 0 => (\A d \in Posters : post[d].at # "opening")'
    BY <1>3, <1>4, <1>5, <2>1
  <2>3. restarts \in Nat /\ restarts' = restarts /\ session' = session
    BY <1>4, SessionNumbers DEF serverVars
  <2>4. p.since <= restarts
    BY <1>3, <2>3
  <2> QED BY <1>3, <1>5, <2>2, <2>3, <2>4 DEF SinceBegin, OnLine
<1> QED
  BY <1>3, <1>4, <1>5, <1>6, <1>7, <1>8, QuietStep, SessionNumbers
     DEF serverVars

LEMMA LockStep ==
  ASSUME SessionsIInv, NEW c \in Posters, Lock(c)
  PROVE  SessionsIInv'
<1>1. /\ post[c].at = "locking" /\ init_lock = "none"
      /\ UNCHANGED <<session, issued, known_, restarts>>
  BY DEF Lock, serverVars
<1>2. LockHeld(c) /\ OldIsForgotten(c) /\ SinceBegin(c) /\ post[c] \in PostRecord
  BY SessionNumbers DEF SessionsIInv
<1>3. CASE session # 0
  <2> DEFINE p == Calling(post[c], session)
  <2>1. Step(c, p) /\ init_lock' = init_lock
    BY <1>3 DEF Lock, _ensure_session
  <2>2. /\ p \in PostRecord /\ p.at = "calling" /\ p.session = session
        /\ p.sent = post[c].sent /\ p.again = post[c].again
        /\ p.since = post[c].since /\ p.outcome = post[c].outcome
    BY <1>2, CallingFields, SessionNumbers
  <2> HIDE DEF p
  <2>3. /\ post' \in [Posters -> PostRecord] /\ post'[c] = p
        /\ \A d \in Posters : d # c => post'[d] = post[d]
    BY <2>1, <2>2, StepPosts, SessionNumbers
  <2>4. LockHeld(c)'
    BY <1>1, <1>2, <2>1, <2>2, <2>3 DEF LockHeld, Handshaking
  <2>5. OldIsForgotten(c)'
    BY <1>1, <1>2, <2>2, <2>3, SessionNumbers DEF OldIsForgotten, OnLine
  <2>6. SinceBegin(c)'
    <3>1. \A d \in Posters : post[d].at # "opening"
      BY <1>3 DEF SessionsIInv, LockHeld
    <3>2. (\A d \in Posters : post[d].at # "opening")'
      BY <2>2, <2>3, <3>1
    <3>3. FreshSession => FreshSession'
      BY <1>1, <3>2 DEF FreshSession
    <3> QED BY <1>1, <1>2, <1>3, <2>2, <2>3, <3>2, <3>3 DEF SinceBegin, OnLine
  <2> QED BY <1>1, <2>1, <2>2, <2>3, <2>4, <2>5, <2>6, QuietStep, SessionNumbers
<1>4. CASE session = 0
  <2> DEFINE p == [post[c] EXCEPT !.at = "initializing", !.tries = 0]
  <2>1. Step(c, p) /\ init_lock' = c
    BY <1>4 DEF Lock, _ensure_session
  <2>2. /\ p \in PostRecord /\ p.at = "initializing" /\ p.session = post[c].session
        /\ p.sent = post[c].sent /\ p.again = post[c].again
        /\ p.since = post[c].since /\ p.outcome = post[c].outcome
    <3>1. 0 \in 0..(Attempts - 1)
      BY SessionsAssumption
    <3> QED BY <1>2, <3>1 DEF PostRecord
  <2> HIDE DEF p
  <2>3. /\ post' \in [Posters -> PostRecord] /\ post'[c] = p
        /\ \A d \in Posters : d # c => post'[d] = post[d]
    BY <2>1, <2>2, StepPosts, SessionNumbers
  <2>4. LockHeld(c)'
    BY <1>1, <1>4, <2>1, <2>2, <2>3 DEF LockHeld, Handshaking
  <2>5. OldIsForgotten(c)'
    BY <1>1, <1>2, <2>2, <2>3 DEF OldIsForgotten, OnLine
  <2>6. SinceBegin(c)'
    <3>1. FreshSession => FreshSession'
      BY <1>1, <2>2, <2>3 DEF FreshSession
    <3> QED BY <1>1, <1>2, <2>2, <2>3, <3>1 DEF SinceBegin, OnLine
  <2>7. \A d \in Posters : d # c => (init_lock' = d <=> init_lock = d)
    BY <1>1, <2>1, SessionsAssumption
  <2> QED BY <1>1, <2>1, <2>2, <2>3, <2>4, <2>5, <2>6, <2>7, QuietStep
<1> QED BY <1>3, <1>4

LEMMA SendStep ==
  ASSUME SessionsIInv, NEW c \in Posters, Send(c)
  PROVE  SessionsIInv'
<1> DEFINE p == [post[c] EXCEPT !.at = "sent", !.sent = session]
<1>1. /\ post[c].at = "calling" /\ Step(c, p)
      /\ UNCHANGED <<session, init_lock, issued, known_, restarts>>
  BY DEF Send, serverVars
<1>2. LockHeld(c) /\ OldIsForgotten(c) /\ SinceBegin(c) /\ post[c] \in PostRecord
  BY SessionNumbers DEF SessionsIInv
<1>3. /\ p \in PostRecord /\ p.at = "sent" /\ p.session = post[c].session
      /\ p.sent = session /\ p.again = post[c].again
      /\ p.since = post[c].since /\ p.outcome = post[c].outcome
  BY <1>2, SessionNumbers DEF PostRecord
<1> HIDE DEF p
<1>4. /\ post' \in [Posters -> PostRecord] /\ post'[c] = p
      /\ \A d \in Posters : d # c => post'[d] = post[d]
  BY <1>1, <1>3, StepPosts, SessionNumbers
<1>5. LockHeld(c)'
  BY <1>1, <1>2, <1>3, <1>4 DEF LockHeld, Handshaking
<1>6. OldIsForgotten(c)'
  BY <1>1, <1>2, <1>3, <1>4, SessionNumbers DEF OldIsForgotten, OnLine
<1>7. SinceBegin(c)'
  <2>1. FreshSession => FreshSession' /\ session' \in known_' \cup {0}
    BY <1>1, <1>3, <1>4 DEF FreshSession
  <2> QED BY <1>1, <1>2, <1>3, <1>4, <2>1 DEF SinceBegin, OnLine
<1> QED BY <1>1, <1>3, <1>4, <1>5, <1>6, <1>7, QuietStep, SessionNumbers

LEMMA NotifyStep ==
  ASSUME SessionsIInv, NEW c \in Posters,
         NEW arrives \in BOOLEAN, NEW answered \in BOOLEAN, Notify(c, arrives, answered)
  PROVE  SessionsIInv'
<1>1. post[c].at = "telling" /\ UNCHANGED <<session, issued, known_, restarts>>
  BY DEF Notify
<1>2. CASE ~answered
  BY <1>1, <1>2, OverStep DEF Notify
<1>3. CASE answered
  <2> DEFINE p == Calling(post[c], session)
  <2>1. Step(c, p) /\ init_lock' = IF init_lock = c THEN "none" ELSE init_lock
    BY <1>3 DEF Notify, Released
  <2>2. LockHeld(c) /\ OldIsForgotten(c) /\ SinceBegin(c) /\ post[c] \in PostRecord
    BY SessionNumbers DEF SessionsIInv
  <2>3. /\ p \in PostRecord /\ p.at = "calling" /\ p.session = session
        /\ p.sent = post[c].sent /\ p.again = post[c].again
        /\ p.since = post[c].since /\ p.outcome = post[c].outcome
    BY <2>2, CallingFields, SessionNumbers
  <2> HIDE DEF p
  <2>4. /\ post' \in [Posters -> PostRecord] /\ post'[c] = p
        /\ \A d \in Posters : d # c => post'[d] = post[d]
    BY <2>1, <2>3, StepPosts, SessionNumbers
  <2>5. /\ init_lock = c /\ init_lock' = "none"
        /\ \A d \in Posters : d # c => (init_lock' = d <=> init_lock = d)
    BY <1>1, <2>1, <2>2, SessionsAssumption DEF LockHeld, Handshaking
  <2>6. LockHeld(c)'
    BY <2>3, <2>4, <2>5, SessionsAssumption DEF LockHeld, Handshaking
  <2>7. OldIsForgotten(c)'
    BY <1>1, <2>2, <2>3, <2>4, SessionNumbers DEF OldIsForgotten, OnLine
  <2>8. SinceBegin(c)'
    <3>1. \A d \in Posters : post[d].at # "opening"
      BY <1>1, <2>5 DEF SessionsIInv, LockHeld, Handshaking
    <3>2. (\A d \in Posters : post[d].at # "opening")'
      BY <2>3, <2>4, <3>1
    <3>3. post[c].since = restarts => session \in known_ /\ session # 0
      <4>1. post[c].sent \in 1..issued
        BY <1>1, <2>2 DEF LockHeld
      <4>2. post[c].sent # 0
        BY <4>1
      <4> QED BY <1>1, <2>2, <4>2 DEF SinceBegin
    <3>4. post[c].since = restarts => FreshSession'
      BY <1>1, <3>2, <3>3 DEF FreshSession
    <3> QED BY <1>1, <2>2, <2>3, <2>4, <3>2, <3>3, <3>4 DEF SinceBegin, OnLine
  <2> QED BY <1>1, <2>3, <2>4, <2>5, <2>6, <2>7, <2>8, QuietStep
<1> QED BY <1>2, <1>3

\* A call whose session the server has forgotten for the second time ends with
\* 404: then the server has restarted since it began.
LEMMA ReplyStep ==
  ASSUME SessionsIInv, NEW c \in Posters, Reply(c)
  PROVE  SessionsIInv'
<1>1. /\ post[c].at = "sent" /\ ~Renews(c) /\ Over(c, ServerSays(post[c].sent))
      /\ UNCHANGED <<session, issued, known_, restarts>>
  BY DEF Reply, serverVars
<1>2. ServerSays(post[c].sent) \in {"ok", "not found", "refused"}
  BY DEF ServerSays
<1>3. ASSUME ServerSays(post[c].sent) = "not found" PROVE post[c].since # restarts
  <2>1. post[c].sent # 0 /\ post[c].sent \notin known_
    BY <1>3 DEF ServerSays
  <2>2. post[c].again \/ post[c].session = 0
    BY <1>1, <1>3 DEF Renews
  <2>3. SinceBegin(c)
    BY DEF SessionsIInv
  <2> QED BY <1>1, <2>1, <2>2, <2>3 DEF SinceBegin
<1> QED BY <1>1, <1>2, <1>3, OverStep

LEMMA UnidentifiedStep ==
  ASSUME SessionsIInv, NEW c \in Posters, Unidentified(c)
  PROVE  SessionsIInv'
BY OverStep DEF Unidentified, serverVars

LEMMA FaultStep ==
  ASSUME SessionsIInv, NEW c \in Posters, Fault(c)
  PROVE  SessionsIInv'
<1>1. /\ post[c].at \in {"initializing", "opening", "sent"}
      /\ UNCHANGED <<session, issued, known_, restarts>>
  BY DEF Fault, serverVars
<1>2. CASE Exhausted(c)
  BY <1>1, <1>2, OverStep DEF Fault
<1>3. CASE ~Exhausted(c)
  <2> DEFINE p == [post[c] EXCEPT !.tries = @ + 1,
                     !.at = IF @ = "sent" THEN "calling" ELSE "initializing"]
  <2>1. Step(c, p) /\ init_lock' = init_lock
    BY <1>3 DEF Fault
  <2>2. LockHeld(c) /\ OldIsForgotten(c) /\ SinceBegin(c) /\ post[c] \in PostRecord
    BY SessionNumbers DEF SessionsIInv
  <2>3. post[c].tries + 1 \in 0..(Attempts - 1)
    <3>1. post[c].tries \in 0..(Attempts - 1)
      BY <2>2 DEF PostRecord
    <3> QED BY <1>3, <3>1, SessionsAssumption DEF Exhausted
  <2>4. p \in PostRecord
    BY <2>2, <2>3 DEF PostRecord
  <2>5. /\ p.at = IF post[c].at = "sent" THEN "calling" ELSE "initializing"
        /\ p.session = post[c].session /\ p.sent = post[c].sent
        /\ p.again = post[c].again /\ p.since = post[c].since
        /\ p.outcome = post[c].outcome
    BY <2>2 DEF PostRecord
  <2> HIDE DEF p
  <2>6. /\ post' \in [Posters -> PostRecord] /\ post'[c] = p
        /\ \A d \in Posters : d # c => post'[d] = post[d]
    BY <2>1, <2>4, StepPosts, SessionNumbers
  <2>7. LockHeld(c)'
    BY <1>1, <2>1, <2>2, <2>5, <2>6 DEF LockHeld, Handshaking
  <2>8. OldIsForgotten(c)'
    BY <1>1, <2>2, <2>5, <2>6 DEF OldIsForgotten, OnLine
  <2>9. SinceBegin(c)'
    <3>1. FreshSession => FreshSession'
      BY <1>1, <2>5, <2>6 DEF FreshSession
    <3>2. (\A d \in Posters : post[d].at = "opening" => post[d].sent \in known_)
            => (\A d \in Posters : post[d].at = "opening" => post[d].sent \in known_)'
      BY <1>1, <2>5, <2>6
    <3> QED BY <1>1, <2>2, <2>5, <2>6, <3>1, <3>2 DEF SinceBegin, OnLine
  <2> QED BY <1>1, <2>1, <2>5, <2>6, <2>7, <2>8, <2>9, QuietStep, SessionNumbers
<1> QED BY <1>2, <1>3

\* initialize opens a session nobody has: no call takes it for the one it lost.
LEMMA PostInitializeStep ==
  ASSUME SessionsIInv, NEW c \in Posters, PostInitialize(c)
  PROVE  SessionsIInv'
<1> DEFINE p == [post[c] EXCEPT !.at = "opening", !.sent = issued + 1]
<1>1. /\ post[c].at = "initializing" /\ Step(c, p)
      /\ issued' = issued + 1 /\ known_' = known_ \cup {issued + 1}
      /\ UNCHANGED <<session, init_lock, restarts>>
  BY DEF PostInitialize
<1>2. LockHeld(c) /\ OldIsForgotten(c) /\ SinceBegin(c) /\ post[c] \in PostRecord
  BY SessionNumbers DEF SessionsIInv
<1>3. issued + 1 \in Nat
  BY SessionNumbers
<1>4. /\ p \in PostRecord /\ p.at = "opening" /\ p.session = post[c].session
      /\ p.sent = issued + 1 /\ p.again = post[c].again
      /\ p.since = post[c].since /\ p.outcome = post[c].outcome
  BY <1>2, <1>3 DEF PostRecord
<1> HIDE DEF p
<1>5. /\ post' \in [Posters -> PostRecord] /\ post'[c] = p
      /\ \A d \in Posters : d # c => post'[d] = post[d]
  BY <1>1, <1>4, StepPosts, SessionNumbers
<1>6. session = 0 /\ session' = 0 /\ init_lock = c
  BY <1>1, <1>2 DEF LockHeld, Handshaking
<1>7. \A d \in Posters : d # c => ~Handshaking(d) /\ ~(Handshaking(d)')
  BY <1>5, <1>6 DEF SessionsIInv, LockHeld, Handshaking
<1>8. FreshSession'
  BY <1>1, <1>4, <1>5, <1>6, <1>7 DEF FreshSession, Handshaking
<1>9. SessionTypes'
  <2>1. issued' \in Nat /\ known_' \subseteq 1..issued'
    BY <1>1 DEF SessionsIInv, SessionTypes
  <2>2. session' \in 0..issued'
    BY <1>6, <2>1
  <2> QED BY <1>1, <1>5, <2>1, <2>2 DEF SessionsIInv, SessionTypes
<1>10. ASSUME NEW d \in Posters
       PROVE  LockHeld(d)' /\ OldIsForgotten(d)' /\ SinceBegin(d)'
  <2>1. LockHeld(d) /\ OldIsForgotten(d) /\ SinceBegin(d)
    BY DEF SessionsIInv
  <2>2. LockHeld(d)'
    <3>1. CASE d = c
      <4>1. issued + 1 \in 1..issued'
        BY <1>1, <1>3, SessionNumbers
      <4> QED BY <1>1, <1>4, <1>5, <1>6, <3>1, <4>1 DEF LockHeld, Handshaking
    <3>2. CASE d # c
      BY <1>1, <1>5, <1>6, <1>7, <3>2 DEF LockHeld, Handshaking
    <3> QED BY <3>1, <3>2
  <2>3. post[d].session \in Nat /\ post[d].sent \in Nat /\ issued \in Nat
    BY SessionNumbers
  <2>4. /\ post[d].session <= issued' /\ post[d].sent <= issued'
        /\ post[d].session # issued + 1
    BY <1>1, <2>1, <2>3 DEF OldIsForgotten
  <2>5. issued + 1 <= issued'
    BY <1>1, <2>3
  <2>6. OldIsForgotten(d)'
    <3>1. CASE d = c
      BY <1>4, <1>5, <2>4, <2>5, <3>1 DEF OldIsForgotten, OnLine
    <3>2. CASE d # c
      BY <1>1, <1>5, <2>1, <2>4, <3>2 DEF OldIsForgotten, OnLine
    <3> QED BY <3>1, <3>2
  <2>7. SinceBegin(d)'
    <3>1. (\A e \in Posters : post[e].at = "opening" => post[e].sent \in known_)'
      BY <1>8 DEF FreshSession
    <3>2. CASE d = c
      BY <1>1, <1>2, <1>4, <1>5, <1>8, <3>1, <3>2 DEF SinceBegin, OnLine
    <3>3. CASE d # c
      BY <1>1, <1>5, <1>7, <1>8, <2>1, <3>1, <3>3 DEF SinceBegin, OnLine, Handshaking
    <3> QED BY <3>2, <3>3
  <2> QED BY <2>2, <2>6, <2>7
<1> QED BY <1>9, <1>10 DEF SessionsIInv

\* The session a handshake brings replaces none.
LEMMA InitializedStep ==
  ASSUME SessionsIInv, NEW c \in Posters, Initialized(c)
  PROVE  SessionsIInv' /\ session = 0
<1> DEFINE p == [post[c] EXCEPT !.at = "telling"]
<1>1. /\ post[c].at = "opening" /\ Step(c, p) /\ session' = post[c].sent
      /\ UNCHANGED <<init_lock, issued, known_, restarts>>
  BY DEF Initialized, serverVars
<1>2. LockHeld(c) /\ OldIsForgotten(c) /\ SinceBegin(c) /\ post[c] \in PostRecord
  BY SessionNumbers DEF SessionsIInv
<1>3. /\ p \in PostRecord /\ p.at = "telling" /\ p.session = post[c].session
      /\ p.sent = post[c].sent /\ p.again = post[c].again
      /\ p.since = post[c].since /\ p.outcome = post[c].outcome
  BY <1>2 DEF PostRecord
<1> HIDE DEF p
<1>4. /\ post' \in [Posters -> PostRecord] /\ post'[c] = p
      /\ \A d \in Posters : d # c => post'[d] = post[d]
  BY <1>1, <1>3, StepPosts, SessionNumbers
<1>5. session = 0 /\ init_lock = c /\ post[c].sent \in 1..issued
  BY <1>1, <1>2 DEF LockHeld, Handshaking
<1>6. \A d \in Posters : d # c => ~Handshaking(d) /\ ~(Handshaking(d)')
  BY <1>4, <1>5 DEF SessionsIInv, LockHeld, Handshaking
<1>7. (\A e \in Posters : post[e].at # "opening")'
  BY <1>3, <1>4, <1>6 DEF Handshaking
<1>8. post[c].sent \in known_ => FreshSession'
  BY <1>1, <1>7 DEF FreshSession
<1>9. SessionTypes'
  <2>1. session' \in 0..issued'
    BY <1>1, <1>5, SessionNumbers
  <2> QED BY <1>1, <1>4, <2>1 DEF SessionsIInv, SessionTypes
<1>10. ASSUME NEW d \in Posters
       PROVE  LockHeld(d)' /\ OldIsForgotten(d)' /\ SinceBegin(d)'
  <2>1. LockHeld(d) /\ OldIsForgotten(d) /\ SinceBegin(d)
    BY DEF SessionsIInv
  <2>2. CASE d = c
    <3>1. LockHeld(d)'
      BY <1>1, <1>3, <1>4, <1>5, <2>2 DEF LockHeld, Handshaking
    <3>2. OldIsForgotten(d)'
      BY <1>1, <1>2, <1>3, <1>4, <2>2 DEF OldIsForgotten, OnLine
    <3>3. SinceBegin(d)'
      BY <1>1, <1>2, <1>3, <1>4, <1>8, <2>2 DEF SinceBegin, OnLine
    <3> QED BY <3>1, <3>2, <3>3
  <2>3. CASE d # c
    <3>1. LockHeld(d)'
      BY <1>1, <1>4, <1>5, <1>6, <2>3 DEF LockHeld, Handshaking
    <3>2. OldIsForgotten(d)'
      BY <1>1, <1>4, <1>5, <2>1, <2>3 DEF OldIsForgotten, OnLine
    <3>3. SinceBegin(d)'
      <4>1. FreshSession => post[c].sent \in known_
        BY <1>1 DEF FreshSession
      <4> QED BY <1>1, <1>4, <1>5, <1>6, <1>7, <1>8, <2>1, <2>3, <4>1
             DEF SinceBegin, OnLine, Handshaking
    <3> QED BY <3>1, <3>2, <3>3
  <2> QED BY <2>2, <2>3
<1> QED BY <1>5, <1>9, <1>10 DEF SessionsIInv

\* A session that is dropped is one the server has forgotten.
LEMMA RenewStep ==
  ASSUME SessionsIInv, NEW c \in Posters, Renew(c)
  PROVE  SessionsIInv' /\ (session' # session => session \notin known_)
<1> DEFINE n == [post[c] EXCEPT !.again = TRUE]
           p == Ensured(n, session')
<1>1. /\ post[c].at = "sent" /\ Renews(c) /\ Step(c, p)
      /\ session' = IF session = post[c].session THEN 0 ELSE session
      /\ UNCHANGED <<init_lock, issued, known_, restarts>>
  BY DEF Renew, _drop_session, serverVars
<1>2. LockHeld(c) /\ OldIsForgotten(c) /\ SinceBegin(c) /\ post[c] \in PostRecord
  BY SessionNumbers DEF SessionsIInv
<1>3. /\ n \in PostRecord /\ n.session = post[c].session
      /\ n.sent = post[c].sent /\ n.again
      /\ n.since = post[c].since /\ n.outcome = post[c].outcome
  BY <1>2 DEF PostRecord
<1>4. session' \in Nat /\ session' <= issued
  BY <1>1, SessionNumbers
<1> HIDE DEF n
<1>5. /\ p \in PostRecord
      /\ p.at = IF session' # 0 THEN "calling" ELSE "locking"
      /\ p.session = IF session' # 0 THEN session' ELSE post[c].session
      /\ p.sent = post[c].sent /\ p.again
      /\ p.since = post[c].since /\ p.outcome = post[c].outcome
  BY <1>3, <1>4, EnsuredFields
<1> HIDE DEF p
<1>6. /\ post' \in [Posters -> PostRecord] /\ post'[c] = p
      /\ \A d \in Posters : d # c => post'[d] = post[d]
  BY <1>1, <1>5, StepPosts, SessionNumbers
<1>7. OnLine(c) /\ post[c].session \notin known_
  BY <1>1, <1>2 DEF Renews, ServerSays, OldIsForgotten, OnLine
<1>8. \A d \in Posters : (post[d].at = "opening")' => post[d].at = "opening" /\ post'[d] = post[d]
  BY <1>5, <1>6
<1>9. \/ session' = session
      \/ session' = 0 /\ session = post[c].session /\ session \notin known_
  BY <1>1, <1>7
<1>10. FreshSession => FreshSession'
  BY <1>1, <1>8, <1>9 DEF FreshSession
<1>11. SessionTypes'
  <2>1. session' \in 0..issued'
    BY <1>1, <1>4, SessionNumbers
  <2> QED BY <1>1, <1>6, <2>1 DEF SessionsIInv, SessionTypes
<1>12. ASSUME NEW d \in Posters
       PROVE  LockHeld(d)' /\ OldIsForgotten(d)' /\ SinceBegin(d)'
  <2>1. LockHeld(d) /\ OldIsForgotten(d) /\ SinceBegin(d)
    BY DEF SessionsIInv
  <2>2. CASE d = c
    <3>1. LockHeld(d)'
      BY <1>1, <1>2, <1>5, <1>6, <2>2 DEF LockHeld, Handshaking
    <3>2. OldIsForgotten(d)'
      BY <1>1, <1>2, <1>4, <1>5, <1>6, <1>7, <2>2 DEF OldIsForgotten, OnLine
    <3>3. post[c].since = restarts => FreshSession'
      BY <1>1, <1>2, <1>7, <1>8, <1>10 DEF SinceBegin, FreshSession
    <3>4. FreshSession' => (\A e \in Posters : post[e].at = "opening" => post[e].sent \in known_)'
      BY DEF FreshSession
    <3>5. SinceBegin(d)'
      BY <1>1, <1>2, <1>5, <1>6, <2>2, <3>3, <3>4 DEF SinceBegin, OnLine
    <3> QED BY <3>1, <3>2, <3>5
  <2>3. CASE d # c
    <3>1. LockHeld(d)'
      BY <1>1, <1>6, <1>9, <2>1, <2>3 DEF LockHeld, Handshaking
    <3>2. OldIsForgotten(d)'
      BY <1>1, <1>6, <1>9, <2>1, <2>3 DEF OldIsForgotten, OnLine
    <3>3. SinceBegin(d)'
      <4>1. (\A e \in Posters : post[e].at = "opening" => post[e].sent \in known_)
              => (\A e \in Posters : post[e].at = "opening" => post[e].sent \in known_)'
        BY <1>1, <1>8
      <4>2. CASE session' = session
        BY <1>1, <1>6, <1>10, <2>1, <2>3, <4>1, <4>2 DEF SinceBegin, OnLine
      <4>3. CASE session' = 0 /\ session \notin known_
        <5>1. (\A e \in Posters : post[e].at = "opening" => post[e].sent \in known_) => FreshSession'
          BY <4>1, <4>3 DEF FreshSession
        <5> QED BY <1>1, <1>6, <1>10, <2>1, <2>3, <4>1, <4>3, <5>1 DEF SinceBegin, OnLine
      <4> QED BY <1>9, <4>2, <4>3
    <3> QED BY <3>1, <3>2, <3>3
  <2> QED BY <2>2, <2>3
<1> QED BY <1>9, <1>11, <1>12 DEF SessionsIInv

LEMMA ServerRestartsStep ==
  ASSUME SessionsIInv, ServerRestarts
  PROVE  SessionsIInv'
<1>1. /\ restarts' = restarts + 1 /\ known_' = {}
      /\ UNCHANGED <<session, init_lock, issued, post>>
  BY DEF ServerRestarts
<1>2. restarts \in Nat
  BY SessionNumbers
<1>3. SessionTypes'
  BY <1>1, <1>2 DEF SessionsIInv, SessionTypes
<1>4. ASSUME NEW d \in Posters
      PROVE  LockHeld(d)' /\ OldIsForgotten(d)' /\ SinceBegin(d)'
  <2>1. LockHeld(d) /\ OldIsForgotten(d) /\ SinceBegin(d)
    BY DEF SessionsIInv
  <2>2. LockHeld(d)'
    BY <1>1, <2>1 DEF LockHeld, Handshaking
  <2>3. OldIsForgotten(d)'
    BY <1>1, <2>1 DEF OldIsForgotten, OnLine
  <2>4. post[d].since \in Nat /\ post[d].since <= restarts
    BY <2>1, SessionNumbers DEF SinceBegin
  <2>5. post'[d].since < restarts'
    BY <1>1, <1>2, <2>4
  <2>6. post'[d].since <= restarts' /\ post'[d].since # restarts'
    BY <1>1, <1>2, <2>4, <2>5
  <2>7. SinceBegin(d)'
    BY <2>6 DEF SinceBegin
  <2> QED BY <2>2, <2>3, <2>7
<1> QED BY <1>3, <1>4 DEF SessionsIInv

LEMMA SessionsStart == SessionsInit => SessionsIInv
<1> SUFFICES ASSUME SessionsInit PROVE SessionsIInv
  OBVIOUS
<1>1. /\ session \in {0, 1} /\ issued = session /\ known_ = 1..session
      /\ init_lock = "none" /\ restarts = 0
      /\ post = [c \in Posters |-> NoPost]
  BY DEF SessionsInit
<1>2. SessionTypes
  BY <1>1, NoPostRecord DEF SessionTypes
<1>3. ASSUME NEW c \in Posters
      PROVE  LockHeld(c) /\ OldIsForgotten(c) /\ SinceBegin(c)
  <2>1. /\ post[c].at = "idle" /\ post[c].session = 0 /\ post[c].sent = 0
        /\ ~post[c].again /\ post[c].since = 0 /\ post[c].outcome = "none"
    BY <1>1 DEF NoPost
  <2>2. LockHeld(c)
    BY <1>1, <2>1, SessionsAssumption DEF LockHeld, Handshaking
  <2>3. OldIsForgotten(c)
    BY <1>1, <2>1 DEF OldIsForgotten, OnLine
  <2>4. post[c].since <= restarts
    <3>1. post[c].since = 0 /\ restarts = 0
      BY <1>1, <2>1
    <3> QED BY <3>1
  <2>5. SinceBegin(c)
    BY <2>1, <2>4 DEF SinceBegin, OnLine
  <2> QED BY <2>2, <2>3, <2>5
<1> QED BY <1>2, <1>3 DEF SessionsIInv

LEMMA SessionsStep ==
  ASSUME SessionsIInv, [SessionsNext]_sessionVars
  PROVE  /\ SessionsIInv'
         /\ session # 0 /\ session' # session => session \notin known_
<1>1. CASE UNCHANGED sessionVars
  BY <1>1 DEF sessionVars, SessionsIInv, SessionTypes, LockHeld, Handshaking, OldIsForgotten,
              OnLine, SinceBegin, FreshSession
<1>2. CASE ServerRestarts
  BY <1>2, ServerRestartsStep DEF ServerRestarts
<1>3. ASSUME NEW c \in Posters, Begin(c) \/ PostStep(c)
      PROVE  /\ SessionsIInv'
             /\ session # 0 /\ session' # session => session \notin known_
  <2>1. CASE Begin(c)
    BY <2>1, BeginStep DEF Begin
  <2>2. CASE Lock(c)
    BY <2>2, LockStep DEF Lock
  <2>3. CASE PostInitialize(c)
    BY <2>3, PostInitializeStep DEF PostInitialize
  <2>4. CASE Initialized(c)
    BY <2>4, InitializedStep
  <2>5. CASE Unidentified(c)
    BY <2>5, UnidentifiedStep DEF Unidentified
  <2>6. CASE \E arrives, answered \in BOOLEAN : Notify(c, arrives, answered)
    BY <2>6, NotifyStep DEF Notify
  <2>7. CASE Send(c)
    BY <2>7, SendStep DEF Send
  <2>8. CASE Reply(c)
    BY <2>8, ReplyStep DEF Reply
  <2>9. CASE Renew(c)
    BY <2>9, RenewStep
  <2>10. CASE Fault(c)
    BY <2>10, FaultStep DEF Fault
  <2> QED
    BY <1>3, <2>1, <2>2, <2>3, <2>4, <2>5, <2>6, <2>7, <2>8, <2>9, <2>10 DEF PostStep
<1> QED BY <1>1, <1>2, <1>3 DEF SessionsNext

\* The inductive invariant of the shared session.
THEOREM SessionsInductive == SessionsSpec => []SessionsIInv
<1>1. SessionsIInv /\ [SessionsNext]_sessionVars => SessionsIInv'
  BY SessionsStep
<1> QED BY <1>1, SessionsStart, PTL DEF SessionsSpec

\* "Without this every call 404s until the agent itself restarts": a call of
\* SelericMCPTransport is told 404 only if the server has restarted since the
\* call began, however many calls share the session and however it is renewed.
THEOREM CallersAreNeverLockedOut == SessionsSpec => []SessionsInv
<1>1. SessionsIInv => SessionsInv
  <2> SUFFICES ASSUME SessionsIInv PROVE SessionsInv
    OBVIOUS
  <2>1. SessionTypes /\ restarts \in Nat
    BY DEF SessionsIInv, SessionTypes
  <2>2. SessionsTypeOK
    <3>1. \A c \in Posters : post[c] \in PostRecord
      BY <2>1 DEF SessionTypes
    <3> QED BY <2>1, <3>1 DEF SessionTypes, SessionsTypeOK, PostRecord
  <2>3. ASSUME NEW c \in Posters, post[c].outcome = "not found"
        PROVE  restarts > post[c].since
    <3>1. SinceBegin(c) /\ post[c].since \in Nat
      BY SessionNumbers DEF SessionsIInv
    <3>2. post[c].since <= restarts /\ post[c].since # restarts
      BY <2>3, <3>1 DEF SinceBegin
    <3> QED BY <2>1, <3>1, <3>2
  <2> QED BY <2>2, <2>3 DEF SessionsInv, NoLockout
<1> QED BY <1>1, SessionsInductive, PTL

\* _drop_session drops "only the session that failed", and _ensure_session
\* looks again under its lock: no session the server knows is ever replaced.
THEOREM KnownSessionsAreKept == SessionsSpec => FreshSessionKept
<1>1. SessionsIInv /\ [SessionsNext]_sessionVars
        => [session # 0 /\ session' # session => session \notin known_]_session
  BY SessionsStep
<1> QED BY <1>1, SessionsInductive, PTL DEF SessionsSpec, FreshSessionKept

-----------------------------------------------------------------------------
(* Admission.  What the window forgets is what has left it: the times kept *)
(* are the last of those at which a request was admitted.                  *)

AdmissionSpec == AdmissionInit /\ [][AdmissionNext]_admissionVars

\* The last n of a sequence.
IsTail(h, e) ==
  /\ Len(h) <= Len(e)
  /\ \A i \in 1..Len(h) : h[i] = e[Len(e) - Len(h) + i]
\* Of one client: the times, those the limiter keeps, and the first refusal
\* since the last admission.
ClientTimes(now, e, h, f) ==
  /\ e \in Seq(Nat) /\ h \in Seq(Nat) /\ f \in [at: Nat, retry_after: Nat]
  /\ \A i \in 1..Len(e) : e[i] <= now
  /\ \A i, j \in 1..Len(e) : i < j => e[i] <= e[j]
  /\ IsTail(h, e) /\ Len(h) <= Limit
  /\ \A i \in 1..(Len(e) - Len(h)) : e[i] <= now - Window
\* Retry-After reaches to less than a second before the oldest of the last
\* Limit times leaves the window.
RefusalIsShort(e, f) == f # NoRefusal =>
  /\ Len(e) >= Limit
  /\ f.at + (f.retry_after + 1) * Ticks > Window + e[Len(e) - Limit + 1]
\* Who is refused has used the window up, now.
AnswerIsDue(now, a, h, f) ==
  /\ a.status \in {0, 200, 401, 429}
  /\ a.status = 200 /\ ~a.exempt => a.proven
  /\ a.status = 429 => /\ a.key \in ClientKeys /\ f[a.key] # NoRefusal
                       /\ Len(h[a.key]) = Limit
                       /\ \A i \in 1..Limit : h[a.key][i] > now - Window

AdmissionIInv ==
  /\ clock \in 0..MaxClock
  /\ DOMAIN hits = ClientKeys /\ DOMAIN entered = ClientKeys /\ DOMAIN refused = ClientKeys
  /\ \A k \in ClientKeys : /\ ClientTimes(clock, entered[k], hits[k], refused[k])
                           /\ RefusalIsShort(entered[k], refused[k])
  /\ AnswerIsDue(clock, answer, hits, refused)

\* popleft stops at the first time inside the window.
LEMMA PoppedIs ==
  ASSUME NEW q \in Seq(Nat), NEW cutoff \in Int
  PROVE  /\ Popped(q, cutoff) \in 0..Len(q)
         /\ \A i \in 1..Popped(q, cutoff) : q[i] <= cutoff
         /\ Popped(q, cutoff) < Len(q) => q[Popped(q, cutoff) + 1] > cutoff
<1> DEFINE T == {n \in 0..Len(q) : n = Len(q) \/ q[n + 1] > cutoff}
           Stops(n) == /\ \A i \in 1..n : q[i] <= cutoff
                       /\ n < Len(q) => q[n + 1] > cutoff
<1>1. T \subseteq Nat /\ Len(q) \in T /\ Len(q) \in Nat
  OBVIOUS
<1>2. PICK n \in T : \A m \in T : ~(m < n)
  <2>1. T # {}  BY <1>1
  <2> HIDE DEF T
  <2> QED BY <1>1, <2>1, LeastNumber
<1>3. n \in 0..Len(q) /\ (n < Len(q) => q[n + 1] > cutoff)
  BY <1>2
<1>4. ASSUME NEW i \in 1..n PROVE q[i] <= cutoff
  <2>1. i - 1 \notin T
    <3>1. i - 1 < n /\ i - 1 \in Nat  BY <1>3
    <3> HIDE DEF T
    <3> QED BY <1>2, <3>1
  <2>2. i - 1 \in 0..Len(q) /\ i - 1 # Len(q) /\ (i - 1) + 1 = i  BY <1>1, <1>3
  <2>3. ~(q[i] > cutoff)  BY <2>1, <2>2
  <2>4. q[i] \in Nat  BY <1>3
  <2> QED BY <2>3, <2>4
<1>5. n \in 0..Len(q) /\ Stops(n)
  BY <1>3, <1>4
<1>6. Popped(q, cutoff) = CHOOSE m \in 0..Len(q) : Stops(m)
  BY DEF Popped
<1> HIDE DEF Stops
<1>7. Popped(q, cutoff) \in 0..Len(q) /\ Stops(Popped(q, cutoff))
  BY <1>5, <1>6
<1> USE DEF Stops
<1> QED BY <1>7

\* What is kept of a tail is a tail, all of it in the window, and nothing that
\* is in the window is lost.
LEMMA KeptIs ==
  ASSUME NEW e, NEW h, NEW f, clock \in Nat, ClientTimes(clock, e, h, f)
  PROVE  /\ ClientTimes(clock, e, Kept(h), f)
         /\ \A i \in 1..Len(Kept(h)) : Kept(h)[i] > clock - Window
<1> DEFINE n == Popped(h, clock - Window)
           g == Kept(h)
<1>1. e \in Seq(Nat) /\ h \in Seq(Nat) /\ Len(h) <= Len(e) /\ Len(h) <= Limit
  BY DEF ClientTimes, IsTail
<1>2. Len(e) \in Nat /\ Len(h) \in Nat /\ clock - Window \in Int
  BY <1>1, AdmissionAssumption
<1>3. \A i \in 1..Len(h) : h[i] = e[Len(e) - Len(h) + i]
  BY DEF ClientTimes, IsTail
<1>4. \A i, j \in 1..Len(e) : i < j => e[i] <= e[j]
  BY DEF ClientTimes
<1>5. \A i \in 1..(Len(e) - Len(h)) : e[i] <= clock - Window
  BY DEF ClientTimes
<1>6. n \in 0..Len(h) /\ (n < Len(h) => h[n + 1] > clock - Window)
  BY <1>1, <1>2, PoppedIs
<1>7. \A i \in 1..n : h[i] <= clock - Window
  BY <1>1, <1>2, PoppedIs
<1>8. g = SubSeq(h, n + 1, Len(h))  BY DEF Kept
<1> HIDE DEF g, n
<1>9. g \in Seq(Nat) /\ Len(g) = Len(h) - n /\ Len(g) \in Nat
  <2>1. n \in Nat /\ n + 1 \in 1..(Len(h) + 1) /\ n <= Len(h)  BY <1>2, <1>6
  <2>2. g \in Seq(Nat)
    <3>1. \A i \in (n + 1)..Len(h) : h[i] \in Nat  BY <1>1, <1>2, <2>1
    <3>2. n + 1 \in Int /\ Len(h) \in Int  BY <1>2, <2>1
    <3> QED BY <1>8, <3>1, <3>2, SubSeqProperties
  <2>3. Len(g) = Len(h) - n
    <3>1. Len(g) = IF n + 1 <= Len(h) THEN Len(h) - (n + 1) + 1 ELSE 0  BY <1>1, <1>2, <1>8, <2>1
    <3> QED BY <1>2, <2>1, <3>1
  <2> QED BY <1>2, <2>1, <2>2, <2>3
<1>10. \A i \in 1..Len(g) : g[i] = h[n + i]
  BY <1>1, <1>6, <1>8
<1>11. Len(e) - Len(g) = Len(e) - Len(h) + n /\ n \in Nat
  BY <1>2, <1>6, <1>9
<1>12. \A i \in 1..Len(g) : n + i \in 1..Len(h) /\ Len(e) - Len(h) + (n + i) \in 1..Len(e)
                             /\ Len(e) - Len(h) + (n + i) = Len(e) - Len(g) + i
  BY <1>1, <1>2, <1>6, <1>9
<1>13. IsTail(g, e) /\ Len(g) <= Limit
  <2>1. Len(g) <= Len(e) /\ Len(g) <= Limit  BY <1>1, <1>2, <1>6, <1>9, AdmissionAssumption
  <2>2. \A i \in 1..Len(g) : g[i] = e[Len(e) - Len(g) + i]
    BY <1>3, <1>10, <1>12
  <2> QED BY <2>1, <2>2 DEF IsTail
<1>14. \A i \in 1..Len(g) : g[i] \in Nat
  BY <1>9
<1>15. ASSUME NEW i \in 1..Len(g) PROVE g[i] > clock - Window
  <2>1. 1 \in 1..Len(g) /\ n < Len(h)  BY <1>2, <1>6, <1>9
  <2>2. g[1] > clock - Window  BY <1>6, <1>10, <2>1
  <2>3. CASE i = 1  BY <2>2, <2>3
  <2>4. CASE i > 1
    <3>1. Len(e) - Len(g) + 1 \in 1..Len(e) /\ Len(e) - Len(g) + i \in 1..Len(e)
          /\ Len(e) - Len(g) + 1 < Len(e) - Len(g) + i
      BY <1>12, <2>1, <2>4, <1>2, <1>9
    <3>2. e[Len(e) - Len(g) + 1] <= e[Len(e) - Len(g) + i]  BY <1>4, <3>1
    <3>3. g[1] = e[Len(e) - Len(g) + 1] /\ g[i] = e[Len(e) - Len(g) + i]
      BY <1>13, <2>1 DEF IsTail
    <3>4. g[1] <= g[i]  BY <3>2, <3>3
    <3>5. g[1] \in Nat /\ g[i] \in Nat  BY <1>14, <2>1
    <3> QED BY <1>2, <2>2, <3>4, <3>5
  <2> QED BY <1>9, <2>3, <2>4
<1>16. ASSUME NEW i \in 1..(Len(e) - Len(g)) PROVE e[i] <= clock - Window
  <2>1. CASE i \in 1..(Len(e) - Len(h))  BY <1>5, <2>1
  <2>2. CASE i \notin 1..(Len(e) - Len(h))
    <3> DEFINE m == i - (Len(e) - Len(h))
    <3>1. m \in 1..n /\ m \in 1..Len(h) /\ Len(e) - Len(h) + m = i
      BY <1>1, <1>2, <1>6, <1>11, <2>2
    <3> HIDE DEF m
    <3> QED BY <1>3, <1>7, <3>1
  <2> QED BY <2>1, <2>2
<1>17. ClientTimes(clock, e, g, f)
  BY <1>4, <1>1, <1>9, <1>13, <1>16 DEF ClientTimes
<1> QED BY <1>15, <1>17 DEF g


\* An admission adds the present time to both.
LEMMA AdmittedTimes ==
  ASSUME NEW e, NEW g, NEW f, clock \in Nat, ClientTimes(clock, e, g, f), Len(g) < Limit
  PROVE  ClientTimes(clock, Append(e, clock), Append(g, clock), NoRefusal)
<1> DEFINE e2 == Append(e, clock)
           g2 == Append(g, clock)
<1>1. e \in Seq(Nat) /\ g \in Seq(Nat) /\ Len(g) <= Len(e)
  BY DEF ClientTimes, IsTail
<1>2. \A i \in 1..Len(g) : g[i] = e[Len(e) - Len(g) + i]
  BY DEF ClientTimes, IsTail
<1>3. \A i \in 1..Len(e) : e[i] <= clock
  BY DEF ClientTimes
<1>4. \A i, j \in 1..Len(e) : i < j => e[i] <= e[j]
  BY DEF ClientTimes
<1>5. \A i \in 1..(Len(e) - Len(g)) : e[i] <= clock - Window
  BY DEF ClientTimes
<1>6. e2 \in Seq(Nat) /\ Len(e2) = Len(e) + 1 /\ g2 \in Seq(Nat) /\ Len(g2) = Len(g) + 1
  BY <1>1
<1>7. e2[Len(e) + 1] = clock /\ \A i \in 1..Len(e) : e2[i] = e[i]
  BY <1>1
<1>8. g2[Len(g) + 1] = clock /\ \A i \in 1..Len(g) : g2[i] = g[i]
  BY <1>1
<1> HIDE DEF e2, g2
<1>9. Len(e) \in Nat /\ Len(g) \in Nat
  BY <1>1
<1>10. \A i \in 1..Len(e2) : i \in 1..Len(e) \/ i = Len(e) + 1
  BY <1>6, <1>9
<1>11. \A i \in 1..Len(g2) : i \in 1..Len(g) \/ i = Len(g) + 1
  BY <1>6, <1>9
<1>12. \A i \in 1..Len(e2) : e2[i] <= clock
  BY <1>3, <1>7, <1>10
<1>13. ASSUME NEW i \in 1..Len(e2), NEW j \in 1..Len(e2), i < j PROVE e2[i] <= e2[j]
  <2>1. i \in 1..Len(e)  BY <1>6, <1>9, <1>13
  <2>2. CASE j \in 1..Len(e)
    <3>1. e[i] <= e[j]  BY <1>4, <1>13, <2>1, <2>2
    <3> QED BY <1>7, <2>1, <2>2, <3>1
  <2>3. CASE j = Len(e) + 1
    <3>1. e[i] <= clock  BY <1>3, <2>1
    <3> QED BY <1>7, <2>1, <2>3, <3>1
  <2> QED BY <1>10, <2>2, <2>3
<1>14. IsTail(g2, e2)
  <2>1. Len(g2) <= Len(e2)  BY <1>1, <1>6, <1>9
  <2>2. ASSUME NEW i \in 1..Len(g2) PROVE g2[i] = e2[Len(e2) - Len(g2) + i]
    <3>1. Len(e2) - Len(g2) + i = Len(e) - Len(g) + i  BY <1>6, <1>9
    <3>2. CASE i \in 1..Len(g)
      <4>1. Len(e) - Len(g) + i \in 1..Len(e)  BY <1>1, <1>9, <3>2
      <4>2. g2[i] = g[i] /\ g[i] = e[Len(e) - Len(g) + i]  BY <1>2, <1>8, <3>2
      <4>3. e2[Len(e) - Len(g) + i] = e[Len(e) - Len(g) + i]  BY <1>7, <4>1
      <4> QED BY <3>1, <4>2, <4>3
    <3>3. CASE i = Len(g) + 1
      <4>1. Len(e) - Len(g) + i = Len(e) + 1  BY <1>9, <3>3
      <4> QED BY <1>7, <1>8, <3>1, <3>3, <4>1
    <3> QED BY <1>11, <3>2, <3>3
  <2> QED BY <2>1, <2>2 DEF IsTail
<1>15. \A i \in 1..(Len(e2) - Len(g2)) : e2[i] <= clock - Window
  <2>1. Len(e2) - Len(g2) = Len(e) - Len(g)  BY <1>6, <1>9
  <2>2. \A i \in 1..(Len(e) - Len(g)) : i \in 1..Len(e)  BY <1>9
  <2> QED BY <1>5, <1>7, <2>1, <2>2
<1>16. Len(g2) <= Limit  BY <1>6, <1>9, AdmissionAssumption
<1>17. NoRefusal \in [at: Nat, retry_after: Nat]  BY DEF NoRefusal
<1>18. ClientTimes(clock, e2, g2, NoRefusal)
  BY <1>6, <1>12, <1>13, <1>14, <1>15, <1>16, <1>17 DEF ClientTimes
<1> QED BY <1>18 DEF e2, g2

\* Rounding a wait down to whole seconds, but to one at least, loses less than
\* a second of it.
LEMMA RoundingLoses ==
  ASSUME NEW a \in Nat, NEW t \in Nat \ {0}
  PROVE  /\ a \div t \in Nat
         /\ ((IF a \div t < 1 THEN 1 ELSE a \div t) + 1) * t > a
<1> DEFINE q == a \div t
<1>1. q \in Int /\ a = t * q + (a % t) /\ a % t \in 0..(t - 1)
  <2>1. a \in Int /\ t \in Int /\ t > 0  OBVIOUS
  <2> QED BY <2>1
<1>2. q \in Nat
  <2> DEFINE b == a % t
  <2>1. b \in 0..(t - 1) /\ a = t * q + b  BY <1>1
  <2> HIDE DEF q, b
  <2>2. ASSUME q < 0 PROVE FALSE
    <3>1. q + 1 <= 0  BY <1>1, <2>2
    <3>2. t * (q + 1) <= 0  BY <1>1, <3>1
    <3>3. t * (q + 1) = t * q + t  BY <1>1
    <3> QED BY <1>1, <2>1, <3>2, <3>3
  <2> QED BY <1>1, <2>2
<1> HIDE DEF q
<1>3. (q + 1) * t > a
  <2>1. (q + 1) * t = t * q + t  BY <1>1
  <2> QED BY <1>1, <2>1
<1>4. CASE q < 1
  <2>1. q = 0  BY <1>2, <1>4
  <2>2. (1 + 1) * t > a  BY <1>3, <2>1
  <2> QED BY <1>2, <1>4, <2>2 DEF q
<1>5. CASE ~(q < 1)
  BY <1>2, <1>3, <1>5 DEF q
<1> QED BY <1>4, <1>5

\* A refusal changes no times; the first since an admission fixes Retry-After.
LEMMA RefusedTimes ==
  ASSUME NEW e, NEW g, NEW f, clock \in Nat, ClientTimes(clock, e, g, f), Len(g) >= Limit,
         RefusalIsShort(e, f), \A i \in 1..Len(g) : g[i] > clock - Window,
         NEW f2, f2 = IF f = NoRefusal THEN [at |-> clock, retry_after |-> retry(g)] ELSE f
  PROVE  /\ Len(g) = Limit /\ f2 # NoRefusal
         /\ ClientTimes(clock, e, g, f2) /\ RefusalIsShort(e, f2)
<1>1. /\ e \in Seq(Nat) /\ g \in Seq(Nat) /\ Len(g) <= Len(e) /\ Len(g) = Limit
      /\ \A i \in 1..Len(g) : g[i] = e[Len(e) - Len(g) + i]
      /\ \A i \in 1..Len(e) : e[i] <= clock
  BY AdmissionAssumption DEF ClientTimes, IsTail
<1>2. 1 \in 1..Len(g) /\ Len(e) - Len(g) + 1 \in 1..Len(e)
  BY <1>1, AdmissionAssumption
<1>3. g[1] = e[Len(e) - Limit + 1] /\ g[1] \in Nat /\ g[1] <= clock /\ g[1] > clock - Window
  BY <1>1, <1>2
<1>4. CASE f # NoRefusal
  BY <1>1, <1>4
<1>5. CASE f = NoRefusal
  <2> DEFINE a == Window - (clock - g[1])
             r == IF a \div Ticks < 1 THEN 1 ELSE a \div Ticks
  <2>1. a \in Nat  BY <1>3, AdmissionAssumption
  <2>2. a \div Ticks \in Nat /\ (r + 1) * Ticks > a
    <3> HIDE DEF a
    <3> QED BY <2>1, RoundingLoses, AdmissionAssumption
  <2>3. retry(g) = r  BY DEF retry
  <2>4. f2 = [at |-> clock, retry_after |-> r]  BY <1>5, <2>3
  <2>5. r \in Nat /\ r >= 1
    <3> HIDE DEF a
    <3> QED BY <2>2
  <2>6. clock + (r + 1) * Ticks > Window + g[1]
    <3>1. (r + 1) * Ticks \in Int
      <4> HIDE DEF r
      <4> QED BY <2>5, AdmissionAssumption
    <3>2. clock + a = Window + g[1]  BY <1>3, AdmissionAssumption
    <3> HIDE DEF a, r
    <3> QED BY <2>1, <2>2, <3>1, <3>2
  <2> HIDE DEF a, r
  <2>7. f2 \in [at: Nat, retry_after: Nat] /\ f2.at = clock /\ f2.retry_after = r
    BY <2>4, <2>5
  <2>8. f2 # NoRefusal  BY <2>5, <2>7 DEF NoRefusal
  <2>9. RefusalIsShort(e, f2)
    BY <1>1, <1>3, <2>6, <2>7 DEF RefusalIsShort
  <2>10. ClientTimes(clock, e, g, f2)
    BY <2>7 DEF ClientTimes
  <2> QED BY <1>1, <2>8, <2>9, <2>10
<1> QED BY <1>4, <1>5

\* A request, whatever it is, is answered by one of three.
LEMMA PassStep ==
  ASSUME AdmissionIInv, NEW r \in Request, Pass(r)
  PROVE  AdmissionIInv'
<1>1. UNCHANGED <<clock, setup_, hits, entered, refused>> /\ answer'.status = 200 /\ answer'.exempt
  BY DEF Pass, Answer_
<1>2. AnswerIsDue(clock', answer', hits', refused')
  BY <1>1 DEF AnswerIsDue
<1> QED BY <1>1, <1>2 DEF AdmissionIInv

LEMMA UnauthenticatedStep ==
  ASSUME AdmissionIInv, NEW r \in Request, Unauthenticated(r)
  PROVE  AdmissionIInv'
<1>1. UNCHANGED <<clock, setup_, hits, entered, refused>> /\ answer'.status = 401
  BY DEF Unauthenticated, Answer_
<1>2. AnswerIsDue(clock', answer', hits', refused')
  BY <1>1 DEF AnswerIsDue
<1> QED BY <1>1, <1>2 DEF AdmissionIInv

LEMMA RateLimitedStep ==
  ASSUME AdmissionIInv, NEW r \in Request, _rate_limited(r)
  PROVE  AdmissionIInv'
<1> DEFINE k == r.key
           g == Kept(hits[k])
<1>1. k \in ClientKeys /\ clock \in 0..MaxClock /\ clock \in Nat
  BY AdmissionAssumption DEF Request, AdmissionIInv
<1>2. ClientTimes(clock, entered[k], hits[k], refused[k]) /\ RefusalIsShort(entered[k], refused[k])
  BY <1>1 DEF AdmissionIInv
<1>3. /\ ClientTimes(clock, entered[k], g, refused[k])
      /\ \A i \in 1..Len(g) : g[i] > clock - Window
  BY <1>1, <1>2, KeptIs
<1>4. DOMAIN hits = ClientKeys /\ DOMAIN entered = ClientKeys /\ DOMAIN refused = ClientKeys
  BY DEF AdmissionIInv
<1>5. hits' = [hits EXCEPT ![k] = Counted(g)] /\ UNCHANGED <<clock, setup_>>
      /\ ~r.exempt /\ Authenticated(r)
  BY DEF _rate_limited
<1>6. SUFFICES /\ ClientTimes(clock, entered'[k], hits'[k], refused'[k])
               /\ RefusalIsShort(entered'[k], refused'[k])
               /\ AnswerIsDue(clock, answer', hits', refused')
               /\ DOMAIN entered' = ClientKeys /\ DOMAIN refused' = ClientKeys
               /\ \A c \in ClientKeys \ {k} : entered'[c] = entered[c] /\ refused'[c] = refused[c]
  <2> HIDE DEF k, g
  <2>1. \A c \in ClientKeys \ {k} : hits'[c] = hits[c]  BY <1>4, <1>5
  <2>2. DOMAIN hits' = ClientKeys  BY <1>4, <1>5
  <2> QED BY <1>1, <1>5, <2>1, <2>2 DEF AdmissionIInv
<1>7. CASE Len(g) >= Limit
  <2>1. /\ Answer_(r, 429) /\ UNCHANGED entered
        /\ refused' = [refused EXCEPT ![k] =
               IF @ = NoRefusal THEN [at |-> clock, retry_after |-> retry(g)] ELSE @]
    BY <1>7 DEF _rate_limited
  <2>2. Len(g) \in Nat /\ ~(Len(g) < Limit)
    BY <1>3, <1>7, AdmissionAssumption DEF ClientTimes
  <2>3. hits'[k] = g
    <3> HIDE DEF k, g
    <3> QED BY <1>1, <1>4, <1>5, <2>2 DEF Counted
  <2>4. refused'[k] = IF refused[k] = NoRefusal THEN [at |-> clock, retry_after |-> retry(g)]
                      ELSE refused[k]
    <3> HIDE DEF k, g
    <3> QED BY <1>1, <1>4, <2>1
  <2>5. /\ Len(g) = Limit /\ refused'[k] # NoRefusal
        /\ ClientTimes(clock, entered[k], g, refused'[k]) /\ RefusalIsShort(entered[k], refused'[k])
    <3> HIDE DEF k, g
    <3> QED BY <1>1, <1>2, <1>3, <1>7, <2>4, RefusedTimes
  <2>6. answer'.status = 429 /\ answer'.key = k
    BY <2>1 DEF Answer_
  <2>7. AnswerIsDue(clock, answer', hits', refused')
    <3> HIDE DEF k, g
    <3> QED BY <1>1, <1>3, <2>3, <2>5, <2>6 DEF AnswerIsDue
  <2>8. /\ DOMAIN refused' = ClientKeys /\ \A c \in ClientKeys \ {k} : refused'[c] = refused[c]
    <3> HIDE DEF k, g
    <3> QED BY <1>4, <2>1
  <2> HIDE DEF k, g
  <2> QED BY <1>4, <2>1, <2>3, <2>5, <2>7, <2>8
<1>8. CASE ~(Len(g) >= Limit)
  <2>1. /\ Answer_(r, 200)
        /\ entered' = [entered EXCEPT ![k] = Append(@, clock)]
        /\ refused' = [refused EXCEPT ![k] = NoRefusal]
    BY <1>8 DEF _rate_limited
  <2>2. Len(g) < Limit
    BY <1>3, <1>8, AdmissionAssumption DEF ClientTimes
  <2>3. hits'[k] = Append(g, clock) /\ entered'[k] = Append(entered[k], clock) /\ refused'[k] = NoRefusal
    <3> HIDE DEF k, g
    <3> QED BY <1>1, <1>4, <1>5, <2>1, <2>2 DEF Counted
  <2>4. ClientTimes(clock, entered'[k], hits'[k], refused'[k])
    <3> HIDE DEF k, g
    <3> QED BY <1>1, <1>3, <2>2, <2>3, AdmittedTimes
  <2>5. RefusalIsShort(entered'[k], refused'[k])
    <3> HIDE DEF k, g
    <3> QED BY <2>3 DEF RefusalIsShort
  <2>6. AnswerIsDue(clock, answer', hits', refused')
    <3>1. answer'.status = 200 /\ answer'.proven = Proven(r)  BY <2>1 DEF Answer_
    <3>2. Proven(r) = TRUE
      BY <1>5 DEF Proven, external_authenticated
    <3> HIDE DEF k, g
    <3> QED BY <3>1, <3>2 DEF AnswerIsDue
  <2>7. /\ DOMAIN refused' = ClientKeys /\ DOMAIN entered' = ClientKeys
        /\ \A c \in ClientKeys \ {k} : refused'[c] = refused[c] /\ entered'[c] = entered[c]
    <3> HIDE DEF k, g
    <3> QED BY <1>4, <2>1
  <2> HIDE DEF k, g
  <2> QED BY <2>4, <2>5, <2>6, <2>7
<1> QED BY <1>7, <1>8

\* Time only takes requests out of the window.
LEMMA ClockStep ==
  ASSUME AdmissionIInv, Tick
  PROVE  AdmissionIInv'
<1>1. clock \in 0..MaxClock /\ clock < MaxClock /\ clock' = clock + 1
      /\ UNCHANGED <<setup_, hits, entered, refused>> /\ answer' = NoAnswer_
  BY DEF AdmissionIInv, Tick
<1>2. clock' \in 0..MaxClock /\ clock \in Nat
  BY <1>1, AdmissionAssumption
<1>3. ASSUME NEW k \in ClientKeys PROVE ClientTimes(clock', entered[k], hits[k], refused[k])
  <2> DEFINE e == entered[k]
             h == hits[k]
  <2>1. ClientTimes(clock, e, h, refused[k])  BY DEF AdmissionIInv
  <2> HIDE DEF e, h
  <2>2. e \in Seq(Nat) /\ h \in Seq(Nat)  BY <2>1 DEF ClientTimes
  <2>3. Len(e) \in Nat /\ Len(h) \in Nat /\ \A i \in 1..Len(e) : e[i] \in Nat  BY <2>2
  <2>4. \A i \in 1..Len(e) : e[i] <= clock  BY <2>1 DEF ClientTimes
  <2> DEFINE t == clock + 1
  <2>5. t \in Nat /\ clock \in Nat /\ clock <= t  BY <1>2
  <2>6. clock' = t  BY <1>1
  <2> HIDE DEF t
  <2>7. \A i \in 1..Len(e) : e[i] <= t  BY <2>3, <2>4, <2>5
  <2>8. ASSUME NEW i \in 1..(Len(e) - Len(h)) PROVE e[i] <= t - Window
    <3>1. e[i] <= clock - Window  BY <2>1 DEF ClientTimes
    <3>2. i \in 1..Len(e)  BY <2>3
    <3>3. e[i] \in Nat /\ Window \in Nat  BY <2>3, <3>2, AdmissionAssumption
    <3> QED BY <2>5, <3>1, <3>3
  <2>9. /\ refused[k] \in [at: Nat, retry_after: Nat] /\ IsTail(h, e) /\ Len(h) <= Limit
        /\ \A i, j \in 1..Len(e) : i < j => e[i] <= e[j]
    BY <2>1 DEF ClientTimes
  <2>10. ClientTimes(t, e, h, refused[k])
    BY <2>2, <2>7, <2>8, <2>9 DEF ClientTimes
  <2> QED BY <2>6, <2>10 DEF e, h
<1>4. AnswerIsDue(clock', answer', hits', refused')
  BY <1>1 DEF AnswerIsDue, NoAnswer_
<1> QED BY <1>1, <1>2, <1>3, <1>4 DEF AdmissionIInv

LEMMA AdmissionStarts ==
  ASSUME AdmissionInit
  PROVE  AdmissionIInv
<1>1. clock = 0 /\ hits = [k \in ClientKeys |-> <<>>] /\ entered = [k \in ClientKeys |-> <<>>]
      /\ refused = [k \in ClientKeys |-> NoRefusal] /\ answer = NoAnswer_
  BY DEF AdmissionInit
<1>2. ClientTimes(0, <<>>, <<>>, NoRefusal)
  <2>1. <<>> \in Seq(Nat) /\ Len(<<>>) = 0  OBVIOUS
  <2>2. NoRefusal \in [at: Nat, retry_after: Nat]  BY DEF NoRefusal
  <2> QED BY <2>1, <2>2, AdmissionAssumption DEF ClientTimes, IsTail
<1>3. AnswerIsDue(0, NoAnswer_, hits, refused)
  BY DEF AnswerIsDue, NoAnswer_
<1>4. 0 \in 0..MaxClock  BY AdmissionAssumption
<1> QED BY <1>1, <1>2, <1>3, <1>4 DEF AdmissionIInv, RefusalIsShort

\* What is admitted within the window is among the times kept, and is them all
\* when they are all in the window.
LEMMA WithinTheWindow ==
  ASSUME NEW k \in ClientKeys, AdmissionIInv
  PROVE  /\ Within(k, clock - Window) <= Limit
         /\ /\ Len(hits[k]) = Limit
            /\ \A i \in 1..Limit : hits[k][i] > clock - Window
            => Within(k, clock - Window) = Limit
<1> DEFINE e == entered[k]
           h == hits[k]
           S == {i \in DOMAIN e : e[i] > clock - Window}
           I == (Len(e) - Len(h) + 1)..Len(e)
<1>1. /\ e \in Seq(Nat) /\ h \in Seq(Nat) /\ Len(h) <= Len(e) /\ Len(h) <= Limit
      /\ \A i \in 1..Len(h) : h[i] = e[Len(e) - Len(h) + i]
      /\ \A i \in 1..(Len(e) - Len(h)) : e[i] <= clock - Window
  BY DEF AdmissionIInv, ClientTimes, IsTail
<1>2. clock \in Nat /\ Within(k, clock - Window) = Cardinality(S)
  BY AdmissionAssumption DEF AdmissionIInv, Within
<1>3. IsFiniteSet(I) /\ Cardinality(I) = Len(h)
  <2>1. Len(e) \in Nat /\ Len(h) \in Nat  BY <1>1
  <2> DEFINE a == Len(e) - Len(h) + 1
             b == Len(e)
  <2>2. a \in Int /\ b \in Int /\ b - a + 1 = Len(h) /\ (a > b => Len(h) = 0)
    <3> HIDE DEF e, h
    <3> QED BY <2>1
  <2>3. I = a..b  OBVIOUS
  <2> HIDE DEF I, a, b, e, h
  <2>4. IsFiniteSet(a..b) /\ Cardinality(a..b) = IF a > b THEN 0 ELSE b - a + 1
    BY <2>2, FS_Interval
  <2> QED BY <2>2, <2>3, <2>4
<1>4. S \subseteq I
  <2> SUFFICES ASSUME NEW i \in 1..Len(e), e[i] > clock - Window
               PROVE  i \in I
    <3>1. DOMAIN e = 1..Len(e)  BY <1>1
    <3> HIDE DEF I, e
    <3> QED BY <3>1
  <2>1. Len(e) \in Nat /\ Len(h) \in Nat  BY <1>1
  <2>2. ~(e[i] <= clock - Window)
    <3>1. e[i] \in Nat  BY <1>1
    <3> DEFINE x == e[i]
    <3>2. x \in Nat /\ x > clock - Window  BY <3>1
    <3>3. Window \in Nat  BY AdmissionAssumption
    <3> HIDE DEF x
    <3>4. ~(x <= clock - Window)  BY <1>2, <3>2, <3>3
    <3> QED BY <3>4 DEF x
  <2> HIDE DEF e, h
  <2>3. i \notin 1..(Len(e) - Len(h))  BY <1>1, <2>2
  <2> QED BY <2>1, <2>3
<1>5. Cardinality(S) <= Len(h)
  <2> HIDE DEF S, I
  <2> QED BY <1>3, <1>4, FS_Subset
<1>6. IsFiniteSet(S)
  <2> HIDE DEF S, I
  <2> QED BY <1>3, <1>4, FS_Subset
<1>7. ASSUME Len(h) = Limit, \A i \in 1..Limit : h[i] > clock - Window
      PROVE  S = I
  <2> SUFFICES ASSUME NEW i \in I PROVE i \in DOMAIN e /\ e[i] > clock - Window
    BY <1>4
  <2>1. i - (Len(e) - Len(h)) \in 1..Len(h) /\ i \in 1..Len(e)
    <3> HIDE DEF e, h
    <3> QED BY <1>1
  <2>2. Len(e) - Len(h) + (i - (Len(e) - Len(h))) = i
    <3> HIDE DEF e, h
    <3> QED BY <1>1, <2>1
  <2>3. h[i - (Len(e) - Len(h))] = e[i]  BY <1>1, <2>1, <2>2
  <2>4. h[i - (Len(e) - Len(h))] > clock - Window  BY <1>7, <2>1
  <2>5. DOMAIN e = 1..Len(e)  BY <1>1
  <2> HIDE DEF e, h, I
  <2> QED BY <2>1, <2>3, <2>4, <2>5
<1>8. Cardinality(S) \in Nat /\ Len(h) \in Nat
  BY <1>1, <1>6, FS_CardinalityType
<1> HIDE DEF S, I, e, h
<1>9. Cardinality(S) <= Limit
  BY <1>1, <1>5, <1>8, AdmissionAssumption
<1>10. (Len(h) = Limit /\ \A i \in 1..Limit : h[i] > clock - Window) => Cardinality(S) = Limit
  BY <1>3, <1>7
<1>11. h = hits[k]  BY DEF h
<1> HIDE DEF AdmissionIInv
<1> QED BY <1>2, <1>9, <1>10, <1>11

\* api/security.py: however requests of a client come and however Retry-After
\* is rounded, no window admits more than the limit, only a client that has
\* used it up is turned away, waiting as told helps, and no handler that is not
\* public sees an unproven principal.
THEOREM AdmissionIsFair == AdmissionSpec => []AdmissionInv
<1>1. AdmissionInit => AdmissionIInv
  BY AdmissionStarts
<1>2. AdmissionIInv /\ [AdmissionNext]_admissionVars => AdmissionIInv'
  <2> SUFFICES ASSUME AdmissionIInv, [AdmissionNext]_admissionVars PROVE AdmissionIInv'
    OBVIOUS
  <2>1. CASE UNCHANGED admissionVars
    BY <2>1 DEF admissionVars, AdmissionIInv
  <2>2. CASE AdmissionNext
    BY <2>2, ClockStep, PassStep, UnauthenticatedStep, RateLimitedStep DEF AdmissionNext
  <2> QED BY <2>1, <2>2
<1>3. AdmissionIInv => AdmissionInv
  <2> SUFFICES ASSUME AdmissionIInv PROVE AdmissionInv  OBVIOUS
  <2>1. AdmissionTypeOK
    <3>1. clock \in 0..MaxClock /\ answer.status \in {0, 200, 401, 429}
      BY DEF AdmissionIInv, AnswerIsDue
    <3>2. ASSUME NEW k \in ClientKeys
          PROVE  /\ Len(hits[k]) <= Limit
                 /\ \A i, j \in DOMAIN hits[k] : i < j => hits[k][i] <= hits[k][j]
      <4> DEFINE e == entered[k]
                 h == hits[k]
      <4>1. /\ e \in Seq(Nat) /\ h \in Seq(Nat) /\ Len(h) <= Len(e) /\ Len(h) <= Limit
            /\ \A i \in 1..Len(h) : h[i] = e[Len(e) - Len(h) + i]
            /\ \A i, j \in 1..Len(e) : i < j => e[i] <= e[j]
        BY DEF AdmissionIInv, ClientTimes, IsTail
      <4> HIDE DEF e, h
      <4>2. ASSUME NEW i \in 1..Len(h), NEW j \in 1..Len(h), i < j PROVE h[i] <= h[j]
        <5>1. Len(e) - Len(h) + i \in 1..Len(e) /\ Len(e) - Len(h) + j \in 1..Len(e)
              /\ Len(e) - Len(h) + i < Len(e) - Len(h) + j
          BY <4>1, <4>2
        <5> QED BY <4>1, <5>1
      <4>3. DOMAIN h = 1..Len(h)  BY <4>1
      <4> QED BY <4>1, <4>2, <4>3 DEF h
    <3> QED BY <3>1, <3>2 DEF AdmissionTypeOK
  <2>2. SlidingWindow
    BY WithinTheWindow DEF SlidingWindow, AdmissionIInv, AnswerIsDue
  <2>3. WaitingHelps
    <3> SUFFICES ASSUME answer.status = 429
                 PROVE  clock < refused[answer.key].at + (refused[answer.key].retry_after + 1) * Ticks
      BY DEF WaitingHelps
    <3> DEFINE k == answer.key
               e == entered[k]
               f == refused[k]
    <3>1. /\ k \in ClientKeys /\ f # NoRefusal /\ Len(hits[k]) = Limit
          /\ \A i \in 1..Limit : hits[k][i] > clock - Window
      BY DEF AdmissionIInv, AnswerIsDue
    <3>2. ClientTimes(clock, e, hits[k], f) /\ RefusalIsShort(e, f)
      BY <3>1 DEF AdmissionIInv
    <3>3. f.at + (f.retry_after + 1) * Ticks > Window + e[Len(e) - Limit + 1] /\ Len(e) >= Limit
      BY <3>1, <3>2 DEF RefusalIsShort
    <3>4. 1 \in 1..Limit  BY AdmissionAssumption
    <3> DEFINE h == hits[k]
    <3>5. /\ h \in Seq(Nat) /\ Len(h) = Limit /\ h[1] > clock - Window
          /\ \A i \in 1..Len(h) : h[i] = e[Len(e) - Len(h) + i]
      BY <3>1, <3>2, <3>4 DEF ClientTimes, IsTail
    <3>6. h[1] = e[Len(e) - Limit + 1] /\ h[1] \in Nat
      <4> HIDE DEF h, e
      <4> QED BY <3>4, <3>5
    <3>7. f.at \in Nat /\ f.retry_after \in Nat  BY <3>2 DEF ClientTimes
    <3>8. (f.retry_after + 1) * Ticks \in Nat
      <4> HIDE DEF f
      <4> QED BY <3>7, AdmissionAssumption
    <3>9. clock \in Nat /\ Window \in Nat  BY AdmissionAssumption DEF AdmissionIInv
    <3> HIDE DEF e, h, f
    <3> DEFINE x == h[1]
               y == (f.retry_after + 1) * Ticks
               z == f.at
    <3>10. z + y > Window + x /\ x > clock - Window /\ x \in Nat /\ y \in Nat /\ z \in Nat
      BY <3>3, <3>5, <3>6, <3>7, <3>8
    <3> HIDE DEF x, y, z
    <3>11. clock < z + y  BY <3>9, <3>10
    <3> QED BY <3>11 DEF y, z, f
  <2>4. HandledIsAuthenticated
    BY DEF HandledIsAuthenticated, AdmissionIInv, AnswerIsDue
  <2> QED BY <2>1, <2>2, <2>3, <2>4 DEF AdmissionInv
<1> QED BY <1>1, <1>2, <1>3, PTL DEF AdmissionSpec

-----------------------------------------------------------------------------
(* Streams.  The locks of append_event number the committed rows in the    *)
(* order of their commits, so that a cursor never jumps over a row that    *)
(* comes later; what a client holds and what is on its wire are together   *)
(* the rows up to the cursor of its generator.                             *)

Pos(f, e) == IF f = "thread" THEN e.thread_sequence ELSE e.sequence
Mine(rs, f) == {i \in 1..Len(rs) : f \in {"thread", rs[i].run}}
Upto(rs, f, n) == {rs[i] : i \in {j \in Mine(rs, f) : Pos(f, rs[j]) <= n}}
\* A number is 0 or that of a row.
IsPosition(rs, f, n) == n \in Nat /\ (n = 0 \/ \E i \in Mine(rs, f) : Pos(f, rs[i]) = n)

\* The rows are numbered in the order in which they stand.
LogSorted(rs) ==
  /\ rs \in Seq(Row)
  /\ \A i \in 1..Len(rs) : rs[i].sequence \in 1..i /\ rs[i].thread_sequence \in 1..i
  /\ \A i, j \in 1..Len(rs) : i < j =>
       /\ rs[i].thread_sequence < rs[j].thread_sequence
       /\ rs[i].run = rs[j].run => rs[i].sequence < rs[j].sequence
\* What an open transaction has inserted comes after every row.
IsNext(rs, e) ==
  /\ e \in Row
  /\ e.sequence \in 1..(Len(rs) + 1) /\ e.thread_sequence \in 1..(Len(rs) + 1)
  /\ \A i \in 1..Len(rs) : /\ rs[i].thread_sequence < e.thread_sequence
                           /\ rs[i].run = e.run => rs[i].sequence < e.sequence

LogIInv ==
  /\ LogTypeOK
  /\ LogSorted(rows)
  /\ \A w \in Writers : tx[w] # NoRow =>
       /\ IsNext(rows, tx[w]) /\ tx[w].run = w[1]
       /\ tx[w].type \in TerminalType => status[w[1]] = "open"
       /\ \A v \in Writers : v # w => tx[v] = NoRow
  /\ \A i \in 1..Len(rows) :
       rows[i].type \in TerminalType => status[rows[i].run] = rows[i].type

\* The events of a sequence are those with a number up to n, in order.
Exact(rs, f, n, q) ==
  /\ \A i, j \in 1..Len(q) : i < j => Pos(f, q[i]) < Pos(f, q[j])
  /\ {q[i] : i \in 1..Len(q)} = Upto(rs, f, n)
SeenOf(f, g) == MaxOf({Pos(f, g[i]) : i \in 1..Len(g)})

ClientSound(rs, f, at, cur, w, g) ==
  /\ w \in Seq(Row) /\ g \in Seq(Row)
  /\ at = "closed" => w = <<>>
  /\ Exact(rs, f, SeenOf(f, g), g)
  /\ at # "closed" => Exact(rs, f, cur, g \o w) /\ IsPosition(rs, f, cur) /\ f # "nothing"

StreamsIInv ==
  /\ LogIInv /\ StreamsTypeOK
  /\ \A c \in Clients : ClientSound(rows, follows[c], conn[c], cursor[c], wire[c], got[c])

LEMMA PositionIsNumber ==
  ASSUME NEW f, NEW e \in Row
  PROVE  Pos(f, e) \in Nat
BY DEF Pos, Row

\* The number of a row of the stream that f names; a later row has a greater one.
LEMMA PositionsAscend ==
  ASSUME NEW rs, LogSorted(rs), NEW f, NEW i \in Mine(rs, f)
  PROVE  /\ rs[i] \in Row /\ Pos(f, rs[i]) \in Nat \ {0}
         /\ \A j \in Mine(rs, f) : i < j => Pos(f, rs[i]) < Pos(f, rs[j])
<1>1. i \in 1..Len(rs) /\ rs[i] \in Row
  BY DEF LogSorted, Mine
<1>2. rs[i].sequence \in 1..i /\ rs[i].thread_sequence \in 1..i
  BY <1>1 DEF LogSorted
<1>3. Pos(f, rs[i]) \in Nat \ {0}
  BY <1>1, <1>2 DEF Pos
<1>4. ASSUME NEW j \in Mine(rs, f), i < j PROVE Pos(f, rs[i]) < Pos(f, rs[j])
  <2>1. j \in 1..Len(rs)  BY DEF Mine
  <2>2. CASE f = "thread"  BY <1>1, <1>4, <2>1, <2>2 DEF LogSorted, Pos
  <2>3. CASE f # "thread"
    <3>1. rs[i].run = rs[j].run  BY <2>3 DEF Mine
    <3> QED BY <1>1, <1>4, <2>1, <2>3, <3>1 DEF LogSorted, Pos
  <2> QED BY <2>2, <2>3
<1> QED BY <1>1, <1>3, <1>4

\* ... and so does what is committed next.
LEMMA NextIsAfter ==
  ASSUME NEW rs, LogSorted(rs), NEW e, IsNext(rs, e), NEW f, f \in {"thread", e.run},
         NEW i \in Mine(rs, f)
  PROVE  Pos(f, rs[i]) < Pos(f, e)
<1>1. i \in 1..Len(rs)  BY DEF Mine
<1>2. CASE f = "thread"  BY <1>1, <1>2 DEF IsNext, Pos
<1>3. CASE f # "thread"
  <2>1. rs[i].run = e.run  BY <1>3 DEF Mine
  <2> QED BY <1>1, <1>3, <2>1 DEF IsNext, Pos
<1> QED BY <1>2, <1>3

LEMMA CommitKeepsOrder ==
  ASSUME NEW rs, LogSorted(rs), NEW e, IsNext(rs, e)
  PROVE  LogSorted(Append(rs, e))
<1> DEFINE new == Append(rs, e)
<1>1. rs \in Seq(Row) /\ e \in Row /\ Len(rs) \in Nat
  BY DEF LogSorted, IsNext
<1>2. new \in Seq(Row) /\ Len(new) = Len(rs) + 1 /\ new[Len(rs) + 1] = e
      /\ \A i \in 1..Len(rs) : new[i] = rs[i]
  BY <1>1
<1> HIDE DEF new
<1>3. \A i \in 1..Len(new) : i \in 1..Len(rs) \/ i = Len(rs) + 1
  BY <1>1, <1>2
<1>4. ASSUME NEW i \in 1..Len(new)
      PROVE  new[i].sequence \in 1..i /\ new[i].thread_sequence \in 1..i
  BY <1>2, <1>3 DEF LogSorted, IsNext
<1>5. ASSUME NEW i \in 1..Len(new), NEW j \in 1..Len(new), i < j
      PROVE  /\ new[i].thread_sequence < new[j].thread_sequence
             /\ new[i].run = new[j].run => new[i].sequence < new[j].sequence
  <2>1. i \in 1..Len(rs)  BY <1>1, <1>2, <1>5
  <2>2. CASE j \in 1..Len(rs)  BY <1>2, <1>5, <2>1, <2>2 DEF LogSorted
  <2>3. CASE j = Len(rs) + 1  BY <1>2, <2>1, <2>3 DEF IsNext
  <2> QED BY <1>3, <2>2, <2>3
<1>6. LogSorted(new)
  BY <1>2, <1>4, <1>5 DEF LogSorted
<1> QED BY <1>6 DEF new

\* A commit adds nothing at or below a number that is a row's.
LEMMA CommitAddsAbove ==
  ASSUME NEW rs, LogSorted(rs), NEW e, IsNext(rs, e), NEW f, NEW n, IsPosition(rs, f, n)
  PROVE  /\ Upto(Append(rs, e), f, n) = Upto(rs, f, n)
         /\ IsPosition(Append(rs, e), f, n)
<1> DEFINE new == Append(rs, e)
<1>1. rs \in Seq(Row) /\ e \in Row /\ Len(rs) \in Nat
  BY DEF LogSorted, IsNext
<1>2. Len(new) = Len(rs) + 1 /\ new[Len(rs) + 1] = e
      /\ \A i \in 1..Len(rs) : new[i] = rs[i]
  BY <1>1
<1> HIDE DEF new
<1>3. \A i \in 1..Len(new) : i \in 1..Len(rs) \/ i = Len(rs) + 1
  BY <1>1, <1>2
<1>4. \A i \in 1..Len(rs) : i \in 1..Len(new)
  BY <1>1, <1>2
<1>5. \A i \in Mine(rs, f) : i \in Mine(new, f) /\ new[i] = rs[i]
  BY <1>2, <1>4 DEF Mine
<1>6. ASSUME NEW i \in Mine(new, f)
      PROVE  i \in Mine(rs, f) \/ (i = Len(rs) + 1 /\ f \in {"thread", e.run})
  <2>1. i \in 1..Len(new) /\ f \in {"thread", new[i].run}  BY DEF Mine
  <2>2. CASE i \in 1..Len(rs)  BY <1>2, <2>1, <2>2 DEF Mine
  <2>3. CASE i = Len(rs) + 1  BY <1>2, <2>1, <2>3
  <2> QED BY <1>3, <2>1, <2>2, <2>3
<1>7. ASSUME f \in {"thread", e.run} PROVE ~(Pos(f, e) <= n)
  <2>1. n \in Nat /\ Pos(f, e) \in Nat  BY <1>1, PositionIsNumber DEF IsPosition
  <2>2. CASE n = 0
    <3>1. Pos(f, e) # 0  BY DEF IsNext, Pos
    <3> QED BY <2>1, <2>2, <3>1
  <2>3. CASE n # 0
    <3>1. PICK i \in Mine(rs, f) : Pos(f, rs[i]) = n  BY <2>3 DEF IsPosition
    <3>2. n < Pos(f, e)  BY <1>7, <3>1, NextIsAfter
    <3> QED BY <2>1, <3>2
  <2> QED BY <2>2, <2>3
<1>8. {j \in Mine(new, f) : Pos(f, new[j]) <= n} = {j \in Mine(rs, f) : Pos(f, rs[j]) <= n}
  BY <1>2, <1>5, <1>6, <1>7
<1>9. \A j \in {x \in Mine(rs, f) : Pos(f, rs[x]) <= n} : new[j] = rs[j]
  BY <1>5
<1>10. Upto(new, f, n) = Upto(rs, f, n)
  BY <1>8, <1>9 DEF Upto
<1>11. IsPosition(new, f, n)
  BY <1>5 DEF IsPosition
<1> QED BY <1>10, <1>11 DEF new

\* What is read of a stream is seen up to its last event.
LEMMA SeenIsLast ==
  ASSUME NEW f, NEW g \in Seq(Row),
         \A i, j \in 1..Len(g) : i < j => Pos(f, g[i]) < Pos(f, g[j])
  PROVE  /\ SeenOf(f, g) \in Nat
         /\ g = <<>> => SeenOf(f, g) = 0
         /\ g # <<>> => SeenOf(f, g) = Pos(f, g[Len(g)]) /\ Len(g) \in 1..Len(g)
         /\ \A i \in 1..Len(g) : Pos(f, g[i]) <= SeenOf(f, g)
<1> DEFINE P == {Pos(f, g[i]) : i \in 1..Len(g)}
           m == Pos(f, g[Len(g)])
<1>1. Len(g) \in Nat /\ (g = <<>> <=> Len(g) = 0) /\ SeenOf(f, g) = MaxOf(P)
  BY DEF SeenOf
<1>2. \A i \in 1..Len(g) : Pos(f, g[i]) \in Nat
  BY PositionIsNumber
<1>3. CASE g = <<>>
  <2>1. P = {}  BY <1>1, <1>3
  <2>2. MaxOf(P) = 0  BY <2>1 DEF MaxOf
  <2> QED BY <1>1, <1>3, <2>2
<1>4. CASE g # <<>>
  <2>1. Len(g) \in 1..Len(g)  BY <1>1, <1>4
  <2>2. m \in P /\ m \in Nat  BY <1>2, <2>1
  <2>3. ASSUME NEW i \in 1..Len(g) PROVE Pos(f, g[i]) <= m
    <3>1. CASE i = Len(g)  BY <2>2, <3>1
    <3>2. CASE i < Len(g)
      <4>1. Pos(f, g[i]) < m  BY <2>1, <3>2
      <4> QED BY <1>2, <2>2, <4>1
    <3> QED BY <1>1, <3>1, <3>2
  <2>4. \A x \in P : x <= m /\ x \in Nat  BY <1>2, <2>3
  <2>5. MaxOf(P) = CHOOSE x \in P : \A y \in P : y <= x
    <3> HIDE DEF P
    <3> QED BY <2>2 DEF MaxOf
  <2>6. MaxOf(P) = m
    <3> HIDE DEF P, m
    <3>1. \A x \in P : (\A y \in P : y <= x) => x = m  BY <2>2, <2>4
    <3> QED BY <2>2, <2>4, <2>5, <3>1
  <2> QED BY <1>1, <1>4, <2>1, <2>2, <2>3, <2>6
<1> QED BY <1>3, <1>4

\* Where a client's cursor stands when it connects.
LEMMA SeenIsPosition ==
  ASSUME NEW rs, LogSorted(rs), NEW f, NEW g \in Seq(Row), Exact(rs, f, SeenOf(f, g), g)
  PROVE  IsPosition(rs, f, SeenOf(f, g))
<1>1. \A i, j \in 1..Len(g) : i < j => Pos(f, g[i]) < Pos(f, g[j])
  BY DEF Exact
<1>2. CASE g = <<>>
  BY <1>1, <1>2, SeenIsLast DEF IsPosition
<1>3. CASE g # <<>>
  <2>1. SeenOf(f, g) = Pos(f, g[Len(g)]) /\ Len(g) \in 1..Len(g) /\ SeenOf(f, g) \in Nat
    BY <1>1, <1>3, SeenIsLast
  <2>2. g[Len(g)] \in Upto(rs, f, SeenOf(f, g))  BY <2>1 DEF Exact
  <2>3. PICK i \in Mine(rs, f) : rs[i] = g[Len(g)]  BY <2>2 DEF Upto
  <2> QED BY <2>1, <2>3 DEF IsPosition
<1> QED BY <1>2, <1>3

\* However much of what was sent has arrived, it is exact up to its last event.
LEMMA PrefixIsExact ==
  ASSUME NEW rs, LogSorted(rs), NEW f, NEW n \in Nat, NEW g \in Seq(Row), NEW w \in Seq(Row),
         Exact(rs, f, n, g \o w)
  PROVE  Exact(rs, f, SeenOf(f, g), g)
<1> DEFINE x == g \o w
           m == SeenOf(f, g)
<1>1. /\ x \in Seq(Row) /\ Len(x) = Len(g) + Len(w) /\ Len(g) \in Nat /\ Len(w) \in Nat
      /\ \A i \in 1..Len(g) : x[i] = g[i]
  OBVIOUS
<1> HIDE DEF x
<1>2. \A i \in 1..Len(g) : i \in 1..Len(x)
  BY <1>1
<1>3. \A i, j \in 1..Len(x) : i < j => Pos(f, x[i]) < Pos(f, x[j])
  BY DEF Exact, x
<1>4. {x[i] : i \in 1..Len(x)} = Upto(rs, f, n)
  BY DEF Exact, x
<1>5. \A i, j \in 1..Len(g) : i < j => Pos(f, g[i]) < Pos(f, g[j])
  <2> SUFFICES ASSUME NEW i \in 1..Len(g), NEW j \in 1..Len(g), i < j
               PROVE  Pos(f, g[i]) < Pos(f, g[j])
    OBVIOUS
  <2>1. Pos(f, x[i]) < Pos(f, x[j])  BY <1>2, <1>3
  <2> QED BY <1>1, <2>1
<1>6. m \in Nat /\ \A i \in 1..Len(g) : Pos(f, g[i]) <= m
  BY <1>5, SeenIsLast
<1>7. ASSUME NEW e \in {g[i] : i \in 1..Len(g)} PROVE e \in Upto(rs, f, m)
  <2>1. PICK i \in 1..Len(g) : e = g[i]  OBVIOUS
  <2>2. e \in Upto(rs, f, n)  BY <1>1, <1>2, <1>4, <2>1
  <2>3. PICK j \in Mine(rs, f) : rs[j] = e  BY <2>2 DEF Upto
  <2>4. Pos(f, rs[j]) <= m  BY <1>6, <2>1, <2>3
  <2> HIDE DEF m
  <2> QED BY <2>3, <2>4 DEF Upto
<1>8. ASSUME NEW e \in Upto(rs, f, m) PROVE e \in {g[i] : i \in 1..Len(g)}
  <2>1. PICK j \in Mine(rs, f) : e = rs[j] /\ Pos(f, rs[j]) <= m
    <3> HIDE DEF m
    <3> QED BY DEF Upto
  <2>2. Pos(f, rs[j]) \in Nat \ {0}  BY PositionsAscend
  <2>3. g # <<>>
    <3>1. m # 0
      <4> HIDE DEF m
      <4> QED BY <1>6, <2>1, <2>2
    <3> QED BY <1>5, <3>1, SeenIsLast
  <2>4. m = Pos(f, g[Len(g)]) /\ Len(g) \in 1..Len(g)  BY <1>5, <2>3, SeenIsLast
  <2>5. PICK k \in Mine(rs, f) : rs[k] = g[Len(g)] /\ Pos(f, rs[k]) <= n
    <3>1. g[Len(g)] \in Upto(rs, f, n)  BY <1>1, <1>2, <1>4, <2>4
    <3> QED BY <3>1 DEF Upto
  <2>6. Pos(f, rs[j]) <= n
    <3>2. j = k \/ j < k \/ k < j  BY DEF Mine
    <3>3. CASE j = k  BY <2>5, <3>3
    <3>4. CASE j < k
      <4>1. Pos(f, rs[j]) < Pos(f, rs[k]) /\ Pos(f, rs[k]) \in Nat  BY <3>4, PositionsAscend
      <4> QED BY <2>2, <2>5, <4>1
    <3>5. CASE k < j
      <4>1. Pos(f, rs[k]) < Pos(f, rs[j]) /\ Pos(f, rs[k]) \in Nat  BY <3>5, PositionsAscend
      <4> HIDE DEF m
      <4> QED BY <2>1, <2>2, <2>4, <2>5, <4>1
    <3> QED BY <3>2, <3>3, <3>4, <3>5
  <2>7. e \in Upto(rs, f, n)  BY <2>1, <2>6 DEF Upto
  <2>8. PICK i \in 1..Len(x) : e = x[i]  BY <1>4, <2>7
  <2>9. i \in 1..Len(g)
    <3> SUFFICES ASSUME ~(i <= Len(g)) PROVE FALSE
      BY <1>1
    <3>1. Len(g) < i /\ Len(g) \in 1..Len(x)  BY <1>1, <1>2, <2>4
    <3>2. Pos(f, x[Len(g)]) < Pos(f, x[i])  BY <1>3, <3>1
    <3>3. m < Pos(f, e)  BY <1>1, <2>4, <2>8, <3>2
    <3> HIDE DEF m
    <3> QED BY <1>6, <2>1, <2>2, <3>3
  <2> QED BY <1>1, <2>8, <2>9
<1>9. {g[i] : i \in 1..Len(g)} = Upto(rs, f, m)
  <2> HIDE DEF m
  <2> QED BY <1>7, <1>8
<1> QED BY <1>5, <1>9 DEF Exact

-----------------------------------------------------------------------------
(* Reading in order: a finite set of numbers is enumerated by how many of  *)
(* them are not greater.                                                   *)

Rank(I, i) == Cardinality({j \in I : j <= i})

\* The elements of a finite set of numbers, one after the other.
LEMMA RanksEnumerate ==
  ASSUME NEW I \in SUBSET Nat, IsFiniteSet(I)
  PROVE  \E s \in [1..Cardinality(I) -> I] :
           /\ \A k \in 1..Cardinality(I) : s[k] = CHOOSE i \in I : Rank(I, i) = k
           /\ \A k, l \in 1..Cardinality(I) : k < l => s[k] < s[l]
           /\ {s[k] : k \in 1..Cardinality(I)} = I
<1> DEFINE R == {p \in I \X I : p[1] <= p[2]}
           n == Cardinality(I)
<1>1. \A i, j \in I : <<i, j>> \in R <=> i <= j
  OBVIOUS
<1> HIDE DEF R
<1>2. IsOrder(R, I)
  BY <1>1 DEF IsOrder
<1>3. \A i \in I : Place(R, I, i) = Rank(I, i)
  BY <1>1 DEF Place, Rank
<1>4. PICK s \in [1..n -> I] :
           /\ \A k \in 1..n : s[k] = CHOOSE i \in I : Place(R, I, i) = k
           /\ \A k, l \in 1..n : k < l => <<s[k], s[l]>> \in R /\ s[k] # s[l]
           /\ {s[k] : k \in 1..n} = I
  BY <1>2, PlacesEnumerate
<1>5. \A k \in 1..n : s[k] = CHOOSE i \in I : Rank(I, i) = k
  <2> DEFINE placed(k) == CHOOSE i \in I : Place(R, I, i) = k
             ranked(k) == CHOOSE i \in I : Rank(I, i) = k
  <2>1. \A k : placed(k) = ranked(k)  BY <1>3
  <2>2. \A k \in 1..n : s[k] = placed(k)  BY <1>4
  <2> HIDE DEF placed, ranked
  <2>3. \A k \in 1..n : s[k] = ranked(k)  BY <2>1, <2>2
  <2> QED BY <2>3 DEF ranked
<1>6. \A k, l \in 1..n : k < l => s[k] < s[l]
  <2> SUFFICES ASSUME NEW k \in 1..n, NEW l \in 1..n, k < l PROVE s[k] < s[l]
    OBVIOUS
  <2>1. s[k] \in I /\ s[l] \in I /\ <<s[k], s[l]>> \in R /\ s[k] # s[l]  BY <1>4
  <2>2. s[k] <= s[l]  BY <1>1, <2>1
  <2>3. s[k] \in Nat /\ s[l] \in Nat  BY <2>1
  <2> QED BY <2>1, <2>2, <2>3
<1> QED BY <1>4, <1>5, <1>6

\* list_events and list_thread_events read what is after the cursor, in order.
LEMMA ListEventsAre ==
  ASSUME LogSorted(rows), NEW c, cursor[c] \in Nat
  PROVE  /\ ListEvents(c) \in Seq(Row)
         /\ \A k, l \in 1..Len(ListEvents(c)) : k < l =>
              Pos(follows[c], ListEvents(c)[k]) < Pos(follows[c], ListEvents(c)[l])
         /\ {ListEvents(c)[k] : k \in 1..Len(ListEvents(c))} =
              {rows[i] : i \in {j \in Mine(rows, follows[c]) : Pos(follows[c], rows[j]) > cursor[c]}}
<1> DEFINE f == follows[c]
           I == {j \in Mine(rows, f) : Pos(f, rows[j]) > cursor[c]}
           n == Cardinality(I)
           place(k) == CHOOSE i \in I : Rank(I, i) = k
           batch == [k \in 1..n |-> rows[place(k)]]
<1>1. rows \in Seq(Row) /\ Len(rows) \in Nat /\ DOMAIN rows = 1..Len(rows)
  BY DEF LogSorted
<1>2. I \in SUBSET (1..Len(rows)) /\ I \in SUBSET Nat
  BY DEF Mine
<1>3. IsFiniteSet(I)
  <2>1. 1 \in Int /\ Len(rows) \in Int  BY <1>1
  <2>2. IsFiniteSet(1..Len(rows))  BY <2>1, FS_Interval
  <2> HIDE DEF I
  <2> QED BY <1>2, <2>2, FS_Subset
<1>4. \A i, j \in I : i < j => Pos(f, rows[i]) < Pos(f, rows[j])
  BY PositionsAscend
<1>5. \A i \in I : Pos(f, rows[i]) \in Nat
  BY PositionsAscend
<1>6. {i \in DOMAIN rows : Followed(c, rows[i]) /\ Position(c, rows[i]) > cursor[c]} = I
  BY <1>1 DEF Followed, Position, Mine, Pos
<1>7. \A i, j \in I : (\/ Position(c, rows[j]) < Position(c, rows[i])
                       \/ Position(c, rows[j]) = Position(c, rows[i]) /\ j <= i) <=> j <= i
  <2> SUFFICES ASSUME NEW i \in I, NEW j \in I
               PROVE  (\/ Position(c, rows[j]) < Position(c, rows[i])
                       \/ Position(c, rows[j]) = Position(c, rows[i]) /\ j <= i) <=> j <= i
    OBVIOUS
  <2>1. Position(c, rows[j]) = Pos(f, rows[j]) /\ Position(c, rows[i]) = Pos(f, rows[i])
    BY DEF Position, Pos
  <2>2. Pos(f, rows[j]) \in Nat /\ Pos(f, rows[i]) \in Nat /\ i \in Nat /\ j \in Nat
    BY <1>2, <1>5
  <2>3. (i < j => Pos(f, rows[i]) < Pos(f, rows[j])) /\ (j < i => Pos(f, rows[j]) < Pos(f, rows[i]))
    BY <1>4
  <2> DEFINE p == Pos(f, rows[i])
             q == Pos(f, rows[j])
  <2>4. p \in Nat /\ q \in Nat /\ (i < j => p < q) /\ (j < i => q < p) /\ (i = j => p = q)
    BY <2>2, <2>3
  <2> HIDE DEF p, q
  <2>5. (q < p \/ (q = p /\ j <= i)) <=> j <= i  BY <2>2, <2>4
  <2> QED BY <2>1, <2>5 DEF p, q
<1>8. ListEvents(c) = batch
  <2> DEFINE A == {i \in DOMAIN rows : Followed(c, rows[i]) /\ Position(c, rows[i]) > cursor[c]}
             upto(i) == {j \in A : \/ Position(c, rows[j]) < Position(c, rows[i])
                                   \/ Position(c, rows[j]) = Position(c, rows[i]) /\ j <= i}
  <2>1. ListEvents(c) = [k \in 1..Cardinality(A) |-> rows[CHOOSE i \in A : Cardinality(upto(i)) = k]]
    BY DEF ListEvents
  <2>2. A = I  BY <1>6
  <2>3. \A i \in I : upto(i) = {j \in I : j <= i}
    <3> HIDE DEF I, A
    <3> QED BY <1>7, <2>2
  <2>4. \A i \in I : Cardinality(upto(i)) = Rank(I, i)  BY <2>3 DEF Rank
  <2> DEFINE first(k) == CHOOSE i \in I : Cardinality(upto(i)) = k
  <2> HIDE DEF A, upto, I
  <2>5. \A k : first(k) = place(k)
    BY <2>4
  <2>6. ListEvents(c) = [k \in 1..n |-> rows[first(k)]]
    BY <2>1, <2>2
  <2> HIDE DEF first, place, n
  <2> QED BY <2>5, <2>6
<1>9. PICK s \in [1..n -> I] :
           /\ \A k \in 1..n : s[k] = place(k)
           /\ \A k, l \in 1..n : k < l => s[k] < s[l]
           /\ {s[k] : k \in 1..n} = I
  <2> HIDE DEF I
  <2> QED BY <1>2, <1>3, RanksEnumerate
<1>10. n \in Nat  BY <1>3, FS_CardinalityType
<1> HIDE DEF I, n, place
<1>11. batch = [k \in 1..n |-> rows[s[k]]]  BY <1>9
<1>12. \A k \in 1..n : s[k] \in I /\ rows[s[k]] \in Row
  <2>1. \A k \in 1..n : s[k] \in I  BY <1>9
  <2>2. \A i \in 1..Len(rows) : rows[i] \in Row  BY <1>1
  <2> QED BY <1>2, <2>1, <2>2
<1>13. batch \in Seq(Row) /\ Len(batch) = n /\ \A k \in 1..n : batch[k] = rows[s[k]]
  <2>1. batch \in [1..n -> Row]  BY <1>11, <1>12
  <2>2. batch \in Seq(Row) /\ Len(batch) = n
    <3> HIDE DEF batch
    <3> QED BY <1>10, <2>1
  <2> QED BY <1>11, <2>2
<1> HIDE DEF batch
<1>14. \A k, l \in 1..n : k < l => Pos(f, batch[k]) < Pos(f, batch[l])
  <2> SUFFICES ASSUME NEW k \in 1..n, NEW l \in 1..n, k < l PROVE Pos(f, batch[k]) < Pos(f, batch[l])
    OBVIOUS
  <2>1. s[k] < s[l] /\ s[k] \in I /\ s[l] \in I  BY <1>9
  <2> QED BY <1>4, <1>13, <2>1
<1>15. {batch[k] : k \in 1..n} = {rows[i] : i \in I}
  <2>1. \A k \in 1..n : batch[k] \in {rows[i] : i \in I}  BY <1>12, <1>13
  <2>2. \A i \in I : \E k \in 1..n : batch[k] = rows[i]  BY <1>9, <1>13
  <2> QED BY <2>1, <2>2
<1> QED BY <1>8, <1>13, <1>14, <1>15 DEF I

\* What is sent after the events up to the cursor leaves none out.
LEMMA SendIsExact ==
  ASSUME NEW rs, LogSorted(rs), NEW f, NEW n, IsPosition(rs, f, n),
         NEW x \in Seq(Row), Exact(rs, f, n, x), NEW batch \in Seq(Row),
         \A k, l \in 1..Len(batch) : k < l => Pos(f, batch[k]) < Pos(f, batch[l]),
         {batch[k] : k \in 1..Len(batch)} =
           {rs[i] : i \in {j \in Mine(rs, f) : Pos(f, rs[j]) > n}},
         NEW m, m = MaxOf({n} \cup {Pos(f, batch[i]) : i \in 1..Len(batch)})
  PROVE  Exact(rs, f, m, x \o batch) /\ IsPosition(rs, f, m)
<1> DEFINE P == {n} \cup {Pos(f, batch[i]) : i \in 1..Len(batch)}
           y == x \o batch
<1>1. n \in Nat /\ Len(x) \in Nat /\ Len(batch) \in Nat
  BY DEF IsPosition
<1>2. \A i \in 1..Len(batch) : \E j \in Mine(rs, f) : batch[i] = rs[j] /\ Pos(f, rs[j]) > n
  OBVIOUS
<1>3. \A j \in Mine(rs, f) : Pos(f, rs[j]) > n => \E i \in 1..Len(batch) : batch[i] = rs[j]
  OBVIOUS
<1>4. \A i \in 1..Len(batch) : Pos(f, batch[i]) \in Nat /\ Pos(f, batch[i]) > n
  BY <1>2, PositionsAscend
<1>0. m = MaxOf(P)
  OBVIOUS
<1>5. m \in P /\ \A p \in P : p <= m /\ p \in Nat
  <2> DEFINE last == IF batch = <<>> THEN n ELSE Pos(f, batch[Len(batch)])
  <2>1. last \in P /\ last \in Nat
    <3>1. CASE batch = <<>>  BY <1>1, <3>1
    <3>2. CASE batch # <<>>
      <4>1. Len(batch) \in 1..Len(batch)  BY <3>2
      <4> QED BY <1>4, <3>2, <4>1
    <3> QED BY <3>1, <3>2
  <2>2. ASSUME NEW i \in 1..Len(batch) PROVE Pos(f, batch[i]) <= last /\ n <= last
    <3>1. batch # <<>> /\ Len(batch) \in 1..Len(batch)  OBVIOUS
    <3>2. last = Pos(f, batch[Len(batch)])  BY <3>1
    <3>3. CASE i = Len(batch)  BY <1>1, <1>4, <3>2, <3>3
    <3>4. CASE i < Len(batch)
      <4>1. Pos(f, batch[i]) < last  BY <3>1, <3>2, <3>4
      <4> HIDE DEF last
      <4> QED BY <1>1, <1>4, <2>1, <4>1
    <3> QED BY <3>3, <3>4
  <2>3. n <= last
    <3>1. CASE batch = <<>>  BY <1>1, <3>1
    <3>2. CASE batch # <<>>
      <4>1. Len(batch) \in 1..Len(batch)  BY <3>2
      <4> QED BY <2>2, <4>1
    <3> QED BY <3>1, <3>2
  <2> HIDE DEF last
  <2>4. \A p \in P : p <= last /\ p \in Nat  BY <1>1, <1>4, <2>2, <2>3
  <2>5. m = CHOOSE p \in P : \A q \in P : q <= p
    <3> HIDE DEF P
    <3> QED BY <1>0, <2>1 DEF MaxOf
  <2> HIDE DEF P
  <2>6. m \in P /\ \A q \in P : q <= m  BY <2>1, <2>4, <2>5
  <2> QED BY <2>4, <2>6
<1>6. m \in Nat /\ n <= m /\ \A i \in 1..Len(batch) : Pos(f, batch[i]) <= m
  <2> QED BY <1>5
<1>7. IsPosition(rs, f, m)
  <2>1. CASE m = n  BY <2>1
  <2>2. CASE m # n
    <3>1. PICK i \in 1..Len(batch) : m = Pos(f, batch[i])
      <4> QED BY <1>5, <2>2
    <3>2. PICK j \in Mine(rs, f) : batch[i] = rs[j]  BY <1>2
    <3> QED BY <1>6, <3>1, <3>2 DEF IsPosition
  <2> QED BY <2>1, <2>2
<1> HIDE DEF P
<1>8. /\ y \in Seq(Row) /\ Len(y) = Len(x) + Len(batch)
      /\ \A i \in 1..Len(x) : y[i] = x[i]
      /\ \A i \in 1..Len(batch) : y[Len(x) + i] = batch[i]
  OBVIOUS
<1> HIDE DEF y
<1>9. \A i \in 1..Len(y) : i \in 1..Len(x) \/ \E k \in 1..Len(batch) : i = Len(x) + k
  <2> SUFFICES ASSUME NEW i \in 1..Len(y), i \notin 1..Len(x)
               PROVE  \E k \in 1..Len(batch) : i = Len(x) + k
    OBVIOUS
  <2>1. i - Len(x) \in 1..Len(batch) /\ i = Len(x) + (i - Len(x))  BY <1>1, <1>8
  <2> QED BY <2>1
<1>10. \A i \in 1..Len(x) : i \in 1..Len(y)  BY <1>1, <1>8
<1>11. \A k \in 1..Len(batch) : Len(x) + k \in 1..Len(y)  BY <1>1, <1>8
<1>12. \A i \in 1..Len(x) : \E j \in Mine(rs, f) : x[i] = rs[j] /\ Pos(f, rs[j]) <= n
  BY DEF Exact, Upto
<1>13. ASSUME NEW i \in 1..Len(y), NEW j \in 1..Len(y), i < j
       PROVE  Pos(f, y[i]) < Pos(f, y[j])
  <2>1. CASE j \in 1..Len(x)
    <3>1. i \in 1..Len(x)  BY <1>1, <1>13, <2>1
    <3> QED BY <1>8, <1>13, <2>1, <3>1 DEF Exact
  <2>2. CASE \E k \in 1..Len(batch) : j = Len(x) + k
    <3>1. PICK k \in 1..Len(batch) : j = Len(x) + k  BY <2>2
    <3>2. CASE i \in 1..Len(x)
      <4>1. PICK l \in Mine(rs, f) : x[i] = rs[l] /\ Pos(f, rs[l]) <= n  BY <1>12, <3>2
      <4>2. Pos(f, rs[l]) \in Nat  BY PositionsAscend
      <4>3. Pos(f, batch[k]) \in Nat /\ Pos(f, batch[k]) > n  BY <1>4
      <4>4. Pos(f, rs[l]) < Pos(f, batch[k])  BY <1>1, <4>1, <4>2, <4>3
      <4> QED BY <1>8, <3>1, <3>2, <4>1, <4>4
    <3>3. CASE i \notin 1..Len(x)
      <4>1. PICK h \in 1..Len(batch) : i = Len(x) + h  BY <1>9, <3>3
      <4>2. h < k  BY <1>1, <1>13, <3>1, <4>1
      <4>3. Pos(f, batch[h]) < Pos(f, batch[k])  BY <4>2
      <4> QED BY <1>8, <3>1, <4>1, <4>3
    <3> QED BY <3>2, <3>3
  <2> QED BY <1>9, <2>1, <2>2
<1>14. ASSUME NEW i \in 1..Len(y) PROVE y[i] \in Upto(rs, f, m)
  <2>1. CASE i \in 1..Len(x)
    <3>1. PICK l \in Mine(rs, f) : x[i] = rs[l] /\ Pos(f, rs[l]) <= n  BY <1>12, <2>1
    <3>2. Pos(f, rs[l]) \in Nat  BY PositionsAscend
    <3>3. Pos(f, rs[l]) <= m  BY <1>1, <1>6, <3>1, <3>2
    <3> QED BY <1>8, <2>1, <3>1, <3>3 DEF Upto
  <2>2. CASE i \notin 1..Len(x)
    <3>1. PICK h \in 1..Len(batch) : i = Len(x) + h  BY <1>9, <2>2
    <3>2. PICK l \in Mine(rs, f) : batch[h] = rs[l]  BY <1>2
    <3>3. Pos(f, rs[l]) <= m  BY <1>6, <3>2
    <3> QED BY <1>8, <3>1, <3>2, <3>3 DEF Upto
  <2> QED BY <2>1, <2>2
<1>15. ASSUME NEW e \in Upto(rs, f, m) PROVE \E i \in 1..Len(y) : y[i] = e
  <2>1. PICK l \in Mine(rs, f) : e = rs[l] /\ Pos(f, rs[l]) <= m  BY DEF Upto
  <2>2. CASE Pos(f, rs[l]) > n
    <3>1. PICK k \in 1..Len(batch) : batch[k] = rs[l]  BY <1>3, <2>2
    <3> QED BY <1>8, <1>11, <2>1, <3>1
  <2>3. CASE ~(Pos(f, rs[l]) > n)
    <3>1. Pos(f, rs[l]) \in Nat  BY PositionsAscend
    <3>2. Pos(f, rs[l]) <= n  BY <1>1, <2>3, <3>1
    <3>3. e \in Upto(rs, f, n)  BY <2>1, <3>2 DEF Upto
    <3>4. PICK i \in 1..Len(x) : x[i] = e  BY <3>3 DEF Exact
    <3> QED BY <1>8, <1>10, <3>4
  <2> QED BY <2>2, <2>3
<1>16. Exact(rs, f, m, y)
  BY <1>13, <1>14, <1>15 DEF Exact
<1> QED BY <1>7, <1>16 DEF y

-----------------------------------------------------------------------------
(* The log: what a transaction inserts is the next row of its thread.      *)

LEMMA MaxOfIs ==
  ASSUME NEW S \in SUBSET Nat, NEW b \in Nat, \A x \in S : x <= b
  PROVE  MaxOf(S) \in 0..b /\ \A x \in S : x <= MaxOf(S)
<1>1. CASE S = {}
  <2>1. MaxOf(S) = 0  BY <1>1 DEF MaxOf
  <2> QED BY <1>1, <2>1
<1>2. CASE S # {}
  <2> DEFINE T == {u \in Nat : \A x \in S : x <= u}
  <2>1. b \in T /\ T \subseteq Nat  OBVIOUS
  <2>2. PICK u \in T : \A k \in T : ~(k < u)
    <3> HIDE DEF T
    <3> QED BY <2>1, LeastNumber
  <2>3. u \in Nat /\ \A x \in S : x <= u /\ x \in Nat
    OBVIOUS
  <2>4. u \in S
    <3> SUFFICES ASSUME u \notin S PROVE FALSE
      OBVIOUS
    <3>1. PICK x \in S : x < u /\ x \in Nat
      <4>1. PICK x \in S : TRUE  BY <1>2
      <4>2. x # u /\ x <= u /\ x \in Nat  BY <2>3
      <4> QED BY <2>3, <4>2
    <3>2. u - 1 \in Nat /\ u - 1 < u  BY <3>1
    <3>3. \A y \in S : y <= u - 1
      <4>1. \A y \in S : y # u  OBVIOUS
      <4> QED BY <2>3, <4>1
    <3>4. u - 1 \in T  BY <3>2, <3>3
    <3> QED BY <2>2, <3>2, <3>4
  <2>5. MaxOf(S) = CHOOSE m \in S : \A n \in S : n <= m  BY <1>2 DEF MaxOf
  <2>6. MaxOf(S) \in S /\ \A n \in S : n <= MaxOf(S)
    <3> HIDE DEF T
    <3> QED BY <2>3, <2>4, <2>5
  <2>7. MaxOf(S) \in Nat /\ MaxOf(S) <= b  BY <2>6
  <2> QED BY <2>6, <2>7
<1> QED BY <1>1, <1>2

LEMMA InsertIsNext ==
  ASSUME LogSorted(rows), NEW r \in Runs, NEW n \in Nat, NEW type \in Type, NEW e,
         e = [run |-> r, attempt |-> n, type |-> type,
              sequence |-> 1 + MaxOf({rows[i].sequence :
                                      i \in {j \in DOMAIN rows : rows[j].run = r}}),
              thread_sequence |-> 1 + MaxOf({rows[i].thread_sequence :
                                             i \in DOMAIN rows})]
  PROVE  IsNext(rows, e) /\ e.run = r /\ e.type = type
<1> DEFINE S == {rows[i].sequence : i \in {j \in DOMAIN rows : rows[j].run = r}}
           T == {rows[i].thread_sequence : i \in DOMAIN rows}
           L == Len(rows)
<1>1. L \in Nat /\ DOMAIN rows = 1..L
  BY DEF LogSorted
<1>2. \A i \in 1..L : rows[i].sequence \in 1..i /\ rows[i].thread_sequence \in 1..i
  BY DEF LogSorted
<1> HIDE DEF L
<1>3. \A i \in 1..L : /\ rows[i].sequence \in Nat /\ rows[i].sequence <= L
                      /\ rows[i].thread_sequence \in Nat /\ rows[i].thread_sequence <= L
  BY <1>1, <1>2
<1>4. MaxOf(S) \in 0..L /\ \A x \in S : x <= MaxOf(S)
  <2>1. S \in SUBSET Nat /\ \A x \in S : x <= L  BY <1>1, <1>3
  <2> HIDE DEF S
  <2> QED BY <1>1, <2>1, MaxOfIs
<1>5. MaxOf(T) \in 0..L /\ \A x \in T : x <= MaxOf(T)
  <2>1. T \in SUBSET Nat /\ \A x \in T : x <= L  BY <1>1, <1>3
  <2> HIDE DEF T
  <2> QED BY <1>1, <2>1, MaxOfIs
<1>6. \A i \in 1..L : rows[i].run = r => rows[i].sequence <= MaxOf(S)
  BY <1>1, <1>4
<1>7. \A i \in 1..L : rows[i].thread_sequence <= MaxOf(T)
  BY <1>1, <1>5
<1> DEFINE s == 1 + MaxOf(S)
           t == 1 + MaxOf(T)
<1>8. e = [run |-> r, attempt |-> n, type |-> type, sequence |-> s, thread_sequence |-> t]
  OBVIOUS
<1> HIDE DEF S, T
<1>9. s \in 1..(L + 1) /\ t \in 1..(L + 1) /\ s \in Nat /\ t \in Nat
  BY <1>1, <1>4, <1>5
<1>10. \A i \in 1..L : /\ rows[i].thread_sequence < t
                       /\ rows[i].run = r => rows[i].sequence < s
  <2> SUFFICES ASSUME NEW i \in 1..L
               PROVE  /\ rows[i].thread_sequence < t
                      /\ rows[i].run = r => rows[i].sequence < s
    OBVIOUS
  <2>1. rows[i].thread_sequence < t  BY <1>3, <1>5, <1>7
  <2>2. rows[i].run = r => rows[i].sequence < s  BY <1>3, <1>4, <1>6
  <2> QED BY <2>1, <2>2
<1> HIDE DEF s, t
<1>11. e \in Row /\ e.run = r /\ e.type = type /\ e.sequence = s /\ e.thread_sequence = t
  BY <1>8, <1>9 DEF Row
<1> QED BY <1>9, <1>10, <1>11 DEF IsNext, L

\* A transaction that inserts keeps the other writers of the thread out.
LEMMA InsertStep ==
  ASSUME LogIInv, NEW r \in Runs, NEW n \in 0..MaxAttempts[r], NEW type \in Type,
         Insert(r, n, type), type \in TerminalType => status[r] = "open",
         UNCHANGED <<rows, status>>,
         phase' \in [Writers -> {"off", "emitting", "retrying", "ended"}]
  PROVE  LogIInv'
<1> DEFINE e == [run |-> r, attempt |-> n, type |-> type,
                 sequence |-> 1 + MaxOf({rows[i].sequence :
                                         i \in {j \in DOMAIN rows : rows[j].run = r}}),
                 thread_sequence |-> 1 + MaxOf({rows[i].thread_sequence :
                                                i \in DOMAIN rows})]
           w == <<r, n>>
<1>1. w \in Writers /\ w[1] = r /\ n \in Nat
  BY EventBounds DEF Writers
<1>2. IsNext(rows, e) /\ e.run = r /\ e.type = type
  <2>1. LogSorted(rows)  BY DEF LogIInv
  <2> HIDE DEF e
  <2> QED BY <1>1, <2>1, InsertIsNext DEF e
<1>3. tx' = [tx EXCEPT ![w] = e] /\ \A v \in Writers : tx[v] = NoRow
  BY DEF Insert, LockFree
<1>4. tx \in [Writers -> Row \cup {NoRow}]
  BY DEF LogIInv, LogTypeOK
<1> HIDE DEF e, w
<1>5. tx' \in [Writers -> Row \cup {NoRow}] /\ tx'[w] = e /\ \A v \in Writers \ {w} : tx'[v] = NoRow
  <2>1. e \in Row  BY <1>2 DEF IsNext
  <2> QED BY <1>1, <1>3, <1>4, <2>1
<1>6. LogTypeOK'
  BY <1>5 DEF LogIInv, LogTypeOK
<1>7. ASSUME NEW v \in Writers, tx'[v] # NoRow
      PROVE  /\ IsNext(rows, tx'[v]) /\ tx'[v].run = v[1]
             /\ tx'[v].type \in TerminalType => status[v[1]] = "open"
             /\ \A u \in Writers : u # v => tx'[u] = NoRow
  <2>1. v = w  BY <1>5, <1>7
  <2> QED BY <1>1, <1>2, <1>5, <2>1
<1> QED BY <1>6, <1>7 DEF LogIInv

\* What one step of the log may do, as the streams see it.
LogStepIs ==
  /\ \A r \in Runs : status[r] # "open" => status'[r] = status[r]
  /\ rows' = rows \/ \E e : IsNext(rows, e) /\ rows' = Append(rows, e)

LEMMA CommitStep ==
  ASSUME LogIInv, NEW w \in Writers, Commit(w)
  PROVE  LogIInv' /\ LogStepIs
<1> DEFINE e == tx[w]
<1>1. /\ tx[w] # NoRow /\ rows' = Append(rows, e) /\ tx' = [tx EXCEPT ![w] = NoRow]
      /\ status' = IF e.type \in TerminalType THEN [status EXCEPT ![w[1]] = e.type] ELSE status
      /\ phase' = phase
  BY DEF Commit
<1>2. /\ IsNext(rows, e) /\ e.run = w[1]
      /\ e.type \in TerminalType => status[w[1]] = "open"
      /\ \A v \in Writers : v # w => tx[v] = NoRow
  BY <1>1 DEF LogIInv
<1>3. /\ tx \in [Writers -> Row \cup {NoRow}] /\ status \in [Runs -> {"open"} \cup TerminalType]
      /\ rows \in Seq(Row) /\ LogSorted(rows)
  BY DEF LogIInv, LogTypeOK
<1>4. \A i \in 1..Len(rows) : rows[i].type \in TerminalType => status[rows[i].run] = rows[i].type
  BY DEF LogIInv
<1> HIDE DEF e
<1>5. e \in Row /\ e.run \in Runs
  BY <1>2 DEF IsNext, Row
<1>6. LogSorted(rows') /\ rows' \in Seq(Row)
  BY <1>1, <1>2, <1>3, CommitKeepsOrder DEF LogSorted
<1>7. tx' \in [Writers -> Row \cup {NoRow}] /\ \A v \in Writers : tx'[v] = NoRow
  BY <1>1, <1>2, <1>3
<1>8. status' \in [Runs -> {"open"} \cup TerminalType]
  BY <1>1, <1>3
<1>9. \A r \in Runs : status[r] # "open" => status'[r] = status[r]
  BY <1>1, <1>2, <1>3
<1>10. ASSUME NEW i \in 1..Len(rows'), rows'[i].type \in TerminalType
       PROVE  status'[rows'[i].run] = rows'[i].type
  <2>1. CASE i \in 1..Len(rows)
    <3>1. rows'[i] = rows[i] /\ rows[i] \in Row  BY <1>1, <1>3, <2>1
    <3>2. status[rows[i].run] = rows[i].type  BY <1>4, <1>10, <2>1, <3>1
    <3>3. rows[i].run \in Runs /\ rows[i].type # "open"  BY <1>10, <3>1 DEF Row, TerminalType
    <3> QED BY <1>9, <3>1, <3>2, <3>3
  <2>2. CASE i \notin 1..Len(rows)
    <3>1. rows'[i] = e  BY <1>1, <1>3, <1>5, <2>2
    <3>2. status' = [status EXCEPT ![w[1]] = e.type]  BY <1>1, <1>10, <3>1
    <3> QED BY <1>2, <1>3, <1>5, <3>1, <3>2
  <2> QED BY <2>1, <2>2
<1>11. LogTypeOK'
  BY <1>1, <1>6, <1>7, <1>8 DEF LogIInv, LogTypeOK
<1>12. LogIInv'
  BY <1>6, <1>7, <1>10, <1>11 DEF LogIInv
<1>13. LogStepIs
  BY <1>1, <1>2, <1>9 DEF LogStepIs
<1> QED BY <1>12, <1>13

LEMMA LogStep ==
  ASSUME LogIInv, LogNext
  PROVE  LogIInv' /\ LogStepIs
<1> DEFINE Phases == [Writers -> {"off", "emitting", "retrying", "ended"}]
<1>1. phase \in Phases
  BY DEF LogIInv, LogTypeOK
<1>2. ASSUME NEW w \in Writers, Commit(w) PROVE LogIInv' /\ LogStepIs
  BY <1>2, CommitStep
<1>3. ASSUME UNCHANGED <<rows, status>>, LogIInv' PROVE LogIInv' /\ LogStepIs
  BY <1>3 DEF LogStepIs
<1>4. ASSUME NEW r \in Runs, CancelRun(r) PROVE LogIInv' /\ LogStepIs
  <2>1. /\ Insert(r, 0, "run.cancelled") /\ UNCHANGED <<rows, status>> /\ status[r] = "open"
        /\ phase' \in Phases
    BY <1>1, <1>4 DEF CancelRun
  <2>2. 0 \in 0..MaxAttempts[r] /\ "run.cancelled" \in Type
    BY EventBounds DEF Type, TerminalType
  <2> QED BY <1>3, <2>1, <2>2, InsertStep
<1>5. ASSUME NEW r \in Runs, NEW n \in 1..MaxAttempts[r], NEW type \in Type, Insert(r, n, type),
             UNCHANGED <<rows, status>>, phase' \in Phases,
             type \in TerminalType => status[r] = "open"
      PROVE  LogIInv' /\ LogStepIs
  <2>1. n \in 0..MaxAttempts[r]  BY EventBounds
  <2> QED BY <1>3, <1>5, <2>1, InsertStep
<1>6. ASSUME NEW r \in Runs, NEW n \in 1..MaxAttempts[r], StartAttempt(r, n)
      PROVE  LogIInv' /\ LogStepIs
  <2>1. Insert(r, n, "run.started") /\ UNCHANGED <<rows, status>> /\ phase' \in Phases
    BY <1>1, <1>6 DEF StartAttempt
  <2>2. "run.started" \in Type /\ "run.started" \notin TerminalType  BY DEF Type, TerminalType
  <2> QED BY <1>5, <2>1, <2>2
<1>7. ASSUME NEW r \in Runs, NEW n \in 1..MaxAttempts[r], EmitRetrying(r, n)
      PROVE  LogIInv' /\ LogStepIs
  <2>1. Insert(r, n, "answer.reset") /\ UNCHANGED <<rows, status>> /\ phase' \in Phases
    BY <1>1, <1>7 DEF EmitRetrying
  <2>2. "answer.reset" \in Type /\ "answer.reset" \notin TerminalType  BY DEF Type, TerminalType
  <2> QED BY <1>5, <2>1, <2>2
<1>8. ASSUME NEW r \in Runs, NEW n \in 1..MaxAttempts[r], NEW kind \in Kinds, Emit(r, n, kind)
      PROVE  LogIInv' /\ LogStepIs
  <2>1. Insert(r, n, kind) /\ UNCHANGED <<rows, status>> /\ phase' \in Phases
    BY <1>1, <1>8 DEF Emit
  <2>2. kind \in Type /\ kind \notin TerminalType  BY EventBounds DEF Type, TerminalType
  <2> QED BY <1>5, <2>1, <2>2
<1>9. ASSUME NEW r \in Runs, NEW n \in 1..MaxAttempts[r], NEW type \in Results, Finalize(r, n, type)
      PROVE  LogIInv' /\ LogStepIs
  <2>1. Insert(r, n, type) /\ UNCHANGED <<rows, status>> /\ phase' \in Phases /\ status[r] = "open"
    BY <1>1, <1>9 DEF Finalize
  <2>2. type \in Type  BY EventBounds DEF Type, TerminalType
  <2> QED BY <1>5, <2>1, <2>2
<1> QED BY <1>2, <1>4, <1>6, <1>7, <1>8, <1>9 DEF LogNext

LEMMA LogStarts ==
  ASSUME LogInit
  PROVE  LogIInv
<1>1. rows = <<>> /\ tx = [w \in Writers |-> NoRow] /\ status = [r \in Runs |-> "open"]
      /\ phase = [w \in Writers |-> "off"]
  BY DEF LogInit
<1>2. rows \in Seq(Row) /\ Len(rows) = 0  BY <1>1
<1>3. LogTypeOK  BY <1>1, <1>2 DEF LogTypeOK
<1>4. LogSorted(rows)  BY <1>2 DEF LogSorted
<1> QED BY <1>1, <1>2, <1>3, <1>4 DEF LogIInv

-----------------------------------------------------------------------------
(* The steps of a stream, each at one client.                              *)

\* Nothing else depends on where one client is.
LEMMA OneClient ==
  ASSUME StreamsIInv, NEW c \in Clients, UNCHANGED logVars, StreamsTypeOK',
         \A d \in Clients \ {c} : /\ follows'[d] = follows[d] /\ conn'[d] = conn[d]
                                  /\ cursor'[d] = cursor[d] /\ wire'[d] = wire[d]
                                  /\ got'[d] = got[d],
         ClientSound(rows, follows'[c], conn'[c], cursor'[c], wire'[c], got'[c])
  PROVE  StreamsIInv'
<1>1. rows' = rows /\ LogIInv'
  BY DEF logVars, LogIInv, LogTypeOK, StreamsIInv
<1>2. ASSUME NEW d \in Clients
      PROVE  ClientSound(rows, follows'[d], conn'[d], cursor'[d], wire'[d], got'[d])
  BY DEF StreamsIInv
<1> QED BY <1>1, <1>2 DEF StreamsIInv

\* A step that only moves the generator on.
LEMMA ConnMoves ==
  ASSUME StreamsIInv, NEW c \in Clients, NEW at \in Connection \ {"closed"},
         conn[c] # "closed", conn' = [conn EXCEPT ![c] = at], woken' \subseteq Clients,
         UNCHANGED <<logVars, backend, version, follows, cursor, wire, got, drops>>
  PROVE  StreamsIInv'
<1>1. StreamsTypeOK /\ LogTypeOK' /\ conn \in [Clients -> Connection]
  BY DEF StreamsIInv, LogIInv, StreamsTypeOK, LogTypeOK, logVars
<1>2. conn' \in [Clients -> Connection] /\ conn'[c] = at /\ \A d \in Clients \ {c} : conn'[d] = conn[d]
  BY <1>1
<1>3. StreamsTypeOK'
  BY <1>1, <1>2 DEF StreamsTypeOK
<1>4. ClientSound(rows, follows[c], conn[c], cursor[c], wire[c], got[c])
  BY DEF StreamsIInv
<1>5. ClientSound(rows, follows'[c], conn'[c], cursor'[c], wire'[c], got'[c])
  BY <1>2, <1>4 DEF ClientSound
<1> QED BY <1>2, <1>3, <1>5, OneClient

LEMMA ConnectStep ==
  ASSUME StreamsIInv, NEW c \in Clients, Connect(c)
  PROVE  StreamsIInv'
<1> DEFINE f == follows[c]
           g == got[c]
<1>1. StreamsTypeOK /\ LogTypeOK' /\ LogSorted(rows)
  BY DEF StreamsIInv, LogIInv, StreamsTypeOK, LogTypeOK, Connect, logVars
<1>2. ClientSound(rows, f, "closed", cursor[c], wire[c], g) /\ f # "nothing"
  BY DEF StreamsIInv, Connect
<1>3. g \in Seq(Row) /\ wire[c] = <<>> /\ Exact(rows, f, SeenOf(f, g), g)
  BY <1>2 DEF ClientSound
<1>4. Seen(c) = SeenOf(f, g)
  <2>1. DOMAIN got[c] = 1..Len(g)  BY <1>3
  <2>2. \A e : Position(c, e) = Pos(f, e)  BY DEF Position, Pos
  <2>3. {Position(c, got[c][i]) : i \in DOMAIN got[c]} = {Pos(f, g[i]) : i \in 1..Len(g)}
    BY <2>1, <2>2
  <2> QED BY <2>3 DEF Seen, SeenOf
<1>5. IsPosition(rows, f, SeenOf(f, g))
  BY <1>1, <1>3, SeenIsPosition
<1>6. /\ conn' = [conn EXCEPT ![c] = "list"] /\ cursor' = [cursor EXCEPT ![c] = Seen(c)]
      /\ UNCHANGED <<logVars, backend, version, follows, wire, got, woken, drops>>
  BY DEF Connect
<1> HIDE DEF f, g
<1>7. Seen(c) \in Nat
  BY <1>4, <1>5 DEF IsPosition
<1>8. /\ conn' \in [Clients -> Connection] /\ cursor' \in [Clients -> Nat]
      /\ conn'[c] = "list" /\ cursor'[c] = Seen(c)
      /\ \A d \in Clients \ {c} : conn'[d] = conn[d] /\ cursor'[d] = cursor[d]
  BY <1>1, <1>6, <1>7 DEF StreamsTypeOK, Connection
<1>9. StreamsTypeOK'
  BY <1>1, <1>6, <1>8 DEF StreamsTypeOK
<1>10. g \o wire[c] = g
  BY <1>3, ConcatEmptySeq
<1>11. ClientSound(rows, f, "list", Seen(c), wire[c], g)
  BY <1>2, <1>3, <1>4, <1>5, <1>10 DEF ClientSound
<1>12. ClientSound(rows, follows'[c], conn'[c], cursor'[c], wire'[c], got'[c])
  BY <1>6, <1>8, <1>11 DEF f, g
<1> QED BY <1>6, <1>8, <1>9, <1>12, OneClient

LEMMA SendEventsStep ==
  ASSUME StreamsIInv, NEW c \in Clients, SendEvents(c)
  PROVE  StreamsIInv'
<1> DEFINE f == follows[c]
           g == got[c]
           w == wire[c]
           batch == ListEvents(c)
           m == MaxOf({cursor[c]} \cup {Pos(f, batch[i]) : i \in 1..Len(batch)})
           at == IF f = "thread" THEN "wait" ELSE "check"
<1>1. StreamsTypeOK /\ LogTypeOK' /\ LogSorted(rows)
  BY DEF StreamsIInv, LogIInv, StreamsTypeOK, LogTypeOK, SendEvents, logVars
<1>2. conn[c] = "list" /\ ClientSound(rows, f, conn[c], cursor[c], w, g)
  BY DEF StreamsIInv, SendEvents
<1>3. /\ w \in Seq(Row) /\ g \in Seq(Row) /\ Exact(rows, f, SeenOf(f, g), g)
      /\ Exact(rows, f, cursor[c], g \o w) /\ IsPosition(rows, f, cursor[c]) /\ f # "nothing"
  BY <1>2 DEF ClientSound
<1>4. cursor[c] \in Nat
  BY <1>3 DEF IsPosition
<1>5. /\ batch \in Seq(Row)
      /\ \A k, l \in 1..Len(batch) : k < l => Pos(f, batch[k]) < Pos(f, batch[l])
      /\ {batch[k] : k \in 1..Len(batch)} =
           {rows[i] : i \in {j \in Mine(rows, f) : Pos(f, rows[j]) > cursor[c]}}
  BY <1>1, <1>4, ListEventsAre
<1>6. MaxOf({cursor[c]} \cup {Position(c, batch[i]) : i \in DOMAIN batch}) = m
  <2>1. DOMAIN batch = 1..Len(batch)  BY <1>5
  <2>2. \A e : Position(c, e) = Pos(f, e)  BY DEF Position, Pos
  <2> HIDE DEF batch
  <2>3. {Position(c, batch[i]) : i \in DOMAIN batch} = {Pos(f, batch[i]) : i \in 1..Len(batch)}
    BY <2>1, <2>2
  <2> QED BY <2>3
<1>7. /\ wire' = [wire EXCEPT ![c] = w \o batch]
      /\ cursor' = [cursor EXCEPT ![c] = m]
      /\ conn' = [conn EXCEPT ![c] = at]
      /\ UNCHANGED <<logVars, backend, version, follows, got, woken, drops>>
  BY <1>6 DEF SendEvents
<1>8. at \in Connection \ {"closed"}  BY DEF Connection
<1> HIDE DEF f, g, w, batch, at
<1>9. g \o w \in Seq(Row)  BY <1>3
<1>10. Exact(rows, f, m, (g \o w) \o batch) /\ IsPosition(rows, f, m)
  BY <1>1, <1>3, <1>5, <1>9, SendIsExact
<1>11. (g \o w) \o batch = g \o (w \o batch) /\ w \o batch \in Seq(Row)
  BY <1>3, <1>5, ConcatAssociative
<1> HIDE DEF m
<1>12. m \in Nat  BY <1>10 DEF IsPosition
<1>13. ClientSound(rows, f, at, m, w \o batch, g)
  BY <1>3, <1>8, <1>10, <1>11 DEF ClientSound
<1>14. /\ conn' \in [Clients -> Connection] /\ cursor' \in [Clients -> Nat] /\ wire' \in [Clients -> Seq(Row)]
       /\ conn'[c] = at /\ cursor'[c] = m /\ wire'[c] = w \o batch
       /\ \A d \in Clients \ {c} : conn'[d] = conn[d] /\ cursor'[d] = cursor[d] /\ wire'[d] = wire[d]
  BY <1>1, <1>7, <1>8, <1>11, <1>12 DEF StreamsTypeOK
<1>15. StreamsTypeOK'
  BY <1>1, <1>7, <1>14 DEF StreamsTypeOK
<1>16. ClientSound(rows, follows'[c], conn'[c], cursor'[c], wire'[c], got'[c])
  BY <1>7, <1>13, <1>14 DEF f, g
<1> QED BY <1>7, <1>14, <1>15, <1>16, OneClient

\* An event that arrives is the next one; after the last one the client closes
\* the stream.
LEMMA ReceiveStep ==
  ASSUME StreamsIInv, NEW c \in Clients, Receive(c)
  PROVE  StreamsIInv'
<1> DEFINE f == follows[c]
           g == got[c]
           w == wire[c]
           g2 == Append(g, Head(w))
           last == Head(w).type \in TerminalType /\ f # "thread"
<1>1. StreamsTypeOK /\ LogTypeOK' /\ LogSorted(rows)
  BY DEF StreamsIInv, LogIInv, StreamsTypeOK, LogTypeOK, Receive, logVars
<1>2. ClientSound(rows, f, conn[c], cursor[c], w, g) /\ w # <<>>
  BY DEF StreamsIInv, Receive
<1>3. /\ w \in Seq(Row) /\ g \in Seq(Row) /\ conn[c] # "closed" /\ conn[c] \in Connection
      /\ Exact(rows, f, cursor[c], g \o w) /\ IsPosition(rows, f, cursor[c]) /\ f # "nothing"
  BY <1>1, <1>2 DEF ClientSound, StreamsTypeOK
<1>4. /\ got' = [got EXCEPT ![c] = g2]
      /\ wire' = [wire EXCEPT ![c] = IF last THEN <<>> ELSE Tail(w)]
      /\ conn' = [conn EXCEPT ![c] = IF last THEN "closed" ELSE conn[c]]
      /\ UNCHANGED <<logVars, backend, version, follows, cursor, woken, drops>>
  BY DEF Receive
<1> HIDE DEF f, g, w, last
<1>5. Head(w) \in Row /\ Tail(w) \in Seq(Row) /\ g2 \in Seq(Row)
  BY <1>2, <1>3
<1>6. g2 \o Tail(w) = g \o w
  <2>1. w = <<Head(w)>> \o Tail(w)  BY <1>2, <1>3
  <2>2. g2 = g \o <<Head(w)>>  BY <1>3, <1>5
  <2>3. <<Head(w)>> \in Seq(Row)  BY <1>5
  <2>4. (g \o <<Head(w)>>) \o Tail(w) = g \o (<<Head(w)>> \o Tail(w))
    BY <1>3, <1>5, <2>3, ConcatAssociative
  <2> HIDE DEF g2
  <2> QED BY <2>1, <2>2, <2>4
<1> HIDE DEF g2
<1>7. cursor[c] \in Nat  BY <1>3 DEF IsPosition
<1>8. Exact(rows, f, SeenOf(f, g2), g2)
  BY <1>1, <1>3, <1>5, <1>6, <1>7, PrefixIsExact
<1>9. /\ got' \in [Clients -> Seq(Row)] /\ wire' \in [Clients -> Seq(Row)] /\ conn' \in [Clients -> Connection]
      /\ got'[c] = g2 /\ wire'[c] = (IF last THEN <<>> ELSE Tail(w))
      /\ conn'[c] = (IF last THEN "closed" ELSE conn[c])
      /\ \A d \in Clients \ {c} : conn'[d] = conn[d] /\ got'[d] = got[d] /\ wire'[d] = wire[d]
  <2>1. "closed" \in Connection /\ <<>> \in Seq(Row)  BY DEF Connection
  <2> QED BY <1>1, <1>3, <1>4, <1>5, <2>1 DEF StreamsTypeOK
<1>10. StreamsTypeOK'
  BY <1>1, <1>4, <1>9 DEF StreamsTypeOK
<1>11. ClientSound(rows, f, conn'[c], cursor[c], wire'[c], g2)
  <2>1. CASE last
    <3>1. wire'[c] = <<>> /\ conn'[c] = "closed" /\ <<>> \in Seq(Row)  BY <1>9, <2>1
    <3> QED BY <1>5, <1>8, <3>1 DEF ClientSound
  <2>2. CASE ~last
    <3>1. wire'[c] = Tail(w) /\ conn'[c] = conn[c]  BY <1>9, <2>2
    <3> QED BY <1>3, <1>5, <1>6, <1>8, <3>1 DEF ClientSound
  <2> QED BY <2>1, <2>2
<1>12. ClientSound(rows, follows'[c], conn'[c], cursor'[c], wire'[c], got'[c])
  BY <1>4, <1>9, <1>11 DEF f
<1> QED BY <1>4, <1>9, <1>10, <1>12, OneClient

\* A connection that is gone has left its client what has arrived, and a client
\* that turns to another stream begins anew.
LEMMA ClosedStep ==
  ASSUME StreamsIInv, NEW c \in Clients, NEW f \in Runs \cup {"thread", "nothing"},
         NEW g, (g = got[c] /\ f = follows[c]) \/ g = <<>>,
         follows' = [follows EXCEPT ![c] = f], got' = [got EXCEPT ![c] = g],
         conn' = [conn EXCEPT ![c] = "closed"], wire' = [wire EXCEPT ![c] = <<>>],
         UNCHANGED <<logVars, backend, version, cursor, woken>>, drops' \in 0..MaxDrops
  PROVE  StreamsIInv'
<1>1. StreamsTypeOK /\ LogTypeOK' /\ LogSorted(rows)
  BY DEF StreamsIInv, LogIInv, StreamsTypeOK, LogTypeOK, logVars
<1>2. g \in Seq(Row) /\ Exact(rows, f, SeenOf(f, g), g)
  <2>1. CASE g = got[c] /\ f = follows[c]
    BY <2>1 DEF StreamsIInv, ClientSound
  <2>2. CASE g = <<>>
    <3>1. g \in Seq(Row) /\ Len(g) = 0  BY <2>2
    <3>2. SeenOf(f, g) = 0
      <4>1. {Pos(f, g[i]) : i \in 1..Len(g)} = {}  BY <3>1
      <4> QED BY <4>1 DEF SeenOf, MaxOf
    <3>3. Upto(rows, f, 0) = {}
      <4>1. \A i \in Mine(rows, f) : ~(Pos(f, rows[i]) <= 0)  BY <1>1, PositionsAscend
      <4> QED BY <4>1 DEF Upto
    <3> QED BY <3>1, <3>2, <3>3 DEF Exact
  <2> QED BY <2>1, <2>2
<1>3. "closed" \in Connection /\ <<>> \in Seq(Row)
  BY DEF Connection
<1>4. /\ follows' \in [Clients -> Runs \cup {"thread", "nothing"}] /\ got' \in [Clients -> Seq(Row)]
      /\ conn' \in [Clients -> Connection] /\ wire' \in [Clients -> Seq(Row)]
      /\ follows'[c] = f /\ got'[c] = g /\ conn'[c] = "closed" /\ wire'[c] = <<>>
      /\ \A d \in Clients \ {c} : /\ follows'[d] = follows[d] /\ got'[d] = got[d]
                                  /\ conn'[d] = conn[d] /\ wire'[d] = wire[d]
  BY <1>1, <1>2, <1>3 DEF StreamsTypeOK
<1>5. StreamsTypeOK'
  BY <1>1, <1>4 DEF StreamsTypeOK
<1>6. ClientSound(rows, f, "closed", cursor'[c], <<>>, g)
  BY <1>2, <1>3 DEF ClientSound
<1> QED BY <1>4, <1>5, <1>6, OneClient

LEMMA ClientSteps ==
  ASSUME StreamsIInv, NEW c \in Clients, ServerStep(c) \/ ClientStep(c) \/ Drop(c)
  PROVE  StreamsIInv'
<1>1. StreamsTypeOK
  BY DEF StreamsIInv
<1>3. [follows EXCEPT ![c] = follows[c]] = follows /\ [got EXCEPT ![c] = got[c]] = got
      /\ follows[c] \in Runs \cup {"thread", "nothing"}
  BY <1>1 DEF StreamsTypeOK
<1>4. CASE SendEvents(c)  BY <1>4, SendEventsStep
<1>5. CASE CheckStatus(c)
  <2>1. PICK at \in {"wait", "returned"} : conn' = [conn EXCEPT ![c] = at]  BY <1>5 DEF CheckStatus
  <2>2. at \in Connection \ {"closed"}  BY DEF Connection
  <2>3. woken' \subseteq Clients  BY <1>1, <1>5 DEF StreamsTypeOK, CheckStatus
  <2> QED BY <1>5, <2>1, <2>2, <2>3, ConnMoves DEF CheckStatus
<1>6. CASE BeginWait(c)
  <2>1. PICK at \in {"sleeping", "list", "subscribing"} : conn' = [conn EXCEPT ![c] = at]
    BY <1>6 DEF BeginWait
  <2>2. at \in Connection \ {"closed"}  BY DEF Connection
  <2>3. woken' \subseteq Clients  BY <1>1, <1>6 DEF StreamsTypeOK, BeginWait
  <2> QED BY <1>6, <2>1, <2>2, <2>3, ConnMoves DEF BeginWait
<1>7. CASE Subscribe(c)
  <2>1. PICK at \in {"sleeping", "list"} : conn' = [conn EXCEPT ![c] = at]  BY <1>7 DEF Subscribe
  <2>2. at \in Connection \ {"closed"}  BY DEF Connection
  <2>3. woken' \subseteq Clients  BY <1>1, <1>7 DEF StreamsTypeOK, Subscribe
  <2> QED BY <1>7, <2>1, <2>2, <2>3, ConnMoves DEF Subscribe
<1>8. CASE EndWait(c)
  <2>1. "list" \in Connection \ {"closed"}  BY DEF Connection
  <2>2. woken' \subseteq Clients  BY <1>1, <1>8 DEF StreamsTypeOK, EndWait
  <2> QED BY <1>8, <2>1, <2>2, ConnMoves DEF EndWait
<1>9. CASE Connect(c)  BY <1>9, ConnectStep
<1>10. CASE Receive(c)  BY <1>10, ReceiveStep
<1>11. CASE StreamEnds(c)
  <2>1. /\ conn' = [conn EXCEPT ![c] = "closed"] /\ wire[c] = <<>>
        /\ UNCHANGED <<logVars, backend, version, follows, cursor, wire, got, woken, drops>>
    BY <1>11 DEF StreamEnds
  <2>2. wire' = [wire EXCEPT ![c] = <<>>] /\ drops' \in 0..MaxDrops
    BY <1>1, <2>1 DEF StreamsTypeOK
  <2>3. follows' = [follows EXCEPT ![c] = follows[c]] /\ got' = [got EXCEPT ![c] = got[c]]
    BY <1>3, <2>1
  <2> QED BY <1>3, <2>1, <2>2, <2>3, ClosedStep
<1>12. CASE Drop(c)
  <2>1. /\ conn' = [conn EXCEPT ![c] = "closed"] /\ wire' = [wire EXCEPT ![c] = <<>>]
        /\ UNCHANGED <<logVars, backend, version, follows, cursor, got, woken>>
        /\ drops < MaxDrops /\ drops' = drops + 1
    BY <1>12 DEF Drop
  <2>2. drops' \in 0..MaxDrops  BY <1>1, <2>1, StreamBounds DEF StreamsTypeOK
  <2>3. follows' = [follows EXCEPT ![c] = follows[c]] /\ got' = [got EXCEPT ![c] = got[c]]
    BY <1>3, <2>1
  <2> QED BY <1>3, <2>1, <2>2, <2>3, ClosedStep
<1> QED BY <1>4, <1>5, <1>6, <1>7, <1>8, <1>9, <1>10, <1>11, <1>12 DEF ServerStep, ClientStep

LEMMA PublishStep ==
  ASSUME StreamsIInv, NEW r \in Runs, NEW reaches, Publish(r, reaches)
  PROVE  StreamsIInv' /\ version'[r] \in Nat
<1> DEFINE S == {rows[i].sequence : i \in {j \in DOMAIN rows : rows[j].run = r}}
<1>1. StreamsTypeOK /\ LogTypeOK' /\ LogSorted(rows) /\ LogIInv'
  BY DEF StreamsIInv, LogIInv, StreamsTypeOK, LogTypeOK, Publish, logVars
<1>2. MaxOf(S) \in Nat
  <2>1. DOMAIN rows = 1..Len(rows) /\ Len(rows) \in Nat  BY <1>1 DEF LogSorted
  <2>2. \A i \in 1..Len(rows) : rows[i].sequence \in 1..i  BY <1>1 DEF LogSorted
  <2>3. \A i \in 1..Len(rows) : rows[i].sequence \in Nat /\ rows[i].sequence <= Len(rows)
    BY <2>1, <2>2
  <2>4. S \in SUBSET Nat /\ \A x \in S : x <= Len(rows)  BY <2>1, <2>3
  <2> HIDE DEF S
  <2>5. MaxOf(S) \in 0..Len(rows)  BY <2>1, <2>4, MaxOfIs
  <2> QED BY <2>1, <2>5
<1>3. /\ version' = [version EXCEPT ![r] = MaxOf(S)] /\ woken' \subseteq woken \cup Clients
      /\ UNCHANGED <<logVars, backend, follows, conn, cursor, wire, got, drops>>
  BY DEF Publish
<1> HIDE DEF S
<1>4. version' \in [Runs -> Nat] /\ version'[r] = MaxOf(S)
  BY <1>1, <1>2, <1>3 DEF StreamsTypeOK
<1>5. StreamsTypeOK'
  BY <1>1, <1>3, <1>4 DEF StreamsTypeOK
<1>6. \A c \in Clients : ClientSound(rows', follows'[c], conn'[c], cursor'[c], wire'[c], got'[c])
  BY <1>3 DEF StreamsIInv, logVars
<1> QED BY <1>1, <1>2, <1>4, <1>5, <1>6 DEF StreamsIInv

\* Whatever is committed, no client has missed it.
LEMMA LogStepInStreams ==
  ASSUME StreamsIInv, LogNext, UNCHANGED streamVars
  PROVE  StreamsIInv' /\ LogStepIs
<1>1. LogIInv' /\ LogStepIs /\ LogSorted(rows)
  BY LogStep DEF StreamsIInv, LogIInv
<1>2. LogTypeOK'
  BY <1>1 DEF LogIInv
<1>3. StreamsTypeOK'
  BY <1>2 DEF StreamsIInv, StreamsTypeOK, streamVars
<1>4. ASSUME NEW c \in Clients
      PROVE  ClientSound(rows', follows[c], conn[c], cursor[c], wire[c], got[c])
  <2> DEFINE f == follows[c]
             g == got[c]
             n == cursor[c]
  <2>1. ClientSound(rows, f, conn[c], n, wire[c], g)  BY DEF StreamsIInv
  <2> HIDE DEF f, g, n
  <2>2. CASE rows' = rows  BY <2>1, <2>2 DEF f, g, n
  <2>3. CASE \E e : IsNext(rows, e) /\ rows' = Append(rows, e)
    <3>1. PICK e : IsNext(rows, e) /\ rows' = Append(rows, e)  BY <2>3
    <3>2. g \in Seq(Row) /\ Exact(rows, f, SeenOf(f, g), g)  BY <2>1 DEF ClientSound
    <3>3. IsPosition(rows, f, SeenOf(f, g))  BY <1>1, <3>2, SeenIsPosition
    <3>4. Upto(rows', f, SeenOf(f, g)) = Upto(rows, f, SeenOf(f, g))
      BY <1>1, <3>1, <3>3, CommitAddsAbove
    <3>5. Exact(rows', f, SeenOf(f, g), g)  BY <3>2, <3>4 DEF Exact
    <3>6. ASSUME conn[c] # "closed"
          PROVE  Exact(rows', f, n, g \o wire[c]) /\ IsPosition(rows', f, n)
      <4>1. Exact(rows, f, n, g \o wire[c]) /\ IsPosition(rows, f, n)
        BY <2>1, <3>6 DEF ClientSound
      <4>2. Upto(rows', f, n) = Upto(rows, f, n) /\ IsPosition(rows', f, n)
        BY <1>1, <3>1, <4>1, CommitAddsAbove
      <4> QED BY <4>1, <4>2 DEF Exact
    <3>7. ClientSound(rows', f, conn[c], n, wire[c], g)
      BY <2>1, <3>5, <3>6 DEF ClientSound
    <3> QED BY <3>7 DEF f, g, n
  <2> QED BY <1>1, <2>2, <2>3 DEF LogStepIs
<1>5. \A c \in Clients : ClientSound(rows', follows'[c], conn'[c], cursor'[c], wire'[c], got'[c])
  BY <1>4 DEF streamVars
<1> QED BY <1>1, <1>3, <1>5 DEF StreamsIInv

LEMMA StreamsStart ==
  ASSUME StreamsInit
  PROVE  StreamsIInv
<1>1. LogIInv
  BY LogStarts DEF StreamsInit
<1>2. /\ backend \in Backends /\ version = [r \in Runs |-> 0] /\ follows \in [Clients -> Following]
      /\ conn = [c \in Clients |-> "closed"] /\ cursor = [c \in Clients |-> 0]
      /\ wire = [c \in Clients |-> <<>>] /\ got = [c \in Clients |-> <<>>]
      /\ woken = {} /\ drops = 0
  BY DEF StreamsInit
<1>3. LogTypeOK /\ LogSorted(rows)  BY <1>1 DEF LogIInv
<1>4. <<>> \in Seq(Row) /\ Len(<<>>) = 0  OBVIOUS
<1>5. follows \in [Clients -> Runs \cup {"thread", "nothing"}]
  BY <1>2, StreamBounds
<1>6. StreamsTypeOK
  BY <1>2, <1>3, <1>4, <1>5, StreamBounds DEF StreamsTypeOK, Connection
<1>7. ASSUME NEW f PROVE ClientSound(rows, f, "closed", 0, <<>>, <<>>)
  <2>1. SeenOf(f, <<>>) = 0
    <3>1. \A i, j \in 1..0 : i < j => Pos(f, <<>>[i]) < Pos(f, <<>>[j])  OBVIOUS
    <3> QED BY <1>4, <3>1, SeenIsLast
  <2>2. Upto(rows, f, 0) = {}
    <3>1. \A i \in Mine(rows, f) : ~(Pos(f, rows[i]) <= 0)  BY <1>3, PositionsAscend
    <3> QED BY <3>1 DEF Upto
  <2>3. Exact(rows, f, 0, <<>>)  BY <1>4, <2>2 DEF Exact
  <2> QED BY <1>4, <2>1, <2>3 DEF ClientSound
<1>8. ASSUME NEW c \in Clients
      PROVE  ClientSound(rows, follows[c], conn[c], cursor[c], wire[c], got[c])
  BY <1>2, <1>7
<1> QED BY <1>1, <1>6, <1>8 DEF StreamsIInv

\* A stream that sleeps unwoken has sent everything the notifier knows of: only
\* a publication adds to that, and with Redis it wakes those who sleep.
LEMMA WakeupsAreKept ==
  ASSUME StreamsIInv, NoLostWakeup, StreamsNext \/ UNCHANGED allVars, StreamsIInv'
  PROVE  NoLostWakeup'
<1> SUFFICES ASSUME NEW d \in Clients, backend' = "redis", conn'[d] = "sleeping",
                    d \notin woken', follows'[d] # "thread"
             PROVE  version'[follows'[d]] <= cursor'[d]
  BY DEF NoLostWakeup, Polls
<1>1. /\ conn \in [Clients -> Connection] /\ version \in [Runs -> Nat]
      /\ follows \in [Clients -> Runs \cup {"thread", "nothing"}]
      /\ cursor \in [Clients -> Nat] /\ wire \in [Clients -> Seq(Row)]
  BY DEF StreamsIInv, StreamsTypeOK
<1>2. ASSUME backend = "redis", conn[d] = "sleeping", d \notin woken, follows[d] # "thread"
      PROVE  version[follows[d]] <= cursor[d]
  BY <1>2 DEF NoLostWakeup, Polls
<1>3. CASE UNCHANGED streamVars
  BY <1>2, <1>3 DEF streamVars
<1>4. ASSUME NEW c \in Clients, ServerStep(c) PROVE version'[follows'[d]] <= cursor'[d]
  <2>1. CASE c # d
    <3>1. /\ backend' = backend /\ version' = version /\ follows' = follows
          /\ woken' = woken \ {c} \/ woken' = woken
      BY <1>4 DEF ServerStep, SendEvents, CheckStatus, BeginWait, Subscribe, EndWait
    <3>2. conn'[d] = conn[d] /\ cursor'[d] = cursor[d]
      BY <1>1, <1>4, <2>1 DEF ServerStep, SendEvents, CheckStatus, BeginWait, Subscribe, EndWait
    <3> QED BY <1>2, <2>1, <3>1, <3>2
  <2>2. CASE c = d
    <3>1. CASE BeginWait(d)
      BY <1>1, <3>1 DEF BeginWait, Polls
    <3>2. CASE Subscribe(d)
      <4>1. ~(version[follows[d]] > cursor[d]) /\ UNCHANGED <<version, follows, cursor>>
        BY <1>1, <3>2 DEF Subscribe
      <4>2. conn[d] = "subscribing" /\ follows[d] # "nothing"
        BY <3>2 DEF Subscribe, StreamsIInv, ClientSound
      <4>3. version[follows[d]] \in Nat /\ cursor[d] \in Nat
        BY <1>1, <4>1, <4>2
      <4> QED BY <4>1, <4>3
    <3>3. ~SendEvents(d) /\ ~CheckStatus(d) /\ ~EndWait(d)
      BY <1>1 DEF SendEvents, CheckStatus, EndWait
    <3> QED BY <1>4, <2>2, <3>1, <3>2, <3>3 DEF ServerStep
  <2> QED BY <2>1, <2>2
<1>5. ASSUME NEW c \in Clients, ClientStep(c) \/ Drop(c)
      PROVE  version'[follows'[d]] <= cursor'[d]
  <2>1. /\ backend' = backend /\ version' = version /\ follows' = follows /\ woken' = woken
    BY <1>5 DEF ClientStep, Connect, Receive, StreamEnds, Drop
  <2>2. conn'[d] = conn[d] /\ cursor'[d] = cursor[d]
    BY <1>1, <1>5 DEF ClientStep, Connect, Receive, StreamEnds, Drop
  <2> QED BY <1>2, <2>1, <2>2
<1>6. ASSUME NEW r \in Runs, NEW reaches \in BOOLEAN, Publish(r, reaches)
      PROVE  version'[follows'[d]] <= cursor'[d]
  <2>1. UNCHANGED <<backend, follows, conn, cursor>>
    BY <1>6 DEF Publish
  <2>2. woken' = woken \cup {c \in Clients : follows[c] = r /\ conn[c] = "sleeping"}
    BY <1>6, <2>1 DEF Publish
  <2>3. follows[d] # r /\ d \notin woken
    BY <2>1, <2>2
  <2>4. follows[d] \in Runs
    <3>1. conn[d] # "closed"  BY <2>1
    <3>2. follows[d] # "nothing"  BY <3>1 DEF StreamsIInv, ClientSound
    <3> QED BY <1>1, <2>1, <3>2
  <2>5. version'[follows[d]] = version[follows[d]]
    BY <1>1, <1>6, <2>3, <2>4 DEF Publish
  <2> QED BY <1>2, <2>1, <2>3, <2>5
<1> QED BY <1>3, <1>4, <1>5, <1>6 DEF StreamsNext, allVars

\* What a client holds are rows.
LEMMA HeldAreRows ==
  ASSUME NEW rs, LogSorted(rs), NEW f, NEW n, NEW g \in Seq(Row), Exact(rs, f, n, g), NEW i \in 1..Len(g)
  PROVE  \E j \in 1..Len(rs) : g[i] = rs[j] /\ f \in {"thread", rs[j].run}
<1>1. g[i] \in Upto(rs, f, n)  BY DEF Exact
<1> QED BY <1>1 DEF Upto, Mine

\* A client has received, once each and in the order of their numbers, exactly the
\* events of its stream up to its cursor, whatever connection broke and however the
\* transactions of two runs interleaved; the end it was told of is the run's; and
\* with Redis no publication is slept through (stream_run_events,
\* stream_thread_events, notifier.wait and append_event's locks).
THEOREM StreamsAreExact == StreamsSpec => []StreamsInv
<1>1. StreamsInit => StreamsIInv /\ NoLostWakeup
  <2>1. StreamsInit => StreamsIInv  BY StreamsStart
  <2>2. StreamsInit => NoLostWakeup  BY DEF StreamsInit, NoLostWakeup
  <2> QED BY <2>1, <2>2
<1>2. StreamsIInv /\ NoLostWakeup /\ [StreamsNext]_allVars => StreamsIInv' /\ NoLostWakeup'
  <2> SUFFICES ASSUME StreamsIInv, NoLostWakeup, [StreamsNext]_allVars
               PROVE  StreamsIInv' /\ NoLostWakeup'
    OBVIOUS
  <2>1. StreamsIInv'
    <3>1. CASE LogNext /\ UNCHANGED streamVars  BY <3>1, LogStepInStreams
    <3>2. CASE \E c \in Clients : ServerStep(c) \/ ClientStep(c) \/ Drop(c)
      BY <3>2, ClientSteps
    <3>3. CASE \E r \in Runs, reaches \in BOOLEAN : Publish(r, reaches)
      BY <3>3, PublishStep
    <3>4. CASE UNCHANGED allVars
      BY <3>4 DEF allVars, logVars, streamVars, StreamsIInv, StreamsTypeOK, LogIInv, LogTypeOK
    <3> QED BY <3>1, <3>2, <3>3, <3>4 DEF StreamsNext
  <2> QED BY <2>1, WakeupsAreKept
<1>3. StreamsIInv /\ NoLostWakeup => StreamsInv
  <2> SUFFICES ASSUME StreamsIInv, NoLostWakeup PROVE StreamsInv
    OBVIOUS
  <2>1. ASSUME NEW c \in Clients
        PROVE  /\ \A i, j \in DOMAIN got[c] : i < j => Position(c, got[c][i]) < Position(c, got[c][j])
               /\ {got[c][i] : i \in DOMAIN got[c]} =
                    {rows[i] : i \in {j \in DOMAIN rows : /\ Followed(c, rows[j])
                                                          /\ Position(c, rows[j]) <= Seen(c)}}
               /\ \A i \in DOMAIN got[c] :
                    got[c][i].type \in TerminalType => status[got[c][i].run] = got[c][i].type
    <3> DEFINE f == follows[c]
               g == got[c]
               n == SeenOf(f, g)
    <3>1. g \in Seq(Row) /\ Exact(rows, f, n, g) /\ LogSorted(rows)
      BY DEF StreamsIInv, ClientSound, LogIInv
    <3>2. DOMAIN got[c] = 1..Len(g) /\ DOMAIN rows = 1..Len(rows)
      BY <3>1 DEF LogSorted
    <3>3. \A e : Position(c, e) = Pos(f, e)
      BY DEF Position, Pos
    <3>4. Seen(c) = n
      <4>1. {Position(c, got[c][i]) : i \in DOMAIN got[c]} = {Pos(f, g[i]) : i \in 1..Len(g)}
        BY <3>2, <3>3
      <4> QED BY <4>1 DEF Seen, SeenOf
    <3>5. \A i, j \in DOMAIN got[c] : i < j => Position(c, got[c][i]) < Position(c, got[c][j])
      BY <3>1, <3>2, <3>3 DEF Exact
    <3>6. {j \in DOMAIN rows : Followed(c, rows[j]) /\ Position(c, rows[j]) <= Seen(c)}
            = {j \in Mine(rows, f) : Pos(f, rows[j]) <= n}
      BY <3>2, <3>3, <3>4 DEF Mine, Followed
    <3>7. {got[c][i] : i \in DOMAIN got[c]} = Upto(rows, f, n)
      BY <3>1, <3>2 DEF Exact
    <3>8. ASSUME NEW i \in DOMAIN got[c], got[c][i].type \in TerminalType
          PROVE  status[got[c][i].run] = got[c][i].type
      <4>1. PICK j \in 1..Len(rows) : got[c][i] = rows[j]
        BY <3>1, <3>2, HeldAreRows
      <4> QED BY <3>8, <4>1 DEF StreamsIInv, LogIInv
    <3> QED BY <3>5, <3>6, <3>7, <3>8 DEF Upto
  <2>2. StreamIsExact  BY <2>1 DEF StreamIsExact
  <2>3. ToldTheOutcome  BY <2>1 DEF ToldTheOutcome
  <2> QED BY <2>2, <2>3 DEF StreamsInv, StreamsIInv
<1> QED BY <1>1, <1>2, <1>3, PTL DEF StreamsSpec

-----------------------------------------------------------------------------
(* Voice.  A task that is busy is that of the last question, which nobody  *)
(* has dropped; when it speaks an answer it has seen the run complete, and *)
(* the reply of a run that is over is not written again.                   *)

VoiceIInv ==
  /\ StreamsIInv /\ VoiceTypeOK
  /\ dropped \subseteq 1..asked
  /\ Busy => asked # 0 /\ asked \notin dropped
  /\ task = "following" => follows[V] = Current
  /\ task = "fetching" => status[Current] = "run.completed"
  /\ OnlyCompletedSpoken

LEMMA StreamsStutters ==
  ASSUME StreamsIInv, UNCHANGED allVars
  PROVE  StreamsIInv'
BY DEF allVars, logVars, streamVars, StreamsIInv, StreamsTypeOK, LogIInv, LogTypeOK

LEMMA StopStep ==
  ASSUME StreamsIInv, NEW f \in Runs \cup {"nothing"}, StopListening(f)
  PROVE  StreamsIInv' /\ UNCHANGED logVars /\ follows'[V] = f
<1>1. V \in Clients /\ StreamsTypeOK  BY WorkerListens DEF StreamsIInv
<1>2. drops' \in 0..MaxDrops /\ f \in Runs \cup {"thread", "nothing"}
  BY <1>1 DEF StreamsTypeOK, StopListening
<1>3. follows'[V] = f /\ UNCHANGED logVars
  BY <1>1 DEF StreamsTypeOK, StopListening
<1>4. StreamsIInv'
  BY <1>1, <1>2, ClosedStep DEF StopListening
<1> QED BY <1>3, <1>4

LEMMA CurrentIsRun ==
  ASSUME VoiceIInv, asked # 0
  PROVE  asked \in 1..Len(Questions) /\ DOMAIN Questions = 1..Len(Questions) /\ Current \in Runs
BY QuestionsAssumption DEF VoiceIInv, VoiceTypeOK, Current

\* A new question, or "never mind".
LEMMA DropSteps ==
  ASSUME VoiceIInv, submit \/ cancel
  PROVE  VoiceIInv' /\ spoken' = spoken
<1>1. StreamsIInv /\ VoiceTypeOK  BY DEF VoiceIInv
<1>2. StopListening("nothing") /\ CancelTask /\ UNCHANGED <<posts, accepted, reply, spoken>>
  BY DEF submit, cancel
<1>3. StreamsIInv' /\ UNCHANGED logVars
  BY <1>1, <1>2, StopStep
<1>4. Len(Questions) \in Nat /\ DOMAIN Questions = 1..Len(Questions)
  BY QuestionsAssumption
<1>5. dropped' \subseteq 1..asked
  <2>1. asked # 0 => asked \in 1..asked  BY <1>1, <1>4 DEF VoiceTypeOK
  <2> QED BY <1>2, <2>1 DEF CancelTask, VoiceIInv
<1>6. /\ cancels' \subseteq Runs /\ run_id' = "none"
  BY <1>1, <1>2 DEF CancelTask, VoiceTypeOK
<1>7. /\ asked' \in 0..Len(Questions) /\ 1..asked \subseteq 1..asked' /\ task' \in {"starting", "done"}
      /\ task' = "starting" => asked' # 0 /\ asked' \notin 1..asked
  BY <1>1, <1>4 DEF submit, cancel, VoiceTypeOK
<1>8. VoiceTypeOK'
  <2>1. dropped' \subseteq DOMAIN Questions  BY <1>4, <1>5, <1>1 DEF VoiceTypeOK
  <2>2. StreamsTypeOK'  BY <1>3 DEF StreamsIInv
  <2> QED BY <1>1, <1>2, <1>6, <1>7, <2>1, <2>2 DEF VoiceTypeOK, Task
<1>9. OnlyCompletedSpoken'
  BY <1>2, <1>3 DEF OnlyCompletedSpoken, VoiceIInv, logVars
<1>10. dropped' \subseteq 1..asked' /\ (Busy' => asked' # 0 /\ asked' \notin dropped')
  BY <1>5, <1>7 DEF Busy
<1> QED BY <1>2, <1>3, <1>7, <1>8, <1>9, <1>10 DEF VoiceIInv

\* The question is sent, and its run is followed.
LEMMA PostSteps ==
  ASSUME VoiceIInv, Post \/ PostReturns
  PROVE  VoiceIInv' /\ spoken' = spoken
<1>1. StreamsIInv /\ VoiceTypeOK /\ asked # 0
  BY DEF VoiceIInv, Busy, Post, PostReturns
<1>2. Current \in Runs  BY <1>1, CurrentIsRun
<1>3. UNCHANGED <<asked, accepted, cancels, dropped, reply, spoken>>
  BY DEF Post, PostReturns
<1>4. Current' = Current  BY <1>3 DEF Current
<1>5. StreamsIInv' /\ UNCHANGED logVars /\ (task' = "following" => follows'[V] = Current)
  <2>1. CASE Post  BY <1>1, <2>1, StreamsStutters DEF Post, allVars
  <2>2. CASE PostReturns  BY <1>1, <1>2, <2>2, StopStep DEF PostReturns
  <2> QED BY <2>1, <2>2
<1>6. VoiceTypeOK'
  <2>1. StreamsTypeOK'  BY <1>5 DEF StreamsIInv
  <2> QED BY <1>1, <1>2, <1>3, <2>1 DEF VoiceTypeOK, Task, Post, PostReturns
<1>7. Busy /\ task' \in {"posting", "following"}
  BY DEF Post, PostReturns, Busy
<1>8. OnlyCompletedSpoken'
  BY <1>3, <1>5 DEF OnlyCompletedSpoken, VoiceIInv, logVars
<1> QED BY <1>3, <1>4, <1>5, <1>6, <1>7, <1>8 DEF VoiceIInv, Busy

\* What is said is said of the last question, by its task.
LEMMA EndTurnStep ==
  ASSUME VoiceIInv, NEW line \in Line, Busy, EndTurn(line), StreamsIInv', UNCHANGED logVars,
         line = "answer" => status[Current] = "run.completed" /\ reply[Current] = "answer"
  PROVE  VoiceIInv' /\ \A q \in dropped : spoken'[q] = spoken[q]
<1>1. VoiceTypeOK /\ asked # 0 /\ asked \notin dropped
  BY DEF VoiceIInv
<1>2. asked \in 1..Len(Questions) /\ DOMAIN Questions = 1..Len(Questions)
  BY <1>1, CurrentIsRun
<1>3. /\ spoken' = [spoken EXCEPT ![asked] = line] /\ task' = "done" /\ run_id' = "none"
      /\ UNCHANGED <<asked, posts, accepted, cancels, dropped, reply>>
  BY DEF EndTurn, Say
<1>4. /\ spoken' \in [DOMAIN Questions -> Line] /\ spoken'[asked] = line
      /\ \A q \in DOMAIN Questions \ {asked} : spoken'[q] = spoken[q]
  BY <1>1, <1>2, <1>3 DEF VoiceTypeOK
<1>5. VoiceTypeOK'
  <2>1. StreamsTypeOK'  BY DEF StreamsIInv
  <2> QED BY <1>1, <1>3, <1>4, <2>1 DEF VoiceTypeOK, Task
<1>6. OnlyCompletedSpoken'
  <2> SUFFICES ASSUME NEW q \in DOMAIN Questions, spoken'[q] = "answer"
               PROVE  status[Questions[q]] = "run.completed" /\ reply[Questions[q]] = "answer"
    BY <1>3 DEF OnlyCompletedSpoken, logVars
  <2>1. CASE q = asked  BY <1>4, <2>1 DEF Current
  <2>2. CASE q # asked
    <3>1. spoken[q] = "answer"  BY <1>4, <2>2
    <3> QED BY <3>1 DEF VoiceIInv, OnlyCompletedSpoken
  <2> QED BY <2>1, <2>2
<1>7. \A q \in dropped : spoken'[q] = spoken[q]
  BY <1>1, <1>4 DEF VoiceTypeOK
<1>8. ~Busy' /\ task' \notin {"following", "fetching"} /\ dropped' \subseteq 1..asked'
  BY <1>3 DEF Busy, VoiceIInv
<1> QED BY <1>5, <1>6, <1>7, <1>8 DEF VoiceIInv

\* The stream of the run ends with the run's own outcome.
LEMMA FollowEndsStep ==
  ASSUME VoiceIInv, FollowEnds
  PROVE  VoiceIInv' /\ \A q \in dropped : spoken'[q] = spoken[q]
<1> DEFINE g == got[V]
<1>1. /\ task = "following" /\ Done(V) /\ UNCHANGED allVars
      /\ \/ /\ Last(g).type = "run.completed" /\ task' = "fetching"
            /\ UNCHANGED <<asked, run_id, posts, accepted, cancels, dropped, reply, spoken>>
         \/ \E line \in {"refusal", "nothing"} : EndTurn(line)
  BY DEF FollowEnds
<1>2. StreamsIInv /\ VoiceTypeOK /\ Busy /\ V \in Clients
  BY <1>1, WorkerListens DEF VoiceIInv, Busy
<1>3. StreamsIInv' /\ UNCHANGED logVars
  BY <1>1, <1>2, StreamsStutters DEF allVars
<1>4. CASE \E line \in {"refusal", "nothing"} : EndTurn(line)
  <2>1. PICK line \in {"refusal", "nothing"} : EndTurn(line)  BY <1>4
  <2>2. line \in Line /\ line # "answer"  BY DEF Line
  <2> QED BY <1>2, <1>3, <2>1, <2>2, EndTurnStep
<1>5. CASE /\ Last(g).type = "run.completed" /\ task' = "fetching"
           /\ UNCHANGED <<asked, run_id, posts, accepted, cancels, dropped, reply, spoken>>
  <2>1. asked # 0 /\ follows[V] = Current
    BY <1>1, <1>2 DEF VoiceIInv
  <2>2. Current \in Runs  BY <2>1, CurrentIsRun
  <2>3. /\ g \in Seq(Row) /\ Exact(rows, Current, SeenOf(Current, g), g) /\ LogSorted(rows)
        /\ \A i \in 1..Len(rows) : rows[i].type \in TerminalType => status[rows[i].run] = rows[i].type
    BY <1>2, <2>1 DEF StreamsIInv, ClientSound, LogIInv
  <2>4. \E i \in DOMAIN g : g[i].type \in TerminalType  BY <1>1 DEF Done
  <2> HIDE DEF g
  <2>5. Len(g) \in 1..Len(g)  BY <2>3, <2>4
  <2>6. PICK j \in 1..Len(rows) : g[Len(g)] = rows[j] /\ Current \in {"thread", rows[j].run}
    BY <2>3, <2>5, HeldAreRows
  <2>7. Current # "thread"
    BY <1>1, <2>1 DEF Done
  <2>8. status[Current] = "run.completed"
    <3>1. rows[j].type = "run.completed" /\ rows[j].run = Current
      BY <1>5, <2>6, <2>7 DEF Last
    <3> QED BY <2>3, <3>1 DEF TerminalType
  <2>9. VoiceTypeOK'
    <3>1. StreamsTypeOK'  BY <1>3 DEF StreamsIInv
    <3> QED BY <1>2, <1>5, <3>1 DEF VoiceTypeOK, Task
  <2>10. Current' = Current /\ status' = status /\ OnlyCompletedSpoken'
    BY <1>3, <1>5 DEF Current, OnlyCompletedSpoken, VoiceIInv, logVars
  <2>11. dropped' \subseteq 1..asked' /\ asked' # 0 /\ asked' \notin dropped'
    BY <1>2, <1>5 DEF VoiceIInv
  <2>12. VoiceIInv'
    BY <1>3, <1>5, <2>8, <2>9, <2>10, <2>11 DEF VoiceIInv
  <2> QED BY <1>5, <2>12
<1> QED BY <1>1, <1>4, <1>5

LEMMA GiveUpAndSpeak ==
  ASSUME VoiceIInv, SpeakAnswer \/ \E line \in {"timeout", "error"} : FollowGivesUp(line)
  PROVE  VoiceIInv' /\ \A q \in dropped : spoken'[q] = spoken[q]
<1>1. StreamsIInv /\ Busy
  BY DEF VoiceIInv, Busy, SpeakAnswer, FollowGivesUp
<1>2. CASE SpeakAnswer
  <2>1. StreamsIInv' /\ UNCHANGED logVars
    BY <1>1, <1>2, StreamsStutters DEF SpeakAnswer, allVars
  <2>2. PICK line \in {"answer", "error"} :
             EndTurn(line) /\ (line = "answer" => reply[Current] = "answer")
    BY <1>2 DEF SpeakAnswer
  <2>3. line \in Line  BY DEF Line
  <2>4. status[Current] = "run.completed"  BY <1>2 DEF SpeakAnswer, VoiceIInv
  <2> QED BY <1>1, <2>1, <2>2, <2>3, <2>4, EndTurnStep
<1>3. CASE \E line \in {"timeout", "error"} : FollowGivesUp(line)
  <2>1. PICK line \in {"timeout", "error"} : EndTurn(line) /\ StopListening("nothing")
    BY <1>3 DEF FollowGivesUp
  <2>2. StreamsIInv' /\ UNCHANGED logVars  BY <1>1, <2>1, StopStep
  <2>3. line \in Line /\ line # "answer"  BY DEF Line
  <2> QED BY <1>1, <2>1, <2>2, <2>3, EndTurnStep
<1> QED BY <1>2, <1>3

LEMMA PostFailsStep ==
  ASSUME VoiceIInv, PostFails
  PROVE  VoiceIInv' /\ \A q \in dropped : spoken'[q] = spoken[q]
<1>1. /\ StreamsIInv /\ VoiceTypeOK /\ task = "posting" /\ Say(asked, "error") /\ task' = "done"
      /\ UNCHANGED <<allVars, asked, run_id, posts, accepted, cancels, dropped, reply>>
  BY DEF VoiceIInv, PostFails
<1>2. StreamsIInv' /\ UNCHANGED logVars /\ StreamsTypeOK'
  BY <1>1, StreamsStutters DEF allVars, StreamsIInv
<1>3. asked # 0 /\ asked \notin dropped
  BY <1>1 DEF VoiceIInv, Busy
<1>4. asked \in 1..Len(Questions) /\ DOMAIN Questions = 1..Len(Questions)
  BY <1>3, CurrentIsRun
<1>5. /\ spoken' \in [DOMAIN Questions -> Line] /\ spoken'[asked] = "error"
      /\ \A q \in DOMAIN Questions \ {asked} : spoken'[q] = spoken[q]
  BY <1>1, <1>4 DEF VoiceTypeOK, Say, Line
<1>6. VoiceTypeOK'
  BY <1>1, <1>2, <1>5 DEF VoiceTypeOK, Task
<1>7. OnlyCompletedSpoken'
  <2> SUFFICES ASSUME NEW q \in DOMAIN Questions, spoken'[q] = "answer"
               PROVE  status[Questions[q]] = "run.completed" /\ reply[Questions[q]] = "answer"
    BY <1>1, <1>2 DEF OnlyCompletedSpoken, logVars
  <2>1. spoken[q] = "answer"  BY <1>5
  <2> QED BY <2>1 DEF VoiceIInv, OnlyCompletedSpoken
<1>8. \A q \in dropped : spoken'[q] = spoken[q]
  BY <1>1, <1>3, <1>5 DEF VoiceTypeOK
<1>9. dropped' \subseteq 1..asked' /\ ~Busy' /\ task' \notin {"following", "fetching"}
  BY <1>1 DEF VoiceIInv, Busy
<1> QED BY <1>2, <1>6, <1>7, <1>8, <1>9 DEF VoiceIInv

\* The API's answer to a question reaches the task only while it waits.
LEMMA ServerSteps ==
  ASSUME VoiceIInv, NEW r \in Runs, ServerAccepts(r) \/ ServerRefuses(r)
  PROVE  VoiceIInv' /\ \A q \in dropped : spoken'[q] = spoken[q]
<1>1. StreamsIInv /\ VoiceTypeOK /\ UNCHANGED allVars
  BY DEF VoiceIInv, ServerAccepts, ServerRefuses
<1>2. StreamsIInv' /\ UNCHANGED logVars /\ StreamsTypeOK' /\ follows' = follows
  BY <1>1, StreamsStutters DEF allVars, streamVars, StreamsIInv
<1>3. /\ posts' \subseteq Runs /\ accepted' \subseteq Runs
      /\ UNCHANGED <<asked, run_id, cancels, dropped, reply>>
  BY <1>1 DEF VoiceTypeOK, ServerAccepts, ServerRefuses
<1>4. CASE UNCHANGED <<task, spoken>>
  <2>1. VoiceTypeOK'
    BY <1>1, <1>2, <1>3, <1>4 DEF VoiceTypeOK
  <2>2. OnlyCompletedSpoken' /\ Current' = Current /\ status' = status
    BY <1>2, <1>3, <1>4 DEF OnlyCompletedSpoken, VoiceIInv, logVars, Current
  <2> QED BY <1>2, <1>3, <1>4, <2>1, <2>2 DEF VoiceIInv, Busy
<1>5. CASE task = "posting" /\ Say(asked, "not sent") /\ task' = "done"
  <2>1. asked # 0 /\ asked \notin dropped
    BY <1>5 DEF VoiceIInv, Busy
  <2>2. asked \in 1..Len(Questions) /\ DOMAIN Questions = 1..Len(Questions)
    BY <2>1, CurrentIsRun
  <2>3. /\ spoken' \in [DOMAIN Questions -> Line] /\ spoken'[asked] = "not sent"
        /\ \A q \in DOMAIN Questions \ {asked} : spoken'[q] = spoken[q]
    BY <1>1, <1>5, <2>2 DEF VoiceTypeOK, Say, Line
  <2>4. VoiceTypeOK'
    BY <1>1, <1>2, <1>3, <1>5, <2>3 DEF VoiceTypeOK, Task
  <2>5. OnlyCompletedSpoken'
    <3> SUFFICES ASSUME NEW q \in DOMAIN Questions, spoken'[q] = "answer"
                 PROVE  status[Questions[q]] = "run.completed" /\ reply[Questions[q]] = "answer"
      BY <1>2, <1>3 DEF OnlyCompletedSpoken, logVars
    <3>1. spoken[q] = "answer"  BY <2>3
    <3> QED BY <3>1 DEF VoiceIInv, OnlyCompletedSpoken
  <2>6. \A q \in dropped : spoken'[q] = spoken[q]
    BY <1>1, <2>1, <2>3 DEF VoiceTypeOK
  <2>7. dropped' \subseteq 1..asked' /\ ~Busy' /\ task' \notin {"following", "fetching"}
    BY <1>3, <1>5 DEF VoiceIInv, Busy
  <2> QED BY <1>2, <2>4, <2>5, <2>6, <2>7 DEF VoiceIInv
<1> QED BY <1>4, <1>5 DEF ServerAccepts, ServerRefuses

\* Only an executor that ends a run writes the run's reply, and a run that is
\* over is not ended again.
LEMMA EndedWasOpen ==
  ASSUME LogIInv, LogNext, NEW r \in Runs, Ended(r)
  PROVE  status[r] = "open"
<1>1. PICK n \in 1..MaxAttempts[r] : phase[<<r, n>>] # "ended" /\ phase'[<<r, n>>] = "ended"
  BY DEF Ended
<1>2. phase \in [Writers -> {"off", "emitting", "retrying", "ended"}]
  BY DEF LogIInv, LogTypeOK
<1>3. phase' # phase
  BY <1>1
<1>4. MaxAttempts[r] \in Nat \ {0}  BY EventBounds
<1>5. ASSUME NEW q \in Runs, NEW k \in 0..MaxAttempts[q], NEW v,
             phase' = [phase EXCEPT ![<<q, k>>] = v]
      PROVE  v = "ended" /\ q = r /\ k = n
  <2>1. <<q, k>> = <<r, n>>
    <3>1. CASE <<q, k>> # <<r, n>>
      <4>1. <<r, n>> \in Writers  BY <1>4 DEF Writers
      <4>2. phase'[<<r, n>>] = phase[<<r, n>>]  BY <1>2, <1>5, <3>1, <4>1
      <4> QED BY <1>1, <4>2
    <3> QED BY <3>1
  <2>2. <<r, n>> \in Writers  BY <1>4 DEF Writers
  <2> QED BY <1>1, <1>2, <1>5, <2>1, <2>2
<1>6. ASSUME NEW q \in Runs, CancelRun(q) PROVE FALSE
  <2>1. phase' = [phase EXCEPT ![<<q, 0>>] = "ended"]  BY <1>6 DEF CancelRun
  <2>2. MaxAttempts[q] \in Nat \ {0}  BY EventBounds
  <2>3. 0 \in 0..MaxAttempts[q]  BY <2>2
  <2>4. 0 = n  BY <1>5, <2>1, <2>3
  <2> QED BY <1>4, <2>4
<1>7. ASSUME NEW q \in Runs, NEW k \in 1..MaxAttempts[q],
             \/ StartAttempt(q, k) \/ EmitRetrying(q, k)
             \/ \E kind \in Kinds : Emit(q, k, kind)
             \/ \E type \in Results : Finalize(q, k, type)
      PROVE  status[r] = "open"
  <2>1. MaxAttempts[q] \in Nat \ {0}  BY EventBounds
  <2>2. k \in 0..MaxAttempts[q]  BY <2>1
  <2>3. CASE StartAttempt(q, k)
    <3>1. phase' = [phase EXCEPT ![<<q, k>>] = "emitting"]  BY <2>3 DEF StartAttempt
    <3>2. "emitting" = "ended" /\ q = r /\ k = n  BY <1>5, <2>2, <3>1
    <3> QED BY <3>2
  <2>4. CASE EmitRetrying(q, k)
    <3>1. phase' = [phase EXCEPT ![<<q, k>>] = "retrying"]  BY <2>4 DEF EmitRetrying
    <3>2. "retrying" = "ended" /\ q = r /\ k = n  BY <1>5, <2>2, <3>1
    <3> QED BY <3>2
  <2>5. CASE \E kind \in Kinds : Emit(q, k, kind)  BY <1>3, <2>5 DEF Emit
  <2>6. CASE \E type \in Results : Finalize(q, k, type)
    <3>1. phase' = [phase EXCEPT ![<<q, k>>] = "ended"] /\ status[q] = "open"
      BY <2>6 DEF Finalize
    <3> QED BY <1>5, <2>2, <3>1
  <2> QED BY <1>7, <2>3, <2>4, <2>5, <2>6
<1>8. ASSUME NEW w \in Writers, Commit(w) PROVE FALSE
  BY <1>3, <1>8 DEF Commit
<1> QED BY <1>6, <1>7, <1>8 DEF LogNext

LEMMA ExecutorStep ==
  ASSUME VoiceIInv, Executor
  PROVE  VoiceIInv' /\ spoken' = spoken
<1>1. /\ StreamsIInv /\ VoiceTypeOK /\ LogIInv /\ LogNext
      /\ UNCHANGED <<streamVars, asked, task, run_id, posts, accepted, cancels, dropped, spoken>>
  BY DEF VoiceIInv, StreamsIInv, Executor
<1>2. StreamsIInv' /\ LogStepIs
  BY <1>1, LogStepInStreams
<1>3. follows' = follows /\ Current' = Current
  BY <1>1 DEF streamVars, Current
<1>4. reply' \in [Runs -> {"pending", "answer", "warning"}]
      /\ \A r \in Runs : ~Ended(r) => reply'[r] = reply[r]
  <2>1. reply \in [Runs -> {"pending", "answer", "warning"}]  BY <1>1 DEF VoiceTypeOK
  <2>2. PICK has_response \in BOOLEAN : reply' =
             [r \in Runs |-> IF ~Ended(r) THEN reply[r]
                             ELSE IF has_response /\ Completed(r) THEN "answer" ELSE "warning"]
    BY DEF Executor
  <2> QED BY <2>1, <2>2
<1>5. \A r \in Runs : status[r] # "open" => status'[r] = status[r] /\ reply'[r] = reply[r]
  BY <1>1, <1>2, <1>4, EndedWasOpen DEF LogStepIs
<1>6. OnlyCompletedSpoken'
  <2> SUFFICES ASSUME NEW q \in DOMAIN Questions, spoken[q] = "answer"
               PROVE  status'[Questions[q]] = "run.completed" /\ reply'[Questions[q]] = "answer"
    BY <1>1 DEF OnlyCompletedSpoken
  <2>1. Questions[q] \in Runs  BY QuestionsAssumption
  <2>2. status[Questions[q]] = "run.completed" /\ reply[Questions[q]] = "answer"
    BY DEF OnlyCompletedSpoken, VoiceIInv
  <2> QED BY <1>5, <2>1, <2>2
<1>7. task = "fetching" => status'[Current] = "run.completed"
  <2> SUFFICES ASSUME task = "fetching" PROVE status'[Current] = "run.completed"
    OBVIOUS
  <2>1. asked # 0 /\ status[Current] = "run.completed"  BY DEF VoiceIInv, Busy
  <2>2. Current \in Runs  BY <2>1, CurrentIsRun
  <2> QED BY <1>5, <2>1, <2>2
<1>8. VoiceTypeOK'
  <2>1. StreamsTypeOK'  BY <1>2 DEF StreamsIInv
  <2> QED BY <1>1, <1>4, <2>1 DEF VoiceTypeOK
<1> QED BY <1>1, <1>2, <1>3, <1>6, <1>7, <1>8 DEF VoiceIInv, Busy

LEMMA StreamStepInVoice ==
  ASSUME VoiceIInv, StreamStep
  PROVE  VoiceIInv' /\ spoken' = spoken
<1>1. V \in Clients /\ StreamsIInv /\ VoiceTypeOK /\ UNCHANGED voiceVars
      /\ (ServerStep(V) \/ ClientStep(V) \/ Drop(V))
  BY WorkerListens DEF VoiceIInv, StreamStep
<1>2. StreamsIInv' /\ StreamsTypeOK'
  BY <1>1, ClientSteps DEF StreamsIInv
<1>3. status' = status /\ follows' = follows
  BY <1>1 DEF ServerStep, ClientStep, SendEvents, CheckStatus, BeginWait, Subscribe, EndWait,
              Connect, Receive, StreamEnds, Drop, logVars
<1>4. VoiceTypeOK'
  BY <1>1, <1>2 DEF VoiceTypeOK, voiceVars
<1>5. OnlyCompletedSpoken' /\ Current' = Current
  BY <1>1, <1>3 DEF OnlyCompletedSpoken, VoiceIInv, voiceVars, Current
<1> QED BY <1>1, <1>2, <1>3, <1>4, <1>5 DEF VoiceIInv, voiceVars, Busy

LEMMA VoiceSteps ==
  ASSUME VoiceIInv, VoiceNext
  PROVE  VoiceIInv' /\ \A q \in dropped : spoken'[q] = spoken[q]
<1>1. CASE submit \/ cancel  BY <1>1, DropSteps
<1>2. CASE Post \/ PostReturns  BY <1>2, PostSteps
<1>3. CASE FollowEnds  BY <1>3, FollowEndsStep
<1>4. CASE SpeakAnswer \/ \E line \in {"timeout", "error"} : FollowGivesUp(line)
  BY <1>4, GiveUpAndSpeak
<1>5. CASE \E r \in Runs : ServerAccepts(r) \/ ServerRefuses(r)  BY <1>5, ServerSteps
<1>6. CASE Executor  BY <1>6, ExecutorStep
<1>7. CASE StreamStep  BY <1>7, StreamStepInVoice
<1>8. CASE PostFails  BY <1>8, PostFailsStep
<1> QED BY <1>1, <1>2, <1>3, <1>4, <1>5, <1>6, <1>7, <1>8 DEF VoiceNext, TaskStep

LEMMA VoiceInductive ==
  /\ VoiceInit => VoiceIInv
  /\ VoiceIInv /\ [VoiceNext]_vars => VoiceIInv'
<1>1. ASSUME VoiceInit PROVE VoiceIInv
  <2>1. StreamsIInv  BY <1>1, StreamsStart DEF VoiceInit
  <2>2. Len(Questions) \in Nat /\ DOMAIN Questions = 1..Len(Questions)
    BY QuestionsAssumption
  <2>3. VoiceTypeOK
    BY <1>1, <2>1, <2>2 DEF VoiceInit, VoiceTypeOK, StreamsIInv, Task, Line
  <2>4. OnlyCompletedSpoken
    BY <1>1 DEF VoiceInit, OnlyCompletedSpoken
  <2> QED BY <1>1, <2>1, <2>3, <2>4 DEF VoiceInit, VoiceIInv, Busy
<1>2. ASSUME VoiceIInv, UNCHANGED vars PROVE VoiceIInv'
  <2>1. UNCHANGED allVars /\ UNCHANGED voiceVars  BY <1>2 DEF vars
  <2>2. StreamsIInv' /\ StreamsTypeOK'  BY <1>2, <2>1, StreamsStutters DEF VoiceIInv, StreamsIInv
  <2>3. status' = status /\ follows' = follows  BY <2>1 DEF allVars, logVars, streamVars
  <2>4. VoiceTypeOK'  BY <1>2, <2>1, <2>2 DEF VoiceIInv, VoiceTypeOK, voiceVars
  <2>5. OnlyCompletedSpoken' /\ Current' = Current
    BY <1>2, <2>1, <2>3 DEF OnlyCompletedSpoken, VoiceIInv, voiceVars, Current
  <2> QED BY <1>2, <2>1, <2>2, <2>3, <2>4, <2>5 DEF VoiceIInv, voiceVars, Busy
<1> QED BY <1>1, <1>2, VoiceSteps

\* "Nothing from a non-completed run is ever read aloud": what the worker speaks as
\* an answer is the reply of a run that has completed with one (VoiceTurnRunner's
\* _follow and _speak_answer, _execute_submission).
THEOREM AnswersAreOfCompletedRuns == VoiceSpec => []VoiceInv
<1>1. VoiceInit => VoiceIInv  BY VoiceInductive
<1>2. VoiceIInv /\ [VoiceNext]_vars => VoiceIInv'  BY VoiceInductive
<1>3. VoiceIInv => VoiceInv  BY DEF VoiceIInv, VoiceInv
<1> QED BY <1>1, <1>2, <1>3, PTL DEF VoiceSpec

\* A question that a later one or "never mind" has ended is never spoken of again:
\* only the task of the last question speaks, and it is over when its question is
\* dropped (VoiceTurnRunner.submit and cancel).
THEOREM DroppedIsSilent == VoiceSpec => DroppedStaysSilent
<1>1. VoiceInit => VoiceIInv  BY VoiceInductive
<1>2. VoiceIInv /\ [VoiceNext]_vars => VoiceIInv'  BY VoiceInductive
<1>3. VoiceIInv /\ [VoiceNext]_vars => [\A q \in dropped : spoken'[q] = spoken[q]]_vars
  BY VoiceSteps
<1> QED BY <1>1, <1>2, <1>3, PTL DEF VoiceSpec, DroppedStaysSilent
=============================================================================
