------------------------------ MODULE Sessions ------------------------------
(***************************************************************************)
(* The MCP transport of protocols/mcp/servers/seleric_remote.py: concurrent*)
(* tool calls share one session of a server that may restart and forget    *)
(* it.  A call opens the session under a lock, is posted up to Attempts    *)
(* times, and after a 404 drops the session, opens a new one and is posted *)
(* once more.  _session_id and the header that carries it always change    *)
(* together, so one variable stands for both.                              *)
(***************************************************************************)
EXTENDS Integers, FiniteSets

CONSTANTS
  Posters,          \* calls of call_tool under way
  Attempts,         \* stop_after_attempt
  MaxServerRestarts \* bound: how often the server forgets its sessions

ASSUME SessionsAssumption ==
  /\ Attempts \in Nat \ {0} /\ MaxServerRestarts \in Nat
  /\ "none" \notin Posters

VARIABLES
  session,   \* _session_id, 0 for None
  init_lock, \* who holds _init_lock
  issued,    \* the server: how many sessions it has opened,
  known_,    \* those it knows,
  told,      \* those it has been told are initialized,
  restarts,  \* and how often it has restarted
  post       \* [call -> where it is]

sessionVars == <<session, init_lock, issued, known_, told, restarts, post>>
serverVars == <<issued, known_, told, restarts>>

NoPost == [at |-> "idle", session |-> 0, sent |-> 0, tries |-> 0, again |-> FALSE,
           since |-> 0, outcome |-> "none"]

SessionsInit ==
  /\ session \in {0, 1} /\ issued = session
  /\ known_ = 1..session /\ told = known_
  /\ init_lock = "none" /\ restarts = 0
  /\ post = [c \in Posters |-> NoPost]

SessionsTypeOK ==
  /\ session \in 0..issued /\ known_ \subseteq 1..issued
  /\ init_lock \in Posters \cup {"none"}
  /\ \A c \in Posters :
       /\ post[c].at \in {"idle", "locking", "initializing", "opening", "telling",
                          "calling", "sent", "over"}
       /\ post[c].tries \in 0..(Attempts - 1)
       /\ post[c].outcome \in {"none", "ok", "not found", "refused", "unavailable", "failed"}

-----------------------------------------------------------------------------
Step(c, p) == post' = [post EXCEPT ![c] = p]
\* async with: whoever leaves, also by an exception, releases the lock.
Released_Kept(c) == init_lock
Released(c) == IF init_lock = c THEN "none" ELSE init_lock
Over(c, outcome) ==
  /\ Step(c, [NoPost EXCEPT !.at = "over", !.since = post[c].since, !.outcome = outcome])
  /\ init_lock' = Released(c)

\* The body is posted with what is the session now, and after a 404 compared
\* with it.
Calling(p, current) == [p EXCEPT !.at = "calling", !.session = current, !.tries = 0]

\* _ensure_session goes on at once when there is a session.
Ensured(p, current) ==
  IF current # 0 THEN Calling(p, current) ELSE [p EXCEPT !.at = "locking"]
Begin(c) ==
  /\ post[c].at = "idle"
  /\ Step(c, Ensured([NoPost EXCEPT !.since = restarts], session))
  /\ UNCHANGED <<session, init_lock, serverVars>>

\* Under the lock it looks again: another call may have opened one.
_ensure_session(c) == session # 0
Lock(c) ==
  /\ post[c].at = "locking" /\ init_lock = "none"
  /\ IF _ensure_session(c)
     THEN Step(c, Calling(post[c], session)) /\ UNCHANGED init_lock
     ELSE /\ Step(c, [post[c] EXCEPT !.at = "initializing", !.tries = 0])
          /\ init_lock' = c
  /\ UNCHANGED <<session, serverVars>>

\* initialize reaches the server, which opens a session.
PostInitialize(c) ==
  /\ post[c].at = "initializing"
  /\ issued' = issued + 1 /\ known_' = known_ \cup {issued + 1}
  /\ Step(c, [post[c] EXCEPT !.at = "opening", !.sent = issued + 1])
  /\ UNCHANGED <<session, init_lock, told, restarts>>
Initialized(c) ==
  /\ post[c].at = "opening"
  /\ session' = post[c].sent
  /\ Step(c, [post[c] EXCEPT !.at = "telling"])
  /\ UNCHANGED <<init_lock, serverVars>>
\* A reply without Mcp-Session-Id raises.
Unidentified(c) ==
  /\ post[c].at = "opening"
  /\ Over(c, "failed")
  /\ UNCHANGED <<session, serverVars>>

\* notifications/initialized is posted once and its status is not looked at;
\* when it raises the session stays.
Notify(c, arrives, answered) ==
  /\ post[c].at = "telling"
  /\ told' = IF arrives /\ post[c].sent \in known_ THEN told \cup {post[c].sent} ELSE told
  /\ IF answered
     THEN Step(c, Calling(post[c], session)) /\ init_lock' = Released(c)
     ELSE Over(c, "unavailable")
  /\ UNCHANGED <<session, issued, known_, restarts>>

-----------------------------------------------------------------------------
\* Each attempt carries the session of its own moment, if there is one.
Send(c) ==
  /\ post[c].at = "calling"
  /\ Step(c, [post[c] EXCEPT !.at = "sent", !.sent = session])
  /\ UNCHANGED <<session, init_lock, serverVars>>

\* What the server answers (external).
ServerSays(s) ==
  IF s = 0 THEN "refused" ELSE IF s \in known_ THEN "ok" ELSE "not found"

\* "Only the session that failed".
_drop_session_Any(stale) == 0
_drop_session_Never(stale) == session
_drop_session(stale) == IF session = stale THEN 0 ELSE session
Renews(c) == ServerSays(post[c].sent) = "not found" /\ ~post[c].again /\ post[c].session # 0
Reply(c) ==
  /\ post[c].at = "sent" /\ ~Renews(c)
  /\ Over(c, ServerSays(post[c].sent))
  /\ UNCHANGED <<session, serverVars>>
Renew(c) ==
  /\ post[c].at = "sent" /\ Renews(c)
  /\ session' = _drop_session(post[c].session)
  /\ Step(c, Ensured([post[c] EXCEPT !.again = TRUE], session'))
  /\ UNCHANGED <<init_lock, serverVars>>

Exhausted_OneMore(c) == post[c].tries >= Attempts
Exhausted(c) == post[c].tries + 1 >= Attempts
\* _post_with_retry: an error of the connection, a timeout or a 5xx, before or
\* after the server has done its part.
Fault(c) ==
  /\ post[c].at \in {"initializing", "opening", "sent"}
  /\ IF Exhausted(c) THEN Over(c, "unavailable")
     ELSE /\ Step(c, [post[c] EXCEPT !.tries = @ + 1,
                        !.at = IF @ = "sent" THEN "calling" ELSE "initializing"])
          /\ UNCHANGED init_lock
  /\ UNCHANGED <<session, serverVars>>

\* The server is redeployed, or its sessions expire (external).
ServerRestarts ==
  /\ restarts < MaxServerRestarts
  /\ restarts' = restarts + 1 /\ known_' = {} /\ told' = {}
  /\ UNCHANGED <<session, init_lock, issued, post>>

PostStep(c) ==
  \/ Lock(c) \/ PostInitialize(c) \/ Initialized(c) \/ Unidentified(c)
  \/ \E arrives, answered \in BOOLEAN : Notify(c, arrives, answered)
  \/ Send(c) \/ Reply(c) \/ Renew(c) \/ Fault(c)
SessionsNext == ServerRestarts \/ \E c \in Posters : Begin(c) \/ PostStep(c)

SessionsSpec == SessionsInit /\ [][SessionsNext]_sessionVars

-----------------------------------------------------------------------------
\* "Without this every call 404s until the agent itself restarts": a call is
\* told 404 only if the server has restarted since the call began.
NoLockout ==
  \A c \in Posters : post[c].outcome = "not found" => restarts > post[c].since

\* A session the server knows is neither dropped by a call that failed on an
\* older one nor replaced by a second handshake.
FreshSessionKept == [][session # 0 /\ session' # session => session \notin known_]_session

\* "a single stuck call can never hang the mission": every call ends, whoever
\* fails while holding the lock.
EveryPostEnds == \A c \in Posters : (post[c].at # "idle") ~> (post[c].at = "over")

\* "The server requires a session handshake before any tools/call": refuted, a
\* call may overtake the notification, and one that is lost is never repeated.
HandshakeFirst ==
  \A c \in Posters : post[c].at = "sent" /\ post[c].sent \in known_ => post[c].sent \in told

\* The shared session of SelericMCPTransport is renewed when it is lost: no
\* call stays locked out.
SessionsInv ==
  /\ SessionsTypeOK
  /\ NoLockout
=============================================================================
