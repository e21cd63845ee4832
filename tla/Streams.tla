------------------------------- MODULE Streams -------------------------------
(***************************************************************************)
(* The event streams over the log: stream_run_events and                   *)
(* stream_thread_events on the server, the notifier that wakes them, and   *)
(* clients that reconnect from the last event they have seen until they    *)
(* have seen the run's terminal event (office-ui runEvents.ts, and the     *)
(* voice worker's iter_run_events).  A connection delivers in order and    *)
(* may break at any moment, losing what is in flight.                      *)
(***************************************************************************)
EXTENDS EventLog

CONSTANTS
  Clients,    \* who listens
  Following,  \* what a client may follow from the start: a run, "thread",
              \* or "nothing" yet
  Backends,   \* the event_notifier_backend values to consider
  MaxDrops    \* bound: how many times connections break

ASSUME StreamBounds ==
  /\ Following \subseteq Runs \cup {"thread", "nothing"}
  /\ Backends \subseteq {"polling", "memory", "redis"}
  /\ MaxDrops \in Nat

VARIABLES
  backend,  \* settings.event_notifier_backend
  version,  \* the notifier's high-water mark of each run
  follows,  \* per client: the stream it has asked for
  conn,     \* per client: where the server's generator is
  cursor,   \* per client: the generator's cursor
  wire,     \* per client: frames sent and not yet received
  got,      \* per client: the events received, oldest first
  woken,    \* clients whose wait has been notified
  drops     \* how many connections have broken

streamVars == <<backend, version, follows, conn, cursor, wire, got, woken, drops>>
allVars == <<logVars, streamVars>>

Connection == {"closed", "list", "check", "wait", "subscribing", "sleeping",
               "returned"}

StreamsTypeOK ==
  /\ LogTypeOK
  /\ backend \in Backends
  /\ version \in [Runs -> Nat]
  /\ follows \in [Clients -> Runs \cup {"thread", "nothing"}]
  /\ conn \in [Clients -> Connection]
  /\ cursor \in [Clients -> Nat]
  /\ wire \in [Clients -> Seq(Row)] /\ got \in [Clients -> Seq(Row)]
  /\ woken \subseteq Clients
  /\ drops \in 0..MaxDrops

StreamsInit ==
  /\ LogInit
  /\ backend \in Backends
  /\ version = [r \in Runs |-> 0]
  /\ follows \in [Clients -> Following]
  /\ conn = [c \in Clients |-> "closed"]
  /\ cursor = [c \in Clients |-> 0]
  /\ wire = [c \in Clients |-> <<>>] /\ got = [c \in Clients |-> <<>>]
  /\ woken = {}
  /\ drops = 0

-----------------------------------------------------------------------------
\* The number a stream orders its events by.
Position(c, e) == IF follows[c] = "thread" THEN e.thread_sequence ELSE e.sequence
Followed(c, e) == follows[c] \in {"thread", e.run}

\* The client's own cursor: the largest position it has received.
Seen(c) == MaxOf({Position(c, got[c][i]) : i \in DOMAIN got[c]})
\* It stops listening to a run once it has seen the run's end.
Done(c) == /\ follows[c] # "thread"
           /\ \E i \in DOMAIN got[c] : got[c][i].type \in TerminalType

\* list_events and list_thread_events: the committed rows after the cursor, in
\* the order of their numbers (and of their commits, where two have the same).
ListEvents(c) ==
  LET After == {i \in DOMAIN rows : Followed(c, rows[i]) /\ Position(c, rows[i]) > cursor[c]}
      upto(i) == {j \in After : \/ Position(c, rows[j]) < Position(c, rows[i])
                                \/ Position(c, rows[j]) = Position(c, rows[i]) /\ j <= i} IN
  [k \in 1..Cardinality(After) |->
     rows[CHOOSE i \in After : Cardinality(upto(i)) = k]]

-----------------------------------------------------------------------------
\* The generator of stream_run_events and stream_thread_events

\* The request: the cursor comes from after_sequence and Last-Event-ID.
Connect_PastCursor(c) ==
  /\ follows[c] # "nothing" /\ conn[c] = "closed" /\ ~Done(c)
  /\ conn' = [conn EXCEPT ![c] = "list"]
  /\ cursor' = [cursor EXCEPT ![c] = IF got[c] = <<>> THEN 0 ELSE Seen(c) + 1]
  /\ UNCHANGED <<logVars, backend, version, follows, wire, got, woken, drops>>
Connect(c) ==
  /\ follows[c] # "nothing" /\ conn[c] = "closed" /\ ~Done(c)
  /\ conn' = [conn EXCEPT ![c] = "list"]
  /\ cursor' = [cursor EXCEPT ![c] = Seen(c)]
  /\ UNCHANGED <<logVars, backend, version, follows, wire, got, woken, drops>>

SendEvents(c) ==
  LET batch == ListEvents(c) IN
  /\ conn[c] = "list"
  /\ wire' = [wire EXCEPT ![c] = @ \o batch]
  /\ cursor' = [cursor EXCEPT ![c] =
                  MaxOf({@} \cup {Position(c, batch[i]) : i \in DOMAIN batch})]
  /\ conn' = [conn EXCEPT ![c] = IF follows[c] = "thread" THEN "wait" ELSE "check"]
  /\ UNCHANGED <<logVars, backend, version, follows, got, woken, drops>>

\* The status is read after the events: a terminal run ends the stream, even
\* one that became terminal between the two reads.
CheckStatus(c) ==
  /\ conn[c] = "check"
  /\ conn' = [conn EXCEPT ![c] = IF status[follows[c]] = "open" THEN "wait"
                                 ELSE "returned"]
  /\ UNCHANGED <<logVars, backend, version, follows, cursor, wire, got, woken, drops>>

\* notifier.wait: look at the high-water mark, register for wake-ups, look
\* again, and only then sleep.  Polling only sleeps, and so does the thread's
\* stream, which uses no notifier.
Polls(c) == backend = "polling" \/ follows[c] = "thread"
BeginWait(c) ==
  /\ conn[c] = "wait"
  /\ conn' = [conn EXCEPT ![c] =
       IF Polls(c) THEN "sleeping"
       ELSE IF version[follows[c]] > cursor[c] THEN "list" ELSE "subscribing"]
  /\ woken' = woken \ {c}
  /\ UNCHANGED <<logVars, backend, version, follows, cursor, wire, got, drops>>

\* From here on a publication wakes the client; the high-water mark tells of
\* one that came before.
Subscribe_NoRecheck(c) ==
  /\ conn[c] = "subscribing"
  /\ conn' = [conn EXCEPT ![c] = "sleeping"]
  /\ UNCHANGED <<logVars, backend, version, follows, cursor, wire, got, woken, drops>>
Subscribe(c) ==
  /\ conn[c] = "subscribing"
  /\ conn' = [conn EXCEPT ![c] =
       IF version[follows[c]] > cursor[c] THEN "list" ELSE "sleeping"]
  /\ UNCHANGED <<logVars, backend, version, follows, cursor, wire, got, woken, drops>>

\* The wait ends by a notification or after heartbeat_seconds.
EndWait(c) ==
  /\ conn[c] = "sleeping"
  /\ conn' = [conn EXCEPT ![c] = "list"]
  /\ woken' = woken \ {c}
  /\ UNCHANGED <<logVars, backend, version, follows, cursor, wire, got, drops>>

\* ActivityEventSink.append publishes after the commit; an error is suppressed.
\* The memory backend wakes only the waiters of the publisher's own event
\* loop, hence nobody when a thread of the server's pool publishes.
Publish(r, reaches) ==
  /\ backend # "polling" /\ r \in {follows[c] : c \in Clients}
  /\ \E i \in DOMAIN rows : rows[i].run = r /\ rows[i].sequence > version[r]
  /\ version' = [version EXCEPT ![r] =
       MaxOf({rows[i].sequence : i \in {j \in DOMAIN rows : rows[j].run = r}})]
  /\ reaches \/ backend = "memory"
  /\ woken' = IF ~reaches THEN woken
              ELSE woken \cup {c \in Clients : follows[c] = r /\ conn[c] = "sleeping"}
  /\ UNCHANGED <<logVars, backend, follows, conn, cursor, wire, got, drops>>

-----------------------------------------------------------------------------
\* The client

Receive(c) ==
  /\ wire[c] # <<>>
  /\ got' = [got EXCEPT ![c] = Append(@, Head(wire[c]))]
  /\ LET last == Head(wire[c]).type \in TerminalType /\ follows[c] # "thread" IN
     /\ wire' = [wire EXCEPT ![c] = IF last THEN <<>> ELSE Tail(@)]
     /\ conn' = [conn EXCEPT ![c] = IF last THEN "closed" ELSE @]
  /\ UNCHANGED <<logVars, backend, version, follows, cursor, woken, drops>>

\* The server has closed the stream and everything it sent has arrived.
StreamEnds(c) ==
  /\ conn[c] = "returned" /\ wire[c] = <<>>
  /\ conn' = [conn EXCEPT ![c] = "closed"]
  /\ UNCHANGED <<logVars, backend, version, follows, cursor, wire, got, woken, drops>>

\* The connection breaks; the generator stops at is_disconnected or when it
\* next writes.
Drop(c) ==
  /\ drops < MaxDrops /\ conn[c] # "closed"
  /\ drops' = drops + 1
  /\ wire' = [wire EXCEPT ![c] = <<>>]
  /\ conn' = [conn EXCEPT ![c] = "closed"]
  /\ UNCHANGED <<logVars, backend, version, follows, cursor, got, woken>>

ServerStep(c) == SendEvents(c) \/ CheckStatus(c) \/ BeginWait(c) \/ Subscribe(c)
                 \/ EndWait(c)
ClientStep(c) == Connect(c) \/ Receive(c) \/ StreamEnds(c)

StreamsNext ==
  \/ LogNext /\ UNCHANGED streamVars
  \/ \E c \in Clients : ServerStep(c) \/ ClientStep(c) \/ Drop(c)
  \/ \E r \in Runs, reaches \in BOOLEAN : Publish(r, reaches)

StreamsSpec == StreamsInit /\ [][StreamsNext]_allVars

\* The server's generators and the clients run on; an open transaction
\* commits.  Nothing obliges an executor to emit or a connection to break.
StreamsFairness ==
  /\ \A c \in Clients : WF_allVars(ServerStep(c)) /\ WF_allVars(ClientStep(c))
  /\ \A w \in Writers : WF_allVars(Commit(w) /\ UNCHANGED streamVars)

-----------------------------------------------------------------------------
\* What a client has received is exactly the followed events up to its cursor:
\* none missing, none twice, in order, whatever broke in between and however
\* the transactions of two runs interleaved.
StreamIsExact ==
  \A c \in Clients :
    /\ \A i, j \in DOMAIN got[c] : i < j => Position(c, got[c][i]) < Position(c, got[c][j])
    /\ {got[c][i] : i \in DOMAIN got[c]} =
         {rows[i] : i \in {j \in DOMAIN rows : /\ Followed(c, rows[j])
                                              /\ Position(c, rows[j]) <= Seen(c)}}

\* The end a client was told of is the run's status, and it stays that: no
\* stream announces an outcome that another writer then replaces.
ToldTheOutcome ==
  \A c \in Clients : \A i \in DOMAIN got[c] :
    got[c][i].type \in TerminalType => status[got[c][i].run] = got[c][i].type

\* With Redis no publication is slept through: a stream that sleeps, and that
\* no publication has woken, has sent everything the notifier knows of.
NoLostWakeup ==
  \A c \in Clients :
    backend = "redis" /\ conn[c] = "sleeping" /\ c \notin woken /\ ~Polls(c)
      => version[follows[c]] <= cursor[c]

\* Who follows a run learns how it ended, although a single stream may end
\* without saying so (the run ends between the reading of the events and the
\* reading of the status) and although publications may be lost.
EveryFollowerLearns ==
  \A c \in Clients :
    [](follows[c] \in Runs =>
         ((\E r \in Runs : r = follows[c] /\ status[r] # "open") ~> Done(c)))

\* The draft shown while an answer streams is one attempt's: "Clear any answer
\* this attempt streamed, or the retry's deltas append to the dead draft".
Draft(c) ==
  LET resets == {i \in DOMAIN got[c] : got[c][i].type = "answer.reset"} IN
  {got[c][i].attempt : i \in {j \in DOMAIN got[c] :
     got[c][j].type = "answer.delta" /\ j > MaxOf(resets)}}
DraftOfOneAttempt ==
  \A c \in Clients : follows[c] \in Runs => Cardinality(Draft(c)) <= 1

\* A follower has received every event up to its cursor once and in order,
\* is not left without the last one, and sleeps only when nothing is new.
StreamsInv ==
  /\ StreamsTypeOK
  /\ StreamIsExact
  /\ ToldTheOutcome
  /\ NoLostWakeup
=============================================================================
