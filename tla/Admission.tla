----------------------------- MODULE Admission -----------------------------
(***************************************************************************)
(* The middleware of api/security.py: which requests reach a handler.  A   *)
(* request is authenticated, by a provider, an authenticator or the shared *)
(* key, and then counted in the sliding window of its client.  Time is in  *)
(* ticks, Ticks of them to the second: time.monotonic() is no whole number *)
(* and Retry-After is.                                                     *)
(***************************************************************************)
EXTENDS Integers, Sequences, FiniteSets

CONSTANTS
  ClientKeys, \* _client_key: by api key, forwarded or own address
  Limit,      \* limiter.limit
  Window,     \* window_s, in ticks
  Ticks,      \* ticks per second
  MaxClock    \* bound: the last tick

ASSUME AdmissionAssumption ==
  Limit \in Nat \ {0} /\ Window \in Nat \ {0} /\ Ticks \in Nat \ {0} /\ MaxClock \in Nat

VARIABLES
  clock,
  setup_,   \* how the middleware is configured
  hits,     \* limiter._hits
  entered,  \* [client -> the times of its admitted requests]: history
  refused,  \* [client -> when it was first refused since, and its Retry-After]
  answer    \* of the last request

admissionVars == <<clock, setup_, hits, entered, refused, answer>>

NoRefusal == [at |-> 0, retry_after |-> 0]
NoAnswer_ == [status |-> 0, key |-> "none", exempt |-> FALSE, proven |-> FALSE]

AdmissionInit ==
  /\ clock = 0
  /\ setup_ \in [api_key: BOOLEAN, authenticator: BOOLEAN]
  /\ hits = [k \in ClientKeys |-> <<>>] /\ entered = [k \in ClientKeys |-> <<>>]
  /\ refused = [k \in ClientKeys |-> NoRefusal]
  /\ answer = NoAnswer_

AdmissionTypeOK ==
  /\ clock \in 0..MaxClock
  /\ answer.status \in {0, 200, 401, 429}
  /\ \A k \in ClientKeys :
       /\ Len(hits[k]) <= Limit
       /\ \A i, j \in DOMAIN hits[k] : i < j => hits[k][i] <= hits[k][j]

-----------------------------------------------------------------------------
\* A request: "proven" and "unproven" are principals that say of themselves
\* that they are authenticated, or not.
Principals == {"none", "unproven", "proven"}
Request == [key: ClientKeys, exempt: BOOLEAN, key_matches: BOOLEAN,
            provided: Principals, authenticated: Principals]

\* The authenticator's principal takes the place of the provider's, unless it
\* gives none.
candidate(r) ==
  IF ~setup_.authenticator THEN "none"
  ELSE IF r.authenticated # "none" THEN r.authenticated ELSE r.provided
external_authenticated_Any(r) == candidate(r) # "none"
external_authenticated(r) == candidate(r) = "proven"
Authenticated(r) ==
  \/ external_authenticated(r)
  \/ ~setup_.api_key /\ ~setup_.authenticator
  \/ setup_.api_key /\ r.key_matches
\* request.state.principal.authenticated
Proven(r) == IF external_authenticated(r) THEN candidate(r) = "proven" ELSE Authenticated(r)

\* SlidingWindowRateLimiter.allow
\* How many of the oldest times popleft takes, one after the other.
Popped(q, cutoff) ==
  CHOOSE n \in 0..Len(q) : /\ \A i \in 1..n : q[i] <= cutoff
                           /\ n < Len(q) => q[n + 1] > cutoff
Kept_Early(q) == SubSeq(q, Popped(q, clock - Window + 1) + 1, Len(q))
Kept(q) == SubSeq(q, Popped(q, clock - Window) + 1, Len(q))
retry_FromNow(q) == (clock - q[1]) \div Ticks
retry(q) == LET whole == (Window - (clock - q[1])) \div Ticks IN
            IF whole < 1 THEN 1 ELSE whole
Counted_Always(q) == Append(q, clock)
Counted(q) == IF Len(q) < Limit THEN Append(q, clock) ELSE q

Answer_(r, status) ==
  answer' = [status |-> status, key |-> r.key, exempt |-> r.exempt, proven |-> Proven(r)]

Pass(r) ==
  /\ r.exempt
  /\ Answer_(r, 200)
  /\ UNCHANGED <<clock, setup_, hits, entered, refused>>
Unauthenticated(r) ==
  /\ ~r.exempt /\ ~Authenticated(r)
  /\ Answer_(r, 401)
  /\ UNCHANGED <<clock, setup_, hits, entered, refused>>
_rate_limited(r) ==
  LET q == Kept(hits[r.key]) IN
  /\ ~r.exempt /\ Authenticated(r)
  /\ hits' = [hits EXCEPT ![r.key] = Counted(q)]
  /\ IF Len(q) >= Limit
     THEN /\ Answer_(r, 429)
          /\ refused' = [refused EXCEPT ![r.key] =
               IF @ = NoRefusal THEN [at |-> clock, retry_after |-> retry(q)] ELSE @]
          /\ UNCHANGED entered
     ELSE /\ Answer_(r, 200)
          /\ entered' = [entered EXCEPT ![r.key] = Append(@, clock)]
          /\ refused' = [refused EXCEPT ![r.key] = NoRefusal]
  /\ UNCHANGED <<clock, setup_>>

Tick == /\ clock < MaxClock /\ clock' = clock + 1 /\ answer' = NoAnswer_
        /\ UNCHANGED <<setup_, hits, entered, refused>>

AdmissionNext ==
  \/ Tick
  \/ \E r \in Request : Pass(r) \/ Unauthenticated(r) \/ _rate_limited(r)

-----------------------------------------------------------------------------
Within(k, from) == Cardinality({i \in DOMAIN entered[k] : entered[k][i] > from})

\* No stretch of window_s seconds admits more than the limit, and a request is
\* turned away only when the stretch before it has used the limit up: being
\* turned away costs a client nothing.
SlidingWindow ==
  \A k \in ClientKeys :
    /\ Within(k, clock - Window) <= Limit
    /\ answer.status = 429 /\ answer.key = k => Within(k, clock - Window) = Limit

\* Retry-After, which is rounded down, is less than a second too short: a client
\* that waits a second longer than it was told is not turned away again, however
\* often it has asked meanwhile.
WaitingHelps ==
  answer.status = 429 =>
    clock < refused[answer.key].at + (refused[answer.key].retry_after + 1) * Ticks

\* "merely returning a Principal object is not proof of authentication": a
\* handler that is not public sees an authenticated principal.
HandledIsAuthenticated == answer.status = 200 /\ ~answer.exempt => answer.proven

\* The middleware lets through neither too many requests of a client nor an
\* unproven one, and turns nobody away who has waited as told.
AdmissionInv ==
  /\ AdmissionTypeOK
  /\ SlidingWindow
  /\ WaitingHelps
  /\ HandledIsAuthenticated
=============================================================================
