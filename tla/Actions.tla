------------------------------- MODULE Actions -------------------------------
(***************************************************************************)
(* The agent's writes (toolsets/actions.py): propose and commit through a  *)
(* remote broker.  Tool calls overlap, either half of a remote call may be *)
(* lost, tokens expire at the broker, and a restart forgets the tokens and *)
(* the idempotency keys, which live in the process.                        *)
(*                                                                         *)
(* The broker is external: it gives a token to an eligible proposal and    *)
(* carries a token's action out at most once.  validate and preview read   *)
(* the status and the proposal and change nothing; they are left out.      *)
(***************************************************************************)
EXTENDS Integers, FiniteSets

CONSTANTS ActionCalls, ActionIds, IdempotencyKeys, MaxRestarts

ASSUME ActionsAssumption == MaxRestarts \in Nat /\ "none" \notin ActionIds

VARIABLES
  broker,        \* what the broker says of each action
  _PROPOSALS,    \* what the process knows: "none", or a live or a spent token
  _COMMIT_KEYS,  \* key -> action, or "none"
  action,        \* the tool calls
  answered,      \* (action, key) whose commit had a reply, since the start
  restarts

actionVars == <<broker, _PROPOSALS, _COMMIT_KEYS, action, answered, restarts>>

NoAction == [at |-> "idle", id |-> "none", key |-> "none", reply |-> "none", outcome |-> "none"]
ActionsInit ==
  /\ broker = [p \in ActionIds |-> "unknown"]
  /\ _PROPOSALS = [p \in ActionIds |-> "none"]
  /\ _COMMIT_KEYS = [k \in IdempotencyKeys |-> "none"]
  /\ action = [c \in ActionCalls |-> NoAction]
  /\ answered = {} /\ restarts = 0

Free(c) == action[c].at \in {"idle", "over"}
ActionTo(c, to) == action' = [action EXCEPT ![c] = to]
Returns(c, p, k, outcome) ==
  ActionTo(c, [at |-> "over", id |-> p, key |-> k, reply |-> "none", outcome |-> outcome])
\* A call that has nothing carried out: what it says of that is left out.
Told(c) == ActionTo(c, NoAction)

-----------------------------------------------------------------------------
\* propose_action: rejected, or known to the broker under a fresh id; the answer
\* may be lost, and only one that arrives leaves a token in the process.
propose_action(c, p, reply) ==
  /\ Free(c) /\ broker[p] = "unknown"
  /\ broker' = [broker EXCEPT ![p] = IF reply = "rejected" THEN @ ELSE "PROPOSED"]
  /\ _PROPOSALS' = IF reply \notin {"live", "ineligible"} THEN _PROPOSALS
                   ELSE [_PROPOSALS EXCEPT ![p] = reply]
  /\ Told(c)
  /\ UNCHANGED <<_COMMIT_KEYS, answered, restarts>>

Terminal == {"FAILED", "EXPIRED"}

-----------------------------------------------------------------------------
\* commit_action up to its first await.
Bound_Never(k, p) == FALSE
Bound(k, p) == _COMMIT_KEYS[k] \notin {"none", p}
commit_action(c, p, k) ==
  /\ Free(c)
  /\ \/ Bound(k, p) /\ Told(c) /\ UNCHANGED _COMMIT_KEYS
     \/ /\ ~Bound(k, p) /\ _COMMIT_KEYS[k] = p
        /\ ActionTo(c, [NoAction EXCEPT !.at = "status", !.id = p, !.key = k])
        /\ UNCHANGED _COMMIT_KEYS
     \/ /\ ~Bound(k, p) /\ _COMMIT_KEYS[k] # p /\ _PROPOSALS[p] # "live"
        /\ Told(c) /\ UNCHANGED _COMMIT_KEYS
     \/ /\ ~Bound(k, p) /\ _COMMIT_KEYS[k] # p /\ _PROPOSALS[p] = "live"
        /\ _COMMIT_KEYS' = [_COMMIT_KEYS EXCEPT ![k] = p]
        /\ ActionTo(c, [NoAction EXCEPT !.at = "sent", !.id = p, !.key = k])
  /\ UNCHANGED <<broker, _PROPOSALS, answered, restarts>>

\* The key is already bound to this action: its status is the answer.
Succeeded_Pending(state) == state # "FAILED"
Succeeded_Executed(state) == state = "EXECUTED"
Succeeded(state) == state \in {"EXECUTED", "DUPLICATE"}
StatusOf(c, lost) ==
  /\ action[c].at = "status"
  /\ Returns(c, action[c].id, action[c].key,
       IF lost THEN "unavailable" ELSE IF Succeeded(broker[action[c].id]) THEN "success"
       ELSE IF broker[action[c].id] \in Terminal THEN "over" ELSE "in_progress")
  /\ UNCHANGED <<broker, _PROPOSALS, _COMMIT_KEYS, answered, restarts>>

\* The broker takes the token; the action works or does not.
Carry(c, works) ==
  /\ action[c].at = "sent"
  /\ LET p == action[c].id IN
     /\ broker' = [broker EXCEPT ![p] = IF @ # "PROPOSED" THEN @ ELSE IF works THEN "EXECUTED" ELSE "FAILED"]
     /\ ActionTo(c, [action[c] EXCEPT !.at = "carried",
          !.reply = IF broker[p] = "EXECUTED" THEN "DUPLICATE" ELSE broker'[p]])
  /\ UNCHANGED <<_PROPOSALS, _COMMIT_KEYS, answered, restarts>>

\* The reply ends the token; an exception gives the key back instead.
SpendToken_Kept(p) == _PROPOSALS
SpendToken(p) == [_PROPOSALS EXCEPT ![p] = "spent"]
CommitReplies(c) ==
  /\ action[c].at = "carried"
  /\ LET p == action[c].id IN
     /\ _PROPOSALS' = SpendToken(p) /\ answered' = answered \cup {<<p, action[c].key>>}
     /\ Returns(c, p, action[c].key, IF Succeeded(action[c].reply) THEN "success" ELSE "failed")
  /\ UNCHANGED <<broker, _COMMIT_KEYS, restarts>>
CommitRaises(c) ==
  /\ action[c].at \in {"sent", "carried"}
  /\ _COMMIT_KEYS' = [_COMMIT_KEYS EXCEPT ![action[c].key] = "none"]
  /\ Returns(c, action[c].id, action[c].key, "unavailable")
  /\ UNCHANGED <<broker, _PROPOSALS, answered, restarts>>

TokenExpires(p) ==
  /\ broker[p] = "PROPOSED" /\ broker' = [broker EXCEPT ![p] = "EXPIRED"]
  /\ UNCHANGED <<_PROPOSALS, _COMMIT_KEYS, action, answered, restarts>>
\* What was sent may yet be carried out; nobody waits for it.
Restart ==
  /\ restarts < MaxRestarts /\ restarts' = restarts + 1
  /\ _PROPOSALS' = [p \in ActionIds |-> "none"] /\ answered' = {}
  /\ _COMMIT_KEYS' = [k \in IdempotencyKeys |-> "none"]
  /\ action' = [c \in ActionCalls |-> IF action[c].at = "over" THEN action[c] ELSE NoAction]
  /\ \E done \in SUBSET {c \in ActionCalls : action[c].at = "sent"} :
       broker' = [p \in ActionIds |-> IF broker[p] = "PROPOSED" /\ \E c \in done : action[c].id = p
                                      THEN "EXECUTED" ELSE broker[p]]

ActionsNext ==
  \/ Restart
  \/ \E p \in ActionIds : TokenExpires(p)
  \/ \E c \in ActionCalls :
       \/ \E p \in ActionIds :
            \/ \E reply \in {"live", "ineligible", "rejected", "unavailable"} : propose_action(c, p, reply)
            \/ \E k \in IdempotencyKeys : commit_action(c, p, k)
       \/ \E flag \in BOOLEAN : StatusOf(c, flag) \/ Carry(c, flag)
       \/ CommitReplies(c) \/ CommitRaises(c)

ActionsSpec == ActionsInit /\ [][ActionsNext]_actionVars

-----------------------------------------------------------------------------
\* "Committed" is said only of an action the broker carried out, and "failed" only
\* of one it did not, whichever of several overlapping commits is asked.
CommitIsTold ==
  \A c \in ActionCalls :
    /\ action[c].outcome = "success" => broker[action[c].id] = "EXECUTED"
    /\ action[c].outcome \in {"failed", "over"} => broker[action[c].id] # "EXECUTED"

\* "Exactly once for this key": as long as the process lives, a key that was
\* answered for one action is never answered for another.
KeyKeepsItsAction == \A x, y \in answered : x[2] = y[2] => x[1] = y[1]

\* A token that brought a reply is not sent again, under any key: a second attempt
\* needs a new proposal and a new confirmation.
SpentIsSpent ==
  [][\A c \in ActionCalls : Free(c) /\ action'[c].at = "sent" =>
       \A a \in answered : a[1] # action'[c].id]_actionVars

\* The keys outlive a lost reply: an action carried out under a key is the only one.
OneActionPerKey ==
  \A c, d \in ActionCalls :
    /\ action[c].outcome \in {"success", "unavailable"} /\ broker[action[c].id] = "EXECUTED"
    /\ action[d].outcome = "success" /\ action[c].key = action[d].key
    => action[c].id = action[d].id

\* A write to the outside is reported as what it was, and a key stands for one
\* action, through lost replies and restarts.
ActionsInv ==
  /\ CommitIsTold
  /\ KeyKeepsItsAction
=============================================================================
