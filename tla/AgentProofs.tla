----------------------------- MODULE AgentProofs -----------------------------
(***************************************************************************)
(* Theorems about the parts around the agent, each by itself: what a       *)
(* mission starts from (MissionSetup), its writes through the broker       *)
(* (Actions), the models that answer it (ModelRouting), what a process     *)
(* starts from (Migrations), how its tool calls share the queries of a     *)
(* mission (Fetching), what a mission spends and delivers (AgentRun), what *)
(* it computes and derives from the rows it fetched (Analytics,            *)
(* Derivations), and what the checks on an answer conclude from its        *)
(* artifacts (Evidence).                                                   *)
(***************************************************************************)
EXTENDS MCAgent, InductionLemmas, FiniteSetTheorems, TLAPS

-----------------------------------------------------------------------------
(* Actions.                                                                *)

BrokerStates == {"unknown", "PROPOSED", "EXECUTED", "FAILED", "EXPIRED"}
Sorted == {"EXECUTED", "FAILED", "EXPIRED"}
CallRecord ==
  [at: {"idle", "over", "status", "sent", "carried"}, id: ActionIds \cup {"none"},
   key: IdempotencyKeys \cup {"none"},
   reply: {"none", "DUPLICATE"} \cup Sorted,
   outcome: {"none", "success", "failed", "over", "in_progress", "unavailable"}]

ActionTypes ==
  /\ broker \in [ActionIds -> BrokerStates]
  /\ _PROPOSALS \in [ActionIds -> {"none", "live", "ineligible", "spent"}]
  /\ _COMMIT_KEYS \in [IdempotencyKeys -> ActionIds \cup {"none"}]
  /\ action \in [ActionCalls -> CallRecord]
  /\ answered \subseteq ActionIds \X IdempotencyKeys
  /\ restarts \in Nat

Underway(c) == action[c].at \in {"sent", "carried"}

\* What a call carries with it: only a token that was given out is sent, what the
\* broker replied is what became of the action, and what was told is still so.
CallIsTrue(c) ==
  /\ action[c].at \in {"status", "sent", "carried"} =>
       action[c].id \in ActionIds /\ action[c].key \in IdempotencyKeys
  /\ action[c].outcome # "none" => action[c].id \in ActionIds /\ action[c].at = "over"
  /\ Underway(c) => /\ broker[action[c].id] # "unknown"
                    /\ _COMMIT_KEYS[action[c].key] = action[c].id
  /\ action[c].at = "carried" =>
       /\ broker[action[c].id] \in Sorted
       /\ Succeeded(action[c].reply) <=> broker[action[c].id] = "EXECUTED"
  /\ action[c].outcome = "success" => broker[action[c].id] = "EXECUTED"
  /\ action[c].outcome \in {"failed", "over"} => broker[action[c].id] \in {"FAILED", "EXPIRED"}

\* A key is held by one call, and kept by the action it was answered for.
KeysAreHeld ==
  /\ \A c, d \in ActionCalls :
       Underway(c) /\ Underway(d) /\ action[c].key = action[d].key => c = d
  /\ \A a \in answered : /\ _COMMIT_KEYS[a[2]] = a[1]
                         /\ \A c \in ActionCalls : Underway(c) => action[c].key # a[2]

\* The token of an action that was answered is gone for good.
TokensAreSpent ==
  /\ \A p \in ActionIds : _PROPOSALS[p] = "live" => broker[p] # "unknown"
  /\ \A a \in answered : _PROPOSALS[a[1]] # "live" /\ broker[a[1]] # "unknown"

ActionsIInv ==
  /\ ActionTypes
  /\ \A c \in ActionCalls : CallIsTrue(c)
  /\ KeysAreHeld
  /\ TokensAreSpent

\* What the broker settled stays, and it forgets nothing.
BrokerGoesOn ==
  /\ broker' \in [ActionIds -> BrokerStates]
  /\ \A p \in ActionIds : /\ broker[p] # "unknown" => broker'[p] # "unknown"
                          /\ broker[p] \in Sorted => broker'[p] = broker[p]

LEMMA BrokerStays ==
  ASSUME ActionTypes, UNCHANGED broker
  PROVE  BrokerGoesOn
BY DEF ActionTypes, BrokerGoesOn

LEMMA CallStaysTrue ==
  ASSUME ActionTypes, NEW d \in ActionCalls, CallIsTrue(d), action'[d] = action[d], BrokerGoesOn,
         Underway(d) => _COMMIT_KEYS'[action[d].key] = _COMMIT_KEYS[action[d].key]
  PROVE  CallIsTrue(d)'
<1>1. action[d] \in CallRecord
  BY DEF ActionTypes
<1>2. action[d].at \in {"status", "sent", "carried"} =>
        action[d].id \in ActionIds /\ action[d].key \in IdempotencyKeys
  BY DEF CallIsTrue
<1>3. action[d].outcome # "none" => action[d].id \in ActionIds /\ action[d].at = "over"
  BY DEF CallIsTrue
<1>4. Underway(d)' = Underway(d)
  BY DEF Underway
<1>5. Underway(d) => /\ broker'[action[d].id] # "unknown"
                     /\ _COMMIT_KEYS'[action[d].key] = action[d].id
  BY <1>2 DEF CallIsTrue, Underway, BrokerGoesOn
<1>6. action[d].at = "carried" =>
        /\ broker'[action[d].id] \in Sorted
        /\ Succeeded(action[d].reply) <=> broker'[action[d].id] = "EXECUTED"
  BY <1>2 DEF CallIsTrue, BrokerGoesOn, Sorted
<1>7. /\ action[d].outcome = "success" => broker'[action[d].id] = "EXECUTED"
      /\ action[d].outcome \in {"failed", "over"} => broker'[action[d].id] \in {"FAILED", "EXPIRED"}
  BY <1>3 DEF CallIsTrue, BrokerGoesOn, Sorted
<1>8. Succeeded(action[d].reply)' = Succeeded(action[d].reply)
  BY DEF Succeeded
<1> QED BY <1>2, <1>3, <1>4, <1>5, <1>6, <1>7, <1>8 DEF CallIsTrue, Succeeded

\* Nothing is under way any more in a call that is over or has told its answer.
LEMMA RestingIsTrue ==
  ASSUME NEW d, action'[d] = NoAction
  PROVE  CallIsTrue(d)' /\ ~Underway(d)'
BY DEF NoAction, CallIsTrue, Underway

LEMMA NoActionIsACall == NoAction \in CallRecord
BY DEF NoAction, CallRecord

LEMMA CallSet ==
  ASSUME ActionTypes, NEW c \in ActionCalls, NEW to \in CallRecord, ActionTo(c, to)
  PROVE  /\ action' \in [ActionCalls -> CallRecord]
         /\ action'[c] = to
         /\ \A d \in ActionCalls : d # c => action'[d] = action[d]
BY DEF ActionTypes, ActionTo

\* A step of one call that neither sends a token nor settles a key.
LEMMA CallEnds ==
  ASSUME ActionsIInv, NEW c \in ActionCalls, NEW to \in CallRecord, ActionTo(c, to),
         to.at \in {"idle", "over", "status"}, CallIsTrue(c)', BrokerGoesOn,
         _COMMIT_KEYS' \in [IdempotencyKeys -> ActionIds \cup {"none"}],
         \A k \in IdempotencyKeys :
           _COMMIT_KEYS'[k] = _COMMIT_KEYS[k] \/ (Underway(c) /\ action[c].key = k),
         _PROPOSALS' \in [ActionIds -> {"none", "live", "ineligible", "spent"}],
         \A p \in ActionIds : _PROPOSALS'[p] = "live" =>
           \/ _PROPOSALS[p] = "live"
           \/ broker[p] = "unknown" /\ broker'[p] # "unknown",
         UNCHANGED <<answered, restarts>>
  PROVE  ActionsIInv'
<1>1. /\ ActionTypes /\ KeysAreHeld /\ TokensAreSpent
      /\ \A d \in ActionCalls : CallIsTrue(d)
  BY DEF ActionsIInv
<1>2. /\ action' \in [ActionCalls -> CallRecord] /\ action'[c] = to
      /\ \A d \in ActionCalls : d # c => action'[d] = action[d]
  BY <1>1, CallSet
<1>3. ~Underway(c)' /\ \A d \in ActionCalls : Underway(d)' => d # c /\ Underway(d)
  BY <1>2 DEF Underway
<1>4. ASSUME NEW d \in ActionCalls PROVE CallIsTrue(d)'
  <2>1. CASE d = c
    BY <2>1
  <2>2. CASE d # c
    <3>1. action'[d] = action[d]
      BY <1>2, <2>2
    <3>2. Underway(d) => _COMMIT_KEYS'[action[d].key] = _COMMIT_KEYS[action[d].key]
      BY <1>1, <2>2 DEF KeysAreHeld, CallIsTrue, Underway
    <3> QED BY <1>1, <3>1, <3>2, CallStaysTrue
  <2> QED BY <2>1, <2>2
<1>5. KeysAreHeld'
  <2>1. \A d, e \in ActionCalls :
          Underway(d)' /\ Underway(e)' /\ action'[d].key = action'[e].key => d = e
    BY <1>1, <1>2, <1>3 DEF KeysAreHeld
  <2>2. ASSUME NEW a \in answered
        PROVE  /\ _COMMIT_KEYS'[a[2]] = a[1]
               /\ \A d \in ActionCalls : Underway(d)' => action'[d].key # a[2]
    <3>1. a[2] \in IdempotencyKeys
      BY <1>1 DEF ActionTypes
    <3> QED BY <1>1, <1>2, <1>3, <3>1 DEF KeysAreHeld
  <2> QED BY <2>1, <2>2 DEF KeysAreHeld
<1>6. TokensAreSpent'
  <2>1. \A p \in ActionIds : _PROPOSALS'[p] = "live" => broker'[p] # "unknown"
    BY <1>1 DEF TokensAreSpent, BrokerGoesOn
  <2>2. ASSUME NEW a \in answered PROVE _PROPOSALS'[a[1]] # "live" /\ broker'[a[1]] # "unknown"
    <3>1. a[1] \in ActionIds
      BY <1>1 DEF ActionTypes
    <3> QED BY <1>1, <3>1 DEF TokensAreSpent, BrokerGoesOn
  <2> QED BY <2>1, <2>2 DEF TokensAreSpent
<1>7. ActionTypes'
  BY <1>1, <1>2 DEF ActionTypes, BrokerGoesOn
<1> QED BY <1>4, <1>5, <1>6, <1>7 DEF ActionsIInv

\* What a free call was told before is forgotten with the next answer.
LEMMA ToldStep ==
  ASSUME ActionsIInv, NEW c \in ActionCalls, Free(c), Told(c), BrokerGoesOn,
         UNCHANGED <<_COMMIT_KEYS, answered, restarts>>,
         _PROPOSALS' \in [ActionIds -> {"none", "live", "ineligible", "spent"}],
         \A p \in ActionIds : _PROPOSALS'[p] = "live" =>
           \/ _PROPOSALS[p] = "live"
           \/ broker[p] = "unknown" /\ broker'[p] # "unknown"
  PROVE  ActionsIInv'
<1>1. ActionTypes
  BY DEF ActionsIInv
<1>2. ActionTo(c, NoAction) /\ NoAction \in CallRecord /\ NoAction.at = "idle"
  BY NoActionIsACall DEF Told, NoAction
<1>3. CallIsTrue(c)'
  BY <1>1, <1>2, CallSet, RestingIsTrue
<1>4. _COMMIT_KEYS' \in [IdempotencyKeys -> ActionIds \cup {"none"}]
  BY <1>1 DEF ActionTypes
<1> QED BY <1>2, <1>3, <1>4, CallEnds

LEMMA ProposeStep ==
  ASSUME ActionsIInv, NEW c \in ActionCalls, NEW p \in ActionIds,
         NEW reply \in {"live", "ineligible", "rejected", "unavailable"},
         propose_action(c, p, reply)
  PROVE  ActionsIInv'
<1>1. /\ Free(c) /\ broker[p] = "unknown" /\ Told(c)
      /\ broker' = [broker EXCEPT ![p] = IF reply = "rejected" THEN @ ELSE "PROPOSED"]
      /\ _PROPOSALS' = IF reply \notin {"live", "ineligible"} THEN _PROPOSALS
                       ELSE [_PROPOSALS EXCEPT ![p] = reply]
      /\ UNCHANGED <<_COMMIT_KEYS, answered, restarts>>
  BY DEF propose_action
<1>2. ActionTypes
  BY DEF ActionsIInv
<1>3. BrokerGoesOn
  BY <1>1, <1>2 DEF ActionTypes, BrokerGoesOn, BrokerStates, Sorted
<1>4. _PROPOSALS' \in [ActionIds -> {"none", "live", "ineligible", "spent"}]
  BY <1>1, <1>2 DEF ActionTypes
<1>5. \A q \in ActionIds : _PROPOSALS'[q] = "live" =>
        \/ _PROPOSALS[q] = "live"
        \/ broker[q] = "unknown" /\ broker'[q] # "unknown"
  BY <1>1, <1>2 DEF ActionTypes
<1> QED BY <1>1, <1>3, <1>4, <1>5, ToldStep

LEMMA CommitStep ==
  ASSUME ActionsIInv, NEW c \in ActionCalls, NEW p \in ActionIds, NEW k \in IdempotencyKeys,
         commit_action(c, p, k)
  PROVE  ActionsIInv'
<1>1. /\ Free(c) /\ UNCHANGED <<broker, _PROPOSALS, answered, restarts>>
  BY DEF commit_action
<1>2. /\ ActionTypes /\ KeysAreHeld /\ TokensAreSpent
      /\ \A d \in ActionCalls : CallIsTrue(d)
  BY DEF ActionsIInv
<1>3. BrokerGoesOn
  BY <1>1, <1>2, BrokerStays
<1>4. CASE Told(c) /\ UNCHANGED _COMMIT_KEYS
  BY <1>1, <1>2, <1>3, <1>4, ToldStep DEF ActionTypes
<1>5. CASE /\ ActionTo(c, [NoAction EXCEPT !.at = "status", !.id = p, !.key = k])
           /\ UNCHANGED _COMMIT_KEYS
  <2> DEFINE to == [NoAction EXCEPT !.at = "status", !.id = p, !.key = k]
  <2>1. /\ to \in CallRecord /\ to.at = "status" /\ to.id = p /\ to.key = k
        /\ to.outcome = "none" /\ ActionTo(c, to)
    BY <1>5 DEF NoAction, CallRecord
  <2> HIDE DEF to
  <2>2. CallIsTrue(c)'
    BY <1>2, <2>1, CallSet DEF CallIsTrue, Underway
  <2> QED BY <1>1, <1>2, <1>3, <1>5, <2>1, <2>2, CallEnds DEF ActionTypes
<1>6. CASE /\ ~Bound(k, p) /\ _COMMIT_KEYS[k] # p /\ _PROPOSALS[p] = "live"
           /\ _COMMIT_KEYS' = [_COMMIT_KEYS EXCEPT ![k] = p]
           /\ ActionTo(c, [NoAction EXCEPT !.at = "sent", !.id = p, !.key = k])
  <2> DEFINE to == [NoAction EXCEPT !.at = "sent", !.id = p, !.key = k]
  <2>1. /\ to \in CallRecord /\ to.at = "sent" /\ to.id = p /\ to.key = k
        /\ to.outcome = "none" /\ ActionTo(c, to)
    BY <1>6 DEF NoAction, CallRecord
  <2> HIDE DEF to
  <2>2. /\ action' \in [ActionCalls -> CallRecord] /\ action'[c] = to
        /\ \A d \in ActionCalls : d # c => action'[d] = action[d]
    BY <1>2, <2>1, CallSet
  <2>3. _COMMIT_KEYS[k] = "none"
    BY <1>6 DEF Bound
  <2>4. \A d \in ActionCalls : Underway(d) => action[d].key # k
    <3>1. ASSUME NEW d \in ActionCalls, Underway(d), action[d].key = k PROVE FALSE
      <4>1. _COMMIT_KEYS[k] = action[d].id /\ action[d].id \in ActionIds
        BY <1>2, <3>1 DEF CallIsTrue, Underway
      <4> QED BY <2>3, <4>1, ActionsAssumption
    <3> QED BY <3>1
  <2>5. \A a \in answered : a[2] # k
    BY <1>2, <2>3, ActionsAssumption DEF KeysAreHeld, ActionTypes
  <2>6. /\ _COMMIT_KEYS' \in [IdempotencyKeys -> ActionIds \cup {"none"}] /\ _COMMIT_KEYS'[k] = p
        /\ \A l \in IdempotencyKeys : l # k => _COMMIT_KEYS'[l] = _COMMIT_KEYS[l]
    BY <1>2, <1>6 DEF ActionTypes
  <2>7. CallIsTrue(c)'
    BY <1>1, <1>2, <1>6, <2>1, <2>2, <2>6 DEF CallIsTrue, Underway, TokensAreSpent
  <2>8. ASSUME NEW d \in ActionCalls PROVE CallIsTrue(d)'
    <3>1. CASE d = c
      BY <2>7, <3>1
    <3>2. CASE d # c
      <4>1. Underway(d) => _COMMIT_KEYS'[action[d].key] = _COMMIT_KEYS[action[d].key]
        BY <1>2, <2>4, <2>6 DEF CallIsTrue, Underway
      <4> QED BY <1>2, <1>3, <2>2, <3>2, <4>1, CallStaysTrue
    <3> QED BY <3>1, <3>2
  <2>9. KeysAreHeld'
    <3>1. ASSUME NEW d \in ActionCalls, NEW e \in ActionCalls,
                 Underway(d)', Underway(e)', action'[d].key = action'[e].key
          PROVE  d = e
      BY <1>2, <2>1, <2>2, <2>4, <3>1 DEF KeysAreHeld, Underway
    <3>2. ASSUME NEW a \in answered
          PROVE  /\ _COMMIT_KEYS'[a[2]] = a[1]
                 /\ \A d \in ActionCalls : Underway(d)' => action'[d].key # a[2]
      <4>1. a[2] \in IdempotencyKeys /\ a[2] # k
        BY <1>2, <2>5 DEF ActionTypes
      <4> QED BY <1>2, <2>1, <2>2, <2>6, <4>1 DEF KeysAreHeld, Underway
    <3> QED BY <1>1, <3>1, <3>2 DEF KeysAreHeld
  <2>10. TokensAreSpent'
    BY <1>1, <1>2 DEF TokensAreSpent
  <2>11. ActionTypes'
    BY <1>1, <1>2, <2>2, <2>6 DEF ActionTypes
  <2> QED BY <2>8, <2>9, <2>10, <2>11 DEF ActionsIInv
<1> QED BY <1>4, <1>5, <1>6 DEF commit_action

LEMMA StatusOfStep ==
  ASSUME ActionsIInv, NEW c \in ActionCalls, NEW lost \in BOOLEAN, StatusOf(c, lost)
  PROVE  ActionsIInv'
<1> DEFINE p == action[c].id
           outcome == IF lost THEN "unavailable" ELSE IF Succeeded(broker[p]) THEN "success"
                      ELSE IF broker[p] \in Terminal THEN "over" ELSE "in_progress"
           to == [at |-> "over", id |-> p, key |-> action[c].key, reply |-> "none", outcome |-> outcome]
<1>1. /\ action[c].at = "status" /\ ActionTo(c, to)
      /\ UNCHANGED <<broker, _PROPOSALS, _COMMIT_KEYS, answered, restarts>>
  BY DEF StatusOf, Returns
<1>2. ActionTypes /\ CallIsTrue(c)
  BY DEF ActionsIInv
<1>3. p \in ActionIds /\ action[c].key \in IdempotencyKeys /\ broker[p] \in BrokerStates
  BY <1>1, <1>2 DEF CallIsTrue, ActionTypes
<1>4. /\ outcome \in {"success", "over", "in_progress", "unavailable"}
      /\ outcome = "success" => broker[p] = "EXECUTED"
      /\ outcome = "over" => broker[p] \in {"FAILED", "EXPIRED"}
  BY <1>3 DEF Succeeded, Terminal, BrokerStates
<1> HIDE DEF outcome
<1>5. to \in CallRecord /\ to.at = "over" /\ to.id = p /\ to.outcome = outcome
  BY <1>3, <1>4 DEF CallRecord
<1> HIDE DEF to
<1>6. CallIsTrue(c)'
  BY <1>1, <1>2, <1>3, <1>4, <1>5, CallSet DEF CallIsTrue, Underway
<1> QED BY <1>1, <1>2, <1>5, <1>6, BrokerStays, CallEnds DEF ActionTypes

LEMMA CarryStep ==
  ASSUME ActionsIInv, NEW c \in ActionCalls, NEW works \in BOOLEAN, Carry(c, works)
  PROVE  ActionsIInv'
<1> DEFINE p == action[c].id
           reply == IF broker[p] = "EXECUTED" THEN "DUPLICATE" ELSE broker'[p]
           to == [action[c] EXCEPT !.at = "carried", !.reply = reply]
<1>1. /\ action[c].at = "sent" /\ ActionTo(c, to)
      /\ broker' = [broker EXCEPT ![p] = IF @ # "PROPOSED" THEN @
                                         ELSE IF works THEN "EXECUTED" ELSE "FAILED"]
      /\ UNCHANGED <<_PROPOSALS, _COMMIT_KEYS, answered, restarts>>
  BY DEF Carry
<1>2. /\ ActionTypes /\ KeysAreHeld /\ TokensAreSpent /\ action[c] \in CallRecord
      /\ \A d \in ActionCalls : CallIsTrue(d)
  BY DEF ActionsIInv, ActionTypes
<1>3. /\ p \in ActionIds /\ action[c].key \in IdempotencyKeys /\ broker[p] \in BrokerStates
      /\ broker[p] # "unknown" /\ _COMMIT_KEYS[action[c].key] = p /\ action[c].outcome = "none"
  BY <1>1, <1>2 DEF CallIsTrue, ActionTypes, Underway
<1>4. broker'[p] = IF broker[p] # "PROPOSED" THEN broker[p]
                   ELSE IF works THEN "EXECUTED" ELSE "FAILED"
  BY <1>1, <1>2, <1>3 DEF ActionTypes
<1>5. broker'[p] \in Sorted /\ reply \in {"DUPLICATE"} \cup Sorted
      /\ (Succeeded(reply) <=> broker'[p] = "EXECUTED")
  BY <1>3, <1>4 DEF BrokerStates, Sorted, Succeeded
<1>6. BrokerGoesOn
  BY <1>1, <1>2, <1>3, <1>5 DEF ActionTypes, BrokerGoesOn, BrokerStates, Sorted
<1> HIDE DEF reply
<1>7. /\ to \in CallRecord /\ to.at = "carried" /\ to.id = p /\ to.key = action[c].key
      /\ to.reply = reply /\ to.outcome = "none"
  BY <1>2, <1>3, <1>5 DEF CallRecord
<1> HIDE DEF to, p
<1>8. /\ action' \in [ActionCalls -> CallRecord] /\ action'[c] = to
      /\ \A d \in ActionCalls : d # c => action'[d] = action[d]
  BY <1>1, <1>2, <1>7, CallSet
<1>9. ASSUME NEW d \in ActionCalls PROVE CallIsTrue(d)'
  <2>1. CASE d = c
    <3>1. broker'[p] # "unknown" /\ _COMMIT_KEYS'[action[c].key] = p
      BY <1>1, <1>3, <1>5 DEF Sorted
    <3> QED BY <1>3, <1>5, <1>7, <1>8, <2>1, <3>1 DEF CallIsTrue, Underway, Succeeded
  <2>2. CASE d # c
    BY <1>1, <1>2, <1>6, <1>8, <2>2, CallStaysTrue
  <2> QED BY <2>1, <2>2
<1>10. \A d \in ActionCalls : (Underway(d)' <=> Underway(d)) /\ action'[d].key = action[d].key
  BY <1>1, <1>7, <1>8 DEF Underway
<1>11. KeysAreHeld'
  BY <1>1, <1>2, <1>10 DEF KeysAreHeld
<1>12. TokensAreSpent'
  BY <1>1, <1>2, <1>6 DEF TokensAreSpent, BrokerGoesOn, ActionTypes
<1>13. ActionTypes'
  BY <1>1, <1>2, <1>6, <1>8 DEF ActionTypes, BrokerGoesOn
<1> QED BY <1>9, <1>11, <1>12, <1>13 DEF ActionsIInv

LEMMA CommitRepliesStep ==
  ASSUME ActionsIInv, NEW c \in ActionCalls, CommitReplies(c)
  PROVE  ActionsIInv'
<1> DEFINE p == action[c].id
           k == action[c].key
           outcome == IF Succeeded(action[c].reply) THEN "success" ELSE "failed"
           to == [at |-> "over", id |-> p, key |-> k, reply |-> "none", outcome |-> outcome]
<1>1. /\ action[c].at = "carried" /\ ActionTo(c, to)
      /\ _PROPOSALS' = [_PROPOSALS EXCEPT ![p] = "spent"]
      /\ answered' = answered \cup {<<p, k>>}
      /\ UNCHANGED <<broker, _COMMIT_KEYS, restarts>>
  BY DEF CommitReplies, Returns, SpendToken
<1>2. /\ ActionTypes /\ KeysAreHeld /\ TokensAreSpent
      /\ \A d \in ActionCalls : CallIsTrue(d)
  BY DEF ActionsIInv
<1>3. /\ p \in ActionIds /\ k \in IdempotencyKeys /\ broker[p] \in Sorted
      /\ _COMMIT_KEYS[k] = p /\ Underway(c)
      /\ Succeeded(action[c].reply) <=> broker[p] = "EXECUTED"
  BY <1>1, <1>2 DEF CallIsTrue, Underway
<1>4. /\ to \in CallRecord /\ to.at = "over" /\ to.id = p /\ to.outcome = outcome
  BY <1>3 DEF CallRecord
<1>5. /\ outcome = "success" => broker[p] = "EXECUTED"
      /\ outcome = "failed" => broker[p] \in {"FAILED", "EXPIRED"}
      /\ outcome \in {"success", "failed"}
  BY <1>3 DEF Sorted
<1> HIDE DEF to, outcome
<1>6. /\ action' \in [ActionCalls -> CallRecord] /\ action'[c] = to
      /\ \A d \in ActionCalls : d # c => action'[d] = action[d]
  BY <1>1, <1>2, <1>4, CallSet
<1>7. BrokerGoesOn
  BY <1>1, <1>2, BrokerStays
<1>8. ASSUME NEW d \in ActionCalls PROVE CallIsTrue(d)'
  <2>1. CASE d = c
    BY <1>1, <1>3, <1>4, <1>5, <1>6, <2>1 DEF CallIsTrue, Underway
  <2>2. CASE d # c
    BY <1>1, <1>2, <1>6, <1>7, <2>2, CallStaysTrue
  <2> QED BY <2>1, <2>2
<1>9. \A d \in ActionCalls : Underway(d)' => d # c /\ Underway(d) /\ action'[d] = action[d]
  BY <1>4, <1>6 DEF Underway
<1>10. KeysAreHeld'
  <2>1. \A d, e \in ActionCalls :
          Underway(d)' /\ Underway(e)' /\ action'[d].key = action'[e].key => d = e
    BY <1>2, <1>9 DEF KeysAreHeld
  <2>2. ASSUME NEW a \in answered'
        PROVE  /\ _COMMIT_KEYS'[a[2]] = a[1]
               /\ \A d \in ActionCalls : Underway(d)' => action'[d].key # a[2]
    <3>1. CASE a \in answered
      BY <1>1, <1>2, <1>9, <3>1 DEF KeysAreHeld
    <3>2. CASE a = <<p, k>>
      <4>1. a[1] = p /\ a[2] = k
        BY <3>2
      <4>2. \A d \in ActionCalls : Underway(d)' => action'[d].key # k
        BY <1>2, <1>3, <1>9 DEF KeysAreHeld
      <4> QED BY <1>1, <1>3, <4>1, <4>2
    <3> QED BY <1>1, <3>1, <3>2
  <2> QED BY <2>1, <2>2 DEF KeysAreHeld
<1>11. TokensAreSpent'
  <2>1. /\ _PROPOSALS'[p] = "spent"
        /\ \A q \in ActionIds : q # p => _PROPOSALS'[q] = _PROPOSALS[q]
    BY <1>1, <1>2, <1>3 DEF ActionTypes
  <2>2. \A q \in ActionIds : _PROPOSALS'[q] = "live" => broker'[q] # "unknown"
    BY <1>1, <1>2, <2>1 DEF TokensAreSpent
  <2>3. ASSUME NEW a \in answered' PROVE _PROPOSALS'[a[1]] # "live" /\ broker'[a[1]] # "unknown"
    <3>1. CASE a \in answered
      <4>1. a[1] \in ActionIds
        BY <1>2, <3>1 DEF ActionTypes
      <4> QED BY <1>1, <1>2, <2>1, <3>1, <4>1 DEF TokensAreSpent
    <3>2. CASE a = <<p, k>>
      BY <1>1, <1>3, <2>1, <3>2 DEF Sorted
    <3> QED BY <1>1, <3>1, <3>2
  <2> QED BY <2>2, <2>3 DEF TokensAreSpent
<1>12. ActionTypes'
  BY <1>1, <1>2, <1>3, <1>6, <1>7 DEF ActionTypes, BrokerGoesOn
<1> QED BY <1>8, <1>10, <1>11, <1>12 DEF ActionsIInv

LEMMA CommitRaisesStep ==
  ASSUME ActionsIInv, NEW c \in ActionCalls, CommitRaises(c)
  PROVE  ActionsIInv'
<1> DEFINE p == action[c].id
           k == action[c].key
           to == [at |-> "over", id |-> p, key |-> k, reply |-> "none", outcome |-> "unavailable"]
<1>1. /\ Underway(c) /\ ActionTo(c, to)
      /\ _COMMIT_KEYS' = [_COMMIT_KEYS EXCEPT ![k] = "none"]
      /\ UNCHANGED <<broker, _PROPOSALS, answered, restarts>>
  BY DEF CommitRaises, Returns, Underway
<1>2. ActionTypes /\ CallIsTrue(c)
  BY DEF ActionsIInv
<1>3. p \in ActionIds /\ k \in IdempotencyKeys
  BY <1>1, <1>2 DEF CallIsTrue, Underway
<1>4. /\ to \in CallRecord /\ to.at = "over" /\ to.id = p /\ to.outcome = "unavailable"
  BY <1>3 DEF CallRecord
<1> HIDE DEF to
<1>5. CallIsTrue(c)'
  BY <1>1, <1>2, <1>3, <1>4, CallSet DEF CallIsTrue, Underway
<1>6. /\ _COMMIT_KEYS' \in [IdempotencyKeys -> ActionIds \cup {"none"}]
      /\ \A l \in IdempotencyKeys : l # k => _COMMIT_KEYS'[l] = _COMMIT_KEYS[l]
  BY <1>1, <1>2 DEF ActionTypes
<1>7. _PROPOSALS' \in [ActionIds -> {"none", "live", "ineligible", "spent"}]
  BY <1>1, <1>2 DEF ActionTypes
<1> QED BY <1>1, <1>2, <1>4, <1>5, <1>6, <1>7, BrokerStays, CallEnds

LEMMA TokenExpiresStep ==
  ASSUME ActionsIInv, NEW p \in ActionIds, TokenExpires(p)
  PROVE  ActionsIInv'
<1>1. /\ broker[p] = "PROPOSED" /\ broker' = [broker EXCEPT ![p] = "EXPIRED"]
      /\ UNCHANGED <<_PROPOSALS, _COMMIT_KEYS, action, answered, restarts>>
  BY DEF TokenExpires
<1>2. /\ ActionTypes /\ KeysAreHeld /\ TokensAreSpent
      /\ \A d \in ActionCalls : CallIsTrue(d)
  BY DEF ActionsIInv
<1>3. BrokerGoesOn
  BY <1>1, <1>2 DEF ActionTypes, BrokerGoesOn, BrokerStates, Sorted
<1>4. \A d \in ActionCalls : CallIsTrue(d)'
  BY <1>1, <1>2, <1>3, CallStaysTrue
<1>5. KeysAreHeld'
  BY <1>1, <1>2 DEF KeysAreHeld, Underway
<1>6. TokensAreSpent'
  BY <1>1, <1>2, <1>3 DEF TokensAreSpent, BrokerGoesOn, ActionTypes
<1>7. ActionTypes'
  BY <1>1, <1>2, <1>3 DEF ActionTypes, BrokerGoesOn
<1> QED BY <1>4, <1>5, <1>6, <1>7 DEF ActionsIInv

LEMMA RestartStep ==
  ASSUME ActionsIInv, Restart
  PROVE  ActionsIInv'
<1>1. /\ restarts' = restarts + 1
      /\ _PROPOSALS' = [p \in ActionIds |-> "none"] /\ answered' = {}
      /\ _COMMIT_KEYS' = [k \in IdempotencyKeys |-> "none"]
      /\ action' = [c \in ActionCalls |-> IF action[c].at = "over" THEN action[c] ELSE NoAction]
  BY DEF Restart
<1>2. PICK done \in SUBSET {c \in ActionCalls : action[c].at = "sent"} :
        broker' = [p \in ActionIds |-> IF broker[p] = "PROPOSED" /\ \E c \in done : action[c].id = p
                                       THEN "EXECUTED" ELSE broker[p]]
  BY DEF Restart
<1>3. /\ ActionTypes /\ \A d \in ActionCalls : CallIsTrue(d)
  BY DEF ActionsIInv
<1>4. BrokerGoesOn
  BY <1>2, <1>3 DEF ActionTypes, BrokerGoesOn, BrokerStates, Sorted
<1>5. ASSUME NEW d \in ActionCalls PROVE CallIsTrue(d)' /\ ~Underway(d)'
  <2>1. CASE action[d].at = "over"
    <3>1. action'[d] = action[d] /\ ~Underway(d) /\ ~Underway(d)'
      BY <1>1, <2>1 DEF Underway
    <3> QED BY <1>3, <1>4, <3>1, CallStaysTrue
  <2>2. CASE action[d].at # "over"
    BY <1>1, <2>2, RestingIsTrue
  <2> QED BY <2>1, <2>2
<1>6. action' \in [ActionCalls -> CallRecord]
  BY <1>1, <1>3, NoActionIsACall DEF ActionTypes
<1>7. ActionTypes'
  BY <1>1, <1>3, <1>4, <1>6 DEF ActionTypes, BrokerGoesOn
<1>8. KeysAreHeld' /\ TokensAreSpent'
  BY <1>1, <1>5 DEF KeysAreHeld, TokensAreSpent
<1> QED BY <1>5, <1>7, <1>8 DEF ActionsIInv

LEMMA ActionsKept ==
  ASSUME ActionsIInv, [ActionsNext]_actionVars
  PROVE  ActionsIInv'
<1>1. CASE ActionsNext
  BY <1>1, RestartStep, TokenExpiresStep, ProposeStep, CommitStep, StatusOfStep, CarryStep,
     CommitRepliesStep, CommitRaisesStep DEF ActionsNext
<1>2. CASE UNCHANGED actionVars
  <2>1. /\ ActionTypes /\ KeysAreHeld /\ TokensAreSpent
        /\ \A d \in ActionCalls : CallIsTrue(d)
    BY DEF ActionsIInv
  <2>2. UNCHANGED <<broker, _PROPOSALS, _COMMIT_KEYS, action, answered, restarts>>
    BY <1>2 DEF actionVars
  <2>3. \A d \in ActionCalls : CallIsTrue(d)'
    BY <2>1, <2>2, BrokerStays, CallStaysTrue
  <2>4. ActionTypes' /\ KeysAreHeld' /\ TokensAreSpent'
    BY <2>1, <2>2 DEF ActionTypes, KeysAreHeld, Underway, TokensAreSpent
  <2> QED BY <2>3, <2>4 DEF ActionsIInv
<1> QED BY <1>1, <1>2

\* The inductive invariant of the writes: through lost replies, overlapping
\* commits, expiring tokens and restarts.
THEOREM ActionsInductive == ActionsSpec => []ActionsIInv
<1>1. ActionsInit => ActionsIInv
  <2> SUFFICES ASSUME ActionsInit PROVE ActionsIInv
    OBVIOUS
  <2>1. ActionTypes
    BY NoActionIsACall DEF ActionsInit, ActionTypes, BrokerStates
  <2>2. ASSUME NEW c \in ActionCalls PROVE CallIsTrue(c) /\ ~Underway(c)
    BY DEF ActionsInit, NoAction, CallIsTrue, Underway
  <2> QED
    BY <2>1, <2>2 DEF ActionsInit, ActionsIInv, KeysAreHeld, TokensAreSpent
<1> QED BY <1>1, ActionsKept, PTL DEF ActionsSpec

\* A write to the outside is reported as what it was, and a key that was answered
\* stands for one action as long as the process lives: for any number of tool
\* calls, actions, keys and restarts.
THEOREM WritesAreToldTrue == ActionsSpec => []ActionsInv
<1>1. ActionsIInv => ActionsInv
  <2> SUFFICES ASSUME ActionsIInv PROVE ActionsInv
    OBVIOUS
  <2>1. CommitIsTold
    BY DEF ActionsIInv, CallIsTrue, CommitIsTold
  <2>2. KeyKeepsItsAction
    BY DEF ActionsIInv, KeysAreHeld, KeyKeepsItsAction
  <2> QED BY <2>1, <2>2 DEF ActionsInv
<1> QED BY <1>1, ActionsInductive, PTL

\* A token that brought a reply is never sent again, under any key.
THEOREM TokensAreSentOnce == ActionsSpec => SpentIsSpent
<1>1. ASSUME ActionsIInv, ActionsNext, NEW c \in ActionCalls, Free(c), action'[c].at = "sent",
             NEW a \in answered
      PROVE  a[1] # action'[c].id
  <2>1. ActionTypes /\ TokensAreSpent /\ a[1] \in ActionIds
    BY <1>1 DEF ActionsIInv, ActionTypes
  <2>3. \E p \in ActionIds, k \in IdempotencyKeys : commit_action(c, p, k)
    <3>1. ASSUME Restart PROVE FALSE
      BY <1>1, <3>1 DEF Restart, NoAction, Free
    <3>2. ASSUME NEW p \in ActionIds, TokenExpires(p) PROVE FALSE
      BY <1>1, <3>2 DEF TokenExpires, Free
    <3>3. ASSUME NEW d \in ActionCalls, NEW to, ActionTo(d, to), d = c => to.at # "sent"
          PROVE  FALSE
      <4>1. action'[c] = IF c = d THEN to ELSE action[c]
        BY <2>1, <3>3 DEF ActionTo, ActionTypes
      <4> QED BY <1>1, <3>3, <4>1 DEF Free
    <3>4. ASSUME NEW d \in ActionCalls, Told(d) PROVE FALSE
      <4>1. NoAction.at # "sent"
        BY DEF NoAction
      <4> QED BY <3>3, <3>4, <4>1 DEF Told
    <3>5. ASSUME NEW d \in ActionCalls, NEW p, NEW k, NEW outcome, Returns(d, p, k, outcome) PROVE FALSE
      <4> DEFINE to == [at |-> "over", id |-> p, key |-> k, reply |-> "none", outcome |-> outcome]
      <4>1. ActionTo(d, to) /\ to.at # "sent"
        BY <3>5 DEF Returns
      <4> HIDE DEF to
      <4> QED BY <3>3, <4>1
    <3>6. ASSUME NEW d \in ActionCalls, NEW works \in BOOLEAN, Carry(d, works) PROVE FALSE
      <4>1. PICK reply : ActionTo(d, [action[d] EXCEPT !.at = "carried", !.reply = reply])
        BY <3>6 DEF Carry
      <4> DEFINE to == [action[d] EXCEPT !.at = "carried", !.reply = reply]
      <4>2. to.at # "sent"
        BY <2>1 DEF ActionTypes, CallRecord
      <4> HIDE DEF to
      <4>3. ActionTo(d, to)
        BY <4>1 DEF to
      <4> QED BY <3>3, <4>2, <4>3
    <3>7. ASSUME NEW d \in ActionCalls, d # c, NEW p \in ActionIds, NEW k \in IdempotencyKeys,
                 commit_action(d, p, k)
          PROVE  FALSE
      <4> DEFINE status == [NoAction EXCEPT !.at = "status", !.id = p, !.key = k]
                 sent == [NoAction EXCEPT !.at = "sent", !.id = p, !.key = k]
      <4>1. Told(d) \/ ActionTo(d, status) \/ ActionTo(d, sent)
        BY <3>7 DEF commit_action
      <4> HIDE DEF status, sent
      <4>2. \A to : ~ActionTo(d, to)
        BY <3>3, <3>7
      <4> QED BY <3>4, <4>1, <4>2
    <3>8. ASSUME NEW d \in ActionCalls, NEW p \in ActionIds,
                 NEW reply \in {"live", "ineligible", "rejected", "unavailable"},
                 propose_action(d, p, reply)
          PROVE  FALSE
      BY <3>4, <3>8 DEF propose_action
    <3>9. ASSUME NEW d \in ActionCalls, NEW flag \in BOOLEAN, StatusOf(d, flag) PROVE FALSE
      BY <3>5, <3>9 DEF StatusOf
    <3>10. ASSUME NEW d \in ActionCalls, CommitReplies(d) \/ CommitRaises(d) PROVE FALSE
      BY <3>5, <3>10 DEF CommitReplies, CommitRaises
    <3>11. PICK d \in ActionCalls, p \in ActionIds, k \in IdempotencyKeys : commit_action(d, p, k)
      BY <1>1, <3>1, <3>2, <3>6, <3>8, <3>9, <3>10 DEF ActionsNext
    <3> QED BY <3>7, <3>11
  <2>4. PICK p \in ActionIds, k \in IdempotencyKeys : commit_action(c, p, k)
    BY <2>3
  <2> DEFINE status == [NoAction EXCEPT !.at = "status", !.id = p, !.key = k]
             sent == [NoAction EXCEPT !.at = "sent", !.id = p, !.key = k]
  <2>5. /\ _PROPOSALS[p] = "live"
        /\ action'[c] = sent
    <3>1. NoAction.at # "sent" /\ status.at # "sent"
      BY DEF NoAction
    <3>2. /\ \/ Told(c) \/ ActionTo(c, status)
             \/ ActionTo(c, sent) /\ _PROPOSALS[p] = "live"
      BY <2>4 DEF commit_action
    <3> HIDE DEF status, sent
    <3>3. \A to : ActionTo(c, to) => action'[c] = to
      BY <2>1 DEF ActionTo, ActionTypes
    <3> QED BY <1>1, <3>1, <3>2, <3>3 DEF Told
  <2>6. action'[c].id = p
    BY <2>5 DEF NoAction, sent
  <2> QED BY <2>1, <2>5, <2>6 DEF TokensAreSpent
<1>2. ASSUME ActionsIInv, [ActionsNext]_actionVars
      PROVE  [\A c \in ActionCalls : Free(c) /\ action'[c].at = "sent" =>
                \A a \in answered : a[1] # action'[c].id]_actionVars
  BY <1>1, <1>2
<1> QED BY <1>2, ActionsInductive, PTL DEF ActionsSpec, SpentIsSpent

-----------------------------------------------------------------------------
\* ModelRouting.
HealthRecord == [failures : 0..Threshold, open : -1..Cooldown, probing : BOOLEAN, cooling : 0..Cooldown]
CallerRecord == [chain : Seq(Models), next : Nat, probe : BOOLEAN, tried : Nat,
                 at : {"idle", "choosing", "calling", "served", "failed"}]
RoutingTypes ==
  /\ gate \in Gates
  /\ health \in [Models -> HealthRecord]
  /\ known \subseteq Models /\ abandoned \subseteq Models
  /\ caller \in [Callers -> CallerRecord]

\* No more calls than places of the chain were passed.
Along(r) ==
  /\ r.next \in 1..Len(r.chain) + 1 /\ Len(r.chain) <= Len(Order) /\ r.tried <= r.next
  /\ r.tried <= Len(r.chain)
  /\ r.at = "choosing" => r.tried < r.next
  /\ r.at = "calling" => r.next <= Len(r.chain)

OnlyBreakersProbe == gate = "chain" => \A m \in Models : ~health[m].probing

\* A request that gave up without a call left a known model out of its chain.
Tries(r, models) ==
  /\ r.at = "choosing" => Len(r.chain) >= 1 /\ (r.tried = 0 => r.next = 1)
  /\ r.at = "calling" => r.tried > 0
  /\ r.at = "failed" /\ models \subseteq ModelsOf(r.chain) => r.tried > 0
ChainsTry == gate = "chain" => \A c \in Callers : Tries(caller[c], known)

RoutingIInv ==
  /\ RoutingTypes
  /\ \A c \in Callers : Along(caller[c])
  /\ OnlyBreakersProbe
  /\ ProbeHasCaller
  /\ ChainsTry

LEMMA RestingIsACaller ==
  ASSUME NEW chain \in Seq(Models), Len(chain) <= Len(Order),
         NEW to \in {Resting, [Resting EXCEPT !.at = "served"],
                     [Resting EXCEPT !.at = "choosing", !.chain = chain]}
  PROVE  /\ to \in CallerRecord /\ Along(to)
         /\ to.next = 1 /\ to.tried = 0 /\ to.at \in {"idle", "served", "choosing"}
         /\ to.at = "choosing" => to.chain = chain
<1>1. /\ <<>> \in Seq(Models) /\ Len(<<>>) = 0 /\ Len(Order) \in Nat /\ Len(chain) \in Nat
      /\ 0 \in Nat /\ 1 \in Nat
  BY RoutingAssumption
<1>2. CASE to = Resting
  <2>1. to = [chain |-> <<>>, next |-> 1, at |-> "idle", probe |-> FALSE, tried |-> 0]
    BY <1>2 DEF Resting
  <2>2. to \in CallerRecord
    BY <1>1, <2>1 DEF CallerRecord
  <2> QED BY <1>1, <2>1, <2>2 DEF Along
<1>3. CASE to = [Resting EXCEPT !.at = "served"]
  <2>1. to.chain = <<>> /\ to.next = 1 /\ to.at = "served" /\ to.tried = 0
    BY <1>3 DEF Resting
  <2>2. to \in CallerRecord
    BY <1>1, <1>3 DEF CallerRecord, Resting
  <2> QED BY <1>1, <2>1, <2>2 DEF Along
<1>4. CASE to = [Resting EXCEPT !.at = "choosing", !.chain = chain]
  <2>1. to.chain = chain /\ to.next = 1 /\ to.at = "choosing" /\ to.tried = 0
    BY <1>4 DEF Resting
  <2>2. to \in CallerRecord
    BY <1>1, <1>4 DEF CallerRecord, Resting
  <2> QED BY <1>1, <2>1, <2>2 DEF Along
<1> QED BY <1>2, <1>3, <1>4

\* One request moves, the others stay where they are.
LEMMA CallerMoves ==
  ASSUME caller \in [Callers -> CallerRecord], NEW c \in Callers, NEW to \in CallerRecord,
         caller' = [caller EXCEPT ![c] = to]
  PROVE  /\ caller' \in [Callers -> CallerRecord] /\ caller'[c] = to
         /\ \A d \in Callers : d # c => caller'[d] = caller[d]
OBVIOUS

\* Where a request is, its model is one of the chain's.
LEMMA CurrentIsAModel ==
  ASSUME RoutingTypes, NEW c \in Callers, Along(caller[c]), caller[c].at = "calling"
  PROVE  /\ Current(c) \in Models /\ Len(caller[c].chain) \in Nat /\ caller[c].next \in Nat
         /\ caller[c].next \in 1..Len(caller[c].chain) /\ caller[c].chain \in Seq(Models)
<1>1. caller[c].chain \in Seq(Models) /\ caller[c].next \in Nat
  BY DEF RoutingTypes, CallerRecord
<1>2. Len(caller[c].chain) \in Nat
  BY <1>1
<1>3. caller[c].next \in 1..Len(caller[c].chain)
  BY <1>1, <1>2 DEF Along
<1> QED BY <1>1, <1>2, <1>3 DEF Current

\* A probe's caller that stays keeps it; one whose caller was cancelled stays so.
LEMMA ProbesStay ==
  ASSUME ProbeHasCaller, NEW c,
         \A d \in Callers : d # c => caller'[d] = caller[d],
         NEW m \in Models, health[m].probing, m \in abandoned => m \in abandoned',
         ~Probes(c, m)
  PROVE  m \in abandoned' \/ \E d \in Callers : Probes(d, m)'
<1>1. CASE m \in abandoned
  BY <1>1
<1>2. CASE m \notin abandoned
  <2>1. PICK d \in Callers : Probes(d, m)
    BY <1>2 DEF ProbeHasCaller
  <2>2. d # c /\ caller'[d] = caller[d]
    BY <2>1
  <2>3. Probes(d, m)'
    BY <2>1, <2>2 DEF Probes, Current
  <2> QED BY <2>1, <2>3
<1> QED BY <1>1, <1>2

LEMMA HealthyIsARecord ==
  Healthy \in HealthRecord /\ ~Healthy.probing /\ Healthy.open = -1
<1>1. 0 \in 0..Threshold /\ -1 \in -1..Cooldown /\ 0 \in 0..Cooldown
  BY RoutingAssumption
<1> QED BY <1>1 DEF Healthy, HealthRecord

LEMMA StartStep ==
  ASSUME RoutingIInv, NEW c \in Callers,
         NEW chain \in (IF gate = "breaker" THEN {Order} ELSE Chains), Start(c, chain)
  PROVE  RoutingIInv'
<1> DEFINE to == [Resting EXCEPT !.at = "choosing", !.chain = chain]
<1>1. /\ caller[c].at = "idle" /\ caller' = [caller EXCEPT ![c] = to]
      /\ known' = IF gate = "chain" THEN known \cup ModelsOf(chain) ELSE known
      /\ UNCHANGED <<gate, health, abandoned>>
  BY DEF Start
<1>2. RoutingTypes /\ OnlyBreakersProbe /\ ProbeHasCaller /\ \A d \in Callers : Along(caller[d])
  BY DEF RoutingIInv
<1>3. chain \in Seq(Models) /\ Len(chain) \in Nat /\ Len(chain) <= Len(Order) /\ Len(Order) \in Nat
  BY RoutingAssumption
<1>4. to.next = 1 /\ to.tried = 0 /\ to.at = "choosing" /\ to.chain = chain
  BY <1>3, RestingIsACaller DEF Resting
<1>5. to \in CallerRecord /\ Along(to)
  BY <1>3, RestingIsACaller
<1> HIDE DEF to
<1>6. /\ caller' \in [Callers -> CallerRecord] /\ caller'[c] = to
      /\ \A d \in Callers : d # c => caller'[d] = caller[d]
  BY <1>1, <1>2, <1>5, CallerMoves DEF RoutingTypes
<1>7. ModelsOf(chain) \subseteq Models
  BY <1>3 DEF ModelsOf
<1>8. RoutingTypes'
  BY <1>1, <1>2, <1>6, <1>7 DEF RoutingTypes
<1>9. \A d \in Callers : Along(caller'[d])
  BY <1>2, <1>5, <1>6
<1>10. ProbeHasCaller'
  <2> SUFFICES ASSUME NEW m \in Models, health'[m].probing
               PROVE  m \in abandoned' \/ \E d \in Callers : Probes(d, m)'
    BY DEF ProbeHasCaller
  <2>1. ~Probes(c, m) /\ health[m].probing
    BY <1>1 DEF Probes
  <2> QED BY <1>1, <1>2, <1>6, <2>1, ProbesStay
<1>11. OnlyBreakersProbe'
  BY <1>1, <1>2 DEF OnlyBreakersProbe
<1>12. ChainsTry'
  <2> SUFFICES ASSUME gate' = "chain", NEW d \in Callers
               PROVE  Tries(caller[d], known)'
    BY DEF ChainsTry
  <2>1. gate = "chain" /\ chain \in Chains /\ known' = known \cup ModelsOf(chain)
    BY <1>1
  <2>2. CASE d = c
    <3>1. Len(chain) >= 1
      BY <1>3, <2>1, RoutingAssumption
    <3> QED BY <1>4, <1>6, <2>2, <3>1 DEF Tries
  <2>3. CASE d # c
    <3>1. Tries(caller[d], known)
      BY <2>1 DEF RoutingIInv, ChainsTry
    <3>2. caller'[d] = caller[d]
      BY <1>6, <2>3
    <3> QED BY <2>1, <3>1, <3>2 DEF Tries
  <2> QED BY <2>2, <2>3
<1>13. (\A d \in Callers : Along(caller[d]))'
  BY <1>9 DEF Along
<1> QED BY <1>8, <1>10, <1>11, <1>12, <1>13 DEF RoutingIInv

\* What a move of one request leaves to show: of the request itself, of the
\* probes, and of what the health has become.
LEMMA RequestMoves ==
  ASSUME RoutingIInv, NEW c \in Callers, NEW to \in CallerRecord, Along(to),
         caller' = [caller EXCEPT ![c] = to], UNCHANGED <<gate, known>>, abandoned' \subseteq Models,
         health' \in [Models -> HealthRecord], OnlyBreakersProbe',
         \A m \in Models : health'[m].probing =>
           \/ m \in abandoned'
           \/ to.at = "calling" /\ to.probe /\ to.chain[to.next] = m
           \/ /\ health[m].probing /\ (m \in abandoned => m \in abandoned')
              /\ ~Probes(c, m),
         gate = "chain" /\ Tries(caller[c], known) => Tries(to, known)
  PROVE  RoutingIInv'
<1>1. RoutingTypes /\ ProbeHasCaller /\ \A d \in Callers : Along(caller[d])
  BY DEF RoutingIInv
<1>2. /\ caller' \in [Callers -> CallerRecord] /\ caller'[c] = to
      /\ \A d \in Callers : d # c => caller'[d] = caller[d]
  BY <1>1, CallerMoves DEF RoutingTypes
<1>3. RoutingTypes'
  BY <1>1, <1>2 DEF RoutingTypes
<1>4. (\A d \in Callers : Along(caller[d]))'
  <2>1. \A d \in Callers : Along(caller'[d])
    BY <1>1, <1>2
  <2> QED BY <2>1 DEF Along
<1>5. ProbeHasCaller'
  <2> SUFFICES ASSUME NEW m \in Models, health'[m].probing
               PROVE  m \in abandoned' \/ \E d \in Callers : Probes(d, m)'
    BY DEF ProbeHasCaller
  <2>1. CASE m \in abandoned'
    BY <2>1
  <2>2. CASE to.at = "calling" /\ to.probe /\ to.chain[to.next] = m
    BY <1>2, <2>2 DEF Probes, Current
  <2>3. CASE health[m].probing /\ (m \in abandoned => m \in abandoned') /\ ~Probes(c, m)
    BY <1>1, <1>2, <2>3, ProbesStay
  <2> QED BY <2>1, <2>2, <2>3
<1>6. ChainsTry'
  <2> SUFFICES ASSUME gate' = "chain", NEW d \in Callers
               PROVE  Tries(caller[d], known)'
    BY DEF ChainsTry
  <2>1. gate = "chain" /\ known' = known /\ \A e \in Callers : Tries(caller[e], known)
    BY DEF RoutingIInv, ChainsTry
  <2>2. Tries(caller'[d], known)
    BY <1>2, <2>1
  <2> QED BY <2>1, <2>2 DEF Tries
<1> QED BY <1>3, <1>4, <1>5, <1>6 DEF RoutingIInv

LEMMA HealthChanges ==
  ASSUME RoutingTypes, NEW m \in Models, NEW h \in HealthRecord,
         health' = [health EXCEPT ![m] = h]
  PROVE  /\ health' \in [Models -> HealthRecord] /\ health'[m] = h
         /\ \A n \in Models : n # m => health'[n] = health[n]
BY DEF RoutingTypes

LEMMA RouteStep ==
  ASSUME RoutingIInv, NEW c \in Callers, Route(c)
  PROVE  RoutingIInv'
<1> DEFINE chain == caller[c].chain
           open == {i \in caller[c].next..Len(chain) : ~Refuses(chain[i])}
           i == CHOOSE i \in open : \A j \in open : i <= j
           m == chain[i]
<1>1. caller[c].at = "choosing" /\ UNCHANGED <<gate, known, abandoned>>
  BY DEF Route
<1>2. RoutingTypes /\ OnlyBreakersProbe /\ Along(caller[c])
  BY DEF RoutingIInv
<1>8. abandoned' \subseteq Models /\ \A n : ~Probes(c, n)
  BY <1>1, <1>2 DEF RoutingTypes, Probes
<1>3. /\ caller[c] \in CallerRecord /\ chain \in Seq(Models) /\ Len(chain) \in Nat
      /\ caller[c].next \in Nat /\ caller[c].tried \in Nat
  BY <1>2 DEF RoutingTypes, CallerRecord
<1>4. /\ caller[c].next \in 1..Len(chain) + 1 /\ Len(chain) <= Len(Order)
      /\ caller[c].tried < caller[c].next
  BY <1>1, <1>2 DEF Along
<1>5. open \subseteq 1..Len(chain) /\ Len(Order) \in Nat
  BY <1>3, <1>4, RoutingAssumption
<1>6. CASE open = {}
  <2> DEFINE to == [caller[c] EXCEPT !.at = "failed"]
  <2>1. caller' = [caller EXCEPT ![c] = to] /\ UNCHANGED health
    BY <1>2, <1>6 DEF Route, RoutingTypes
  <2>2. /\ to \in CallerRecord /\ to.at = "failed" /\ to.chain = chain
        /\ to.next = caller[c].next /\ to.tried = caller[c].tried
    BY <1>3 DEF CallerRecord
  <2> HIDE DEF to
  <2>3. Along(to)
    BY <1>3, <1>4, <1>5, <2>2 DEF Along
  <2>4. health' \in [Models -> HealthRecord] /\ OnlyBreakersProbe'
    BY <1>1, <1>2, <2>1 DEF RoutingTypes, OnlyBreakersProbe
  \* A model that is skipped has another that is not; it would be open.
  <2>5. ASSUME gate = "chain", Tries(caller[c], known) PROVE Tries(to, known)
    <3> SUFFICES ASSUME known \subseteq ModelsOf(chain), caller[c].tried = 0 PROVE FALSE
      BY <1>3, <2>2 DEF Tries
    <3>1. caller[c].next = 1 /\ Len(chain) >= 1
      BY <1>1, <2>5 DEF Tries
    <3>2. \A k \in 1..Len(chain) : should_skip(chain[k])
      BY <1>6, <2>5, <3>1 DEF Refuses
    <3>3. should_skip(chain[1])
      BY <1>3, <3>1, <3>2
    <3>4. PICK other \in known \ {chain[1]} : health[other].cooling = 0
      BY <3>3 DEF should_skip
    <3>5. PICK k \in DOMAIN chain : chain[k] = other
      BY <3>4 DEF ModelsOf
    <3>6. should_skip(other)
      BY <1>3, <3>2, <3>5
    <3> QED BY <3>4, <3>6 DEF should_skip
  <2>6. \A n \in Models : health'[n].probing =>
          health[n].probing /\ (n \in abandoned => n \in abandoned') /\ ~Probes(c, n)
    BY <1>1, <1>8, <2>1
  <2> QED BY <1>1, <1>8, <2>1, <2>2, <2>3, <2>4, <2>5, <2>6, RequestMoves
<1>7. CASE open # {}
  <2> DEFINE to == [caller[c] EXCEPT !.at = "calling", !.next = i,
                                     !.probe = health[m].open = 0, !.tried = @ + 1]
  <2>1. /\ caller' = [caller EXCEPT ![c] = to]
        /\ health' = IF gate = "breaker" THEN Admitted(m) ELSE health
    BY <1>2, <1>7 DEF Route, RoutingTypes
  <2>2. i \in open
    <3>1. open \subseteq Nat
      BY <1>5
    <3> HIDE DEF open
    <3> QED BY <1>7, <3>1, LeastIsChosen
  <2> HIDE DEF i
  <2>3. /\ i \in Nat /\ i \in caller[c].next..Len(chain) /\ i \in 1..Len(chain)
        /\ m \in Models /\ ~Refuses(m)
    BY <1>3, <1>5, <2>2
  <2> HIDE DEF m
  <2> DEFINE probe == health[m].open = 0
  <2>4. /\ to.at = "calling" /\ to.chain = chain /\ to.next = i
        /\ to.probe = probe /\ to.tried = caller[c].tried + 1
    BY <1>3 DEF CallerRecord
  <2>5. to \in CallerRecord
    <3>1. probe \in BOOLEAN /\ caller[c].tried + 1 \in Nat
      BY <1>3
    <3> HIDE DEF probe
    <3> QED BY <1>3, <2>3, <3>1 DEF CallerRecord
  <2> HIDE DEF to
  <2>6. Along(to)
    BY <1>3, <1>4, <1>5, <2>3, <2>4 DEF Along
  <2>7. Tries(to, known)
    BY <1>3, <2>4 DEF Tries
  <2>8. m = to.chain[to.next]
    BY <2>4 DEF m
  <2>9. CASE gate = "breaker"
    <3> DEFINE h == [health[m] EXCEPT !.probing = @ \/ health[m].open = 0]
    <3>1. health' = [health EXCEPT ![m] = h]
      BY <1>2, <2>1, <2>3, <2>9 DEF Admitted, RoutingTypes
    <3>2. /\ h \in HealthRecord
          /\ h.probing => health[m].probing \/ health[m].open = 0
      BY <1>2, <2>3 DEF RoutingTypes, HealthRecord
    <3> HIDE DEF h
    <3>3. /\ health' \in [Models -> HealthRecord] /\ health'[m] = h
          /\ \A n \in Models : n # m => health'[n] = health[n]
      BY <1>2, <2>3, <3>1, <3>2, HealthChanges
    <3>4. OnlyBreakersProbe'
      BY <1>1, <2>9 DEF OnlyBreakersProbe
    <3>5. ASSUME NEW n \in Models, health'[n].probing
          PROVE  \/ to.at = "calling" /\ to.probe /\ to.chain[to.next] = n
                 \/ /\ health[n].probing /\ (n \in abandoned => n \in abandoned')
                    /\ ~Probes(c, n)
      BY <1>1, <1>8, <2>4, <2>8, <3>2, <3>3, <3>5
    <3> QED BY <1>1, <1>8, <2>1, <2>5, <2>6, <2>7, <3>3, <3>4, <3>5, RequestMoves
  <2>10. CASE gate # "breaker"
    <3>1. health' = health
      BY <2>1, <2>10
    <3>2. health' \in [Models -> HealthRecord] /\ OnlyBreakersProbe'
      BY <1>1, <1>2, <3>1 DEF RoutingTypes, OnlyBreakersProbe
    <3>3. \A n \in Models : health'[n].probing =>
            health[n].probing /\ (n \in abandoned => n \in abandoned') /\ ~Probes(c, n)
      BY <1>1, <1>8, <3>1
    <3> QED BY <1>1, <1>8, <2>1, <2>5, <2>6, <2>7, <3>2, <3>3, RequestMoves
  <2> QED BY <2>9, <2>10
<1> QED BY <1>6, <1>7

LEMMA ServeStep ==
  ASSUME RoutingIInv, NEW c \in Callers, Serve(c)
  PROVE  RoutingIInv'
<1> DEFINE to == [Resting EXCEPT !.at = "served"]
           m == Current(c)
<1>1. /\ caller[c].at = "calling" /\ caller' = [caller EXCEPT ![c] = to]
      /\ health' = [health EXCEPT ![m] = Healthy] /\ UNCHANGED <<gate, known>>
      /\ abandoned' = abandoned \ {m}
  BY DEF Serve, record_success
<1>2. RoutingTypes /\ OnlyBreakersProbe /\ Along(caller[c])
  BY DEF RoutingIInv
<1>3. m \in Models /\ Len(<<>>) <= Len(Order) /\ <<>> \in Seq(Models)
  BY <1>1, <1>2, CurrentIsAModel, RoutingAssumption
<1>4. to \in CallerRecord /\ Along(to)
  BY <1>3, RestingIsACaller
<1>5. to.at = "served"
  BY DEF Resting
<1> HIDE DEF to
<1>6. /\ health' \in [Models -> HealthRecord] /\ health'[m] = Healthy
      /\ \A n \in Models : n # m => health'[n] = health[n]
  BY <1>1, <1>2, <1>3, HealthyIsARecord, HealthChanges
<1>7. OnlyBreakersProbe'
  BY <1>1, <1>2, <1>6, HealthyIsARecord DEF OnlyBreakersProbe
<1>8. \A n \in Models : health'[n].probing =>
        health[n].probing /\ (n \in abandoned => n \in abandoned') /\ ~Probes(c, n)
  BY <1>1, <1>6, HealthyIsARecord DEF Probes
<1>10. abandoned' \subseteq Models
  BY <1>1, <1>2 DEF RoutingTypes
<1>9. Tries(to, known)
  BY <1>5 DEF Tries
<1> QED BY <1>1, <1>4, <1>6, <1>7, <1>8, <1>9, <1>10, RequestMoves

LEMMA FailStep ==
  ASSUME RoutingIInv, NEW c \in Callers, NEW retryable \in BOOLEAN, Fail(c, retryable)
  PROVE  RoutingIInv'
<1> DEFINE at == IF retryable THEN "choosing" ELSE "failed"
           to == [caller[c] EXCEPT !.at = at, !.next = @ + 1]
           m == Current(c)
           n == IF health[m].failures < Threshold THEN health[m].failures + 1 ELSE Threshold
           broken == [health[m] EXCEPT !.failures = n, !.probing = FALSE,
                                       !.open = IF n >= Threshold THEN Cooldown ELSE @]
           cooled == [health[m] EXCEPT !.cooling = Cooldown]
<1>1. caller[c].at = "calling" /\ UNCHANGED <<gate, known>> /\ abandoned' = abandoned \ {m}
  BY DEF Fail
<1>2. RoutingTypes /\ OnlyBreakersProbe /\ Along(caller[c])
  BY DEF RoutingIInv
<1>3. caller' = [caller EXCEPT ![c] = to]
  BY <1>2 DEF Fail, RoutingTypes
<1>4. /\ m \in Models /\ Len(caller[c].chain) \in Nat /\ caller[c].next \in Nat
      /\ caller[c].next \in 1..Len(caller[c].chain)
  BY <1>1, <1>2, CurrentIsAModel
<1> HIDE DEF m
<1>5. caller[c] \in CallerRecord /\ caller[c].tried \in Nat
  BY <1>2 DEF RoutingTypes, CallerRecord
<1>6. at \in {"choosing", "failed"}
  OBVIOUS
<1> HIDE DEF at
<1>7. /\ to \in CallerRecord /\ to.at = at /\ to.chain = caller[c].chain
      /\ to.next = caller[c].next + 1 /\ to.tried = caller[c].tried
  <2>1. caller[c].next + 1 \in Nat
    BY <1>4
  <2>2. to \in CallerRecord
    BY <1>5, <1>6, <2>1 DEF CallerRecord
  <2> QED BY <1>5, <2>2 DEF CallerRecord
<1> HIDE DEF to
<1>8. Along(to)
  BY <1>1, <1>2, <1>4, <1>5, <1>6, <1>7 DEF Along
<1>9. Tries(caller[c], known) => Tries(to, known)
  BY <1>1, <1>4, <1>5, <1>6, <1>7 DEF Tries
<1>13. abandoned' \subseteq Models
  BY <1>1, <1>2 DEF RoutingTypes
<1>10. health[m] \in HealthRecord
  BY <1>2, <1>4 DEF RoutingTypes
<1>11. CASE gate = "breaker"
  <2>1. health' = [health EXCEPT ![m] = broken]
    BY <1>2, <1>4, <1>11 DEF Fail, record_failure, RoutingTypes, m
  <2>2. n \in 0..Threshold
    BY <1>10, RoutingAssumption DEF HealthRecord
  <2> HIDE DEF n
  <2>3. Cooldown \in -1..Cooldown
    BY RoutingAssumption
  <2>4. broken \in HealthRecord /\ ~broken.probing
    BY <1>10, <2>2, <2>3 DEF HealthRecord
  <2> HIDE DEF broken
  <2>5. /\ health' \in [Models -> HealthRecord] /\ health'[m] = broken
        /\ \A x \in Models : x # m => health'[x] = health[x]
    BY <1>2, <1>4, <2>1, <2>4, HealthChanges
  <2>6. OnlyBreakersProbe'
    BY <1>1, <1>11 DEF OnlyBreakersProbe
  <2>7. \A x \in Models : health'[x].probing =>
          health[x].probing /\ (x \in abandoned => x \in abandoned') /\ ~Probes(c, x)
    BY <1>1, <2>4, <2>5 DEF m, Probes
  <2> QED BY <1>1, <1>3, <1>7, <1>8, <1>9, <1>13, <2>5, <2>6, <2>7, RequestMoves
<1>12. CASE gate # "breaker"
  <2>1. health' = health \/ health' = [health EXCEPT ![m] = cooled]
    BY <1>2, <1>4, <1>12 DEF Fail, RoutingTypes, m
  <2>2. Cooldown \in 0..Cooldown
    BY RoutingAssumption
  <2>3. cooled \in HealthRecord /\ cooled.probing = health[m].probing
    BY <1>10, <2>2 DEF HealthRecord
  <2> HIDE DEF cooled
  <2>4. /\ health' \in [Models -> HealthRecord]
        /\ \A x \in Models : health'[x].probing = health[x].probing
    BY <1>2, <1>4, <2>1, <2>3, HealthChanges DEF RoutingTypes
  <2>5. gate = "chain"
    BY <1>2, <1>12, RoutingAssumption DEF RoutingTypes
  <2>6. \A x \in Models : ~health'[x].probing
    BY <1>2, <2>4, <2>5 DEF OnlyBreakersProbe
  <2>7. OnlyBreakersProbe'
    BY <2>6 DEF OnlyBreakersProbe
  <2> QED BY <1>1, <1>3, <1>7, <1>8, <1>9, <1>13, <2>4, <2>6, <2>7, RequestMoves
<1> QED BY <1>11, <1>12

LEMMA CancelledStep ==
  ASSUME RoutingIInv, NEW c \in Callers, Cancelled(c)
  PROVE  RoutingIInv'
<1>1. /\ caller[c].at = "calling" /\ caller' = [caller EXCEPT ![c] = Resting]
      /\ abandoned' = IF caller[c].probe THEN abandoned \cup {Current(c)} ELSE abandoned
      /\ UNCHANGED <<gate, health, known>>
  BY DEF Cancelled
<1>2. RoutingTypes /\ OnlyBreakersProbe /\ Along(caller[c])
  BY DEF RoutingIInv
<1>3. Len(<<>>) <= Len(Order) /\ <<>> \in Seq(Models) /\ Current(c) \in Models
  BY <1>1, <1>2, CurrentIsAModel, RoutingAssumption
<1>4. Resting \in CallerRecord /\ Along(Resting) /\ Resting.at = "idle"
  BY <1>3, RestingIsACaller DEF Resting
<1>5. /\ health' \in [Models -> HealthRecord] /\ OnlyBreakersProbe'
      /\ abandoned' \subseteq Models
  BY <1>1, <1>2, <1>3 DEF RoutingTypes, OnlyBreakersProbe
<1>6. ASSUME NEW m \in Models, health'[m].probing
      PROVE  \/ m \in abandoned'
             \/ health[m].probing /\ (m \in abandoned => m \in abandoned') /\ ~Probes(c, m)
  <2>1. health[m].probing /\ (m \in abandoned => m \in abandoned')
    BY <1>1, <1>6
  <2>2. Probes(c, m) => m \in abandoned'
    BY <1>1 DEF Probes
  <2> QED BY <2>1, <2>2
<1>7. Tries(Resting, known)
  BY <1>4 DEF Tries
<1> QED BY <1>1, <1>4, <1>5, <1>6, <1>7, RequestMoves

LEMMA AgainStep ==
  ASSUME RoutingIInv, NEW c \in Callers, Again(c)
  PROVE  RoutingIInv'
<1>1. /\ caller[c].at \in {"served", "failed"} /\ caller' = [caller EXCEPT ![c] = Resting]
      /\ UNCHANGED <<gate, health, known, abandoned>>
  BY DEF Again
<1>2. RoutingTypes /\ OnlyBreakersProbe
  BY DEF RoutingIInv
<1>3. Len(<<>>) <= Len(Order) /\ <<>> \in Seq(Models)
  BY RoutingAssumption
<1>4. Resting \in CallerRecord /\ Along(Resting)
  BY <1>3, RestingIsACaller
<1>5. Resting.at = "idle"
  BY DEF Resting
<1>6. /\ health' \in [Models -> HealthRecord] /\ OnlyBreakersProbe'
      /\ abandoned' \subseteq Models
      /\ \A m \in Models : ~Probes(c, m) /\ (m \in abandoned => m \in abandoned') /\ health'[m] = health[m]
  BY <1>1, <1>2 DEF RoutingTypes, OnlyBreakersProbe, Probes
<1>7. Tries(Resting, known)
  BY <1>5 DEF Tries
<1> QED BY <1>1, <1>4, <1>6, <1>7, RequestMoves

LEMMA WaitStep ==
  ASSUME RoutingIInv, Wait
  PROVE  RoutingIInv'
<1>1. /\ health' = [m \in Models |-> [health[m] EXCEPT !.open = Sooner(@), !.cooling = Sooner(@)]]
      /\ UNCHANGED <<gate, known, caller, abandoned>>
  BY DEF Wait
<1>2. RoutingTypes /\ OnlyBreakersProbe /\ ProbeHasCaller /\ \A d \in Callers : Along(caller[d])
  BY DEF RoutingIInv
<1>3. ASSUME NEW m \in Models
      PROVE  health'[m] \in HealthRecord /\ health'[m].probing = health[m].probing
  <2>1. health[m] \in HealthRecord
    BY <1>2 DEF RoutingTypes
  <2>2. Sooner(health[m].open) \in -1..Cooldown /\ Sooner(health[m].cooling) \in 0..Cooldown
    BY <2>1, RoutingAssumption DEF HealthRecord, Sooner
  <2>3. health'[m] = [health[m] EXCEPT !.open = Sooner(@), !.cooling = Sooner(@)]
    BY <1>1
  <2> QED BY <2>1, <2>2, <2>3 DEF HealthRecord
<1>4. RoutingTypes'
  BY <1>1, <1>2, <1>3 DEF RoutingTypes
<1>5. OnlyBreakersProbe' /\ ProbeHasCaller'
  BY <1>1, <1>2, <1>3 DEF OnlyBreakersProbe, ProbeHasCaller, Probes, Current
<1>6. (\A d \in Callers : Along(caller[d]))' /\ ChainsTry'
  BY <1>1, <1>2 DEF RoutingIInv, Along, ChainsTry, Tries
<1> QED BY <1>4, <1>5, <1>6 DEF RoutingIInv

LEMMA RoutingKept ==
  ASSUME RoutingIInv, [RoutingNext]_routingVars
  PROVE  RoutingIInv'
<1>1. CASE RoutingNext
  BY <1>1, WaitStep, StartStep, RouteStep, ServeStep, AgainStep, FailStep, CancelledStep DEF RoutingNext
<1>2. CASE UNCHANGED routingVars
  <2>1. UNCHANGED <<gate, health, known, caller, abandoned>>
    BY <1>2 DEF routingVars
  <2> QED BY <2>1 DEF RoutingIInv, RoutingTypes, OnlyBreakersProbe, ProbeHasCaller, Probes, Current,
                      Along, ChainsTry, Tries
<1> QED BY <1>1, <1>2

LEMMA RoutingStarts ==
  ASSUME RoutingInit
  PROVE  RoutingIInv
<1>1. Len(<<>>) <= Len(Order) /\ <<>> \in Seq(Models)
  BY RoutingAssumption
<1>2. Resting \in CallerRecord /\ Along(Resting)
  BY <1>1, RestingIsACaller
<1>3. Resting.at = "idle"
  BY DEF Resting
<1>4. /\ gate \in Gates /\ known = {} /\ abandoned = {}
      /\ \A m \in Models : health[m] = Healthy
      /\ \A c \in Callers : caller[c] = Resting
  BY DEF RoutingInit
<1>5. RoutingTypes
  BY <1>2, HealthyIsARecord DEF RoutingTypes, RoutingInit
<1>6. OnlyBreakersProbe /\ ProbeHasCaller
  BY <1>4, HealthyIsARecord DEF OnlyBreakersProbe, ProbeHasCaller
<1>7. ChainsTry
  BY <1>3, <1>4 DEF ChainsTry, Tries
<1> QED BY <1>2, <1>4, <1>5, <1>6, <1>7 DEF RoutingIInv

LEMMA RoutingImplies ==
  ASSUME RoutingIInv
  PROVE  RoutingInv
<1>1. RoutingTypes /\ ProbeHasCaller /\ ChainsTry /\ \A c \in Callers : Along(caller[c])
  BY DEF RoutingIInv
<1>2. ASSUME NEW c \in Callers
      PROVE  /\ caller[c].at \in {"idle", "choosing", "calling", "served", "failed"}
             /\ caller[c].tried \in 0..Len(Order)
  <2>1. /\ caller[c] \in CallerRecord /\ caller[c].tried \in Nat /\ caller[c].next \in Nat
        /\ Len(caller[c].chain) \in Nat /\ Len(Order) \in Nat
        /\ caller[c].at \in {"idle", "choosing", "calling", "served", "failed"}
    BY <1>1, RoutingAssumption DEF RoutingTypes, CallerRecord
  <2>2. Along(caller[c])
    BY <1>1
  <2> QED BY <2>1, <2>2 DEF Along
<1>3. RoutingTypeOK
  BY <1>1, <1>2 DEF RoutingTypes, RoutingTypeOK, HealthRecord
<1>4. SomeModelTried
  BY <1>1 DEF ChainsTry, Tries, SomeModelTried
<1> QED BY <1>1, <1>3, <1>4 DEF RoutingInv

\* Whatever the callers do, whoever is served, fails, is cancelled or waits: a
\* model that probes has a caller that will say how it went, unless that caller
\* was cancelled; and a mission whose chain holds every known model does not fail
\* without a single call, however many of them are cooling down.
THEOREM ModelsAreTried == RoutingSpec => []RoutingInv
<1>1. RoutingInit => RoutingIInv
  BY RoutingStarts
<1>2. RoutingIInv /\ [RoutingNext]_routingVars => RoutingIInv'
  BY RoutingKept
<1>3. RoutingIInv => RoutingInv
  BY RoutingImplies
<1> QED BY <1>1, <1>2, <1>3, PTL DEF RoutingSpec

-----------------------------------------------------------------------------
\* Migrations.  The lock holder alone writes: what it read of the rows stays
\* true until it lets the lock go.
Sums == {"null"} \cup UNION {{Directory[r][v] : v \in DOMAIN Directory[r]} : r \in Replicas}
SchemaRow == [sum : Sums, dirty : BOOLEAN]
Stages == {"idle", "read", "verify", "run", "served", "raised"}
MigratorRecord == [at : Stages, known : SUBSET Nat, unread : SUBSET Nat, version : Nat]
MigrationTypes ==
  /\ migrator \in [Replicas -> MigratorRecord]
  /\ advisory \in Replicas \cup {"none"}
  /\ schema_migrations \in [DOMAIN schema_migrations -> SchemaRow]
  /\ DOMAIN schema_migrations \subseteq Nat

LockIsHeld == \A r \in Replicas : migrator[r].at \in {"read", "verify", "run"} => advisory = r

\* What is committed is what is not dirty, each of it once and in the wording
\* its row has.
RowsTellTheSchema ==
  /\ DOMAIN schema = {v \in DOMAIN schema_migrations : ~schema_migrations[v].dirty}
  /\ LegacyRows \subseteq DOMAIN schema
  /\ \A v \in DOMAIN schema : schema[v].times = 1
  /\ \A v \in DOMAIN schema_migrations \ LegacyRows : schema_migrations[v].sum # "null"
  /\ \A v \in DOMAIN schema \ LegacyRows : schema[v].sum = schema_migrations[v].sum

OwnWording(r, V) == \A v \in V \cap DOMAIN Directory[r] : schema_migrations[v].sum = Directory[r][v]
Verifying(r) ==
  /\ migrator[r].known = DOMAIN schema_migrations
  /\ DirtyRows = {}
  /\ OwnWording(r, migrator[r].known \ migrator[r].unread)
Running(r) ==
  /\ migrator[r].known = DOMAIN schema_migrations
  /\ migrator[r].unread = {}
  /\ migrator[r].version \in DOMAIN Directory[r]
  /\ DirtyRows = {migrator[r].version}
  /\ OwnWording(r, migrator[r].known)
  /\ \A v \in DOMAIN Directory[r] : v < migrator[r].version => v \in DOMAIN schema
Serving(r) ==
  \A v \in DOMAIN Directory[r] :
    v \in DOMAIN schema /\ (v \notin LegacyRows => schema[v].sum = Directory[r][v])
MigratorIsTrue(r) ==
  /\ migrator[r].at = "verify" => Verifying(r)
  /\ migrator[r].at = "run" => Running(r)
  /\ migrator[r].at = "served" => Serving(r)

MigrationsIInv ==
  /\ MigrationTypes
  /\ LockIsHeld
  /\ RowsTellTheSchema
  /\ \A r \in Replicas : MigratorIsTrue(r)

LEMMA AsleepIsARecord ==
  ASSUME NEW at \in Stages
  PROVE  /\ Asleep \in MigratorRecord /\ Asleep.at = "idle"
         /\ [Asleep EXCEPT !.at = at] \in MigratorRecord
         /\ [Asleep EXCEPT !.at = at].at = at
<1>1. {} \in SUBSET Nat /\ 0 \in Nat /\ "idle" \in Stages
  BY DEF Stages
<1> QED BY <1>1 DEF Asleep, MigratorRecord

\* One replica moves, the others stay where they are.
LEMMA MigratorMoves ==
  ASSUME MigrationTypes, NEW r \in Replicas, NEW to \in MigratorRecord, MigratorTo(r, to)
  PROVE  /\ migrator' \in [Replicas -> MigratorRecord] /\ migrator'[r] = to
         /\ \A q \in Replicas : q # r => migrator'[q] = migrator[q]
BY DEF MigrationTypes, MigratorTo

\* What a replica that does not move relies on: committed scripts stay, and the
\* rows are only written by the holder of the lock.
LEMMA OthersGoOn ==
  ASSUME NEW q \in Replicas, LockIsHeld, MigratorIsTrue(q), migrator'[q] = migrator[q],
         \A v \in DOMAIN schema : v \in DOMAIN schema' /\ schema'[v] = schema[v],
         advisory = q => UNCHANGED <<schema_migrations, schema>>
  PROVE  MigratorIsTrue(q)'
<1>1. CASE migrator[q].at \in {"read", "verify", "run"}
  <2>1. UNCHANGED <<schema_migrations, schema>>
    BY <1>1 DEF LockIsHeld
  <2>2. migrator[q].at = "verify" => Verifying(q)'
    BY <2>1 DEF MigratorIsTrue, Verifying, DirtyRows, OwnWording
  <2>3. migrator[q].at = "run" => Running(q)'
    BY <2>1 DEF MigratorIsTrue, Running, DirtyRows, OwnWording
  <2> QED BY <1>1, <2>2, <2>3 DEF MigratorIsTrue
<1>2. CASE migrator[q].at = "served"
  <2>1. Serving(q)'
    BY <1>2 DEF MigratorIsTrue, Serving
  <2> QED BY <1>2, <2>1 DEF MigratorIsTrue
<1>3. CASE migrator[q].at \notin {"read", "verify", "run", "served"}
  BY <1>3 DEF MigratorIsTrue
<1> QED BY <1>1, <1>2, <1>3

LEMMA AdvisoryLockStep ==
  ASSUME MigrationsIInv, NEW r \in Replicas, AdvisoryLock(r)
  PROVE  MigrationsIInv'
<1> DEFINE to == [Asleep EXCEPT !.at = "read"]
<1>1. /\ advisory = "none" /\ advisory' = r /\ MigratorTo(r, to)
      /\ UNCHANGED <<schema_migrations, schema>>
  BY DEF AdvisoryLock
<1>2. MigrationTypes /\ LockIsHeld /\ RowsTellTheSchema /\ \A q \in Replicas : MigratorIsTrue(q)
  BY DEF MigrationsIInv
<1>3. to \in MigratorRecord /\ to.at = "read"
  BY AsleepIsARecord DEF Stages
<1> HIDE DEF to
<1>4. /\ migrator' \in [Replicas -> MigratorRecord] /\ migrator'[r] = to
      /\ \A q \in Replicas : q # r => migrator'[q] = migrator[q]
  BY <1>1, <1>2, <1>3, MigratorMoves
<1>5. ASSUME NEW q \in Replicas PROVE MigratorIsTrue(q)'
  <2>1. CASE q = r
    BY <1>3, <1>4, <2>1 DEF MigratorIsTrue
  <2>2. CASE q # r
    BY <1>1, <1>2, <1>4, <2>2, OthersGoOn
  <2> QED BY <2>1, <2>2
<1>6. LockIsHeld'
  BY <1>1, <1>2, <1>4, MigrationsAssumption DEF LockIsHeld
<1>7. RowsTellTheSchema'
  BY <1>1, <1>2 DEF RowsTellTheSchema
<1>8. MigrationTypes'
  BY <1>1, <1>2, <1>4 DEF MigrationTypes
<1> QED BY <1>5, <1>6, <1>7, <1>8 DEF MigrationsIInv

\* A replica that holds the lock, or lets it go, and writes nothing.
LEMMA LettingGo ==
  ASSUME MigrationsIInv, NEW r \in Replicas, NEW at \in {"raised", "served"}, Unlock(r, at),
         advisory = r, UNCHANGED <<schema_migrations, schema>>,
         at = "served" => Serving(r)
  PROVE  MigrationsIInv'
<1> DEFINE to == [Asleep EXCEPT !.at = at]
<1>1. advisory' = "none" /\ MigratorTo(r, to)
  BY DEF Unlock
<1>2. MigrationTypes /\ LockIsHeld /\ RowsTellTheSchema /\ \A q \in Replicas : MigratorIsTrue(q)
  BY DEF MigrationsIInv
<1>3. to \in MigratorRecord /\ to.at = at
  BY AsleepIsARecord DEF Stages
<1> HIDE DEF to
<1>4. /\ migrator' \in [Replicas -> MigratorRecord] /\ migrator'[r] = to
      /\ \A q \in Replicas : q # r => migrator'[q] = migrator[q]
  BY <1>1, <1>2, <1>3, MigratorMoves
<1>5. ASSUME NEW q \in Replicas PROVE MigratorIsTrue(q)'
  <2>1. CASE q = r
    BY <1>3, <1>4, <2>1 DEF MigratorIsTrue, Serving
  <2>2. CASE q # r
    BY <1>2, <1>4, <2>2, OthersGoOn
  <2> QED BY <2>1, <2>2
<1>6. LockIsHeld'
  BY <1>1, <1>2, <1>3, <1>4 DEF LockIsHeld
<1>7. RowsTellTheSchema'
  BY <1>2 DEF RowsTellTheSchema
<1>8. MigrationTypes'
  BY <1>1, <1>2, <1>4 DEF MigrationTypes
<1> QED BY <1>5, <1>6, <1>7, <1>8 DEF MigrationsIInv

LEMMA ReadRowsStep ==
  ASSUME MigrationsIInv, NEW r \in Replicas, ReadRows(r)
  PROVE  MigrationsIInv'
<1> DEFINE to == [at |-> "verify", known |-> DOMAIN schema_migrations,
                  unread |-> DOMAIN schema_migrations, version |-> 0]
<1>1. MigrationTypes /\ LockIsHeld /\ RowsTellTheSchema /\ \A q \in Replicas : MigratorIsTrue(q)
  BY DEF MigrationsIInv
<1>2. migrator[r].at = "read" /\ UNCHANGED <<schema_migrations, schema>>
  BY DEF ReadRows
<1>3. advisory = r
  BY <1>1, <1>2 DEF LockIsHeld
<1>4. CASE DirtyRows # {}
  <2>1. Unlock(r, "raised")
    BY <1>4 DEF ReadRows
  <2> QED BY <1>2, <1>3, <2>1, LettingGo
<1>5. CASE DirtyRows = {}
  <2>1. MigratorTo(r, to) /\ UNCHANGED advisory
    BY <1>5 DEF ReadRows
  <2>2. DOMAIN schema_migrations \in SUBSET Nat /\ 0 \in Nat /\ "verify" \in Stages
    BY <1>1 DEF MigrationTypes, Stages
  <2>3. /\ to \in MigratorRecord /\ to.at = "verify"
        /\ to.known = DOMAIN schema_migrations /\ to.unread = DOMAIN schema_migrations
    BY <2>2 DEF MigratorRecord
  <2> HIDE DEF to
  <2>4. /\ migrator' \in [Replicas -> MigratorRecord] /\ migrator'[r] = to
        /\ \A q \in Replicas : q # r => migrator'[q] = migrator[q]
    BY <1>1, <2>1, <2>3, MigratorMoves
  <2>5. ASSUME NEW q \in Replicas PROVE MigratorIsTrue(q)'
    <3>1. CASE q = r
      <4>1. Verifying(r)'
        BY <1>2, <1>5, <2>3, <2>4 DEF Verifying, DirtyRows, OwnWording
      <4> QED BY <2>3, <2>4, <3>1, <4>1 DEF MigratorIsTrue
    <3>2. CASE q # r
      BY <1>1, <1>2, <2>4, <3>2, OthersGoOn
    <3> QED BY <3>1, <3>2
  <2>6. LockIsHeld'
    BY <1>1, <1>3, <2>1, <2>4 DEF LockIsHeld
  <2>7. RowsTellTheSchema'
    BY <1>1, <1>2 DEF RowsTellTheSchema
  <2>8. MigrationTypes'
    BY <1>1, <1>2, <2>1, <2>4 DEF MigrationTypes
  <2> QED BY <2>5, <2>6, <2>7, <2>8 DEF MigrationsIInv
<1> QED BY <1>4, <1>5

LEMMA VerifyRowStep ==
  ASSUME MigrationsIInv, NEW r \in Replicas, NEW v \in migrator[r].unread, VerifyRow(r, v)
  PROVE  MigrationsIInv'
<1>1. MigrationTypes /\ LockIsHeld /\ RowsTellTheSchema /\ \A q \in Replicas : MigratorIsTrue(q)
  BY DEF MigrationsIInv
<1>2. migrator[r].at = "verify" /\ UNCHANGED schema
  BY DEF VerifyRow
<1>3. advisory = r /\ Verifying(r) /\ migrator[r] \in MigratorRecord
  BY <1>1, <1>2 DEF LockIsHeld, MigratorIsTrue, MigrationTypes
<1>4. CASE Mismatch(r, v)
  <2>1. Unlock(r, "raised") /\ UNCHANGED schema_migrations
    BY <1>4 DEF VerifyRow
  <2> QED BY <1>2, <1>3, <2>1, LettingGo
<1>5. CASE ~Mismatch(r, v)
  <2> DEFINE to == [migrator[r] EXCEPT !.unread = @ \ {v}]
             filled == v \in DOMAIN Directory[r] /\ schema_migrations[v].sum = "null"
  <2>1. /\ MigratorTo(r, to) /\ UNCHANGED advisory
        /\ schema_migrations' = IF filled THEN [schema_migrations EXCEPT ![v].sum = Directory[r][v]]
                                ELSE schema_migrations
    BY <1>5 DEF VerifyRow
  <2>2. /\ to \in MigratorRecord /\ to.at = "verify"
        /\ to.known = migrator[r].known /\ to.unread = migrator[r].unread \ {v}
    BY <1>2, <1>3 DEF MigratorRecord
  <2> HIDE DEF to
  <2>3. /\ migrator' \in [Replicas -> MigratorRecord] /\ migrator'[r] = to
        /\ \A q \in Replicas : q # r => migrator'[q] = migrator[q]
    BY <1>1, <2>1, <2>2, MigratorMoves
  \* Only the checksum of this one row may change, and only from none.
  <2>4. /\ DOMAIN schema_migrations' = DOMAIN schema_migrations
        /\ schema_migrations' \in [DOMAIN schema_migrations -> SchemaRow]
        /\ \A w \in DOMAIN schema_migrations : schema_migrations'[w].dirty = schema_migrations[w].dirty
        /\ \A w \in DOMAIN schema_migrations : w # v => schema_migrations'[w] = schema_migrations[w]
        /\ \A w \in DOMAIN schema_migrations :
             schema_migrations[w].sum # "null" => schema_migrations'[w] = schema_migrations[w]
        /\ v \in DOMAIN schema_migrations /\ filled => schema_migrations'[v].sum = Directory[r][v]
    <3>1. CASE filled
      <4>1. Directory[r][v] \in Sums
        BY <3>1 DEF Sums
      <4>2. \A w \in DOMAIN schema_migrations :
              schema_migrations[w] \in SchemaRow /\ schema_migrations[w].dirty \in BOOLEAN
        BY <1>1 DEF MigrationTypes, SchemaRow
      <4>3. schema_migrations' = [schema_migrations EXCEPT ![v].sum = Directory[r][v]]
        BY <2>1, <3>1
      <4>4. DOMAIN schema_migrations' = DOMAIN schema_migrations
        BY <4>3
      <4>5. \A w \in DOMAIN schema_migrations : w # v => schema_migrations'[w] = schema_migrations[w]
        BY <1>1, <4>3 DEF MigrationTypes
      <4>6. ASSUME v \in DOMAIN schema_migrations
            PROVE  /\ schema_migrations'[v] = [schema_migrations[v] EXCEPT !.sum = Directory[r][v]]
                   /\ schema_migrations'[v] \in SchemaRow
                   /\ schema_migrations'[v].dirty = schema_migrations[v].dirty
                   /\ schema_migrations'[v].sum = Directory[r][v]
        <5>1. schema_migrations'[v] = [schema_migrations[v] EXCEPT !.sum = Directory[r][v]]
          BY <1>1, <4>3, <4>6 DEF MigrationTypes
        <5>2. schema_migrations[v] \in [sum : Sums, dirty : BOOLEAN]
          BY <4>2, <4>6 DEF SchemaRow
        <5> QED BY <4>1, <5>1, <5>2 DEF SchemaRow
      <4>7. schema_migrations' \in [DOMAIN schema_migrations -> SchemaRow]
        BY <1>1, <4>3, <4>5, <4>6 DEF MigrationTypes
      <4> QED BY <3>1, <4>4, <4>5, <4>6, <4>7
    <3>2. CASE ~filled
      BY <1>1, <2>1, <3>2 DEF MigrationTypes
    <3> QED BY <3>1, <3>2
  <2>5. Verifying(r)'
    <3>1. DirtyRows' = {}
      BY <1>3, <2>4 DEF Verifying, DirtyRows
    <3>2. ASSUME NEW w \in (migrator'[r].known \ migrator'[r].unread) \cap DOMAIN Directory[r]
          PROVE  schema_migrations'[w].sum = Directory[r][w]
      <4>1. w \in DOMAIN schema_migrations
        BY <1>3, <2>2, <2>3, <3>2 DEF Verifying
      <4>2. CASE w = v
        BY <1>5, <2>4, <4>1, <4>2 DEF Mismatch
      <4>3. CASE w # v
        BY <1>3, <2>2, <2>3, <2>4, <4>1, <4>3 DEF Verifying, OwnWording
      <4> QED BY <4>2, <4>3
    <3>3. migrator'[r].known = DOMAIN schema_migrations'
      BY <1>3, <2>2, <2>3, <2>4 DEF Verifying
    <3>4. OwnWording(r, migrator[r].known \ migrator[r].unread)'
      BY <3>2 DEF OwnWording
    <3> QED BY <3>1, <3>3, <3>4 DEF Verifying
  <2>6. ASSUME NEW q \in Replicas PROVE MigratorIsTrue(q)'
    <3>1. CASE q = r
      BY <2>2, <2>3, <2>5, <3>1 DEF MigratorIsTrue
    <3>2. CASE q # r
      BY <1>1, <1>2, <1>3, <2>3, <3>2, OthersGoOn
    <3> QED BY <3>1, <3>2
  <2>7. LockIsHeld'
    BY <1>1, <1>3, <2>1, <2>3 DEF LockIsHeld
  <2>8. RowsTellTheSchema'
    <3>1. DOMAIN schema = {w \in DOMAIN schema_migrations : ~schema_migrations[w].dirty}
      BY <1>1 DEF RowsTellTheSchema
    <3>2. DOMAIN schema' = {w \in DOMAIN schema_migrations' : ~schema_migrations'[w].dirty}
      BY <1>2, <2>4, <3>1
    <3>3. \A w \in DOMAIN schema_migrations \ LegacyRows : schema_migrations'[w] = schema_migrations[w]
      BY <1>1, <2>4 DEF RowsTellTheSchema
    <3> QED BY <1>1, <1>2, <2>4, <3>1, <3>2, <3>3 DEF RowsTellTheSchema
  <2>9. MigrationTypes'
    BY <1>1, <2>1, <2>3, <2>4 DEF MigrationTypes
  <2> QED BY <2>6, <2>7, <2>8, <2>9 DEF MigrationsIInv
<1> QED BY <1>4, <1>5

LEMMA InsertDirtyStep ==
  ASSUME MigrationsIInv, NEW r \in Replicas, InsertDirty(r)
  PROVE  MigrationsIInv'
<1> DEFINE todo == DOMAIN Directory[r] \ migrator[r].known
           v == CHOOSE x \in todo : \A y \in todo : x <= y
           to == [migrator[r] EXCEPT !.at = "run", !.version = v, !.known = @ \cup {v}]
           row == [sum |-> Directory[r][v], dirty |-> TRUE]
<1>1. MigrationTypes /\ LockIsHeld /\ RowsTellTheSchema /\ \A q \in Replicas : MigratorIsTrue(q)
  BY DEF MigrationsIInv
<1>2. migrator[r].at = "verify" /\ migrator[r].unread = {} /\ UNCHANGED schema
  BY DEF InsertDirty
<1>3. advisory = r /\ Verifying(r) /\ migrator[r] \in MigratorRecord
  BY <1>1, <1>2 DEF LockIsHeld, MigratorIsTrue, MigrationTypes
<1>4. OwnWording(r, DOMAIN schema_migrations) /\ migrator[r].known = DOMAIN schema_migrations
  BY <1>2, <1>3 DEF Verifying
<1>5. DOMAIN schema = DOMAIN schema_migrations
  BY <1>1, <1>3 DEF Verifying, DirtyRows, RowsTellTheSchema
<1>6. CASE todo = {}
  <2>1. Unlock(r, "served") /\ UNCHANGED schema_migrations
    BY <1>6 DEF InsertDirty
  <2>2. Serving(r)
    BY <1>1, <1>4, <1>5, <1>6 DEF Serving, OwnWording, RowsTellTheSchema
  <2> QED BY <1>2, <1>3, <2>1, <2>2, LettingGo
<1>7. CASE todo # {}
  <2>1. /\ v \notin DOMAIN schema_migrations /\ MigratorTo(r, to) /\ UNCHANGED advisory
        /\ schema_migrations' = Puts(schema_migrations, v, row)
    BY <1>7 DEF InsertDirty
  <2>2. todo \subseteq Nat
    BY MigrationsAssumption
  <2>3. v \in todo /\ \A y \in todo : v <= y
    BY <1>7, <2>2, LeastIsChosen
  <2> HIDE DEF v
  <2>4. v \in Nat /\ v \in DOMAIN Directory[r]
    BY <2>2, <2>3
  <2>5. "run" \in Stages /\ migrator[r].known \cup {v} \in SUBSET Nat
    BY <1>3, <2>4 DEF MigratorRecord, Stages
  <2>6. /\ to \in MigratorRecord /\ to.at = "run" /\ to.version = v
        /\ to.known = migrator[r].known \cup {v} /\ to.unread = {}
    BY <1>2, <1>3, <2>4, <2>5 DEF MigratorRecord
  <2> HIDE DEF to
  <2>7. /\ migrator' \in [Replicas -> MigratorRecord] /\ migrator'[r] = to
        /\ \A q \in Replicas : q # r => migrator'[q] = migrator[q]
    BY <1>1, <2>1, <2>6, MigratorMoves
  <2>8. row \in SchemaRow /\ row.dirty = TRUE /\ row.sum = Directory[r][v] /\ row.sum # "null"
    <3>1. Directory[r][v] \in Sums /\ Directory[r][v] # "null"
      BY <2>4, MigrationsAssumption DEF Sums
    <3> QED BY <3>1 DEF SchemaRow
  <2> HIDE DEF row
  <2>9. /\ DOMAIN schema_migrations' = DOMAIN schema_migrations \cup {v}
        /\ schema_migrations'[v] = row
        /\ \A w \in DOMAIN schema_migrations : schema_migrations'[w] = schema_migrations[w]
        /\ schema_migrations' \in [DOMAIN schema_migrations \cup {v} -> SchemaRow]
    BY <1>1, <2>1, <2>8 DEF Puts, MigrationTypes
  <2>10. DirtyRows' = {v}
    BY <1>3, <2>8, <2>9 DEF Verifying, DirtyRows
  <2>11. Running(r)'
    <3>1. OwnWording(r, migrator[r].known)'
      <4> SUFFICES ASSUME NEW w \in (migrator[r].known \cup {v}) \cap DOMAIN Directory[r]
                   PROVE  schema_migrations'[w].sum = Directory[r][w]
        BY <2>6, <2>7 DEF OwnWording
      <4>1. CASE w = v
        BY <2>8, <2>9, <4>1
      <4>2. CASE w # v
        BY <1>4, <2>9, <4>2 DEF OwnWording
      <4> QED BY <4>1, <4>2
    <3>2. ASSUME NEW w \in DOMAIN Directory[r], w < v PROVE w \in DOMAIN schema
      <4>1. w \in Nat
        BY MigrationsAssumption
      <4>2. w \notin todo
        BY <2>3, <2>4, <3>2, <4>1
      <4> QED BY <1>4, <1>5, <4>2
    <3>3. migrator'[r].known = DOMAIN schema_migrations'
      BY <1>4, <2>6, <2>7, <2>9
    <3> QED BY <1>2, <2>4, <2>6, <2>7, <2>10, <3>1, <3>2, <3>3 DEF Running
  <2>12. ASSUME NEW q \in Replicas PROVE MigratorIsTrue(q)'
    <3>1. CASE q = r
      BY <2>6, <2>7, <2>11, <3>1 DEF MigratorIsTrue
    <3>2. CASE q # r
      BY <1>1, <1>2, <1>3, <2>7, <3>2, OthersGoOn
    <3> QED BY <3>1, <3>2
  <2>13. LockIsHeld'
    BY <1>1, <1>3, <2>1, <2>7 DEF LockIsHeld
  <2>14. RowsTellTheSchema'
    <3>1. DOMAIN schema' = {w \in DOMAIN schema_migrations' : ~schema_migrations'[w].dirty}
      BY <1>1, <1>2, <1>5, <2>1, <2>8, <2>9 DEF RowsTellTheSchema
    <3>2. v \notin DOMAIN schema
      BY <1>5, <2>1
    <3> QED BY <1>1, <1>2, <1>5, <2>8, <2>9, <3>1, <3>2 DEF RowsTellTheSchema
  <2>15. MigrationTypes'
    BY <1>1, <2>1, <2>4, <2>7, <2>9 DEF MigrationTypes
  <2> QED BY <2>12, <2>13, <2>14, <2>15 DEF MigrationsIInv
<1> QED BY <1>6, <1>7

LEMMA RunScriptStep ==
  ASSUME MigrationsIInv, NEW r \in Replicas, NEW ok \in BOOLEAN, RunScript(r, ok)
  PROVE  MigrationsIInv'
<1> DEFINE v == migrator[r].version
           to == [migrator[r] EXCEPT !.at = "verify"]
<1>1. MigrationTypes /\ LockIsHeld /\ RowsTellTheSchema /\ \A q \in Replicas : MigratorIsTrue(q)
  BY DEF MigrationsIInv
<1>2. migrator[r].at = "run"
  BY DEF RunScript
<1>3. advisory = r /\ Running(r) /\ migrator[r] \in MigratorRecord
  BY <1>1, <1>2 DEF LockIsHeld, MigratorIsTrue, MigrationTypes
<1>4. CASE ~ok
  <2>1. Unlock(r, "raised") /\ UNCHANGED <<schema, schema_migrations>>
    BY <1>4 DEF RunScript
  <2> QED BY <1>3, <2>1, LettingGo
<1>5. CASE ok
  <2>1. /\ schema' = Committed(v, Directory[r][v]) /\ MigratorTo(r, to) /\ UNCHANGED advisory
        /\ schema_migrations' = [schema_migrations EXCEPT ![v].dirty = FALSE]
    BY <1>5 DEF RunScript
  <2>2. /\ v \in DOMAIN Directory[r] /\ DirtyRows = {v} /\ migrator[r].unread = {}
        /\ v \in DOMAIN schema_migrations /\ schema_migrations[v].dirty /\ v \notin DOMAIN schema
        /\ migrator[r].known = DOMAIN schema_migrations
    BY <1>1, <1>3 DEF Running, DirtyRows, RowsTellTheSchema
  <2>3. "verify" \in Stages
    BY DEF Stages
  <2>4. /\ to \in MigratorRecord /\ to.at = "verify"
        /\ to.known = migrator[r].known /\ to.unread = {}
    BY <1>3, <2>2, <2>3 DEF MigratorRecord
  <2> HIDE DEF to
  <2>5. /\ migrator' \in [Replicas -> MigratorRecord] /\ migrator'[r] = to
        /\ \A q \in Replicas : q # r => migrator'[q] = migrator[q]
    BY <1>1, <2>1, <2>4, MigratorMoves
  <2> HIDE DEF v
  <2>6. \A w \in DOMAIN schema_migrations : schema_migrations[w] \in SchemaRow
    BY <1>1 DEF MigrationTypes
  <2>7. /\ DOMAIN schema_migrations' = DOMAIN schema_migrations
        /\ schema_migrations'[v] = [schema_migrations[v] EXCEPT !.dirty = FALSE]
        /\ \A w \in DOMAIN schema_migrations : w # v => schema_migrations'[w] = schema_migrations[w]
    BY <1>1, <2>1, <2>2 DEF MigrationTypes
  <2>8. /\ schema_migrations'[v] \in SchemaRow /\ ~schema_migrations'[v].dirty
        /\ schema_migrations'[v].sum = schema_migrations[v].sum
    BY <2>2, <2>6, <2>7 DEF SchemaRow
  <2>9. schema_migrations' \in [DOMAIN schema_migrations -> SchemaRow]
    BY <1>1, <2>1, <2>6, <2>7, <2>8 DEF MigrationTypes
  <2>10. /\ DOMAIN schema' = DOMAIN schema \cup {v}
         /\ schema'[v] = [sum |-> Directory[r][v], times |-> 1]
         /\ \A w \in DOMAIN schema : schema'[w] = schema[w]
    BY <2>1, <2>2 DEF Committed, Puts
  <2>11. \A w \in DOMAIN schema_migrations : schema_migrations'[w].sum = schema_migrations[w].sum
    BY <2>7, <2>8
  <2>12. DirtyRows' = {}
    BY <2>2, <2>7, <2>8 DEF DirtyRows
  <2>13. Verifying(r)'
    <3>1. migrator'[r].known = DOMAIN schema_migrations'
      BY <2>2, <2>4, <2>5, <2>7
    <3>2. OwnWording(r, migrator[r].known)
      BY <1>3 DEF Running
    <3>3. OwnWording(r, migrator[r].known \ migrator[r].unread)'
      BY <2>2, <2>4, <2>5, <2>11, <3>2 DEF OwnWording
    <3> QED BY <2>12, <3>1, <3>3 DEF Verifying
  <2>14. ASSUME NEW q \in Replicas PROVE MigratorIsTrue(q)'
    <3>1. CASE q = r
      BY <2>4, <2>5, <2>13, <3>1 DEF MigratorIsTrue
    <3>2. CASE q # r
      BY <1>1, <1>3, <2>5, <2>10, <3>2, OthersGoOn
    <3> QED BY <3>1, <3>2
  <2>15. LockIsHeld'
    BY <1>1, <1>3, <2>1, <2>5 DEF LockIsHeld
  <2>16. RowsTellTheSchema'
    <3>1. DOMAIN schema' = {w \in DOMAIN schema_migrations' : ~schema_migrations'[w].dirty}
      BY <1>1, <2>2, <2>7, <2>8, <2>10 DEF RowsTellTheSchema
    <3>2. schema'[v].times = 1 /\ schema'[v].sum = Directory[r][v]
      BY <2>10
    <3>3. schema_migrations[v].sum = Directory[r][v]
      BY <1>3, <2>2 DEF Running, OwnWording
    <3>4. \A w \in DOMAIN schema' : schema'[w].times = 1
      BY <1>1, <2>10, <3>2 DEF RowsTellTheSchema
    <3>5. \A w \in DOMAIN schema' \ LegacyRows : schema'[w].sum = schema_migrations'[w].sum
      <4> SUFFICES ASSUME NEW w \in DOMAIN schema' \ LegacyRows
                   PROVE  schema'[w].sum = schema_migrations'[w].sum
        OBVIOUS
      <4>1. CASE w = v
        BY <2>8, <3>2, <3>3, <4>1
      <4>2. CASE w # v
        <5>1. w \in DOMAIN schema /\ w \in DOMAIN schema_migrations
          BY <1>1, <2>10, <4>2 DEF RowsTellTheSchema
        <5> QED BY <1>1, <2>10, <2>11, <5>1 DEF RowsTellTheSchema
      <4> QED BY <4>1, <4>2
    <3>6. \A w \in DOMAIN schema_migrations' \ LegacyRows : schema_migrations'[w].sum # "null"
      BY <1>1, <2>7, <2>11 DEF RowsTellTheSchema
    <3> QED BY <1>1, <2>10, <3>1, <3>4, <3>5, <3>6 DEF RowsTellTheSchema
  <2>17. MigrationTypes'
    BY <1>1, <2>1, <2>5, <2>7, <2>9 DEF MigrationTypes
  <2> QED BY <2>14, <2>15, <2>16, <2>17 DEF MigrationsIInv
<1> QED BY <1>4, <1>5

LEMMA KillStep ==
  ASSUME MigrationsIInv, NEW r \in Replicas, Kill(r)
  PROVE  MigrationsIInv'
<1>1. /\ MigratorTo(r, Asleep) /\ advisory' = IF advisory = r THEN "none" ELSE advisory
      /\ UNCHANGED <<schema_migrations, schema>>
  BY DEF Kill
<1>2. MigrationTypes /\ LockIsHeld /\ RowsTellTheSchema /\ \A q \in Replicas : MigratorIsTrue(q)
  BY DEF MigrationsIInv
<1>3. Asleep \in MigratorRecord /\ Asleep.at = "idle"
  BY AsleepIsARecord DEF Stages
<1>4. /\ migrator' \in [Replicas -> MigratorRecord] /\ migrator'[r] = Asleep
      /\ \A q \in Replicas : q # r => migrator'[q] = migrator[q]
  BY <1>1, <1>2, <1>3, MigratorMoves
<1>5. ASSUME NEW q \in Replicas PROVE MigratorIsTrue(q)'
  <2>1. CASE q = r
    BY <1>3, <1>4, <2>1 DEF MigratorIsTrue
  <2>2. CASE q # r
    BY <1>1, <1>2, <1>4, <2>2, OthersGoOn
  <2> QED BY <2>1, <2>2
<1>6. LockIsHeld'
  BY <1>1, <1>2, <1>3, <1>4 DEF LockIsHeld
<1>7. RowsTellTheSchema'
  BY <1>1, <1>2 DEF RowsTellTheSchema
<1>8. MigrationTypes'
  BY <1>1, <1>2, <1>4 DEF MigrationTypes
<1> QED BY <1>5, <1>6, <1>7, <1>8 DEF MigrationsIInv

LEMMA RepairStep ==
  ASSUME MigrationsIInv, Repair
  PROVE  MigrationsIInv'
<1>1. /\ advisory = "none" /\ UNCHANGED <<schema, advisory, migrator>>
      /\ schema_migrations' = [v \in DOMAIN schema_migrations \ DirtyRows |-> schema_migrations[v]]
  BY DEF Repair
<1>2. MigrationTypes /\ LockIsHeld /\ RowsTellTheSchema /\ \A q \in Replicas : MigratorIsTrue(q)
  BY DEF MigrationsIInv
<1>3. ASSUME NEW q \in Replicas PROVE MigratorIsTrue(q)'
  <2>1. advisory # q
    BY <1>1, MigrationsAssumption
  <2> QED BY <1>1, <1>2, <2>1, OthersGoOn
<1>4. LockIsHeld'
  BY <1>1, <1>2 DEF LockIsHeld
<1>5. RowsTellTheSchema'
  BY <1>1, <1>2 DEF RowsTellTheSchema, DirtyRows
<1>6. MigrationTypes'
  BY <1>1, <1>2 DEF MigrationTypes
<1> QED BY <1>3, <1>4, <1>5, <1>6 DEF MigrationsIInv

LEMMA MigrationsKept ==
  ASSUME MigrationsIInv, [MigrationsNext]_migrationVars
  PROVE  MigrationsIInv'
<1>1. CASE MigrationsNext
  BY <1>1, RepairStep, AdvisoryLockStep, ReadRowsStep, InsertDirtyStep, KillStep, VerifyRowStep,
     RunScriptStep DEF MigrationsNext
<1>2. CASE UNCHANGED migrationVars
  <2>1. UNCHANGED <<schema_migrations, schema, advisory, migrator>>
    BY <1>2 DEF migrationVars
  <2>2. MigrationTypes /\ LockIsHeld /\ RowsTellTheSchema /\ \A q \in Replicas : MigratorIsTrue(q)
    BY DEF MigrationsIInv
  <2>3. \A q \in Replicas : MigratorIsTrue(q)'
    BY <2>1, <2>2, OthersGoOn
  <2>4. MigrationTypes' /\ LockIsHeld' /\ RowsTellTheSchema'
    BY <2>1, <2>2 DEF MigrationTypes, LockIsHeld, RowsTellTheSchema
  <2> QED BY <2>3, <2>4 DEF MigrationsIInv
<1> QED BY <1>1, <1>2

\* The inductive invariant of the migration runner.
THEOREM MigrationsInductive == MigrationsSpec => []MigrationsIInv
<1>1. MigrationsInit => MigrationsIInv
  <2> SUFFICES ASSUME MigrationsInit PROVE MigrationsIInv
    OBVIOUS
  <2>1. /\ DOMAIN schema_migrations = LegacyRows /\ DOMAIN schema = LegacyRows
        /\ \A v \in LegacyRows : /\ schema_migrations[v] = [sum |-> "null", dirty |-> FALSE]
                                 /\ schema[v] = [sum |-> "old", times |-> 1]
    BY DEF MigrationsInit
  <2>2. [sum |-> "null", dirty |-> FALSE] \in SchemaRow
    BY DEF SchemaRow, Sums
  <2>3. schema_migrations \in [DOMAIN schema_migrations -> SchemaRow]
    BY <2>2 DEF MigrationsInit
  <2>4. /\ migrator \in [Replicas -> MigratorRecord]
        /\ \A r \in Replicas : migrator[r].at = "idle"
    BY AsleepIsARecord DEF MigrationsInit, Stages
  <2>5. MigrationTypes
    BY <2>1, <2>3, <2>4, MigrationsAssumption DEF MigrationTypes, MigrationsInit
  <2>6. RowsTellTheSchema
    BY <2>1 DEF RowsTellTheSchema
  <2> QED BY <2>4, <2>5, <2>6 DEF MigrationsIInv, LockIsHeld, MigratorIsTrue
<1> QED BY <1>1, MigrationsKept, PTL DEF MigrationsSpec

\* Whichever releases start at once, and wherever they are killed, raise or are
\* repaired: each script takes effect once and in order, and a replica that serves
\* has the schema of its own release.
THEOREM SchemaIsTheReleases == MigrationsSpec => []MigrationsInv
<1>1. MigrationsIInv => MigrationsInv
  <2> SUFFICES ASSUME MigrationsIInv PROVE MigrationsInv
    OBVIOUS
  <2>1. ScriptsRunOnce
    BY DEF MigrationsIInv, RowsTellTheSchema, ScriptsRunOnce
  <2>2. ServesOnItsSchema
    BY DEF MigrationsIInv, MigratorIsTrue, Serving, ServesOnItsSchema
  <2>3. ScriptsInOrder
    BY DEF MigrationsIInv, MigratorIsTrue, Running, ScriptsInOrder
  <2> QED BY <2>1, <2>2, <2>3 DEF MigrationsInv
<1> QED BY <1>1, MigrationsInductive, PTL


-----------------------------------------------------------------------------
(* Evidence.                                                               *)

EvidenceSpec == EvidenceInit /\ [][EvidenceNext]_evidenceVars

\* A challenge that rejects: an outcome of run_checks decides by itself.
Rejects(c) == c.status = "REJECTED" \/ c.blocking
LEMMA RejectIsSomeCheck ==
  ASSUME NEW xs, NEW scope
  PROVE  VerdictOn(xs, scope) = "REJECT" <=> \E c \in run_checks(xs, scope) : Rejects(c)
BY DEF VerdictOn, decide_verdict, Rejects

\* What the artifacts must be like for that.
Unparsed(xs, type) == \E i \in Of(xs, type) : ~xs[i].parses
Unsourced(xs) == \E i \in Claims(xs) : ~xs[i].sourced

\* check_evidence rejects an evidence row that does not parse, and nothing else.
LEMMA EvidenceRejects ==
  ASSUME NEW xs
  PROVE  /\ Rejects(check_evidence(xs)) <=> Unparsed(xs, "evidence")
         /\ Unparsed(xs, "evidence") => check_evidence(xs).status # "NOT_APPLICABLE"
<1>1. Unparsed(xs, "evidence") => Claims(xs) # {}
  BY DEF Unparsed, Of
<1>2. CASE Unparsed(xs, "evidence")
  BY <1>1, <1>2 DEF Unparsed, check_evidence, Rejects, Checked, NotApplicable
<1>3. CASE ~Unparsed(xs, "evidence")
  BY <1>3 DEF Unparsed, check_evidence, Rejects, Checked, NotApplicable
<1> QED BY <1>2, <1>3

\* check_provenance rejects a claim that names no source, and nothing else.
LEMMA ProvenanceRejects ==
  ASSUME NEW xs
  PROVE  /\ Rejects(check_provenance(xs)) <=> Unsourced(xs)
         /\ Unsourced(xs) => check_provenance(xs).status # "NOT_APPLICABLE"
<1>1. CASE Unsourced(xs)
  BY <1>1 DEF Unsourced, check_provenance, Rejects, Checked, NotApplicable
<1>2. CASE ~Unsourced(xs)
  BY <1>2 DEF Unsourced, check_provenance, Rejects, Checked, NotApplicable
<1> QED BY <1>1, <1>2

\* check_causal rejects a causal artifact that does not parse, and nothing else.
LEMMA CausalRejects ==
  ASSUME NEW xs
  PROVE  /\ Rejects(check_causal(xs)) <=> Unparsed(xs, "causal")
         /\ Unparsed(xs, "causal") => check_causal(xs).status # "NOT_APPLICABLE"
<1> DEFINE rows == Of(xs, "causal")
           good == {i \in rows : xs[i].parses}
<1>1. Unparsed(xs, "causal") <=> good # rows
  BY DEF Unparsed
<1>2. CASE rows = {}
  BY <1>2 DEF check_causal, Rejects, Checked, NotApplicable, Unparsed
<1>3. CASE rows # {}
  <2>1. /\ check_causal(xs).status = IF good = rows THEN "OK" ELSE "REJECTED"
        /\ check_causal(xs).blocking = (good # rows)
    BY <1>3 DEF check_causal
  <2> QED BY <1>1, <2>1 DEF Rejects
<1> QED BY <1>2, <1>3

\* check_prediction does the same for a forecast.
LEMMA PredictionRejects ==
  ASSUME NEW xs
  PROVE  /\ Rejects(check_prediction(xs)) <=> Unparsed(xs, "prediction")
         /\ Unparsed(xs, "prediction") => check_prediction(xs).status # "NOT_APPLICABLE"
<1> DEFINE rows == Of(xs, "prediction")
           good == {i \in rows : xs[i].parses}
<1>1. Unparsed(xs, "prediction") <=> good # rows
  BY DEF Unparsed
<1>2. CASE rows = {}
  BY <1>2 DEF check_prediction, Rejects, Checked, NotApplicable, Unparsed
<1>3. CASE rows # {}
  <2>1. /\ check_prediction(xs).status = IF good = rows THEN "OK" ELSE "REJECTED"
        /\ check_prediction(xs).blocking = (good # rows)
    BY <1>3 DEF check_prediction
  <2> QED BY <1>1, <2>1 DEF Rejects
<1> QED BY <1>2, <1>3

\* Contradictions and missing breakdowns are for revision, never for rejection.
LEMMA OthersNeverReject ==
  ASSUME NEW xs, NEW scope
  PROVE  ~Rejects(check_contradiction(xs)) /\ ~Rejects(check_scope_coverage(xs, scope))
<1>1. ~Rejects(check_contradiction(xs))
  BY DEF check_contradiction, Rejects, Checked
<1>2. ~Rejects(check_scope_coverage(xs, scope))
  BY DEF check_scope_coverage, Rejects, Checked, NotApplicable
<1> QED BY <1>1, <1>2

\* So the artifacts alone decide: these are the four reasons to reject.
LEMMA RejectedWhen ==
  ASSUME NEW xs, NEW scope
  PROVE  VerdictOn(xs, scope) = "REJECT" <=>
           \/ Unparsed(xs, "evidence") \/ Unsourced(xs)
           \/ Unparsed(xs, "causal") \/ Unparsed(xs, "prediction")
<1>1. (\E c \in run_checks(xs, scope) : Rejects(c)) <=>
        \/ Unparsed(xs, "evidence") \/ Unsourced(xs)
        \/ Unparsed(xs, "causal") \/ Unparsed(xs, "prediction")
  BY EvidenceRejects, ProvenanceRejects, CausalRejects, PredictionRejects,
     OthersNeverReject DEF run_checks
<1> QED BY <1>1, RejectIsSomeCheck

\* An artifact more takes none away.
LEMMA ChallengesStay ==
  ASSUME NEW xs, xs \in Seq(Kinds), NEW k \in Kinds, NEW ys, ys = Append(xs, k)
  PROVE  /\ \A type : Unparsed(xs, type) => Unparsed(ys, type)
         /\ Unsourced(xs) => Unsourced(ys)
<1>3. \A i \in DOMAIN xs : i \in DOMAIN ys /\ ys[i] = xs[i]
  OBVIOUS
<1> QED BY <1>3 DEF Unparsed, Unsourced, Of, Claims

\* Whatever a revision stores in addition, a rejected mission stays rejected:
\* what rejects is an artifact, and no artifact is ever removed or changed.
THEOREM RejectionIsFinal == EvidenceSpec => RejectIsFinal
<1>1. EvidenceInit => artifacts \in Seq(Kinds)
  BY DEF EvidenceInit
<1>2. artifacts \in Seq(Kinds) /\ [EvidenceNext]_evidenceVars => (artifacts \in Seq(Kinds))'
  BY DEF EvidenceNext, Store, evidenceVars
<1> DEFINE Stays == evidenceVars' # evidenceVars /\ VerdictOn(artifacts, demanded) = "REJECT" =>
                      VerdictOn(artifacts', demanded') = "REJECT"
<1>3. artifacts \in Seq(Kinds) /\ EvidenceNext => Stays
  <2>1. SUFFICES ASSUME artifacts \in Seq(Kinds), NEW k \in Kinds, Store(k),
                        VerdictOn(artifacts, demanded) = "REJECT"
                 PROVE  VerdictOn(artifacts', demanded') = "REJECT"
    BY DEF EvidenceNext
  <2>2. artifacts' = Append(artifacts, k)
    BY <2>1 DEF Store
  <2>3. /\ \A type : Unparsed(artifacts, type) => Unparsed(artifacts', type)
        /\ Unsourced(artifacts) => Unsourced(artifacts')
    BY <2>1, <2>2, ChallengesStay
  <2> QED BY <2>1, <2>3, RejectedWhen
<1> HIDE DEF Stays
<1>4. artifacts \in Seq(Kinds) /\ [EvidenceNext]_evidenceVars => [Stays]_evidenceVars
  BY <1>3
<1>5. EvidenceSpec => [][Stays]_evidenceVars
  BY <1>1, <1>2, <1>4, PTL DEF EvidenceSpec
<1> QED BY <1>5 DEF RejectIsFinal, Stays


\* Of a pass every check approves.
LEMMA PassMeans ==
  ASSUME NEW xs, NEW scope, validate(xs, scope) = "PASS", NEW c \in run_checks(xs, scope)
  PROVE  ~Rejects(c) /\ ~c.gap /\ ~c.warning
BY DEF validate, VerdictOn, decide_verdict, Rejects

\* ... so there is a value behind the claims, ...
LEMMA PassHasValue ==
  ASSUME NEW xs, NEW scope, validate(xs, scope) = "PASS", Claims(xs) # {}
  PROVE  Valued(xs) # {} /\ ~Unparsed(xs, "evidence")
<1> DEFINE c == check_evidence(xs)
<1>1. ASSUME Unparsed(xs, "evidence") PROVE FALSE
  <2>1. c \in run_checks(xs, scope)
    BY <1>1, EvidenceRejects DEF run_checks
  <2> QED BY <1>1, <2>1, EvidenceRejects, PassMeans
<1>2. ASSUME Valued(xs) = {} PROVE FALSE
  <2>1. c = [Checked EXCEPT !.status = "INSUFFICIENT", !.gap = TRUE,
                            !.signals = [evidence_quality |-> 0]]
    BY <1>1, <1>2 DEF check_evidence, Unparsed
  <2>2. c.status = "INSUFFICIENT" /\ c.gap
    BY <2>1 DEF Checked
  <2> HIDE DEF c
  <2>3. c \in run_checks(xs, scope)
    BY <2>2 DEF run_checks, c
  <2> QED BY <2>2, <2>3, PassMeans
<1> QED BY <1>1, <1>2

\* ... no two values of one thing disagree, ...
LEMMA PassAgrees ==
  ASSUME NEW xs, NEW scope, validate(xs, scope) = "PASS", NEW i \in Valued(xs), NEW j \in Valued(xs)
  PROVE  ~Disagree(xs, i, j)
<1> DEFINE c == check_contradiction(xs)
           worst == \E k, l \in Valued(xs) : Disagree(xs, k, l)
<1>1. c.status = "OK" /\ c.warning = worst
  <2> HIDE DEF worst
  <2>1. c = [Checked EXCEPT !.warning = worst,
                  !.signals = [cross_source_agreement |-> IF worst THEN 4000 ELSE 8500]]
    BY DEF check_contradiction, worst
  <2> QED BY <2>1 DEF Checked
<1> HIDE DEF c
<1>2. c \in run_checks(xs, scope)
  BY <1>1 DEF run_checks, c
<1> QED BY <1>1, <1>2, PassMeans

\* ... a causal claim survived its refutations, ...
LEMMA PassSurvived ==
  ASSUME NEW xs, NEW scope, validate(xs, scope) = "PASS", NEW i \in Of(xs, "causal"),
         xs[i].supported
  PROVE  xs[i].parses /\ ~(xs[i].passed < MIN_REFUTATIONS)
<1> DEFINE c == check_causal(xs)
           good == {k \in Of(xs, "causal") : xs[k].parses}
           doubt == \E k \in good : xs[k].supported /\ xs[k].passed < MIN_REFUTATIONS
<1>1. xs[i].parses
  BY DEF validate
<1>2. c.status \in {"OK", "REJECTED"} /\ c.warning = doubt
  BY DEF check_causal
<1> HIDE DEF c
<1>3. c \in run_checks(xs, scope)
  BY <1>2 DEF run_checks, c
<1>4. ~doubt
  BY <1>2, <1>3, PassMeans
<1> QED BY <1>1, <1>4

\* ... and what was demanded is covered.
LEMMA PassCovers ==
  ASSUME NEW xs, NEW scope, validate(xs, scope) = "PASS", Of(xs, "evidence") # {},
         NEW candidates \in scope
  PROVE  \E i \in Of(xs, "evidence") : candidates \cap xs[i].dims # {}
<1> DEFINE c == check_scope_coverage(xs, scope)
           good == {j \in Of(xs, "evidence") : xs[j].parses}
           grouped == UNION {xs[i].dims : i \in good}
<1>1. ASSUME candidates \cap grouped = {} PROVE FALSE
  <2>1. c = [Checked EXCEPT !.status = "INSUFFICIENT", !.gap = TRUE]
    BY <1>1 DEF check_scope_coverage
  <2>2. c.status = "INSUFFICIENT" /\ c.gap
    BY <2>1 DEF Checked
  <2> HIDE DEF c
  <2>3. c \in run_checks(xs, scope)
    BY <2>2 DEF run_checks, c
  <2> QED BY <2>2, <2>3, PassMeans
<1>2. PICK d \in candidates : d \in grouped
  BY <1>1
<1>3. PICK i \in good : d \in xs[i].dims
  BY <1>2
<1> QED BY <1>2, <1>3

\* What a pass rests on, read off the artifacts.
LEMMA ArtifactsBackPasses == artifacts \in Seq(Kinds) => PassIsBacked
<1> DEFINE xs == artifacts
<1>1. SUFFICES ASSUME xs \in Seq(Kinds), validate(xs, demanded) = "PASS"
               PROVE  /\ Claims(xs) # {} => Valued(xs) # {}
                      /\ \A i, j \in Valued(xs) :
                           xs[i].dims = xs[j].dims => xs[i].value * 95 <= xs[j].value * 100
                      /\ \A i \in Of(xs, "causal") : xs[i].supported => xs[i].passed >= 2
                      /\ Valued(xs) # {} =>
                           \A c \in demanded : \E i \in Of(xs, "evidence") : c \cap xs[i].dims # {}
  BY DEF PassIsBacked
<1> HIDE DEF xs
<1>2. \A i \in DOMAIN xs : xs[i] \in Kinds
  BY <1>1
<1>3. ASSUME NEW i \in Valued(xs), NEW j \in Valued(xs), xs[i].dims = xs[j].dims
      PROVE  xs[i].value * 95 <= xs[j].value * 100
  <2>1. Claims(xs) # {} /\ {i, j} \subseteq Of(xs, "evidence")
    BY DEF Valued, Of
  <2>2. xs[i].parses /\ xs[j].parses
    BY <1>1, <2>1, PassHasValue DEF Unparsed
  <2>3. xs[i].value \in Int /\ xs[j].value \in Int
    BY <1>2, <2>2, EvidenceAssumption DEF Valued, Of, Claims
  <2>4. ~((xs[i].value - xs[j].value) * 10000 > 500 * xs[i].value)
    BY <1>1, <1>3, <2>2, PassAgrees DEF Disagree, CONTRADICTION_TOLERANCE
  <2> QED BY <2>3, <2>4
<1>4. ASSUME NEW i \in Of(xs, "causal"), xs[i].supported PROVE xs[i].passed >= 2
  <2>1. xs[i].parses /\ ~(xs[i].passed < 2)
    BY <1>1, <1>4, PassSurvived DEF MIN_REFUTATIONS
  <2>2. xs[i].passed \in Nat
    BY <1>2, <2>1, EvidenceAssumption DEF Of, Claims
  <2> QED BY <2>1, <2>2
<1>5. ASSUME Valued(xs) # {}, NEW c \in demanded
      PROVE  \E i \in Of(xs, "evidence") : c \cap xs[i].dims # {}
  BY <1>1, <1>5, PassCovers DEF Valued
<1> QED BY <1>1, <1>3, <1>4, <1>5, PassHasValue

\* Whatever the tools have stored: what an answer concludes rests on fetched
\* values that agree, on causal claims that survived, and on every breakdown.
THEOREM PassesAreBacked == EvidenceSpec => []PassIsBacked
<1>1. EvidenceInit => artifacts \in Seq(Kinds)
  BY DEF EvidenceInit
<1>2. artifacts \in Seq(Kinds) /\ [EvidenceNext]_evidenceVars => (artifacts \in Seq(Kinds))'
  BY DEF EvidenceNext, Store, evidenceVars
<1> QED BY <1>1, <1>2, ArtifactsBackPasses, PTL DEF EvidenceSpec

-----------------------------------------------------------------------------
(* Fetching.                                                               *)

\* Whatever may be asked for, and what a query is about.
MetricIds == {ask.metric : ask \in Asked}
Dims == (UNION {DOMAIN ask.dims : ask \in Asked}) \cup {"brand"}
FilterSet == Dims \X {"asked", "default"}
Args == [metric: MetricIds, groups: SUBSET Dims, filters: SUBSET FilterSet]

ToolRecord ==
  [ask: Asked \cup {Unused.ask}, args: Args \cup {NoArgs},
   for: {"none", "data", "default brand", "probe", "parent"},
   at: {"idle", "asking", "fetching", "waiting", "answered", "drilling", "over"},
   answer: Answer,
   outcome: {"none", "retry", "unsupported", "unavailable", "retryable",
             "value not found", "no data", "ok"},
   again: BOOLEAN]
QueryRow == [by: {"query_metrics", "drilldown"}, args: Args, value: Nat, slice: SUBSET Dims]

\* A query is about one brand or broken down by it where its metric knows brands.
Branded(args) == "brand" \in Supports[args.metric] => _has_brand(args.groups, args.filters)

\* The arguments of a call are built from what it asked.
Kept(x) == /\ x.args.groups = Groups(x.ask.dims)
           /\ NonBrand(Filters(x.ask.dims)) \subseteq x.args.filters
ArgsAreAsked(x) ==
  /\ x.at \notin {"idle", "over"} => x.args \in Args /\ Branded(x.args) /\ x.ask \in Asked
  /\ x.for \in {"data", "default brand"} => Kept(x)
  /\ x.for = "parent" => x.ask.tool = "drilldown"
  /\ x.at = "drilling" => x.for = "parent" /\ x.answer.kind \notin Errors
  /\ x.outcome = "ok" => x.at = "over" /\ x.for \in {"data", "default brand", "parent"}

\* What a call has been answered, unless the budget was spent, is what is stored.
AnswerIsStored(x, store) ==
  x.at \in {"answered", "drilling"} /\ x.answer.kind # "spent" =>
    x.args \in DOMAIN store /\ x.answer = store[x.args]

\* A query is fetched by one call, and once.
FetchedOnce(x, store) == x.at = "fetching" => x.args \notin DOMAIN store
OneFetcher(x, y) == ~(x.at = "fetching" /\ y.at = "fetching" /\ x.args = y.args)

ToolsInv ==
  /\ tool \in [ToolCalls -> ToolRecord]
  /\ DOMAIN stored \subseteq Args /\ \A a \in DOMAIN stored : stored[a] \in Answer
  /\ \A c \in ToolCalls : /\ ArgsAreAsked(tool[c])
                          /\ AnswerIsStored(tool[c], stored)
                          /\ FetchedOnce(tool[c], stored)
  /\ \A c, d \in ToolCalls : c # d => OneFetcher(tool[c], tool[d])

BudgetInv ==
  /\ snapshot \in BOOLEAN /\ live \in BOOLEAN /\ withdrawn_ \in BOOLEAN
  /\ fetched \in Seq(Args) /\ spent \in Nat
  /\ Len(fetched) <= spent /\ spent <= MaxQueries
  /\ \A i \in DOMAIN fetched : Branded(fetched[i])

\* No two rows of query_metrics are about one query.
RowsApart(rows) ==
  \A i, j \in DOMAIN rows :
    /\ i # j /\ rows[i].args = rows[j].args
    => rows[i].by # "query_metrics" \/ rows[j].by # "query_metrics"

RowsInv ==
  /\ evidence \in Seq(QueryRow)
  /\ \A a \in DOMAIN written : written[a] \in {"ok", "no data"}
  /\ \A i \in DOMAIN evidence :
       /\ evidence[i].args \in DOMAIN stored
       /\ evidence[i].value = stored[evidence[i].args].value
       /\ evidence[i].by = "query_metrics" => evidence[i].args \in DOMAIN written
  /\ RowsApart(evidence)

FetchIInv == ToolsInv /\ BudgetInv /\ RowsInv

\* build_metrics_query_args keeps what it is given and adds at most a brand ...
BrandedArgs(args, metric, groups, filters) ==
  /\ args \in Args /\ Branded(args)
  /\ args.groups = groups /\ filters \subseteq args.filters
\* What the arguments come to, a brand added or not.
LEMMA BuiltUp ==
  ASSUME NEW metric \in MetricIds, NEW groups \in SUBSET Dims, NEW filters \in SUBSET FilterSet,
         NEW f \in {filters, filters \cup {<<"brand", "default">>}},
         "brand" \in Supports[metric] /\ ~_has_brand(groups, filters) =>
           f = filters \cup {<<"brand", "default">>},
         NEW args, args = [metric |-> metric, groups |-> groups, filters |-> f]
  PROVE  BrandedArgs(args, metric, groups, filters)
<1> DEFINE more == filters \cup {<<"brand", "default">>}
<1>3. f \in SUBSET FilterSet /\ filters \subseteq f
  <2>1. <<"brand", "default">> \in FilterSet
    BY DEF FilterSet, Dims
  <2> QED BY <2>1
<1>4. _has_brand(groups, more)
  <2>1. <<"brand", "default">>[1] = "brand"
    OBVIOUS
  <2> QED BY <2>1 DEF _has_brand
<1>5. args.metric = metric /\ args.groups = groups /\ args.filters = f
  OBVIOUS
<1>6. args \in Args
  BY <1>3 DEF Args
<1>7. Branded(args)
  <2>1. SUFFICES ASSUME "brand" \in Supports[metric] PROVE _has_brand(groups, f)
    BY <1>5 DEF Branded
  <2>2. CASE _has_brand(groups, filters)
    BY <1>3, <2>2 DEF _has_brand
  <2>3. CASE ~_has_brand(groups, filters)
    BY <1>4, <2>1, <2>3
  <2> QED BY <2>2, <2>3
<1> QED BY <1>3, <1>5, <1>6, <1>7 DEF BrandedArgs

\* ... with a brand wanted whatever the metric (probes, parents of drilldowns) ...
LEMMA BuiltWithBrand ==
  ASSUME NEW metric \in MetricIds, NEW groups \in SUBSET Dims, NEW filters \in SUBSET FilterSet,
         NEW args, args = build_metrics_query_args(metric, groups, filters, TRUE)
  PROVE  BrandedArgs(args, metric, groups, filters)
<1> DEFINE f == IF ~_has_brand(groups, filters) THEN filters \cup {<<"brand", "default">>} ELSE filters
<1>1. args = [metric |-> metric, groups |-> groups, filters |-> f]
  BY DEF build_metrics_query_args
<1> QED BY <1>1, BuiltUp

\* What the model asks is what it may ask.
LEMMA AskTyped ==
  ASSUME NEW ask \in Asked
  PROVE  /\ ask.metric \in MetricIds /\ Groups(ask.dims) \in SUBSET Dims
         /\ Filters(ask.dims) \in SUBSET FilterSet
         /\ NonBrand(Filters(ask.dims)) \in SUBSET FilterSet
<1>1. ask.metric \in MetricIds /\ DOMAIN ask.dims \subseteq Dims
  BY DEF MetricIds, Dims
<1>2. Groups(ask.dims) \in SUBSET Dims
  BY <1>1 DEF Groups
<1>3. Filters(ask.dims) \in SUBSET FilterSet
  BY <1>1 DEF Filters, FilterSet
<1> QED BY <1>1, <1>2, <1>3 DEF NonBrand

\* ... and with the brand the metric supports.
LEMMA BuiltForData ==
  ASSUME NEW ask \in Asked, NEW filters \in SUBSET FilterSet, NEW args,
         args = DataArgs(ask, filters)
  PROVE  BrandedArgs(args, ask.metric, Groups(ask.dims), filters)
<1> DEFINE groups == Groups(ask.dims)
           f == IF supports_brand(ask.metric) /\ ~_has_brand(groups, filters)
                THEN filters \cup {<<"brand", "default">>} ELSE filters
<1>1. args = [metric |-> ask.metric, groups |-> groups, filters |-> f]
  BY DEF DataArgs, build_metrics_query_args
<1>2. "brand" \in Supports[ask.metric] /\ ~_has_brand(groups, filters) =>
        f = filters \cup {<<"brand", "default">>}
  BY DEF supports_brand
<1>3. f \in {filters, filters \cup {<<"brand", "default">>}}
  OBVIOUS
<1>4. ask.metric \in MetricIds /\ groups \in SUBSET Dims
  BY AskTyped
<1> HIDE DEF f, groups
<1>5. BrandedArgs(args, ask.metric, groups, filters)
  BY <1>1, <1>2, <1>3, <1>4, BuiltUp
<1> QED BY <1>5 DEF groups

\* A step of one call that leaves the cache alone: the others are as they were.
LEMMA OneCallSteps ==
  ASSUME ToolsInv, NEW c \in ToolCalls, NEW to \in ToolRecord, Go(c, to), stored' = stored,
         ArgsAreAsked(to), AnswerIsStored(to, stored), FetchedOnce(to, stored),
         \A d \in ToolCalls : d # c => OneFetcher(to, tool[d])
  PROVE  ToolsInv'
<1>1. /\ tool' \in [ToolCalls -> ToolRecord] /\ tool'[c] = to
      /\ \A d \in ToolCalls : d # c => tool'[d] = tool[d]
  BY DEF ToolsInv, Go
<1>2. \A d \in ToolCalls : /\ ArgsAreAsked(tool'[d])
                           /\ AnswerIsStored(tool'[d], stored)
                           /\ FetchedOnce(tool'[d], stored)
  BY <1>1 DEF ToolsInv
<1>3. ASSUME NEW d \in ToolCalls, NEW e \in ToolCalls, d # e
      PROVE  OneFetcher(tool'[d], tool'[e])
  <2>1. CASE d = c
    BY <1>1, <1>3, <2>1
  <2>2. CASE e = c
    <3>1. OneFetcher(to, tool[d])
      BY <1>3, <2>2
    <3> QED BY <1>1, <1>3, <2>2, <3>1 DEF OneFetcher
  <2>3. CASE d # c /\ e # c
    BY <1>1, <1>3, <2>3 DEF ToolsInv
  <2> QED BY <2>1, <2>2, <2>3
<1> QED BY <1>1, <1>2, <1>3 DEF ToolsInv

ToolOutcomes == {"none", "retry", "unsupported", "unavailable", "retryable",
             "value not found", "no data", "ok"}

\* A call that ends holds nothing any more.
LEMMA ToolEnds ==
  ASSUME ToolsInv, NEW c \in ToolCalls, NEW o \in ToolOutcomes, End(c, o), stored' = stored,
         o = "ok" => tool[c].for \in {"data", "default brand", "parent"}
  PROVE  ToolsInv'
<1> DEFINE x == tool[c]
           to == [x EXCEPT !.at = "over", !.outcome = o]
<1>1. x \in ToolRecord /\ ArgsAreAsked(x)
  BY DEF ToolsInv
<1> HIDE DEF x
<1>2. to \in ToolRecord
  BY <1>1 DEF ToolRecord, ToolOutcomes
<1>3. /\ to.at = "over" /\ to.outcome = o /\ to.for = x.for /\ to.ask = x.ask
      /\ to.args = x.args /\ to.answer = x.answer
  BY <1>1 DEF ToolRecord
<1>4. Go(c, to)
  BY DEF End, x
<1> HIDE DEF to
<1>5. ArgsAreAsked(to)
  BY <1>1, <1>3 DEF ArgsAreAsked, Kept, x
<1>6. AnswerIsStored(to, stored) /\ FetchedOnce(to, stored)
  BY <1>3 DEF AnswerIsStored, FetchedOnce
<1>7. \A d \in ToolCalls : OneFetcher(to, tool[d])
  BY <1>3 DEF OneFetcher
<1> QED BY <1>2, <1>4, <1>5, <1>6, <1>7, OneCallSteps

\* A call that asks next holds nothing yet.
LEMMA ToolAsks ==
  ASSUME ToolsInv, NEW c \in ToolCalls, NEW f \in {"default brand", "probe"}, NEW args \in Args,
         tool[c].at = "answered", Branded(args),
         f = "default brand" => /\ args.groups = Groups(tool[c].ask.dims)
                                /\ NonBrand(Filters(tool[c].ask.dims)) \subseteq args.filters,
         Go(c, [tool[c] EXCEPT !.for = f, !.at = "asking", !.args = args]),
         tool[c].outcome # "ok", stored' = stored
  PROVE  ToolsInv'
<1> DEFINE x == tool[c]
           to == [x EXCEPT !.for = f, !.at = "asking", !.args = args]
<1>1. x \in ToolRecord /\ ArgsAreAsked(x) /\ x.ask \in Asked
  BY DEF ToolsInv, ArgsAreAsked
<1> HIDE DEF x
<1>2. to \in ToolRecord
  BY <1>1 DEF ToolRecord
<1>3. /\ to.at = "asking" /\ to.outcome = x.outcome /\ to.for = f /\ to.ask = x.ask
      /\ to.args = args
  BY <1>1 DEF ToolRecord
<1>4. Go(c, to)
  BY DEF x
<1> HIDE DEF to
<1>5. ArgsAreAsked(to)
  BY <1>1, <1>3 DEF ArgsAreAsked, Kept, x
<1>6. AnswerIsStored(to, stored) /\ FetchedOnce(to, stored)
  BY <1>3 DEF AnswerIsStored, FetchedOnce
<1>7. \A d \in ToolCalls : OneFetcher(to, tool[d])
  BY <1>3 DEF OneFetcher
<1> QED BY <1>2, <1>4, <1>5, <1>6, <1>7, OneCallSteps

\* A new call holds nothing, and its arguments are what it asked.
LEMMA InvokeSteps ==
  ASSUME ToolsInv, NEW c \in ToolCalls, NEW ask \in Asked, Invoke(c, ask)
  PROVE  ToolsInv'
<1> DEFINE again == FailedBefore(ask)
<1>1. again \in BOOLEAN /\ NoAnswer \in Answer
  BY DEF FailedBefore, NoAnswer, Answer
<1>2. stored' = stored
  BY DEF Invoke, OnlyTool
<1>3. CASE ask.tool = "drilldown"
  <2> DEFINE args == build_metrics_query_args(ask.metric, {}, {}, TRUE)
             to == Called(ask, args, "parent", "asking", "none")
  <2>1. Go(c, to)
    BY <1>3 DEF Invoke
  <2>2. args \in Args /\ Branded(args)
    <3>1. {} \in SUBSET Dims /\ {} \in SUBSET FilterSet  /\ ask.metric \in MetricIds
      BY AskTyped
    <3> HIDE DEF args
    <3> QED BY <3>1, BuiltWithBrand DEF args, BrandedArgs
  <2> HIDE DEF args
  <2>3. to \in ToolRecord
    BY <1>1, <2>2 DEF ToolRecord, Called
  <2>4. /\ to.at = "asking" /\ to.outcome = "none" /\ to.for = "parent" /\ to.ask = ask
        /\ to.args = args
    BY DEF Called
  <2> HIDE DEF to
  <2>5. ArgsAreAsked(to)
    BY <1>3, <2>2, <2>4 DEF ArgsAreAsked
  <2>6. /\ AnswerIsStored(to, stored) /\ FetchedOnce(to, stored)
        /\ \A d \in ToolCalls : OneFetcher(to, tool[d])
    BY <2>4 DEF AnswerIsStored, FetchedOnce, OneFetcher
  <2> QED BY <1>2, <2>1, <2>3, <2>5, <2>6, OneCallSteps
<1>4. CASE ask.tool = "query_metrics" /\ Rejected(ask)
  <2> DEFINE to == Called(ask, NoArgs, "none", "over", "retry")
  <2>1. Go(c, to)
    BY <1>4 DEF Invoke
  <2>3. to \in ToolRecord
    BY <1>1 DEF ToolRecord, Called
  <2>4. to.at = "over" /\ to.outcome = "retry" /\ to.for = "none"
    BY DEF Called
  <2> HIDE DEF to
  <2>5. ArgsAreAsked(to)
    BY <2>4 DEF ArgsAreAsked
  <2>6. /\ AnswerIsStored(to, stored) /\ FetchedOnce(to, stored)
        /\ \A d \in ToolCalls : OneFetcher(to, tool[d])
    BY <2>4 DEF AnswerIsStored, FetchedOnce, OneFetcher
  <2> QED BY <1>2, <2>1, <2>3, <2>5, <2>6, OneCallSteps
<1>5. CASE ask.tool # "drilldown" /\ ~(ask.tool = "query_metrics" /\ Rejected(ask))
  <2> DEFINE args == DataArgs(ask, Filters(ask.dims))
             to == Called(ask, args, "data", "asking", "none")
  <2>1. Go(c, to)
    BY <1>5 DEF Invoke
  <2>2. /\ args \in Args /\ Branded(args)
        /\ args.groups = Groups(ask.dims) /\ Filters(ask.dims) \subseteq args.filters
    <3>1. Filters(ask.dims) \in SUBSET FilterSet
      BY AskTyped
    <3> HIDE DEF args, to
    <3> QED BY <3>1, BuiltForData DEF BrandedArgs, args
  <2> HIDE DEF args
  <2>3. to \in ToolRecord
    BY <1>1, <2>2 DEF ToolRecord, Called
  <2>4. /\ to.at = "asking" /\ to.outcome = "none" /\ to.for = "data" /\ to.ask = ask
        /\ to.args = args
    BY DEF Called
  <2> HIDE DEF to
  <2>5. ArgsAreAsked(to)
    BY <2>2, <2>4 DEF ArgsAreAsked, Kept, NonBrand
  <2>6. /\ AnswerIsStored(to, stored) /\ FetchedOnce(to, stored)
        /\ \A d \in ToolCalls : OneFetcher(to, tool[d])
    BY <2>4 DEF AnswerIsStored, FetchedOnce, OneFetcher
  <2> QED BY <1>2, <2>1, <2>3, <2>5, <2>6, OneCallSteps
<1> QED BY <1>3, <1>4, <1>5

\* _cached_metrics_query: from the cache, out of budget, as a waiter, as the fetcher.
LEMMA AskSteps ==
  ASSUME ToolsInv, BudgetInv, NEW c \in ToolCalls, Ask(c)
  PROVE  ToolsInv'
<1> DEFINE x == tool[c]
           args == x.args
<1>1. /\ x \in ToolRecord /\ x.at = "asking" /\ ArgsAreAsked(x)
      /\ stored' = stored /\ args \in Args
  BY DEF ToolsInv, Ask, ArgsAreAsked
<1>2. NoAnswer \in Answer /\ Len(fetched) + 1 \in Nat
  BY DEF NoAnswer, Answer, BudgetInv
<1> HIDE DEF x
<1>3. CASE args \in DOMAIN stored
  <2> DEFINE to == [x EXCEPT !.at = "answered", !.answer = stored[args]]
  <2>1. Go(c, to)
    BY <1>3 DEF Ask, x
  <2>2. stored[args] \in Answer
    BY <1>3 DEF ToolsInv
  <2>3. to \in ToolRecord
    BY <1>1, <2>2 DEF ToolRecord
  <2>4. /\ to.at = "answered" /\ to.outcome = x.outcome /\ to.for = x.for /\ to.ask = x.ask
        /\ to.args = args /\ to.answer = stored[args]
    BY <1>1 DEF ToolRecord
  <2> HIDE DEF to
  <2>5. ArgsAreAsked(to)
    BY <1>1, <2>4 DEF ArgsAreAsked, Kept
  <2>6. /\ AnswerIsStored(to, stored) /\ FetchedOnce(to, stored)
        /\ \A d \in ToolCalls : OneFetcher(to, tool[d])
    BY <1>3, <2>4 DEF AnswerIsStored, FetchedOnce, OneFetcher
  <2> QED BY <1>1, <2>1, <2>3, <2>5, <2>6, OneCallSteps
<1>4. CASE args \notin DOMAIN stored /\ ~BudgetLeft
  <2> DEFINE to == [x EXCEPT !.at = "answered", !.answer = NoAnswer]
  <2>1. Go(c, to)
    BY <1>4 DEF Ask, x
  <2>3. to \in ToolRecord
    BY <1>1, <1>2 DEF ToolRecord
  <2>4. /\ to.at = "answered" /\ to.outcome = x.outcome /\ to.for = x.for /\ to.ask = x.ask
        /\ to.args = args /\ to.answer = NoAnswer
    BY <1>1 DEF ToolRecord
  <2> HIDE DEF to
  <2>5. ArgsAreAsked(to)
    BY <1>1, <2>4 DEF ArgsAreAsked, Kept
  <2>6. /\ AnswerIsStored(to, stored) /\ FetchedOnce(to, stored)
        /\ \A d \in ToolCalls : OneFetcher(to, tool[d])
    BY <2>4 DEF AnswerIsStored, FetchedOnce, OneFetcher, NoAnswer
  <2> QED BY <1>1, <2>1, <2>3, <2>5, <2>6, OneCallSteps
<1>5. CASE args \notin DOMAIN stored /\ BudgetLeft /\ Coalesced(args)
  <2> DEFINE to == [x EXCEPT !.at = "waiting"]
  <2>1. Go(c, to)
    BY <1>5 DEF Ask, x
  <2>3. to \in ToolRecord
    BY <1>1 DEF ToolRecord
  <2>4. /\ to.at = "waiting" /\ to.outcome = x.outcome /\ to.for = x.for /\ to.ask = x.ask
        /\ to.args = args
    BY <1>1 DEF ToolRecord
  <2> HIDE DEF to
  <2>5. ArgsAreAsked(to)
    BY <1>1, <2>4 DEF ArgsAreAsked, Kept
  <2>6. /\ AnswerIsStored(to, stored) /\ FetchedOnce(to, stored)
        /\ \A d \in ToolCalls : OneFetcher(to, tool[d])
    BY <2>4 DEF AnswerIsStored, FetchedOnce, OneFetcher
  <2> QED BY <1>1, <2>1, <2>3, <2>5, <2>6, OneCallSteps
<1>6. CASE args \notin DOMAIN stored /\ BudgetLeft /\ ~Coalesced(args)
  <2> DEFINE number == Len(fetched) + 1
             answer == [x.answer EXCEPT !.value = number]
             to == [x EXCEPT !.at = "fetching", !.answer.value = number]
  <2>1. Go(c, to)
    BY <1>6 DEF Ask, x
  <2> HIDE DEF number
  <2>2. to = [x EXCEPT !.at = "fetching", !.answer = answer]
    BY <1>1 DEF ToolRecord
  <2>3. answer \in Answer
    BY <1>1, <1>2 DEF ToolRecord, Answer, number
  <2> HIDE DEF to, answer
  <2>4. to \in ToolRecord
    BY <1>1, <2>2, <2>3 DEF ToolRecord
  <2>5. /\ to.at = "fetching" /\ to.outcome = x.outcome /\ to.for = x.for /\ to.ask = x.ask
        /\ to.args = args
    BY <1>1, <2>2 DEF ToolRecord
  <2>6. ArgsAreAsked(to)
    BY <1>1, <2>5 DEF ArgsAreAsked, Kept
  <2>7. AnswerIsStored(to, stored) /\ FetchedOnce(to, stored)
    BY <1>6, <2>5 DEF AnswerIsStored, FetchedOnce
  <2>8. \A d \in ToolCalls : OneFetcher(to, tool[d])
    BY <1>6, <2>5 DEF OneFetcher, Coalesced, InFlightFor
  <2> QED BY <1>1, <2>1, <2>4, <2>6, <2>7, <2>8, OneCallSteps
<1> QED BY <1>3, <1>4, <1>5, <1>6

\* The reply to a query is stored where nothing was, and is the answer of those
\* who waited for it.
LEMMA ReplySteps ==
  ASSUME ToolsInv, NEW c \in ToolCalls,
         NEW kind \in {"unknown_brand", "unknown_dimension", "transient", "unavailable",
                       "absent", "empty", "null", "rows"},
         CubeReplies(c, kind)
  PROVE  ToolsInv' /\ \A a \in DOMAIN stored : a \in DOMAIN stored' /\ stored'[a] = stored[a]
<1> DEFINE args == tool[c].args
           reply == [kind |-> kind, value |-> tool[c].answer.value]
           Hears(d) == d = c \/ (tool[d].at = "waiting" /\ tool[d].args = args)
           hears(x) == [x EXCEPT !.at = "answered", !.answer = reply]
<1>1. /\ tool[c] \in ToolRecord /\ tool[c].at = "fetching" /\ args \in Args
      /\ args \notin DOMAIN stored
  BY DEF ToolsInv, CubeReplies, ArgsAreAsked, FetchedOnce
<1>2. reply \in Answer
  BY <1>1 DEF ToolRecord, Answer
<1>3. /\ stored' = [a \in DOMAIN stored \cup {args} |-> IF a = args THEN reply ELSE stored[a]]
      /\ tool' = [d \in ToolCalls |-> IF Hears(d) THEN hears(tool[d]) ELSE tool[d]]
  BY DEF CubeReplies
<1> HIDE DEF reply, args
<1>4. /\ DOMAIN stored' = DOMAIN stored \cup {args} /\ stored'[args] = reply
      /\ \A a \in DOMAIN stored : stored'[a] = stored[a]
  BY <1>1, <1>3
<1>5. ASSUME NEW d \in ToolCalls, Hears(d)
      PROVE  /\ tool'[d] \in ToolRecord /\ ArgsAreAsked(tool'[d]) /\ tool'[d].at = "answered"
             /\ AnswerIsStored(tool'[d], stored') /\ FetchedOnce(tool'[d], stored')
  <2> DEFINE x == tool[d]
             to == hears(x)
  <2>1. /\ x \in ToolRecord /\ ArgsAreAsked(x) /\ x.args = args
        /\ x.at \in {"fetching", "waiting"}
    BY <1>1, <1>5 DEF ToolsInv, args
  <2>2. tool'[d] = to
    BY <1>3, <1>5
  <2> HIDE DEF x
  <2>3. to \in ToolRecord
    BY <1>2, <2>1 DEF ToolRecord
  <2>4. /\ to.at = "answered" /\ to.outcome = x.outcome /\ to.for = x.for /\ to.ask = x.ask
        /\ to.args = args /\ to.answer = reply
    BY <2>1 DEF ToolRecord
  <2> HIDE DEF to, hears
  <2>5. ArgsAreAsked(to)
    BY <2>1, <2>4 DEF ArgsAreAsked, Kept
  <2>6. AnswerIsStored(to, stored') /\ FetchedOnce(to, stored')
    BY <1>4, <2>4 DEF AnswerIsStored, FetchedOnce
  <2> QED BY <2>2, <2>3, <2>4, <2>5, <2>6
<1>6. ASSUME NEW d \in ToolCalls, ~Hears(d)
      PROVE  /\ tool'[d] = tool[d] /\ tool'[d] \in ToolRecord /\ ArgsAreAsked(tool'[d])
             /\ AnswerIsStored(tool'[d], stored') /\ FetchedOnce(tool'[d], stored')
  <2>1. tool'[d] = tool[d] /\ tool[d] \in ToolRecord /\ ArgsAreAsked(tool[d])
    BY <1>3, <1>6 DEF ToolsInv
  <2>2. AnswerIsStored(tool[d], stored')
    BY <1>4 DEF ToolsInv, AnswerIsStored
  <2>3. FetchedOnce(tool[d], stored')
    <3>1. OneFetcher(tool[c], tool[d])
      BY <1>6 DEF ToolsInv
    <3>2. tool[d].at = "fetching" => tool[d].args # args
      BY <1>1, <3>1 DEF OneFetcher, args
    <3>3. FetchedOnce(tool[d], stored)
      BY DEF ToolsInv
    <3> QED BY <1>4, <3>2, <3>3 DEF FetchedOnce
  <2> QED BY <2>1, <2>2, <2>3
<1>7. tool' \in [ToolCalls -> ToolRecord]
  <2> HIDE DEF Hears, hears
  <2>1. \A d \in ToolCalls : tool'[d] \in ToolRecord
    BY <1>5, <1>6
  <2> QED BY <1>3, <2>1
<1>8. \A d, e \in ToolCalls : d # e => OneFetcher(tool'[d], tool'[e])
  <2> HIDE DEF Hears
  <2> QED BY <1>5, <1>6 DEF ToolsInv, OneFetcher
<1>9. \A d \in ToolCalls : /\ ArgsAreAsked(tool'[d])
                           /\ AnswerIsStored(tool'[d], stored')
                           /\ FetchedOnce(tool'[d], stored')
  <2> HIDE DEF Hears
  <2> QED BY <1>5, <1>6
<1>10. DOMAIN stored' \subseteq Args /\ \A a \in DOMAIN stored' : stored'[a] \in Answer
  BY <1>1, <1>2, <1>4 DEF ToolsInv
<1> QED BY <1>4, <1>7, <1>8, <1>9, <1>10 DEF ToolsInv

\* Fallbacks and probes ask again with arguments of the same query.
LEMMA ExamineSteps ==
  ASSUME ToolsInv, NEW c \in ToolCalls, FallBack(c) \/ Examine(c) \/ Probed(c)
  PROVE  ToolsInv'
<1> DEFINE x == tool[c]
<1>1. /\ x \in ToolRecord /\ x.at = "answered" /\ ArgsAreAsked(x) /\ stored' = stored
      /\ x.args \in Args /\ x.ask \in Asked /\ x.outcome # "ok"
  BY DEF ToolsInv, FallBack, Examine, Probed, OnlyTool, ArgsAreAsked
<1>2. CASE FallBack(c)
  <2> DEFINE args == DefaultBrandArgs(c)
             filters == NonBrand(Filters(x.ask.dims))
  <2>1. filters \in SUBSET FilterSet
    BY <1>1, AskTyped
  <2>2. args = DataArgs(x.ask, filters)
    BY DEF DefaultBrandArgs
  <2>3. Go(c, [tool[c] EXCEPT !.for = "default brand", !.at = "asking", !.args = args])
    BY <1>2 DEF FallBack
  <2> HIDE DEF args, filters
  <2>4. BrandedArgs(args, x.ask.metric, Groups(x.ask.dims), filters)
    BY <1>1, <2>1, <2>2, BuiltForData
  <2>5. args \in Args /\ Branded(args) /\ args.groups = Groups(x.ask.dims)
        /\ filters \subseteq args.filters
    BY <2>4 DEF BrandedArgs
  <2> QED BY <1>1, <2>3, <2>5, ToolAsks DEF filters
<1>3. CASE Examine(c)
  <2> DEFINE kind == x.answer.kind
             groups == {f[1] : f \in NonBrand(x.args.filters)}
             args == build_metrics_query_args(x.ask.metric, groups, {}, TRUE)
  <2>1. \/ \E o \in ToolOutcomes \ {"ok"} : End(c, o)
        \/ Go(c, [tool[c] EXCEPT !.for = "probe", !.at = "asking", !.args = args])
    <3>1. Failure(kind) \in ToolOutcomes \ {"ok"}
      <4> HIDE DEF kind
      <4> QED BY DEF Failure, ToolOutcomes
    <3>2. {"value not found", "no data"} \subseteq ToolOutcomes \ {"ok"}
      BY DEF ToolOutcomes
    <3>3. CASE kind \in Errors
      <4>1. End(c, Failure(kind))
        BY <1>3, <3>3 DEF Examine, Errors
      <4> QED BY <3>1, <4>1
    <3>4. CASE kind = "absent"
      BY <1>3, <3>2, <3>4 DEF Examine, Errors
    <3>5. CASE kind = "empty" /\ NonBrand(tool[c].args.filters) = {}
      BY <1>3, <3>2, <3>5 DEF Examine, Errors
    <3>6. CASE ~(kind \in Errors) /\ kind # "absent" /\
               ~(kind = "empty" /\ NonBrand(tool[c].args.filters) = {})
      BY <1>3, <3>6 DEF Examine
    <3> QED BY <3>3, <3>4, <3>5, <3>6
  <2>2. groups \in SUBSET Dims
    <3>1. x.args.filters \in SUBSET FilterSet
      BY <1>1 DEF Args
    <3>2. \A f \in FilterSet : f[1] \in Dims
      BY DEF FilterSet
    <3> QED BY <3>1, <3>2 DEF NonBrand
  <2>3. {} \in SUBSET FilterSet /\ x.ask.metric \in MetricIds
    BY <1>1, AskTyped
  <2> HIDE DEF args, groups, x
  <2>4. args \in Args /\ Branded(args)
    <3>1. args = build_metrics_query_args(x.ask.metric, groups, {}, TRUE)
      BY DEF args
    <3>2. BrandedArgs(args, x.ask.metric, groups, {})
      BY <2>2, <2>3, <3>1, BuiltWithBrand
    <3> QED BY <3>2 DEF BrandedArgs
  <2>5. CASE Go(c, [tool[c] EXCEPT !.for = "probe", !.at = "asking", !.args = args])
    BY <1>1, <2>4, <2>5, ToolAsks DEF x
  <2>6. CASE \E o \in ToolOutcomes \ {"ok"} : End(c, o)
    BY <1>1, <2>6, ToolEnds
  <2> QED BY <2>1, <2>5, <2>6
<1>4. CASE Probed(c)
  <2>1. End(c, "no data") /\ "no data" \in ToolOutcomes
    BY <1>4 DEF Probed, ToolOutcomes
  <2> QED BY <1>1, <2>1, ToolEnds
<1> QED BY <1>2, <1>3, <1>4

\* A row of query_metrics is written where none was, with the value that is stored.
LEMMA WriteSteps ==
  ASSUME ToolsInv, RowsInv, NEW c \in ToolCalls, Write(c)
  PROVE  ToolsInv' /\ RowsInv'
<1> DEFINE x == tool[c]
           args == x.args
           outcome == IF WrittenBefore(args) THEN written[args]
                      ELSE IF x.answer.kind = "rows" THEN "ok" ELSE "no data"
           row == [by |-> "query_metrics", args |-> args, value |-> x.answer.value,
                   slice |-> {f[1] : f \in Filters(x.ask.dims)}]
<1>1. /\ x \in ToolRecord /\ x.at = "answered" /\ ArgsAreAsked(x) /\ stored' = stored
      /\ args \in Args /\ x.ask \in Asked /\ x.for \in {"data", "default brand"}
      /\ x.answer.kind # "spent" /\ AnswerIsStored(x, stored)
  BY DEF ToolsInv, Write, ArgsAreAsked
<1>2. outcome \in {"ok", "no data"}
  BY DEF RowsInv, WrittenBefore
<1>3. /\ End(c, outcome)
      /\ written' = [a \in DOMAIN written \cup {args} |-> IF a = args THEN outcome ELSE written[a]]
      /\ evidence' = IF WrittenBefore(args) \/ outcome # "ok" THEN evidence
                     ELSE Append(evidence, row)
  BY DEF Write
<1> HIDE DEF outcome, row
<1>4. ToolsInv'
  <2>1. outcome \in ToolOutcomes
    BY <1>2 DEF ToolOutcomes
  <2> QED BY <1>1, <1>3, <2>1, ToolEnds
<1>5. /\ DOMAIN written' = DOMAIN written \cup {args}
      /\ \A a \in DOMAIN written' : written'[a] \in {"ok", "no data"}
  BY <1>2, <1>3 DEF RowsInv
<1>6. args \in DOMAIN stored /\ x.answer = stored[args]
  BY <1>1 DEF AnswerIsStored
<1>7. row \in QueryRow
  <2>1. {f[1] : f \in Filters(x.ask.dims)} \in SUBSET Dims
    BY <1>1, AskTyped DEF FilterSet
  <2>2. x.answer.value \in Nat
    BY <1>1 DEF ToolRecord, Answer
  <2> QED BY <1>1, <2>1, <2>2 DEF row, QueryRow
<1>8. row.by = "query_metrics" /\ row.args = args /\ row.value = stored[args].value
  BY <1>6 DEF row
<1>9. CASE evidence' = evidence
  BY <1>1, <1>4, <1>5, <1>9 DEF RowsInv
<1>10. CASE evidence' # evidence
  <2> DEFINE n == Len(evidence) + 1
  <2>1. args \notin DOMAIN written /\ evidence' = Append(evidence, row)
    BY <1>3, <1>10 DEF WrittenBefore
  <2>2. evidence \in Seq(QueryRow)
    BY DEF RowsInv
  <2>3. /\ evidence' \in Seq(QueryRow) /\ DOMAIN evidence' = DOMAIN evidence \cup {n}
        /\ evidence'[n] = row /\ \A i \in DOMAIN evidence : evidence'[i] = evidence[i] /\ i # n
    BY <1>7, <2>1, <2>2
  <2> HIDE DEF n, x
  <2>4. \A i \in DOMAIN evidence' :
          /\ evidence'[i].args \in DOMAIN stored
          /\ evidence'[i].value = stored[evidence'[i].args].value
          /\ evidence'[i].by = "query_metrics" => evidence'[i].args \in DOMAIN written'
    BY <1>5, <1>6, <1>8, <2>3 DEF RowsInv
  <2>5. ASSUME NEW i \in DOMAIN evidence', NEW j \in DOMAIN evidence',
               evidence'[i].args = evidence'[j].args, i # j
        PROVE  evidence'[i].by # "query_metrics" \/ evidence'[j].by # "query_metrics"
    <3>1. \A k \in DOMAIN evidence : evidence[k].by = "query_metrics" => evidence[k].args # args
      BY <2>1 DEF RowsInv
    <3>2. CASE i # n /\ j # n
      BY <2>3, <2>5, <3>2 DEF RowsInv, RowsApart
    <3>3. CASE i = n
      BY <1>8, <2>3, <2>5, <3>1, <3>3
    <3>4. CASE j = n
      BY <1>8, <2>3, <2>5, <3>1, <3>4
    <3> QED BY <3>2, <3>3, <3>4
  <2> QED BY <1>1, <1>4, <1>5, <2>3, <2>4, <2>5 DEF RowsInv, RowsApart
<1> QED BY <1>4, <1>9, <1>10

\* A drilldown goes on from an answer that is none of the errors ...
LEMMA DrillSteps ==
  ASSUME ToolsInv, NEW c \in ToolCalls, Drill(c)
  PROVE  ToolsInv'
<1> DEFINE x == tool[c]
           to == [x EXCEPT !.at = "drilling"]
<1>1. /\ x \in ToolRecord /\ x.at = "answered" /\ ArgsAreAsked(x) /\ stored' = stored
      /\ AnswerIsStored(x, stored) /\ x.for = "parent"
  BY DEF ToolsInv, Drill, OnlyTool
<1>2. \/ \E o \in ToolOutcomes \ {"ok"} : End(c, o)
      \/ Go(c, to) /\ x.answer.kind \notin Errors
  BY DEF Drill, _resolve_drilldown_parent_id, Failure, ToolOutcomes
<1>3. CASE \E o \in ToolOutcomes \ {"ok"} : End(c, o)
  BY <1>1, <1>3, ToolEnds
<1>4. CASE Go(c, to) /\ x.answer.kind \notin Errors
  <2> HIDE DEF x
  <2>3. to \in ToolRecord
    BY <1>1 DEF ToolRecord
  <2>4. /\ to.at = "drilling" /\ to.outcome = x.outcome /\ to.for = x.for /\ to.ask = x.ask
        /\ to.args = x.args /\ to.answer = x.answer
    BY <1>1 DEF ToolRecord
  <2> HIDE DEF to
  <2>5. ArgsAreAsked(to)
    BY <1>1, <1>4, <2>4 DEF ArgsAreAsked, Kept
  <2>6. /\ AnswerIsStored(to, stored) /\ FetchedOnce(to, stored)
        /\ \A d \in ToolCalls : OneFetcher(to, tool[d])
    BY <1>1, <2>4 DEF AnswerIsStored, FetchedOnce, OneFetcher
  <2> QED BY <1>1, <1>4, <2>3, <2>5, <2>6, OneCallSteps
<1> QED BY <1>2, <1>3, <1>4

\* ... writes the rows of its parent query ...
LEMMA DrillReturnSteps ==
  ASSUME ToolsInv, RowsInv, NEW c \in ToolCalls, NEW kind \in {"rows", "empty"},
         DrillReturns(c, kind)
  PROVE  ToolsInv' /\ RowsInv'
<1> DEFINE x == tool[c]
           row == [by |-> "drilldown", args |-> x.args, value |-> x.answer.value, slice |-> {}]
           outcome == IF kind = "rows" THEN "ok" ELSE "no data"
<1>1. /\ x \in ToolRecord /\ x.at = "drilling" /\ ArgsAreAsked(x) /\ stored' = stored
      /\ written' = written /\ AnswerIsStored(x, stored) /\ x.for = "parent"
      /\ x.args \in Args /\ x.answer.kind # "spent"
  BY DEF ToolsInv, DrillReturns, ArgsAreAsked, Errors
<1>2. /\ End(c, outcome)
      /\ evidence' = IF kind = "rows" THEN Append(evidence, row) ELSE evidence
  BY DEF DrillReturns
<1> HIDE DEF row
<1>3. ToolsInv'
  <2>1. outcome \in ToolOutcomes
    BY DEF ToolOutcomes
  <2> QED BY <1>1, <1>2, <2>1, ToolEnds
<1>4. x.args \in DOMAIN stored /\ x.answer = stored[x.args]
  BY <1>1 DEF AnswerIsStored
<1>5. row \in QueryRow
  <2>1. x.answer.value \in Nat
    BY <1>1 DEF ToolRecord, Answer
  <2> QED BY <1>1, <2>1 DEF row, QueryRow
<1>6. row.by = "drilldown" /\ row.args = x.args /\ row.value = stored[x.args].value
  BY <1>4 DEF row
<1>7. CASE evidence' = evidence
  BY <1>1, <1>3, <1>7 DEF RowsInv
<1>8. CASE evidence' = Append(evidence, row)
  <2> DEFINE n == Len(evidence) + 1
  <2>2. evidence \in Seq(QueryRow)
    BY DEF RowsInv
  <2>3. /\ evidence' \in Seq(QueryRow) /\ DOMAIN evidence' = DOMAIN evidence \cup {n}
        /\ evidence'[n] = row /\ \A i \in DOMAIN evidence : evidence'[i] = evidence[i] /\ i # n
    BY <1>5, <1>8, <2>2
  <2> HIDE DEF n, x
  <2>4. \A i \in DOMAIN evidence' :
          /\ evidence'[i].args \in DOMAIN stored
          /\ evidence'[i].value = stored[evidence'[i].args].value
          /\ evidence'[i].by = "query_metrics" => evidence'[i].args \in DOMAIN written
    BY <1>4, <1>6, <2>3 DEF RowsInv
  <2>5. RowsApart(evidence')
    <3>1. SUFFICES ASSUME NEW i \in DOMAIN evidence', NEW j \in DOMAIN evidence', i # j,
                          evidence'[i].args = evidence'[j].args
                   PROVE  evidence'[i].by # "query_metrics" \/ evidence'[j].by # "query_metrics"
      BY DEF RowsApart
    <3>2. CASE i = n \/ j = n
      BY <1>6, <2>3, <3>2
    <3>3. CASE i # n /\ j # n
      BY <2>3, <3>1, <3>3 DEF RowsInv, RowsApart
    <3> QED BY <3>2, <3>3
  <2> QED BY <1>1, <1>3, <2>3, <2>4, <2>5 DEF RowsInv
<1> QED BY <1>2, <1>7, <1>8

\* ... or raises in all who wait for it.
LEMMA DrillRaiseSteps ==
  ASSUME ToolsInv, NEW c \in ToolCalls, DrillRaises(c)
  PROVE  ToolsInv'
<1> DEFINE Raises(d) == tool[d].at = "drilling" /\ tool[d].args = tool[c].args
           raised(x) == [x EXCEPT !.at = "over", !.outcome = "retryable"]
<1>1. /\ stored' = stored
      /\ tool' = [d \in ToolCalls |-> IF Raises(d) THEN raised(tool[d]) ELSE tool[d]]
  BY DEF DrillRaises, OnlyTool
<1>2. ASSUME NEW d \in ToolCalls, Raises(d)
      PROVE  tool'[d] \in ToolRecord /\ ArgsAreAsked(tool'[d]) /\ tool'[d].at = "over"
  <2> DEFINE x == tool[d]
             to == raised(x)
  <2>1. x \in ToolRecord /\ ArgsAreAsked(x) /\ tool'[d] = to
    BY <1>1, <1>2 DEF ToolsInv
  <2> HIDE DEF x
  <2>2. to \in ToolRecord
    BY <2>1 DEF ToolRecord
  <2>3. /\ to.at = "over" /\ to.outcome = "retryable" /\ to.for = x.for /\ to.ask = x.ask
        /\ to.args = x.args
    BY <2>1 DEF ToolRecord
  <2> HIDE DEF to, raised
  <2>4. ArgsAreAsked(to)
    BY <2>1, <2>3 DEF ArgsAreAsked, Kept
  <2> QED BY <2>1, <2>2, <2>3, <2>4
<1>3. \A d \in ToolCalls : Raises(d) \/ tool'[d] = tool[d]
  BY <1>1
<1>4. DOMAIN tool' = ToolCalls /\ tool' = [d \in ToolCalls |-> tool'[d]]
  BY <1>1
<1> HIDE DEF Raises, raised
<1>5. \A d \in ToolCalls : /\ tool'[d] \in ToolRecord /\ ArgsAreAsked(tool'[d])
                           /\ AnswerIsStored(tool'[d], stored) /\ FetchedOnce(tool'[d], stored)
  <2> SUFFICES ASSUME NEW d \in ToolCalls
               PROVE  /\ tool'[d] \in ToolRecord /\ ArgsAreAsked(tool'[d])
                      /\ AnswerIsStored(tool'[d], stored) /\ FetchedOnce(tool'[d], stored)
    OBVIOUS
  <2>1. CASE Raises(d)
    BY <1>2, <2>1 DEF AnswerIsStored, FetchedOnce
  <2>2. CASE tool'[d] = tool[d]
    BY <2>2 DEF ToolsInv
  <2> QED BY <1>3, <2>1, <2>2
<1>6. \A d, e \in ToolCalls : d # e => OneFetcher(tool'[d], tool'[e])
  BY <1>2, <1>3 DEF ToolsInv, OneFetcher
<1>7. tool' \in [ToolCalls -> ToolRecord]
  BY <1>4, <1>5
<1> QED BY <1>1, <1>5, <1>6, <1>7 DEF ToolsInv

\* The budget, whoever asks.
LEMMA BudgetSteps ==
  ASSUME ToolsInv, BudgetInv, FetchingNext
  PROVE  BudgetInv'
<1>1. ASSUME NEW c \in ToolCalls, Ask(c) PROVE BudgetInv'
  <2> DEFINE args == tool[c].args
  <2>1. args \in Args /\ Branded(args)
    BY <1>1 DEF ToolsInv, Ask, ArgsAreAsked
  <2>2. snapshot' = snapshot /\ live' = live
    BY <1>1 DEF Ask
  <2> HIDE DEF args
  <2>3. CASE args \in DOMAIN stored
    BY <1>1, <2>2, <2>3 DEF Ask, BudgetInv, args
  <2>4. CASE args \notin DOMAIN stored /\ ~BudgetLeft
    BY <1>1, <2>2, <2>4 DEF Ask, BudgetInv, args
  <2>5. CASE args \notin DOMAIN stored /\ BudgetLeft
    <3>1. /\ spent' = spent + 1 /\ withdrawn_' = withdrawn_
          /\ fetched' = fetched \/ fetched' = Append(fetched, args)
      BY <1>1, <2>5 DEF Ask, consume, args
    <3>2. /\ fetched \in Seq(Args) /\ Len(fetched) <= spent /\ spent < MaxQueries /\ spent \in Nat
          /\ \A i \in DOMAIN fetched : Branded(fetched[i])
      BY <2>5 DEF BudgetInv, BudgetLeft
    <3>3. CASE fetched' = fetched
      BY <2>2, <3>1, <3>2, <3>3, FetchingAssumption DEF BudgetInv
    <3>4. CASE fetched' = Append(fetched, args)
      <4>1. /\ fetched' \in Seq(Args) /\ Len(fetched') = Len(fetched) + 1
            /\ DOMAIN fetched' = DOMAIN fetched \cup {Len(fetched) + 1}
            /\ fetched'[Len(fetched) + 1] = args
            /\ \A i \in DOMAIN fetched : fetched'[i] = fetched[i]
        BY <2>1, <3>2, <3>4
      <4>2. \A i \in DOMAIN fetched' : Branded(fetched'[i])
        BY <2>1, <3>2, <4>1
      <4> QED BY <2>2, <3>1, <3>2, <4>1, <4>2, FetchingAssumption DEF BudgetInv
    <3> QED BY <3>1, <3>3, <3>4
  <2> QED BY <2>3, <2>4, <2>5
<1>2. ASSUME NEW c \in ToolCalls, NEW kind, CubeReplies(c, kind) PROVE BudgetInv'
  <2>1. withdrawn_' \in BOOLEAN
    BY <1>2 DEF CubeReplies
  <2> QED BY <1>2, <2>1 DEF CubeReplies, BudgetInv
<1>3. ASSUME UNCHANGED <<snapshot, live, fetched, spent, withdrawn_>> PROVE BudgetInv'
  BY <1>3 DEF BudgetInv
<1>4. ASSUME NEW c \in ToolCalls,
             \/ \E ask \in Asked : Invoke(c, ask)
             \/ FallBack(c) \/ Examine(c) \/ Probed(c) \/ Drill(c) \/ DrillRaises(c)
      PROVE  BudgetInv'
  <2>1. OnlyTool
    BY <1>4 DEF Invoke, FallBack, Examine, Probed, Drill, DrillRaises
  <2> QED BY <1>3, <2>1 DEF OnlyTool
<1>5. ASSUME NEW c \in ToolCalls, Write(c) PROVE BudgetInv'
  BY <1>3, <1>5 DEF Write
<1>6. ASSUME NEW c \in ToolCalls, NEW kind, DrillReturns(c, kind) PROVE BudgetInv'
  BY <1>3, <1>6 DEF DrillReturns
<1> QED BY <1>1, <1>2, <1>4, <1>5, <1>6 DEF FetchingNext

\* All steps together.
LEMMA FetchStep ==
  ASSUME FetchIInv, FetchingNext
  PROVE  FetchIInv'
<1>1. BudgetInv'
  BY BudgetSteps DEF FetchIInv
<1>2. ASSUME ToolsInv', stored' = stored, UNCHANGED <<written, evidence>>
      PROVE  ToolsInv' /\ RowsInv'
  BY <1>2 DEF FetchIInv, RowsInv
<1>3. PICK c \in ToolCalls :
        \/ \E ask \in Asked : Invoke(c, ask)
        \/ Ask(c) \/ FallBack(c) \/ Examine(c) \/ Probed(c) \/ Write(c) \/ Drill(c)
        \/ \E kind \in {"unknown_brand", "unknown_dimension", "transient", "unavailable",
                        "absent", "empty", "null", "rows"} : CubeReplies(c, kind)
        \/ \E kind \in {"rows", "empty"} : DrillReturns(c, kind)
        \/ DrillRaises(c)
  BY DEF FetchingNext
<1>4. CASE \E ask \in Asked : Invoke(c, ask)
  <2>1. ToolsInv'
    BY <1>4, InvokeSteps DEF FetchIInv
  <2>2. stored' = stored /\ UNCHANGED <<written, evidence>>
    BY <1>4 DEF Invoke, OnlyTool
  <2> QED BY <1>1, <1>2, <2>1, <2>2 DEF FetchIInv
<1>5. CASE Ask(c)
  <2>1. ToolsInv'
    BY <1>5, AskSteps DEF FetchIInv
  <2>2. stored' = stored /\ UNCHANGED <<written, evidence>>
    BY <1>5 DEF Ask
  <2> QED BY <1>1, <1>2, <2>1, <2>2 DEF FetchIInv
<1>6. CASE FallBack(c) \/ Examine(c) \/ Probed(c)
  <2>1. ToolsInv'
    BY <1>6, ExamineSteps DEF FetchIInv
  <2>2. stored' = stored /\ UNCHANGED <<written, evidence>>
    BY <1>6 DEF FallBack, Examine, Probed, OnlyTool
  <2> QED BY <1>1, <1>2, <2>1, <2>2 DEF FetchIInv
<1>7. CASE Write(c)
  BY <1>1, <1>7, WriteSteps DEF FetchIInv
<1>8. CASE Drill(c)
  <2>1. ToolsInv'
    BY <1>8, DrillSteps DEF FetchIInv
  <2>2. stored' = stored /\ UNCHANGED <<written, evidence>>
    BY <1>8 DEF Drill, OnlyTool
  <2> QED BY <1>1, <1>2, <2>1, <2>2 DEF FetchIInv
<1>9. CASE \E kind \in {"unknown_brand", "unknown_dimension", "transient", "unavailable",
                        "absent", "empty", "null", "rows"} : CubeReplies(c, kind)
  <2>1. ToolsInv' /\ \A a \in DOMAIN stored : a \in DOMAIN stored' /\ stored'[a] = stored[a]
    BY <1>9, ReplySteps DEF FetchIInv
  <2>2. UNCHANGED <<written, evidence>>
    BY <1>9 DEF CubeReplies
  <2>3. RowsInv'
    BY <2>1, <2>2 DEF FetchIInv, RowsInv
  <2> QED BY <1>1, <2>1, <2>3 DEF FetchIInv
<1>10. CASE \E kind \in {"rows", "empty"} : DrillReturns(c, kind)
  BY <1>1, <1>10, DrillReturnSteps DEF FetchIInv
<1>11. CASE DrillRaises(c)
  <2>1. ToolsInv'
    BY <1>11, DrillRaiseSteps DEF FetchIInv
  <2>2. stored' = stored /\ UNCHANGED <<written, evidence>>
    BY <1>11 DEF DrillRaises, OnlyTool
  <2> QED BY <1>1, <1>2, <2>1, <2>2 DEF FetchIInv
<1> QED BY <1>3, <1>4, <1>5, <1>6, <1>7, <1>8, <1>9, <1>10, <1>11

\* What the properties say follows.
LEMMA FetchSettled ==
  ASSUME FetchIInv
  PROVE  FetchingInv
<1>1. FetchingTypeOK
  <2>1. \A c \in ToolCalls :
          /\ tool[c].at \in {"idle", "asking", "fetching", "waiting", "answered", "drilling", "over"}
          /\ tool[c].for \in {"none", "data", "default brand", "probe", "parent"}
          /\ tool[c].answer \in Answer
    BY DEF FetchIInv, ToolsInv, ToolRecord
  <2>2. \A a \in DOMAIN stored : stored[a] \in Answer
    BY DEF FetchIInv, ToolsInv
  <2>3. /\ snapshot \in BOOLEAN /\ live \in BOOLEAN /\ withdrawn_ \in BOOLEAN
        /\ spent \in 0..MaxQueries
    BY FetchingAssumption DEF FetchIInv, BudgetInv
  <2> QED BY <2>1, <2>2, <2>3 DEF FetchingTypeOK
<1>2. OneValuePerQuery
  BY DEF FetchIInv, RowsInv, OneValuePerQuery
<1>3. RowsWrittenOnce
  <2>1. SUFFICES ASSUME NEW i \in DOMAIN evidence, NEW j \in DOMAIN evidence, i # j,
                        evidence[i].args = evidence[j].args,
                        {evidence[i].by, evidence[j].by} = {"query_metrics"}
                 PROVE  FALSE
    BY DEF RowsWrittenOnce
  <2>2. evidence[i].by = "query_metrics" /\ evidence[j].by = "query_metrics"
    BY <2>1
  <2> QED BY <2>1, <2>2 DEF FetchIInv, RowsInv, RowsApart
<1>4. NothingStripped
  BY DEF FetchIInv, ToolsInv, ArgsAreAsked, Kept, NothingStripped
<1>5. WithinCubeBudget
  BY DEF FetchIInv, BudgetInv, Branded, WithinCubeBudget
<1> QED BY <1>1, <1>2, <1>3, <1>4, <1>5 DEF FetchingInv

\* Whatever the model asks for, however many calls run side by side: one value
\* per query, rows written once, nothing stripped, the budget kept.
THEOREM FetchingIsConsistent == FetchingSpec => []FetchingInv
<1>1. FetchingInit => FetchIInv
  <2> SUFFICES ASSUME FetchingInit PROVE FetchIInv
    OBVIOUS
  <2>1. Unused \in ToolRecord
    BY DEF Unused, NoAnswer, Answer, ToolRecord
  <2>2. Unused.at = "idle" /\ Unused.for = "none" /\ Unused.outcome = "none"
    BY DEF Unused
  <2>3. tool \in [ToolCalls -> ToolRecord] /\ \A c \in ToolCalls : tool[c] = Unused
    BY <2>1 DEF FetchingInit
  <2>4. \A c \in ToolCalls : /\ ArgsAreAsked(tool[c])
                             /\ AnswerIsStored(tool[c], stored)
                             /\ FetchedOnce(tool[c], stored)
    BY <2>2, <2>3 DEF ArgsAreAsked, AnswerIsStored, FetchedOnce
  <2>5. \A c, d \in ToolCalls : OneFetcher(tool[c], tool[d])
    BY <2>2, <2>3 DEF OneFetcher
  <2>6. ToolsInv
    BY <2>3, <2>4, <2>5 DEF ToolsInv, FetchingInit
  <2>7. BudgetInv
    <3>1. fetched = <<>> /\ spent = 0 /\ withdrawn_ = FALSE /\ snapshot \in BOOLEAN /\ live \in BOOLEAN
      BY DEF FetchingInit
    <3>2. fetched \in Seq(Args) /\ Len(fetched) = 0 /\ DOMAIN fetched = {}
      BY <3>1
    <3>3. withdrawn_ \in BOOLEAN /\ snapshot \in BOOLEAN /\ live \in BOOLEAN
      BY <3>1
    <3>4. Len(fetched) <= spent /\ spent <= MaxQueries /\ spent \in Nat
      BY <3>1, <3>2, FetchingAssumption
    <3>5. \A i \in DOMAIN fetched : Branded(fetched[i])
      BY <3>2
    <3> QED BY <3>2, <3>3, <3>4, <3>5 DEF BudgetInv
  <2>8. RowsInv
    BY DEF RowsInv, RowsApart, FetchingInit
  <2> QED BY <2>6, <2>7, <2>8 DEF FetchIInv
<1>2. FetchIInv /\ [FetchingNext]_fetchVars => FetchIInv'
  <2> SUFFICES ASSUME FetchIInv, [FetchingNext]_fetchVars PROVE FetchIInv'
    OBVIOUS
  <2>1. CASE FetchingNext
    BY <2>1, FetchStep
  <2>2. CASE UNCHANGED fetchVars
    BY <2>2 DEF fetchVars, FetchIInv, ToolsInv, BudgetInv, RowsInv
  <2> QED BY <2>1, <2>2
<1>3. FetchIInv => FetchingInv
  BY FetchSettled
<1> QED BY <1>1, <1>2, <1>3, PTL DEF FetchingSpec

-----------------------------------------------------------------------------
(* AgentRun.                                                               *)

AgentSpec == AgentInit /\ [][AgentNext]_agentVars

SlotRecord == [call: CallKinds \cup {"none"}, at: {"free", "pending", "running", "done"}]
CountRecord ==
  [repeats: [CallKinds -> Nat], withdrawn: SUBSET Tools, executed: [CallKinds -> Nat],
   retries: [CallKinds -> Nat], live_down: BOOLEAN]
UsageRecord == [requests: Nat, calls: Nat, retries: Nat, mission: Nat]

AgentTypes ==
  /\ phase \in {"routing", "lookup", "requesting", "responding", "working",
                "validating", "over"}
  /\ route \in Routes \cup {"agent"} /\ offered \subseteq Tools
  /\ slots \in [1..Batch -> SlotRecord]
  /\ counts \in CountRecord
  /\ prior \in [CallKinds -> {"none"} \cup Outcomes]
  /\ usage \in UsageRecord
  /\ revision \in 0..MaxRevisions

\* Where the mission is, and what it has to show for it.
PhaseInv ==
  /\ \A i \in 1..Batch : slots[i].at \in {"pending", "running"} => slots[i].call \in CallKinds
  /\ phase \notin {"working", "over"} => \A i \in 1..Batch : slots[i].at = "free"
  /\ draft.runs \subseteq {revision + 1} /\ draft = [runs |-> draft.runs, whole |-> draft.whole]
  /\ phase = "validating" => draft = [runs |-> {revision + 1}, whole |-> TRUE]
  /\ phase = "lookup" => route = "alias"
  /\ phase # "over" => result.status = "none"
  /\ result.status \in {"none", "completed", "partial", "failed"}
  /\ AnswerIsValidated

\* Every finished run has spent at most its share, and so has the current one.
ShareInv ==
  /\ usage.calls <= _share(Cap)
  /\ usage.mission <= revision * _share(Cap) + usage.calls

\* How often a call is executed.  A response holds it at most Batch times; once
\* none of them is left it is executed again only if the last one failed in
\* transit, and that is one retry more.
PendingFor(k, s) == {i \in 1..Batch : s[i].call = k /\ s[i].at = "pending"}
InHand(k, s) == \E i \in 1..Batch : s[i].call = k /\ s[i].at \in {"pending", "running"}
KindIsBounded(k, s, run, retried, before) ==
  /\ run <= Batch * (1 + retried)
  /\ before \in {"none", "transient"} =>
       run + Cardinality(PendingFor(k, s)) <= Batch * (1 + retried)
  /\ before \in {"none", "transient"} /\ ~InHand(k, s) => run <= Batch * retried
CallsInv ==
  \A k \in CallKinds :
    KindIsBounded(k, slots, counts.executed[k], counts.retries[k], prior[k])

AgentIInv == AgentTypes /\ PhaseInv /\ ShareInv /\ CallsInv

\* The shares of all runs, each rounded up.
LEMMA SharesAddUp ==
  ASSUME NEW r \in 0..MaxRevisions
  PROVE  _share(Cap) \in Nat /\ r * _share(Cap) + _share(Cap) <= Cap + MaxRevisions
<1> DEFINE s == _share(Cap)
           A == MaxRevisions + 1
<1>1. Cap \in Nat /\ MaxRevisions \in Nat /\ A \in Nat \ {0} /\ r \in Nat /\ r <= MaxRevisions
  BY AgentAssumption DEF Cap
<1>2. s = (Cap + A - 1) \div A
  BY <1>1 DEF _share, Attempts
<1> HIDE DEF s, A
<1>3. s \in Nat /\ A * s <= Cap + A - 1
  BY <1>1, <1>2
<1>4. r * s + s <= A * s
  <2>1. r * s + s <= (MaxRevisions + 1) * s
    BY <1>1, <1>3
  <2> QED BY <2>1 DEF A
<1>5. r * s \in Nat /\ A * s \in Nat
  BY <1>1, <1>3
<1> QED BY <1>1, <1>3, <1>4, <1>5 DEF s, A

\* How many places of a response hold a call.
LEMMA PendingCounted ==
  ASSUME NEW k, NEW s
  PROVE  /\ IsFiniteSet(PendingFor(k, s)) /\ Cardinality(PendingFor(k, s)) \in Nat
         /\ Cardinality(PendingFor(k, s)) <= Batch
         /\ ~InHand(k, s) => Cardinality(PendingFor(k, s)) = 0
         /\ PendingFor(k, s) # {} => Cardinality(PendingFor(k, s)) >= 1
<1>1. IsFiniteSet(1..Batch) /\ Cardinality(1..Batch) = Batch
  BY AgentAssumption, FS_Interval
<1>2. PendingFor(k, s) \in SUBSET (1..Batch)
  BY DEF PendingFor
<1>3. /\ IsFiniteSet(PendingFor(k, s)) /\ Cardinality(PendingFor(k, s)) <= Batch
  BY <1>1, <1>2, FS_Subset
<1>4. Cardinality(PendingFor(k, s)) \in Nat
  BY <1>3, FS_CardinalityType
<1>5. Cardinality(PendingFor(k, s)) = 0 <=> PendingFor(k, s) = {}
  BY <1>3, FS_EmptySet
<1>6. ~InHand(k, s) => PendingFor(k, s) = {}
  BY DEF PendingFor, InHand
<1> QED BY <1>3, <1>4, <1>5, <1>6

\* One place less.
LEMMA PendingLess ==
  ASSUME NEW k, NEW s, NEW t, NEW i \in PendingFor(k, s),
         PendingFor(k, t) = PendingFor(k, s) \ {i}
  PROVE  Cardinality(PendingFor(k, t)) + 1 = Cardinality(PendingFor(k, s))
<1>1. IsFiniteSet(PendingFor(k, s)) /\ Cardinality(PendingFor(k, s)) \in Nat
  BY PendingCounted
<1> DEFINE S == PendingFor(k, s)
<1>2. i \in S /\ PendingFor(k, t) = S \ {i}
  OBVIOUS
<1> HIDE DEF S
<1>3. Cardinality(S \ {i}) = Cardinality(S) - 1
  BY <1>1, <1>2, FS_RemoveElement DEF S
<1> QED BY <1>1, <1>2, <1>3 DEF S

\* What a response of the model starts with: no call is in hand before it.
LEMMA ResponseBounded ==
  ASSUME NEW k, NEW s, NEW t, NEW run \in Nat, NEW retried \in Nat, NEW before,
         KindIsBounded(k, s, run, retried, before), ~InHand(k, s)
  PROVE  KindIsBounded(k, t, run, retried, before)
<1>1. Cardinality(PendingFor(k, t)) \in Nat /\ Cardinality(PendingFor(k, t)) <= Batch
  BY PendingCounted
<1>2. before \in {"none", "transient"} => run <= Batch * retried
  BY DEF KindIsBounded
<1>3. Batch * (1 + retried) = Batch * retried + Batch /\ Batch * retried \in Nat /\ Batch \in Nat
  BY AgentAssumption
<1> QED BY <1>1, <1>2, <1>3 DEF KindIsBounded

\* A call begins: one place less is pending, and it is executed or replayed.
LEMMA BeginBounded ==
  ASSUME NEW k, NEW s, NEW t, NEW run \in Nat, NEW retried \in Nat, NEW before,
         KindIsBounded(k, s, run, retried, before), NEW i \in PendingFor(k, s),
         PendingFor(k, t) = PendingFor(k, s) \ {i},
         before \in {"none", "transient"} => InHand(k, t),
         NEW more, more = IF before \in {"none", "transient"} THEN run + 1 ELSE run
  PROVE  more \in Nat /\ KindIsBounded(k, t, more, retried, before)
<1> DEFINE p == Cardinality(PendingFor(k, s))
           q == Cardinality(PendingFor(k, t))
           limit == Batch * (1 + retried)
<1>1. p \in Nat /\ q \in Nat /\ q + 1 = p
  BY PendingCounted, PendingLess
<1>2. limit \in Nat
  BY AgentAssumption
<1> HIDE DEF p, q, limit
<1>3. CASE before \in {"none", "transient"}
  <2>1. run + p <= limit
    BY <1>3 DEF KindIsBounded, p, limit
  <2>2. more = run + 1 /\ more <= limit /\ more + q <= limit
    BY <1>1, <1>2, <1>3, <2>1
  <2> QED BY <1>3, <2>2 DEF KindIsBounded, q, limit
<1>4. CASE before \notin {"none", "transient"}
  BY <1>4 DEF KindIsBounded
<1> QED BY <1>3, <1>4

\* A call ends: only one that failed in transit will be executed again.
LEMMA EndBounded ==
  ASSUME NEW k, NEW t, NEW run \in Nat, NEW retried \in Nat, NEW o \in Outcomes,
         run <= Batch * (1 + retried), NEW more \in Nat, more = IF o = "transient" THEN retried + 1 ELSE retried
  PROVE  KindIsBounded(k, t, run, more, o)
<1> DEFINE q == Cardinality(PendingFor(k, t))
           limit == Batch * (1 + retried)
<1>1. q \in Nat /\ q <= Batch /\ limit \in Nat /\ run <= limit /\ Batch \in Nat
  BY PendingCounted, AgentAssumption
<1>2. CASE o = "transient"
  <2>1. more = retried + 1 /\ more \in Nat
    BY <1>2
  <2>2. Batch * (1 + more) = limit + Batch /\ Batch * more = limit
    BY <1>1, <2>1
  <2> HIDE DEF q, limit
  <2>3. run <= Batch * (1 + more) /\ run + q <= Batch * (1 + more) /\ run <= Batch * more
    BY <1>1, <2>2
  <2> QED BY <2>1, <2>3 DEF KindIsBounded, q
<1>3. CASE o # "transient"
  BY <1>1, <1>3 DEF KindIsBounded, Outcomes
<1> QED BY <1>2, <1>3

\* Where nothing is said of calls and budgets, what holds of them stays.
LEMMA SameCounts ==
  ASSUME ShareInv, CallsInv, UNCHANGED <<slots, counts, prior, usage, revision>>
  PROVE  ShareInv' /\ CallsInv'
BY DEF ShareInv, CallsInv

\* A mission that ends keeps what it has; only a passed answer ends completed.
LEMMA EndSteps ==
  ASSUME AgentIInv, NEW status \in {"completed", "partial", "failed"}, NEW error,
         Finish(status, error),
         UNCHANGED <<route, offered, slots, counts, prior, usage, revision, verdict, draft>>,
         status = "completed" /\ route # "alias" => phase = "validating" /\ verdict = "PASS"
  PROVE  AgentIInv'
<1>1. /\ phase' = "over" /\ result'.status = status /\ result'.run = revision + 1
  BY DEF Finish
<1>2. AgentTypes'
  BY <1>1 DEF AgentIInv, AgentTypes
<1>3. AnswerIsValidated'
  BY <1>1 DEF AgentIInv, PhaseInv, AnswerIsValidated
<1>4. PhaseInv'
  BY <1>1, <1>3 DEF AgentIInv, PhaseInv
<1> QED BY <1>2, <1>4, SameCounts DEF AgentIInv

\* The ways in which a mission ends.
LEMMA FinishingSteps ==
  ASSUME AgentIInv,
         \/ \E found \in BOOLEAN : Lookup(found)
         \/ OverBudget
         \/ \E status \in {"completed", "partial", "failed"} : Conclude(status)
         \/ \E error : Raise(error)
  PROVE  AgentIInv'
<1>1. CASE \E found \in BOOLEAN : Lookup(found)
  <2>1. route = "alias"
    BY <1>1 DEF Lookup, AgentIInv, PhaseInv
  <2>2. \E status \in {"completed", "failed"} : \E error :
          Finish(status, error) /\
          UNCHANGED <<route, offered, slots, counts, prior, usage, revision, verdict, draft>>
    BY <1>1 DEF Lookup
  <2> QED BY <2>1, <2>2, EndSteps
<1>2. CASE OverBudget
  BY <1>2, EndSteps DEF OverBudget
<1>3. CASE \E error : Raise(error)
  BY <1>3, EndSteps DEF Raise
<1>4. CASE \E status \in {"completed", "partial", "failed"} : Conclude(status)
  <2>1. PICK status \in {"completed", "partial", "failed"} : Conclude(status)
    BY <1>4
  <2>2. phase = "validating" /\ 
        UNCHANGED <<route, offered, slots, counts, prior, usage, revision, verdict, draft>>
    BY <2>1 DEF Conclude
  <2>3. CASE verdict = "PASS"
    <3>1. Finish(status, "none")
      BY <2>1, <2>3 DEF Conclude
    <3> QED BY <2>2, <2>3, <3>1, EndSteps
  <2>4. CASE verdict # "PASS"
    <3>1. Finish("failed", "INSUFFICIENT_EVIDENCE")
      BY <2>1, <2>4 DEF Conclude
    <3> QED BY <2>2, <3>1, EndSteps
  <2> QED BY <2>3, <2>4
<1> QED BY <1>1, <1>2, <1>3, <1>4

\* The steps that leave calls, counters and shares as they are.
LEMMA TalkSteps ==
  ASSUME AgentIInv,
         \/ \E r \in Routes : Decide(r)
         \/ Request
         \/ RetryOutput
         \/ \E whole \in BOOLEAN : Stream(whole)
         \/ \E v \in {"PASS", "REVISE", "REJECT", "invalid"} : Validate(v)
  PROVE  AgentIInv'
<1>1. CASE \E r \in Routes : Decide(r)
  <2>1. PICK r \in Routes : Decide(r)
    BY <1>1
  <2>2. AgentTypes'
    BY <2>1 DEF Decide, AgentIInv, AgentTypes
  <2>3. PhaseInv'
    BY <2>1 DEF Decide, AgentIInv, PhaseInv, AnswerIsValidated
  <2> QED BY <2>1, <2>2, <2>3, SameCounts DEF AgentIInv, Decide
<1>2. CASE Request \/ RetryOutput
  <2>1. /\ usage \in UsageRecord /\ phase \in {"requesting", "responding"}
        /\ UNCHANGED <<route, slots, counts, prior, revision, verdict, draft, result>>
    BY <1>2 DEF Request, RetryOutput, AgentIInv, AgentTypes
  <2>2. \/ usage' = [usage EXCEPT !.requests = @ + 1]
        \/ usage' = [usage EXCEPT !.retries = @ + 1]
    BY <1>2 DEF Request, RetryOutput
  <2>3. /\ usage' \in UsageRecord /\ usage'.calls = usage.calls
        /\ usage'.mission = usage.mission
    BY <2>1, <2>2 DEF UsageRecord
  <2>4. offered' \subseteq Tools /\ phase' \in {"requesting", "responding"}
    BY <1>2 DEF Request, RetryOutput, Prepared, AgentIInv, AgentTypes
  <2>5. AgentTypes'
    BY <2>1, <2>3, <2>4 DEF AgentIInv, AgentTypes
  <2>6. PhaseInv'
    BY <2>1, <2>4 DEF AgentIInv, PhaseInv, AnswerIsValidated
  <2>7. ShareInv' /\ CallsInv'
    BY <2>1, <2>3 DEF AgentIInv, ShareInv, CallsInv
  <2> QED BY <2>5, <2>6, <2>7 DEF AgentIInv
<1>3. CASE \E whole \in BOOLEAN : Stream(whole)
  <2>1. PICK whole \in BOOLEAN : Stream(whole)
    BY <1>3
  <2>2. /\ phase = "responding" /\ draft' = [runs |-> draft.runs \cup {revision + 1}, whole |-> whole]
        /\ phase' = IF whole THEN "validating" ELSE phase
        /\ UNCHANGED <<route, offered, slots, counts, prior, usage, revision, verdict, result>>
    BY <2>1 DEF Stream
  <2>3. AgentTypes'
    BY <2>2 DEF AgentIInv, AgentTypes
  <2>4. draft' = [runs |-> {revision + 1}, whole |-> whole]
    BY <2>2 DEF AgentIInv, PhaseInv
  <2>5. draft'.runs = {revision + 1} /\ draft'.whole = whole
    BY <2>4
  <2>6. PhaseInv'
    BY <2>2, <2>4, <2>5 DEF AgentIInv, PhaseInv, AnswerIsValidated
  <2> QED BY <2>2, <2>3, <2>6, SameCounts DEF AgentIInv
<1>4. CASE \E v \in {"PASS", "REVISE", "REJECT", "invalid"} : Validate(v)
  <2>1. AgentTypes'
    BY <1>4 DEF Validate, AgentIInv, AgentTypes
  <2>2. PhaseInv'
    BY <1>4 DEF Validate, AgentIInv, PhaseInv, AnswerIsValidated
  <2> QED BY <1>4, <2>1, <2>2, SameCounts DEF AgentIInv, Validate
<1> QED BY <1>1, <1>2, <1>3, <1>4

\* A new run has a share of its own, and nothing of the answer called back.
LEMMA ReviseSteps ==
  ASSUME AgentIInv, Revise
  PROVE  AgentIInv'
<1>1. /\ phase = "validating" /\ phase' = "requesting" /\ revision < MaxRevisions
      /\ revision' = revision + 1 /\ draft' = NoDraft
      /\ UNCHANGED <<route, offered, slots, counts, prior, result>>
  BY DEF Revise
<1>2. revision \in 0..MaxRevisions /\ usage \in UsageRecord
  BY DEF AgentIInv, AgentTypes
<1>3. usage' = [[[usage EXCEPT !.requests = 0] EXCEPT !.calls = 0] EXCEPT !.retries = 0]
  BY DEF Revise
<1>4. usage' \in UsageRecord /\ usage'.calls = 0 /\ usage'.mission = usage.mission
  BY <1>2, <1>3 DEF UsageRecord
<1>5. AgentTypes'
  BY <1>1, <1>2, <1>4, AgentAssumption DEF AgentIInv, AgentTypes
<1>6. draft'.runs = {} /\ draft'.whole = FALSE /\ draft' = [runs |-> {}, whole |-> FALSE]
  BY <1>1 DEF NoDraft
<1>7. PhaseInv'
  BY <1>1, <1>6 DEF AgentIInv, PhaseInv, AnswerIsValidated
<1>8. ShareInv'
  <2> DEFINE s == _share(Cap)
  <2>1. s \in Nat /\ usage.calls <= s /\ usage.mission <= revision * s + usage.calls
        /\ usage.calls \in Nat /\ usage.mission \in Nat
    BY <1>2, SharesAddUp DEF AgentIInv, ShareInv, UsageRecord
  <2> HIDE DEF s
  <2>2. (revision + 1) * s = revision * s + s /\ revision * s \in Nat
    BY <1>2, <2>1
  <2>3. usage.mission <= (revision + 1) * s + 0 /\ 0 <= s
    BY <2>1, <2>2
  <2> QED BY <1>1, <1>4, <2>3 DEF ShareInv, s
<1>9. CallsInv'
  BY <1>1 DEF AgentIInv, CallsInv
<1> QED BY <1>5, <1>7, <1>8, <1>9 DEF AgentIInv

\* A response is taken as a whole, within the share of its run.
LEMMA RespondSteps ==
  ASSUME AgentIInv, NEW chosen \in [1..Batch -> CallKinds \cup {"none"}], RespondWithCalls(chosen)
  PROVE  AgentIInv'
<1> DEFINE drawn == {i \in 1..Batch : chosen[i] # "none"}
           n == Cardinality(drawn)
<1>1. /\ phase = "responding" /\ phase' = "working"
      /\ usage.calls + n <= _share(Cap)
      /\ usage' = [usage EXCEPT !.calls = @ + n, !.mission = @ + n]
      /\ slots' = [i \in 1..Batch |-> [call |-> chosen[i],
                                       at |-> IF chosen[i] = "none" THEN "done" ELSE "pending"]]
      /\ UNCHANGED <<route, offered, counts, prior, revision, verdict, draft, result>>
  BY DEF RespondWithCalls
<1>2. n \in Nat
  <2>1. IsFiniteSet(1..Batch) /\ drawn \in SUBSET (1..Batch)
    BY AgentAssumption, FS_Interval
  <2> HIDE DEF drawn
  <2> QED BY <2>1, FS_Subset, FS_CardinalityType
<1> HIDE DEF n
<1>3. usage \in UsageRecord
  BY DEF AgentIInv, AgentTypes
<1>4. usage' = [[usage EXCEPT !.calls = usage.calls + n] EXCEPT !.mission = usage.mission + n]
  <2>1. usage' = [usage EXCEPT !.calls = @ + n, !.mission = @ + n]
    BY <1>1
  <2> QED BY <2>1
<1>5. /\ usage' \in UsageRecord /\ usage'.calls = usage.calls + n
      /\ usage'.mission = usage.mission + n
  <2> DEFINE once == [usage EXCEPT !.calls = usage.calls + n]
  <2>1. /\ once \in UsageRecord /\ once.calls = usage.calls + n
        /\ once.mission = usage.mission
    BY <1>2, <1>3 DEF UsageRecord
  <2>2. usage' = [once EXCEPT !.mission = usage.mission + n] /\ usage.mission + n \in Nat
    BY <1>2, <1>3, <1>4 DEF UsageRecord
  <2> HIDE DEF once
  <2> QED BY <2>1, <2>2 DEF UsageRecord
<1>6. slots' \in [1..Batch -> SlotRecord]
  BY <1>1 DEF SlotRecord
<1>7. AgentTypes'
  BY <1>1, <1>5, <1>6 DEF AgentIInv, AgentTypes
<1>8. \A i \in 1..Batch : slots'[i].at \in {"pending", "running"} => slots'[i].call \in CallKinds
  BY <1>1
<1>9. PhaseInv'
  BY <1>1, <1>8 DEF AgentIInv, PhaseInv, AnswerIsValidated
<1>10. ShareInv'
  <2>1. usage.calls \in Nat /\ usage.mission \in Nat /\ revision \in Nat /\ _share(Cap) \in Nat
    BY <1>3, SharesAddUp DEF UsageRecord, AgentIInv, AgentTypes
  <2>2. revision * _share(Cap) \in Nat
    BY <2>1
  <2>3. usage.mission + n <= revision * _share(Cap) + (usage.calls + n)
    BY <1>2, <2>1, <2>2 DEF AgentIInv, ShareInv
  <2> QED BY <1>1, <1>5, <2>3 DEF ShareInv
<1>11. CallsInv'
  <2> SUFFICES ASSUME NEW k \in CallKinds
               PROVE  KindIsBounded(k, slots', counts.executed[k], counts.retries[k], prior[k])
    BY <1>1 DEF CallsInv
  <2>1. ~InHand(k, slots)
    BY <1>1 DEF InHand, AgentIInv, PhaseInv
  <2>2. counts.executed[k] \in Nat /\ counts.retries[k] \in Nat
    BY DEF AgentIInv, AgentTypes, CountRecord
  <2>3. KindIsBounded(k, slots, counts.executed[k], counts.retries[k], prior[k])
    BY DEF AgentIInv, CallsInv
  <2> QED BY <2>1, <2>2, <2>3, ResponseBounded
<1> QED BY <1>7, <1>9, <1>10, <1>11 DEF AgentIInv

\* A call of the response begins; the guard decides if it runs.
LEMMA BeginSteps ==
  ASSUME AgentIInv, NEW i \in 1..Batch, BeginCall(i)
  PROVE  AgentIInv'
<1> DEFINE k == slots[i].call
           run == Rerun(k)
           n == IF counts.repeats[k] < WITHDRAW_AFTER THEN counts.repeats[k] + 1 ELSE WITHDRAW_AFTER
           more == IF run THEN counts.executed[k] + 1 ELSE counts.executed[k]
           gone == IF ~run /\ n >= WITHDRAW_AFTER
                   THEN counts.withdrawn \cup {ToolOf[k]} ELSE counts.withdrawn
           state == IF run THEN "running" ELSE "done"
<1>1. /\ phase = "working" /\ slots[i].at = "pending"
      /\ slots' = [slots EXCEPT ![i].at = state]
      /\ counts' = [counts EXCEPT
                      !.repeats[k] = n,
                      !.executed[k] = IF run THEN @ + 1 ELSE @,
                      !.withdrawn = IF ~run /\ n >= WITHDRAW_AFTER THEN @ \cup {ToolOf[k]} ELSE @]
      /\ UNCHANGED <<phase, route, offered, prior, usage, revision, verdict, draft, result>>
  BY DEF BeginCall
<1>2. k \in CallKinds /\ counts \in CountRecord /\ slots \in [1..Batch -> SlotRecord]
      /\ ToolOf[k] \in Tools
  BY <1>1 DEF AgentIInv, AgentTypes, PhaseInv, Tools
<1>3. n \in Nat /\ more \in Nat /\ gone \subseteq Tools
  BY <1>2 DEF CountRecord, WITHDRAW_AFTER
<1>4. counts' = [[[counts EXCEPT !.repeats[k] = n] EXCEPT !.executed[k] = more]
                    EXCEPT !.withdrawn = gone]
  <2> HIDE DEF k, n, run
  <2> QED BY <1>1
<1> HIDE DEF k, n, run, more, gone
<1>5. /\ counts' \in CountRecord /\ counts'.retries = counts.retries
      /\ counts'.executed = [counts.executed EXCEPT ![k] = more]
  <2> DEFINE once == [counts EXCEPT !.repeats[k] = n]
             twice == [once EXCEPT !.executed[k] = more]
  <2>1. once = [counts EXCEPT !.repeats = [counts.repeats EXCEPT ![k] = n]]
    BY <1>2 DEF CountRecord
  <2>2. /\ once \in CountRecord /\ once.retries = counts.retries /\ once.executed = counts.executed
    BY <1>2, <1>3, <2>1 DEF CountRecord
  <2> HIDE DEF once
  <2>3. twice = [once EXCEPT !.executed = [counts.executed EXCEPT ![k] = more]]
    BY <2>2 DEF CountRecord
  <2>4. /\ twice \in CountRecord /\ twice.retries = counts.retries
        /\ twice.executed = [counts.executed EXCEPT ![k] = more]
    BY <1>2, <1>3, <2>2, <2>3 DEF CountRecord
  <2>5. counts' = [twice EXCEPT !.withdrawn = gone]
    BY <1>4 DEF once
  <2> HIDE DEF twice
  <2> QED BY <1>3, <2>4, <2>5 DEF CountRecord
<1>6. /\ slots' \in [1..Batch -> SlotRecord] /\ slots'[i].call = k /\ slots'[i].at = state
      /\ \A j \in 1..Batch : j # i => slots'[j] = slots[j]
  <2>1. slots[i] \in SlotRecord /\ state \in {"running", "done"}
    BY <1>2
  <2>2. slots' = [slots EXCEPT ![i] = [slots[i] EXCEPT !.at = state]]
    BY <1>1, <1>2
  <2> HIDE DEF state
  <2>3. /\ [slots[i] EXCEPT !.at = state] \in SlotRecord
        /\ [slots[i] EXCEPT !.at = state].call = slots[i].call
        /\ [slots[i] EXCEPT !.at = state].at = state
    BY <2>1 DEF SlotRecord
  <2> QED BY <1>2, <2>2, <2>3 DEF k
<1>7. AgentTypes'
  BY <1>1, <1>5, <1>6 DEF AgentIInv, AgentTypes
<1>8. \A j \in 1..Batch : slots'[j].at \in {"pending", "running"} => slots'[j].call \in CallKinds
  BY <1>2, <1>6 DEF AgentIInv, PhaseInv
<1>9. PhaseInv'
  BY <1>1, <1>8 DEF AgentIInv, PhaseInv, AnswerIsValidated
<1>10. ShareInv'
  BY <1>1 DEF AgentIInv, ShareInv
<1>11. ASSUME NEW l \in CallKinds
       PROVE  KindIsBounded(l, slots', counts'.executed[l], counts'.retries[l], prior[l])
  <2>1. /\ counts.executed[l] \in Nat /\ counts.retries[l] \in Nat
        /\ KindIsBounded(l, slots, counts.executed[l], counts.retries[l], prior[l])
    BY <1>2 DEF AgentIInv, CallsInv, CountRecord
  <2>2. CASE l = k
    <3>1. /\ counts'.executed[l] = more /\ counts'.retries[l] = counts.retries[l]
          /\ more = IF prior[l] \in {"none", "transient"}
                    THEN counts.executed[l] + 1 ELSE counts.executed[l]
      BY <1>2, <1>5, <2>2 DEF more, run, Rerun, CountRecord
    <3>2. i \in PendingFor(l, slots)
      BY <1>1, <2>2 DEF PendingFor, k
    <3>3. state # "pending"
      OBVIOUS
    <3>4. PendingFor(l, slots') = PendingFor(l, slots) \ {i}
      <4> HIDE DEF state
      <4> QED BY <1>6, <3>3 DEF PendingFor
    <3>5. prior[l] \in {"none", "transient"} => InHand(l, slots')
      BY <1>6, <2>2 DEF InHand, run, Rerun
    <3> QED BY <2>1, <3>1, <3>2, <3>4, <3>5, BeginBounded
  <2>3. CASE l # k
    <3>1. counts'.executed[l] = counts.executed[l] /\ counts'.retries[l] = counts.retries[l]
      BY <1>2, <1>5, <2>3 DEF CountRecord
    <3>2. /\ PendingFor(l, slots') = PendingFor(l, slots)
          /\ InHand(l, slots') <=> InHand(l, slots)
      <4>1. slots[i].call # l /\ slots'[i].call # l
        BY <1>6, <2>3 DEF k
      <4> HIDE DEF state
      <4> QED BY <1>6, <4>1 DEF PendingFor, InHand
    <3> QED BY <2>1, <3>1, <3>2 DEF KindIsBounded
  <2> QED BY <2>2, <2>3
<1>12. CallsInv'
  BY <1>1, <1>11 DEF CallsInv
<1> QED BY <1>7, <1>9, <1>10, <1>12 DEF AgentIInv

\* A call of the response ends.
LEMMA EndCallSteps ==
  ASSUME AgentIInv, NEW i \in 1..Batch, NEW o \in Outcomes, EndCall(i, o)
  PROVE  AgentIInv'
<1> DEFINE k == slots[i].call
           more == IF o = "transient" THEN counts.retries[k] + 1 ELSE counts.retries[k]
<1>1. /\ phase = "working" /\ slots[i].at = "running"
      /\ slots' = [slots EXCEPT ![i].at = "done"]
      /\ prior' = [prior EXCEPT ![k] = o]
      /\ \E down \in BOOLEAN :
           counts' = [counts EXCEPT !.live_down = @ \/ down,
                                    !.retries[k] = IF o = "transient" THEN @ + 1 ELSE @]
      /\ UNCHANGED <<phase, route, offered, usage, revision, verdict, draft, result>>
  BY DEF EndCall
<1>2. k \in CallKinds /\ counts \in CountRecord /\ slots \in [1..Batch -> SlotRecord]
      /\ prior \in [CallKinds -> {"none"} \cup Outcomes]
  BY <1>1 DEF AgentIInv, AgentTypes, PhaseInv
<1>3. more \in Nat
  BY <1>2 DEF CountRecord
<1>4. \E down \in BOOLEAN :
        counts' = [[counts EXCEPT !.live_down = counts.live_down \/ down] EXCEPT !.retries[k] = more]
  <2> HIDE DEF k
  <2> QED BY <1>1
<1> HIDE DEF k, more
<1>5. /\ counts' \in CountRecord /\ counts'.executed = counts.executed
      /\ counts'.retries = [counts.retries EXCEPT ![k] = more]
  <2>0. PICK down \in BOOLEAN :
          counts' = [[counts EXCEPT !.live_down = counts.live_down \/ down] EXCEPT !.retries[k] = more]
    BY <1>4
  <2> DEFINE flag == counts.live_down \/ down
             once == [counts EXCEPT !.live_down = flag]
  <2>1. flag \in BOOLEAN
    BY <1>2 DEF CountRecord
  <2>2. counts' = [once EXCEPT !.retries[k] = more]
    BY <2>0
  <2> HIDE DEF flag
  <2>3. /\ once \in CountRecord /\ once.retries = counts.retries /\ once.executed = counts.executed
    BY <1>2, <2>1 DEF CountRecord
  <2> HIDE DEF once
  <2>4. counts' = [once EXCEPT !.retries = [counts.retries EXCEPT ![k] = more]]
    BY <2>2, <2>3 DEF CountRecord
  <2> QED BY <1>2, <1>3, <2>3, <2>4 DEF CountRecord
<1>6. /\ slots' \in [1..Batch -> SlotRecord] /\ slots'[i].call = k /\ slots'[i].at = "done"
      /\ \A j \in 1..Batch : j # i => slots'[j] = slots[j]
  <2>1. slots[i] \in SlotRecord
    BY <1>2
  <2>2. slots' = [slots EXCEPT ![i] = [slots[i] EXCEPT !.at = "done"]]
    BY <1>1, <1>2
  <2>3. /\ [slots[i] EXCEPT !.at = "done"] \in SlotRecord
        /\ [slots[i] EXCEPT !.at = "done"].call = slots[i].call
        /\ [slots[i] EXCEPT !.at = "done"].at = "done"
    BY <2>1 DEF SlotRecord
  <2> QED BY <1>2, <2>2, <2>3 DEF k
<1>7. AgentTypes'
  BY <1>1, <1>2, <1>5, <1>6 DEF AgentIInv, AgentTypes
<1>8. \A j \in 1..Batch : slots'[j].at \in {"pending", "running"} => slots'[j].call \in CallKinds
  BY <1>2, <1>6 DEF AgentIInv, PhaseInv
<1>9. PhaseInv'
  BY <1>1, <1>8 DEF AgentIInv, PhaseInv, AnswerIsValidated
<1>10. ShareInv'
  BY <1>1 DEF AgentIInv, ShareInv
<1>11. ASSUME NEW l \in CallKinds
       PROVE  KindIsBounded(l, slots', counts'.executed[l], counts'.retries[l], prior'[l])
  <2>1. /\ counts.executed[l] \in Nat /\ counts.retries[l] \in Nat
        /\ KindIsBounded(l, slots, counts.executed[l], counts.retries[l], prior[l])
    BY <1>2 DEF AgentIInv, CallsInv, CountRecord
  <2>2. CASE l = k
    <3>1. /\ counts'.executed[l] = counts.executed[l] /\ counts'.retries[l] = more
          /\ prior'[l] = o
          /\ more = IF o = "transient" THEN counts.retries[l] + 1 ELSE counts.retries[l]
      BY <1>1, <1>2, <1>5, <2>2 DEF more, CountRecord
    <3>2. KindIsBounded(l, slots', counts.executed[l], more, o)
      <4>1. counts.executed[l] <= Batch * (1 + counts.retries[l])
        BY <2>1 DEF KindIsBounded
      <4> QED BY <1>3, <2>1, <3>1, <4>1, EndBounded
    <3> QED BY <3>1, <3>2
  <2>3. CASE l # k
    <3>1. /\ counts'.executed[l] = counts.executed[l] /\ counts'.retries[l] = counts.retries[l]
          /\ prior'[l] = prior[l]
      BY <1>1, <1>2, <1>5, <2>3 DEF CountRecord
    <3>2. /\ PendingFor(l, slots') = PendingFor(l, slots)
          /\ InHand(l, slots') <=> InHand(l, slots)
      <4>1. slots[i].call # l /\ slots'[i].call # l
        BY <1>6, <2>3 DEF k
      <4> QED BY <1>6, <4>1 DEF PendingFor, InHand
    <3> QED BY <2>1, <3>1, <3>2 DEF KindIsBounded
  <2> QED BY <2>2, <2>3
<1>12. CallsInv'
  BY <1>11 DEF CallsInv
<1> QED BY <1>7, <1>9, <1>10, <1>12 DEF AgentIInv

\* The response is over: nothing of it is in hand any more, as before.
LEMMA ContinueSteps ==
  ASSUME AgentIInv, Continue
  PROVE  AgentIInv'
<1>1. /\ phase = "working" /\ phase' = "requesting" /\ \A i \in 1..Batch : slots[i].at = "done"
      /\ slots' = [i \in 1..Batch |-> NoSlot]
      /\ UNCHANGED <<route, offered, counts, prior, usage, revision, verdict, draft, result>>
  BY DEF Continue
<1>2. slots' \in [1..Batch -> SlotRecord] /\ \A i \in 1..Batch : slots'[i].at = "free"
  BY <1>1 DEF NoSlot, SlotRecord
<1>3. AgentTypes'
  BY <1>1, <1>2 DEF AgentIInv, AgentTypes
<1>4. PhaseInv'
  BY <1>1, <1>2 DEF AgentIInv, PhaseInv, AnswerIsValidated
<1>5. ShareInv'
  BY <1>1 DEF AgentIInv, ShareInv
<1>6. CallsInv'
  <2> SUFFICES ASSUME NEW k \in CallKinds
               PROVE  KindIsBounded(k, slots', counts.executed[k], counts.retries[k], prior[k])
    BY <1>1 DEF CallsInv
  <2>1. PendingFor(k, slots') = PendingFor(k, slots) /\ ~InHand(k, slots)
    BY <1>1, <1>2 DEF PendingFor, InHand
  <2>2. KindIsBounded(k, slots, counts.executed[k], counts.retries[k], prior[k])
    BY DEF AgentIInv, CallsInv
  <2> QED BY <2>1, <2>2 DEF KindIsBounded
<1> QED BY <1>3, <1>4, <1>5, <1>6 DEF AgentIInv

\* Whatever the model calls, however often, and whatever fails: what is
\* delivered was validated, and neither the budget nor a call runs away.
THEOREM AgentIsBounded == AgentSpec => []AgentInv
<1>1. AgentInit => AgentIInv
  <2> SUFFICES ASSUME AgentInit PROVE AgentIInv
    OBVIOUS
  <2>1. AgentTypes
    BY AgentAssumption
    DEF AgentInit, AgentTypes, NoSlot, SlotRecord, CountRecord, UsageRecord, Outcomes
  <2>2. PhaseInv
    BY DEF AgentInit, PhaseInv, NoSlot, NoDraft, Ongoing, AnswerIsValidated
  <2>3. ShareInv
    <3>1. 0 \in 0..MaxRevisions /\ _share(Cap) \in Nat
      BY SharesAddUp, AgentAssumption
    <3> QED BY <3>1 DEF AgentInit, ShareInv
  <2>4. CallsInv
    <3> SUFFICES ASSUME NEW k \in CallKinds PROVE KindIsBounded(k, slots, 0, 0, prior[k])
      BY DEF AgentInit, CallsInv
    <3>1. ~InHand(k, slots)
      BY DEF AgentInit, InHand, NoSlot
    <3>2. Cardinality(PendingFor(k, slots)) = 0
      BY <3>1, PendingCounted
    <3> QED BY <3>2, AgentAssumption DEF KindIsBounded
  <2> QED BY <2>1, <2>2, <2>3, <2>4 DEF AgentIInv
<1>2. AgentIInv /\ [AgentNext]_agentVars => AgentIInv'
  <2> SUFFICES ASSUME AgentIInv, [AgentNext]_agentVars PROVE AgentIInv'
    OBVIOUS
  <2>1. CASE AgentNext
    BY <2>1, FinishingSteps, TalkSteps, ReviseSteps, RespondSteps, BeginSteps, EndCallSteps,
       ContinueSteps DEF AgentNext, AgentStep
  <2>2. CASE UNCHANGED agentVars
    BY <2>2 DEF agentVars, AgentIInv, AgentTypes, PhaseInv, ShareInv, CallsInv, AnswerIsValidated
  <2> QED BY <2>1, <2>2
<1>3. AgentIInv => AgentInv
  <2> SUFFICES ASSUME AgentIInv PROVE AgentInv
    OBVIOUS
  <2>1. draft.runs \subseteq 1..(MaxRevisions + 1)
    BY AgentAssumption DEF AgentIInv, AgentTypes, PhaseInv
  <2>2. \A i \in 1..Batch : slots[i].at \in {"free", "pending", "running", "done"}
    BY DEF AgentIInv, AgentTypes, SlotRecord
  <2>3. AgentTypeOK
    BY <2>1, <2>2 DEF AgentIInv, AgentTypes, PhaseInv, CountRecord, AgentTypeOK
  <2>4. SpendIsBounded
    <3> DEFINE s == _share(Cap)
    <3>1. s \in Nat /\ revision * s + s <= Cap + MaxRevisions /\ revision \in Nat
      BY SharesAddUp DEF AgentIInv, AgentTypes
    <3>2. usage.calls <= s /\ usage.mission <= revision * s + usage.calls
          /\ usage.calls \in Nat /\ usage.mission \in Nat
      BY DEF AgentIInv, AgentTypes, ShareInv, UsageRecord
    <3>3. Cap \in Nat /\ MaxRevisions \in Nat
      BY AgentAssumption DEF Cap
    <3> HIDE DEF s
    <3>4. revision * s \in Nat
      BY <3>1
    <3> QED BY <3>1, <3>2, <3>3, <3>4 DEF SpendIsBounded
  <2>5. SameCallIsBounded
    BY DEF AgentIInv, CallsInv, KindIsBounded, SameCallIsBounded
  <2> QED BY <2>3, <2>4, <2>5 DEF AgentIInv, PhaseInv, AgentInv
<1> QED BY <1>1, <1>2, <1>3, PTL DEF AgentSpec

-----------------------------------------------------------------------------
(* MissionSetup.  The cache is always of one version, so that a scope read *)
(* from it names dimensions of that version only; it is the version of the *)
(* mission's snapshot unless another mission has loaded the cache between. *)

NoWorse(j, d) ==
  /\ j.intent = "none" => d.tools /\ d.budget = Ceiling /\ ~d.fast
  /\ d.budget \in 1..Ceiling
  /\ (j.needs_write = "yes" \/ j.complexity = "complex") => ~d.fast
  /\ ~d.tools => j.intent = "conversation" /\ d.filters = {}
Gives(scope, c) ==
  /\ UNION scope \subseteq dimension_ids(c)
  /\ scope = {} => _required_scope[c] = {}
IsLabel(intent) == intent \in _LABELS \cup {"none"}

StartSound(m) ==
  /\ DOMAIN m = {"at", "warmed", "snapshot", "judged", "deps"}
  /\ m.at \in {"idle", "bootstrap", "list"} => m.warmed = FALSE
  /\ m.at \in {"classify", "values", "ready"} =>
       /\ m.snapshot.metrics = m.snapshot.dims
       /\ m.warmed => Metrics(m.snapshot.metrics) # {}
  /\ m.at = "values" => IsLabel(m.judged.intent) /\ m.judged.intent # "conversation"
  /\ m.at = "ready" => NoWorse(m.judged, m.deps)
\* Of a mission whose snapshot may be stale, and of the cache as it is.
Linked(m, stale, c) ==
  /\ m.at \in {"classify", "values"} => (stale \/ m.snapshot = c)
  /\ m.at = "ready" => /\ {} \notin m.deps.breakdowns
                      /\ (stale \/ Gives(m.deps.breakdowns, m.snapshot))
SetupIInv ==
  /\ \E v \in Versions : cache = [metrics |-> v, dims |-> v]
  /\ DOMAIN mission = Starters
  /\ \A q \in Starters : StartSound(mission[q]) /\ Linked(mission[q], q \in replaced, cache)

LEMMA AliasesAreDimensions ==
  ASSUME NEW v \in Versions
  PROVE  \A p \in DOMAIN alias_index(v) :
           alias_index(v)[p] \in dimension_ids([metrics |-> v, dims |-> v])
<1>1. CASE v = "none"
  <2>1. alias_index(v) = <<>>  BY <1>1 DEF alias_index
  <2>2. DOMAIN alias_index(v) = {}  BY <2>1
  <2> QED BY <2>2
<1>2. CASE v # "none"
  <2> DEFINE dims == Payloads[v].dims
             aliases == Payloads[v].aliases
  <2>1. \A p \in DOMAIN aliases : aliases[p] \in dims
    BY <1>2, SetupAssumption DEF Versions
  <2>2. alias_index(v) = [p \in dims \cup DOMAIN aliases |-> IF p \in DOMAIN aliases THEN aliases[p] ELSE p]
    BY <1>2 DEF alias_index
  <2>3. \A d \in dims : d \in dimension_ids([metrics |-> v, dims |-> v])
    BY <1>2 DEF dimension_ids
  <2> HIDE DEF dims, aliases
  <2> QED BY <2>1, <2>2, <2>3
<1> QED BY <1>1, <1>2

\* Whatever a phrase resolves to is a dimension of the catalogue.
LEMMA CandidatesAreDimensions ==
  ASSUME NEW v \in Versions, NEW phrase
  PROVE  _resolve_dimension_candidates(phrase, alias_index(v), dimension_ids([metrics |-> v, dims |-> v]))
           \subseteq dimension_ids([metrics |-> v, dims |-> v])
BY AliasesAreDimensions DEF _resolve_dimension_candidates

\* Of finitely many lengths one is the greatest.
LEMMA OneIsGreatest ==
  ASSUME NEW F, F # {}, NEW len \in [F -> 1..3]
  PROVE  \E g \in F : \A h \in F : len[h] <= len[g]
<1>1. \A h \in F : len[h] = 1 \/ len[h] = 2 \/ len[h] = 3
  OBVIOUS
<1>2. CASE \E h \in F : len[h] = 3  BY <1>1, <1>2
<1>3. CASE ~(\E h \in F : len[h] = 3) /\ \E h \in F : len[h] = 2  BY <1>1, <1>3
<1>4. CASE ~(\E h \in F : len[h] = 3) /\ ~(\E h \in F : len[h] = 2)  BY <1>1, <1>4
<1> QED BY <1>2, <1>3, <1>4

\* Of the n-grams of a phrase that resolve, one is the longest.
LEMMA LongestExists ==
  ASSUME NEW words \in Seq(STRING), NEW F \in SUBSET _candidate_term_groups(words), F # {}
  PROVE  \E g \in F : \A h \in F : Len(h) <= Len(g)
<1> DEFINE g(n) == SubSeq(words, 1, n)
<1>1. \A h \in F : \E n \in 1..3 : n <= Len(words) /\ h = g(n)
  <2> DEFINE kept == {n \in 1..Len(words) : n <= 3 /\ \A i \in 1..n : words[i] \notin Stopwords}
  <2>1. _candidate_term_groups(words) = {g(n) : n \in kept}
    BY DEF _candidate_term_groups
  <2>2. \A n \in kept : n \in 1..3 /\ n <= Len(words)  OBVIOUS
  <2> HIDE DEF kept, g
  <2> QED BY <2>1, <2>2
<1>2. \A n \in 1..3 : n <= Len(words) => Len(g(n)) = n
  <2> SUFFICES ASSUME NEW n \in 1..3, n <= Len(words) PROVE Len(g(n)) = n
    OBVIOUS
  <2>1. n - 1 + 1 = n /\ 1 <= n /\ n \in Nat  OBVIOUS
  <2>2. \A i \in 1..n : words[i] \in STRING  OBVIOUS
  <2> QED BY <2>1, <2>2
<1> HIDE DEF g
<1>3. \A h \in F : Len(h) \in 1..3
  <2> SUFFICES ASSUME NEW h \in F PROVE Len(h) \in 1..3
    OBVIOUS
  <2>1. PICK n \in 1..3 : n <= Len(words) /\ h = g(n)  BY <1>1
  <2>2. Len(g(n)) = n  BY <1>2, <2>1
  <2> QED BY <2>1, <2>2
<1> DEFINE len == [h \in F |-> Len(h)]
<1>4. len \in [F -> 1..3]  BY <1>3
<1>5. \A h \in F : len[h] = Len(h)  OBVIOUS
<1> HIDE DEF len
<1>6. PICK h \in F : \A k \in F : len[k] <= len[h]
  BY <1>4, OneIsGreatest
<1>7. \A k \in F : Len(k) <= Len(h)  BY <1>5, <1>6
<1> QED BY <1>7

LEMMA ScopeOfOneVersion ==
  ASSUME NEW v \in Versions
  PROVE  /\ {} \notin _required_scope[[metrics |-> v, dims |-> v]]
         /\ Gives(_required_scope[[metrics |-> v, dims |-> v]], [metrics |-> v, dims |-> v])
<1> DEFINE c == [metrics |-> v, dims |-> v]
           index == alias_index(c.dims)
           found(words) == {g \in _candidate_term_groups(words) :
                              _resolve_dimension_candidates(g, index, dimension_ids(c)) # {}}
           longest(words) == CHOOSE g \in found(words) : \A h \in found(words) : Len(h) <= Len(g)
           scope == {_resolve_dimension_candidates(longest(words), index, dimension_ids(c)) :
                       words \in {w \in Question : found(w) # {}}}
<1>1. c \in [metrics : Versions, dims : Versions] /\ index = alias_index(v)
  OBVIOUS
<1>2. _required_scope[c] = scope
  BY <1>1 DEF _required_scope, build_required_scope
<1>3. ASSUME NEW words \in Question, found(words) # {} PROVE longest(words) \in found(words)
  <2>1. words \in Seq(STRING)  BY SetupAssumption
  <2>2. found(words) \in SUBSET _candidate_term_groups(words)  OBVIOUS
  <2> HIDE DEF found
  <2>3. \E g \in found(words) : \A h \in found(words) : Len(h) <= Len(g)
    BY <1>3, <2>1, <2>2, LongestExists
  <2> QED BY <2>3
<1> HIDE DEF longest
<1>4. ASSUME NEW s \in scope PROVE s # {} /\ s \subseteq dimension_ids(c)
  <2>1. PICK words \in Question : found(words) # {} /\
             s = _resolve_dimension_candidates(longest(words), index, dimension_ids(c))
    OBVIOUS
  <2>2. longest(words) \in found(words)  BY <1>3, <2>1
  <2>3. s # {}  BY <2>1, <2>2
  <2>4. s \subseteq dimension_ids(c)  BY <1>1, <2>1, CandidatesAreDimensions
  <2> QED BY <2>3, <2>4
<1> HIDE DEF scope
<1>5. {} \notin scope /\ UNION scope \subseteq dimension_ids(c)
  BY <1>4
<1> QED BY <1>2, <1>5 DEF Gives

\* Each judgment is a label or is missing.
LEMMA JudgmentsAreLabels ==
  ASSUME NEW answers
  PROVE  IsLabel(_parse_answers(answers).intent)
BY DEF IsLabel, _parse_answers, _choice

\* Fail open: what is not judged is not tightened.
LEMMA UnjudgedIsNotTightened ==
  ASSUME NEW j, IsLabel(j.intent), NEW terms, j.intent = "conversation" => terms = {}, NEW scope, NEW d,
         d = [breakdowns |-> scope, filters |-> value_filters_from_resolution(terms),
              budget |-> _tool_budget(j.intent), tools |-> ~(j.intent = "conversation"),
              plan |-> _should_plan(j), fast |-> _prefer_fast_model(j)]
  PROVE  NoWorse(j, d)
<1>1. /\ d.tools = ~(j.intent = "conversation") /\ d.budget = _tool_budget(j.intent)
      /\ d.fast = _prefer_fast_model(j) /\ d.filters = value_filters_from_resolution(terms)
  OBVIOUS
<1>2. d.budget \in 1..Ceiling /\ (j.intent = "none" => d.budget = Ceiling)
  <2>1. Ceiling \in Nat \ {0}  BY SetupAssumption
  <2>2. CASE j.intent = "none"  BY <1>1, <2>1, <2>2 DEF _tool_budget
  <2>3. CASE j.intent # "none"
    <3> DEFINE n == _TOOL_BUDGET_BY_INTENT[j.intent]
    <3>1. n \in 1..3
      <4>1. j.intent \in {"conversation", "lookup", "diagnostic"}  BY <2>3 DEF IsLabel, _LABELS
      <4> QED BY <4>1 DEF _TOOL_BUDGET_BY_INTENT
    <3>2. _tool_budget(j.intent) = IF n < Ceiling THEN n ELSE Ceiling  BY <2>3 DEF _tool_budget
    <3> HIDE DEF n
    <3> QED BY <1>1, <2>1, <2>3, <3>1, <3>2
  <2> QED BY <2>2, <2>3
<1>3. d.fast => j.intent \in {"conversation", "lookup"} /\ j.complexity # "complex" /\ j.needs_write # "yes"
  BY <1>1 DEF _prefer_fast_model, _FAST_MODEL_INTENTS
<1>4. ~d.tools => j.intent = "conversation" /\ d.filters = {}
  BY <1>1 DEF value_filters_from_resolution
<1> QED BY <1>1, <1>2, <1>3, <1>4 DEF NoWorse

LEMMA SetupStarts ==
  ASSUME SetupInit
  PROVE  SetupIInv
<1>1. cache = [metrics |-> "none", dims |-> "none"] /\ "none" \in Versions
  BY DEF SetupInit, Empty, Versions
<1>2. mission = [q \in Starters |-> NotStarted]
  BY DEF SetupInit
<1>3. StartSound(NotStarted)
  BY DEF StartSound, NotStarted
<1>4. NotStarted.at = "idle"
  BY DEF NotStarted
<1> QED BY <1>1, <1>2, <1>3, <1>4 DEF SetupIInv, Linked

\* A mission moves, and leaves the cache alone or loads it with one version.
LEMMA OneMoves ==
  ASSUME SetupIInv, NEW q \in Starters, NEW m, StartSound(m), Move(q, m),
         \E v \in Versions : cache' = [metrics |-> v, dims |-> v],
         UNCHANGED <<cache, replaced>> \/ Loaded(q, cache'),
         Linked(m, q \in replaced', cache')
  PROVE  SetupIInv'
<1>1. mission' = [mission EXCEPT ![q] = m] /\ DOMAIN mission = Starters
  BY DEF Move, SetupIInv
<1>2. DOMAIN mission' = Starters /\ mission'[q] = m /\ \A p \in Starters \ {q} : mission'[p] = mission[p]
  BY <1>1
<1>3. \A p \in Starters : StartSound(mission'[p])
  BY <1>2 DEF SetupIInv
<1>4. ASSUME NEW p \in Starters \ {q} PROVE Linked(mission[p], p \in replaced', cache')
  <2>1. Linked(mission[p], p \in replaced, cache)
    BY DEF SetupIInv
  <2>2. CASE UNCHANGED <<cache, replaced>>
    BY <2>1, <2>2
  <2>3. CASE Loaded(q, cache')
    <3>1. p \in replaced => p \in replaced'
      BY <2>3 DEF Loaded
    <3>2. mission[p].at \in {"classify", "values"} => p \in replaced'
      BY <2>3 DEF Loaded
    <3> QED BY <2>1, <3>1, <3>2 DEF Linked
  <2> QED BY <2>2, <2>3
<1>5. \A p \in Starters : Linked(mission'[p], p \in replaced', cache')
  BY <1>2, <1>4
<1>6. (\A p \in Starters : StartSound(mission[p]) /\ Linked(mission[p], p \in replaced, cache))'
  BY <1>3, <1>5
<1> QED BY <1>2, <1>6 DEF SetupIInv

LEMMA WarmedStep ==
  ASSUME SetupIInv, NEW q \in Starters, mission[q].at \in {"bootstrap", "list"},
         NEW v \in Versions, Warmed(q, _load_payload(v))
  PROVE  SetupIInv'
<1> DEFINE c == [metrics |-> v, dims |-> v]
           x == [mission[q] EXCEPT !.at = "classify", !.snapshot = c,
                                   !.warmed = Metrics(c.metrics) # {}]
<1>1. Move(q, x) /\ cache' = c /\ Loaded(q, cache')
  BY DEF Warmed, Loaded, _load_payload
<1>2. StartSound(mission[q])  BY DEF SetupIInv
<1>3. /\ DOMAIN x = DOMAIN mission[q] /\ x.at = "classify" /\ x.snapshot = c
      /\ x.warmed = (Metrics(v) # {}) /\ x.deps = mission[q].deps
  BY <1>2 DEF StartSound
<1> HIDE DEF x
<1>4. StartSound(x)
  <2>1. x.warmed => Metrics(v) # {}  BY <1>3
  <2>2. x.snapshot.metrics = v /\ x.snapshot.dims = v  BY <1>3
  <2>3. DOMAIN x = {"at", "warmed", "snapshot", "judged", "deps"}
    BY <1>2, <1>3 DEF StartSound
  <2> HIDE DEF c
  <2> QED BY <1>3, <2>1, <2>2, <2>3 DEF StartSound
<1>5. Linked(x, q \in replaced', cache')
  BY <1>1, <1>3 DEF Linked
<1> QED BY <1>1, <1>4, <1>5, OneMoves

LEMMA ReadyStep ==
  ASSUME SetupIInv, NEW q \in Starters, UNCHANGED <<cache, replaced>>,
         mission[q].at \in {"classify", "values"},
         NEW j, IsLabel(j.intent), NEW terms, j.intent = "conversation" => terms = {},
         Ready(q, j, terms)
  PROVE  SetupIInv'
<1> DEFINE d == [breakdowns |-> _required_scope[cache],
                 filters |-> value_filters_from_resolution(terms),
                 budget |-> _tool_budget(j.intent), tools |-> ~(j.intent = "conversation"),
                 plan |-> _should_plan(j), fast |-> _prefer_fast_model(j)]
           x == [mission[q] EXCEPT !.at = "ready", !.judged = j, !.deps = d]
<1>1. Move(q, x)
  BY DEF Ready
<1>2. NoWorse(j, d)
  BY UnjudgedIsNotTightened
<1>3. d.breakdowns = _required_scope[cache]  OBVIOUS
<1>4. {} \notin d.breakdowns /\ Gives(d.breakdowns, cache)
  BY <1>3, ScopeOfOneVersion DEF SetupIInv
<1> HIDE DEF d
<1>5. StartSound(mission[q])  BY DEF SetupIInv
<1>6. /\ DOMAIN x = DOMAIN mission[q] /\ x.at = "ready" /\ x.judged = j /\ x.deps = d
      /\ x.snapshot = mission[q].snapshot /\ x.warmed = mission[q].warmed
  BY <1>5 DEF StartSound
<1> HIDE DEF x
<1>7. StartSound(x)
  BY <1>2, <1>5, <1>6 DEF StartSound
<1>9. Linked(x, q \in replaced', cache')
  <2>1. q \in replaced \/ mission[q].snapshot = cache
    BY DEF SetupIInv, Linked
  <2> QED BY <1>4, <1>6, <2>1 DEF Linked
<1>8. \E v \in Versions : cache' = [metrics |-> v, dims |-> v]
  BY DEF SetupIInv
<1> QED BY <1>1, <1>7, <1>8, <1>9, OneMoves

LEMMA SetupSteps ==
  ASSUME SetupIInv, NEW q \in Starters, SetupStep(q)
  PROVE  SetupIInv'
<1>1. /\ StartSound(mission[q]) /\ Linked(mission[q], q \in replaced, cache)
      /\ \E v \in Versions : cache = [metrics |-> v, dims |-> v]
  BY DEF SetupIInv
<1>2. CASE Arrive(q)
  <2>1. /\ mission[q].at = "idle" /\ UNCHANGED <<cache, replaced>>
        /\ \E v \in Versions : cache' = [metrics |-> v, dims |-> v]
    BY <1>1, <1>2 DEF Arrive
  <2>2. CASE should_refresh
    <3> DEFINE x == [mission[q] EXCEPT !.at = "bootstrap"]
    <3>1. Move(q, x)  BY <1>2, <2>2 DEF Arrive
    <3>2. /\ DOMAIN x = DOMAIN mission[q] /\ x.at = "bootstrap" /\ x.warmed = mission[q].warmed
          /\ x.deps = mission[q].deps
      BY <1>1 DEF StartSound
    <3> HIDE DEF x
    <3>3. StartSound(x) /\ Linked(x, q \in replaced', cache')
      BY <1>1, <2>1, <3>2 DEF StartSound, Linked
    <3> QED BY <2>1, <3>1, <3>3, OneMoves
  <2>3. CASE ~should_refresh
    <3> DEFINE x == [mission[q] EXCEPT !.at = "classify", !.snapshot = cache]
    <3>1. Move(q, x)  BY <1>2, <2>3 DEF Arrive
    <3>2. /\ DOMAIN x = DOMAIN mission[q] /\ x.at = "classify" /\ x.warmed = mission[q].warmed
          /\ x.deps = mission[q].deps /\ x.snapshot = cache
      BY <1>1 DEF StartSound
    <3> HIDE DEF x
    <3>3. cache.metrics = cache.dims  BY <1>1
    <3>4. StartSound(x) /\ Linked(x, q \in replaced', cache')
      BY <1>1, <2>1, <3>2, <3>3 DEF StartSound, Linked
    <3> QED BY <2>1, <3>1, <3>4, OneMoves
  <2> QED BY <2>2, <2>3
<1>3. ASSUME NEW v \in Versions, WarmBootstrap(q, v) PROVE SetupIInv'
  <2>1. mission[q].at = "bootstrap"  BY <1>3 DEF WarmBootstrap
  <2>2. CASE Metrics(v) # {}
    BY <1>3, <2>1, <2>2, WarmedStep DEF WarmBootstrap
  <2>3. CASE Metrics(v) = {}
    <3> DEFINE x == [mission[q] EXCEPT !.at = "list"]
    <3>1. Move(q, x) /\ cache' = [metrics |-> v, dims |-> v] /\ Loaded(q, cache')
      BY <1>3, <2>3 DEF WarmBootstrap, Loaded, _load_payload
    <3>2. /\ DOMAIN x = DOMAIN mission[q] /\ x.at = "list" /\ x.warmed = mission[q].warmed
          /\ x.deps = mission[q].deps
      BY <1>1 DEF StartSound
    <3> HIDE DEF x
    <3>3. StartSound(x) /\ Linked(x, q \in replaced', cache')
      BY <1>1, <2>1, <3>2 DEF StartSound, Linked
    <3> QED BY <3>1, <3>3, OneMoves
  <2> QED BY <2>2, <2>3
<1>4. ASSUME NEW v \in Versions, NEW local \in Versions, WarmList(q, v, local) PROVE SetupIInv'
  <2> DEFINE u == IF Metrics(v) # {} THEN v ELSE local
  <2>1. mission[q].at = "list" /\ u \in Versions /\ Warmed(q, _load_payload(u))
    BY <1>4 DEF WarmList
  <2> HIDE DEF u
  <2> QED BY <2>1, WarmedStep
<1>5. ASSUME NEW answers, classify_query(q, answers) PROVE SetupIInv'
  <2> DEFINE j == _parse_answers(answers)
  <2>1. mission[q].at = "classify" /\ UNCHANGED <<cache, replaced>> /\ IsLabel(j.intent)
    BY <1>5, JudgmentsAreLabels DEF classify_query
  <2>2. \/ Move(q, [mission[q] EXCEPT !.at = "raised"])
        \/ Ready(q, j, {})
        \/ j.intent # "conversation" /\ Move(q, [mission[q] EXCEPT !.at = "values", !.judged = j])
    BY <1>5 DEF classify_query
  <2> HIDE DEF j
  <2>3. CASE Move(q, [mission[q] EXCEPT !.at = "raised"])
    <3> DEFINE x == [mission[q] EXCEPT !.at = "raised"]
    <3>1. DOMAIN x = DOMAIN mission[q] /\ x.at = "raised" /\ x.deps = mission[q].deps
      BY <1>1 DEF StartSound
    <3> HIDE DEF x
    <3>2. StartSound(x) /\ Linked(x, q \in replaced', cache')
      BY <1>1, <3>1 DEF StartSound, Linked
    <3>3. Move(q, x)  BY <2>3 DEF x
    <3> QED BY <1>1, <2>1, <3>2, <3>3, OneMoves
  <2>4. CASE Ready(q, j, {})  BY <2>1, <2>4, ReadyStep
  <2>5. CASE j.intent # "conversation" /\ Move(q, [mission[q] EXCEPT !.at = "values", !.judged = j])
    <3> DEFINE x == [mission[q] EXCEPT !.at = "values", !.judged = j]
    <3>1. /\ DOMAIN x = DOMAIN mission[q] /\ x.at = "values" /\ x.deps = mission[q].deps
          /\ x.judged = j /\ x.snapshot = mission[q].snapshot /\ x.warmed = mission[q].warmed
      BY <1>1 DEF StartSound
    <3> HIDE DEF x
    <3>2. StartSound(x) /\ Linked(x, q \in replaced', cache')
      BY <1>1, <2>1, <2>5, <3>1 DEF StartSound, Linked
    <3>3. Move(q, x)  BY <2>5 DEF x
    <3> QED BY <1>1, <2>1, <3>2, <3>3, OneMoves
  <2> QED BY <2>2, <2>3, <2>4, <2>5
<1>6. ASSUME NEW terms, _resolve_values(q, terms) PROVE SetupIInv'
  <2> DEFINE j == mission[q].judged
  <2>1. mission[q].at = "values" /\ UNCHANGED <<cache, replaced>> /\ Ready(q, j, terms)
    BY <1>6 DEF _resolve_values
  <2>2. IsLabel(j.intent) /\ j.intent # "conversation"  BY <1>1, <2>1 DEF StartSound
  <2> HIDE DEF j
  <2> QED BY <2>1, <2>2, ReadyStep
<1> QED BY <1>2, <1>3, <1>4, <1>5, <1>6 DEF SetupStep

\* However the refreshes of missions that start side by side interleave at the one
\* cache: a mission works with one version of the catalogue; unless another mission
\* loads the cache between its snapshot and its scope, its answer is asked for the
\* breakdowns that this very version gives and for no others; and what the classifier
\* does not judge costs it nothing (run_v3_mission, CatalogueBootstrap.warm,
\* build_required_scope).
THEOREM MissionsStartSound == SetupSpec => []SetupInv
<1>1. SetupInit => SetupIInv
  BY SetupStarts
<1>2. SetupIInv /\ [SetupNext]_setupVars => SetupIInv'
  <2> SUFFICES ASSUME SetupIInv, [SetupNext]_setupVars PROVE SetupIInv'
    OBVIOUS
  <2>1. CASE \E q \in Starters : SetupStep(q)  BY <2>1, SetupSteps
  <2>2. CASE Elapse \/ UNCHANGED setupVars
    <3>1. UNCHANGED <<cache, mission, replaced>>  BY <2>2 DEF Elapse, setupVars
    <3> QED BY <3>1 DEF SetupIInv
  <2> QED BY <2>1, <2>2 DEF SetupNext
<1>3. SetupIInv => SetupInv
  <2> SUFFICES ASSUME SetupIInv PROVE SetupInv
    OBVIOUS
  <2>1. SnapshotIsWhole
    BY DEF SnapshotIsWhole, SetupIInv, StartSound
  <2>2. ScopeIsAnswerable
    <3> SUFFICES ASSUME NEW q \in Starters, mission[q].at = "ready"
                 PROVE  /\ {} \notin mission[q].deps.breakdowns
                        /\ (q \in replaced \/ Gives(mission[q].deps.breakdowns, mission[q].snapshot))
      BY DEF ScopeIsAnswerable, Gives
    <3>1. Linked(mission[q], q \in replaced, cache)
      BY DEF SetupIInv
    <3> QED BY <3>1 DEF Linked
  <2>3. OutageNeverTightens
    BY DEF OutageNeverTightens, SetupIInv, StartSound, NoWorse
  <2> QED BY <2>1, <2>2, <2>3 DEF SetupInv
<1> QED BY <1>1, <1>2, <1>3, PTL DEF SetupSpec

-----------------------------------------------------------------------------
(* The trust score.                                                        *)

\* A list's sum is one of the first numbers of a function.
LEMMA TotalOfNats ==
  ASSUME NEW l \in Nat, NEW list \in [1..l -> Nat]
  PROVE  TotalOf(list) \in Nat
<1>1. Len(list) = l
  <2>1. list \in Seq(Nat) /\ DOMAIN list = 1..l
    OBVIOUS
  <2> QED BY <2>1
<1>2. TotalOf(list) = SumTo(list, l)
  BY <1>1 DEF TotalOf, SumTo
<1>3. \A i \in 1..l : list[i] \in Nat
  OBVIOUS
<1>4. SumTo(list, l) \in Nat
  BY <1>3, SumOfNats
<1> QED BY <1>2, <1>4

\* So is a mean of natural numbers.
LEMMA MeanOfNats ==
  ASSUME NEW l \in Nat, NEW list \in [1..l -> Nat], NEW n \in Nat
  PROVE  MeanOf(list, n) \in Nat
<1>1. TotalOf(list) \in Nat
  BY TotalOfNats
<1> HIDE DEF TotalOf
<1>2. CASE n = 0
  BY <1>2 DEF MeanOf
<1>3. CASE n # 0
  BY <1>1, <1>3 DEF MeanOf
<1> QED BY <1>2, <1>3

\* What every check reports: insufficient evidence is a gap, and no signal is
\* below nothing.
SoundCheck(c) ==
  /\ c.status \in {"OK", "WEAK", "REJECTED", "INSUFFICIENT", "NOT_APPLICABLE"}
  /\ c.status = "INSUFFICIENT" => c.gap
  /\ \A n \in DOMAIN c.signals : c.signals[n] \in Nat

\* A check that reports no signal is sound if it tells of its gaps.
LEMMA SilentIsSound ==
  ASSUME NEW c, c.signals = <<>>,
         c.status \in {"OK", "REJECTED", "NOT_APPLICABLE"} \/ (c.status = "INSUFFICIENT" /\ c.gap)
  PROVE  SoundCheck(c)
BY DEF SoundCheck

\* check_evidence is such a check, ...
LEMMA EvidenceIsSound == ASSUME NEW xs PROVE SoundCheck(check_evidence(xs))
<1> DEFINE rows == Of(xs, "evidence")
           nulls == rows # Valued(xs)
           stale == \E i \in Valued(xs) : xs[i].stale
           thin == Cardinality(Valued(xs)) < MinRows
           q == 10000 - (IF nulls THEN 1500 ELSE 0) - (IF stale THEN 2500 ELSE 0)
                      - (IF thin THEN 2000 ELSE 0)
           st == IF thin THEN "WEAK" ELSE "OK"
<1> HIDE DEF nulls, stale, thin
<1>1. q \in Nat /\ st \in {"OK", "WEAK"}
  OBVIOUS
<1>2. \/ check_evidence(xs) = NotApplicable
      \/ check_evidence(xs) = [Checked EXCEPT !.status = "REJECTED", !.blocking = TRUE]
      \/ check_evidence(xs) = [Checked EXCEPT !.status = "INSUFFICIENT", !.gap = TRUE,
                                              !.signals = [evidence_quality |-> 0]]
      \/ check_evidence(xs) = [Checked EXCEPT !.status = st, !.warning = stale,
                                              !.signals = [evidence_quality |-> q]]
  BY DEF check_evidence, nulls, stale, thin
<1> HIDE DEF q, st
<1>3. CASE check_evidence(xs) = NotApplicable
  BY <1>3, SilentIsSound DEF NotApplicable, Checked
<1>4. CASE check_evidence(xs) = [Checked EXCEPT !.status = "REJECTED", !.blocking = TRUE]
  BY <1>4, SilentIsSound DEF Checked
<1>5. CASE check_evidence(xs) = [Checked EXCEPT !.status = "INSUFFICIENT", !.gap = TRUE,
                                                !.signals = [evidence_quality |-> 0]]
  <2>1. /\ check_evidence(xs).status = "INSUFFICIENT" /\ check_evidence(xs).gap
        /\ check_evidence(xs).signals = [evidence_quality |-> 0]
    BY <1>5 DEF Checked
  <2> QED BY <2>1 DEF SoundCheck
<1>6. CASE check_evidence(xs) = [Checked EXCEPT !.status = st, !.warning = stale,
                                                !.signals = [evidence_quality |-> q]]
  <2>1. check_evidence(xs).status = st /\ check_evidence(xs).signals = [evidence_quality |-> q]
    BY <1>6 DEF Checked
  <2> QED BY <1>1, <2>1 DEF SoundCheck
<1> QED BY <1>2, <1>3, <1>4, <1>5, <1>6

\* ... and so are those of the provenance, of contradictions and of the scope, ...
LEMMA PlainChecksAreSound ==
  ASSUME NEW xs, NEW scope
  PROVE  /\ SoundCheck(check_provenance(xs)) /\ SoundCheck(check_contradiction(xs))
         /\ SoundCheck(check_scope_coverage(xs, scope))
<1>1. SoundCheck(check_provenance(xs))
  <2>1. CASE Claims(xs) = {}
    BY <2>1, SilentIsSound DEF check_provenance, NotApplicable, Checked
  <2>2. CASE Claims(xs) # {}
    <3>1. /\ check_provenance(xs).status \in {"OK", "REJECTED"}
          /\ \/ check_provenance(xs).signals = [provenance_completeness |-> 0]
             \/ check_provenance(xs).signals = [provenance_completeness |-> 10000]
      BY <2>2 DEF check_provenance, Checked
    <3> QED BY <3>1 DEF SoundCheck
  <2> QED BY <2>1, <2>2
<1>2. SoundCheck(check_contradiction(xs))
  <2> DEFINE worst == \E i, j \in Valued(xs) : Disagree(xs, i, j)
             q == IF worst THEN 4000 ELSE 8500
  <2>1. check_contradiction(xs) = [Checked EXCEPT !.warning = worst,
                                                  !.signals = [cross_source_agreement |-> q]]
    BY DEF check_contradiction
  <2>2. q \in Nat
    OBVIOUS
  <2> HIDE DEF worst, q
  <2>3. /\ check_contradiction(xs).status = "OK"
        /\ check_contradiction(xs).signals = [cross_source_agreement |-> q]
    BY <2>1 DEF Checked
  <2> QED BY <2>2, <2>3 DEF SoundCheck
<1>3. SoundCheck(check_scope_coverage(xs, scope))
  <2>1. \/ check_scope_coverage(xs, scope) = NotApplicable
        \/ check_scope_coverage(xs, scope) =
             [Checked EXCEPT !.status = "INSUFFICIENT", !.gap = TRUE]
        \/ check_scope_coverage(xs, scope) = Checked
    BY DEF check_scope_coverage
  <2> QED BY <2>1, SilentIsSound DEF Checked, NotApplicable
<1> QED BY <1>1, <1>2, <1>3

\* ... that of the causal artifacts, ...
LEMMA CausalIsSound ==
  ASSUME NEW xs, xs \in Seq(Kinds)
  PROVE  SoundCheck(check_causal(xs))
<1> DEFINE rows == Of(xs, "causal")
           good == {i \in rows : xs[i].parses}
           list == [i \in DOMAIN xs |-> IF i \in good THEN Refuted(xs, i) ELSE 0]
           s == IF good = {} THEN <<>>
                ELSE [estimator_validity |-> 10000,
                      refutation_robustness |-> MeanOf(list, Cardinality(good))]
<1>1. CASE rows = {}
  BY <1>1 DEF check_causal, SoundCheck, Checked, NotApplicable
<1>2. CASE rows # {}
  <2>1. \A i \in good : Refuted(xs, i) \in Nat
    <3> SUFFICES ASSUME NEW i \in good PROVE Refuted(xs, i) \in Nat
      OBVIOUS
    <3>1. xs[i] \in Kinds /\ xs[i].type = "causal" /\ xs[i].parses
      BY DEF Of, Claims
    <3>2. xs[i].passed \in Nat
      BY <3>1, EvidenceAssumption
    <3> QED BY <3>2 DEF Refuted, MIN_REFUTATIONS
  <2>2. list \in [1..Len(xs) -> Nat] /\ Len(xs) \in Nat
    BY <2>1
  <2>3. Cardinality(good) \in Nat
    <3>1. good \subseteq 1..Len(xs)
      BY DEF Of, Claims
    <3>2. IsFiniteSet(1..Len(xs))
      BY FS_Interval
    <3> QED BY <3>1, <3>2, FS_Subset, FS_CardinalityType
  <2> HIDE DEF list
  <2>4. MeanOf(list, Cardinality(good)) \in Nat
    BY <2>2, <2>3, MeanOfNats
  <2>5. \A n \in DOMAIN s : s[n] \in Nat
    <3> DEFINE v == MeanOf(list, Cardinality(good))
    <3> HIDE DEF v
    <3>1. v \in Nat
      BY <2>4 DEF v
    <3>2. s = IF good = {} THEN <<>> ELSE [estimator_validity |-> 10000, refutation_robustness |-> v]
      BY DEF v
    <3> HIDE DEF s, good
    <3> QED BY <3>1, <3>2
  <2>6. /\ check_causal(xs).status = IF good = rows THEN "OK" ELSE "REJECTED"
        /\ check_causal(xs).signals = s
    BY <1>2 DEF check_causal, list
  <2> HIDE DEF s
  <2> QED BY <2>5, <2>6 DEF SoundCheck
<1> QED BY <1>1, <1>2

\* ... and that of the forecasts.
LEMMA PredictionIsSound ==
  ASSUME NEW xs, xs \in Seq(Kinds)
  PROVE  SoundCheck(check_prediction(xs))
<1> DEFINE rows == Of(xs, "prediction")
           good == {i \in rows : xs[i].parses}
           leaky == \E i \in good : ~xs[i].leakage_checked
           told == {i \in good : xs[i].interval}
           m == IF leaky THEN 5000 ELSE 10000
           q == (10000 * Cardinality(told)) \div Cardinality(rows)
<1>1. CASE rows = {}
  BY <1>1 DEF check_prediction, SoundCheck, Checked, NotApplicable
<1>2. CASE rows # {}
  <2>1. IsFiniteSet(rows) /\ IsFiniteSet(told)
    <3>1. rows \subseteq 1..Len(xs) /\ told \subseteq 1..Len(xs)
      BY DEF Of, Claims
    <3>2. IsFiniteSet(1..Len(xs))
      BY FS_Interval
    <3> QED BY <3>1, <3>2, FS_Subset
  <2>2. /\ Cardinality(rows) \in Nat /\ Cardinality(told) \in Nat
        /\ Cardinality(rows) # 0
    BY <1>2, <2>1, FS_CardinalityType, FS_EmptySet
  <2>3. q \in Nat /\ m \in Nat
    <3> DEFINE a == Cardinality(told)
               b == Cardinality(rows)
    <3>1. a \in Nat /\ b \in Nat /\ b # 0
      BY <2>2
    <3> HIDE DEF a, b, leaky
    <3>2. (10000 * a) \div b \in Nat
      BY <3>1
    <3> QED BY <3>2 DEF a, b
  <2>4. /\ check_prediction(xs).status = IF good = rows THEN "OK" ELSE "REJECTED"
        /\ check_prediction(xs).signals = [model_applicability |-> m, interval_quality |-> q]
    BY <1>2 DEF check_prediction
  <2> HIDE DEF m, q
  <2>5. \A n \in DOMAIN [model_applicability |-> m, interval_quality |-> q] :
          [model_applicability |-> m, interval_quality |-> q][n] \in Nat
    BY <2>3
  <2> QED BY <2>4, <2>5 DEF SoundCheck
<1> QED BY <1>1, <1>2

\* So all that apply are.
LEMMA ChecksAreSound ==
  ASSUME NEW xs, xs \in Seq(Kinds), NEW scope
  PROVE  \A c \in run_checks(xs, scope) : SoundCheck(c) /\ c.status # "NOT_APPLICABLE"
BY EvidenceIsSound, PlainChecksAreSound, CausalIsSound, PredictionIsSound DEF run_checks

\* The least reading of each signal is a number, ...
LEMMA SignalsAreNats ==
  ASSUME NEW outcomes, \A c \in outcomes : SoundCheck(c)
  PROVE  \A n \in DOMAIN Signals(outcomes) : Signals(outcomes)[n] \in Nat
<1> SUFFICES ASSUME NEW n \in DOMAIN Signals(outcomes)
             PROVE  Signals(outcomes)[n] \in Nat
  OBVIOUS
<1> DEFINE T == {10000} \cup {c.signals[n] : c \in {o \in outcomes : n \in DOMAIN o.signals}}
<1>1. T \subseteq Nat /\ T # {}
  BY DEF SoundCheck
<1>2. Signals(outcomes)[n] = Min(T)
  BY DEF Signals
<1> HIDE DEF T
<1>3. Min(T) \in T
  BY <1>1, LeastIsChosen DEF Min
<1> QED BY <1>1, <1>2, <1>3

\* ... the reading of each dimension is, ...
LEMMA ComponentsAreNats ==
  ASSUME NEW s, \A n \in DOMAIN s : s[n] \in Nat, NEW d
  PROVE  Component(s, d) \in Nat
<1> DEFINE ds == _DIMENSION_SIGNALS(d)
           fs == Feeders(s, d)
           list == [i \in DOMAIN ds |-> IF i \in fs THEN s[ds[i]] ELSE 0]
<1>1. \E l \in Nat : DOMAIN ds = 1..l
  <2>1. \/ \E a, b : ds = <<a, b>>
        \/ \E a : ds = <<a>>
    BY DEF _DIMENSION_SIGNALS
  <2>2. \A a, b : DOMAIN <<a, b>> = 1..2 /\ DOMAIN <<a>> = 1..1
    OBVIOUS
  <2> HIDE DEF ds
  <2> QED BY <2>1, <2>2
<1>2. PICK l \in Nat : DOMAIN ds = 1..l
  BY <1>1
<1> HIDE DEF ds
<1>3. \A i \in fs : i \in DOMAIN ds /\ ds[i] \in DOMAIN s
  BY DEF Feeders, ds
<1>4. Cardinality(fs) \in Nat
  <2>1. fs \subseteq 1..l
    BY <1>2, <1>3
  <2>2. IsFiniteSet(1..l)
    BY FS_Interval
  <2> QED BY <2>1, <2>2, FS_Subset, FS_CardinalityType
<1> HIDE DEF fs
<1>5. list \in [1..l -> Nat]
  BY <1>2, <1>3
<1> HIDE DEF list
<1>6. MeanOf(list, Cardinality(fs)) \in Nat
  BY <1>4, <1>5, MeanOfNats
<1> QED BY <1>6 DEF Component, list, ds, fs

\* ... and so is the score.
WeightedScore(outcomes, type) ==
  LET s == Signals(outcomes)
      profile == TRUST_PROFILES[type]
      weights == [i \in DOMAIN profile |->
                    IF Feeders(s, profile[i][1]) = {} THEN 0 ELSE profile[i][2]]
  IN MeanOf([i \in DOMAIN profile |-> weights[i] * Component(s, profile[i][1])], TotalOf(weights))

\* Every profile is a list of dimensions, each with its weight.
LEMMA ProfilesAreWeights ==
  ASSUME NEW type \in {"numeric", "causal", "forecast", "default"}
  PROVE  \E l \in Nat : /\ DOMAIN TRUST_PROFILES[type] = 1..l
                        /\ \A i \in 1..l : TRUST_PROFILES[type][i][2] \in Nat
<1>1. CASE type = "numeric"
  <2>1. DOMAIN TRUST_PROFILES[type] = 1..5 /\ \A i \in 1..5 : TRUST_PROFILES[type][i][2] \in Nat
    BY <1>1 DEF TRUST_PROFILES
  <2> QED BY <2>1
<1>2. CASE type = "causal"
  <2>1. DOMAIN TRUST_PROFILES[type] = 1..8 /\ \A i \in 1..8 : TRUST_PROFILES[type][i][2] \in Nat
    BY <1>2 DEF TRUST_PROFILES
  <2> QED BY <2>1
<1>3. CASE type = "forecast"
  <2>1. DOMAIN TRUST_PROFILES[type] = 1..6 /\ \A i \in 1..6 : TRUST_PROFILES[type][i][2] \in Nat
    BY <1>3 DEF TRUST_PROFILES
  <2> QED BY <2>1
<1>4. CASE type = "default"
  <2>1. DOMAIN TRUST_PROFILES[type] = 1..3 /\ \A i \in 1..3 : TRUST_PROFILES[type][i][2] \in Nat
    BY <1>4 DEF TRUST_PROFILES
  <2> QED BY <2>1
<1> QED BY <1>1, <1>2, <1>3, <1>4

\* The weighted mean of what sound checks report is a natural number.
LEMMA ScoreIsNat ==
  ASSUME NEW outcomes, \A c \in outcomes : SoundCheck(c),
         NEW type \in {"numeric", "causal", "forecast", "default"}
  PROVE  WeightedScore(outcomes, type) \in Nat
<1> DEFINE s == Signals(outcomes)
           profile == TRUST_PROFILES[type]
           weights == [i \in DOMAIN profile |->
                         IF Feeders(s, profile[i][1]) = {} THEN 0 ELSE profile[i][2]]
           list == [i \in DOMAIN profile |-> weights[i] * Component(s, profile[i][1])]
<1>1. \A n \in DOMAIN s : s[n] \in Nat
  BY SignalsAreNats
<1>2. PICK l \in Nat : DOMAIN profile = 1..l /\ \A i \in 1..l : profile[i][2] \in Nat
  BY ProfilesAreWeights
<1> HIDE DEF s, profile
<1>3. weights \in [1..l -> Nat]
  BY <1>2
<1> HIDE DEF weights
<1>4. \A d : Component(s, d) \in Nat
  BY <1>1, ComponentsAreNats
<1>5. list \in [1..l -> Nat]
  <2>1. \A i \in 1..l : weights[i] * Component(s, profile[i][1]) \in Nat
    <3>1. \A a, b \in Nat : a * b \in Nat
      OBVIOUS
    <3> QED BY <1>3, <1>4, <3>1
  <2> QED BY <1>2, <2>1
<1> HIDE DEF list
<1>6. TotalOf(weights) \in Nat
  BY <1>3, TotalOfNats
<1>7. MeanOf(list, TotalOf(weights)) \in Nat
  BY <1>5, <1>6, MeanOfNats
<1> QED BY <1>7 DEF WeightedScore, s, profile, weights, list

\* The claim's type is that of a profile.
LEMMA TypeHasProfile ==
  ASSUME NEW xs
  PROVE  claim_type_for(xs) \in {"numeric", "causal", "forecast", "default"}
BY DEF claim_type_for

\* A blocking challenge caps the score.
LEMMA TrustIs ==
  ASSUME NEW xs, xs \in Seq(Kinds), NEW scope
  PROVE  /\ TrustIn(xs, scope) \in Nat
         /\ (\E c \in run_checks(xs, scope) : c.blocking) => TrustIn(xs, scope) <= 3000
<1> DEFINE checks == run_checks(xs, scope)
           score == WeightedScore(checks, claim_type_for(xs))
<1>1. \A c \in checks : SoundCheck(c)
  BY ChecksAreSound
<1>2. score \in Nat
  BY <1>1, TypeHasProfile, ScoreIsNat
<1>3. TrustIn(xs, scope) = IF \E c \in checks : c.blocking THEN Min({score, 3000}) ELSE score
  BY DEF TrustIn, score_trust, WeightedScore, TRUST_BLOCKING_CAP
<1> HIDE DEF score, checks
<1>4. Min({score, 3000}) \in {score, 3000} /\ \A k \in {score, 3000} : Min({score, 3000}) <= k
  <2> DEFINE T == {score, 3000}
  <2>1. T \subseteq Nat /\ T # {}
    BY <1>2
  <2> HIDE DEF T
  <2>2. Min(T) \in T /\ \A k \in T : Min(T) <= k
    BY <2>1, LeastIsChosen DEF Min
  <2> QED BY <2>2 DEF T
<1>5. (\E c \in checks : c.blocking) => TrustIn(xs, scope) <= 3000
  BY <1>3, <1>4
<1>6. TrustIn(xs, scope) \in Nat
  BY <1>2, <1>3, <1>4
<1> QED BY <1>5, <1>6 DEF checks

\* A verdict of revision comes from a gap, a warning or a low score.
LEMMA RevisedWhen ==
  ASSUME NEW xs, xs \in Seq(Kinds), NEW scope, VerdictOn(xs, scope) = "REVISE"
  PROVE  \/ \E c \in run_checks(xs, scope) : c.gap \/ c.warning
         \/ TrustIn(xs, scope) < 5500
<1>1. \/ \E c \in run_checks(xs, scope) :
           c.gap \/ c.warning \/ c.status \in {"UNAVAILABLE", "INSUFFICIENT"}
      \/ TrustIn(xs, scope) < 5500
  BY DEF VerdictOn, decide_verdict, TRUST_REVISE_BELOW
<1>2. \A c \in run_checks(xs, scope) :
        c.status \in {"UNAVAILABLE", "INSUFFICIENT"} => c.gap
  BY ChecksAreSound DEF SoundCheck
<1> QED BY <1>1, <1>2

\* The two signals, of any artifacts.
LEMMA ArtifactsGiveTwoSignals == artifacts \in Seq(Kinds) => TwoSignals
<1> DEFINE xs == artifacts
           checks == run_checks(xs, demanded)
           trust == TrustIn(xs, demanded)
<1> SUFFICES ASSUME xs \in Seq(Kinds)
             PROVE  /\ VerdictOn(xs, demanded) = "REVISE" /\ "STRONG" \in label_for(trust)
                         => \E c \in checks : c.gap \/ c.warning
                    /\ (\E c \in checks : c.blocking)
                         => VerdictOn(xs, demanded) = "REJECT" /\ label_for(trust) = {}
  BY DEF TwoSignals
<1>1. trust \in Nat /\ ((\E c \in checks : c.blocking) => trust <= 3000)
  BY TrustIs
<1>2. VerdictOn(xs, demanded) = "REVISE" => (\E c \in checks : c.gap \/ c.warning) \/ trust < 5500
  BY RevisedWhen
<1>3. (\E c \in checks : c.blocking) => VerdictOn(xs, demanded) = "REJECT"
  BY DEF VerdictOn, decide_verdict
<1> HIDE DEF checks, trust, xs
<1>4. "STRONG" \in label_for(trust) => trust >= 7200
  BY DEF label_for, TRUST_LABEL_THRESHOLDS
<1>5. trust <= 3000 => label_for(trust) = {}
  <2>1. \A n \in DOMAIN TRUST_LABEL_THRESHOLDS : TRUST_LABEL_THRESHOLDS[n] \in Nat /\ TRUST_LABEL_THRESHOLDS[n] >= 3500
    BY DEF TRUST_LABEL_THRESHOLDS
  <2> QED BY <1>1, <2>1 DEF label_for
<1> QED BY <1>1, <1>2, <1>3, <1>4, <1>5

\* Whatever the tools have stored: a well-trusted answer is sent back for a gap
\* or a warning only, and what a blocking challenge rejects carries no label.
THEOREM TrustAndVerdictAgree == EvidenceSpec => []TwoSignals
<1>1. EvidenceInit => artifacts \in Seq(Kinds)
  BY DEF EvidenceInit
<1>2. artifacts \in Seq(Kinds) /\ [EvidenceNext]_evidenceVars => (artifacts \in Seq(Kinds))'
  BY DEF EvidenceNext, Store, evidenceVars
<1> QED BY <1>1, <1>2, ArtifactsGiveTwoSignals, PTL DEF EvidenceSpec

-----------------------------------------------------------------------------
(* Analytics.                                                              *)

\* The rows of a call: readings, in the order they were chosen.
GivenType == given \in UNION {[1..n -> Rows] : n \in Nat}

LEMMA GivenIs ==
  ASSUME GivenType
  PROVE  /\ Len(given) \in Nat /\ DOMAIN given = 1..Len(given)
         /\ \A i \in DOMAIN given : given[i].start \in Int /\ given[i].value \in Int
<1>1. PICK n \in Nat : given \in [1..n -> Rows]
  BY DEF GivenType
<1>2. DOMAIN given = 1..n /\ Len(given) = n
  <2>1. given \in Seq(Rows) /\ DOMAIN given = 1..n
    BY <1>1
  <2> QED BY <1>1, <2>1
<1>3. \A i \in DOMAIN given : given[i] \in Rows
  BY <1>1
<1> QED BY <1>2, <1>3, AnalyticsAssumption

\* The last of some rows.
LEMMA LastIs ==
  ASSUME GivenType, NEW is, is \subseteq DOMAIN given, is # {}
  PROVE  LastOf(is) \in is
<1>1. is \subseteq 1..Len(given) /\ Len(given) \in Nat
  BY GivenIs
<1> QED BY <1>1, GreatestIsChosen DEF LastOf

\* Rows that may be compared have one grain and one span, a day if they are daily.
LEMMA UsableIs ==
  ASSUME Usable, NEW is, is \subseteq DOMAIN given
  PROVE  \A i, j \in is :
           /\ given[i].grain = given[j].grain /\ given[i].span = given[j].span
           /\ given[i].grain = "day" => given[i].span = 1
<1>1. "day" \in DOMAIN _ALLOWED_SPAN_DAYS /\ _ALLOWED_SPAN_DAYS["day"] = 1..1
  BY DEF _ALLOWED_SPAN_DAYS
<1>2. \A i, j \in DOMAIN given : given[i].grain = given[j].grain /\ given[i].span = given[j].span
  BY DEF Usable, validate_grain_set
<1>3. \A i \in DOMAIN given : given[i].grain = "day" => given[i].span \in 1..1
  BY <1>1 DEF Usable, validate_grain_set
<1> QED BY <1>2, <1>3

\* What is true of a finding, whichever tool has written it.
Sound(f) ==
  /\ \A i, j \in f.cites :
       /\ given[i].grain = given[j].grain /\ given[i].span = given[j].span
       /\ given[i].grain = "day" => given[i].span = 1
  /\ \A i \in f.cites : ~given[i].null
  /\ f.kind \in {"anomaly", "comparison"} =>
       /\ \A i, j \in f.cites : pair_key(i) = pair_key(j)
       /\ f.kind = "anomaly" => \E i \in f.cites :
            given[i].value = f.value /\ \A j \in f.cites : given[j].start <= given[i].start
  /\ f.kind = "transition" =>
       \E m, n \in 1..Len(FUNNEL_STEPS) :
         m < n /\ FUNNEL_STEPS[m] = f.label /\ FUNNEL_STEPS[n] = f.metric

\* Enough for a finding of another kind.
LEMMA PlainIsSound ==
  ASSUME Usable, NEW kind, kind \notin {"anomaly", "comparison", "transition"},
         NEW metric, NEW label, NEW value, NEW cites, cites \subseteq Measured(DOMAIN given)
  PROVE  Sound(Finding(kind, metric, label, cites, value))
<1> DEFINE f == Finding(kind, metric, label, cites, value)
<1>1. f.cites = cites /\ f.kind = kind
  BY DEF Finding
<1>2. cites \subseteq DOMAIN given /\ \A i \in cites : ~given[i].null
  BY DEF Measured
<1> HIDE DEF f
<1>3. \A i, j \in cites :
        /\ given[i].grain = given[j].grain /\ given[i].span = given[j].span
        /\ given[i].grain = "day" => given[i].span = 1
  BY <1>2, UsableIs
<1>4. Sound(f)
  BY <1>1, <1>2, <1>3 DEF Sound
<1> QED BY <1>4 DEF f

LEMMA ComparisonsAreSound ==
  ASSUME GivenType, NEW f \in compare_periods
  PROVE  Sound(f)
<1> DEFINE of(p, k) == {i \in InPeriod(p) : pair_key(i) = k}
<1>1. Usable /\ f \in period_deltas
  BY DEF compare_periods
<1>2. PICK k : /\ of(PeriodA, k) # {} /\ of(PeriodB, k) # {}
               /\ ~given[LastOf(of(PeriodA, k))].null /\ ~given[LastOf(of(PeriodB, k))].null
               /\ f = Finding("comparison", k[1], k[2],
                              {LastOf(of(PeriodA, k)), LastOf(of(PeriodB, k))},
                              given[LastOf(of(PeriodA, k))].value - given[LastOf(of(PeriodB, k))].value)
  BY <1>1 DEF period_deltas
<1> DEFINE a == LastOf(of(PeriodA, k))
           b == LastOf(of(PeriodB, k))
<1>3. /\ a \in of(PeriodA, k) /\ b \in of(PeriodB, k)
  <2>1. of(PeriodA, k) \subseteq DOMAIN given /\ of(PeriodB, k) \subseteq DOMAIN given
    BY DEF InPeriod
  <2> HIDE DEF of
  <2> QED BY <1>2, <2>1, LastIs
<1>4. f.cites = {a, b} /\ f.kind = "comparison"
  BY <1>2 DEF Finding
<1>5. a \in DOMAIN given /\ b \in DOMAIN given /\ pair_key(a) = k /\ pair_key(b) = k
  BY <1>3 DEF InPeriod
<1>6. ~given[a].null /\ ~given[b].null
  BY <1>2
<1> HIDE DEF a, b, of
<1>7. \A i, j \in {a, b} :
        /\ given[i].grain = given[j].grain /\ given[i].span = given[j].span
        /\ given[i].grain = "day" => given[i].span = 1
  BY <1>1, <1>5, UsableIs
<1> QED BY <1>4, <1>5, <1>6, <1>7 DEF Sound

\* The latest row of a series is found.
LEMMA LatestIs ==
  ASSUME GivenType, NEW is, is \subseteq DOMAIN given, is # {}
  PROVE  Latest(is) \in is /\ \A j \in is : given[j].start <= given[Latest(is)].start
<1> DEFINE R == {p \in is \X is : \/ given[p[1]].start < given[p[2]].start
                                  \/ given[p[1]].start = given[p[2]].start /\ p[1] <= p[2]}
<1>1. is \subseteq Nat /\ (\A i \in is : given[i].start \in Int) /\ IsFiniteSet(is)
  <2>1. is \subseteq 1..Len(given) /\ Len(given) \in Nat
    BY GivenIs
  <2>2. IsFiniteSet(1..Len(given))
    BY <2>1, FS_Interval
  <2> QED BY <2>1, <2>2, GivenIs, FS_Subset
<1>2. IsOrder(R, is)
  BY <1>1 DEF IsOrder
<1> HIDE DEF R
<1>3. PICK i \in is : \A j \in is : <<j, i>> \in R
  BY <1>1, <1>2, OrdersHaveALast
<1>4. \A j \in is : \/ given[j].start < given[i].start
                    \/ given[j].start = given[i].start /\ j <= i
  BY <1>3 DEF R
<1>5. /\ Latest(is) \in is
      /\ \A j \in is : \/ given[j].start < given[Latest(is)].start
                       \/ given[j].start = given[Latest(is)].start /\ j <= Latest(is)
  BY <1>4 DEF Latest
<1> QED BY <1>1, <1>5

LEMMA AnomaliesAreSound ==
  ASSUME GivenType, NEW f \in detect_anomalies
  PROVE  Sound(f)
<1>1. Usable
  BY DEF detect_anomalies
<1>2. PICK g \in _group_by_series(DOMAIN given) :
        /\ Cardinality(Measured(g)) >= 2
        /\ f = Finding("anomaly", given[Latest(Measured(g))].metric, given[Latest(Measured(g))].label,
                       Measured(g), given[Latest(Measured(g))].value)
  BY <1>1 DEF detect_anomalies
<1> DEFINE s == Measured(g)
<1>3. /\ s \subseteq DOMAIN given /\ (\A i \in s : ~given[i].null)
      /\ \A i, j \in s : pair_key(i) = pair_key(j)
  BY DEF Measured, _group_by_series
<1>4. f.cites = s /\ f.kind = "anomaly" /\ f.value = given[Latest(s)].value
  BY <1>2 DEF Finding
<1>5. s # {}
  BY <1>2, FS_EmptySet
<1> HIDE DEF s
<1>6. Latest(s) \in s /\ \A j \in s : given[j].start <= given[Latest(s)].start
  BY <1>3, <1>5, LatestIs
<1>7. \A i, j \in s :
        /\ given[i].grain = given[j].grain /\ given[i].span = given[j].span
        /\ given[i].grain = "day" => given[i].span = 1
  BY <1>1, <1>3, UsableIs
<1> QED BY <1>3, <1>4, <1>6, <1>7 DEF Sound

\* Segments are measured rows, and so is what is kept of them.
LEMMA SegmentsAreGiven ==
  /\ \A p : _segments_for_period(p) \subseteq DOMAIN given
  /\ \A is : Measured(is) \subseteq is /\ shares(is).kept \subseteq Measured(is)
<1>1. \A p : _segments_for_period(p) \subseteq DOMAIN given
  BY DEF _segments_for_period, InPeriod
<1>2. \A is : Measured(is) \subseteq is
  BY DEF Measured
<1>3. \A is : shares(is).kept \subseteq Measured(is)
  BY DEF shares
<1> QED BY <1>1, <1>2, <1>3

LEMMA KeptAreMeasured ==
  ASSUME NEW p
  PROVE  shares(_segments_for_period(p)).kept \subseteq Measured(DOMAIN given)
<1>1. Measured(_segments_for_period(p)) \subseteq Measured(DOMAIN given)
  BY SegmentsAreGiven DEF Measured
<1> QED BY <1>1, SegmentsAreGiven

\* A contribution is of a segment of each period.
IsContribution(f, i, j) ==
  /\ given[j].label = given[i].label
  /\ f = Finding("contribution", given[1].metric, given[i].label, {i, j},
                 given[i].value - given[j].value)
LEMMA ContributionsAre ==
  ASSUME GivenType, NEW pa, NEW pb, NEW f \in contributions(pa, pb)
  PROVE  \E i \in Measured(_segments_for_period(pa)) :
           \E j \in Measured(_segments_for_period(pb)) : IsContribution(f, i, j)
<1> DEFINE b(i) == {j \in Measured(_segments_for_period(pb)) : given[j].label = given[i].label}
<1>1. PICK i \in Measured(_segments_for_period(pa)) :
        /\ b(i) # {}
        /\ f = Finding("contribution", given[1].metric, given[i].label, {i, LastOf(b(i))},
                       given[i].value - given[LastOf(b(i))].value)
  BY DEF contributions
<1>2. b(i) \subseteq DOMAIN given
  BY SegmentsAreGiven DEF Measured
<1>3. LastOf(b(i)) \in b(i)
  <2> HIDE DEF b
  <2> QED BY <1>1, <1>2, LastIs
<1> QED BY <1>1, <1>3 DEF IsContribution

LEMMA ContributionsAreSound ==
  ASSUME GivenType, NEW f \in contribution_analysis
  PROVE  Sound(f)
<1> DEFINE first == Period(CHOOSE i \in DOMAIN given :
                      given[i].label # "" /\ \A j \in 1..(i - 1) : given[j].label = "")
           second == CHOOSE p \in SegmentPeriods : p # first
<1>1. Usable
  BY DEF contribution_analysis
<1>2. \/ f \in contributions(first, second)
      \/ \E i \in shares(_segments_for_period(first)).kept :
           f = Finding("share", given[1].metric, given[i].label, {i}, given[i].value)
  BY DEF contribution_analysis
<1> HIDE DEF first, second
<1>3. CASE f \in contributions(first, second)
  <2>1. PICK i \in Measured(_segments_for_period(first)) :
          \E j \in Measured(_segments_for_period(second)) : IsContribution(f, i, j)
    BY <1>3, ContributionsAre
  <2>3. PICK j \in Measured(_segments_for_period(second)) : IsContribution(f, i, j)
    BY <2>1
  <2>2. {i, j} \subseteq Measured(DOMAIN given)
    BY SegmentsAreGiven DEF Measured
  <2> QED BY <1>1, <2>2, <2>3, PlainIsSound DEF IsContribution
<1>4. CASE \E i \in shares(_segments_for_period(first)).kept :
             f = Finding("share", given[1].metric, given[i].label, {i}, given[i].value)
  <2>1. PICK i \in shares(_segments_for_period(first)).kept :
          f = Finding("share", given[1].metric, given[i].label, {i}, given[i].value)
    BY <1>4
  <2>2. {i} \subseteq Measured(DOMAIN given)
    BY KeptAreMeasured
  <2> QED BY <1>1, <2>1, <2>2, PlainIsSound
<1> QED BY <1>2, <1>3, <1>4

LEMMA DecompositionsAreSound ==
  ASSUME GivenType, NEW f \in segment_decomposition
  PROVE  Sound(f)
<1> DEFINE p == CHOOSE q \in SegmentPeriods : TRUE
           s == shares(_segments_for_period(p))
<1>1. Usable /\ f = Finding("decomposition", given[1].metric, "", s.kept, s.total)
  BY DEF segment_decomposition
<1>2. s.kept \subseteq Measured(DOMAIN given)
  BY KeptAreMeasured
<1> HIDE DEF s
<1> QED BY <1>1, <1>2, PlainIsSound

LEMMA CohortsAreSound ==
  ASSUME GivenType, NEW f \in cohort_analysis
  PROVE  Sound(f)
<1>1. Usable
  BY DEF cohort_analysis
<1>2. PICK i \in Measured(DOMAIN given) :
        f = Finding("cohort", given[1].metric, given[i].label, {i},
                    2 * given[i].value - Median2(Measured(DOMAIN given)))
  BY <1>1 DEF cohort_analysis, cohort_spread
<1> QED BY <1>1, <1>2, PlainIsSound

\* The readings of a funnel are of declared steps.
LEMMA PlacedAre ==
  ASSUME GivenType, NEW i \in Placed
  PROVE  /\ i \in Measured(DOMAIN given)
         /\ position(i) \in 1..Len(FUNNEL_STEPS) /\ FUNNEL_STEPS[position(i)] = given[i].metric
<1>1. PICK m \in Steps : reading(m) # {} /\ i = LastOf(reading(m))
  BY DEF Placed
<1>2. i \in reading(m)
  BY <1>1, LastIs DEF reading
<1>3. i \in Measured(DOMAIN given) /\ given[i].metric = m
  BY <1>2 DEF reading, Measured
<1>4. DOMAIN FUNNEL_STEPS = 1..Len(FUNNEL_STEPS)
  BY AnalyticsAssumption
<1>5. \E n \in DOMAIN FUNNEL_STEPS : FUNNEL_STEPS[n] = given[i].metric
  BY <1>3 DEF Steps
<1> QED BY <1>3, <1>4, <1>5 DEF position

LEMMA FunnelsAreSound ==
  ASSUME GivenType, NEW f \in funnel_decomposition
  PROVE  Sound(f)
<1>1. Usable /\ f \in transitions(ordered_steps)
  BY DEF funnel_decomposition
<1>2. PICK p \in ordered_steps :
        f = Finding("transition", given[p[2]].metric, given[p[1]].metric,
                    Placed, (100 * Rate(p[2])) \div Rate(p[1]))
  BY <1>1 DEF transitions
<1>3. p[1] \in Placed /\ p[2] \in Placed /\ position(p[1]) < position(p[2])
  BY DEF ordered_steps, Precedes
<1>4. /\ f.kind = "transition" /\ f.cites = Placed
      /\ f.metric = given[p[2]].metric /\ f.label = given[p[1]].metric
  BY <1>2 DEF Finding
<1>5. Placed \subseteq DOMAIN given /\ \A i \in Placed : ~given[i].null
  BY PlacedAre DEF Measured
<1>6. \A i, j \in Placed :
        /\ given[i].grain = given[j].grain /\ given[i].span = given[j].span
        /\ given[i].grain = "day" => given[i].span = 1
  BY <1>1, <1>5, UsableIs
<1>7. \E m, n \in 1..Len(FUNNEL_STEPS) :
        m < n /\ FUNNEL_STEPS[m] = f.label /\ FUNNEL_STEPS[n] = f.metric
  BY <1>3, <1>4, PlacedAre
<1> QED BY <1>4, <1>5, <1>6, <1>7 DEF Sound

-----------------------------------------------------------------------------
(* Analytics: the shares.                                                  *)

\* The rows kept and the others add up to all of them.
LEMMA SumIsSplit ==
  ASSUME GivenType, NEW is, NEW kept, kept \subseteq is, is \subseteq DOMAIN given
  PROVE  SumOf(is) = SumOf(is \ kept) + SumOf(kept)
<1> DEFINE w(js) == [i \in DOMAIN given |-> IF i \in js THEN given[i].value ELSE 0]
<1>1. \A js : SumOf(js) = SumTo(w(js), Len(given))
  BY DEF SumOf, SumTo
<1>2. Len(given) \in Nat /\ DOMAIN given = 1..Len(given)
      /\ \A i \in DOMAIN given : given[i].value \in Int
  BY GivenIs
<1>3. \A i \in 1..Len(given) :
        /\ w(is \ kept)[i] \in Int /\ w(kept)[i] \in Int
        /\ w(is)[i] = w(is \ kept)[i] + w(kept)[i]
  BY <1>2
<1> HIDE DEF w
<1>4. SumTo(w(is), Len(given)) = SumTo(w(is \ kept), Len(given)) + SumTo(w(kept), Len(given))
  BY <1>2, <1>3, SumOfSums
<1> QED BY <1>1, <1>4

\* No more are kept than may be reported: each has fewer larger ones.
LEMMA KeptAreFew ==
  ASSUME GivenType, NEW is, is \subseteq DOMAIN given
  PROVE  Cardinality(shares(is).kept) <= MaxSegments
<1> DEFINE larger(i) == {j \in Measured(is) : Abs(given[j].value) > Abs(given[i].value)
                                          \/ (Abs(given[j].value) = Abs(given[i].value) /\ j < i)}
           I == Measured(is)
           K == shares(is).kept
           R == {p \in I \X I : \/ Abs(given[p[1]].value) > Abs(given[p[2]].value)
                                \/ Abs(given[p[1]].value) = Abs(given[p[2]].value) /\ p[1] <= p[2]}
<1>1. I \subseteq 1..Len(given) /\ Len(given) \in Nat /\ IsFiniteSet(I)
      /\ \A i \in I : Abs(given[i].value) \in Int
  <2>1. I \subseteq DOMAIN given
    BY SegmentsAreGiven
  <2> HIDE DEF I
  <2>2. I \subseteq 1..Len(given) /\ Len(given) \in Nat
    BY <2>1, GivenIs
  <2>3. IsFiniteSet(1..Len(given))
    BY <2>2, FS_Interval
  <2>4. \A i \in I : Abs(given[i].value) \in Int
    BY <2>1, GivenIs DEF Abs
  <2> QED BY <2>2, <2>3, <2>4, FS_Subset
<1>2. K \subseteq I /\ \A i \in K : Cardinality(larger(i)) < MaxSegments
  BY DEF shares
<1> HIDE DEF I, K
<1>3. IsOrder(R, I)
  <2> DEFINE v(i) == Abs(given[i].value)
  <2>1. \A i, j \in I : <<i, j>> \in R <=> v(i) > v(j) \/ (v(i) = v(j) /\ i <= j)
    OBVIOUS
  <2> HIDE DEF R
  <2>2. I \subseteq Nat /\ \A i \in I : v(i) \in Int
    <3>1. \A i \in I : i \in Nat
      BY <1>1
    <3> QED BY <1>1, <3>1
  <2> HIDE DEF v
  <2>3. ASSUME NEW i \in I, NEW j \in I PROVE <<i, j>> \in R \/ <<j, i>> \in R
    <3>1. /\ v(i) \in Int /\ v(j) \in Int /\ i \in Nat /\ j \in Nat
          /\ <<i, j>> \in R <=> v(i) > v(j) \/ (v(i) = v(j) /\ i <= j)
          /\ <<j, i>> \in R <=> v(j) > v(i) \/ (v(j) = v(i) /\ j <= i)
      BY <2>1, <2>2
    <3> QED BY <3>1
  <2>4. ASSUME NEW i \in I, NEW j \in I, <<i, j>> \in R, <<j, i>> \in R PROVE i = j
    <3>1. /\ v(i) \in Int /\ v(j) \in Int /\ i \in Nat /\ j \in Nat
          /\ v(i) > v(j) \/ (v(i) = v(j) /\ i <= j)
          /\ v(j) > v(i) \/ (v(j) = v(i) /\ j <= i)
      BY <2>1, <2>2, <2>4
    <3> QED BY <3>1
  <2>5. \A i, j, k \in I : <<i, j>> \in R /\ <<j, k>> \in R => <<i, k>> \in R
    BY <2>1, <2>2
  <2> QED BY <2>3, <2>4, <2>5 DEF IsOrder
<1>4. ASSUME NEW i \in K PROVE Place(R, I, i) <= MaxSegments
  <2>1. i \in I
    BY <1>2
  <2>2. larger(i) \subseteq I /\ i \notin larger(i)
    BY <1>1, <2>1 DEF I
  <2>3. {j \in I : <<j, i>> \in R} = larger(i) \cup {i}
    BY <1>1, <2>1 DEF I
  <2> HIDE DEF R
  <2>4. Cardinality(larger(i)) < MaxSegments
    BY <1>2
  <2> HIDE DEF larger
  <2>5. IsFiniteSet(larger(i))
    BY <1>1, <2>2, FS_Subset
  <2>6. Cardinality(larger(i) \cup {i}) = Cardinality(larger(i)) + 1 /\ Cardinality(larger(i)) \in Nat
    BY <2>2, <2>5, FS_AddElement, FS_CardinalityType
  <2>7. Place(R, I, i) = Cardinality(larger(i) \cup {i})
    BY <2>3 DEF Place
  <2> QED BY <2>4, <2>6, <2>7, AnalyticsAssumption
<1> HIDE DEF R
<1>5. Cardinality(K) <= MaxSegments
  BY <1>1, <1>2, <1>3, <1>4, FirstPlaces, AnalyticsAssumption
<1> QED BY <1>5 DEF K

LEMMA SharesSumUp == GivenType => PartsAddUp
<1> SUFFICES ASSUME GivenType PROVE PartsAddUp
  OBVIOUS
<1> DEFINE is == _segments_for_period(CHOOSE p \in SegmentPeriods : TRUE)
           s == shares(is)
<1>1. is \subseteq DOMAIN given
  BY SegmentsAreGiven
<1> HIDE DEF is
<1>2. s.total = SumOf(Measured(is))
  BY DEF shares
<1>3. s.kept # {} => s.other = SumOf(Measured(is) \ s.kept)
  BY DEF shares
<1>4. s.kept \subseteq Measured(is) /\ Measured(is) \subseteq DOMAIN given
  BY <1>1, SegmentsAreGiven
<1>5. Cardinality(s.kept) <= MaxSegments
  BY <1>1, KeptAreFew
<1> HIDE DEF s
<1>6. SumOf(Measured(is)) = SumOf(Measured(is) \ s.kept) + SumOf(s.kept)
  BY <1>4, SumIsSplit
<1> QED BY <1>2, <1>3, <1>5, <1>6 DEF PartsAddUp, is, s

-----------------------------------------------------------------------------
(* Analytics: the two ways to say how a metric moved.                      *)

\* Of two periods each is the other one.
LEMMA TwoPeriods ==
  ASSUME GivenType, Cardinality(Periods) = 2, given # <<>>
  PROVE  /\ PeriodA \in Periods /\ PeriodB \in Periods /\ PeriodB # PeriodA
         /\ \A p \in Periods : p = PeriodA \/ p = PeriodB
<1>1. /\ DOMAIN given = 1..Len(given) /\ Len(given) \in Nat /\ Len(given) # 0
  <2>1. given \in Seq(Rows)
    BY DEF GivenType
  <2> QED BY <2>1, GivenIs
<1>2. 1 \in DOMAIN given /\ PeriodA \in Periods
  BY <1>1 DEF PeriodA, Periods
<1>3. IsFiniteSet(Periods)
  <2> DEFINE f == [i \in DOMAIN given |-> Period(i)]
  <2>1. f \in Surjection(DOMAIN given, Periods)
    BY DEF Surjection, Periods
  <2>2. IsFiniteSet(DOMAIN given)
    BY <1>1, FS_Interval
  <2> HIDE DEF f
  <2> QED BY <2>1, <2>2, FS_Surjection
<1>4. Cardinality(Periods \ {PeriodA}) = 1 /\ IsFiniteSet(Periods \ {PeriodA})
  BY <1>2, <1>3, FS_RemoveElement
<1>5. PICK q : Periods \ {PeriodA} = {q}
  BY <1>4, FS_Singleton
<1>6. q \in Periods /\ q # PeriodA /\ \A p \in Periods : p = PeriodA \/ p = q
  BY <1>5
<1>7. PeriodB = q
  BY <1>6 DEF PeriodB
<1> QED BY <1>2, <1>6, <1>7

\* The moves of labelled rows: a row of the first period with one of the other.
MoveBetween(a, b) ==
  /\ a \in InPeriod(PeriodA) /\ b \in InPeriod(PeriodB)
  /\ ~given[a].null /\ ~given[b].null /\ given[b].label = given[a].label
MoveOf(x, a, b) == x = <<given[a].label, given[a].value - given[b].value>>

LEMMA SeriesIs ==
  ASSUME GivenType, OneSeries
  PROVE  /\ Cardinality(Periods) = 2 /\ given # <<>> /\ Usable
         /\ \A i \in DOMAIN given : given[i].label # ""
         /\ \A i, j \in DOMAIN given : given[i].metric = given[j].metric
         /\ \A i, j \in DOMAIN given : given[i].label = given[j].label /\ Period(i) = Period(j) => i = j
<1>1. \A i, j \in DOMAIN given :
        /\ given[i].label # "" /\ given[i].metric = given[j].metric
        /\ i # j => given[i].label # given[j].label \/ Period(i) # Period(j)
  BY DEF OneSeries
<1> QED BY <1>1 DEF OneSeries, Usable

\* The only row of its kind is the last of its kind.
LEMMA LastOfOne ==
  ASSUME GivenType, NEW i \in DOMAIN given
  PROVE  LastOf({i}) = i
<1>1. LastOf({i}) \in {i}
  BY LastIs
<1> QED BY <1>1

LEMMA ComparedMoves ==
  ASSUME GivenType, OneSeries
  PROVE  \A x : x \in {<<f.label, f.value>> : f \in compare_periods}
                  <=> \E a, b : MoveBetween(a, b) /\ MoveOf(x, a, b)
<1> DEFINE of(p, k) == {i \in InPeriod(p) : pair_key(i) = k}
           A(k) == LastOf(of(PeriodA, k))
           B(k) == LastOf(of(PeriodB, k))
           Key(k) == /\ of(PeriodA, k) # {} /\ of(PeriodB, k) # {}
                     /\ ~given[A(k)].null /\ ~given[B(k)].null
           F(k) == Finding("comparison", k[1], k[2], {A(k), B(k)}, given[A(k)].value - given[B(k)].value)
<1>1. compare_periods = {F(k) : k \in {x \in {pair_key(i) : i \in DOMAIN given} : Key(x)}}
  BY SeriesIs DEF compare_periods, period_deltas
<1>2. \A p, k : of(p, k) \subseteq DOMAIN given
  BY DEF InPeriod
<1>3. \A k : Key(k) => A(k) \in of(PeriodA, k) /\ B(k) \in of(PeriodB, k)
  <2> HIDE DEF of
  <2> QED BY <1>2, LastIs
<1>4. \A k : F(k).label = k[2] /\ F(k).value = given[A(k)].value - given[B(k)].value
  BY DEF Finding
<1> HIDE DEF F
<1>5. ASSUME NEW x, x \in {<<f.label, f.value>> : f \in compare_periods}
      PROVE  \E a, b : MoveBetween(a, b) /\ MoveOf(x, a, b)
  <2>1. PICK k : Key(k) /\ x = <<F(k).label, F(k).value>>
    BY <1>1, <1>5
  <2>2. A(k) \in of(PeriodA, k) /\ B(k) \in of(PeriodB, k)
    BY <1>3, <2>1
  <2>3. x = <<k[2], given[A(k)].value - given[B(k)].value>>
    BY <1>4, <2>1
  <2>4. /\ A(k) \in InPeriod(PeriodA) /\ B(k) \in InPeriod(PeriodB)
        /\ pair_key(A(k)) = k /\ pair_key(B(k)) = k
    BY <2>2
  <2>5. ~given[A(k)].null /\ ~given[B(k)].null
    BY <2>1
  <2> HIDE DEF A, B
  <2>6. given[A(k)].label = k[2] /\ given[B(k)].label = k[2]
    BY <2>4 DEF pair_key
  <2> QED BY <2>3, <2>4, <2>5, <2>6 DEF MoveBetween, MoveOf
<1>6. ASSUME NEW x, NEW a, NEW b, MoveBetween(a, b), MoveOf(x, a, b)
      PROVE  x \in {<<f.label, f.value>> : f \in compare_periods}
  <2> DEFINE k == pair_key(a)
  <2>1. /\ a \in DOMAIN given /\ b \in DOMAIN given /\ Period(a) = PeriodA /\ Period(b) = PeriodB
        /\ given[b].label = given[a].label
    BY <1>6 DEF MoveBetween, InPeriod
  <2>2. pair_key(b) = k /\ k[2] = given[a].label
    BY <2>1, SeriesIs DEF pair_key
  <2>3. of(PeriodA, k) = {a} /\ of(PeriodB, k) = {b}
    <3>1. \A i : i \in of(PeriodA, k) => i \in DOMAIN given /\ Period(i) = Period(a)
                                         /\ given[i].label = given[a].label
      BY <2>1 DEF InPeriod, pair_key
    <3>2. \A i : i \in of(PeriodB, k) => i \in DOMAIN given /\ Period(i) = Period(b)
                                         /\ given[i].label = given[b].label
      BY <2>1, <2>2 DEF InPeriod, pair_key
    <3>3. a \in of(PeriodA, k) /\ b \in of(PeriodB, k)
      BY <1>6, <2>2 DEF MoveBetween
    <3> HIDE DEF of, k
    <3> QED BY <2>1, <3>1, <3>2, <3>3, SeriesIs
  <2>4. A(k) = a /\ B(k) = b
    BY <2>1, <2>3, LastOfOne
  <2>5. Key(k)
    BY <1>6, <2>3, <2>4 DEF MoveBetween
  <2>6. k \in {pair_key(i) : i \in DOMAIN given}
    BY <2>1
  <2> HIDE DEF k, Key
  <2>7. F(k) \in compare_periods
    BY <1>1, <2>5, <2>6
  <2>8. x = <<F(k).label, F(k).value>>
    BY <1>4, <1>6, <2>2, <2>4 DEF MoveOf
  <2> QED BY <2>7, <2>8
<1> QED BY <1>5, <1>6

LEMMA ContributedMoves ==
  ASSUME GivenType, OneSeries
  PROVE  \A x : x \in {<<f.label, f.value>> : f \in contribution_analysis}
                  <=> \E a, b : MoveBetween(a, b) /\ MoveOf(x, a, b)
<1> DEFINE one == CHOOSE i \in DOMAIN given :
                    given[i].label # "" /\ \A j \in 1..(i - 1) : given[j].label = ""
           first == Period(one)
           second == CHOOSE p \in SegmentPeriods : p # first
<1>1. /\ DOMAIN given = 1..Len(given) /\ Len(given) \in Nat /\ 1 \in DOMAIN given
  <2>1. given \in Seq(Rows)
    BY DEF GivenType
  <2>2. given # <<>>
    BY SeriesIs
  <2>3. DOMAIN given = 1..Len(given) /\ Len(given) \in Nat /\ Len(given) # 0
    BY <2>1, <2>2, GivenIs
  <2> QED BY <2>3
<1>2. one = 1
  <2>1. given[1].label # "" /\ \A j \in 1..(1 - 1) : given[j].label = ""
    <3>1. \A j \in 1..(1 - 1) : FALSE
      OBVIOUS
    <3>2. given[1].label # ""
      BY <1>1, SeriesIs
    <3> QED BY <3>1, <3>2
  <2>2. ASSUME NEW i \in DOMAIN given, \A j \in 1..(i - 1) : given[j].label = "" PROVE i = 1
    <3>1. CASE i # 1
      <4>1. 1 \in 1..(i - 1)
        BY <1>1, <3>1
      <4> QED BY <1>1, <2>2, <4>1, SeriesIs
    <3> QED BY <3>1
  <2> QED BY <1>1, <2>1, <2>2
<1>3. \A p : _segments_for_period(p) = InPeriod(p)
  BY SeriesIs DEF _segments_for_period, InPeriod
<1>4. SegmentPeriods = Periods
  <2>1. \A p \in Periods : InPeriod(p) # {}
    BY DEF Periods, InPeriod
  <2> QED BY <1>3, <2>1 DEF SegmentPeriods
<1> HIDE DEF one
<1>5. first = PeriodA /\ second = PeriodB
  BY <1>2, <1>4 DEF PeriodA, PeriodB
<1>6. contribution_analysis = contributions(first, second)
  <2>1. Usable /\ Cardinality(SegmentPeriods) = 2 /\ SegmentPeriods # {}
    BY <1>4, SeriesIs, TwoPeriods
  <2> DEFINE rest == {Finding("share", given[1].metric, given[i].label, {i}, given[i].value) :
                        i \in shares(_segments_for_period(first)).kept}
  <2>2. contribution_analysis
          = IF ~Usable \/ SegmentPeriods = {} \/ Cardinality(SegmentPeriods) > 2 THEN {}
            ELSE IF Cardinality(SegmentPeriods) = 2 THEN contributions(first, second) ELSE rest
    BY DEF contribution_analysis, one
  <2> HIDE DEF first, second, rest
  <2> QED BY <2>1, <2>2
<1> HIDE DEF first, second
<1>7. contribution_analysis = contributions(PeriodA, PeriodB)
  BY <1>5, <1>6
<1>8. ASSUME NEW x, x \in {<<f.label, f.value>> : f \in contribution_analysis}
      PROVE  \E a, b : MoveBetween(a, b) /\ MoveOf(x, a, b)
  <2>1. PICK f \in contributions(PeriodA, PeriodB) : x = <<f.label, f.value>>
    BY <1>7, <1>8
  <2>2. PICK a \in Measured(_segments_for_period(PeriodA)) :
          \E b \in Measured(_segments_for_period(PeriodB)) : IsContribution(f, a, b)
    BY ContributionsAre
  <2>3. PICK b \in Measured(_segments_for_period(PeriodB)) : IsContribution(f, a, b)
    BY <2>2
  <2>4. f.label = given[a].label /\ f.value = given[a].value - given[b].value
    BY <2>3 DEF IsContribution, Finding
  <2>5. MoveBetween(a, b)
    BY <1>3, <2>3 DEF MoveBetween, Measured, IsContribution
  <2> QED BY <2>1, <2>4, <2>5 DEF MoveOf
<1>9. ASSUME NEW x, NEW a, NEW b, MoveBetween(a, b), MoveOf(x, a, b)
      PROVE  x \in {<<f.label, f.value>> : f \in contribution_analysis}
  <2> DEFINE M(i) == {j \in Measured(_segments_for_period(PeriodB)) : given[j].label = given[i].label}
             F(i) == Finding("contribution", given[1].metric, given[i].label, {i, LastOf(M(i))},
                             given[i].value - given[LastOf(M(i))].value)
  <2>1. contributions(PeriodA, PeriodB)
          = {F(i) : i \in {y \in Measured(_segments_for_period(PeriodA)) : M(y) # {}}}
    BY DEF contributions
  <2>2. /\ a \in DOMAIN given /\ b \in DOMAIN given /\ Period(b) = PeriodB
        /\ given[b].label = given[a].label /\ ~given[a].null /\ ~given[b].null
    BY <1>9 DEF MoveBetween, InPeriod
  <2>3. M(a) = {b}
    <3>1. b \in M(a)
      BY <1>3, <1>9, <2>2 DEF MoveBetween, Measured
    <3>2. \A j \in M(a) : j \in DOMAIN given /\ Period(j) = Period(b)
                          /\ given[j].label = given[b].label
      BY <1>3, <2>2 DEF Measured, InPeriod
    <3> HIDE DEF M
    <3> QED BY <2>2, <3>1, <3>2, SeriesIs
  <2>4. LastOf(M(a)) = b
    BY <2>2, <2>3, LastOfOne
  <2>5. a \in Measured(_segments_for_period(PeriodA))
    BY <1>3, <1>9 DEF MoveBetween, Measured
  <2>6. F(a).label = given[a].label /\ F(a).value = given[a].value - given[b].value
    BY <2>4 DEF Finding
  <2> HIDE DEF F
  <2>7. F(a) \in contribution_analysis
    BY <1>7, <2>1, <2>3, <2>5
  <2>8. x = <<F(a).label, F(a).value>>
    BY <1>9, <2>6 DEF MoveOf
  <2> QED BY <2>7, <2>8
<1> QED BY <1>8, <1>9

\* The same of the rows alone.
Moved(g, x) ==
  \E a, b \in DOMAIN g :
    /\ g[a].start = g[1].start /\ g[a].span = g[1].span
    /\ ~(g[b].start = g[1].start /\ g[b].span = g[1].span)
    /\ ~g[a].null /\ ~g[b].null /\ g[b].label = g[a].label
    /\ x = <<g[a].label, g[a].value - g[b].value>>
LEMMA MovesAre ==
  ASSUME GivenType, OneSeries, NEW x
  PROVE  (\E a, b : MoveBetween(a, b) /\ MoveOf(x, a, b)) <=> Moved(given, x)
<1>1. ASSUME NEW i \in DOMAIN given
      PROVE  /\ i \in InPeriod(PeriodA) <=> given[i].start = given[1].start /\ given[i].span = given[1].span
             /\ i \in InPeriod(PeriodB) <=> i \notin InPeriod(PeriodA)
  <2>1. Period(i) = PeriodA <=> given[i].start = given[1].start /\ given[i].span = given[1].span
    BY DEF Period, PeriodA
  <2>2. Period(i) = PeriodB <=> Period(i) # PeriodA
    BY TwoPeriods, SeriesIs DEF Periods
  <2> QED BY <2>1, <2>2 DEF InPeriod
<1>2. \A a, b : MoveBetween(a, b) => a \in DOMAIN given /\ b \in DOMAIN given
  BY DEF MoveBetween, InPeriod
<1>3. ASSUME NEW a \in DOMAIN given, NEW b \in DOMAIN given
      PROVE  MoveBetween(a, b) <=>
               /\ given[a].start = given[1].start /\ given[a].span = given[1].span
               /\ ~(given[b].start = given[1].start /\ given[b].span = given[1].span)
               /\ ~given[a].null /\ ~given[b].null /\ given[b].label = given[a].label
  BY <1>1 DEF MoveBetween
<1>4. ASSUME Moved(given, x) PROVE \E a, b : MoveBetween(a, b) /\ MoveOf(x, a, b)
  <2>1. PICK a \in DOMAIN given, b \in DOMAIN given :
          /\ given[a].start = given[1].start /\ given[a].span = given[1].span
          /\ ~(given[b].start = given[1].start /\ given[b].span = given[1].span)
          /\ ~given[a].null /\ ~given[b].null /\ given[b].label = given[a].label
          /\ x = <<given[a].label, given[a].value - given[b].value>>
    BY <1>4 DEF Moved
  <2> QED BY <1>3, <2>1 DEF MoveOf
<1>5. ASSUME NEW a, NEW b, MoveBetween(a, b), MoveOf(x, a, b) PROVE Moved(given, x)
  BY <1>2, <1>3, <1>5 DEF Moved, MoveOf
<1> QED BY <1>4, <1>5

-----------------------------------------------------------------------------
(* Analytics: the calculation.                                             *)

MovesAgree(found) ==
  OneSeries => \A x : x \in {<<f.label, f.value>> : f \in found} <=> Moved(given, x)
AnalyticsIInv ==
  /\ GivenType
  /\ \A f \in reported : Sound(f)
  /\ computed = "contribution_analysis" => MovesAgree(reported)

LEMMA FindingsAreSound ==
  ASSUME AnalyticsIInv, NEW name, NEW found, Calculate(name, found),
         \A f \in found : Sound(f),
         name = "contribution_analysis" => MovesAgree(found)
  PROVE  AnalyticsIInv'
<1>1. given' = given /\ reported' = found /\ computed' = name
  BY DEF Calculate
<1>2. GivenType'
  BY <1>1 DEF AnalyticsIInv, GivenType
<1>3. ASSUME NEW f \in found PROVE Sound(f)'
  <2>1. Sound(f)
    OBVIOUS
  <2> QED BY <1>1, <2>1 DEF Sound, pair_key
<1>4. (\A f \in reported : Sound(f))'
  BY <1>1, <1>3
<1>5. OneSeries' => OneSeries
  <2>1. Periods' = Periods /\ \A i : Period(i)' = Period(i)
    BY <1>1 DEF Periods, Period
  <2>2. Usable' => Usable
    BY <1>1 DEF Usable, validate_grain_set, _ALLOWED_SPAN_DAYS
  <2> QED BY <1>1, <2>1, <2>2 DEF OneSeries
<1>6. (computed = "contribution_analysis" => MovesAgree(reported))'
  BY <1>1, <1>5 DEF MovesAgree
<1> QED BY <1>2, <1>4, <1>6 DEF AnalyticsIInv

LEMMA AnalyticsIsKept ==
  /\ AnalyticsInit => AnalyticsIInv
  /\ AnalyticsIInv /\ [AnalyticsNext]_analyticsVars => AnalyticsIInv'
<1>1. ASSUME AnalyticsInit PROVE AnalyticsIInv
  <2>1. GivenType
    BY <1>1, AnalyticsAssumption DEF AnalyticsInit, GivenType
  <2> QED BY <1>1, <2>1 DEF AnalyticsInit, AnalyticsIInv
<1>2. ASSUME AnalyticsIInv, [AnalyticsNext]_analyticsVars PROVE AnalyticsIInv'
  <2>1. GivenType
    BY <1>2 DEF AnalyticsIInv
  <2>2. CASE Calculate("compare_periods", compare_periods)
    BY <1>2, <2>1, <2>2, ComparisonsAreSound, FindingsAreSound
  <2>3. CASE Calculate("detect_anomalies", detect_anomalies)
    BY <1>2, <2>1, <2>3, AnomaliesAreSound, FindingsAreSound
  <2>4. CASE Calculate("contribution_analysis", contribution_analysis)
    <3>1. MovesAgree(contribution_analysis)
      BY <2>1, ContributedMoves, MovesAre DEF MovesAgree
    <3> QED BY <1>2, <2>1, <2>4, <3>1, ContributionsAreSound, FindingsAreSound
  <2>5. CASE Calculate("segment_decomposition", segment_decomposition)
    BY <1>2, <2>1, <2>5, DecompositionsAreSound, FindingsAreSound
  <2>6. CASE Calculate("funnel_decomposition", funnel_decomposition)
    BY <1>2, <2>1, <2>6, FunnelsAreSound, FindingsAreSound
  <2>7. CASE Calculate("cohort_analysis", cohort_analysis)
    BY <1>2, <2>1, <2>7, CohortsAreSound, FindingsAreSound
  <2>8. CASE UNCHANGED analyticsVars
    <3>1. given' = given /\ reported' = reported /\ computed' = computed
      BY <2>8 DEF analyticsVars
    <3>2. OneSeries' => OneSeries
      <4>1. Periods' = Periods /\ \A i : Period(i)' = Period(i)
        BY <3>1 DEF Periods, Period
      <4>2. Usable' => Usable
        BY <3>1 DEF Usable, validate_grain_set, _ALLOWED_SPAN_DAYS
      <4> QED BY <3>1, <4>1, <4>2 DEF OneSeries
    <3>3. (\A f \in reported : Sound(f))'
      BY <1>2, <3>1 DEF AnalyticsIInv, Sound, pair_key
    <3> QED BY <1>2, <3>1, <3>2, <3>3 DEF AnalyticsIInv, GivenType, MovesAgree
  <2> QED BY <1>2, <2>2, <2>3, <2>4, <2>5, <2>6, <2>7, <2>8 DEF AnalyticsNext
<1> QED BY <1>1, <1>2

LEMMA AnalyticsIsSound == AnalyticsIInv => AnalyticsInv
<1> SUFFICES ASSUME AnalyticsIInv PROVE AnalyticsInv
  OBVIOUS
<1>1. GivenType /\ \A f \in reported : Sound(f)
  BY DEF AnalyticsIInv
<1>2. LikeForLike /\ NeverPooled /\ NullIsNotZero /\ FunnelGoesDown
  BY <1>1 DEF Sound, LikeForLike, NeverPooled, NullIsNotZero, FunnelGoesDown
<1>3. SameDirection
  <2> SUFFICES ASSUME computed = "contribution_analysis", OneSeries
               PROVE  {<<f.label, f.value>> : f \in reported} = {<<f.label, f.value>> : f \in compare_periods}
    BY DEF SameDirection
  <2>1. \A x : x \in {<<f.label, f.value>> : f \in reported} <=> Moved(given, x)
    BY DEF AnalyticsIInv, MovesAgree
  <2>2. \A x : x \in {<<f.label, f.value>> : f \in compare_periods} <=> Moved(given, x)
    BY <1>1, ComparedMoves, MovesAre
  <2> QED BY <2>1, <2>2
<1> QED BY <1>1, <1>2, <1>3, SharesSumUp DEF AnalyticsInv

\* Whatever rows the model chooses, in whatever order: a finding never sets spans
\* of different lengths against each other, never pools series, never counts a
\* missing value as zero, walks the funnel downwards, and two tools that look at
\* the same move agree on it (toolsets/analytics.py).
THEOREM AnalysesAreSound == AnalyticsInit /\ [][AnalyticsNext]_analyticsVars => []AnalyticsInv
BY AnalyticsIsKept, AnalyticsIsSound, PTL

-----------------------------------------------------------------------------
(* Derivations.                                                            *)

\* The rows a mission has fetched: a list of dated readings.
Observations == [metric : STRING, label : STRING, day : Int, value : Int, null : BOOLEAN]
HistoryType == history \in Seq(Observations)

\* The constants: what the assumption says, one by one.
LEMMA DerivationConstants ==
  /\ HistoryBase \in Nat /\ CandidateCap \in Nat /\ CandidateCap # 0
  /\ MinObservations \in Nat /\ MaxEstimates \in Nat /\ MaxForecasts \in Nat
  /\ AsOf \in Int
BY DerivationsAssumption

\* The rows of a window are rows, and finitely many.
LEMMA RowsAre ==
  ASSUME HistoryType
  PROVE  /\ Len(history) \in Nat /\ DOMAIN history = 1..Len(history)
         /\ \A i \in DOMAIN history : history[i] \in Observations
         /\ IsFiniteSet(DOMAIN history)
<1>1. /\ Len(history) \in Nat /\ DOMAIN history = 1..Len(history)
      /\ \A i \in DOMAIN history : history[i] \in Observations
  BY DEF HistoryType
<1>2. IsFiniteSet(1..Len(history))
  BY <1>1, FS_Interval
<1> QED BY <1>1, <1>2

\* Where a metric of some rows first appears: at one of its rows.
LEMMA FirstIs ==
  ASSUME HistoryType, NEW is, is \subseteq DOMAIN history, NEW m \in MetricsOf(is)
  PROVE  FirstSeen(is, m) \in is /\ history[FirstSeen(is, m)].metric = m
<1> DEFINE T == OfMetric(is, m)
<1>1. T \subseteq Nat /\ T # {}
  BY RowsAre DEF OfMetric, MetricsOf
<1>2. Min(T) \in T
  <2> HIDE DEF T
  <2> QED BY <1>1, LeastIsChosen DEF Min
<1>3. FirstSeen(is, m) \in T
  BY <1>2 DEF FirstSeen
<1> QED BY <1>3 DEF OfMetric

\* Metrics in the order of their first rows.
Earlier(is, others) == {p \in others \X others : FirstSeen(is, p[1]) <= FirstSeen(is, p[2])}
LEMMA EarlierIsOrder ==
  ASSUME HistoryType, NEW is, is \subseteq DOMAIN history, NEW others, others \subseteq MetricsOf(is)
  PROVE  /\ IsOrder(Earlier(is, others), others) /\ IsFiniteSet(others)
         /\ \A m \in others : Place(Earlier(is, others), others, m)
                                = Cardinality({n \in others : FirstSeen(is, n) <= FirstSeen(is, m)})
<1> DEFINE R == Earlier(is, others)
<1>1. \A m \in others : FirstSeen(is, m) \in Nat /\ history[FirstSeen(is, m)].metric = m
  <2>1. is \subseteq Nat
    BY RowsAre
  <2> QED BY <2>1, FirstIs
<1>2. \A m, n \in others : <<m, n>> \in R <=> FirstSeen(is, m) <= FirstSeen(is, n)
  BY DEF Earlier
<1> HIDE DEF R
<1>3. IsOrder(R, others)
  <2>1. ASSUME NEW m \in others, NEW n \in others PROVE <<m, n>> \in R \/ <<n, m>> \in R
    <3>1. FirstSeen(is, m) <= FirstSeen(is, n) \/ FirstSeen(is, n) <= FirstSeen(is, m)
      BY <1>1
    <3> QED BY <1>2, <3>1
  <2>2. ASSUME NEW m \in others, NEW n \in others, <<m, n>> \in R, <<n, m>> \in R
        PROVE  m = n
    <3>1. FirstSeen(is, m) = FirstSeen(is, n)
      BY <1>1, <1>2, <2>2
    <3> QED BY <1>1, <3>1
  <2>3. \A m, n, k \in others : <<m, n>> \in R /\ <<n, k>> \in R => <<m, k>> \in R
    BY <1>1, <1>2
  <2> QED BY <2>1, <2>2, <2>3 DEF IsOrder
<1>4. IsFiniteSet(others)
  <2>1. IsFiniteSet(is)
    BY RowsAre, FS_Subset
  <2> DEFINE f == [i \in is |-> history[i].metric]
  <2>2. f \in Surjection(is, MetricsOf(is))
    BY DEF MetricsOf, Surjection
  <2>3. IsFiniteSet(MetricsOf(is))
    BY <2>1, <2>2, FS_Surjection
  <2> QED BY <2>3, FS_Subset
<1>5. ASSUME NEW m \in others
      PROVE  Place(R, others, m) = Cardinality({n \in others : FirstSeen(is, n) <= FirstSeen(is, m)})
  <2>1. {n \in others : <<n, m>> \in R} = {n \in others : FirstSeen(is, n) <= FirstSeen(is, m)}
    BY <1>2
  <2> QED BY <2>1 DEF Place
<1> QED BY <1>3, <1>4, <1>5 DEF R

\* What an estimate of one breadth looks at: nothing, when a series is missing, or
\* the window's rows, the first of its other metrics and the days all have.
Causes(is, cap) ==
  LET others == MetricsOf(is) \ {Treatment, Outcome} IN
  {m \in others : Cardinality({n \in others : FirstSeen(is, n) <= FirstSeen(is, m)}) <= cap - 1}
LEMMA FrameIs ==
  ASSUME NEW b
  PROVE  LET f == build_observation_frame(b)
             is == InWindow(widening_for(b))
             cap == widening_for(b).cap IN
         \/ f.days = {}
         \/ /\ \A m \in {Treatment, Outcome} : OfMetric(is, m) # {}
            /\ f.causes = Causes(is, cap)
            /\ f.days = CompleteDays(is, {Treatment, Outcome} \cup f.causes)
            /\ f.warned = Truncated(MetricsOf(is), cap)
<1> DEFINE is == InWindow(widening_for(b))
           cap == widening_for(b).cap
           causes == Causes(is, cap)
<1>1. build_observation_frame(b) =
        IF \E m \in {Treatment, Outcome} : OfMetric(is, m) = {}
        THEN [causes |-> {}, days |-> {}, warned |-> FALSE]
        ELSE [causes |-> causes, days |-> CompleteDays(is, {Treatment, Outcome} \cup causes),
              warned |-> Truncated(MetricsOf(is), cap)]
  BY DEF build_observation_frame, Causes
<1> HIDE DEF is, cap, causes
<1> DEFINE absent == \E m \in {Treatment, Outcome} : OfMetric(is, m) = {}
<1>2. CASE \E m \in {Treatment, Outcome} : OfMetric(is, m) = {}
  <2>1. build_observation_frame(b) = [causes |-> {}, days |-> {}, warned |-> FALSE]
    <3>1. absent
      BY <1>2
    <3> HIDE DEF absent
    <3> QED BY <1>1, <3>1 DEF absent
  <2> QED BY <2>1
<1>3. CASE ~\E m \in {Treatment, Outcome} : OfMetric(is, m) = {}
  <2>1. /\ build_observation_frame(b).causes = causes
        /\ build_observation_frame(b).days = CompleteDays(is, {Treatment, Outcome} \cup causes)
        /\ build_observation_frame(b).warned = Truncated(MetricsOf(is), cap)
    BY <1>1, <1>3
  <2> QED BY <1>3, <2>1 DEF is, cap, causes
<1> QED BY <1>2, <1>3

\* Every day of a frame is of its window, and has a row of each column.
LEMMA FrameIsObserved ==
  ASSUME HistoryType, NEW b \in Breadths,
         NEW d \in build_observation_frame(b).days,
         NEW m \in {Treatment, Outcome} \cup build_observation_frame(b).causes
  PROVE  /\ d + HistoryBase * (1 + b) >= AsOf
         /\ \E i \in Known(DOMAIN history) : history[i].day = d /\ history[i].metric = m
<1> DEFINE f == build_observation_frame(b)
           wide == widening_for(b)
           is == InWindow(wide)
<1>1. f.days = CompleteDays(is, {Treatment, Outcome} \cup f.causes)
  BY FrameIs
<1>2. PICK i \in is : history[i].day = d /\ history[i].metric = m
  <2>1. d \in DaysOf(OfMetric(is, m))
    BY <1>1 DEF CompleteDays
  <2> QED BY <2>1 DEF DaysOf, OfMetric
<1>3. i \in Known(DOMAIN history) /\ d \in (AsOf - wide.days)..AsOf
  BY <1>2 DEF InWindow
<1>4. wide.days = HistoryBase * (1 + b) /\ HistoryBase * (1 + b) \in Int
  BY DerivationConstants DEF widening_for, Breadths
<1>5. d + HistoryBase * (1 + b) >= AsOf
  <2> DEFINE w == HistoryBase * (1 + b)
  <2>1. d \in (AsOf - w)..AsOf /\ w \in Int
    BY <1>3, <1>4
  <2> HIDE DEF w
  <2>2. d + w >= AsOf
    BY <2>1, DerivationConstants
  <2> QED BY <2>2 DEF w
<1> QED BY <1>2, <1>3, <1>5

\* The frame warns exactly when a metric of the window is in no column.
LEMMA FrameTells ==
  ASSUME HistoryType, NEW b \in Breadths, build_observation_frame(b).days # {}
  PROVE  build_observation_frame(b).warned <=>
           {history[i].metric : i \in InWindow(widening_for(b))}
             \ ({Treatment, Outcome} \cup build_observation_frame(b).causes) # {}
<1> DEFINE f == build_observation_frame(b)
           is == InWindow(widening_for(b))
           cap == widening_for(b).cap
           metrics == MetricsOf(is)
           others == metrics \ {Treatment, Outcome}
           place(m) == Cardinality({n \in others : FirstSeen(is, n) <= FirstSeen(is, m)})
<1>1. /\ \A m \in {Treatment, Outcome} : OfMetric(is, m) # {}
      /\ f.causes = Causes(is, cap) /\ f.warned = Truncated(metrics, cap)
  BY FrameIs
<1>2. is \subseteq DOMAIN history
  BY DEF InWindow, Known
<1>3. cap \in Nat
  BY DerivationConstants DEF widening_for, Breadths
<1>4. f.causes = {m \in others : place(m) <= cap - 1}
  BY <1>1 DEF Causes
<1> HIDE DEF f, is, cap
<1>5. Treatment \in metrics /\ Outcome \in metrics /\ Treatment # Outcome
  BY <1>1 DEF MetricsOf, OfMetric, Treatment, Outcome
<1> DEFINE R == Earlier(is, others)
<1>6. /\ IsOrder(R, others) /\ IsFiniteSet(others)
      /\ \A m \in others : Place(R, others, m) = place(m)
  BY <1>2, EarlierIsOrder
<1> HIDE DEF R
<1>7. /\ Cardinality(others) \in Nat
      /\ \A m \in others : place(m) \in 1..Cardinality(others)
  BY <1>6, PlacesAreDistinct
<1>8. Cardinality(metrics) = Cardinality(others) + 2
  <2>1. IsFiniteSet(others \cup {Treatment}) /\ Cardinality(others \cup {Treatment}) = Cardinality(others) + 1
    <3>1. Treatment \notin others
      OBVIOUS
    <3> HIDE DEF others
    <3> QED BY <1>6, <3>1, FS_AddElement
  <2>2. Cardinality((others \cup {Treatment}) \cup {Outcome}) = Cardinality(others \cup {Treatment}) + 1
    <3>1. Outcome \notin others \cup {Treatment}
      BY <1>5
    <3> HIDE DEF others
    <3> QED BY <2>1, <3>1, FS_AddElement
  <2>3. metrics = (others \cup {Treatment}) \cup {Outcome}
    BY <1>5
  <2> HIDE DEF others, metrics
  <2> QED BY <1>7, <2>1, <2>2, <2>3
<1>9. f.warned <=> Cardinality(others) > cap - 1
  <2> HIDE DEF others, metrics
  <2>1. f.warned <=> Cardinality(metrics) - 1 > cap
    BY <1>1 DEF Truncated, f
  <2> QED BY <1>3, <1>7, <1>8, <2>1
<1>10. ASSUME Cardinality(others) > cap - 1 PROVE \E m \in others : m \notin f.causes
  <2>1. others # {}
    <3> HIDE DEF others
    <3>1. CASE Cardinality(others) # 0
      BY <1>6, <3>1, FS_EmptySet
    <3>2. CASE Cardinality(others) = 0
      <4>1. cap # 0
        BY DerivationConstants DEF cap, widening_for, Breadths
      <4> QED BY <1>3, <1>10, <3>2, <4>1
    <3> QED BY <3>1, <3>2
  <2> HIDE DEF others
  <2>2. PICK m \in others : \A n \in others : <<n, m>> \in R
    BY <1>6, <2>1, OrdersHaveALast
  <2>3. {n \in others : <<n, m>> \in R} = others
    BY <2>2
  <2>4. Place(R, others, m) = Cardinality(others)
    BY <2>3 DEF Place
  <2>5. place(m) = Cardinality(others)
    BY <1>6, <2>4
  <2> HIDE DEF place
  <2>6. m \notin f.causes
    BY <1>3, <1>4, <1>7, <1>10, <2>5
  <2> QED BY <2>6
<1>11. ASSUME Cardinality(others) <= cap - 1 PROVE f.causes = others
  <2> HIDE DEF others, place
  <2> QED BY <1>3, <1>4, <1>7, <1>11
<1>12. f.warned <=> metrics \ ({Treatment, Outcome} \cup f.causes) # {}
  <2>1. CASE Cardinality(others) > cap - 1
    BY <1>9, <1>10, <2>1
  <2>2. CASE ~(Cardinality(others) > cap - 1)
    <3>1. Cardinality(others) <= cap - 1
      <4> HIDE DEF others
      <4> QED BY <1>3, <1>7, <2>2
    <3>2. f.causes = others
      BY <1>11, <3>1
    <3>3. metrics \ ({Treatment, Outcome} \cup f.causes) = {}
      BY <3>2
    <3> QED BY <1>9, <2>2, <3>3
  <2> QED BY <2>1, <2>2
<1> QED BY <1>12 DEF MetricsOf, f, is

\* A list, of whatever the tools store.
IsList(x) == \E S : x \in Seq(S)
Longer(x, y, z) ==
  /\ IsList(z) /\ DOMAIN x \subseteq DOMAIN z /\ \A k \in DOMAIN x : z[k] = x[k]
  /\ \A k \in DOMAIN z : k \notin DOMAIN x => \E l \in DOMAIN y : z[k] = y[l]
LEMMA ListsGrow ==
  ASSUME NEW x, IsList(x), NEW y, IsList(y), NEW z, z = x \o y
  PROVE  Longer(x, y, z)
<1>1. PICK S : x \in Seq(S)
  BY DEF IsList
<1>2. PICK T : y \in Seq(T)
  BY DEF IsList
<1>3. x \in Seq(S \cup T) /\ y \in Seq(S \cup T)
  BY <1>1, <1>2
<1>4. x \o y \in Seq(S \cup T)
  BY <1>3
<1>5. DOMAIN x \subseteq DOMAIN (x \o y) /\ \A k \in DOMAIN x : (x \o y)[k] = x[k]
  BY <1>3
<1>6. ASSUME NEW k \in DOMAIN (x \o y), k \notin DOMAIN x
      PROVE  \E l \in DOMAIN y : (x \o y)[k] = y[l]
  <2>1. k - Len(x) \in DOMAIN y /\ (x \o y)[k] = y[k - Len(x)]
    BY <1>3, <1>6
  <2> QED BY <2>1
<1> QED BY <1>4, <1>5, <1>6 DEF IsList, Longer

LEMMA ListsAppend ==
  ASSUME NEW x, IsList(x), NEW e
  PROVE  /\ IsList(Append(x, e)) /\ Len(x) + 1 \in Nat /\ Len(x) + 1 # 0
         /\ DOMAIN x = 1..Len(x) /\ DOMAIN Append(x, e) = DOMAIN x \cup {Len(x) + 1}
         /\ Len(x) + 1 \notin DOMAIN x /\ Append(x, e)[Len(x) + 1] = e
         /\ \A k \in DOMAIN x : Append(x, e)[k] = x[k]
<1>1. PICK S : x \in Seq(S)
  BY DEF IsList
<1>2. x \in Seq(S \cup {e})
  BY <1>1
<1>3. Append(x, e) \in Seq(S \cup {e})
  BY <1>2
<1> QED BY <1>2, <1>3 DEF IsList

\* What is true of the k-th of a mission's artifacts.
Estimated(ds, k) ==
  ds[k].type = "causal" =>
    /\ ds[k].breadth \in Breadths
    /\ ds[k].frame = build_observation_frame(ds[k].breadth)
    /\ ds[k].effect => Cardinality(ds[k].frame.days) >= MinObservations
    /\ ds[k].refutes # 0 =>
         /\ ds[k].refutes \in DOMAIN ds /\ ds[ds[k].refutes].type = "causal"
         /\ ds[ds[k].refutes].breadth = ds[k].breadth
Lifted(ds, k) ==
  ds[k].type = "lift" =>
    LET c == ds[k].cites[1]
        v == ds[k].cites[2] IN
    /\ ~history[c].null /\ ~history[v].null
    /\ \E i \in Controls : Variants[i].label = history[c].label
    /\ \E i \in treatments : Variants[i].label = history[v].label

\* Original estimates, and forecasts: what the budgets are for.
Originals(ds) == {k \in DOMAIN ds : ds[k].type = "causal" /\ ds[k].refutes = 0}
Forecasts(ds) == {k \in DOMAIN ds : ds[k].type = "prediction"}

\* The budgets count every call that was let through, served or not.
Budgeted ==
  /\ used \in [estimates : 0..MaxEstimates, forecasts : 0..MaxForecasts]
  /\ IsFiniteSet(Originals(derived)) /\ Cardinality(Originals(derived)) <= used.estimates
  /\ IsFiniteSet(Forecasts(derived)) /\ Cardinality(Forecasts(derived)) <= used.forecasts

\* While budget is left, the answer depends on the rows alone.
Answered ==
  \A n \in DOMAIN replies :
    replies[n].tool = "estimate" /\ ~replies[n].spent =>
      replies[n].refused = ~_precondition_history(0)

\* The inductive invariant: every artifact is what its tool made of the rows.
DerivationsIInv ==
  /\ HistoryType /\ IsList(derived) /\ IsList(replies)
  /\ \A k \in DOMAIN derived : Estimated(derived, k) /\ Lifted(derived, k)
  /\ Budgeted
  /\ Answered

LEMMA DerivationsBegin == DerivationsInit => DerivationsIInv
<1> SUFFICES ASSUME DerivationsInit PROVE DerivationsIInv
  OBVIOUS
<1>1. HistoryType
  BY DerivationsAssumption DEF DerivationsInit, HistoryType, Observations
<1>2. derived = <<>> /\ replies = <<>> /\ used = [estimates |-> 0, forecasts |-> 0]
  BY DEF DerivationsInit
<1>3. IsList(derived) /\ IsList(replies)
  <2>1. <<>> \in Seq({})
    OBVIOUS
  <2> QED BY <1>2, <2>1 DEF IsList
<1>4. DOMAIN derived = {} /\ DOMAIN replies = {}
  BY <1>2
<1>5. Budgeted
  <2>1. Originals(derived) = {} /\ Forecasts(derived) = {}
    BY <1>4 DEF Originals, Forecasts
  <2>2. IsFiniteSet({}) /\ Cardinality({}) = 0
    BY FS_EmptySet
  <2>3. used \in [estimates : 0..MaxEstimates, forecasts : 0..MaxForecasts]
    BY <1>2, DerivationConstants
  <2>4. used.estimates = 0 /\ used.forecasts = 0
    BY <1>2
  <2> HIDE DEF Originals, Forecasts
  <2> QED BY <2>1, <2>2, <2>3, <2>4 DEF Budgeted
<1> QED BY <1>1, <1>3, <1>4, <1>5 DEF DerivationsIInv, Answered

\* The rows stay, and with them what they say.
LEMMA RowsStay ==
  ASSUME history' = history
  PROVE  /\ \A b : build_observation_frame(b)' = build_observation_frame(b)
         /\ _precondition_history(0)' = _precondition_history(0)
         /\ \A ds, k : Lifted(ds, k)' <=> Lifted(ds, k)
<1>1. \A b : build_observation_frame(b)' = build_observation_frame(b)
  BY DEF build_observation_frame, InWindow, Known, widening_for, MetricsOf, OfMetric,
         FirstSeen, CompleteDays, DaysOf, Truncated
<1>2. _precondition_history(0)' = _precondition_history(0)
  BY DEF _precondition_history, OfMetric, DaysOf
<1>3. \A ds, k : Lifted(ds, k)' <=> Lifted(ds, k)
  BY DEF Lifted, Controls, treatments
<1> QED BY <1>1, <1>2, <1>3

\* One artifact more, true of the rows, leaves the earlier ones true.
LEMMA OneMoreIsTrue ==
  ASSUME DerivationsIInv, history' = history, NEW e, derived' = Append(derived, e),
         Estimated(derived', Len(derived) + 1), Lifted(derived', Len(derived) + 1)
  PROVE  /\ HistoryType' /\ IsList(derived')
         /\ (\A k \in DOMAIN derived : Estimated(derived, k) /\ Lifted(derived, k))'
<1>1. IsList(derived)
  BY DEF DerivationsIInv
<1>2. /\ IsList(derived') /\ DOMAIN derived' = DOMAIN derived \cup {Len(derived) + 1}
      /\ \A k \in DOMAIN derived : derived'[k] = derived[k]
  BY <1>1, ListsAppend
<1>3. ASSUME NEW k \in DOMAIN derived
      PROVE  Estimated(derived', k) /\ Lifted(derived', k)
  <2>1. Estimated(derived, k) /\ Lifted(derived, k)
    BY DEF DerivationsIInv
  <2>2. derived'[k] = derived[k]
    BY <1>2
  <2>3. Estimated(derived', k)
    BY <1>2, <2>1, <2>2 DEF Estimated
  <2>4. Lifted(derived', k)
    BY <2>1, <2>2 DEF Lifted
  <2> QED BY <2>3, <2>4
<1>4. \A k \in DOMAIN derived' : Estimated(derived', k) /\ Lifted(derived', k)
  BY <1>2, <1>3
<1>5. \A k : /\ Estimated(derived, k)' <=> Estimated(derived', k)
             /\ Lifted(derived, k)' <=> Lifted(derived', k)
  BY RowsStay DEF Estimated, Lifted
<1>6. HistoryType'
  BY DEF DerivationsIInv, HistoryType
<1> QED BY <1>2, <1>4, <1>5, <1>6

\* It is counted against the budget it is for, at most once.
LEMMA OneMoreIsCounted ==
  ASSUME NEW ds, IsList(ds), NEW e, NEW o, NEW f, o \in Int, f \in Int,
         IsFiniteSet(Originals(ds)), Cardinality(Originals(ds)) <= o,
         IsFiniteSet(Forecasts(ds)), Cardinality(Forecasts(ds)) <= f
  PROVE  LET es == Append(ds, e) IN
         /\ IsFiniteSet(Originals(es)) /\ IsFiniteSet(Forecasts(es))
         /\ Cardinality(Originals(es)) <= o + 1
         /\ Cardinality(Forecasts(es)) <= f + 1
         /\ ~(e.type = "causal" /\ e.refutes = 0) => Cardinality(Originals(es)) <= o
         /\ e.type # "prediction" => Cardinality(Forecasts(es)) <= f
<1> DEFINE es == Append(ds, e)
           l == Len(ds) + 1
<1>1. /\ DOMAIN es = DOMAIN ds \cup {l} /\ l \notin DOMAIN ds /\ es[l] = e
      /\ \A k \in DOMAIN ds : es[k] = ds[k]
  BY ListsAppend
<1> HIDE DEF es, l
<1>2. /\ Cardinality(Originals(ds)) \in Nat /\ Cardinality(Forecasts(ds)) \in Nat
  BY FS_CardinalityType
<1>3. l \notin Originals(ds) /\ l \notin Forecasts(ds)
  BY <1>1 DEF Originals, Forecasts
<1>4. CASE e.type = "causal" /\ e.refutes = 0
  <2>1. Originals(es) = Originals(ds) \cup {l} /\ Forecasts(es) = Forecasts(ds)
    BY <1>1, <1>4 DEF Originals, Forecasts
  <2>2. /\ IsFiniteSet(Originals(ds) \cup {l})
        /\ Cardinality(Originals(ds) \cup {l}) = Cardinality(Originals(ds)) + 1
    BY <1>3, FS_AddElement
  <2> QED BY <1>2, <1>4, <2>1, <2>2 DEF es
<1>5. CASE ~(e.type = "causal" /\ e.refutes = 0)
  <2>1. Originals(es) = Originals(ds)
    BY <1>1, <1>5 DEF Originals
  <2>2. CASE e.type = "prediction"
    <3>1. Forecasts(es) = Forecasts(ds) \cup {l}
      BY <1>1, <2>2 DEF Forecasts
    <3>2. /\ IsFiniteSet(Forecasts(ds) \cup {l})
          /\ Cardinality(Forecasts(ds) \cup {l}) = Cardinality(Forecasts(ds)) + 1
      BY <1>3, FS_AddElement
    <3> QED BY <1>2, <2>1, <2>2, <3>1, <3>2 DEF es
  <2>3. CASE e.type # "prediction"
    <3>1. Forecasts(es) = Forecasts(ds)
      BY <1>1, <2>3 DEF Forecasts
    <3> QED BY <1>2, <2>1, <2>3, <3>1 DEF es
  <2> QED BY <2>2, <2>3
<1> QED BY <1>4, <1>5

\* A reply is kept, and those before it stay.
LEMMA OneMoreReply ==
  ASSUME DerivationsIInv, history' = history, NEW r, Replied(r),
         r.tool = "estimate" /\ ~r.spent => r.refused = ~_precondition_history(0)
  PROVE  IsList(replies') /\ Answered'
<1>1. replies' = Append(replies, r) /\ IsList(replies)
  BY DEF Replied, DerivationsIInv
<1>2. /\ IsList(replies') /\ DOMAIN replies' = DOMAIN replies \cup {Len(replies) + 1}
      /\ replies'[Len(replies) + 1] = r /\ \A n \in DOMAIN replies : replies'[n] = replies[n]
  BY <1>1, ListsAppend
<1>3. _precondition_history(0)' = _precondition_history(0)
  BY RowsStay
<1>4. \A n \in DOMAIN replies' :
        replies'[n].tool = "estimate" /\ ~replies'[n].spent =>
          replies'[n].refused = ~_precondition_history(0)
  BY <1>2 DEF DerivationsIInv, Answered
<1>5. Answered'
  BY <1>3, <1>4 DEF Answered
<1> QED BY <1>2, <1>5

\* A call takes one of its budget, while there is one, and none of the other.
LEMMA ConsumeTakes ==
  ASSUME used \in [estimates : 0..MaxEstimates, forecasts : 0..MaxForecasts]
  PROVE  /\ Consume("estimates", MaxEstimates) =>
              /\ used' \in [estimates : 0..MaxEstimates, forecasts : 0..MaxForecasts]
              /\ used'.forecasts = used.forecasts
              /\ used'.estimates = IF used.estimates < MaxEstimates THEN used.estimates + 1
                                   ELSE used.estimates
         /\ Consume("forecasts", MaxForecasts) =>
              /\ used' \in [estimates : 0..MaxEstimates, forecasts : 0..MaxForecasts]
              /\ used'.estimates = used.estimates
              /\ used'.forecasts = IF used.forecasts < MaxForecasts THEN used.forecasts + 1
                                   ELSE used.forecasts
<1>1. /\ used.estimates \in 0..MaxEstimates /\ used.forecasts \in 0..MaxForecasts
      /\ MaxEstimates \in Nat /\ MaxForecasts \in Nat
  BY DerivationConstants
<1>2. ASSUME Consume("estimates", MaxEstimates)
      PROVE  /\ used' \in [estimates : 0..MaxEstimates, forecasts : 0..MaxForecasts]
             /\ used'.forecasts = used.forecasts
             /\ used'.estimates = IF used.estimates < MaxEstimates THEN used.estimates + 1
                                  ELSE used.estimates
  BY <1>1, <1>2 DEF Consume
<1>3. ASSUME Consume("forecasts", MaxForecasts)
      PROVE  /\ used' \in [estimates : 0..MaxEstimates, forecasts : 0..MaxForecasts]
             /\ used'.estimates = used.estimates
             /\ used'.forecasts = IF used.forecasts < MaxForecasts THEN used.forecasts + 1
                                  ELSE used.forecasts
  BY <1>1, <1>3 DEF Consume
<1> QED BY <1>2, <1>3

\* The days of a frame can be counted.
LEMMA FramesAreFinite ==
  ASSUME HistoryType, NEW b
  PROVE  Cardinality(build_observation_frame(b).days) \in Nat
<1> DEFINE f == build_observation_frame(b)
           is == InWindow(widening_for(b))
           g == [i \in DOMAIN history |-> history[i].day]
<1>1. IsFiniteSet(DaysOf(DOMAIN history))
  <2>1. g \in Surjection(DOMAIN history, DaysOf(DOMAIN history))
    BY DEF DaysOf, Surjection
  <2> HIDE DEF g
  <2> QED BY <2>1, RowsAre, FS_Surjection
<1>2. f.days \subseteq DaysOf(DOMAIN history)
  <2>1. is \subseteq DOMAIN history
    BY DEF InWindow, Known
  <2> QED BY <2>1, FrameIs DEF CompleteDays, DaysOf
<1>3. IsFiniteSet(f.days)
  BY <1>1, <1>2, FS_Subset
<1> QED BY <1>3, FS_CardinalityType

\* An estimate of one breadth: what it may say.
LEMMA EstimatesAre ==
  ASSUME HistoryType, NEW b, NEW e \in estimate_from_evidence(b)
  PROVE  /\ e.type = "causal" /\ e.breadth = b /\ e.frame = build_observation_frame(b)
         /\ e.refutes = 0
         /\ e.effect => Cardinality(e.frame.days) >= MinObservations
         /\ \A k : LET f == [e EXCEPT !.refutes = k] IN
              /\ f.type = "causal" /\ f.breadth = b /\ f.frame = e.frame /\ f.refutes = k
              /\ f.effect = e.effect
<1> DEFINE frame == build_observation_frame(b)
           estimate(effect, class) ==
             [type |-> "causal", breadth |-> b, frame |-> frame, effect |-> effect, class |-> class,
              refutes |-> 0]
<1>1. \/ e = estimate(FALSE, "ASSOCIATION")
      \/ /\ ~(Cardinality(frame.days) < MinObservations)
         /\ \E r \in Refutations : e = estimate(TRUE, classify_from_refutations(r))
  BY DEF estimate_from_evidence
<1> HIDE DEF frame
<1>2. CASE e = estimate(FALSE, "ASSOCIATION")
  BY <1>2 DEF frame
<1>3. ASSUME ~(Cardinality(frame.days) < MinObservations),
             NEW r \in Refutations, e = estimate(TRUE, classify_from_refutations(r))
      PROVE  /\ e.type = "causal" /\ e.breadth = b /\ e.frame = build_observation_frame(b)
             /\ e.refutes = 0
             /\ e.effect => Cardinality(e.frame.days) >= MinObservations
             /\ \A k : LET f == [e EXCEPT !.refutes = k] IN
                  /\ f.type = "causal" /\ f.breadth = b /\ f.frame = e.frame /\ f.refutes = k
                  /\ f.effect = e.effect
  <2> DEFINE class == classify_from_refutations(r)
  <2> HIDE DEF class
  <2>1. e = estimate(TRUE, class)
    BY <1>3 DEF class
  <2>2. Cardinality(frame.days) >= MinObservations
    BY <1>3, FramesAreFinite, DerivationConstants DEF frame
  <2> QED BY <2>1, <2>2 DEF frame
<1> QED BY <1>1, <1>2, <1>3

\* Every call keeps the invariant: a new estimate, ...
LEMMA EstimateKeeps ==
  ASSUME DerivationsIInv, NEW b \in Breadths, estimate_effect(b)
  PROVE  DerivationsIInv'
<1> DEFINE out == used.estimates >= MaxEstimates
           refused == out \/ ~_precondition_history(b)
           r == [tool |-> "estimate", refused |-> refused, spent |-> out]
<1>1. /\ history' = history /\ Replied(r) /\ Consume("estimates", MaxEstimates)
      /\ IF refused THEN UNCHANGED derived
         ELSE \E e \in estimate_from_evidence(b) : derived' = Append(derived, e)
  BY DEF estimate_effect
<1>2. _precondition_history(b) = _precondition_history(0)
  BY DEF _precondition_history
<1>3. IsList(replies') /\ Answered'
  <2>1. r.tool = "estimate" /\ r.refused = refused /\ r.spent = out
    OBVIOUS
  <2> HIDE DEF r
  <2>2. ~r.spent => r.refused = ~_precondition_history(0)
    BY <1>2, <2>1
  <2> QED BY <1>1, <2>1, <2>2, OneMoreReply
<1>4. /\ used \in [estimates : 0..MaxEstimates, forecasts : 0..MaxForecasts]
      /\ IsFiniteSet(Originals(derived)) /\ Cardinality(Originals(derived)) <= used.estimates
      /\ IsFiniteSet(Forecasts(derived)) /\ Cardinality(Forecasts(derived)) <= used.forecasts
      /\ Cardinality(Originals(derived)) \in Nat /\ IsList(derived)
  BY FS_CardinalityType DEF DerivationsIInv, Budgeted
<1>5. /\ used' \in [estimates : 0..MaxEstimates, forecasts : 0..MaxForecasts]
      /\ used'.forecasts = used.forecasts
      /\ used'.estimates = IF used.estimates < MaxEstimates THEN used.estimates + 1
                           ELSE used.estimates
  BY <1>1, <1>4, ConsumeTakes
<1>6. used.estimates \in Int /\ used.forecasts \in Int /\ MaxEstimates \in Int
  BY <1>4, DerivationConstants
<1>7. CASE refused
  <2>1. derived' = derived
    BY <1>1, <1>7
  <2>2. Budgeted'
    <3>1. used.estimates <= used'.estimates
      BY <1>5, <1>6
    <3>2. Originals(derived') = Originals(derived) /\ Forecasts(derived') = Forecasts(derived)
      BY <2>1
    <3>3. Cardinality(Originals(derived)) <= used'.estimates
      BY <1>4, <1>5, <1>6
    <3> QED BY <1>4, <1>5, <3>2, <3>3 DEF Budgeted
  <2>3. /\ HistoryType' /\ IsList(derived')
        /\ (\A k \in DOMAIN derived : Estimated(derived, k) /\ Lifted(derived, k))'
    BY <1>1, <2>1, RowsStay DEF DerivationsIInv, HistoryType, Estimated, Lifted
  <2> QED BY <1>3, <2>2, <2>3 DEF DerivationsIInv
<1>8. CASE ~refused
  <2>1. PICK e \in estimate_from_evidence(b) : derived' = Append(derived, e)
    BY <1>1, <1>8
  <2>2. /\ e.type = "causal" /\ e.breadth = b /\ e.frame = build_observation_frame(b)
        /\ e.refutes = 0
        /\ e.effect => Cardinality(e.frame.days) >= MinObservations
    BY EstimatesAre DEF DerivationsIInv
  <2>3. derived'[Len(derived) + 1] = e
    BY <1>4, <2>1, ListsAppend
  <2>4. Estimated(derived', Len(derived) + 1) /\ Lifted(derived', Len(derived) + 1)
    BY <2>2, <2>3 DEF Estimated, Lifted
  <2>5. /\ HistoryType' /\ IsList(derived')
        /\ (\A k \in DOMAIN derived : Estimated(derived, k) /\ Lifted(derived, k))'
    BY <1>1, <2>1, <2>4, OneMoreIsTrue
  <2>6. Budgeted'
    <3>1. used'.estimates = used.estimates + 1
      BY <1>5, <1>6, <1>8
    <3>2. /\ IsFiniteSet(Originals(derived')) /\ IsFiniteSet(Forecasts(derived'))
          /\ Cardinality(Originals(derived')) <= used.estimates + 1
          /\ Cardinality(Forecasts(derived')) <= used.forecasts
      BY <1>4, <1>6, <2>1, <2>2, OneMoreIsCounted
    <3> QED BY <1>5, <3>1, <3>2 DEF Budgeted
  <2> QED BY <1>3, <2>5, <2>6 DEF DerivationsIInv
<1> QED BY <1>7, <1>8

\* ... a refutation of an estimate, or of a refutation, ...
LEMMA RefutationKeeps ==
  ASSUME DerivationsIInv, NEW k \in DOMAIN derived, refute_estimate(k)
  PROVE  DerivationsIInv'
<1> DEFINE b == derived[k].breadth
           r == [tool |-> "refute", refused |-> FALSE]
<1>1. /\ derived[k].type = "causal" /\ history' = history /\ used' = used /\ Replied(r)
      /\ \E e \in estimate_from_evidence(b) : derived' = Append(derived, [e EXCEPT !.refutes = k])
  BY DEF refute_estimate
<1>2. IsList(replies') /\ Answered'
  <2>1. r.tool # "estimate"
    OBVIOUS
  <2> HIDE DEF r
  <2> QED BY <1>1, <2>1, OneMoreReply
<1>3. PICK e \in estimate_from_evidence(b) : derived' = Append(derived, [e EXCEPT !.refutes = k])
  BY <1>1
<1> DEFINE f == [e EXCEPT !.refutes = k]
<1>4. /\ f.type = "causal" /\ f.breadth = b /\ f.frame = build_observation_frame(b)
      /\ f.refutes = k
      /\ f.effect => Cardinality(f.frame.days) >= MinObservations
  BY EstimatesAre DEF DerivationsIInv
<1>5. IsList(derived) /\ b \in Breadths /\ k # 0
  <2>1. DOMAIN derived = 1..Len(derived) /\ IsList(derived)
    BY ListsAppend DEF DerivationsIInv
  <2> QED BY <1>1, <2>1 DEF DerivationsIInv, Estimated
<1>10. derived' = Append(derived, f)
  BY <1>3
<1>11. derived[k].type = "causal" /\ derived[k].breadth = b
  BY <1>1
<1> HIDE DEF f, b
<1>6. /\ derived'[Len(derived) + 1] = f /\ k \in DOMAIN derived' /\ derived'[k] = derived[k]
  BY <1>5, <1>10, ListsAppend
<1>7. Estimated(derived', Len(derived) + 1) /\ Lifted(derived', Len(derived) + 1)
  <2>1. Lifted(derived', Len(derived) + 1)
    BY <1>4, <1>6 DEF Lifted
  <2>2. Estimated(derived', Len(derived) + 1)
    <3> DEFINE l == Len(derived) + 1
    <3>1. derived'[l] = f
      BY <1>6
    <3> HIDE DEF l
    <3>2. /\ derived'[l].type = "causal" /\ derived'[l].breadth = b
          /\ derived'[l].frame = build_observation_frame(b) /\ derived'[l].refutes = k
          /\ derived'[l].effect => Cardinality(derived'[l].frame.days) >= MinObservations
      BY <1>4, <3>1
    <3>3. k \in DOMAIN derived' /\ derived'[k].type = "causal" /\ derived'[k].breadth = b
      BY <1>6, <1>11
    <3>4. Estimated(derived', l)
      BY <1>5, <3>2, <3>3 DEF Estimated
    <3> QED BY <3>4 DEF l
  <2> QED BY <2>1, <2>2
<1>8. /\ HistoryType' /\ IsList(derived')
      /\ (\A l \in DOMAIN derived : Estimated(derived, l) /\ Lifted(derived, l))'
  BY <1>1, <1>7, <1>10, OneMoreIsTrue
<1>9. Budgeted'
  <2>1. /\ used \in [estimates : 0..MaxEstimates, forecasts : 0..MaxForecasts]
        /\ IsFiniteSet(Originals(derived)) /\ Cardinality(Originals(derived)) <= used.estimates
        /\ IsFiniteSet(Forecasts(derived)) /\ Cardinality(Forecasts(derived)) <= used.forecasts
    BY DEF DerivationsIInv, Budgeted
  <2>2. used.estimates \in Int /\ used.forecasts \in Int
    BY <2>1
  <2>3. /\ IsFiniteSet(Originals(derived')) /\ IsFiniteSet(Forecasts(derived'))
        /\ Cardinality(Originals(derived')) <= used.estimates
        /\ Cardinality(Forecasts(derived')) <= used.forecasts
    <3>1. ~(f.type = "causal" /\ f.refutes = 0) /\ f.type # "prediction"
      BY <1>4, <1>5
    <3> QED BY <1>5, <1>10, <2>1, <2>2, <3>1, OneMoreIsCounted
  <2> QED BY <1>1, <2>1, <2>3 DEF Budgeted
<1> QED BY <1>2, <1>8, <1>9 DEF DerivationsIInv

\* ... a forecast, served or not, ...
LEMMA ForecastKeeps ==
  ASSUME DerivationsIInv, NEW h, forecast(h)
  PROVE  DerivationsIInv'
<1> DEFINE metrics == {history[i].metric : i \in DOMAIN history}
           target == CHOOSE m \in metrics : TRUE
           models == _approved_model_for(target)
           served == /\ used.forecasts < MaxForecasts
                     /\ Cardinality(metrics) = 1 /\ models # {}
                     /\ Cardinality(Known(DOMAIN history)) >= Registry[Min(models)].minimum
                     /\ forecast_series(h)
           made == [type |-> "prediction", model |-> Min(models), points |-> Known(DOMAIN history)]
           r(fits) == [tool |-> "forecast", refused |-> ~(served /\ fits)]
<1>1. /\ history' = history /\ Consume("forecasts", MaxForecasts)
      /\ \E fits \in BOOLEAN :
           /\ Replied(r(fits))
           /\ derived' = IF served /\ fits THEN Append(derived, made) ELSE derived
  BY DEF forecast
<1>2. served => used.forecasts < MaxForecasts
  OBVIOUS
<1>3. made.type = "prediction" /\ \A fits : r(fits).tool # "estimate"
  OBVIOUS
<1> HIDE DEF served, made, r
<1>4. IsList(replies') /\ Answered'
  BY <1>1, <1>3, OneMoreReply
<1>5. /\ used \in [estimates : 0..MaxEstimates, forecasts : 0..MaxForecasts]
      /\ IsFiniteSet(Originals(derived)) /\ Cardinality(Originals(derived)) <= used.estimates
      /\ IsFiniteSet(Forecasts(derived)) /\ Cardinality(Forecasts(derived)) <= used.forecasts
      /\ Cardinality(Forecasts(derived)) \in Nat /\ IsList(derived)
  BY FS_CardinalityType DEF DerivationsIInv, Budgeted
<1>6. /\ used' \in [estimates : 0..MaxEstimates, forecasts : 0..MaxForecasts]
      /\ used'.estimates = used.estimates
      /\ used'.forecasts = IF used.forecasts < MaxForecasts THEN used.forecasts + 1
                           ELSE used.forecasts
  BY <1>1, <1>5, ConsumeTakes
<1>7. used.estimates \in Int /\ used.forecasts \in Int /\ MaxForecasts \in Int
  BY <1>5, DerivationConstants
<1>8. CASE derived' = derived
  <2>1. Budgeted'
    <3>1. Originals(derived') = Originals(derived) /\ Forecasts(derived') = Forecasts(derived)
      BY <1>8
    <3>2. Cardinality(Forecasts(derived)) <= used'.forecasts
      BY <1>5, <1>6, <1>7
    <3> QED BY <1>5, <1>6, <3>1, <3>2 DEF Budgeted
  <2>2. /\ HistoryType' /\ IsList(derived')
        /\ (\A k \in DOMAIN derived : Estimated(derived, k) /\ Lifted(derived, k))'
    BY <1>1, <1>8, RowsStay DEF DerivationsIInv, HistoryType, Estimated, Lifted
  <2> QED BY <1>4, <2>1, <2>2 DEF DerivationsIInv
<1>9. CASE served /\ derived' = Append(derived, made)
  <2>1. derived'[Len(derived) + 1] = made
    BY <1>5, <1>9, ListsAppend
  <2>2. Estimated(derived', Len(derived) + 1) /\ Lifted(derived', Len(derived) + 1)
    BY <1>3, <2>1 DEF Estimated, Lifted
  <2>3. /\ HistoryType' /\ IsList(derived')
        /\ (\A k \in DOMAIN derived : Estimated(derived, k) /\ Lifted(derived, k))'
    BY <1>1, <1>9, <2>2, OneMoreIsTrue
  <2>4. Budgeted'
    <3>1. used'.forecasts = used.forecasts + 1
      BY <1>2, <1>6, <1>9
    <3>2. /\ IsFiniteSet(Originals(derived')) /\ IsFiniteSet(Forecasts(derived'))
          /\ Cardinality(Originals(derived')) <= used.estimates
          /\ Cardinality(Forecasts(derived')) <= used.forecasts + 1
      BY <1>3, <1>5, <1>7, <1>9, OneMoreIsCounted
    <3> QED BY <1>6, <3>1, <3>2 DEF Budgeted
  <2> QED BY <1>4, <2>3, <2>4 DEF DerivationsIInv
<1> QED BY <1>1, <1>8, <1>9

\* A label's row is a measured row that carries it.
LEMMA LabelIs ==
  ASSUME HistoryType, NEW label, by_label(label) # 0
  PROVE  /\ by_label(label) \in DOMAIN history /\ ~history[by_label(label)].null
         /\ history[by_label(label)].label = label
<1> DEFINE is == {i \in Known(DOMAIN history) : history[i].label = label}
<1>1. is # {} /\ by_label(label) = LastRow(is)
  BY DEF by_label
<1>2. is \subseteq 1..Len(history) /\ Len(history) \in Nat
  BY RowsAre DEF Known
<1> HIDE DEF is
<1>3. LastRow(is) \in is
  BY <1>1, <1>2, GreatestIsChosen DEF LastRow
<1> QED BY <1>1, <1>3 DEF is, Known

\* The variants, one after the other: there is an n-th among some of them.
LEMMA NthOf ==
  ASSUME NEW l \in Nat, NEW I, I \subseteq 1..l
  PROVE  /\ Cardinality(I) \in Nat
         /\ \A n \in 1..Cardinality(I) : \E i \in I : Cardinality({j \in I : j <= i}) = n
<1> DEFINE R == {p \in I \X I : p[1] <= p[2]}
<1>1. IsFiniteSet(I)
  <2>1. IsFiniteSet(1..l)
    BY FS_Interval
  <2> QED BY <2>1, FS_Subset
<1>2. \A i, j \in I : <<i, j>> \in R <=> i <= j
  OBVIOUS
<1> HIDE DEF R
<1>3. \A i \in I : i \in Nat
  OBVIOUS
<1>4. IsOrder(R, I)
  <2>1. ASSUME NEW i \in I, NEW j \in I PROVE <<i, j>> \in R \/ <<j, i>> \in R
    <3>1. i <= j \/ j <= i
      BY <1>3
    <3> QED BY <1>2, <3>1
  <2>2. \A i, j \in I : <<i, j>> \in R /\ <<j, i>> \in R => i = j
    BY <1>2, <1>3
  <2>3. \A i, j, k \in I : <<i, j>> \in R /\ <<j, k>> \in R => <<i, k>> \in R
    BY <1>2, <1>3
  <2> QED BY <2>1, <2>2, <2>3 DEF IsOrder
<1>5. PICK s \in [1..Cardinality(I) -> I] : \A k \in 1..Cardinality(I) : Place(R, I, s[k]) = k
  BY <1>1, <1>4, PlacesEnumerate
<1>6. ASSUME NEW n \in 1..Cardinality(I)
      PROVE  \E i \in I : Cardinality({j \in I : j <= i}) = n
  <2>1. s[n] \in I /\ Place(R, I, s[n]) = n
    BY <1>5
  <2>2. {j \in I : <<j, s[n]>> \in R} = {j \in I : j <= s[n]}
    BY <1>2, <2>1
  <2> QED BY <2>1, <2>2 DEF Place
<1> QED BY <1>1, <1>6, FS_CardinalityType

\* ... and the lifts of an experiment.
LEMMA ExperimentKeeps ==
  ASSUME DerivationsIInv, evaluate_experiment
  PROVE  DerivationsIInv'
<1> DEFINE control == IF Controls = {} THEN 0 ELSE by_label(Variants[Min(Controls)].label)
           rows == [i \in treatments |-> by_label(Variants[i].label)]
           measured == IF control = 0 THEN {} ELSE {i \in treatments : rows[i] # 0}
           nth(n) == CHOOSE i \in measured : Cardinality({j \in measured : j <= i}) = n
           lifts == [n \in 1..Cardinality(measured) |-> lift(control, rows[nth(n)])]
           r == [tool |-> "experiment", refused |-> measured = {}]
<1>1. /\ history' = history /\ used' = used /\ Replied(r) /\ derived' = derived \o lifts
  BY DEF evaluate_experiment
<1>2. IsList(replies') /\ Answered'
  <2>1. r.tool # "estimate"
    OBVIOUS
  <2> HIDE DEF r
  <2> QED BY <1>1, <2>1, OneMoreReply
<1>3. HistoryType /\ IsList(derived)
  BY DEF DerivationsIInv
<1>4. DOMAIN Variants = 1..Len(Variants) /\ Len(Variants) \in Nat
  BY DerivationsAssumption
<1>5. treatments \subseteq 1..Len(Variants) /\ Controls \subseteq 1..Len(Variants)
  BY <1>4 DEF treatments, Controls
<1>6. control # 0 =>
        /\ ~history[control].null
        /\ \E i \in Controls : Variants[i].label = history[control].label
  <2>1. ASSUME Controls # {} PROVE Min(Controls) \in Controls
    <3>1. Controls \subseteq Nat
      BY <1>4, <1>5
    <3> QED BY <2>1, <3>1, LeastIsChosen DEF Min
  <2> DEFINE label == Variants[Min(Controls)].label
  <2>2. by_label(label) # 0 => /\ ~history[by_label(label)].null
                              /\ history[by_label(label)].label = label
    BY <1>3, LabelIs
  <2> QED BY <2>1, <2>2
<1>7. \A i \in treatments : rows[i] # 0 =>
        ~history[rows[i]].null /\ history[rows[i]].label = Variants[i].label
  BY <1>3, LabelIs
<1>8. measured \subseteq 1..Len(Variants) /\ \A i \in measured : i \in treatments /\ rows[i] # 0 /\ control # 0
  BY <1>5
<1> HIDE DEF control, rows, measured
<1>9. /\ Cardinality(measured) \in Nat
      /\ \A n \in 1..Cardinality(measured) : nth(n) \in measured
  <2>1. /\ Cardinality(measured) \in Nat
        /\ \A n \in 1..Cardinality(measured) :
             \E i \in measured : Cardinality({j \in measured : j <= i}) = n
    BY <1>4, <1>8, NthOf
  <2> QED BY <2>1
<1> HIDE DEF nth
<1>10. /\ IsList(lifts) /\ DOMAIN lifts = 1..Cardinality(measured)
       /\ \A n \in DOMAIN lifts : lifts[n] = lift(control, rows[nth(n)])
  <2> DEFINE S == {lift(control, rows[nth(n)]) : n \in 1..Cardinality(measured)}
  <2>1. lifts \in [1..Cardinality(measured) -> S]
    OBVIOUS
  <2>2. lifts \in Seq(S)
    <3> HIDE DEF S, lifts
    <3> QED BY <1>9, <2>1
  <2>3. IsList(lifts)
    BY <2>2 DEF IsList
  <2> QED BY <2>3
<1>11. \A n \in DOMAIN lifts :
         /\ lifts[n].type = "lift" /\ lifts[n].cites[1] = control
         /\ lifts[n].cites[2] = rows[nth(n)]
  BY <1>10 DEF lift
<1> HIDE DEF lifts
<1>12. /\ IsList(derived') /\ DOMAIN derived \subseteq DOMAIN derived'
       /\ \A k \in DOMAIN derived : derived'[k] = derived[k]
       /\ \A k \in DOMAIN derived' : k \notin DOMAIN derived => \E n \in DOMAIN lifts : derived'[k] = lifts[n]
  <2>1. IsList(derived) /\ IsList(lifts) /\ derived' = derived \o lifts
    BY <1>1, <1>3, <1>10
  <2> HIDE DEF r
  <2>2. Longer(derived, lifts, derived')
    BY <2>1, ListsGrow
  <2> QED BY <2>2 DEF Longer
<1>13. ASSUME NEW k \in DOMAIN derived' PROVE Estimated(derived', k) /\ Lifted(derived', k)
  <2>1. CASE k \in DOMAIN derived
    <3>1. Estimated(derived, k) /\ Lifted(derived, k) /\ derived'[k] = derived[k]
      BY <1>12, <2>1 DEF DerivationsIInv
    <3>2. Lifted(derived', k)
      BY <3>1 DEF Lifted
    <3>3. Estimated(derived', k)
      BY <1>12, <3>1 DEF Estimated
    <3> QED BY <3>2, <3>3
  <2>2. CASE k \notin DOMAIN derived
    <3>1. PICK n \in DOMAIN lifts : derived'[k] = lifts[n]
      BY <1>12, <2>2
    <3>2. nth(n) \in measured
      BY <1>9, <1>10
    <3>3. /\ derived'[k].type = "lift" /\ derived'[k].cites[1] = control
          /\ derived'[k].cites[2] = rows[nth(n)]
      BY <1>11, <3>1
    <3>4. nth(n) \in treatments /\ rows[nth(n)] # 0 /\ control # 0
      BY <1>8, <3>2
    <3>5. /\ ~history[control].null /\ ~history[rows[nth(n)]].null
          /\ \E i \in Controls : Variants[i].label = history[control].label
          /\ Variants[nth(n)].label = history[rows[nth(n)]].label
      BY <1>6, <1>7, <3>4
    <3>6. Lifted(derived', k)
      BY <3>3, <3>4, <3>5 DEF Lifted
    <3>7. Estimated(derived', k)
      BY <3>3 DEF Estimated
    <3> QED BY <3>6, <3>7
  <2> QED BY <2>1, <2>2
<1>14. (\A k \in DOMAIN derived : Estimated(derived, k) /\ Lifted(derived, k))'
  <2>1. \A k : /\ Estimated(derived, k)' <=> Estimated(derived', k)
               /\ Lifted(derived, k)' <=> Lifted(derived', k)
    BY <1>1, RowsStay DEF Estimated, Lifted
  <2> QED BY <1>13, <2>1
<1>15. Budgeted'
  <2>1. Originals(derived') = Originals(derived) /\ Forecasts(derived') = Forecasts(derived)
    <3>1. \A k \in DOMAIN derived' : k \notin DOMAIN derived => derived'[k].type = "lift"
      BY <1>11, <1>12
    <3> QED BY <1>12, <3>1 DEF Originals, Forecasts
  <2> QED BY <1>1, <2>1 DEF DerivationsIInv, Budgeted
<1>16. HistoryType'
  BY <1>1, <1>3 DEF HistoryType
<1> QED BY <1>2, <1>12, <1>14, <1>15, <1>16 DEF DerivationsIInv

\* A step that leaves the mission alone leaves its artifacts alone.
LEMMA DerivationsStutter ==
  ASSUME DerivationsIInv, UNCHANGED derivationVars
  PROVE  DerivationsIInv'
<1>1. history' = history /\ derived' = derived /\ replies' = replies /\ used' = used
  BY DEF derivationVars
<1>2. Answered'
  BY <1>1, RowsStay DEF DerivationsIInv, Answered
<1>3. (\A k \in DOMAIN derived : Estimated(derived, k) /\ Lifted(derived, k))'
  BY <1>1, RowsStay DEF DerivationsIInv, Estimated, Lifted
<1>4. Budgeted'
  BY <1>1 DEF DerivationsIInv, Budgeted, Originals, Forecasts
<1> QED BY <1>1, <1>2, <1>3, <1>4 DEF DerivationsIInv, HistoryType

LEMMA DerivationsStep == DerivationsIInv /\ [DerivationsNext]_derivationVars => DerivationsIInv'
<1> SUFFICES ASSUME DerivationsIInv, [DerivationsNext]_derivationVars PROVE DerivationsIInv'
  OBVIOUS
<1>1. CASE UNCHANGED derivationVars
  BY <1>1, DerivationsStutter
<1>2. ASSUME NEW b \in Breadths, estimate_effect(b) PROVE DerivationsIInv'
  BY <1>2, EstimateKeeps
<1>3. ASSUME NEW k \in DOMAIN derived, refute_estimate(k) PROVE DerivationsIInv'
  BY <1>3, RefutationKeeps
<1>4. ASSUME NEW h \in 0..1, forecast(h) PROVE DerivationsIInv'
  BY <1>4, ForecastKeeps
<1>5. CASE evaluate_experiment
  BY <1>5, ExperimentKeeps
<1> QED BY <1>1, <1>2, <1>3, <1>4, <1>5 DEF DerivationsNext

\* What the claims promise follows.
LEMMA DerivationsAre == DerivationsIInv => DerivationsInv
<1> SUFFICES ASSUME DerivationsIInv PROVE DerivationsInv
  OBVIOUS
<1>1. HistoryType /\ \A k \in DOMAIN derived : Estimated(derived, k) /\ Lifted(derived, k)
  BY DEF DerivationsIInv
<1>2. DerivedWithinBudget
  <2>1. /\ Cardinality(Originals(derived)) \in Nat /\ Cardinality(Forecasts(derived)) \in Nat
        /\ Cardinality(Originals(derived)) <= used.estimates /\ used.estimates \in 0..MaxEstimates
        /\ Cardinality(Forecasts(derived)) <= used.forecasts /\ used.forecasts \in 0..MaxForecasts
    BY FS_CardinalityType DEF DerivationsIInv, Budgeted
  <2>2. Cardinality(Originals(derived)) <= MaxEstimates /\ Cardinality(Forecasts(derived)) <= MaxForecasts
    BY <2>1, DerivationConstants
  <2> QED BY <2>2 DEF DerivedWithinBudget, Originals, Forecasts
<1>3. WiderNeverRefuses
  BY DEF DerivationsIInv, Answered, WiderNeverRefuses
<1>4. EffectIsObserved
  <2> SUFFICES ASSUME NEW k \in DOMAIN derived, derived[k].type = "causal", derived[k].effect
               PROVE  /\ Cardinality(derived[k].frame.days) >= MinObservations
                      /\ \A d \in derived[k].frame.days,
                            m \in {Treatment, Outcome} \cup derived[k].frame.causes :
                           /\ d + HistoryBase * (1 + derived[k].breadth) >= AsOf
                           /\ \E i \in Known(DOMAIN history) :
                                history[i].day = d /\ history[i].metric = m
    BY DEF EffectIsObserved
  <2>1. /\ derived[k].breadth \in Breadths
        /\ derived[k].frame = build_observation_frame(derived[k].breadth)
        /\ Cardinality(derived[k].frame.days) >= MinObservations
    BY <1>1 DEF Estimated
  <2> QED BY <1>1, <2>1, FrameIsObserved
<1>5. TruncationIsTold
  <2> SUFFICES ASSUME NEW k \in DOMAIN derived, derived[k].type = "causal",
                      derived[k].frame.days # {}
               PROVE  derived[k].frame.warned <=>
                        {history[i].metric : i \in InWindow(widening_for(derived[k].breadth))}
                          \ ({Treatment, Outcome} \cup derived[k].frame.causes) # {}
    BY DEF TruncationIsTold
  <2>1. /\ derived[k].breadth \in Breadths
        /\ derived[k].frame = build_observation_frame(derived[k].breadth)
    BY <1>1 DEF Estimated
  <2> QED BY <1>1, <2>1, FrameTells
<1>6. RefutesTheSame
  BY <1>1 DEF Estimated, RefutesTheSame
<1>7. LiftIsMeasured
  BY <1>1 DEF Lifted, LiftIsMeasured
<1> QED BY <1>2, <1>3, <1>4, <1>5, <1>6, <1>7 DEF DerivationsInv

\* Whatever was fetched and whatever the refuters answer: estimates and forecasts
\* keep to their budgets, effects rest on observed days of their window, warnings
\* tell what was left out, and refutations look at what they refute.
THEOREM DerivationsAreObserved ==
  DerivationsInit /\ [][DerivationsNext]_derivationVars => []DerivationsInv
<1>1. DerivationsInit => DerivationsIInv
  BY DerivationsBegin
<1> QED BY <1>1, DerivationsStep, DerivationsAre, PTL

-----------------------------------------------------------------------------
(* The findings of an answer, with every part around them.                 *)

\* What the calculations, the derivations and the validator each keep.
FindingsIInv ==
  /\ AnalyticsIInv
  /\ DerivationsIInv
  /\ artifacts \in Seq(Kinds)

\* No rows were given, and none asked for.
LEMMA AnalyticsRests == AnalyticsAtRest => AnalyticsIInv
<1> SUFFICES ASSUME AnalyticsAtRest PROVE AnalyticsIInv
  OBVIOUS
<1>1. given = <<>> /\ computed = "none" /\ reported = {}
  BY DEF AnalyticsAtRest
<1>2. given \in [1..0 -> Rows]
  BY <1>1
<1>3. GivenType
  BY <1>2 DEF GivenType
<1> QED BY <1>1, <1>3 DEF AnalyticsIInv

\* A mission that has fetched nothing has derived nothing.
LEMMA DerivationsRest == DerivationsAtRest => DerivationsIInv
<1> SUFFICES ASSUME DerivationsAtRest PROVE DerivationsIInv
  OBVIOUS
<1>1. history = <<>> /\ derived = <<>> /\ replies = <<>>
      /\ used = [estimates |-> 0, forecasts |-> 0]
  BY DEF DerivationsAtRest
<1>2. HistoryType
  BY <1>1 DEF HistoryType
<1>3. IsList(derived) /\ IsList(replies)
  <2>1. <<>> \in Seq({})
    OBVIOUS
  <2> QED BY <1>1, <2>1 DEF IsList
<1>4. DOMAIN derived = {} /\ DOMAIN replies = {}
  BY <1>1
<1>5. Budgeted
  <2>1. Originals(derived) = {} /\ Forecasts(derived) = {}
    BY <1>4 DEF Originals, Forecasts
  <2>2. IsFiniteSet({}) /\ Cardinality({}) = 0
    BY FS_EmptySet
  <2>3. used \in [estimates : 0..MaxEstimates, forecasts : 0..MaxForecasts]
    BY <1>1, DerivationConstants
  <2>4. used.estimates = 0 /\ used.forecasts = 0
    BY <1>1
  <2> QED BY <2>1, <2>2, <2>3, <2>4 DEF Budgeted
<1> QED BY <1>2, <1>3, <1>4, <1>5 DEF DerivationsIInv, Answered

\* Every part starts from its own initial state or stays at rest.
LEMMA PartsBegin == PartsInit => FindingsIInv
<1> SUFFICES ASSUME PartsInit PROVE FindingsIInv
  OBVIOUS
<1>1. AnalyticsInit \/ AnalyticsAtRest
  BY DEF PartsInit
<1>2. DerivationsInit \/ DerivationsAtRest
  BY DEF PartsInit
<1>3. EvidenceInit \/ EvidenceAtRest
  BY DEF PartsInit
<1>4. artifacts = <<>>
  BY <1>3 DEF EvidenceInit, EvidenceAtRest
<1> QED BY <1>1, <1>2, <1>4, AnalyticsIsKept, AnalyticsRests, DerivationsBegin, DerivationsRest
        DEF FindingsIInv

\* The step of one part is a step of its own, or none, for every other part.
LEMMA PartsTakeTurns ==
  ASSUME [PartsNext]_partVars
  PROVE  /\ [AnalyticsNext]_analyticsVars
         /\ [DerivationsNext]_derivationVars
         /\ [EvidenceNext]_evidenceVars
<1>1. CASE UNCHANGED partVars
  BY <1>1 DEF partVars
<1>2. CASE Others("setup") /\ SetupNext
  BY <1>2 DEF Others
<1>3. CASE Others("agent") /\ AgentNext
  BY <1>3 DEF Others
<1>4. CASE Others("routing") /\ RoutingNext
  BY <1>4 DEF Others
<1>5. CASE Others("fetching") /\ FetchingNext
  BY <1>5 DEF Others
<1>6. CASE Others("time") /\ TimeNext
  BY <1>6 DEF Others
<1>7. CASE Others("analytics") /\ AnalyticsNext
  BY <1>7 DEF Others
<1>8. CASE Others("derivations") /\ DerivationsNext
  BY <1>8 DEF Others
<1>9. CASE Others("evidence") /\ EvidenceNext
  BY <1>9 DEF Others
<1>10. CASE Others("actions") /\ ActionsNext
  BY <1>10 DEF Others
<1>11. CASE Others("migrations") /\ MigrationsNext
  BY <1>11 DEF Others
<1> QED BY <1>1, <1>2, <1>3, <1>4, <1>5, <1>6, <1>7, <1>8, <1>9, <1>10, <1>11
        DEF PartsNext

\* Whatever the parts do, in any order: a finding is computed from rows that may
\* be compared, an estimate rests on what was observed, and a verdict follows the
\* evidence (toolsets/analytics.py, causal/service.py, validation/validator.py).
THEOREM FindingsAreBacked == PartsSpec => []FindingsInv
<1>1. PartsInit => FindingsIInv
  BY PartsBegin
<1>2. FindingsIInv /\ [PartsNext]_partVars => FindingsIInv'
  <2> SUFFICES ASSUME FindingsIInv, [PartsNext]_partVars PROVE FindingsIInv'
    OBVIOUS
  <2>1. AnalyticsIInv'
    BY PartsTakeTurns, AnalyticsIsKept DEF FindingsIInv
  <2>2. DerivationsIInv'
    BY PartsTakeTurns, DerivationsStep DEF FindingsIInv
  <2>3. (artifacts \in Seq(Kinds))'
    <3>1. [EvidenceNext]_evidenceVars
      BY PartsTakeTurns
    <3> QED BY <3>1 DEF FindingsIInv, EvidenceNext, Store, evidenceVars
  <2> QED BY <2>1, <2>2, <2>3 DEF FindingsIInv
<1>3. FindingsIInv => FindingsInv
  <2> SUFFICES ASSUME FindingsIInv PROVE FindingsInv
    OBVIOUS
  <2>1. AnalyticsInv /\ DerivationsInv
    BY AnalyticsIsSound, DerivationsAre DEF FindingsIInv
  <2>2. EvidenceInv
    BY ArtifactsBackPasses, ArtifactsGiveTwoSignals DEF FindingsIInv, EvidenceInv
  <2> QED BY <2>1, <2>2 DEF FindingsInv
<1> QED BY <1>1, <1>2, <1>3, PTL DEF PartsSpec
=============================================================================
