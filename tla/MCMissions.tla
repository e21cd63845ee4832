----------------------------- MODULE MCMissions -----------------------------
(***************************************************************************)
(* Instances for TLC of the missions and of three services around them that*)
(* share no state with them: the middleware in front of the API, the MCP   *)
(* session behind the tools, and the daily health snapshots.  Each initial *)
(* state chooses one of them (focus).                                      *)
(***************************************************************************)
EXTENDS Missions, Sessions, Admission, DomainHealth, TLC

CONSTANT Focuses \* the parts of this run

VARIABLE focus

\* DomainHealth: a windowed metric and one with features, in either state.
TwoDomains == <<"sales", "operations">>
TwoProfiles ==
  [sales |-> <<[class |-> "windowed", rule |-> [below |-> FALSE, threshold |-> 20]],
               [class |-> "features", rule |-> [below |-> TRUE, threshold |-> -15]]>>,
   operations |-> <<[class |-> "plain", rule |-> [below |-> TRUE, threshold |-> -15]]>>]
Sent(rows) == [error |-> FALSE, rows |-> rows]
SomeFetches ==
  {<<Sent(<<4>>), Sent(<<4, 5, 3>>)>>, <<Sent(<<6>>), Sent(<<4, 6, Missing>>)>>,
   <<Sent(<<Missing>>), Sent(<<4, 0>>)>>, <<[error |-> TRUE, rows |-> <<>>]>>}

-----------------------------------------------------------------------------
SessionsAtRest ==
  /\ session = 0 /\ issued = 0 /\ known_ = {} /\ told = {} /\ init_lock = "none"
  /\ restarts = 0 /\ post = [c \in Posters |-> NoPost]
AdmissionAtRest ==
  /\ clock = 0 /\ setup_ = [api_key |-> FALSE, authenticator |-> FALSE]
  /\ hits = [k \in ClientKeys |-> <<>>] /\ entered = hits
  /\ refused = [k \in ClientKeys |-> NoRefusal] /\ answer = NoAnswer_
MissionsAtRest ==
  /\ MissionsInit
  /\ thread = {} /\ redis = FALSE

ServicesInit ==
  /\ focus \in Focuses
  /\ IF focus = "missions" THEN MissionsInit ELSE MissionsAtRest
  /\ IF focus = "sessions" THEN SessionsInit ELSE SessionsAtRest
  /\ IF focus = "admission" THEN AdmissionInit ELSE AdmissionAtRest
  /\ HealthInit

\* The step of one part leaves the others alone.
Part(part) ==
  /\ focus = part /\ UNCHANGED focus
  /\ part # "missions" => UNCHANGED missionVars
  /\ part # "sessions" => UNCHANGED sessionVars
  /\ part # "admission" => UNCHANGED admissionVars
  /\ part # "health" => UNCHANGED healthVars

ServicesNext ==
  \/ Part("missions") /\ MissionsNext
  \/ Part("sessions") /\ SessionsNext
  \/ Part("admission") /\ AdmissionNext
  \/ Part("health") /\ HealthNext

serviceVars == <<focus, missionVars, sessionVars, admissionVars, healthVars>>

\* The fairness of MissionsFairSpec; a post is answered or times out.
ServicesSpec ==
  /\ ServicesInit /\ [][ServicesNext]_serviceVars
  /\ \A j \in Jobs :
       /\ WF_serviceVars(Part("missions") /\ JobStep(j))
       /\ WF_serviceVars(Part("missions") /\ Deliver(j))
  /\ \A p \in Processes : WF_serviceVars(Part("missions") /\ CancelStep(p))
  /\ \A c \in Posters : WF_serviceVars(Part("sessions") /\ PostStep(c))

=============================================================================
