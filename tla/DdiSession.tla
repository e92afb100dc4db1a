----------------------------- MODULE DdiSession -----------------------------
(***************************************************************************)
(* The conversation that hawkBit's direct device integration asks of a     *)
(* device, as the requests follow each other: no buffers, no documents, no *)
(* flash.  A poll reads the base resource, sends the configuration data    *)
(* when asked to, reads the deployment it was offered, and reports on it.  *)
(***************************************************************************)
CONSTANTS
  Actions,  \* the ids of the deployments
  NoAcid    \* no deployment

VARIABLES
  request,  \* the last request of the device
  offered,  \* the deployment that the answer to its last poll links to
  last      \* the last deployment whose document it could read

sessionVars == <<request, offered, last>>

NoBody == [kind |-> "none", acid |-> NoAcid]
NoRequest == [method |-> "none", url |-> NoBody, body |-> NoBody]

Get(resource, a) == [method |-> "GET", url |-> [kind |-> resource, acid |-> a], body |-> NoBody]
Base == Get("base", NoAcid)
Deployment(a) == Get("deployment", a)
Artifact(a) == Get("artifact", a)
Config == [method |-> "PUT", url |-> [kind |-> "config", acid |-> NoAcid],
           body |-> [kind |-> "config", acid |-> NoAcid]]
Feedback(a, status) ==
  [method |-> "POST", url |-> [kind |-> "feedback", acid |-> a],
   body |-> [kind |-> status, acid |-> a]]

SessionInit == request = NoRequest /\ offered = NoAcid /\ last = NoAcid

\* A poll may begin after anything.
AskBase ==
  /\ request' = Base
  /\ offered' \in Actions \cup {NoAcid}
  /\ UNCHANGED last

SendConfig ==
  /\ request = Base
  /\ request' = Config
  /\ UNCHANGED <<offered, last>>

AskDeployment ==
  /\ request \in {Base, Config}
  /\ offered # NoAcid
  /\ request' = Deployment(offered)
  /\ UNCHANGED <<offered, last>>

ReadDeployment ==
  /\ request = Deployment(offered)
  /\ last' = offered
  /\ UNCHANGED <<request, offered>>

\* Success and progress are reported of the deployment that was just read.
Report ==
  /\ request = Deployment(offered)
  /\ last = offered
  /\ \E status \in {"success", "proceeding"} : request' = Feedback(offered, status)
  /\ UNCHANGED <<offered, last>>

Download ==
  /\ request = Feedback(offered, "proceeding")
  /\ request' = Artifact(offered)
  /\ UNCHANGED <<offered, last>>

\* A failure of the install is reported of the deployment installed; of a
\* document that cannot be read, on the last one that could.
ReportFailure ==
  /\ \/ /\ request = Deployment(offered)
        /\ request' = Feedback(last, "failure")
     \/ /\ request \in {Feedback(offered, "proceeding"), Artifact(offered)}
        /\ request' = Feedback(offered, "failure")
  /\ UNCHANGED <<offered, last>>

Restart == request' = NoRequest /\ offered' = NoAcid /\ last' = NoAcid

SessionNext ==
  \/ AskBase \/ SendConfig \/ AskDeployment \/ ReadDeployment
  \/ Report \/ Download \/ ReportFailure \/ Restart

SessionSpec == SessionInit /\ [][SessionNext]_sessionVars
=============================================================================
