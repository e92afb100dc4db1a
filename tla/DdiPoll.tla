------------------------------ MODULE DdiPoll -------------------------------
(***************************************************************************)
(* The requests of hawkbit_ddi_poll, src/lib/hawkbit.c, one poll after     *)
(* another: the buffers and the request structure that every query shares, *)
(* the parsed documents whose strings stay in the receive buffer, the      *)
(* copies made of them, and the polling interval.  What the client does to *)
(* flash in between is in module Hawkbit.                                  *)
(*                                                                         *)
(* A character is a digit's value, or 10 for any other.  The HTTP client,  *)
(* the JSON library and the server are external; the server sends the      *)
(* document of the deployment it is asked for, whose id is a number        *)
(* (Garbage for a negative one).                                           *)
(***************************************************************************)
EXTENDS Integers, Sequences

CONSTANTS
  Actions,       \* the action ids of the deployments
  NoAcid,        \* none: NULL, an empty string, the zero of a static
  Garbage,       \* a string that is not what it should be: malformed, or
                 \* read where a buffer has been filled anew
  SleepStrings   \* what the server sends as the polling interval

ASSUME DdiPollAssumption ==
  /\ NoAcid \notin Actions
  /\ Garbage \notin Actions \cup {NoAcid}
  /\ SleepStrings \subseteq Seq(0..10)

VARIABLES
  pc,               \* where the main thread is
  poll_sleep,       \* in ms
  json_acid,        \* static s32_t json_acid
  tcp_buffer,       \* hbc->tcp_buffer: the document it holds
  url_buffer,       \* hbc->url_buffer
  status_buffer,    \* hbc->status_buffer
  http_req,         \* hbc->http_req: its method; does payload point to status_buffer?
  hawkbit_results,  \* the document whose strings the union points to
  deployment_base,  \* the copy of the deployment's link
  download_http,    \* the copy of the artifact's link, and file_size
  sent,             \* the last request the client tried to send
  offered           \* history: the deployment linked by the last base resource

requestVars == <<url_buffer, status_buffer, http_req>>
localVars == <<hawkbit_results, deployment_base, download_http>>
vars == <<pc, poll_sleep, json_acid, tcp_buffer, requestVars, localVars, sent, offered>>

Second == 1000
Acids == Actions \cup {NoAcid}
Statuses == {"success", "proceeding", "failure"}

\* <<>> stands for a missing string too.
BaseDocs == [sleep : SleepStrings \cup {<<>>}, href : Acids \cup {Garbage}, configData : BOOLEAN]
DeploymentDocs == [id : Actions \cup {Garbage}, href : Actions \cup {Garbage}]
Empty == [text |-> "none"]  \* zeroes, or an answer that is no document
Documents == BaseDocs \cup DeploymentDocs \cup {Empty}

Urls == [kind : {"none", "base", "config", "deployment", "feedback", "artifact"},
         acid : Acids \cup {Garbage}]
Bodies == [kind : {"none", "config"} \cup Statuses, acid : Acids]
NoBody == [kind |-> "none", acid |-> NoAcid]
Methods == {"none", "GET", "PUT", "POST"}
NoRequest == [method |-> "none", url |-> NoBody, body |-> NoBody]

QueryPc == {"base_query", "config_query", "deployment_query", "feedback_query"}
ReadPc == {"update_sleep", "find_deployment_base", "report_config_data", "parse_deployment"}
OtherPc == {"idle", "parse_base", "deployment", "parse_json", "acid_check", "report_error",
            "install", "reboot"}

\* Between a second and 99:99:99.
Interval(ms) == ms \in Int /\ Second <= ms /\ ms <= 362439 * Second

TypeOK ==
  /\ pc \in QueryPc \cup ReadPc \cup OtherPc
  /\ Interval(poll_sleep)
  /\ json_acid \in Acids
  /\ tcp_buffer \in Documents
  /\ url_buffer \in Urls
  /\ status_buffer \in Bodies
  /\ http_req \in [method : Methods, payload : BOOLEAN]
  /\ hawkbit_results \in Documents
  /\ deployment_base \in Acids \cup {Garbage}
  /\ download_http \in Acids \cup {Garbage}
  /\ sent \in [method : Methods, url : Urls, body : Bodies]
  /\ offered \in Acids

Init ==
  /\ pc = "idle"
  /\ poll_sleep = 30 * Second
  /\ json_acid = NoAcid
  /\ tcp_buffer = Empty
  /\ url_buffer = NoBody /\ status_buffer = NoBody
  /\ http_req = [method |-> "none", payload |-> FALSE]
  /\ hawkbit_results = Empty /\ deployment_base = NoAcid /\ download_http = NoAcid
  /\ sent = NoRequest
  /\ offered = NoAcid

-----------------------------------------------------------------------------
(* The polling interval.                                                   *)

\* atoi_n(s + at, 2): it stops at the first character that is no digit.
atoi_n(s, at) ==
  LET a == s[at + 1]  b == s[at + 2]
  IN  IF a > 9 THEN 0 ELSE IF b > 9 THEN a ELSE 10 * a + b

\* Mutant: the minutes are read from the colon on.
time2sec_colon(s) == atoi_n(s, 0) * 60 * 60 + atoi_n(s, 2) * 60 + atoi_n(s, 6)

hawkbit_time2sec(s) == atoi_n(s, 0) * 60 * 60 + atoi_n(s, 3) * 60 + atoi_n(s, 6)

\* Mutant: an interval of zero is taken over.
SleepAfterAny(s) == IF Len(s) = 8 THEN hawkbit_time2sec(s) * Second ELSE poll_sleep

SleepAfter(s) ==
  IF Len(s) = 8 /\ hawkbit_time2sec(s) > 0 THEN hawkbit_time2sec(s) * Second ELSE poll_sleep

-----------------------------------------------------------------------------
(* Requests.                                                               *)

\* Mutant: the structure is not cleared.
FillRequestOver(method, payload) ==
  http_req' = [method |-> method, payload |-> payload \/ http_req.payload]

\* memset of hbc->http_req, and its members.
FillRequest(method, payload) == http_req' = [method |-> method, payload |-> payload]

\* hawkbit_query: the request goes out as the structure has it, and the
\* answer, if there is one with status 200, replaces what the buffer held.
Query(answer) ==
  /\ sent' = [method |-> http_req.method,
              url |-> url_buffer,
              body |-> IF http_req.payload THEN status_buffer ELSE NoBody]
  /\ tcp_buffer' = answer

\* A string of the parsed document, read through its pointer.
Read(field) == IF tcp_buffer = hawkbit_results THEN hawkbit_results[field] ELSE Garbage

Return ==
  /\ pc' = "idle"
  /\ hawkbit_results' = Empty
  /\ deployment_base' = NoAcid
  /\ download_http' = NoAcid

-----------------------------------------------------------------------------
(* hawkbit_ddi_poll: the base resource.                                    *)

PollBase ==
  /\ pc = "idle"
  /\ url_buffer' = [kind |-> "base", acid |-> NoAcid]
  /\ FillRequest("GET", FALSE)
  /\ pc' = "base_query"
  /\ UNCHANGED <<poll_sleep, json_acid, tcp_buffer, status_buffer, localVars, sent, offered>>

BaseQuery ==
  /\ pc = "base_query"
  /\ \/ \E doc \in BaseDocs :
          /\ Query(doc)
          /\ offered' = IF doc.href = Garbage THEN NoAcid ELSE doc.href
          /\ pc' = "parse_base"
          /\ UNCHANGED localVars
     \/ Query(Empty) /\ offered' = NoAcid /\ Return
  /\ UNCHANGED <<poll_sleep, json_acid, requestVars>>

\* memset and json_obj_parse.  (An answer that does not parse ends the poll
\* as one that does not come.)
ParseBase ==
  /\ pc = "parse_base"
  /\ hawkbit_results' = tcp_buffer
  /\ pc' = "update_sleep"
  /\ UNCHANGED <<poll_sleep, json_acid, tcp_buffer, requestVars, deployment_base, download_http,
                 sent, offered>>

UpdateSleep ==
  /\ pc = "update_sleep"
  /\ poll_sleep' = SleepAfter(hawkbit_results.sleep)
  /\ pc' = "find_deployment_base"
  /\ UNCHANGED <<json_acid, tcp_buffer, requestVars, localVars, sent, offered>>

\* A malformed link ends the poll; a missing one does not.
FindDeploymentBase ==
  /\ pc = "find_deployment_base"
  /\ IF Read("href") = Garbage
     THEN Return
     ELSE /\ deployment_base' = Read("href")
          /\ pc' = "report_config_data"
          /\ UNCHANGED <<hawkbit_results, download_http>>
  /\ UNCHANGED <<poll_sleep, json_acid, tcp_buffer, requestVars, sent, offered>>

ReportConfigData ==
  /\ pc = "report_config_data"
  /\ IF hawkbit_results.configData
     THEN /\ url_buffer' = [kind |-> "config", acid |-> NoAcid]
          /\ status_buffer' = [kind |-> "config", acid |-> NoAcid]
          /\ FillRequest("PUT", TRUE)
          /\ pc' = "config_query"
     ELSE pc' = "deployment" /\ UNCHANGED requestVars
  /\ UNCHANGED <<poll_sleep, json_acid, tcp_buffer, localVars, sent, offered>>

\* Mutant: a configuration report that fails ends the poll.
ConfigQueryChecked ==
  /\ pc = "config_query"
  /\ Query(Empty)
  /\ \/ pc' = "deployment" /\ UNCHANGED localVars
     \/ Return
  /\ UNCHANGED <<poll_sleep, json_acid, requestVars, offered>>

\* Whether it succeeds is not looked at.
ConfigQuery ==
  /\ pc = "config_query"
  /\ Query(Empty)
  /\ pc' = "deployment"
  /\ UNCHANGED <<poll_sleep, json_acid, requestVars, localVars, offered>>

-----------------------------------------------------------------------------
(* The deployment.                                                         *)

\* Mutant: the link is taken from the parsed base resource, not from its copy.
PollDeploymentFromHref ==
  /\ pc = "deployment"
  /\ IF deployment_base = NoAcid
     THEN Return /\ UNCHANGED requestVars
     ELSE /\ url_buffer' = [kind |-> "deployment", acid |-> Read("href")]
          /\ FillRequest("GET", FALSE)
          /\ pc' = "deployment_query"
          /\ UNCHANGED <<status_buffer, localVars>>
  /\ UNCHANGED <<poll_sleep, json_acid, tcp_buffer, sent, offered>>

PollDeployment ==
  /\ pc = "deployment"
  /\ IF deployment_base = NoAcid
     THEN Return /\ UNCHANGED requestVars
     ELSE /\ url_buffer' = [kind |-> "deployment", acid |-> deployment_base]
          /\ FillRequest("GET", FALSE)
          /\ pc' = "deployment_query"
          /\ UNCHANGED <<status_buffer, localVars>>
  /\ UNCHANGED <<poll_sleep, json_acid, tcp_buffer, sent, offered>>

DocumentsOf(a) == {doc \in DeploymentDocs : doc.id \in {a, Garbage} /\ doc.href \in {a, Garbage}}

DeploymentQuery ==
  /\ pc = "deployment_query"
  /\ \/ \E doc \in DocumentsOf(url_buffer.acid) :
          Query(doc) /\ pc' = "parse_json" /\ UNCHANGED localVars
     \/ Query(Empty) /\ Return
  /\ UNCHANGED <<poll_sleep, json_acid, requestVars, offered>>

\* memset and json_obj_parse, into the memory of the base resource.
ParseJson ==
  /\ pc = "parse_json"
  /\ \/ hawkbit_results' = tcp_buffer /\ pc' = "parse_deployment"
     \/ hawkbit_results' = Empty /\ pc' = "report_error"
  /\ UNCHANGED <<poll_sleep, json_acid, tcp_buffer, requestVars, deployment_base, download_http,
                 sent, offered>>

\* hawkbit_parse_deployment stores the id before it looks at the rest: one
\* chunk, of part "os", with one artifact that fits and has a link.
ParseDeployment ==
  /\ pc = "parse_deployment"
  /\ json_acid' = IF Read("id") = Garbage THEN json_acid ELSE Read("id")
  /\ IF Garbage \in {Read("id"), Read("href")}
     THEN pc' = "report_error" /\ UNCHANGED download_http
     ELSE pc' = "acid_check" /\ download_http' = Read("href")
  /\ UNCHANGED <<poll_sleep, tcp_buffer, requestVars, hawkbit_results, deployment_base, sent,
                 offered>>

\* hawkbit_report_dep_fbk up to its query.
BuildFeedback(status) ==
  /\ url_buffer' = [kind |-> "feedback", acid |-> json_acid]
  /\ status_buffer' = [kind |-> status, acid |-> json_acid]
  /\ FillRequest("POST", TRUE)
  /\ pc' = "feedback_query"
  /\ UNCHANGED <<poll_sleep, json_acid, tcp_buffer, localVars, sent, offered>>

\* The ids on flash decide (module Hawkbit).
AcidCheck == pc = "acid_check" /\ \E status \in Statuses : BuildFeedback(status)
ReportError == pc = "report_error" /\ BuildFeedback("failure")

FeedbackQuery ==
  /\ pc = "feedback_query"
  /\ Query(Empty)
  /\ \/ status_buffer.kind = "proceeding" /\ pc' = "install" /\ UNCHANGED localVars
     \/ Return
  /\ UNCHANGED <<poll_sleep, json_acid, requestVars, offered>>

\* Mutant: the artifact's link is taken from the parsed document.
InstallFromHref ==
  /\ pc = "install"
  /\ tcp_buffer' = Empty
  /\ sent' = [method |-> "GET", url |-> [kind |-> "artifact", acid |-> Read("href")],
              body |-> NoBody]
  /\ pc' \in {"report_error", "reboot"}
  /\ UNCHANGED <<poll_sleep, json_acid, requestVars, localVars, offered>>

\* hawkbit_install_update has a request of its own, or returns before it; the
\* update of the ids may fail after it.
Install ==
  /\ pc = "install"
  /\ \/ /\ tcp_buffer' = Empty
        /\ sent' = [method |-> "GET", url |-> [kind |-> "artifact", acid |-> download_http],
                    body |-> NoBody]
        /\ pc' \in {"report_error", "reboot"}
     \/ pc' = "report_error" /\ UNCHANGED <<tcp_buffer, sent>>
  /\ UNCHANGED <<poll_sleep, json_acid, requestVars, localVars, offered>>

\* sys_reboot after an install, or any other reset: all memory starts over.
Reset ==
  /\ pc' = "idle"
  /\ poll_sleep' = 30 * Second
  /\ json_acid' = NoAcid
  /\ tcp_buffer' = Empty
  /\ url_buffer' = NoBody /\ status_buffer' = NoBody
  /\ http_req' = [method |-> "none", payload |-> FALSE]
  /\ hawkbit_results' = Empty /\ deployment_base' = NoAcid /\ download_http' = NoAcid
  /\ sent' = NoRequest
  /\ offered' = NoAcid

Poll ==
  \/ PollBase \/ BaseQuery \/ ParseBase \/ UpdateSleep \/ FindDeploymentBase
  \/ ReportConfigData \/ ConfigQuery
  \/ PollDeployment \/ DeploymentQuery \/ ParseJson \/ ParseDeployment
  \/ AcidCheck \/ ReportError \/ FeedbackQuery \/ Install
  \/ pc = "reboot" /\ Reset

Next == Poll \/ Reset

Spec == Init /\ [][Next]_vars

\* The work is rescheduled after every poll, and every query ends.
FairSpec == Spec /\ WF_vars(Poll)

-----------------------------------------------------------------------------
(* Properties.                                                             *)

\* Whenever strings of a parsed document are read, the receive buffer that
\* they point into still holds that document; and what is kept longer, or
\* goes into a request, is not what a later answer left there.
StringsOutlived ==
  /\ pc \in ReadPc => tcp_buffer = hawkbit_results
  /\ Garbage \notin {deployment_base, download_http, url_buffer.acid, sent.url.acid}

WellFormed(s) ==
  /\ Len(s) = 8
  /\ s[3] = 10 /\ s[6] = 10
  /\ \A i \in {1, 2, 4, 5, 7, 8} : s[i] \in 0..9
Seconds(s) ==
  ((10 * s[1] + s[2]) * 60 + (10 * s[4] + s[5])) * 60 + (10 * s[7] + s[8])

\* "Update sleep interval, based on results from hawkBit base polling
\* resource": a well-formed "HH:MM:SS" becomes the interval to the second,
\* and one of zero, which would have the client poll without a pause, leaves
\* it as it was.
IntervalFollowsServer ==
  [][pc = "update_sleep" /\ pc' = "find_deployment_base" /\ WellFormed(hawkbit_results.sleep)
       => poll_sleep' = IF Seconds(hawkbit_results.sleep) = 0 THEN poll_sleep
                        ELSE Seconds(hawkbit_results.sleep) * Second]_vars

\* One request structure and three buffers, shared by the requests of a poll
\* and of the polls after it, the client keeps the conversation of hawkBit:
\* method, resource, id and body of every request belong together, the
\* deployment read is the one offered, and the artifact fetched is its.
Session == INSTANCE DdiSession WITH request <- sent, last <- json_acid
ImplementsSession == Session!SessionSpec

\* A deployment that stays offered is read, whatever becomes of the reports
\* of configuration data that the server asks for on the way.
OfferedIsRead ==
  \A a \in Actions : offered = a ~> sent = Session!Deployment(a) \/ offered # a
-----------------------------------------------------------------------------
(* The inductive invariant behind StringsOutlived and ImplementsSession.   *)

Linked(href) == IF href = Garbage THEN NoAcid ELSE href

\* The documents and what has been copied from them.
DocumentInv ==
  /\ pc = "parse_base" => tcp_buffer \in BaseDocs /\ offered = Linked(tcp_buffer.href)
  /\ pc \in ReadPc \ {"parse_deployment"} => hawkbit_results \in BaseDocs
  /\ pc \in {"update_sleep", "find_deployment_base"} => offered = Linked(hawkbit_results.href)
  /\ pc \in {"report_config_data", "config_query", "deployment", "deployment_query"} =>
       deployment_base = offered
  /\ pc \in {"parse_json", "parse_deployment"} => tcp_buffer \in DocumentsOf(offered)
  /\ pc \in {"deployment_query", "parse_json", "parse_deployment", "acid_check", "install",
            "report_error", "feedback_query"} => offered # NoAcid

\* A failure, once reported, is one of the install or one of the document.
FailureSent ==
  \/ sent = Session!Deployment(offered)
  \/ /\ sent \in {Session!Feedback(offered, "proceeding"), Session!Artifact(offered)}
     /\ json_acid = offered

\* The request under construction, and the one sent before it.
RequestInv ==
  /\ pc = "base_query" =>
       http_req = [method |-> "GET", payload |-> FALSE] /\ url_buffer = Session!Base.url
  /\ pc = "config_query" =>
       /\ http_req = [method |-> "PUT", payload |-> TRUE]
       /\ url_buffer = Session!Config.url /\ status_buffer = Session!Config.body
  /\ pc = "deployment_query" =>
       /\ http_req = [method |-> "GET", payload |-> FALSE]
       /\ url_buffer = Session!Deployment(offered).url
  /\ pc = "feedback_query" =>
       /\ http_req = [method |-> "POST", payload |-> TRUE]
       /\ status_buffer.kind \in Statuses
       /\ url_buffer = Session!Feedback(json_acid, status_buffer.kind).url
       /\ status_buffer = Session!Feedback(json_acid, status_buffer.kind).body
SentInv ==
  /\ pc \in {"parse_base", "update_sleep", "find_deployment_base", "report_config_data",
            "config_query"} => sent = Session!Base
  /\ pc \in {"deployment", "deployment_query"} => sent \in {Session!Base, Session!Config}
  /\ pc \in {"parse_json", "parse_deployment"} => sent = Session!Deployment(offered)
  /\ pc = "acid_check" \/ (pc = "feedback_query" /\ status_buffer.kind # "failure") =>
       /\ sent = Session!Deployment(offered)
       /\ json_acid = offered /\ download_http = offered
  /\ pc = "install" =>
       /\ sent = Session!Feedback(offered, "proceeding")
       /\ json_acid = offered /\ download_http = offered
  /\ pc \in {"report_error", "feedback_query"} => FailureSent

IInv == TypeOK /\ StringsOutlived /\ DocumentInv /\ RequestInv /\ SentInv
=============================================================================
