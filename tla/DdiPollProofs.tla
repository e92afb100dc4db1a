---------------------------- MODULE DdiPollProofs ----------------------------
(***************************************************************************)
(* Proofs about DdiPoll: the polling interval for every string the server  *)
(* may send, the lifetime of the parsed strings, and that the client       *)
(* implements DdiSession.                                                  *)
(***************************************************************************)
EXTENDS DdiPoll, SequenceTheorems, TLAPS

-----------------------------------------------------------------------------
(* The polling interval.                                                   *)

LEMMA AtoiRange ==
  ASSUME NEW s \in Seq(0..10), Len(s) = 8, NEW at \in {0, 3, 6}
  PROVE  atoi_n(s, at) \in 0..99
<1>1. s[at + 1] \in 0..10 /\ s[at + 2] \in 0..10
  <2>1. at + 1 \in 1..Len(s) /\ at + 2 \in 1..Len(s)
    OBVIOUS
  <2>2. \A i \in 1..Len(s) : s[i] \in 0..10
    BY ElementOfSeq
  <2> QED
    BY <2>1, <2>2
<1> DEFINE a == s[at + 1]  b == s[at + 2]
<1>2. a \in 0..10 /\ b \in 0..10
  BY <1>1
<1>3. atoi_n(s, at) = IF a > 9 THEN 0 ELSE IF b > 9 THEN a ELSE 10 * a + b
  BY DEF atoi_n
<1> HIDE DEF a, b
<1> QED
  BY <1>2, <1>3

LEMMA Clock ==
  ASSUME NEW h \in 0..99, NEW m \in 0..99, NEW s \in 0..99
  PROVE  /\ h * 60 * 60 + m * 60 + s \in Nat
         /\ h * 60 * 60 + m * 60 + s <= 362439
         /\ h * 60 * 60 + m * 60 + s = (h * 60 + m) * 60 + s
OBVIOUS

LEMMA TimeRange ==
  ASSUME NEW s \in Seq(0..10), Len(s) = 8
  PROVE  hawkbit_time2sec(s) \in Nat /\ hawkbit_time2sec(s) <= 362439
<1>1. PICK h \in 0..99 : h = atoi_n(s, 0)
  BY AtoiRange
<1>2. PICK m \in 0..99 : m = atoi_n(s, 3)
  BY AtoiRange
<1>3. PICK t \in 0..99 : t = atoi_n(s, 6)
  BY AtoiRange
<1>4. hawkbit_time2sec(s) = h * 60 * 60 + m * 60 + t
  BY <1>1, <1>2, <1>3, Zenon DEF hawkbit_time2sec
<1> QED
  BY <1>4, Clock

\* hawkbit_time2sec reads every well-formed "HH:MM:SS" as the seconds it says.
THEOREM TimeIsExact ==
  ASSUME NEW s \in Seq(0..10), WellFormed(s)
  PROVE  hawkbit_time2sec(s) = Seconds(s)
<1>1. \A i \in {1, 2, 4, 5, 7, 8} : s[i] \in 0..9
  BY DEF WellFormed
<1>2. ASSUME NEW at \in {0, 3, 6}
      PROVE  /\ atoi_n(s, at) = 10 * s[at + 1] + s[at + 2]
             /\ 10 * s[at + 1] + s[at + 2] \in 0..99
  <2>1. s[at + 1] \in 0..9 /\ s[at + 2] \in 0..9
    BY <1>1
  <2> DEFINE a == s[at + 1]  b == s[at + 2]
  <2>2. atoi_n(s, at) = IF a > 9 THEN 0 ELSE IF b > 9 THEN a ELSE 10 * a + b
    BY DEF atoi_n
  <2> HIDE DEF a, b
  <2>3. a \in 0..9 /\ b \in 0..9
    BY <2>1 DEF a, b
  <2>4. atoi_n(s, at) = 10 * a + b /\ 10 * a + b \in 0..99
    BY <2>2, <2>3
  <2> QED
    BY <2>4 DEF a, b
<1>3. /\ atoi_n(s, 0) = 10 * s[1] + s[2] /\ 10 * s[1] + s[2] \in 0..99
      /\ atoi_n(s, 3) = 10 * s[4] + s[5] /\ 10 * s[4] + s[5] \in 0..99
      /\ atoi_n(s, 6) = 10 * s[7] + s[8] /\ 10 * s[7] + s[8] \in 0..99
  <2>1. 0 + 1 = 1 /\ 0 + 2 = 2 /\ 3 + 1 = 4 /\ 3 + 2 = 5 /\ 6 + 1 = 7 /\ 6 + 2 = 8
    OBVIOUS
  <2> QED
    BY <1>2, <2>1
<1> DEFINE h == 10 * s[1] + s[2]  m == 10 * s[4] + s[5]  t == 10 * s[7] + s[8]
<1>4. hawkbit_time2sec(s) = h * 60 * 60 + m * 60 + t
  BY <1>3 DEF hawkbit_time2sec
<1>5. Seconds(s) = (h * 60 + m) * 60 + t
  BY DEF Seconds
<1> HIDE DEF h, m, t
<1>6. h \in 0..99 /\ m \in 0..99 /\ t \in 0..99
  BY <1>3 DEF h, m, t
<1> QED
  BY <1>4, <1>5, <1>6, Clock

LEMMA SleepRange ==
  ASSUME TypeOK, NEW s \in SleepStrings \cup {<<>>}
  PROVE  Interval(SleepAfter(s))
<1>1. s \in Seq(0..10)
  <2>1. <<>> \in Seq(0..10)
    OBVIOUS
  <2> QED
    BY <2>1, DdiPollAssumption
<1>2. CASE Len(s) = 8 /\ hawkbit_time2sec(s) > 0
  <2>1. PICK n \in Nat : n = hawkbit_time2sec(s) /\ n <= 362439 /\ n > 0
    BY <1>1, <1>2, TimeRange
  <2>2. SleepAfter(s) = n * Second
    BY <1>2, <2>1 DEF SleepAfter
  <2> QED
    BY <2>1, <2>2 DEF Second, Interval
<1>3. CASE ~(Len(s) = 8 /\ hawkbit_time2sec(s) > 0)
  BY <1>3 DEF SleepAfter, TypeOK
<1> QED
  BY <1>2, <1>3

-----------------------------------------------------------------------------
(* Documents and requests.                                                 *)

LEMMA BaseFields ==
  ASSUME NEW doc \in BaseDocs
  PROVE  /\ doc \in Documents
         /\ doc.sleep \in SleepStrings \cup {<<>>}
         /\ doc.href \in Acids \cup {Garbage}
         /\ doc.configData \in BOOLEAN
         /\ Linked(doc.href) \in Acids
BY DdiPollAssumption DEF BaseDocs, Documents, Linked, Acids

LEMMA DeploymentFields ==
  ASSUME NEW a, NEW doc \in DocumentsOf(a)
  PROVE  /\ doc \in Documents
         /\ doc.id \in Actions \cup {Garbage} /\ doc.href \in Actions \cup {Garbage}
         /\ doc.id \in {a, Garbage} /\ doc.href \in {a, Garbage}
BY DEF DocumentsOf, DeploymentDocs, Documents

LEMMA IInit == Init => IInv
<1> SUFFICES ASSUME Init PROVE IInv
  OBVIOUS
<1> USE DEF Init, NoBody, NoRequest
<1>1. TypeOK
  BY DEF TypeOK, OtherPc, Interval, Second, Acids, Documents, Urls, Bodies, Methods
<1>2. StringsOutlived
  BY DdiPollAssumption DEF StringsOutlived, ReadPc
<1>3. DocumentInv /\ RequestInv /\ SentInv
  BY DEF DocumentInv, RequestInv, SentInv, ReadPc
<1> QED
  BY <1>1, <1>2, <1>3 DEF IInv

-----------------------------------------------------------------------------
(* One lemma for each action: it preserves the invariant, and it is a step *)
(* of the conversation or leaves it alone.                                 *)

SessionStep == [Session!SessionNext]_(Session!sessionVars)

LEMMA PollBaseStep == IInv /\ PollBase => IInv' /\ SessionStep
<1> SUFFICES ASSUME IInv, PollBase PROVE IInv' /\ SessionStep
  OBVIOUS
<1> USE DEF IInv, PollBase, FillRequest
<1>1. TypeOK'
  BY DEF TypeOK, QueryPc, localVars, Urls, Methods, Acids
<1>2. StringsOutlived'
  BY DdiPollAssumption DEF StringsOutlived, ReadPc, localVars
<1>3. DocumentInv'
  BY DEF DocumentInv, ReadPc
<1>4. RequestInv'
  BY DEF RequestInv, Session!Base, Session!Get
<1>5. SentInv'
  BY DEF SentInv
<1>6. SessionStep
  BY DEF SessionStep, Session!sessionVars
<1> QED
  BY <1>1, <1>2, <1>3, <1>4, <1>5, <1>6

LEMMA BaseQueryStep == IInv /\ BaseQuery => IInv' /\ SessionStep
<1> SUFFICES ASSUME IInv, BaseQuery PROVE IInv' /\ SessionStep
  OBVIOUS
<1> USE DEF IInv, BaseQuery, Query, Return
<1>1. TypeOK'
  BY BaseFields
  DEF TypeOK, OtherPc, localVars, requestVars, Documents, Bodies, Acids, NoBody
<1>2. StringsOutlived'
  BY DdiPollAssumption DEF StringsOutlived, ReadPc, localVars, requestVars
<1>3. DocumentInv'
  BY DEF DocumentInv, ReadPc, Linked
<1>4. RequestInv'
  BY DEF RequestInv
<1>5. SentInv'
  BY DEF SentInv, RequestInv, NoBody, Session!Base, Session!Get, Session!NoBody
<1>6. SessionStep
  BY BaseFields
  DEF SessionStep, Session!SessionNext, RequestInv, Session!AskBase, Acids, NoBody,
      Session!Base, Session!Get, Session!NoBody
<1> QED
  BY <1>1, <1>2, <1>3, <1>4, <1>5, <1>6

LEMMA ParseBaseStep == IInv /\ ParseBase => IInv' /\ SessionStep
<1> SUFFICES ASSUME IInv, ParseBase PROVE IInv' /\ SessionStep
  OBVIOUS
<1> USE DEF IInv, ParseBase
<1>1. TypeOK'
  BY DEF TypeOK, ReadPc, requestVars
<1>2. StringsOutlived'
  BY DEF StringsOutlived, requestVars
<1>3. DocumentInv'
  BY DEF DocumentInv
<1>4. RequestInv'
  BY DEF RequestInv
<1>5. SentInv'
  BY DEF SentInv
<1>6. SessionStep
  BY DEF SessionStep, Session!sessionVars
<1> QED
  BY <1>1, <1>2, <1>3, <1>4, <1>5, <1>6

LEMMA UpdateSleepStep == IInv /\ UpdateSleep => IInv' /\ SessionStep
<1> SUFFICES ASSUME IInv, UpdateSleep PROVE IInv' /\ SessionStep
  OBVIOUS
<1> USE DEF IInv, UpdateSleep
<1>1. TypeOK'
  BY BaseFields, SleepRange DEF TypeOK, ReadPc, localVars, requestVars, DocumentInv
<1>2. StringsOutlived'
  BY DEF StringsOutlived, ReadPc, localVars, requestVars
<1>3. DocumentInv'
  BY DEF DocumentInv, ReadPc, localVars
<1>4. RequestInv'
  BY DEF RequestInv
<1>5. SentInv'
  BY DEF SentInv
<1>6. SessionStep
  BY DEF SessionStep, Session!sessionVars
<1> QED
  BY <1>1, <1>2, <1>3, <1>4, <1>5, <1>6

LEMMA FindDeploymentBaseStep == IInv /\ FindDeploymentBase => IInv' /\ SessionStep
<1> SUFFICES ASSUME IInv, FindDeploymentBase PROVE IInv' /\ SessionStep
  OBVIOUS
<1> USE DEF IInv, FindDeploymentBase, Read, Return
<1>1. TypeOK'
  BY DEF TypeOK, OtherPc, ReadPc, requestVars, DocumentInv, Documents, Linked, Acids
<1>2. StringsOutlived'
  BY DdiPollAssumption DEF StringsOutlived, ReadPc, requestVars
<1>3. DocumentInv'
  BY DEF DocumentInv, ReadPc, Linked
<1>4. RequestInv'
  BY DEF RequestInv
<1>5. SentInv'
  BY DEF SentInv
<1>6. SessionStep
  BY DEF SessionStep, Session!sessionVars
<1> QED
  BY <1>1, <1>2, <1>3, <1>4, <1>5, <1>6

LEMMA ReportConfigDataStep == IInv /\ ReportConfigData => IInv' /\ SessionStep
<1> SUFFICES ASSUME IInv, ReportConfigData PROVE IInv' /\ SessionStep
  OBVIOUS
<1> USE DEF IInv, ReportConfigData, FillRequest
<1>1. TypeOK'
  <2>1. url_buffer' \in Urls /\ status_buffer' \in Bodies
    BY DEF TypeOK, requestVars, Urls, Bodies, Acids
  <2>2. http_req' \in [method : Methods, payload : BOOLEAN]
    <3>1. http_req' = http_req \/ \E m \in {"GET", "PUT"}, b \in BOOLEAN : FillRequest(m, b)
      BY DEF requestVars
    <3> QED
      BY <3>1 DEF TypeOK, Methods
  <2> QED
    BY <2>1, <2>2 DEF TypeOK, OtherPc, QueryPc, localVars
<1>2. StringsOutlived'
  BY DdiPollAssumption DEF StringsOutlived, ReadPc, localVars, requestVars
<1>3. DocumentInv'
  BY DEF DocumentInv, ReadPc, localVars
<1>4. RequestInv'
  BY DEF RequestInv, Session!Config
<1>5. SentInv'
  BY DEF SentInv
<1>6. SessionStep
  BY DEF SessionStep, Session!sessionVars
<1> QED
  BY <1>1, <1>2, <1>3, <1>4, <1>5, <1>6

LEMMA ConfigQueryStep == IInv /\ ConfigQuery => IInv' /\ SessionStep
<1> SUFFICES ASSUME IInv, ConfigQuery PROVE IInv' /\ SessionStep
  OBVIOUS
<1> USE DEF IInv, ConfigQuery, Query
<1>1. TypeOK'
  BY DEF TypeOK, OtherPc, localVars, requestVars, Documents, Bodies, Acids, NoBody
<1>2. StringsOutlived'
  BY DEF StringsOutlived, ReadPc, localVars, requestVars
<1>3. DocumentInv'
  BY DEF DocumentInv, ReadPc, localVars
<1>4. RequestInv'
  BY DEF RequestInv
<1>5. SentInv'
  BY DEF SentInv, RequestInv, Session!Config
<1>6. SessionStep
  BY DEF SessionStep, Session!SessionNext, SentInv, RequestInv, Session!SendConfig,
         Session!Config
<1> QED
  BY <1>1, <1>2, <1>3, <1>4, <1>5, <1>6

LEMMA PollDeploymentStep == IInv /\ PollDeployment => IInv' /\ SessionStep
<1> SUFFICES ASSUME IInv, PollDeployment PROVE IInv' /\ SessionStep
  OBVIOUS
<1> USE DEF IInv, PollDeployment, FillRequest, Return
<1>1. TypeOK'
  <2>1. url_buffer' \in Urls /\ status_buffer' \in Bodies
    BY DEF TypeOK, requestVars, Urls
  <2>2. http_req' \in [method : Methods, payload : BOOLEAN]
    <3>1. http_req' = http_req \/ \E m \in {"GET", "PUT"}, b \in BOOLEAN : FillRequest(m, b)
      BY DEF requestVars
    <3> QED
      BY <3>1 DEF TypeOK, Methods
  <2> QED
    BY <2>1, <2>2 DEF TypeOK, OtherPc, QueryPc, localVars, Documents
<1>2. StringsOutlived'
  BY DEF StringsOutlived, ReadPc, localVars, requestVars
<1>3. DocumentInv'
  BY DEF DocumentInv, ReadPc, localVars
<1>4. RequestInv'
  BY DEF RequestInv, DocumentInv, Session!Get, Session!Deployment
<1>5. SentInv'
  BY DEF SentInv
<1>6. SessionStep
  BY DEF SessionStep, Session!sessionVars
<1> QED
  BY <1>1, <1>2, <1>3, <1>4, <1>5, <1>6

LEMMA DeploymentQueryStep == IInv /\ DeploymentQuery => IInv' /\ SessionStep
<1> SUFFICES ASSUME IInv, DeploymentQuery PROVE IInv' /\ SessionStep
  OBVIOUS
<1> USE DEF IInv, DeploymentQuery, Query, Return
<1>1. TypeOK'
  BY DeploymentFields
  DEF TypeOK, OtherPc, localVars, requestVars, Documents, Bodies, Acids, NoBody
<1>2. StringsOutlived'
  BY DdiPollAssumption DEF StringsOutlived, ReadPc, localVars, requestVars
<1>3. DocumentInv'
  BY DEF DocumentInv, ReadPc, RequestInv, Session!Get, Session!Deployment
<1>4. RequestInv'
  BY DEF RequestInv
<1>5. SentInv'
  BY DEF SentInv, RequestInv, NoBody, Session!Get, Session!NoBody, Session!Deployment
<1>6. SessionStep
  BY DEF SessionStep, Session!SessionNext, SentInv, DocumentInv, RequestInv,
         Session!AskDeployment, NoBody, Session!Get, Session!NoBody, Session!Deployment
<1> QED
  BY <1>1, <1>2, <1>3, <1>4, <1>5, <1>6

LEMMA ParseJsonStep == IInv /\ ParseJson => IInv' /\ SessionStep
<1> SUFFICES ASSUME IInv, ParseJson PROVE IInv' /\ SessionStep
  OBVIOUS
<1> USE DEF IInv, ParseJson
<1>1. TypeOK'
  BY DEF TypeOK, OtherPc, ReadPc, requestVars, Documents
<1>2. StringsOutlived'
  BY DEF StringsOutlived, ReadPc, requestVars
<1>3. DocumentInv'
  BY DEF DocumentInv, ReadPc
<1>4. RequestInv'
  BY DEF RequestInv
<1>5. SentInv'
  BY DEF SentInv, FailureSent
<1>6. SessionStep
  BY DEF SessionStep, Session!sessionVars
<1> QED
  BY <1>1, <1>2, <1>3, <1>4, <1>5, <1>6

LEMMA ParseDeploymentStep == IInv /\ ParseDeployment => IInv' /\ SessionStep
<1> SUFFICES ASSUME IInv, ParseDeployment PROVE IInv' /\ SessionStep
  OBVIOUS
<1> USE DEF IInv, ParseDeployment, Read
<1>1. TypeOK'
  BY DeploymentFields DEF TypeOK, OtherPc, requestVars, DocumentInv
<1>2. StringsOutlived'
  BY DEF StringsOutlived, ReadPc, requestVars
<1>3. DocumentInv'
  BY DEF DocumentInv, ReadPc
<1>4. RequestInv'
  BY DEF RequestInv
<1>5. SentInv'
  BY DeploymentFields DEF SentInv, FailureSent, DocumentInv
<1>6. SessionStep
  BY DeploymentFields
  DEF SessionStep, Session!SessionNext, Session!sessionVars, SentInv, DocumentInv,
      Session!ReadDeployment
<1> QED
  BY <1>1, <1>2, <1>3, <1>4, <1>5, <1>6

LEMMA AcidCheckStep == IInv /\ AcidCheck => IInv' /\ SessionStep
<1> SUFFICES ASSUME IInv, AcidCheck PROVE IInv' /\ SessionStep
  OBVIOUS
<1> USE DEF IInv, AcidCheck, BuildFeedback, FillRequest
<1>1. TypeOK'
  BY DEF TypeOK, QueryPc, localVars, Urls, Bodies, Methods
<1>2. StringsOutlived'
  BY DdiPollAssumption DEF StringsOutlived, TypeOK, ReadPc, localVars, Acids
<1>3. DocumentInv'
  BY DEF DocumentInv, ReadPc
<1>4. RequestInv'
  BY DEF RequestInv, Session!Feedback
<1>5. SentInv'
  BY DEF SentInv, FailureSent, localVars
<1>6. SessionStep
  BY DEF SessionStep, Session!sessionVars
<1> QED
  BY <1>1, <1>2, <1>3, <1>4, <1>5, <1>6

LEMMA ReportErrorStep == IInv /\ ReportError => IInv' /\ SessionStep
<1> SUFFICES ASSUME IInv, ReportError PROVE IInv' /\ SessionStep
  OBVIOUS
<1> USE DEF IInv, ReportError, BuildFeedback, FillRequest
<1>1. TypeOK'
  BY DEF TypeOK, QueryPc, localVars, Statuses, Urls, Bodies, Methods
<1>2. StringsOutlived'
  BY DdiPollAssumption DEF StringsOutlived, TypeOK, ReadPc, localVars, Acids
<1>3. DocumentInv'
  BY DEF DocumentInv, ReadPc
<1>4. RequestInv'
  BY DEF RequestInv, Statuses, Session!Feedback
<1>5. SentInv'
  BY DEF SentInv, FailureSent
<1>6. SessionStep
  BY DEF SessionStep, Session!sessionVars
<1> QED
  BY <1>1, <1>2, <1>3, <1>4, <1>5, <1>6

LEMMA FeedbackQueryStep == IInv /\ FeedbackQuery => IInv' /\ SessionStep
<1> SUFFICES ASSUME IInv, FeedbackQuery PROVE IInv' /\ SessionStep
  OBVIOUS
<1> USE DEF IInv, FeedbackQuery, Query, Return
<1>1. TypeOK'
  BY DEF TypeOK, OtherPc, localVars, requestVars, Documents, Bodies, Acids, NoBody
<1>2. StringsOutlived'
  BY DdiPollAssumption DEF StringsOutlived, ReadPc, localVars, requestVars
<1>3. DocumentInv'
  BY DEF DocumentInv, ReadPc
<1>4. RequestInv'
  BY DEF RequestInv
<1>5. SentInv'
  BY DEF SentInv, RequestInv, localVars, Session!Feedback
<1>6. SessionStep
  BY DEF SessionStep, Session!SessionNext, SentInv, FailureSent, RequestInv, Statuses,
         Session!Report, Session!ReportFailure, Session!Feedback
<1> QED
  BY <1>1, <1>2, <1>3, <1>4, <1>5, <1>6

LEMMA InstallStep == IInv /\ Install => IInv' /\ SessionStep
<1> SUFFICES ASSUME IInv, Install PROVE IInv' /\ SessionStep
  OBVIOUS
<1> USE DEF IInv, Install
<1>1. TypeOK'
  BY DEF TypeOK, OtherPc, localVars, requestVars, Documents, Urls, Bodies, Methods, Acids,
         NoBody
<1>2. StringsOutlived'
  BY DEF StringsOutlived, ReadPc, localVars, requestVars
<1>3. DocumentInv'
  BY DEF DocumentInv, ReadPc
<1>4. RequestInv'
  BY DEF RequestInv
<1>5. SentInv'
  BY DEF SentInv, FailureSent, NoBody, Session!Get, Session!NoBody, Session!Artifact
<1>6. SessionStep
  BY DEF SessionStep, Session!SessionNext, Session!sessionVars, SentInv, Session!Download,
         NoBody, Session!Get, Session!NoBody, Session!Artifact
<1> QED
  BY <1>1, <1>2, <1>3, <1>4, <1>5, <1>6

LEMMA ResetStep == IInv /\ Reset => IInv' /\ SessionStep
<1> SUFFICES ASSUME IInv, Reset PROVE IInv' /\ SessionStep
  OBVIOUS
<1> USE DEF IInv, Reset
<1>1. TypeOK'
  BY DEF TypeOK, OtherPc, Documents, NoRequest, Interval, Second, Urls, Bodies, Methods,
         Acids, NoBody
<1>2. StringsOutlived'
  BY DdiPollAssumption DEF StringsOutlived, NoRequest, NoBody
<1>3. DocumentInv'
  BY DEF DocumentInv, ReadPc
<1>4. RequestInv'
  BY DEF RequestInv
<1>5. SentInv'
  BY DEF SentInv
<1>6. SessionStep
  BY DEF SessionStep, Session!SessionNext, NoRequest, Session!Restart, Session!NoRequest,
         NoBody, Session!NoBody
<1> QED
  BY <1>1, <1>2, <1>3, <1>4, <1>5, <1>6

LEMMA IStep == IInv /\ [Next]_vars => IInv' /\ SessionStep
<1> SUFFICES ASSUME IInv, [Next]_vars PROVE IInv' /\ SessionStep
  OBVIOUS
<1>1. CASE PollBase \/ BaseQuery \/ ParseBase \/ UpdateSleep \/ FindDeploymentBase
  BY <1>1, PollBaseStep, BaseQueryStep, ParseBaseStep, UpdateSleepStep,
     FindDeploymentBaseStep
<1>2. CASE ReportConfigData \/ ConfigQuery \/ PollDeployment \/ DeploymentQuery
  BY <1>2, ReportConfigDataStep, ConfigQueryStep, PollDeploymentStep, DeploymentQueryStep
<1>3. CASE ParseJson \/ ParseDeployment \/ AcidCheck \/ ReportError
  BY <1>3, ParseJsonStep, ParseDeploymentStep, AcidCheckStep, ReportErrorStep
<1>4. CASE FeedbackQuery \/ Install \/ Reset
  BY <1>4, FeedbackQueryStep, InstallStep, ResetStep
<1>5. CASE UNCHANGED vars
  <2>1. IInv'
    BY <1>5 DEF vars, requestVars, localVars, IInv, TypeOK, Interval, StringsOutlived,
                DocumentInv, RequestInv, SentInv, FailureSent
  <2>2. SessionStep
    BY <1>5 DEF vars, SessionStep, Session!sessionVars
  <2> QED
    BY <2>1, <2>2
<1> QED
  BY <1>1, <1>2, <1>3, <1>4, <1>5 DEF Next, Poll

-----------------------------------------------------------------------------
(* The theorems.                                                           *)

\* The inductive invariant: at each place of a poll, which document the receive
\* buffer holds, what the request under construction is and what was sent
\* before it, although all requests share the buffers and the structure.
THEOREM Invariant == Spec => []IInv
BY IInit, IStep, PTL DEF Spec

\* The types, and the interval between a second and 99:99:99 whatever the
\* server sends (hawkbit_update_sleep).
THEOREM PollTypeCorrect == Spec => []TypeOK
<1>1. IInv => TypeOK
  BY DEF IInv
<1> QED
  BY <1>1, Invariant, PTL

\* No string of a parsed document is read, kept or sent after its buffer has
\* been filled anew.
THEOREM StringsAreOutlived == Spec => []StringsOutlived
<1>1. IInv => StringsOutlived
  BY DEF IInv
<1> QED
  BY <1>1, Invariant, PTL

\* A well-formed interval is taken over to the second, for every string.
THEOREM IntervalIsTheServers == Spec => IntervalFollowsServer
<1> DEFINE A == pc = "update_sleep" /\ pc' = "find_deployment_base"
                  /\ WellFormed(hawkbit_results.sleep)
                => poll_sleep' = IF Seconds(hawkbit_results.sleep) = 0 THEN poll_sleep
                                 ELSE Seconds(hawkbit_results.sleep) * Second
<1>1. IInv /\ [Next]_vars => [A]_vars
  <2> SUFFICES ASSUME IInv, Next, pc = "update_sleep", pc' = "find_deployment_base",
                      WellFormed(hawkbit_results.sleep)
               PROVE  poll_sleep' = IF Seconds(hawkbit_results.sleep) = 0 THEN poll_sleep
                                    ELSE Seconds(hawkbit_results.sleep) * Second
    OBVIOUS
  <2> DEFINE s == hawkbit_results.sleep
  <2>1. hawkbit_results \in BaseDocs
    BY DEF IInv, DocumentInv, ReadPc
  <2>2. poll_sleep' = SleepAfter(s)
    BY DEF Next, Poll, PollBase, BaseQuery, ParseBase, UpdateSleep, FindDeploymentBase,
           ReportConfigData, ConfigQuery, PollDeployment, DeploymentQuery, ParseJson,
           ParseDeployment, AcidCheck, ReportError, FeedbackQuery, Install, Reset
  <2>3. s \in SleepStrings \cup {<<>>}
    BY <2>1, BaseFields
  <2>4. s \in Seq(0..10)
    <3>1. <<>> \in Seq(0..10)
      OBVIOUS
    <3> QED
      BY <2>3, <3>1, DdiPollAssumption
  <2>5. Len(s) = 8
    BY DEF WellFormed
  <2>6. hawkbit_time2sec(s) = Seconds(s) /\ hawkbit_time2sec(s) \in Nat
    BY <2>4, <2>5, TimeIsExact, TimeRange
  <2> HIDE DEF s
  <2>7. poll_sleep' = IF Seconds(s) = 0 THEN poll_sleep ELSE Seconds(s) * Second
    BY <2>2, <2>5, <2>6 DEF SleepAfter
  <2> QED
    BY <2>7 DEF s
<1>2. Spec => [][A]_vars
  BY <1>1, Invariant, PTL DEF Spec
<1> QED
  BY <1>2 DEF IntervalFollowsServer

\* The requests of the client, over shared buffers and one request structure,
\* are the conversation of DdiSession.
THEOREM ClientKeepsSession == Spec => ImplementsSession
<1>1. Init => Session!SessionInit
  BY DEF Init, Session!SessionInit, NoRequest, NoBody, Session!NoRequest, Session!NoBody
<1>2. IInv /\ [Next]_vars => [Session!SessionNext]_(Session!sessionVars)
  BY IStep DEF SessionStep
<1> QED
  BY <1>1, <1>2, Invariant, PTL DEF Spec, ImplementsSession, Session!SessionSpec

-----------------------------------------------------------------------------
(* An offer is followed.                                                   *)

\* A poll that is over had no deployment offered, or asked for it.
OfferInv ==
  pc = "idle" /\ offered # NoAcid => sent \notin {NoRequest, Session!Base, Session!Config}

LEMMA OfferStep == IInv /\ OfferInv /\ [Next]_vars => OfferInv'
<1> SUFFICES ASSUME IInv, OfferInv, [Next]_vars, pc' = "idle", offered' # NoAcid
             PROVE  sent' \notin {NoRequest, Session!Base, Session!Config}
  BY DEF OfferInv
<1> USE DEF NoRequest, NoBody, Session!Base, Session!Config, Session!Get, Session!NoBody
<1>1. CASE FindDeploymentBase
  <2>1. Read("href") = Garbage /\ offered' = offered
    BY <1>1 DEF FindDeploymentBase
  <2>2. hawkbit_results.href = Garbage
    BY <1>1, <2>1 DEF FindDeploymentBase, Read, IInv, StringsOutlived, ReadPc
  <2>3. offered = NoAcid
    BY <1>1, <2>2 DEF FindDeploymentBase, IInv, DocumentInv, Linked
  <2> QED
    BY <2>1, <2>3
<1>2. CASE PollDeployment
  <2>1. deployment_base = NoAcid /\ offered' = offered
    BY <1>2 DEF PollDeployment
  <2>2. offered = NoAcid
    BY <1>2, <2>1 DEF PollDeployment, IInv, DocumentInv
  <2> QED
    BY <2>1, <2>2
<1>3. CASE DeploymentQuery
  <2>1. sent'.method = "GET" /\ sent'.url = url_buffer
    BY <1>3 DEF DeploymentQuery, Query, IInv, RequestInv
  <2>2. url_buffer.kind = "deployment"
    BY <1>3 DEF DeploymentQuery, IInv, RequestInv, Session!Deployment
  <2> QED
    BY <2>1, <2>2
<1>4. CASE FeedbackQuery
  <2>1. sent'.method = "POST"
    BY <1>4 DEF FeedbackQuery, Query, IInv, RequestInv
  <2> QED
    BY <2>1
<1>5. CASE UNCHANGED vars
  BY <1>5 DEF vars, OfferInv
<1>6. CASE BaseQuery \/ Reset
  BY <1>6 DEF BaseQuery, Reset
<1> QED
  BY <1>1, <1>2, <1>3, <1>4, <1>5, <1>6
  DEF Next, Poll, PollBase, ParseBase, UpdateSleep, ReportConfigData, ConfigQuery, ParseJson,
      ParseDeployment, AcidCheck, ReportError, BuildFeedback, Install

\* No poll that was offered a deployment ends before the client has asked for
\* that deployment, whatever becomes of the report of configuration data that
\* comes first and of every answer.  (That the poll goes on is left to the
\* fairness of the queue and of the queries.)
THEOREM OfferIsFollowed == Spec => []OfferInv
<1>1. Init => OfferInv
  BY DEF Init, OfferInv
<1> QED
  BY <1>1, Invariant, OfferStep, PTL DEF Spec
=============================================================================
