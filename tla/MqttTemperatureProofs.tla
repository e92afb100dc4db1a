------------------------ MODULE MqttTemperatureProofs ------------------------
(***************************************************************************)
(* Proofs about MqttTemperature: the types, the truth of the test report,  *)
(* when the device may and must reboot, that messages go out in a session  *)
(* only, and how many steps a run of the handler can take.                 *)
(***************************************************************************)
EXTENDS MqttTemperature, TLAPS

\* The parts of TypeOK that count.
Counters ==
  /\ tries \in 0..(MqttConnectTries + AppConnectTries)
  /\ next \in 1..(NumSensors + 1)
  /\ failures \in 0..(MaxFailures - 1)
  /\ connacks \in 0..AppConnectTries
  /\ barren \in 0..MaxFailures

USE DEF linkVars, resultVars, historyVars

LEMMA IInit == Init => IInv
<1> SUFFICES ASSUME Init PROVE IInv
  OBVIOUS
<1>1. TypeOK
  <2>1. tc_results \in Seq(BOOLEAN) /\ Len(tc_results) <= NumTestResults
    BY MqttAssumption DEF Init
  <2>2. Counters
    BY MqttAssumption DEF Init, Counters
  <2> QED
    BY <2>1, <2>2 DEF Init, TypeOK, Counters, Pc
<1>2. LoopInv /\ RunInv /\ SessionInv
  BY DEF Init, LoopInv, RunInv, SessionInv, ConnectPc
<1> QED
  BY <1>1, <1>2 DEF IInv

LEMMA TryToPublishStep == IInv /\ TryToPublish => IInv'
<1> SUFFICES ASSUME IInv, TryToPublish PROVE IInv'
  OBVIOUS
<1>1. TypeOK'
  <2>1. tc_results' \in Seq(BOOLEAN) /\ Len(tc_results') <= NumTestResults
    BY MqttAssumption DEF IInv, TypeOK, TryToPublish
  <2>2. Counters'
    BY MqttAssumption DEF IInv, TypeOK, LoopInv, RunInv, Counters, TryToPublish
  <2> QED
    BY <2>1, <2>2 DEF IInv, TypeOK, Counters, Pc, ConnectPc, TryToPublish
<1>2. LoopInv'
  BY MqttAssumption DEF IInv, TypeOK, LoopInv, ConnectPc, TryToPublish
<1>3. RunInv'
  BY MqttAssumption DEF IInv, TypeOK, RunInv, ConnectPc, TryToPublish
<1>4. SessionInv'
  BY DEF IInv, SessionInv, TryToPublish
<1> QED
  BY <1>1, <1>2, <1>3, <1>4 DEF IInv

LEMMA MqttConnectStep == IInv /\ MqttConnect => IInv'
<1> SUFFICES ASSUME IInv, MqttConnect PROVE IInv'
  OBVIOUS
<1>1. TypeOK'
  <2>1. tc_results' \in Seq(BOOLEAN) /\ Len(tc_results') <= NumTestResults
    BY MqttAssumption DEF IInv, TypeOK, MqttConnect, Result
  <2>2. Counters'
    BY MqttAssumption DEF IInv, TypeOK, LoopInv, RunInv, Counters, MqttConnect, Result
  <2> QED
    BY <2>1, <2>2 DEF IInv, TypeOK, Counters, Pc, ConnectPc, MqttConnect, Result
<1>2. LoopInv'
  <2>1. next <= NumSensors /\ UNCHANGED next /\ tries \in Nat /\ tries < MqttConnectTries
    BY MqttAssumption DEF IInv, TypeOK, LoopInv, ConnectPc, MqttConnect
  <2>2. CASE pc' = "tx_connect" /\ tries' = 0 /\ connacks' = 0
    BY <2>1, <2>2, MqttAssumption DEF LoopInv, ConnectPc
  <2>3. CASE /\ tries' = tries + 1
             /\ pc' = "connect" => tries' # MqttConnectTries
             /\ pc' \in {"connect", "reboot_check"}
    BY <2>1, <2>3, MqttAssumption DEF LoopInv, ConnectPc
  <2> QED
    BY <2>2, <2>3 DEF MqttConnect
<1>3. RunInv'
  BY MqttAssumption DEF IInv, TypeOK, RunInv, ConnectPc, MqttConnect, Result
<1>4. SessionInv'
  BY DEF IInv, SessionInv, MqttConnect, Result
<1> QED
  BY <1>1, <1>2, <1>3, <1>4 DEF IInv

LEMMA TxConnectStep == IInv /\ TxConnect => IInv'
<1> SUFFICES ASSUME IInv, TxConnect PROVE IInv'
  OBVIOUS
<1>1. TypeOK'
  <2>1. tc_results' \in Seq(BOOLEAN) /\ Len(tc_results') <= NumTestResults
    BY MqttAssumption DEF IInv, TypeOK, TxConnect, NextTry
  <2>2. Counters'
    BY MqttAssumption DEF IInv, TypeOK, LoopInv, RunInv, Counters, TxConnect, NextTry
  <2> QED
    BY <2>1, <2>2 DEF IInv, TypeOK, Counters, Pc, ConnectPc, TxConnect, NextTry
<1>2. LoopInv'
  BY MqttAssumption DEF IInv, TypeOK, LoopInv, ConnectPc, TxConnect, NextTry
<1>3. RunInv'
  BY MqttAssumption DEF IInv, TypeOK, RunInv, ConnectPc, TxConnect, NextTry
<1>4. SessionInv'
  BY DEF IInv, SessionInv, TxConnect, NextTry
<1> QED
  BY <1>1, <1>2, <1>3, <1>4 DEF IInv

LEMMA WaitStep == IInv /\ Wait => IInv'
<1> SUFFICES ASSUME IInv, Wait PROVE IInv'
  OBVIOUS
<1>1. TypeOK'
  <2>1. tc_results' \in Seq(BOOLEAN) /\ Len(tc_results') <= NumTestResults
    BY MqttAssumption DEF IInv, TypeOK, Wait
  <2>2. Counters'
    BY MqttAssumption DEF IInv, TypeOK, LoopInv, RunInv, Counters, Wait
  <2> QED
    BY <2>1, <2>2 DEF IInv, TypeOK, Counters, Pc, ConnectPc, Wait
<1>2. LoopInv'
  BY MqttAssumption DEF IInv, TypeOK, LoopInv, ConnectPc, Wait
<1>3. RunInv'
  BY MqttAssumption DEF IInv, TypeOK, RunInv, ConnectPc, Wait
<1>4. SessionInv'
  BY DEF IInv, SessionInv, Wait
<1> QED
  BY <1>1, <1>2, <1>3, <1>4 DEF IInv

LEMMA CheckConnectedStep == IInv /\ CheckConnected => IInv'
<1> SUFFICES ASSUME IInv, CheckConnected PROVE IInv'
  OBVIOUS
<1>1. TypeOK'
  <2>1. tc_results' \in Seq(BOOLEAN) /\ Len(tc_results') <= NumTestResults
    BY MqttAssumption DEF IInv, TypeOK, CheckConnected, NextTry
  <2>2. Counters'
    BY MqttAssumption DEF IInv, TypeOK, LoopInv, RunInv, Counters, CheckConnected, NextTry
  <2> QED
    BY <2>1, <2>2 DEF IInv, TypeOK, Counters, Pc, ConnectPc, CheckConnected, NextTry
<1>2. LoopInv'
  BY MqttAssumption DEF IInv, TypeOK, LoopInv, ConnectPc, CheckConnected, NextTry
<1>3. RunInv'
  BY MqttAssumption DEF IInv, TypeOK, RunInv, ConnectPc, CheckConnected, NextTry
<1>4. SessionInv'
  BY DEF IInv, SessionInv, CheckConnected, NextTry
<1> QED
  BY <1>1, <1>2, <1>3, <1>4 DEF IInv

LEMMA CloseStep == IInv /\ Close => IInv'
<1> SUFFICES ASSUME IInv, Close PROVE IInv'
  OBVIOUS
<1>1. TypeOK'
  <2>1. tc_results' \in Seq(BOOLEAN) /\ Len(tc_results') <= NumTestResults
    BY MqttAssumption DEF IInv, TypeOK, Close
  <2>2. Counters'
    BY MqttAssumption DEF IInv, TypeOK, LoopInv, RunInv, Counters, Close
  <2> QED
    BY <2>1, <2>2 DEF IInv, TypeOK, Counters, Pc, ConnectPc, Close
<1>2. LoopInv'
  BY MqttAssumption DEF IInv, TypeOK, LoopInv, ConnectPc, Close
<1>3. RunInv'
  BY MqttAssumption DEF IInv, TypeOK, RunInv, ConnectPc, Close
<1>4. SessionInv'
  BY DEF IInv, SessionInv, Close
<1> QED
  BY <1>1, <1>2, <1>3, <1>4 DEF IInv

LEMMA ReadTemperatureStep == IInv /\ ReadTemperature => IInv'
<1> SUFFICES ASSUME IInv, ReadTemperature PROVE IInv'
  OBVIOUS
<1>1. TypeOK'
  <2>1. tc_results' \in Seq(BOOLEAN) /\ Len(tc_results') <= NumTestResults
    BY MqttAssumption DEF IInv, TypeOK, ReadTemperature, Result
  <2>2. Counters'
    BY MqttAssumption DEF IInv, TypeOK, LoopInv, RunInv, Counters, ReadTemperature, Result
  <2> QED
    BY <2>1, <2>2 DEF IInv, TypeOK, Counters, Pc, ConnectPc, ReadTemperature, Result
<1>2. LoopInv'
  BY MqttAssumption DEF IInv, TypeOK, LoopInv, ConnectPc, ReadTemperature, Result
<1>3. RunInv'
  BY MqttAssumption DEF IInv, TypeOK, RunInv, ConnectPc, ReadTemperature, Result
<1>4. SessionInv'
  BY DEF IInv, SessionInv, ReadTemperature, Result
<1> QED
  BY <1>1, <1>2, <1>3, <1>4 DEF IInv

LEMMA PublishStep == IInv /\ Publish => IInv'
<1> SUFFICES ASSUME IInv, Publish PROVE IInv'
  OBVIOUS
<1>1. TypeOK'
  <2>1. tc_results' \in Seq(BOOLEAN) /\ Len(tc_results') <= NumTestResults
    BY MqttAssumption DEF IInv, TypeOK, Publish, Result
  <2>2. Counters'
    BY MqttAssumption DEF IInv, TypeOK, LoopInv, RunInv, Counters, Publish, Result
  <2> QED
    BY <2>1, <2>2 DEF IInv, TypeOK, Counters, Pc, ConnectPc, Publish, Result
<1>2. LoopInv'
  BY MqttAssumption DEF IInv, TypeOK, LoopInv, ConnectPc, Publish, Result
<1>3. RunInv'
  BY MqttAssumption DEF IInv, TypeOK, RunInv, ConnectPc, Publish, Result
<1>4. SessionInv'
  BY DEF IInv, SessionInv, Publish, Result
<1> QED
  BY <1>1, <1>2, <1>3, <1>4 DEF IInv

LEMMA HandleTestResultStep == IInv /\ HandleTestResult => IInv'
<1> SUFFICES ASSUME IInv, HandleTestResult PROVE IInv'
  OBVIOUS
<1>1. TypeOK'
  <2>1. tc_results' \in Seq(BOOLEAN) /\ Len(tc_results') <= NumTestResults
    <3>1. CASE Len(tc_results) >= NumTestResults
      BY <3>1 DEF IInv, TypeOK, HandleTestResult
    <3>2. CASE Len(tc_results) < NumTestResults
      <4>1. /\ Append(tc_results, ret) \in Seq(BOOLEAN)
            /\ Len(Append(tc_results, ret)) = Len(tc_results) + 1
        BY DEF IInv, TypeOK
      <4>2. tc_results' = Append(tc_results, ret) /\ Len(tc_results) \in Nat
        BY <3>2, MqttAssumption DEF IInv, TypeOK, HandleTestResult
      <4> QED
        BY <3>2, <4>1, <4>2, MqttAssumption
    <3> QED
      BY <3>1, <3>2, MqttAssumption DEF IInv, TypeOK
  <2>2. Counters'
    BY MqttAssumption DEF IInv, TypeOK, LoopInv, RunInv, Counters, HandleTestResult
  <2> QED
    BY <2>1, <2>2 DEF IInv, TypeOK, Counters, Pc, ConnectPc, HandleTestResult
<1>2. LoopInv'
  BY MqttAssumption DEF IInv, TypeOK, LoopInv, ConnectPc, HandleTestResult
<1>3. RunInv'
  BY MqttAssumption DEF IInv, TypeOK, RunInv, ConnectPc, HandleTestResult
<1>4. SessionInv'
  BY DEF IInv, SessionInv, HandleTestResult
<1> QED
  BY <1>1, <1>2, <1>3, <1>4 DEF IInv

LEMMA RebootCheckStep == IInv /\ RebootCheck => IInv'
<1> SUFFICES ASSUME IInv, RebootCheck PROVE IInv'
  OBVIOUS
<1>1. TypeOK'
  <2>1. tc_results' \in Seq(BOOLEAN) /\ Len(tc_results') <= NumTestResults
    BY MqttAssumption DEF IInv, TypeOK, RebootCheck, CountRun
  <2>2. Counters'
    BY MqttAssumption DEF IInv, TypeOK, LoopInv, RunInv, Counters, RebootCheck, CountRun
  <2> QED
    BY <2>1, <2>2 DEF IInv, TypeOK, Counters, Pc, ConnectPc, RebootCheck, CountRun
<1>2. LoopInv'
  BY MqttAssumption DEF IInv, TypeOK, LoopInv, ConnectPc, RebootCheck, CountRun
<1>3. RunInv'
  BY MqttAssumption DEF IInv, TypeOK, RunInv, ConnectPc, RebootCheck, CountRun
<1>4. SessionInv'
  BY DEF IInv, SessionInv, RebootCheck, CountRun
<1> QED
  BY <1>1, <1>2, <1>3, <1>4 DEF IInv

LEMMA BootStep == IInv /\ Boot => IInv'
<1> SUFFICES ASSUME IInv, Boot PROVE IInv'
  OBVIOUS
<1>1. TypeOK'
  <2>1. tc_results' \in Seq(BOOLEAN) /\ Len(tc_results') <= NumTestResults
    BY MqttAssumption DEF IInv, TypeOK, Boot
  <2>2. Counters'
    BY MqttAssumption DEF IInv, TypeOK, LoopInv, RunInv, Counters, Boot
  <2> QED
    BY <2>1, <2>2 DEF IInv, TypeOK, Counters, Pc, ConnectPc, Boot
<1>2. LoopInv'
  BY MqttAssumption DEF IInv, TypeOK, LoopInv, ConnectPc, Boot
<1>3. RunInv'
  BY MqttAssumption DEF IInv, TypeOK, RunInv, ConnectPc, Boot
<1>4. SessionInv'
  BY DEF IInv, SessionInv, Boot
<1> QED
  BY <1>1, <1>2, <1>3, <1>4 DEF IInv

LEMMA PrintResultStep == IInv /\ PrintResult => IInv'
<1> SUFFICES ASSUME IInv, PrintResult PROVE IInv'
  OBVIOUS
<1>1. TypeOK'
  <2>1. tc_results' \in Seq(BOOLEAN) /\ Len(tc_results') <= NumTestResults
    BY MqttAssumption DEF IInv, TypeOK, PrintResult
  <2>2. Counters'
    BY MqttAssumption DEF IInv, TypeOK, LoopInv, RunInv, Counters, PrintResult
  <2> QED
    BY <2>1, <2>2 DEF IInv, TypeOK, Counters, Pc, ConnectPc, PrintResult
<1>2. LoopInv'
  BY MqttAssumption DEF IInv, TypeOK, LoopInv, ConnectPc, PrintResult
<1>3. RunInv'
  BY MqttAssumption DEF IInv, TypeOK, RunInv, ConnectPc, PrintResult
<1>4. SessionInv'
  BY DEF IInv, SessionInv, PrintResult
<1> QED
  BY <1>1, <1>2, <1>3, <1>4 DEF IInv

LEMMA ConnectCbStep == IInv /\ ConnectCb => IInv'
<1> SUFFICES ASSUME IInv, ConnectCb PROVE IInv'
  OBVIOUS
<1>1. TypeOK'
  <2>1. tc_results' \in Seq(BOOLEAN) /\ Len(tc_results') <= NumTestResults
    BY MqttAssumption DEF IInv, TypeOK, ConnectCb
  <2>2. Counters'
    BY MqttAssumption DEF IInv, TypeOK, LoopInv, RunInv, Counters, ConnectCb
  <2> QED
    BY <2>1, <2>2 DEF IInv, TypeOK, Counters, Pc, ConnectPc, ConnectCb
<1>2. LoopInv'
  BY MqttAssumption DEF IInv, TypeOK, LoopInv, ConnectPc, ConnectCb
<1>3. RunInv'
  BY MqttAssumption DEF IInv, TypeOK, RunInv, ConnectPc, ConnectCb
<1>4. SessionInv'
  BY DEF IInv, SessionInv, ConnectCb
<1> QED
  BY <1>1, <1>2, <1>3, <1>4 DEF IInv

LEMMA DisconnectCbStep == IInv /\ DisconnectCb => IInv'
<1> SUFFICES ASSUME IInv, DisconnectCb PROVE IInv'
  OBVIOUS
<1>1. TypeOK'
  <2>1. tc_results' \in Seq(BOOLEAN) /\ Len(tc_results') <= NumTestResults
    BY MqttAssumption DEF IInv, TypeOK, DisconnectCb
  <2>2. Counters'
    BY MqttAssumption DEF IInv, TypeOK, LoopInv, RunInv, Counters, DisconnectCb
  <2> QED
    BY <2>1, <2>2 DEF IInv, TypeOK, Counters, Pc, ConnectPc, DisconnectCb
<1>2. LoopInv'
  BY MqttAssumption DEF IInv, TypeOK, LoopInv, ConnectPc, DisconnectCb
<1>3. RunInv'
  BY MqttAssumption DEF IInv, TypeOK, RunInv, ConnectPc, DisconnectCb
<1>4. SessionInv'
  BY DEF IInv, SessionInv, DisconnectCb
<1> QED
  BY <1>1, <1>2, <1>3, <1>4 DEF IInv

LEMMA TcpBreaksStep == IInv /\ TcpBreaks => IInv'
<1> SUFFICES ASSUME IInv, TcpBreaks PROVE IInv'
  OBVIOUS
<1>1. TypeOK'
  <2>1. tc_results' \in Seq(BOOLEAN) /\ Len(tc_results') <= NumTestResults
    BY MqttAssumption DEF IInv, TypeOK, TcpBreaks
  <2>2. Counters'
    BY MqttAssumption DEF IInv, TypeOK, LoopInv, RunInv, Counters, TcpBreaks
  <2> QED
    BY <2>1, <2>2 DEF IInv, TypeOK, Counters, Pc, ConnectPc, TcpBreaks
<1>2. LoopInv'
  BY MqttAssumption DEF IInv, TypeOK, LoopInv, ConnectPc, TcpBreaks
<1>3. RunInv'
  BY MqttAssumption DEF IInv, TypeOK, RunInv, ConnectPc, TcpBreaks
<1>4. SessionInv'
  BY DEF IInv, SessionInv, TcpBreaks
<1> QED
  BY <1>1, <1>2, <1>3, <1>4 DEF IInv

LEMMA ChangeStep == IInv /\ (Worsens \/ Recovers) => IInv'
<1> SUFFICES ASSUME IInv, (Worsens \/ Recovers) PROVE IInv'
  OBVIOUS
<1>1. TypeOK'
  <2>1. tc_results' \in Seq(BOOLEAN) /\ Len(tc_results') <= NumTestResults
    BY MqttAssumption DEF IInv, TypeOK, Worsens, Recovers
  <2>2. Counters'
    BY MqttAssumption DEF IInv, TypeOK, LoopInv, RunInv, Counters, Worsens, Recovers
  <2>3. good' \in BOOLEAN /\ UNCHANGED <<pc, ret, linkVars, resultVars, historyVars>>
    BY DEF Worsens, Recovers
  <2> QED
    BY <2>1, <2>2, <2>3 DEF IInv, TypeOK, Counters
<1>2. LoopInv'
  BY MqttAssumption DEF IInv, TypeOK, LoopInv, ConnectPc, Worsens, Recovers
<1>3. RunInv'
  BY MqttAssumption DEF IInv, TypeOK, RunInv, ConnectPc, Worsens, Recovers
<1>4. SessionInv'
  BY DEF IInv, SessionInv, Worsens, Recovers
<1> QED
  BY <1>1, <1>2, <1>3, <1>4 DEF IInv

LEMMA IStep == IInv /\ [Next]_vars => IInv'
<1> SUFFICES ASSUME IInv, [Next]_vars PROVE IInv'
  OBVIOUS
<1>1. CASE TryToPublish \/ PrintResult \/ World
  BY <1>1, TryToPublishStep, PrintResultStep, ConnectCbStep, DisconnectCbStep,
     TcpBreaksStep, ChangeStep DEF World
<1>2. CASE Handler
  BY <1>2, MqttConnectStep, TxConnectStep, WaitStep, CheckConnectedStep, CloseStep,
     ReadTemperatureStep, PublishStep, HandleTestResultStep, RebootCheckStep, BootStep
     DEF Handler, Reboot
<1>3. CASE UNCHANGED vars
  BY <1>3 DEF vars, IInv, TypeOK, LoopInv, RunInv, SessionInv
<1> QED
  BY <1>1, <1>2, <1>3 DEF Next

-----------------------------------------------------------------------------
(* The theorems, for any number of tries, failures, results and sensors.   *)

\* The inductive invariant: the loops stay within their counts, ret and
\* data->failures agree with what happened to the messages, and an open
\* connection has a session when a message is about to go out.
THEOREM Invariant == Spec => []IInv
BY IInit, IStep, PTL DEF Spec

\* The types: the loops end, tc_results is never indexed past its end, and the
\* failures stay below MAX_FAILURES.
THEOREM MqttTypeCorrect == Spec => []TypeOK
<1>1. IInv => TypeOK
  BY DEF IInv
<1> QED
  BY <1>1, Invariant, PTL

\* The test report says PASS of exactly the runs whose message was handed to TCP.
THEOREM ReportIsTruthful == Spec => []ResultTruthful
<1>1. IInv => ResultTruthful
  BY DEF IInv, RunInv, ResultTruthful
<1> QED
  BY <1>1, Invariant, PTL

\* The device reboots only after MAX_FAILURES runs in a row without a message.
THEOREM RebootsAreEarned == Spec => RebootIsEarned
<1>1. IInv /\ [Next]_vars => [Reboot => ~accepted /\ barren + 1 >= MaxFailures]_vars
  BY DEF IInv, RunInv, Reboot
<1> QED
  BY <1>1, Invariant, PTL DEF Spec, RebootIsEarned

\* A message goes out only in a session that a CONNACK has opened since boot.
THEOREM MessagesGoOutInSession == Spec => PublishesInSession
<1>1. IInv /\ [Next]_vars => [(Publish /\ accepted') => connected]_vars
  BY DEF IInv, RunInv, SessionInv, Publish
<1> QED
  BY <1>1, Invariant, PTL DEF Spec, PublishesInSession

\* The reboot is not late either: no more than MAX_FAILURES - 1 runs have ended
\* without a message, since boot or since the last message, whatever became of
\* the connection and of mqtt.connected meanwhile.
THEOREM RebootIsNotLate == Spec => [](barren < MaxFailures)
<1>1. IInv => barren < MaxFailures
  BY MqttAssumption DEF IInv, TypeOK, RunInv
<1> QED
  BY <1>1, Invariant, PTL

-----------------------------------------------------------------------------
(* A run of the handler is bounded.                                        *)

\* The steps a run can still take from the read of the first sensor, and at all:
\* a try of the inner loop sends, waits and checks.
SessionSteps == NumSensors + 3
RunSteps == MqttConnectTries + 3 * AppConnectTries + SessionSteps

StepsLeft ==
  CASE pc = "connect"       -> RunSteps - tries
    [] pc = "tx_connect"    -> SessionSteps + 3 * (AppConnectTries - tries)
    [] pc = "wait"          -> SessionSteps + 3 * (AppConnectTries - tries) - 1
    [] pc = "check"         -> SessionSteps + 3 * (AppConnectTries - tries) - 2
    [] pc = "read"          -> SessionSteps + 1 - next
    [] pc = "publish"       -> 3
    [] pc = "handle_result" -> 2
    [] pc = "close"         -> 2
    [] pc = "reboot_check"  -> 1
    [] OTHER                -> 0

LEMMA StepsLeftType ==
  IInv => StepsLeft \in 0..RunSteps /\ (StepsLeft = 0 <=> pc = "idle")
<1> SUFFICES ASSUME IInv PROVE StepsLeft \in 0..RunSteps /\ (StepsLeft = 0 <=> pc = "idle")
  OBVIOUS
<1>1. /\ tries \in Nat /\ next \in Nat \ {0} /\ NumSensors \in Nat \ {0}
      /\ MqttConnectTries \in Nat \ {0} /\ AppConnectTries \in Nat \ {0}
  BY MqttAssumption DEF IInv, TypeOK
<1>2. /\ pc = "connect" => tries < MqttConnectTries
      /\ pc \in {"tx_connect", "wait", "check"} => tries < AppConnectTries
      /\ pc = "read" => next <= NumSensors
  BY DEF IInv, LoopInv, ConnectPc
<1> USE DEF StepsLeft, RunSteps, SessionSteps
<1>3. CASE pc \in {"connect", "tx_connect", "wait", "check"}
  BY <1>1, <1>2, <1>3
<1>4. CASE pc \in {"read", "publish", "handle_result", "close", "reboot_check"}
  BY <1>1, <1>2, <1>4
<1>5. CASE pc = "idle"
  BY <1>1, <1>5
<1> QED
  BY <1>3, <1>4, <1>5 DEF IInv, TypeOK, Pc, ConnectPc

LEMMA HandlerSteps == IInv /\ Handler => StepsLeft' < StepsLeft
<1> SUFFICES ASSUME IInv, Handler PROVE StepsLeft' < StepsLeft
  OBVIOUS
<1>1. /\ tries \in Nat /\ next \in Nat \ {0} /\ NumSensors \in Nat \ {0}
      /\ MqttConnectTries \in Nat \ {0} /\ AppConnectTries \in Nat \ {0}
  BY MqttAssumption DEF IInv, TypeOK
<1>2. /\ pc = "connect" => tries < MqttConnectTries
      /\ pc \in {"tx_connect", "wait", "check"} => tries < AppConnectTries
      /\ pc = "read" => next <= NumSensors
  BY DEF IInv, LoopInv, ConnectPc
<1> USE DEF StepsLeft, RunSteps, SessionSteps
<1>3. CASE MqttConnect
  BY <1>1, <1>2, <1>3 DEF MqttConnect
<1>4. CASE TxConnect
  BY <1>1, <1>2, <1>4 DEF TxConnect, NextTry
<1>5. CASE Wait
  BY <1>1, <1>2, <1>5 DEF Wait
<1>6. CASE CheckConnected
  BY <1>1, <1>2, <1>6 DEF CheckConnected, NextTry
<1>7. CASE ReadTemperature
  BY <1>1, <1>2, <1>7 DEF ReadTemperature
<1>8. CASE Close
  BY <1>8 DEF Close
<1>9. CASE Publish
  BY <1>9 DEF Publish
<1>10. CASE HandleTestResult
  BY <1>10 DEF HandleTestResult
<1>11. CASE RebootCheck \/ Reboot
  BY <1>11 DEF RebootCheck, Reboot, Boot
<1> QED
  BY <1>3, <1>4, <1>5, <1>6, <1>7, <1>8, <1>9, <1>10, <1>11 DEF Handler

LEMMA OtherSteps == World \/ PrintResult => StepsLeft' = StepsLeft
BY DEF World, PrintResult, ConnectCb, DisconnectCb, TcpBreaks, Worsens, Recovers, StepsLeft

\* A run of the handler, which the whole application's queue waits for, takes
\* no more than RunSteps steps: each of them leaves fewer to take, and no
\* CONNACK, disconnection or loss, at whatever moment, adds to them.  What is
\* left to the scheduler is that the steps are taken.
THEOREM RunIsBounded ==
  Spec => /\ [](StepsLeft \in 0..RunSteps /\ (StepsLeft = 0 <=> pc = "idle"))
          /\ [][pc # "idle" => StepsLeft' < StepsLeft \/ (World /\ StepsLeft' = StepsLeft)]_vars
<1>1. IInv /\ [Next]_vars =>
        [pc # "idle" => StepsLeft' < StepsLeft \/ (World /\ StepsLeft' = StepsLeft)]_vars
  BY HandlerSteps, OtherSteps DEF Next, TryToPublish, PrintResult
<1> QED
  BY <1>1, StepsLeftType, Invariant, PTL DEF Spec
=============================================================================
