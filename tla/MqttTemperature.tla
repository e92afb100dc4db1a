-------------------------- MODULE MqttTemperature --------------------------
(***************************************************************************)
(* The publishing work of src/mqtt_temperature.c: one run after another of *)
(* temp_mqtt_try_to_publish, with the connection attempts, the semaphore   *)
(* the receiving thread gives, the sensors, the test results and the       *)
(* failure counter that ends in a reboot.                                  *)
(*                                                                         *)
(* The MQTT library, the TCP connection below it and the broker are        *)
(* external: what is modelled is the results they return, mqtt.connected   *)
(* and the two callbacks.  The receiving thread sets mqtt.connected and    *)
(* gives the semaphore at any time a CONNACK may arrive.                   *)
(***************************************************************************)
EXTENDS Naturals, Sequences

CONSTANTS
  MqttConnectTries,  \* MQTT_CONNECT_TRIES
  AppConnectTries,   \* APP_CONNECT_TRIES
  MaxFailures,       \* MAX_FAILURES
  NumTestResults,    \* NUM_TEST_RESULTS
  NumSensors         \* sensor_num_sources: how many init_sensor_sources found

ASSUME MqttAssumption ==
  /\ MqttConnectTries \in Nat \ {0} /\ AppConnectTries \in Nat \ {0}
  /\ MaxFailures \in Nat \ {0} /\ NumTestResults \in Nat \ {0}
  /\ NumSensors \in {1, 2}

VARIABLES
  pc,          \* where the handler is; "idle" between two runs
  tries,       \* i of the loops of temp_mqtt_connect
  next,        \* the sensor to be read next
  ret,         \* did the run succeed (ret = 0) so far?
  failures,    \* data->failures
  connected,   \* data->mqtt.connected
  sem,         \* data->mqtt_wait_sem, a binary semaphore
  tc_results,  \* data->tc_results[0..tc_count - 1], TRUE for TC_PASS
  tc_work,     \* data->tc_work: "unused", "submitted", "printed"
  tcp,         \* the connection as it is: "none", "open", "broken"
  connacks,    \* CONNACKs under way, at most one for each CONNECT
  good,        \* are the network, the broker and the sensors well?
  accepted,    \* history: has this run's message been handed to TCP?
  barren       \* history: runs ended since boot or since the last accepted
               \* message, counted up to MaxFailures

resultVars == <<tc_results, tc_work>>
linkVars == <<connected, sem, tcp, connacks>>
historyVars == <<accepted, barren>>
vars == <<pc, tries, next, ret, failures, linkVars, resultVars, good, historyVars>>

ConnectPc == {"connect", "tx_connect", "wait", "check", "close"}
Pc == ConnectPc \cup {"idle", "read", "publish", "handle_result", "reboot_check"}

TypeOK ==
  /\ pc \in Pc
  /\ tries \in 0..(MqttConnectTries + AppConnectTries)
  /\ next \in 1..(NumSensors + 1)
  /\ ret \in BOOLEAN
  /\ failures \in 0..(MaxFailures - 1)
  /\ connected \in BOOLEAN
  /\ sem \in {0, 1}
  /\ tc_results \in Seq(BOOLEAN) /\ Len(tc_results) <= NumTestResults
  /\ tc_work \in {"unused", "submitted", "printed"}
  /\ tcp \in {"none", "open", "broken"}
  /\ connacks \in 0..AppConnectTries
  /\ good \in BOOLEAN
  /\ accepted \in BOOLEAN
  /\ barren \in 0..MaxFailures

\* init_mqtt_plumbing, init_test_reporting
Boot ==
  /\ pc' = "idle" /\ tries' = 0 /\ next' = 1 /\ ret' = TRUE /\ failures' = 0
  /\ connected' = FALSE /\ sem' = 0 /\ tcp' = "none" /\ connacks' = 0
  /\ tc_results' = <<>> /\ tc_work' = "unused"
  /\ accepted' = FALSE /\ barren' = 0
  /\ UNCHANGED good

Init ==
  /\ pc = "idle" /\ tries = 0 /\ next = 1 /\ ret = TRUE /\ failures = 0
  /\ connected = FALSE /\ sem = 0 /\ tcp = "none" /\ connacks = 0
  /\ tc_results = <<>> /\ tc_work = "unused"
  /\ good \in BOOLEAN
  /\ accepted = FALSE /\ barren = 0

\* A call that fails only while something is wrong.
Result == IF good THEN {TRUE} ELSE BOOLEAN

-----------------------------------------------------------------------------
(* temp_mqtt_try_to_publish: "if (!data->mqtt.connected) ..."              *)

TryToPublish ==
  /\ pc = "idle"
  /\ pc' = IF connected THEN "read" ELSE "connect"
  /\ tries' = 0 /\ next' = 1 /\ ret' = TRUE /\ accepted' = FALSE
  /\ UNCHANGED <<failures, linkVars, resultVars, good, barren>>

-----------------------------------------------------------------------------
(* temp_mqtt_connect                                                       *)

\* for (i = 0; i < MQTT_CONNECT_TRIES; i++) mqtt_connect
MqttConnect ==
  /\ pc = "connect"
  /\ \E ok \in Result :
       IF ok
       THEN /\ pc' = "tx_connect" /\ tries' = 0
            /\ tcp' = "open" /\ connacks' = 0
            /\ UNCHANGED ret
       ELSE /\ tries' = tries + 1
            /\ ret' = (tries' # MqttConnectTries)
            /\ pc' = IF ret' THEN "connect" ELSE "reboot_check"
            /\ tcp' = "none" /\ connacks' = 0
  /\ UNCHANGED <<next, failures, connected, sem, resultVars, good, historyVars>>

NextTry ==
  /\ tries' = tries + 1
  /\ pc' = IF tries' < AppConnectTries THEN "tx_connect" ELSE "close"

\* Mutant: a try that could not be sent is not counted.
TxConnectRetries ==
  /\ pc = "tx_connect"
  /\ \/ /\ tcp = "open"
        /\ connacks' = connacks + 1
        /\ pc' = "wait"
     \/ /\ ~good \/ tcp # "open"
        /\ UNCHANGED <<connacks, pc>>
  /\ UNCHANGED <<tries, next, ret, failures, connected, sem, tcp, resultVars,
                 good, historyVars>>

\* for (i = 0; i < APP_CONNECT_TRIES; i++) mqtt_tx_connect, which may fail
TxConnect ==
  /\ pc = "tx_connect"
  /\ \/ /\ tcp = "open"
        /\ connacks' = connacks + 1
        /\ pc' = "wait"
        /\ UNCHANGED tries
     \/ /\ ~good \/ tcp # "open"
        /\ NextTry
        /\ UNCHANGED connacks
  /\ UNCHANGED <<next, ret, failures, connected, sem, tcp, resultVars, good, historyVars>>

\* temp_mqtt_wait takes the semaphore, or gives up after
\* CONNECT_WAIT_TIMEOUT; a well network brings the CONNACK before that.
Wait ==
  /\ pc = "wait"
  /\ \/ sem = 1 /\ sem' = 0
     \/ /\ sem = 0
        /\ ~good \/ connacks = 0 \/ tcp # "open"
        /\ UNCHANGED sem
  /\ pc' = "check"
  /\ UNCHANGED <<tries, next, ret, failures, connected, tcp, connacks, resultVars,
                 good, historyVars>>

\* Mutant: the result of the wait decides, not mqtt->connected.
CheckTakesWait ==
  /\ pc = "check"
  /\ pc' = "read" /\ UNCHANGED tries
  /\ UNCHANGED <<next, ret, failures, linkVars, resultVars, good, historyVars>>

\* if (mqtt->connected) return 0
CheckConnected ==
  /\ pc = "check"
  /\ IF connected THEN pc' = "read" /\ UNCHANGED tries ELSE NextTry
  /\ UNCHANGED <<next, ret, failures, linkVars, resultVars, good, historyVars>>

\* mqtt_close; it leaves mqtt.connected as it is.
Close ==
  /\ pc = "close"
  /\ tcp' = "none" /\ connacks' = 0
  /\ ret' = FALSE
  /\ pc' = "reboot_check"
  /\ UNCHANGED <<tries, next, failures, connected, sem, resultVars, good, historyVars>>

-----------------------------------------------------------------------------
(* Reading the sensors, publishing                                         *)

\* read_temperature of one sensor: goto out_handle_result when it fails
ReadTemperature ==
  /\ pc = "read"
  /\ \E ok \in Result :
       /\ ret' = ok
       /\ next' = IF ok THEN next + 1 ELSE next
       /\ pc' = IF ~ok THEN "handle_result"
                ELSE IF next = NumSensors THEN "publish" ELSE "read"
  /\ UNCHANGED <<tries, failures, linkVars, resultVars, good, historyVars>>

\* Mutant: the result of mqtt_tx_publish is dropped.
PublishUnchecked ==
  /\ pc = "publish"
  /\ \E ok \in IF tcp = "open" THEN Result ELSE {FALSE} : accepted' = ok
  /\ pc' = "handle_result"
  /\ UNCHANGED <<tries, next, ret, failures, linkVars, resultVars, good, barren>>

\* temp_mqtt_publish: nothing can be sent over a connection that is gone.
Publish ==
  /\ pc = "publish"
  /\ \E ok \in IF tcp = "open" THEN Result ELSE {FALSE} :
       /\ ret' = ok
       /\ accepted' = ok
  /\ pc' = "handle_result"
  /\ UNCHANGED <<tries, next, failures, linkVars, resultVars, good, barren>>

\* Mutant: the array is not found full.
HandleResultAlways ==
  /\ pc = "handle_result"
  /\ tc_results' = Append(tc_results, ret)
  /\ tc_work' = IF Len(tc_results') = NumTestResults THEN "submitted" ELSE tc_work
  /\ pc' = "reboot_check"
  /\ UNCHANGED <<tries, next, ret, failures, linkVars, good, historyVars>>

\* temp_mqtt_handle_test_result
HandleTestResult ==
  /\ pc = "handle_result"
  /\ tc_results' = IF Len(tc_results) >= NumTestResults THEN tc_results
                   ELSE Append(tc_results, ret)
  /\ tc_work' = IF Len(tc_results) < NumTestResults /\ Len(tc_results') = NumTestResults
                THEN "submitted" ELSE tc_work
  /\ pc' = "reboot_check"
  /\ UNCHANGED <<tries, next, ret, failures, linkVars, good, historyVars>>

\* What the observer counts when a run ends.
CountRun ==
  barren' = IF accepted THEN 0 ELSE IF barren < MaxFailures THEN barren + 1 ELSE barren

\* Mutant: a success does not clear the failures.
RebootCheckKeeps ==
  /\ pc = "reboot_check"
  /\ ret \/ failures + 1 < MaxFailures
  /\ failures' = IF ret THEN failures ELSE failures + 1
  /\ pc' = "idle"
  /\ CountRun
  /\ UNCHANGED <<tries, next, ret, linkVars, resultVars, good, accepted>>

\* Mutant: failures are forgotten before they are too many.
RebootCheckForgets ==
  /\ pc = "reboot_check"
  /\ ret \/ failures + 1 < MaxFailures
  /\ failures' = 0
  /\ pc' = "idle"
  /\ CountRun
  /\ UNCHANGED <<tries, next, ret, linkVars, resultVars, good, accepted>>

\* temp_mqtt_reboot_check, and the work is submitted again
RebootCheck ==
  /\ pc = "reboot_check"
  /\ ret \/ failures + 1 < MaxFailures
  /\ failures' = IF ret THEN 0 ELSE failures + 1
  /\ pc' = "idle"
  /\ CountRun
  /\ UNCHANGED <<tries, next, ret, linkVars, resultVars, good, accepted>>

\* "Too many MQTT errors, rebooting!"
Reboot ==
  /\ pc = "reboot_check"
  /\ ~ret /\ failures + 1 >= MaxFailures
  /\ Boot

\* temp_mqtt_print_result, run by the work queue between two runs
PrintResult ==
  /\ pc = "idle"
  /\ tc_work = "submitted"
  /\ tc_work' = "printed"
  /\ UNCHANGED <<pc, tries, next, ret, failures, linkVars, tc_results, good, historyVars>>

Handler ==
  \/ MqttConnect \/ TxConnect \/ Wait \/ CheckConnected \/ Close
  \/ ReadTemperature \/ Publish \/ HandleTestResult \/ RebootCheck \/ Reboot

-----------------------------------------------------------------------------
(* The receiving thread, and the world                                     *)

\* A CONNACK is received: temp_mqtt_connect_cb.  The handler may have given
\* up in the meantime and be about to close the connection.
ConnectCb ==
  /\ connacks > 0
  /\ tcp = "open"
  /\ connected' = TRUE
  /\ sem' = 1
  /\ connacks' = connacks - 1
  /\ UNCHANGED <<pc, tries, next, ret, failures, tcp, resultVars, good, historyVars>>

\* The session ends and the library says so: temp_mqtt_disconnect_cb.
DisconnectCb ==
  /\ ~good
  /\ connected
  /\ connected' = FALSE
  /\ sem' = 1
  /\ tcp' = "none" /\ connacks' = 0
  /\ UNCHANGED <<pc, tries, next, ret, failures, resultVars, good, historyVars>>

\* The connection breaks and nobody is told.
TcpBreaks ==
  /\ ~good
  /\ tcp = "open"
  /\ tcp' = "broken" /\ connacks' = 0
  /\ UNCHANGED <<pc, tries, next, ret, failures, connected, sem, resultVars, good,
                 historyVars>>

Worsens ==
  /\ good
  /\ good' = FALSE
  /\ UNCHANGED <<pc, tries, next, ret, failures, linkVars, resultVars, historyVars>>

Recovers ==
  /\ ~good
  /\ good' = TRUE
  /\ UNCHANGED <<pc, tries, next, ret, failures, linkVars, resultVars, historyVars>>

World == ConnectCb \/ DisconnectCb \/ TcpBreaks \/ Worsens \/ Recovers

Next == TryToPublish \/ Handler \/ PrintResult \/ World

Spec == Init /\ [][Next]_vars

(* Fairness: the work queue runs a submitted work and the handler takes    *)
(* its steps; the time-out of the wait runs on however the network's state *)
(* changes meanwhile; a CONNACK under way on a well network arrives.       *)
FairSpec ==
  /\ Spec
  /\ WF_vars(TryToPublish)
  /\ WF_vars(Handler)
  /\ SF_vars(Wait)
  /\ WF_vars(good /\ ConnectCb)

-----------------------------------------------------------------------------
(* Properties                                                              *)

\* The report says PASS for the runs whose message was handed to TCP, FAIL
\* for the other runs that got as far as a connection.
ResultTruthful == pc = "handle_result" => (ret <=> accepted)

\* The device reboots only after MAX_FAILURES runs in a row without a
\* message, so that a service that works now and then is left alone.
RebootIsEarned ==
  [][Reboot => ~accepted /\ barren + 1 >= MaxFailures]_vars

\* A message is only sent in a session that a CONNACK has opened since boot:
\* a wait that ends, by a timeout or on a semaphore given earlier, does not
\* pass for one.
PublishesInSession ==
  [][(Publish /\ accepted') => connected]_vars

\* The handler, which the whole application's queue waits for, always ends.
HandlerEnds == pc # "idle" ~> pc = "idle"

\* Whatever happened before (a connection lost without notice, a CONNACK
\* handled after the client gave up, which leaves mqtt.connected set on a
\* closed connection), messages flow again once the world is well: the
\* failures lead to the reboot that starts over.
PublishingRecovers == <>[]good => []<>accepted
-----------------------------------------------------------------------------
(* The inductive invariant behind ResultTruthful, RebootIsEarned and       *)
(* PublishesInSession.                                                     *)

\* The loops count within their bounds, and no more CONNACKs are under way
\* than CONNECTs were sent.
LoopInv ==
  /\ pc = "connect" => tries < MqttConnectTries
  /\ pc = "tx_connect" => tries < AppConnectTries /\ connacks <= tries
  /\ pc \in {"wait", "check"} => tries < AppConnectTries /\ connacks <= tries + 1
  /\ pc \in ConnectPc \cup {"read"} => next <= NumSensors

\* ret tells at the end of a run whether its message went out, and data->failures
\* counts the runs without one.
RunInv ==
  /\ pc \in ConnectPc \cup {"read", "publish"} => ~accepted
  /\ pc \in {"handle_result", "reboot_check"} => (ret <=> accepted)
  /\ barren = failures

\* A connection that is open when a message is about to go out has a session.
SessionInv == pc \in {"read", "publish"} /\ tcp = "open" => connected

IInv == TypeOK /\ LoopInv /\ RunInv /\ SessionInv
=============================================================================
