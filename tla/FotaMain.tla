------------------------------ MODULE FotaMain ------------------------------
(***************************************************************************)
(* The whole application as its threads see it: main() starts the hawkBit  *)
(* client, the MQTT temperature service and the LED, then runs the work    *)
(* queue for ever; each service keeps itself alive by resubmitting its own *)
(* work at the end of its handler.  The interface may go up and down, and  *)
(* the network management thread calls the services that subscribed.       *)
(*                                                                         *)
(* What the handlers do in between is in modules Hawkbit and               *)
(* MqttTemperature.                                                        *)
(***************************************************************************)
EXTENDS AppWorkQueue

CONSTANTS
  NumTestResults,  \* NUM_TEST_RESULTS
  MaxBoots         \* bound on the resets of a behaviour

ASSUME FotaMainAssumption == NumTestResults \in Nat \ {0} /\ MaxBoots \in Nat

VARIABLES
  up,          \* net_if_is_up(iface)
  upEvent,     \* a NET_EVENT_IF_UP waits for the network management thread
  subscribed,  \* the works whose service subscribed to NET_EVENT_IF_UP
  calling,     \* the subscribers that thread still has to call
  tcCount,     \* temp_data.tc_count
  boots        \* the resets so far

netVars == <<up, upEvent, subscribed, calling>>
vars == <<wqVars, netVars, tcCount, boots>>

Subscribers == {"hawkbit", "mqtt"}

TypeOK ==
  /\ WqTypeOK
  /\ up \in BOOLEAN
  /\ upEvent \in BOOLEAN
  /\ subscribed \subseteq Subscribers
  /\ calling \subseteq Subscribers
  /\ tcCount \in 0..NumTestResults
  /\ boots \in 0..MaxBoots

Init ==
  /\ WqInit
  /\ up \in BOOLEAN
  /\ upEvent = FALSE
  /\ subscribed = {}
  /\ calling = {}
  /\ tcCount = 0
  /\ boots = 0

-----------------------------------------------------------------------------
(* main() *)

\* A service that can not start ends main before the queue is ever run: the
\* flash or the confirmation fails, mqtt_init fails, there is no temperature
\* sensor, there is no LED port.
StartFails ==
  /\ pc \in {"hawkbit_start", "mqtt_start", "blink_led_start"}
  /\ pc' = "returned"
  /\ UNCHANGED <<queueVars, work, netVars, tcCount, boots>>

\* hawkbit_start and mqtt_temperature_start look at the interface ...
StartService(w, here, subscribe, next) ==
  /\ pc = here
  /\ IF up
     THEN SubmitDelayed(w) /\ pc' = next
     ELSE UNCHANGED queueVars /\ pc' = subscribe
  /\ UNCHANGED <<work, netVars, tcCount, boots>>

\* ... and when it was down, subscribe.
Subscribe(w, here, next) ==
  /\ pc = here
  /\ subscribed' = subscribed \cup {w}
  /\ pc' = next
  /\ UNCHANGED <<queueVars, work, up, upEvent, calling, tcCount, boots>>

HawkbitStart == StartService("hawkbit", "hawkbit_start", "hawkbit_subscribe", "mqtt_start")
HawkbitSubscribe == Subscribe("hawkbit", "hawkbit_subscribe", "mqtt_start")
MqttStart == StartService("mqtt", "mqtt_start", "mqtt_subscribe", "blink_led_start")
MqttSubscribe == Subscribe("mqtt", "mqtt_subscribe", "blink_led_start")

BlinkLedStart ==
  /\ pc = "blink_led_start"
  /\ SubmitDelayed("blink")
  /\ pc' = "queue_get"
  /\ UNCHANGED <<work, netVars, tcCount, boots>>

-----------------------------------------------------------------------------
(* app_wq_run and the handlers.  A handler that reboots instead of         *)
(* resubmitting is a Reset.                                                *)

RunQueue ==
  /\ QueueGet \/ TestAndClearPending
  /\ UNCHANGED <<netVars, tcCount, boots>>

\* hawkbit_work_fn, whatever the poll returned
HawkbitWork ==
  /\ pc = "handler" /\ work = "hawkbit"
  /\ SubmitDelayed("hawkbit")
  /\ HandlerReturns
  /\ UNCHANGED <<netVars, tcCount, boots>>

BlinkHandler ==
  /\ pc = "handler" /\ work = "blink"
  /\ SubmitDelayed("blink")
  /\ HandlerReturns
  /\ UNCHANGED <<netVars, tcCount, boots>>

\* Mutant: a failed connection leaves the handler at once.
MqttConnectGivesUp ==
  /\ pc = "handler" /\ work = "mqtt"
  /\ HandlerReturns
  /\ UNCHANGED <<queueVars, netVars, tcCount, boots>>

\* temp_mqtt_try_to_publish could not connect: goto out
MqttConnectFails ==
  /\ pc = "handler" /\ work = "mqtt"
  /\ pc' = "resubmit"
  /\ UNCHANGED <<queueVars, work, netVars, tcCount, boots>>

\* Mutant: results are counted beyond the array.
MqttCountsResult ==
  /\ pc = "handler" /\ work = "mqtt"
  /\ tcCount' = tcCount + 1
  /\ pc' = "resubmit"
  /\ IF tcCount' = NumTestResults
     THEN Submit("tc") /\ UNCHANGED <<attached, timers>>
     ELSE UNCHANGED queueVars
  /\ UNCHANGED <<work, netVars, boots>>

\* Mutant: the report is submitted one result too early.
MqttReportsEarly ==
  /\ pc = "handler" /\ work = "mqtt"
  /\ tcCount' = IF tcCount >= NumTestResults THEN tcCount ELSE tcCount + 1
  /\ IF tcCount' = NumTestResults - 1
     THEN Submit("tc") /\ UNCHANGED <<attached, timers>>
     ELSE UNCHANGED queueVars
  /\ pc' = "resubmit"
  /\ UNCHANGED <<work, netVars, boots>>

\* temp_mqtt_handle_test_result
MqttTestResult ==
  /\ pc = "handler" /\ work = "mqtt"
  /\ tcCount' = IF tcCount >= NumTestResults THEN tcCount ELSE tcCount + 1
  /\ IF tcCount' = NumTestResults /\ tcCount # NumTestResults
     THEN Submit("tc") /\ UNCHANGED <<attached, timers>>
     ELSE UNCHANGED queueVars
  /\ pc' = "resubmit"
  /\ UNCHANGED <<work, netVars, boots>>

MqttResubmit ==
  /\ pc = "resubmit" /\ work = "mqtt"
  /\ SubmitDelayed("mqtt")
  /\ HandlerReturns
  /\ UNCHANGED <<netVars, tcCount, boots>>

\* temp_mqtt_print_result
PrintResult ==
  /\ pc = "handler" /\ work = "tc"
  /\ HandlerReturns
  /\ UNCHANGED <<queueVars, netVars, tcCount, boots>>

Worker ==
  \/ RunQueue \/ HawkbitWork \/ BlinkHandler \/ MqttConnectFails
  \/ MqttTestResult \/ MqttResubmit \/ PrintResult

-----------------------------------------------------------------------------
(* The interface, the network management thread, time and resets.          *)

IfaceUp ==
  /\ ~up
  /\ up' = TRUE
  /\ upEvent' = TRUE
  /\ UNCHANGED <<wqVars, subscribed, calling, tcCount, boots>>

IfaceDown ==
  /\ up
  /\ up' = FALSE
  /\ UNCHANGED <<wqVars, upEvent, subscribed, calling, tcCount, boots>>

NetMgmtTakesEvent ==
  /\ upEvent /\ calling = {}
  /\ upEvent' = FALSE
  /\ calling' = subscribed
  /\ UNCHANGED <<wqVars, up, subscribed, tcCount, boots>>

\* event_iface_up, temp_mqtt_start
NetMgmtCalls(w) ==
  /\ w \in calling
  /\ calling' = calling \ {w}
  /\ SubmitDelayed(w)
  /\ UNCHANGED <<pc, work, up, upEvent, subscribed, tcCount, boots>>

Timeout(w) == TimerFires(w) /\ UNCHANGED <<netVars, tcCount, boots>>

\* Too many failures in a handler, or a Bluetooth disconnect at any time.
Reset ==
  /\ boots < MaxBoots
  /\ boots' = boots + 1
  /\ queue' = <<>> /\ pending' = {} /\ attached' = {} /\ timers' = {}
  /\ pc' = "hawkbit_start" /\ work' = NoWork
  /\ up' \in BOOLEAN /\ upEvent' = FALSE
  /\ subscribed' = {} /\ calling' = {}
  /\ tcCount' = 0

Main ==
  \/ HawkbitStart \/ HawkbitSubscribe \/ MqttStart \/ MqttSubscribe
  \/ BlinkLedStart \/ StartFails \/ Worker

Next ==
  \/ Main
  \/ IfaceUp \/ IfaceDown \/ NetMgmtTakesEvent
  \/ \E w \in Subscribers : NetMgmtCalls(w)
  \/ \E w \in Periodic : Timeout(w)
  \/ Reset

Spec == Init /\ [][Next]_vars

-----------------------------------------------------------------------------
(* Fairness: the kernel schedules every ready thread (app_wq_run yields    *)
(* after each work), and a timeout expires unless it is started again      *)
(* infinitely often.                                                       *)

TimeoutFair(w) ==
  \/ WF_vars(Timeout(w))
  \/ w \in Subscribers /\ []<><<NetMgmtCalls(w)>>_vars

FairSpec ==
  /\ Spec
  /\ WF_vars(Main)
  /\ WF_vars(NetMgmtTakesEvent)
  /\ \A w \in Subscribers : WF_vars(NetMgmtCalls(w))
  /\ \A w \in Periodic : TimeoutFair(w)

-----------------------------------------------------------------------------
(* Properties                                                              *)

\* The pending bit of a work says that it is in the queue, once, or that the
\* main thread has just taken it; a work whose timeout is active is neither.
OneActivation ==
  /\ \A i, j \in 1..Len(queue) : queue[i] = queue[j] => i = j
  /\ \A w \in Works : w \in pending <=> Queued(w) \/ Popped(w)
  /\ \A w \in Works : ~(Queued(w) /\ Popped(w))
  /\ timers \cap pending = {}

\* A service that has submitted its work keeps being due: whatever the order
\* of timeouts, interface events, resubmissions and failed (-EINVAL) calls,
\* none of which looks at a result, its work has an active timeout, or is
\* queued, or is in the main thread's hands.
ChainAlive ==
  \A w \in attached : w \in timers \/ Queued(w) \/ Popped(w) \/ Handling(w)

\* The report of the MQTT test results is queued or printed only when all of
\* them are there.
ReportIsComplete ==
  (Queued("tc") \/ Popped("tc") \/ Handling("tc")) => tcCount = NumTestResults

\* What the proof of ChainAlive needs besides OneActivation.
IInv ==
  /\ TypeOK
  /\ OneActivation
  /\ ChainAlive
  /\ (work = NoWork) <=> pc \notin {"test_pending", "handler", "resubmit"}
  /\ pc = "resubmit" => work = "mqtt"

\* Queue, timeouts, pending bits, cancellations and the calls of another
\* thread added up, the application keeps the contract of its services: the
\* submissions that fail or cancel one another lose no work and double none.
Services ==
  INSTANCE ServiceContract WITH
    Services <- Periodic,
    due <- {w \in Works : w \in timers \/ Queued(w) \/ Popped(w)},
    running <- IF pc \in {"handler", "resubmit"} THEN work ELSE NoWork
ImplementsServices == Services!ServiceSpec

\* The LED keeps blinking whatever the interface does, unless main returned.
BlinkNeverStarves == []<>(pc = "returned" \/ Handling("blink"))

\* A started service keeps being run, unless main returned, as long as the
\* interface does not go up and down for ever (each event restarts the time
\* it waits).
Flapping == []<>up /\ []<>~up
StartedKeepsRunning ==
  Flapping \/ \A w \in Subscribers :
                []<>(pc = "returned" \/ w \notin attached \/ Handling(w))

\* "Try to start publishing sensor data if the network interface is up. If
\* it's not up, wait until it is to start publishing."
PublishesOnceUp ==
  <>[]up => []<>(pc = "returned" \/ Handling("mqtt"))
=============================================================================
