--------------------------- MODULE FotaMainProofs ---------------------------
(***************************************************************************)
(* Proofs about FotaMain: the types are right, and no order of timeouts,   *)
(* interface events, resubmissions and resets lets the chain of            *)
(* resubmissions of a service break.                                       *)
(***************************************************************************)
EXTENDS FotaMain, TLAPS

Distinct(q) == \A i, j \in 1..Len(q) : q[i] = q[j] => i = j
In(q, w) == \E i \in 1..Len(q) : q[i] = w

-----------------------------------------------------------------------------
(* Sequences without duplicates.                                           *)

\* Appending what is not there (k_queue_append).
LEMMA AppendDistinct ==
  ASSUME NEW S, NEW q \in Seq(S), NEW w \in S, Distinct(q), ~In(q, w)
  PROVE  /\ Append(q, w) \in Seq(S)
         /\ Distinct(Append(q, w))
         /\ \A x : In(Append(q, w), x) <=> In(q, x) \/ x = w
<1>1. /\ Append(q, w) \in Seq(S)
      /\ Len(Append(q, w)) = Len(q) + 1
      /\ Len(q) \in Nat
      /\ \A i \in 1..Len(q) : Append(q, w)[i] = q[i]
      /\ Append(q, w)[Len(q) + 1] = w
  OBVIOUS
<1>2. Distinct(Append(q, w))
  BY <1>1 DEF Distinct, In
<1>3. ASSUME NEW x
      PROVE In(Append(q, w), x) <=> In(q, x) \/ x = w
  <2>1. In(Append(q, w), x) => In(q, x) \/ x = w
    BY <1>1 DEF In
  <2>2. In(q, x) => In(Append(q, w), x)
    BY <1>1 DEF In
  <2>3. In(Append(q, w), w)
    BY <1>1 DEF In
  <2> QED
    BY <2>1, <2>2, <2>3
<1> QED
  BY <1>1, <1>2, <1>3

\* Taking the first (k_queue_get).
LEMMA TailDistinct ==
  ASSUME NEW S, NEW q \in Seq(S), q # <<>>, Distinct(q)
  PROVE  /\ Head(q) \in S
         /\ In(q, Head(q))
         /\ Tail(q) \in Seq(S)
         /\ Distinct(Tail(q))
         /\ \A x : In(Tail(q), x) <=> In(q, x) /\ x # Head(q)
<1>1. /\ Len(q) \in Nat /\ Len(q) >= 1
      /\ Head(q) = q[1] /\ q[1] \in S
      /\ Tail(q) \in Seq(S)
      /\ Len(Tail(q)) = Len(q) - 1
      /\ \A i \in 1..(Len(q) - 1) : Tail(q)[i] = q[i + 1]
  OBVIOUS
<1>2. In(q, Head(q))
  BY <1>1 DEF In
<1>3. Distinct(Tail(q))
  BY <1>1 DEF Distinct
<1>4. ASSUME NEW x
      PROVE In(Tail(q), x) <=> In(q, x) /\ x # Head(q)
  <2>1. In(Tail(q), x) => In(q, x) /\ x # Head(q)
    BY <1>1 DEF In, Distinct
  <2>2. ASSUME In(q, x), x # Head(q)
        PROVE In(Tail(q), x)
    <3>1. PICK i \in 1..Len(q) : q[i] = x
      BY <2>2 DEF In
    <3>2. i - 1 \in 1..(Len(q) - 1) /\ Tail(q)[i - 1] = x
      BY <3>1, <2>2, <1>1
    <3> QED
      BY <3>2, <1>1 DEF In
  <2> QED
    BY <2>1, <2>2
<1> QED
  BY <1>1, <1>2, <1>3, <1>4

\* Removing the one entry of a work (k_queue_remove).
LEMMA WithoutDistinct ==
  ASSUME NEW S, NEW q \in Seq(S), NEW w, Distinct(q), In(q, w)
  PROVE  /\ Without(q, w) \in Seq(S)
         /\ Distinct(Without(q, w))
         /\ \A x : In(Without(q, w), x) <=> In(q, x) /\ x # w
<1> DEFINE at == CHOOSE i \in 1..Len(q) : q[i] = w
           r == [i \in 1..(Len(q) - 1) |-> IF i < at THEN q[i] ELSE q[i + 1]]
<1>1. at \in 1..Len(q) /\ q[at] = w
  BY DEF In
<1>2. Without(q, w) = r
  BY DEF Without
<1> HIDE DEF at
<1>3. /\ Len(q) \in Nat /\ Len(q) - 1 \in Nat
      /\ \A i \in 1..Len(q) : q[i] \in S
  BY <1>1
<1>4. \A i \in 1..(Len(q) - 1) : r[i] \in S
  BY <1>1, <1>3
<1>5. r \in Seq(S) /\ Len(r) = Len(q) - 1
  <2>1. r \in [1..(Len(q) - 1) -> S]
    BY <1>4
  <2> QED
    BY <2>1, <1>3
<1>6. Distinct(r)
  BY <1>1, <1>3, <1>5 DEF Distinct
<1>7. ASSUME NEW x
      PROVE In(r, x) <=> In(q, x) /\ x # w
  <2>1. In(r, x) => In(q, x) /\ x # w
    BY <1>1, <1>3, <1>5 DEF In, Distinct
  <2>2. ASSUME In(q, x), x # w
        PROVE In(r, x)
    <3>1. PICK i \in 1..Len(q) : q[i] = x
      BY <2>2 DEF In
    <3>2. i # at
      BY <3>1, <2>2, <1>1
    <3>3. CASE i < at
      BY <3>1, <3>3, <1>1, <1>3, <1>5 DEF In
    <3>4. CASE i > at
      <4>1. i - 1 \in 1..Len(r) /\ r[i - 1] = x
        BY <3>1, <3>4, <1>1, <1>3, <1>5
      <4> QED
        BY <4>1 DEF In
    <3> QED
      BY <3>1, <3>2, <3>3, <3>4, <1>1
  <2> QED
    BY <2>1, <2>2
<1> QED
  BY <1>2, <1>5, <1>6, <1>7

-----------------------------------------------------------------------------
(* What the two ways to submit do to the invariant.                        *)

QueuePart ==
  /\ queue \in Seq(Works) /\ pending \subseteq Works
  /\ attached \subseteq Periodic /\ timers \subseteq Periodic

\* A work whose timeout is not active is submitted: by an expired timeout,
\* or the test report by the MQTT handler.
LEMMA SubmitStep ==
  ASSUME QueuePart, OneActivation, ChainAlive,
         NEW w \in Works, Submit(w), attached' = attached, timers' = timers \ {w},
         \A x \in Works : Popped(x)' <=> Popped(x),
         \A x \in Works : Handling(x) => Handling(x)'
  PROVE  QueuePart' /\ OneActivation' /\ ChainAlive'
<1>1. CASE w \in pending
  <2>1. queue' = queue /\ pending' = pending /\ timers' = timers
    BY <1>1 DEF Submit, OneActivation
  <2> QED
    BY <2>1 DEF QueuePart, OneActivation, ChainAlive, Queued, Periodic
<1>2. CASE w \notin pending
  <2>1. queue' = Append(queue, w) /\ pending' = pending \cup {w}
    BY <1>2 DEF Submit
  <2>2. Distinct(queue) /\ ~In(queue, w) /\ ~Popped(w)
    BY <1>2 DEF OneActivation, Distinct, In, Queued
  <2>3. /\ queue' \in Seq(Works)
        /\ Distinct(queue')
        /\ \A x : In(queue', x) <=> In(queue, x) \/ x = w
    BY <2>1, <2>2, AppendDistinct DEF QueuePart
  <2>4. \A x : Queued(x)' <=> Queued(x) \/ x = w
    BY <2>3 DEF Queued, In
  <2>5. QueuePart'
    BY <2>1, <2>3 DEF QueuePart
  <2>6. \A i, j \in 1..Len(queue') : queue'[i] = queue'[j] => i = j
    BY <2>3 DEF Distinct
  <2>7. OneActivation'
    BY <2>1, <2>2, <2>4, <2>6 DEF OneActivation
  <2>8. ChainAlive'
    BY <2>4 DEF ChainAlive, QueuePart, Periodic
  <2> QED
    BY <2>5, <2>7, <2>8
<1> QED
  BY <1>1, <1>2

\* A delayed work is submitted, by a handler, by a start function or by the
\* network management thread; the handler of w itself may end in that step.
LEMMA SubmitDelayedStep ==
  ASSUME QueuePart, OneActivation, ChainAlive,
         NEW w \in Periodic, SubmitDelayed(w),
         \A x \in Works : Popped(x)' <=> Popped(x),
         \A x \in Works \ {w} : Handling(x) => Handling(x)',
         ~Popped(w) \/ (Handling(w) => Handling(w)')
  PROVE  QueuePart' /\ OneActivation' /\ ChainAlive'
<1>1. CASE w \in pending /\ ~Queued(w)
  <2>1. UNCHANGED queueVars /\ Popped(w)
    BY <1>1 DEF SubmitDelayed, OneActivation, Periodic
  <2> QED
    BY <2>1 DEF queueVars, QueuePart, OneActivation, ChainAlive, Queued, Periodic
<1>2. CASE ~(w \in pending /\ ~Queued(w))
  <2>1. /\ queue' = IF Queued(w) THEN Without(queue, w) ELSE queue
        /\ pending' = pending \ {w}
        /\ attached' = attached \cup {w}
        /\ timers' = timers \cup {w}
    BY <1>2 DEF SubmitDelayed
  <2>2. Distinct(queue) /\ \A x : In(queue, x) <=> Queued(x)
    BY DEF OneActivation, Distinct, In, Queued
  <2>3. /\ queue' \in Seq(Works)
        /\ Distinct(queue')
        /\ \A x : In(queue', x) <=> In(queue, x) /\ x # w
    <3>1. CASE Queued(w)
      BY <2>1, <2>2, <3>1, WithoutDistinct DEF QueuePart
    <3>2. CASE ~Queued(w)
      BY <2>1, <2>2, <3>2 DEF QueuePart
    <3> QED
      BY <3>1, <3>2
  <2>4. \A x : Queued(x)' <=> Queued(x) /\ x # w
    BY <2>2, <2>3 DEF Queued, In
  <2>5. QueuePart'
    BY <2>1, <2>3 DEF QueuePart
  <2>6. \A i, j \in 1..Len(queue') : queue'[i] = queue'[j] => i = j
    BY <2>3 DEF Distinct
  <2>7. ~Popped(w)
    BY <1>2 DEF OneActivation, Periodic
  <2>8. OneActivation'
    BY <2>1, <2>4, <2>6, <2>7 DEF OneActivation, Periodic
  <2>9. ChainAlive'
    BY <2>1, <2>4 DEF ChainAlive, QueuePart, Periodic
  <2> QED
    BY <2>5, <2>8, <2>9
<1> QED
  BY <1>1, <1>2

-----------------------------------------------------------------------------
(* The invariant.                                                          *)

LEMMA IInit == Init => IInv
<1> SUFFICES ASSUME Init PROVE IInv
  OBVIOUS
<1> USE DEF Init, WqInit
<1>1. TypeOK
  <2>1. WqTypeOK
    BY DEF WqTypeOK, StartPc
  <2>2. tcCount \in 0..NumTestResults /\ boots \in 0..MaxBoots
    BY FotaMainAssumption
  <2> QED
    BY <2>1, <2>2 DEF TypeOK
<1>2. OneActivation
  BY DEF OneActivation, Queued, Popped
<1>3. ChainAlive
  BY DEF ChainAlive
<1> QED
  BY <1>1, <1>2, <1>3 DEF IInv

\* The main thread's part of the invariant.
HandsPart ==
  /\ (work = NoWork) <=> pc \notin {"test_pending", "handler", "resubmit"}
  /\ pc = "resubmit" => work = "mqtt"

RestTypeOK ==
  /\ pc \in StartPc \cup RunPc
  /\ work \in Works \cup {NoWork}
  /\ up \in BOOLEAN /\ upEvent \in BOOLEAN
  /\ subscribed \subseteq Subscribers /\ calling \subseteq Subscribers
  /\ tcCount \in 0..NumTestResults /\ boots \in 0..MaxBoots

LEMMA IInvParts ==
  IInv <=> RestTypeOK /\ HandsPart /\ QueuePart /\ OneActivation /\ ChainAlive
BY DEF IInv, TypeOK, WqTypeOK, RestTypeOK, HandsPart, QueuePart

\* A step of the main thread or of another that submits a delayed work.
LEMMA SubmitterStep ==
  ASSUME IInv, NEW w \in Periodic, SubmitDelayed(w), RestTypeOK', HandsPart',
         \/ UNCHANGED <<pc, work>>
         \/ pc \in StartPc /\ pc' \in StartPc \cup {"queue_get"} /\ UNCHANGED work
         \/ pc \in {"handler", "resubmit"} /\ work = w /\ HandlerReturns
  PROVE  IInv'
<1>1. QueuePart /\ OneActivation /\ ChainAlive
  BY IInvParts
<1>2. /\ \A x \in Works : Popped(x)' <=> Popped(x)
      /\ \A x \in Works \ {w} : Handling(x) => Handling(x)'
      /\ ~Popped(w) \/ (Handling(w) => Handling(w)')
  BY DEF Popped, Handling, HandlerReturns, StartPc
<1>3. QueuePart' /\ OneActivation' /\ ChainAlive'
  BY <1>1, <1>2, SubmitDelayedStep
<1> QED
  BY <1>3, IInvParts, PTL

\* A step that leaves the queue, the timeouts and the work in hand alone.
LEMMA QuietStep ==
  ASSUME IInv, UNCHANGED queueVars, RestTypeOK', HandsPart',
         \A x \in Works : Popped(x)' <=> Popped(x),
         \A x \in attached : Handling(x) => Handling(x)'
  PROVE  IInv'
<1>1. QueuePart /\ OneActivation /\ ChainAlive
  BY IInvParts
<1>2. QueuePart'
  BY <1>1 DEF QueuePart, queueVars
<1>3. OneActivation'
  BY <1>1 DEF OneActivation, queueVars, Queued
<1>4. ChainAlive'
  BY <1>1 DEF ChainAlive, queueVars, Queued, QueuePart, Periodic
<1> QED
  BY <1>2, <1>3, <1>4, IInvParts, PTL

LEMMA QueueGetStep == IInv /\ QueueGet /\ UNCHANGED <<netVars, tcCount, boots>> => IInv'
<1> SUFFICES ASSUME IInv, QueueGet, UNCHANGED <<netVars, tcCount, boots>>
             PROVE  IInv'
  OBVIOUS
<1>1. RestTypeOK /\ HandsPart /\ QueuePart /\ OneActivation /\ ChainAlive
  BY IInvParts
<1>2. /\ pc = "queue_get" /\ queue # <<>>
      /\ work' = Head(queue) /\ queue' = Tail(queue) /\ pc' = "test_pending"
      /\ pending' = pending /\ attached' = attached /\ timers' = timers
  BY DEF QueueGet
<1>3. Distinct(queue) /\ \A x : In(queue, x) <=> Queued(x)
  BY <1>1 DEF OneActivation, Distinct, In, Queued
<1>4. /\ work' \in Works /\ Queued(work')
      /\ queue' \in Seq(Works)
      /\ Distinct(queue')
      /\ \A x : In(queue', x) <=> In(queue, x) /\ x # work'
  BY <1>1, <1>2, <1>3, TailDistinct DEF QueuePart
<1>5. \A x : Queued(x)' <=> Queued(x) /\ x # work'
  BY <1>3, <1>4 DEF Queued, In
<1>6. \A x : ~Popped(x) /\ ~Handling(x) /\ (Popped(x)' <=> x = work')
  BY <1>2 DEF Popped, Handling
<1>7. QueuePart'
  BY <1>1, <1>2, <1>4 DEF QueuePart
<1>8. \A i, j \in 1..Len(queue') : queue'[i] = queue'[j] => i = j
  BY <1>4 DEF Distinct
<1>9. OneActivation'
  BY <1>1, <1>2, <1>4, <1>5, <1>6, <1>8 DEF OneActivation
<1>10. ChainAlive'
  BY <1>1, <1>2, <1>5, <1>6 DEF ChainAlive
<1>11. RestTypeOK' /\ HandsPart'
  <2>1. HandsPart'
    BY <1>2, <1>4 DEF HandsPart, NoWork, Works
  <2>2. RestTypeOK'
    BY <1>1, <1>2, <1>4 DEF RestTypeOK, RunPc, netVars
  <2> QED
    BY <2>1, <2>2
<1> QED
  BY <1>7, <1>9, <1>10, <1>11, IInvParts, PTL

LEMMA TestAndClearStep ==
  IInv /\ TestAndClearPending /\ UNCHANGED <<netVars, tcCount, boots>> => IInv'
<1> SUFFICES ASSUME IInv, TestAndClearPending, UNCHANGED <<netVars, tcCount, boots>>
             PROVE  IInv'
  OBVIOUS
<1>1. RestTypeOK /\ HandsPart /\ QueuePart /\ OneActivation /\ ChainAlive
  BY IInvParts
<1>2. work \in Works /\ Popped(work) /\ work \in pending /\ ~Queued(work)
  BY <1>1 DEF TestAndClearPending, HandsPart, RestTypeOK, OneActivation, Popped
<1>3. /\ pc' = "handler" /\ work' = work /\ pending' = pending \ {work}
      /\ queue' = queue /\ attached' = attached /\ timers' = timers
  BY <1>2 DEF TestAndClearPending
<1>4. /\ \A x : Popped(x) <=> x = work
      /\ \A x : ~Popped(x)' /\ (Handling(x)' <=> x = work)
      /\ \A x : Queued(x)' <=> Queued(x)
  BY <1>2, <1>3 DEF Popped, Handling, Queued
<1>5. QueuePart'
  BY <1>1, <1>3 DEF QueuePart
<1>6. OneActivation'
  BY <1>1, <1>2, <1>3, <1>4 DEF OneActivation
<1>7. ChainAlive'
  BY <1>1, <1>3, <1>4 DEF ChainAlive, Handling, Popped
<1>8. HandsPart'
  BY <1>1, <1>2, <1>3 DEF HandsPart, NoWork, Works
<1>9. RestTypeOK'
  BY <1>1, <1>2, <1>3 DEF RestTypeOK, RunPc, netVars
<1> QED
  BY <1>5, <1>6, <1>7, <1>8, <1>9, IInvParts, PTL

LEMMA TimeoutStep == ASSUME NEW w \in Periodic, IInv, Timeout(w) PROVE IInv'
<1>1. RestTypeOK /\ HandsPart /\ QueuePart /\ OneActivation /\ ChainAlive
  BY IInvParts
<1>2. /\ Submit(w) /\ timers' = timers \ {w} /\ attached' = attached
      /\ UNCHANGED <<pc, work, netVars, tcCount, boots>>
  BY DEF Timeout, TimerFires
<1>3. /\ \A x \in Works : Popped(x)' <=> Popped(x)
      /\ \A x \in Works : Handling(x) => Handling(x)'
  BY <1>2 DEF Popped, Handling
<1>4. QueuePart' /\ OneActivation' /\ ChainAlive'
  BY <1>1, <1>2, <1>3, SubmitStep DEF Periodic
<1>5. RestTypeOK' /\ HandsPart'
  BY <1>1, <1>2 DEF RestTypeOK, HandsPart, netVars
<1> QED
  BY <1>4, <1>5, IInvParts, PTL

\* The steps of main() before it runs the queue.
LEMMA StartStep ==
  IInv /\ (HawkbitStart \/ HawkbitSubscribe \/ MqttStart \/ MqttSubscribe
           \/ BlinkLedStart \/ StartFails) => IInv'
<1> SUFFICES ASSUME IInv,
                    HawkbitStart \/ HawkbitSubscribe \/ MqttStart \/ MqttSubscribe
                      \/ BlinkLedStart \/ StartFails
             PROVE  IInv'
  OBVIOUS
<1>1. RestTypeOK /\ HandsPart
  BY IInvParts
<1>2. /\ pc \in StartPc /\ pc' \in StartPc \cup {"queue_get"} /\ work' = work
      /\ UNCHANGED <<up, upEvent, calling, tcCount, boots>>
      /\ subscribed' \subseteq Subscribers
      /\ UNCHANGED queueVars \/ \E w \in Periodic : SubmitDelayed(w)
  BY <1>1 DEF HawkbitStart, HawkbitSubscribe, MqttStart, MqttSubscribe, BlinkLedStart,
              StartFails, StartService, Subscribe, StartPc, netVars, RestTypeOK,
              Subscribers, Periodic, Works
<1>3. HandsPart'
  BY <1>1, <1>2 DEF HandsPart, StartPc
<1>4. RestTypeOK'
  BY <1>1, <1>2 DEF RestTypeOK, RunPc
<1>5. /\ \A x \in Works : Popped(x)' <=> Popped(x)
      /\ \A x \in attached : Handling(x) => Handling(x)'
  BY <1>2 DEF Popped, Handling, StartPc
<1>6. CASE UNCHANGED queueVars
  BY <1>3, <1>4, <1>5, <1>6, QuietStep
<1>7. CASE \E w \in Periodic : SubmitDelayed(w)
  BY <1>2, <1>3, <1>4, <1>7, SubmitterStep
<1> QED
  BY <1>2, <1>6, <1>7

LEMMA HandlerStep ==
  IInv /\ (HawkbitWork \/ BlinkHandler \/ MqttConnectFails \/ MqttResubmit
           \/ PrintResult) => IInv'
<1> SUFFICES ASSUME IInv,
                    HawkbitWork \/ BlinkHandler \/ MqttConnectFails \/ MqttResubmit
                      \/ PrintResult
             PROVE  IInv'
  OBVIOUS
<1>1. RestTypeOK /\ HandsPart /\ QueuePart
  BY IInvParts
<1>2. CASE HawkbitWork \/ BlinkHandler \/ MqttResubmit
  <2>1. PICK w \in Periodic :
          /\ pc \in {"handler", "resubmit"} /\ work = w
          /\ SubmitDelayed(w) /\ HandlerReturns
          /\ UNCHANGED <<netVars, tcCount, boots>>
    BY <1>2 DEF HawkbitWork, BlinkHandler, MqttResubmit, Periodic, Works
  <2>2. HandsPart'
    BY <2>1 DEF HandlerReturns, HandsPart
  <2>3. RestTypeOK'
    BY <1>1, <2>1 DEF HandlerReturns, RestTypeOK, RunPc, netVars
  <2> QED
    BY <2>1, <2>2, <2>3, SubmitterStep
<1>3. CASE MqttConnectFails
  <2>1. HandsPart' /\ RestTypeOK'
    BY <1>1, <1>3 DEF MqttConnectFails, HandsPart, RestTypeOK, RunPc, netVars, Works, NoWork
  <2>2. /\ \A x \in Works : Popped(x)' <=> Popped(x)
        /\ \A x \in attached : Handling(x) => Handling(x)'
    BY <1>3 DEF MqttConnectFails, Popped, Handling
  <2> QED
    BY <1>3, <2>1, <2>2, QuietStep DEF MqttConnectFails
<1>4. CASE PrintResult
  <2>1. HandsPart' /\ RestTypeOK'
    BY <1>1, <1>4 DEF PrintResult, HandlerReturns, HandsPart, RestTypeOK, RunPc, netVars
  <2>2. /\ \A x \in Works : Popped(x)' <=> Popped(x)
        /\ \A x \in attached : Handling(x) => Handling(x)'
    BY <1>1, <1>4 DEF PrintResult, HandlerReturns, Popped, Handling, QueuePart, Periodic
  <2> QED
    BY <1>4, <2>1, <2>2, QuietStep DEF PrintResult
<1> QED
  BY <1>2, <1>3, <1>4

LEMMA TestResultStep == IInv /\ MqttTestResult => IInv'
<1> SUFFICES ASSUME IInv, MqttTestResult PROVE IInv'
  OBVIOUS
<1>1. RestTypeOK /\ HandsPart /\ QueuePart /\ OneActivation /\ ChainAlive
  BY IInvParts
<1>2. /\ pc = "handler" /\ work = "mqtt" /\ pc' = "resubmit" /\ work' = work
      /\ UNCHANGED <<netVars, boots>>
      /\ tcCount' = IF tcCount >= NumTestResults THEN tcCount ELSE tcCount + 1
      /\ UNCHANGED queueVars \/ (Submit("tc") /\ UNCHANGED <<attached, timers>>)
  BY DEF MqttTestResult
<1>3. HandsPart'
  BY <1>2 DEF HandsPart, NoWork
<1>4. tcCount' \in 0..NumTestResults
  BY <1>1, <1>2, FotaMainAssumption DEF RestTypeOK
<1>5. RestTypeOK'
  BY <1>1, <1>2, <1>4 DEF RestTypeOK, RunPc, netVars
<1>6. /\ \A x \in Works : Popped(x)' <=> Popped(x)
      /\ \A x \in Works : Handling(x) => Handling(x)'
  BY <1>2 DEF Popped, Handling
<1>7. CASE UNCHANGED queueVars
  BY <1>1, <1>3, <1>5, <1>6, <1>7, QuietStep DEF QueuePart, Periodic
<1>8. CASE Submit("tc") /\ UNCHANGED <<attached, timers>>
  <2>1. timers' = timers \ {"tc"} /\ "tc" \in Works
    BY <1>1, <1>8 DEF QueuePart, Periodic, Works
  <2>2. QueuePart' /\ OneActivation' /\ ChainAlive'
    BY <1>1, <1>6, <1>8, <2>1, SubmitStep
  <2> QED
    BY <1>3, <1>5, <2>2, IInvParts, PTL
<1> QED
  BY <1>2, <1>7, <1>8

LEMMA NetStep ==
  ASSUME IInv,
         \/ IfaceUp \/ IfaceDown \/ NetMgmtTakesEvent
         \/ \E w \in Subscribers : NetMgmtCalls(w)
  PROVE  IInv'
<1>1. RestTypeOK /\ HandsPart /\ QueuePart
  BY IInvParts
<1>2. CASE IfaceUp \/ IfaceDown \/ NetMgmtTakesEvent
  <2>1. UNCHANGED wqVars /\ UNCHANGED <<tcCount, boots>>
    BY <1>2 DEF IfaceUp, IfaceDown, NetMgmtTakesEvent
  <2>2. up' \in BOOLEAN /\ upEvent' \in BOOLEAN
    BY <1>1, <1>2 DEF IfaceUp, IfaceDown, NetMgmtTakesEvent, RestTypeOK
  <2>3. subscribed' \subseteq Subscribers /\ calling' \subseteq Subscribers
    BY <1>1, <1>2 DEF IfaceUp, IfaceDown, NetMgmtTakesEvent, RestTypeOK
  <2>4. HandsPart' /\ RestTypeOK'
    BY <1>1, <2>1, <2>2, <2>3 DEF wqVars, HandsPart, RestTypeOK
  <2>5. /\ UNCHANGED queueVars
        /\ \A x \in Works : Popped(x)' <=> Popped(x)
        /\ \A x \in attached : Handling(x) => Handling(x)'
    BY <2>1 DEF wqVars, Popped, Handling
  <2> QED
    BY <2>4, <2>5, QuietStep
<1>3. CASE \E w \in Subscribers : NetMgmtCalls(w)
  <2>1. PICK w \in Subscribers : NetMgmtCalls(w)
    BY <1>3
  <2>2. w \in Periodic /\ SubmitDelayed(w) /\ UNCHANGED <<pc, work>>
    BY <2>1 DEF NetMgmtCalls, Subscribers, Periodic, Works
  <2>3. HandsPart' /\ RestTypeOK'
    BY <1>1, <2>1 DEF NetMgmtCalls, HandsPart, RestTypeOK
  <2> QED
    BY <2>2, <2>3, SubmitterStep
<1> QED
  BY <1>2, <1>3

LEMMA ResetStep == IInv /\ Reset => IInv'
<1> SUFFICES ASSUME IInv, Reset PROVE IInv'
  OBVIOUS
<1>1. RestTypeOK
  BY IInvParts
<1>2. boots' \in 0..MaxBoots /\ tcCount' \in 0..NumTestResults
  BY <1>1, FotaMainAssumption DEF Reset, RestTypeOK
<1>3. RestTypeOK' /\ HandsPart'
  BY <1>2 DEF Reset, RestTypeOK, HandsPart, StartPc, NoWork
<1>4. QueuePart' /\ ChainAlive'
  BY DEF Reset, QueuePart, ChainAlive
<1>5. OneActivation'
  BY DEF Reset, OneActivation, Queued, Popped
<1> QED
  BY <1>3, <1>4, <1>5, IInvParts, PTL

LEMMA IStep == IInv /\ [Next]_vars => IInv'
<1> SUFFICES ASSUME IInv, [Next]_vars PROVE IInv'
  OBVIOUS
<1>1. CASE HawkbitStart \/ HawkbitSubscribe \/ MqttStart \/ MqttSubscribe
           \/ BlinkLedStart \/ StartFails
  BY <1>1, StartStep
<1>2. CASE RunQueue
  BY <1>2, QueueGetStep, TestAndClearStep DEF RunQueue
<1>3. CASE HawkbitWork \/ BlinkHandler \/ MqttConnectFails \/ MqttResubmit \/ PrintResult
  BY <1>3, HandlerStep
<1>4. CASE MqttTestResult
  BY <1>4, TestResultStep
<1>5. CASE \/ IfaceUp \/ IfaceDown \/ NetMgmtTakesEvent
           \/ \E w \in Subscribers : NetMgmtCalls(w)
  BY <1>5, NetStep
<1>6. CASE \E w \in Periodic : Timeout(w)
  BY <1>6, TimeoutStep
<1>7. CASE Reset
  BY <1>7, ResetStep
<1>8. CASE UNCHANGED vars
  BY <1>8 DEF vars, wqVars, queueVars, netVars, IInv, TypeOK, WqTypeOK, OneActivation,
              ChainAlive, Queued, Popped, Handling
<1> QED
  BY <1>1, <1>2, <1>3, <1>4, <1>5, <1>6, <1>7, <1>8 DEF Next, Main, Worker

-----------------------------------------------------------------------------
(* FotaMain implements ServiceContract: what the queue, the timeouts and   *)
(* the pending bits do to the set of works that are due.                   *)

Due == {w \in Works : w \in timers \/ Queued(w) \/ Popped(w)}
Running == IF pc \in {"handler", "resubmit"} THEN work ELSE NoWork

\* However a work is submitted, it is due, and no other work is lost by it.
LEMMA SubmittedIsDue ==
  ASSUME QueuePart, OneActivation,
         NEW w \in Works, Submit(w), timers' = timers \ {w},
         \A x \in Works : Popped(x)' <=> Popped(x)
  PROVE  Due' = Due \cup {w}
<1>1. CASE w \in pending
  <2>1. queue' = queue /\ timers' = timers /\ w \in Due
    BY <1>1 DEF Submit, OneActivation, Due
  <2> QED
    BY <2>1 DEF Due, Queued
<1>2. CASE w \notin pending
  <2>1. queue' = Append(queue, w) /\ ~In(queue, w) /\ Distinct(queue)
    BY <1>2 DEF Submit, OneActivation, Distinct, In, Queued
  <2>2. \A x : Queued(x)' <=> Queued(x) \/ x = w
    BY <2>1, AppendDistinct DEF QueuePart, Queued, In
  <2> QED
    BY <2>2 DEF Due
<1> QED
  BY <1>1, <1>2

LEMMA DelayedIsDue ==
  ASSUME QueuePart, OneActivation,
         NEW w \in Periodic, SubmitDelayed(w),
         \A x \in Works : Popped(x)' <=> Popped(x)
  PROVE  Due' = Due \cup {w}
<1>1. w \in Works
  BY DEF Periodic
<1>2. CASE w \in pending /\ ~Queued(w)
  <2>1. UNCHANGED queueVars /\ w \in Due
    BY <1>1, <1>2 DEF SubmitDelayed, OneActivation, Due
  <2> QED
    BY <2>1 DEF queueVars, Due, Queued
<1>3. CASE ~(w \in pending /\ ~Queued(w))
  <2>1. /\ queue' = IF Queued(w) THEN Without(queue, w) ELSE queue
        /\ timers' = timers \cup {w}
    BY <1>3 DEF SubmitDelayed
  <2>2. Distinct(queue) /\ \A x : In(queue, x) <=> Queued(x)
    BY DEF OneActivation, Distinct, In, Queued
  <2>3. \A x : In(queue', x) <=> In(queue, x) /\ x # w
    BY <2>1, <2>2, WithoutDistinct DEF QueuePart
  <2>4. \A x : Queued(x)' <=> Queued(x) /\ x # w
    BY <2>2, <2>3 DEF Queued, In
  <2> QED
    BY <1>1, <2>1, <2>4 DEF Due
<1> QED
  BY <1>2, <1>3

\* What a step may do to the works that are due and to the one that runs.
\* The report ("tc") is left alone but for the submission by MqttTestResult.
Activates(w) == Due' = Due \cup {w} /\ Running' = Running
Runs(w) == Running = NoWork /\ w \in Due /\ Running' = w /\ Due' = Due \ {w}
Finishes ==
  /\ Running # NoWork /\ Running' = NoWork
  /\ Due' = IF Running \in Periodic THEN Due \cup {Running} ELSE Due
Stays == Due' = Due /\ Running' = Running

LEMMA DueIfQuiet ==
  ASSUME UNCHANGED queueVars, \A x \in Works : Popped(x)' <=> Popped(x)
  PROVE  Due' = Due
BY DEF Due, queueVars, Queued

LEMMA StartDue ==
  IInv /\ (HawkbitStart \/ HawkbitSubscribe \/ MqttStart \/ MqttSubscribe
           \/ BlinkLedStart \/ StartFails)
    => Stays \/ \E w \in Periodic : Activates(w)
<1> SUFFICES ASSUME IInv,
                    HawkbitStart \/ HawkbitSubscribe \/ MqttStart \/ MqttSubscribe
                      \/ BlinkLedStart \/ StartFails
             PROVE  Stays \/ \E w \in Periodic : Activates(w)
  OBVIOUS
<1>1. RestTypeOK /\ HandsPart /\ QueuePart /\ OneActivation
  BY IInvParts
<1>2. /\ pc \in StartPc /\ pc' \in StartPc \cup {"queue_get"} /\ work' = work
      /\ UNCHANGED queueVars \/ \E w \in Periodic : SubmitDelayed(w)
  BY <1>1 DEF HawkbitStart, HawkbitSubscribe, MqttStart, MqttSubscribe, BlinkLedStart,
              StartFails, StartService, Subscribe, StartPc, Periodic, Works, RestTypeOK
<1>3. Running' = Running /\ \A x \in Works : Popped(x)' <=> Popped(x)
  BY <1>2 DEF Running, Popped, StartPc
<1> QED
  BY <1>1, <1>2, <1>3, DelayedIsDue, DueIfQuiet DEF Stays, Activates

LEMMA QueueDue == IInv /\ RunQueue => Stays \/ \E w \in Works : Runs(w)
<1> SUFFICES ASSUME IInv, RunQueue PROVE Stays \/ \E w \in Works : Runs(w)
  OBVIOUS
<1>1. RestTypeOK /\ HandsPart /\ QueuePart /\ OneActivation
  BY IInvParts
<1>2. CASE QueueGet
  <2>1. /\ pc = "queue_get" /\ queue # <<>> /\ timers' = timers
        /\ work' = Head(queue) /\ queue' = Tail(queue) /\ pc' = "test_pending"
    BY <1>2 DEF QueueGet
  <2>2. Distinct(queue) /\ \A x : In(queue, x) <=> Queued(x)
    BY <1>1 DEF OneActivation, Distinct, In, Queued
  <2>3. /\ work' \in Works /\ In(queue, work')
        /\ \A x : In(queue', x) <=> In(queue, x) /\ x # work'
    BY <1>1, <2>1, <2>2, TailDistinct DEF QueuePart
  <2>4. \A x : Queued(x)' <=> Queued(x) /\ x # work'
    BY <2>2, <2>3 DEF Queued, In
  <2>5. \A x : ~Popped(x) /\ (Popped(x)' <=> x = work')
    BY <2>1 DEF Popped
  <2>6. Due' = Due
    BY <2>1, <2>2, <2>3, <2>4, <2>5 DEF Due
  <2> QED
    BY <2>1, <2>6 DEF Stays, Running
<1>3. CASE TestAndClearPending
  <2>1. /\ pc = "test_pending" /\ pc' = "handler" /\ work' = work
        /\ work \in Works /\ ~Queued(work) /\ work \notin timers
        /\ queue' = queue /\ timers' = timers
    BY <1>1, <1>3 DEF TestAndClearPending, HandsPart, RestTypeOK, OneActivation, Popped
  <2>2. Due' = Due \ {work} /\ work \in Due
    BY <2>1 DEF Due, Queued, Popped
  <2> QED
    BY <2>1, <2>2 DEF Runs, Running
<1> QED
  BY <1>2, <1>3 DEF RunQueue

LEMMA HandlerDue ==
  IInv /\ (HawkbitWork \/ BlinkHandler \/ MqttConnectFails \/ MqttResubmit
           \/ PrintResult)
    => Stays \/ Finishes
<1> SUFFICES ASSUME IInv,
                    HawkbitWork \/ BlinkHandler \/ MqttConnectFails \/ MqttResubmit
                      \/ PrintResult
             PROVE  Stays \/ Finishes
  OBVIOUS
<1>1. RestTypeOK /\ HandsPart /\ QueuePart /\ OneActivation
  BY IInvParts
<1>2. CASE HawkbitWork \/ BlinkHandler \/ MqttResubmit
  <2>1. PICK w \in Periodic :
          /\ pc \in {"handler", "resubmit"} /\ work = w
          /\ SubmitDelayed(w) /\ HandlerReturns
    BY <1>2 DEF HawkbitWork, BlinkHandler, MqttResubmit, Periodic, Works
  <2>2. \A x \in Works : Popped(x)' <=> Popped(x)
    BY <2>1 DEF HandlerReturns, Popped
  <2>3. Due' = Due \cup {w}
    BY <1>1, <2>1, <2>2, DelayedIsDue
  <2>4. Running = w /\ Running' = NoWork /\ w # NoWork
    BY <2>1 DEF HandlerReturns, Running, NoWork, Periodic, Works
  <2> QED
    BY <2>3, <2>4 DEF Finishes
<1>3. CASE MqttConnectFails
  BY <1>3, DueIfQuiet DEF MqttConnectFails, Stays, Running, Popped
<1>4. CASE PrintResult
  <2>1. /\ UNCHANGED queueVars /\ \A x \in Works : Popped(x)' <=> Popped(x)
        /\ Running = "tc" /\ Running' = NoWork
    BY <1>4 DEF PrintResult, HandlerReturns, Popped, Running
  <2> QED
    BY <2>1, DueIfQuiet DEF Finishes, NoWork, Periodic
<1> QED
  BY <1>2, <1>3, <1>4

LEMMA TestResultDue ==
  IInv /\ MqttTestResult
    => Stays \/ (Activates("tc") /\ tcCount' = NumTestResults)
<1> SUFFICES ASSUME IInv, MqttTestResult
             PROVE  Stays \/ (Activates("tc") /\ tcCount' = NumTestResults)
  OBVIOUS
<1>1. QueuePart /\ OneActivation
  BY IInvParts
<1>2. Running' = Running /\ \A x \in Works : Popped(x)' <=> Popped(x)
  BY DEF MqttTestResult, Running, Popped
<1>3. CASE UNCHANGED queueVars
  <2>1. Due' = Due
    BY <1>2, <1>3, DueIfQuiet
  <2> QED
    BY <1>2, <2>1 DEF Stays
<1>4. CASE ~UNCHANGED queueVars
  <2>1. Submit("tc") /\ UNCHANGED timers /\ tcCount' = NumTestResults
    BY <1>4 DEF MqttTestResult
  <2>2. timers' = timers \ {"tc"} /\ "tc" \in Works
    BY <1>1, <2>1 DEF QueuePart, Periodic, Works
  <2> QED
    BY <1>1, <1>2, <2>1, <2>2, SubmittedIsDue DEF Activates
<1> QED
  BY <1>3, <1>4

LEMMA OthersDue ==
  ASSUME IInv,
         \/ IfaceUp \/ IfaceDown \/ NetMgmtTakesEvent
         \/ \E w \in Subscribers : NetMgmtCalls(w)
         \/ \E w \in Periodic : Timeout(w)
  PROVE  Stays \/ \E w \in Periodic : Activates(w)
<1>1. QueuePart /\ OneActivation
  BY IInvParts
<1>2. UNCHANGED <<pc, work>>
  BY DEF IfaceUp, IfaceDown, NetMgmtTakesEvent, NetMgmtCalls, Timeout, TimerFires, wqVars
<1>3. Running' = Running /\ \A x \in Works : Popped(x)' <=> Popped(x)
  BY <1>2 DEF Running, Popped
<1>4. CASE IfaceUp \/ IfaceDown \/ NetMgmtTakesEvent
  BY <1>3, <1>4, DueIfQuiet DEF IfaceUp, IfaceDown, NetMgmtTakesEvent, wqVars, Stays
<1>5. CASE \E w \in Subscribers : NetMgmtCalls(w)
  BY <1>1, <1>3, <1>5, DelayedIsDue
     DEF NetMgmtCalls, Subscribers, Periodic, Works, Activates
<1>6. CASE \E w \in Periodic : Timeout(w)
  BY <1>1, <1>3, <1>6, SubmittedIsDue DEF Timeout, TimerFires, Periodic, Activates
<1> QED
  BY <1>4, <1>5, <1>6

LEMMA ResetDue == IInv /\ Reset => Due' = {} /\ Running' = NoWork
BY DEF Reset, Due, Running, Queued, Popped, NoWork

LEMMA ReportParts ==
  IInv => (ReportIsComplete
             <=> ("tc" \in Due \cup {Running} => tcCount = NumTestResults))
<1> SUFFICES ASSUME IInv
             PROVE  ReportIsComplete
                      <=> ("tc" \in Due \cup {Running} => tcCount = NumTestResults)
  OBVIOUS
<1>1. "tc" \notin timers /\ "tc" \in Works /\ "tc" # NoWork
  BY IInvParts DEF QueuePart, Periodic, Works, NoWork
<1> QED
  BY <1>1 DEF ReportIsComplete, Due, Running, Handling

\* One step of the application is one of the contract, or changes neither.
LEMMA ContractStep ==
  IInv /\ [Next]_vars => [Services!ServiceNext]_(Services!serviceVars)
<1> SUFFICES ASSUME IInv, [Next]_vars
             PROVE  Services!ServiceNext \/ UNCHANGED Services!serviceVars
  OBVIOUS
<1>1. /\ Stays => UNCHANGED Services!serviceVars
      /\ \A w \in Works : Activates(w) => Services!ServiceNext
      /\ \A w \in Works : Runs(w) => Services!ServiceNext
      /\ Finishes => Services!ServiceNext
      /\ Due' = {} /\ Running' = NoWork => Services!ServiceNext
  BY DEF Stays, Activates, Runs, Finishes, Due, Running, Services!ServiceNext,
         Services!Activate, Services!Run, Services!Finish, Services!Restart,
         Services!serviceVars
<1>2. CASE HawkbitStart \/ HawkbitSubscribe \/ MqttStart \/ MqttSubscribe
           \/ BlinkLedStart \/ StartFails
  BY <1>1, <1>2, StartDue DEF Periodic
<1>3. CASE RunQueue
  BY <1>1, <1>3, QueueDue
<1>4. CASE HawkbitWork \/ BlinkHandler \/ MqttConnectFails \/ MqttResubmit \/ PrintResult
  BY <1>1, <1>4, HandlerDue
<1>5. CASE MqttTestResult
  BY <1>1, <1>5, TestResultDue DEF Works
<1>6. CASE \/ IfaceUp \/ IfaceDown \/ NetMgmtTakesEvent
           \/ \E w \in Subscribers : NetMgmtCalls(w)
           \/ \E w \in Periodic : Timeout(w)
  BY <1>1, <1>6, OthersDue DEF Periodic
<1>7. CASE Reset
  BY <1>1, <1>7, ResetDue
<1>8. CASE UNCHANGED vars
  <2>1. UNCHANGED queueVars /\ UNCHANGED <<pc, work>>
    BY <1>8 DEF vars, wqVars
  <2> QED
    BY <1>1, <2>1, DueIfQuiet DEF Stays, Running, Popped
<1> QED
  BY <1>2, <1>3, <1>4, <1>5, <1>6, <1>7, <1>8 DEF Next, Main, Worker

\* The types are right in every reachable state: tc_results is never indexed
\* past its end, whatever NUM_TEST_RESULTS is.
THEOREM MainTypeCorrect == Spec => []TypeOK
<1>1. IInv => TypeOK
  BY DEF IInv
<1> QED
  BY <1>1, IInit, IStep, PTL DEF Spec

\* A work whose pending bit is set is in the queue exactly once or just taken
\* from it, and a work that waits for its timeout is neither (the state that
\* lets a handler resubmit its own work).
THEOREM WorkIsActivatedOnce == Spec => []OneActivation
<1>1. IInv => OneActivation
  BY DEF IInv
<1> QED
  BY <1>1, IInit, IStep, PTL DEF Spec

\* A service once started never drops out of the work queue, although none of
\* the submissions looks at its result.
THEOREM ServicesStayAlive == Spec => []ChainAlive
<1>1. IInv => ChainAlive
  BY DEF IInv
<1> QED
  BY <1>1, IInit, IStep, PTL DEF Spec

\* The application keeps the contract of its services: a submitted work stays
\* due until it runs, works run one at a time, and a service whose work has run
\* is due again, whatever submissions cancel or overtake one another.
THEOREM ServicesKeepContract == Spec => ImplementsServices
<1>1. Init => Services!ServiceInit
  BY DEF Init, WqInit, Services!ServiceInit, Queued, Popped, NoWork
<1> QED
  BY <1>1, IInit, IStep, ContractStep, PTL
  DEF Spec, ImplementsServices, Services!ServiceSpec

\* The test report is printed only when all the results are there, however the
\* report's work waits in the queue among the others.
THEOREM ReportsAreComplete == Spec => []ReportIsComplete
<1>1. Init => ReportIsComplete
  BY DEF Init, WqInit, ReportIsComplete, Queued, Popped, Handling, NoWork
<1>2. IInv /\ ReportIsComplete /\ [Next]_vars => ReportIsComplete'
  <2> SUFFICES ASSUME IInv, ReportIsComplete, [Next]_vars
               PROVE  ReportIsComplete'
    OBVIOUS
  <2> DEFINE P == "tc" \in Due \cup {Running} => tcCount = NumTestResults
  <2>1. P
    BY ReportParts
  <2>2. ASSUME MqttTestResult PROVE P'
    <3>1. tcCount = NumTestResults => tcCount' = NumTestResults
      BY <2>2, FotaMainAssumption DEF MqttTestResult
    <3> QED
      BY <2>1, <2>2, <3>1, TestResultDue DEF Stays
  <2>3. ASSUME Reset PROVE P'
    BY <2>3, ResetDue DEF NoWork
  <2>4. ASSUME ~MqttTestResult, ~Reset PROVE P'
    <3>1. UNCHANGED tcCount
      BY <2>4 DEF Next, Main, Worker, HawkbitStart, HawkbitSubscribe, MqttStart,
                  MqttSubscribe, StartService, Subscribe, BlinkLedStart, StartFails,
                  RunQueue, HawkbitWork, BlinkHandler, MqttConnectFails, MqttResubmit,
                  PrintResult, IfaceUp, IfaceDown, NetMgmtTakesEvent, NetMgmtCalls,
                  Timeout, vars
    <3>2. \/ Stays \/ Finishes
          \/ \E w \in Periodic : Activates(w)
          \/ \E w \in Works : Runs(w)
      <4>1. CASE UNCHANGED vars
        <5>1. UNCHANGED queueVars /\ UNCHANGED <<pc, work>>
          BY <4>1 DEF vars, wqVars
        <5> QED
          BY <5>1, DueIfQuiet DEF Stays, Running, Popped
      <4> QED
        BY <2>4, <4>1, StartDue, QueueDue, HandlerDue, OthersDue DEF Next, Main, Worker
    <3>3. "tc" \in Due' \cup {Running'} => "tc" \in Due \cup {Running}
      BY <3>2 DEF Stays, Finishes, Activates, Runs, Periodic, NoWork
    <3> QED
      BY <2>1, <3>1, <3>3
  <2>5. P'
    BY <2>2, <2>3, <2>4
  <2>6. IInv'
    BY IStep
  <2> QED
    BY <2>5, <2>6, ReportParts, PTL
<1> QED
  BY <1>1, <1>2, IInit, IStep, PTL DEF Spec

\* The inductive invariant the four theorems above rest on.
THEOREM MainInvariant == Spec => []IInv
BY IInit, IStep, PTL DEF Spec

-----------------------------------------------------------------------------
(* What leaves the queue, and in which order.                              *)

InFront(q, x, w) == \E i, j \in 1..Len(q) : i < j /\ q[i] = x /\ q[j] = w

\* The works that are run before w if w stays in the queue.
Ahead(w) == {x \in Works : InFront(queue, x, w)}

LEMMA AppendInFront ==
  ASSUME NEW S, NEW q \in Seq(S), NEW w \in S, NEW v, In(q, v), ~In(q, w)
  PROVE  \A x : InFront(Append(q, w), x, v) => InFront(q, x, v)
<1>1. /\ Len(Append(q, w)) = Len(q) + 1
      /\ Len(q) \in Nat
      /\ \A i \in 1..Len(q) : Append(q, w)[i] = q[i]
      /\ Append(q, w)[Len(q) + 1] = w
  OBVIOUS
<1>2. v # w
  OBVIOUS
<1> QED
  BY <1>1, <1>2 DEF InFront

LEMMA TailInFront ==
  ASSUME NEW S, NEW q \in Seq(S), q # <<>>, Distinct(q), NEW v, In(Tail(q), v)
  PROVE  /\ InFront(q, Head(q), v)
         /\ \A x : InFront(Tail(q), x, v) <=> InFront(q, x, v) /\ x # Head(q)
<1>1. /\ Len(q) \in Nat /\ Len(q) >= 1
      /\ Head(q) = q[1]
      /\ Len(Tail(q)) = Len(q) - 1
      /\ \A i \in 1..(Len(q) - 1) : Tail(q)[i] = q[i + 1]
  OBVIOUS
<1>2. PICK k \in 1..(Len(q) - 1) : Tail(q)[k] = v
  BY <1>1 DEF In
<1>3. k + 1 \in 1..Len(q) /\ q[k + 1] = v /\ 1 < k + 1 /\ 1 \in 1..Len(q)
  BY <1>1, <1>2
<1>4. InFront(q, Head(q), v)
  BY <1>1, <1>3 DEF InFront
<1>5. ASSUME NEW x, InFront(Tail(q), x, v)
      PROVE  InFront(q, x, v) /\ x # Head(q)
  <2>1. PICK i, j \in 1..(Len(q) - 1) : i < j /\ Tail(q)[i] = x /\ Tail(q)[j] = v
    BY <1>1, <1>5 DEF InFront
  <2>2. /\ i + 1 \in 1..Len(q) /\ j + 1 \in 1..Len(q) /\ i + 1 < j + 1
        /\ q[i + 1] = x /\ q[j + 1] = v /\ i + 1 # 1
    BY <1>1, <2>1
  <2> QED
    BY <1>1, <1>3, <2>2 DEF InFront, Distinct
<1>6. ASSUME NEW x, InFront(q, x, v), x # Head(q)
      PROVE  InFront(Tail(q), x, v)
  <2>1. PICK i, j \in 1..Len(q) : i < j /\ q[i] = x /\ q[j] = v
    BY <1>6 DEF InFront
  <2>2. /\ i - 1 \in 1..Len(Tail(q)) /\ j - 1 \in 1..Len(Tail(q)) /\ i - 1 < j - 1
        /\ Tail(q)[i - 1] = x /\ Tail(q)[j - 1] = v
    BY <1>1, <1>6, <2>1
  <2> QED
    BY <2>2 DEF InFront
<1> QED
  BY <1>4, <1>5, <1>6

LEMMA WithoutInFront ==
  ASSUME NEW S, NEW q \in Seq(S), NEW w, In(q, w), NEW v
  PROVE  \A x : InFront(Without(q, w), x, v) => InFront(q, x, v)
<1> DEFINE at == CHOOSE i \in 1..Len(q) : q[i] = w
           r == [i \in 1..(Len(q) - 1) |-> IF i < at THEN q[i] ELSE q[i + 1]]
           from(i) == IF i < at THEN i ELSE i + 1
<1>1. at \in 1..Len(q) /\ Without(q, w) = r
  BY DEF In, Without
<1> HIDE DEF at
<1>2. Len(q) \in Nat /\ Len(q) - 1 \in Nat /\ Len(r) = Len(q) - 1
  BY <1>1
<1>3. \A i \in 1..Len(r) : from(i) \in 1..Len(q) /\ r[i] = q[from(i)]
  BY <1>1, <1>2
<1>4. \A i, j \in 1..Len(r) : i < j => from(i) < from(j)
  BY <1>1, <1>2
<1> HIDE DEF r, from
<1> QED
  BY <1>1, <1>3, <1>4 DEF InFront

\* The LED's work is submitted by nothing but its start and its own handler, so
\* it does not wait while either of them is still to come.
BlinkInv ==
  pc \in StartPc \/ Handling("blink") => "blink" \notin timers /\ ~Queued("blink")

\* Submitting one delayed work starts no timeout and queues no entry of another.
LEMMA DelayedOthers ==
  ASSUME QueuePart, OneActivation, NEW w \in Subscribers, SubmitDelayed(w),
         NEW v \in Works \ {w}
  PROVE  (v \in timers' => v \in timers) /\ (Queued(v)' => Queued(v))
<1>1. CASE UNCHANGED queueVars
  BY <1>1 DEF queueVars, Queued
<1>2. CASE ~UNCHANGED queueVars
  <2>1. timers' = timers \cup {w} /\ queue' = IF Queued(w) THEN Without(queue, w) ELSE queue
    BY <1>2 DEF SubmitDelayed
  <2>2. CASE Queued(w)
    <3>1. Distinct(queue) /\ In(queue, w)
      BY <2>2 DEF OneActivation, Distinct, In, Queued
    <3>2. In(queue', v) => In(queue, v)
      BY <2>1, <2>2, <3>1, WithoutDistinct DEF QueuePart
    <3> QED
      BY <2>1, <3>2 DEF In, Queued
  <2>3. CASE ~Queued(w)
    BY <2>1, <2>3 DEF Queued
  <2> QED
    BY <2>2, <2>3
<1> QED
  BY <1>1, <1>2

LEMMA BlinkStep == IInv /\ BlinkInv /\ [Next]_vars => BlinkInv'
<1> SUFFICES ASSUME IInv, BlinkInv, [Next]_vars,
                    pc' \in StartPc \/ Handling("blink")'
             PROVE  "blink" \notin timers' /\ ~Queued("blink")'
  BY DEF BlinkInv
<1>0. \A w \in Subscribers : "blink" \in Works \ {w}
  BY DEF Works, Subscribers
<1>1. RestTypeOK /\ HandsPart /\ QueuePart /\ OneActivation
  BY IInvParts
<1>2. CASE \/ HawkbitStart \/ HawkbitSubscribe \/ MqttStart \/ MqttSubscribe
           \/ BlinkLedStart \/ StartFails
  <2>1. pc \in StartPc /\ pc' \in StartPc
    BY <1>2 DEF HawkbitStart, HawkbitSubscribe, MqttStart, MqttSubscribe, BlinkLedStart,
                StartFails, StartService, Subscribe, StartPc, Handling
  <2>2. UNCHANGED queueVars \/ \E w \in Subscribers : SubmitDelayed(w)
    BY <1>2, <2>1
    DEF HawkbitStart, HawkbitSubscribe, MqttStart, MqttSubscribe, BlinkLedStart,
        StartFails, StartService, Subscribe, Subscribers, StartPc
  <2> QED
    BY <1>0, <1>1, <2>1, <2>2, DelayedOthers DEF BlinkInv, queueVars, Queued
<1>3. CASE QueueGet \/ HawkbitWork \/ BlinkHandler \/ MqttResubmit \/ PrintResult
  BY <1>3 DEF QueueGet, HawkbitWork, BlinkHandler, MqttResubmit, PrintResult,
              HandlerReturns, StartPc, Handling
<1>4. CASE TestAndClearPending
  <2>1. Popped("blink") /\ UNCHANGED <<queue, timers>>
    BY <1>4 DEF TestAndClearPending, Handling, Popped, StartPc
  <2> QED
    BY <1>1, <2>1 DEF OneActivation, Queued, Works
<1>5. CASE MqttConnectFails \/ MqttTestResult
  BY <1>5 DEF MqttConnectFails, MqttTestResult, StartPc, Handling
<1>6. CASE IfaceUp \/ IfaceDown \/ NetMgmtTakesEvent
  BY <1>6 DEF IfaceUp, IfaceDown, NetMgmtTakesEvent, wqVars, queueVars, BlinkInv, Handling,
              Queued
<1>7. ASSUME NEW w \in Subscribers, NetMgmtCalls(w)
      PROVE  "blink" \notin timers' /\ ~Queued("blink")'
  BY <1>0, <1>1, <1>7, DelayedOthers DEF NetMgmtCalls, BlinkInv, Handling
<1>8. ASSUME NEW w \in Periodic, Timeout(w)
      PROVE  "blink" \notin timers' /\ ~Queued("blink")'
  <2>1. w # "blink" /\ "blink" \notin timers /\ ~Queued("blink")
    BY <1>8 DEF Timeout, TimerFires, BlinkInv, Handling
  <2>2. timers' = timers \ {w} /\ queue' \in {queue, Append(queue, w)}
    BY <1>8 DEF Timeout, TimerFires, Submit
  <2> QED
    BY <1>1, <2>1, <2>2 DEF QueuePart, Queued, Periodic
<1>9. CASE Reset
  BY <1>9 DEF Reset, Queued
<1>10. CASE UNCHANGED vars
  BY <1>10 DEF vars, wqVars, queueVars, BlinkInv, Handling, Queued
<1> QED
  BY <1>2, <1>3, <1>4, <1>5, <1>6, <1>7, <1>8, <1>9, <1>10
  DEF Next, Main, Worker, RunQueue

\* The ways in which the queue changes.
LEMMA QueueMoves ==
  ASSUME IInv, BlinkInv, [Next]_vars
  PROVE  \/ UNCHANGED queue
         \/ \E w \in Works : ~Queued(w) /\ queue' = Append(queue, w)
         \/ QueueGet
         \/ \E w \in Subscribers :
              Queued(w) /\ w \in timers' /\ queue' = Without(queue, w)
         \/ queue' = <<>> /\ boots' # boots
<1> DEFINE Goal ==
      \/ UNCHANGED queue
      \/ \E w \in Works : ~Queued(w) /\ queue' = Append(queue, w)
      \/ QueueGet
      \/ \E w \in Subscribers :
           Queued(w) /\ w \in timers' /\ queue' = Without(queue, w)
      \/ queue' = <<>> /\ boots' # boots
<1>1. RestTypeOK /\ HandsPart /\ QueuePart /\ OneActivation
  BY IInvParts
<1>2. ASSUME NEW w \in Subscribers \cup {"blink"}, SubmitDelayed(w),
             w = "blink" => ~Queued("blink")
      PROVE  Goal
  BY <1>2 DEF SubmitDelayed, queueVars
<1>3. ASSUME NEW w \in Works, Submit(w) PROVE Goal
  BY <1>1, <1>3 DEF Submit, OneActivation
<1>4. CASE HawkbitStart \/ MqttStart \/ HawkbitWork \/ MqttResubmit
  <2>1. UNCHANGED queueVars \/ \E w \in Subscribers : SubmitDelayed(w)
    BY <1>4 DEF HawkbitStart, MqttStart, StartService, HawkbitWork, MqttResubmit,
                Subscribers
  <2> QED
    BY <1>2, <2>1 DEF queueVars, Subscribers
<1>5. CASE BlinkLedStart \/ BlinkHandler
  <2>1. SubmitDelayed("blink") /\ ~Queued("blink")
    BY <1>5 DEF BlinkLedStart, BlinkHandler, BlinkInv, StartPc, Handling
  <2> QED
    BY <1>2, <2>1
<1>6. CASE HawkbitSubscribe \/ MqttSubscribe \/ StartFails \/ MqttConnectFails \/ PrintResult
  BY <1>6 DEF HawkbitSubscribe, MqttSubscribe, Subscribe, StartFails, MqttConnectFails,
              PrintResult, queueVars
<1>7. CASE RunQueue
  BY <1>7 DEF RunQueue, TestAndClearPending
<1>8. CASE MqttTestResult
  BY <1>3, <1>8 DEF MqttTestResult, queueVars, Works
<1>9. CASE IfaceUp \/ IfaceDown \/ NetMgmtTakesEvent \/ UNCHANGED vars
  BY <1>9 DEF IfaceUp, IfaceDown, NetMgmtTakesEvent, vars, wqVars, queueVars
<1>10. ASSUME NEW w \in Subscribers, NetMgmtCalls(w) PROVE Goal
  BY <1>2, <1>10 DEF NetMgmtCalls, Subscribers
<1>11. ASSUME NEW w \in Periodic, Timeout(w) PROVE Goal
  BY <1>3, <1>11 DEF Timeout, TimerFires, Periodic
<1>12. CASE Reset
  BY <1>1, <1>12 DEF Reset, RestTypeOK
<1> QED
  BY <1>4, <1>5, <1>6, <1>7, <1>8, <1>9, <1>10, <1>11, <1>12 DEF Next, Main, Worker

LEMMA QueueInvariant == Spec => [](IInv /\ BlinkInv)
<1>1. Init => BlinkInv
  BY DEF Init, WqInit, BlinkInv, Queued
<1> QED
  BY <1>1, IInit, IStep, BlinkStep, PTL DEF Spec

\* What leaves the queue of the works was taken to be run, or was lost to a
\* reset, or is a service of the network whose submission started its timeout
\* again: nobody cancels the LED's work or the report.
THEOREM QueuedWorksAreRun ==
  Spec => [][\A w \in Works : Queued(w) /\ ~Queued(w)' =>
               \/ Popped(w)'
               \/ boots' # boots
               \/ w \in Subscribers /\ w \in timers']_vars
<1>1. IInv /\ BlinkInv /\ [Next]_vars =>
        [\A w \in Works : Queued(w) /\ ~Queued(w)' =>
           \/ Popped(w)'
           \/ boots' # boots
           \/ w \in Subscribers /\ w \in timers']_vars
  <2> SUFFICES ASSUME IInv, BlinkInv, [Next]_vars,
                      NEW w \in Works, Queued(w), ~Queued(w)'
               PROVE  \/ Popped(w)'
                      \/ boots' # boots
                      \/ w \in Subscribers /\ w \in timers'
    OBVIOUS
  <2>1. queue \in Seq(Works) /\ Distinct(queue) /\ In(queue, w) /\ ~In(queue', w)
    BY IInvParts DEF QueuePart, OneActivation, Distinct, In, Queued
  <2>2. CASE UNCHANGED queue
    BY <2>1, <2>2 DEF In
  <2>3. ASSUME NEW v \in Works, ~Queued(v), queue' = Append(queue, v) PROVE FALSE
    BY <2>1, <2>3, AppendDistinct DEF In, Queued
  <2>4. CASE QueueGet
    <3>1. w = Head(queue)
      BY <2>1, <2>4, TailDistinct DEF QueueGet
    <3> QED
      BY <2>4, <3>1 DEF QueueGet, Popped
  <2>5. ASSUME NEW v \in Subscribers, Queued(v), v \in timers', queue' = Without(queue, v)
        PROVE  w \in Subscribers /\ w \in timers'
    <3>1. In(queue, v) /\ v \in Works
      BY <2>5 DEF In, Queued, Subscribers, Works
    <3>2. \A x : In(queue', x) <=> In(queue, x) /\ x # v
      BY <2>1, <2>5, <3>1, WithoutDistinct
    <3> QED
      BY <2>1, <2>5, <3>2
  <2> QED
    BY <2>2, <2>3, <2>4, <2>5, QueueMoves
<1> QED
  BY <1>1, QueueInvariant, PTL DEF Spec

\* While a work stays in the queue no other gets in front of it, and each work
\* that is taken was in front of it and no longer is, cancellations included: at
\* most the other works are run before it, each once.
THEOREM NoWorkOvertakes ==
  Spec => [][\A w \in Works : Queued(w) /\ Queued(w)' =>
               /\ Ahead(w)' \subseteq Ahead(w)
               /\ QueueGet => work' \in Ahead(w) /\ Ahead(w)' = Ahead(w) \ {work'}]_vars
<1>1. IInv /\ BlinkInv /\ [Next]_vars =>
        [\A w \in Works : Queued(w) /\ Queued(w)' =>
           /\ Ahead(w)' \subseteq Ahead(w)
           /\ QueueGet => work' \in Ahead(w) /\ Ahead(w)' = Ahead(w) \ {work'}]_vars
  <2> SUFFICES ASSUME IInv, BlinkInv, [Next]_vars,
                      NEW w \in Works, Queued(w), Queued(w)'
               PROVE  /\ Ahead(w)' \subseteq Ahead(w)
                      /\ QueueGet => work' \in Ahead(w) /\ Ahead(w)' = Ahead(w) \ {work'}
    OBVIOUS
  <2>1. queue \in Seq(Works) /\ Distinct(queue) /\ In(queue, w) /\ In(queue', w)
    BY IInvParts DEF QueuePart, OneActivation, Distinct, In, Queued
  <2>2. CASE QueueGet
    <3>1. queue # <<>> /\ queue' = Tail(queue) /\ work' = Head(queue)
      BY <2>2 DEF QueueGet
    <3>2. /\ InFront(queue, work', w) /\ work' \in Works
          /\ \A x : InFront(queue', x, w) <=> InFront(queue, x, w) /\ x # work'
      BY <2>1, <3>1, TailInFront, TailDistinct
    <3> QED
      BY <3>2 DEF Ahead
  <2>3. CASE ~QueueGet
    <3>1. \A x \in Works : InFront(queue', x, w) => InFront(queue, x, w)
      <4>1. CASE UNCHANGED queue
        BY <4>1 DEF InFront
      <4>2. ASSUME NEW v \in Works, ~Queued(v), queue' = Append(queue, v)
            PROVE  \A x : InFront(queue', x, w) => InFront(queue, x, w)
        BY <2>1, <4>2, AppendInFront DEF In, Queued
      <4>3. ASSUME NEW v \in Subscribers, Queued(v), queue' = Without(queue, v)
            PROVE  \A x : InFront(queue', x, w) => InFront(queue, x, w)
        BY <2>1, <4>3, WithoutInFront DEF In, Queued
      <4>4. queue' # <<>>
        BY <2>1 DEF In
      <4> QED
        BY <2>3, <4>1, <4>2, <4>3, <4>4, QueueMoves
    <3> QED
      BY <2>3, <3>1 DEF Ahead
  <2> QED
    BY <2>2, <2>3
<1> QED
  BY <1>1, QueueInvariant, PTL DEF Spec
=============================================================================
