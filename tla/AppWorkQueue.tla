---------------------------- MODULE AppWorkQueue ----------------------------
(***************************************************************************)
(* The application work queue of src/app_work_queue.c: one queue of works, *)
(* run by the main thread, filled by handlers, by timeouts of delayed      *)
(* works (in the clock interrupt) and by the network management thread.    *)
(*                                                                         *)
(* Zephyr's k_queue, k_work and k_delayed_work are external.  A call of    *)
(* theirs is one step: those on a delayed work run with interrupts locked, *)
(* a timeout runs in the clock interrupt, the queue is one of the kernel's *)
(* and atomic, and tc, submitted in two steps (bit, queue), is submitted   *)
(* by the main thread alone, which is also the one that takes it.          *)
(***************************************************************************)
EXTENDS Sequences, Naturals

Works == {"hawkbit", "mqtt", "blink", "tc"}   \* tc is a plain k_work
Periodic == Works \ {"tc"}                    \* the delayed works
NoWork == "none"

VARIABLES
  queue,     \* app_queue.queue
  pending,   \* the works whose K_WORK_STATE_PENDING is set
  attached,  \* the delayed works whose work_q is set: submitted since boot
  timers,    \* the delayed works whose timeout is active
  pc,        \* where the main thread is
  work       \* the work it took from the queue

queueVars == <<queue, pending, attached, timers>>
wqVars == <<queueVars, pc, work>>

StartPc == {"hawkbit_start", "hawkbit_subscribe", "mqtt_start",
            "mqtt_subscribe", "blink_led_start", "returned"}
RunPc == {"queue_get", "test_pending", "handler", "resubmit"}

Queued(w) == \E i \in 1..Len(queue) : queue[i] = w

\* The work the main thread holds is about to run, or is running.
Popped(w) == work = w /\ pc = "test_pending"
Handling(w) == work = w /\ pc \in {"handler", "resubmit"}

WqTypeOK ==
  /\ queue \in Seq(Works)
  /\ pending \subseteq Works
  /\ attached \subseteq Periodic
  /\ timers \subseteq Periodic
  /\ pc \in StartPc \cup RunPc
  /\ work \in Works \cup {NoWork}

WqInit ==
  /\ queue = <<>>
  /\ pending = {}
  /\ attached = {}
  /\ timers = {}
  /\ pc = "hawkbit_start"
  /\ work = NoWork

-----------------------------------------------------------------------------
(* Submitting (external: k_work_submit_to_queue and its delayed form).     *)

\* Mutant: the newest work is put in front.
SubmitInFront(w) ==
  /\ queue' = IF w \in pending THEN queue ELSE <<w>> \o queue
  /\ pending' = pending \cup {w}

Submit(w) ==
  /\ queue' = IF w \in pending THEN queue ELSE Append(queue, w)
  /\ pending' = pending \cup {w}

\* A queue without the one entry of a work that it holds.
Without(q, w) ==
  LET at == CHOOSE i \in 1..Len(q) : q[i] = w
  IN  [i \in 1..(Len(q) - 1) |-> IF i < at THEN q[i] ELSE q[i + 1]]

\* Mutant: an earlier submission is not cancelled.
SubmitDelayedAgain(w) ==
  /\ attached' = attached \cup {w}
  /\ timers' = timers \cup {w}
  /\ UNCHANGED <<queue, pending>>

\* An earlier submission is cancelled first, whether its timeout is active
\* or it is queued; a work already taken but still marked pending can not
\* be cancelled, and the call does nothing but return -EINVAL.
SubmitDelayed(w) ==
  IF w \in pending /\ ~Queued(w)
  THEN UNCHANGED queueVars
  ELSE /\ queue' = IF Queued(w) THEN Without(queue, w) ELSE queue
       /\ pending' = pending \ {w}
       /\ attached' = attached \cup {w}
       /\ timers' = timers \cup {w}

\* work_timeout, in the clock interrupt.
TimerFires(w) ==
  /\ w \in timers
  /\ timers' = timers \ {w}
  /\ Submit(w)
  /\ UNCHANGED <<attached, pc, work>>

-----------------------------------------------------------------------------
(* app_wq_run.                                                             *)

\* k_queue_get
QueueGet ==
  /\ pc = "queue_get"
  /\ queue # <<>>
  /\ work' = Head(queue)
  /\ queue' = Tail(queue)
  /\ pc' = "test_pending"
  /\ UNCHANGED <<pending, attached, timers>>

\* Mutant: the pending bit is tested but not cleared.
TestPendingOnly ==
  /\ pc = "test_pending"
  /\ pc' = IF work \in pending THEN "handler" ELSE "queue_get"
  /\ work' = IF work \in pending THEN work ELSE NoWork
  /\ UNCHANGED queueVars

\* "Reset pending state so it can be resubmitted by handler"
TestAndClearPending ==
  /\ pc = "test_pending"
  /\ pending' = pending \ {work}
  /\ pc' = IF work \in pending THEN "handler" ELSE "queue_get"
  /\ work' = IF work \in pending THEN work ELSE NoWork
  /\ UNCHANGED <<queue, attached, timers>>

\* The handler of the work is done.
HandlerReturns ==
  /\ pc' = "queue_get"
  /\ work' = NoWork

=============================================================================
