-------------------------- MODULE RendezvousTimed ---------------------------
(***************************************************************************)
(* The demo of FreeRTOS/main_queue.c with time: the tick interrupt, the    *)
(* delays in ticks, the fixed priorities, the FIFO of blocked receivers,   *)
(* and the time-outs of the blocking calls.                                *)
(*                                                                         *)
(* FreeRTOSConfig.h sets INCLUDE_vTaskSuspend to 0, which makes            *)
(* portMAX_DELAY an ordinary time-out of 2^16 - 1 ticks instead of         *)
(* "forever".  The tasks ignore the results of xQueueSend and              *)
(* xEventGroupSync, so the rendezvous is only right as long as no call     *)
(* ever times out.  The time-outs are modelled as the kernel does them;    *)
(* the properties say that they never fire.                                *)
(*                                                                         *)
(* External: the kernel itself is not part of the repository.              *)
(***************************************************************************)
EXTENDS Rendezvous, SequencesExt

CONSTANTS
  portMAX_DELAY,  \* ticks a blocking call waits
  MaxLag          \* ticks that may pass before a ready task gets to a step

ASSUME TimedAssumption ==
  /\ portMAX_DELAY \in Nat \ {0}
  /\ WorkItem # {}
  /\ WorkItem \subseteq 1..portMAX_DELAY
  /\ MaxLag \in Nat \ {0}

VARIABLES
  timer,    \* ticks left of the delay or time-out a task is in; NoTimer if none
  waiting,  \* the queue's event list: blocked receivers, first come first
  lag       \* ticks since the last step of a task, while one is ready

timedVars == <<vars, timer, waiting, lag>>

NoTimer == -1

TimedInit ==
  /\ Init
  /\ timer = [t \in Task |-> NoTimer]
  /\ waiting = << >>
  /\ lag = 0

Blocked == {"recvWait", "sendWait", "syncWait", "delay"}

ReadyTask(t) == pc[t] \notin Blocked

\* The manager has priority 2, the workers 1: a worker runs only while the
\* manager is blocked.
Running(t) == ReadyTask(t) /\ (t # Manager => ~ReadyTask(Manager))

\* Mutant: a stale time-out runs on after the call has returned.
StopTimersNever(S) == UNCHANGED timer

\* The timers of the tasks a step has touched.  A call that returns stops the
\* caller's timer; a sleeper that was woken in time keeps it, since a retry
\* continues the same time-out.
StopTimers(S) == timer' = [t \in Task |-> IF t \in S THEN NoTimer ELSE timer[t]]

\* A call blocks: the time-out starts, unless this is a retry.
StartTimeout(t) ==
  timer' = [timer EXCEPT ![t] = IF @ = NoTimer THEN portMAX_DELAY ELSE @]

\* xTaskCheckForTimeOut: the time-out of the call has run out.
TimedOut(t) == timer[t] = 0

Step(t) == Running(t) /\ lag' = 0

-----------------------------------------------------------------------------
(* The worker                                                              *)

TimedReceive(w) ==
  /\ Step(w)
  /\ Receive(w)
  /\ timer' = [timer EXCEPT ![w] = Head(queue)]
  /\ UNCHANGED waiting

TimedReceiveBlocks(w) ==
  /\ Step(w)
  /\ ~TimedOut(w)
  /\ ReceiveBlocks(w)
  /\ StartTimeout(w)
  /\ waiting' = Append(waiting, w)

\* xQueueReceive gives up: not pdTRUE, so no work, on to the rendezvous.
ReceiveTimesOut(w) ==
  /\ Step(w)
  /\ pc[w] = "receive"
  /\ queue = << >>
  /\ TimedOut(w)
  /\ pc' = [pc EXCEPT ![w] = "sync"]
  /\ StopTimers({w})
  /\ UNCHANGED <<sent, queue, bits, marker, rounds, waiting>>

TimedRecordCompletion(w) ==
  /\ Step(w)
  /\ RecordCompletion(w)
  /\ StopTimers({w})
  /\ UNCHANGED waiting

\* xEventGroupSync completes for everybody or blocks the caller.
TimedSync(t) ==
  IF AllHere(t)
    THEN StopTimers({u \in Task : pc[u] = "syncWait"} \cup {t})
    ELSE StartTimeout(t)

TimedWorkerSync(w) ==
  /\ Step(w)
  /\ WorkerSync(w)
  /\ TimedSync(w)
  /\ UNCHANGED waiting

-----------------------------------------------------------------------------
(* The manager                                                             *)

\* The event list once its head is woken.
WaitingAfterSend == IF waiting = << >> THEN waiting ELSE Tail(waiting)

\* The kernel readies the receiver that has waited longest.
TimedSend ==
  /\ Step(Manager)
  /\ Send
  /\ waiting # << >> => pc'[Head(waiting)] = "receive"
  /\ waiting' = WaitingAfterSend
  /\ StopTimers({Manager})

TimedSendBlocks ==
  /\ Step(Manager)
  /\ ~TimedOut(Manager)
  /\ SendBlocks
  /\ StartTimeout(Manager)
  /\ UNCHANGED waiting

\* xQueueSend gives up: the item is dropped and the loop goes on.
SendTimesOut ==
  /\ Step(Manager)
  /\ pc[Manager] = "send"
  /\ Len(queue) = QueueLength
  /\ TimedOut(Manager)
  /\ sent' = sent + 1
  /\ pc' = [pc EXCEPT ![Manager] =
              IF sent + 1 < ItemsPerRound THEN "send" ELSE "sync"]
  /\ StopTimers({Manager})
  /\ UNCHANGED <<queue, bits, marker, rounds, waiting>>

TimedManagerSync ==
  /\ Step(Manager)
  /\ ManagerSync
  /\ TimedSync(Manager)
  /\ UNCHANGED waiting

TimedCountRound ==
  /\ Step(Manager)
  /\ CountRound
  /\ UNCHANGED <<timer, waiting>>

-----------------------------------------------------------------------------
(* The tick                                                                *)

Expiring == {t \in Task : pc[t] \in Blocked /\ timer[t] = 1}

\* Where a task goes when its delay or time-out ends: out of vTaskDelay, back
\* to the call that checks queue and time-out, or out of xEventGroupSync,
\* which leaves the caller's bit set.
OnExpiry(t) ==
  CASE pc[t] = "delay"    -> "work"
    [] pc[t] = "recvWait" -> "receive"
    [] pc[t] = "sendWait" -> "send"
    [] pc[t] = "syncWait" -> AfterSync(t)

\* A list without the members of E: uxListRemove of each.
Without(list, E) ==
  LET kept[i \in 0..Len(list)] ==
        IF i = 0 THEN << >>
        ELSE IF list[i] \in E THEN kept[i - 1] ELSE Append(kept[i - 1], list[i])
  IN kept[Len(list)]

\* The timers and the event list after a tick.
TimerAfterTick(t) ==
  IF t \in Expiring /\ pc[t] \in {"delay", "syncWait"} THEN NoTimer
  ELSE IF timer[t] > 0 THEN timer[t] - 1 ELSE timer[t]

WaitingAfterTickKept == waiting  \* mutant: who times out stays listed
WaitingAfterTick == Without(waiting, Expiring)

\* The tick interrupt.  At 50000 cycles a tick the processor gets a task from
\* one kernel call to the next within MaxLag ticks.
Tick ==
  /\ IF \E t \in Task : ReadyTask(t)
       THEN lag < MaxLag /\ lag' = lag + 1
       ELSE lag' = 0
  /\ pc' = [t \in Task |-> IF t \in Expiring THEN OnExpiry(t) ELSE pc[t]]
  /\ timer' = [t \in Task |-> TimerAfterTick(t)]
  /\ waiting' = WaitingAfterTick
  /\ UNCHANGED <<sent, queue, bits, marker, rounds>>

-----------------------------------------------------------------------------
TimedNext ==
  \/ Tick
  \/ \E w \in Worker :
       \/ TimedReceive(w)
       \/ TimedReceiveBlocks(w)
       \/ TimedRecordCompletion(w)
       \/ TimedWorkerSync(w)
       \/ ReceiveTimesOut(w)
  \/ TimedSend
  \/ TimedSendBlocks
  \/ TimedManagerSync
  \/ TimedCountRound
  \/ SendTimesOut

TimedSpec == TimedInit /\ [][TimedNext]_timedVars

\* The timer interrupt never stops and the processor always gets on with what
\* is ready.
TimedFairSpec == TimedSpec /\ WF_timedVars(TimedNext)

-----------------------------------------------------------------------------
(* Properties                                                              *)

\* The longest work item, in ticks.
MaxTicks == CHOOSE n \in WorkItem : \A m \in WorkItem : m <= n

\* What the workers do in a round between them: receive, increment, sync.
StepsPerRound == 3 * ItemsPerRound

\* No wait outlasts the longest delay plus MaxLag ticks for every step the
\* workers take in a round (6 + 9 * MaxLag ticks with the code's numbers), so
\* none comes near the time-out of 2^16 - 1 ticks.
WaitsAreShort ==
  \A t \in Task : pc[t] \in Blocked \ {"delay"} =>
    timer[t] >= portMAX_DELAY - (MaxTicks + MaxLag * StepsPerRound)

\* The event list is the blocked receivers, each once.
WaitingIsReceivers ==
  /\ ToSet(waiting) = Receivers
  /\ Len(waiting) = Cardinality(Receivers)

\* With its finite portMAX_DELAY and the kernel's tick and priorities the demo
\* still behaves as Rendezvous says, fairness included: no time-out ever fires,
\* the delays end as they do there, every ready task gets to run, and so all
\* that holds of Rendezvous holds of the demo.
ImplementsRendezvous == FairSpec

\* Even when calls time out, nobody blocks in xEventGroupSync without its bit:
\* a later rendezvous can always release it.
WaitersHaveBits == \A t \in Task : pc[t] = "syncWait" => t \in bits

=============================================================================
