----------------------------- MODULE Rendezvous -----------------------------
(***************************************************************************)
(* The queue + event-group demo of FreeRTOS/main_queue.c: a manager task   *)
(* hands one work item to each worker through a bounded queue, and all     *)
(* tasks then meet at an event-group rendezvous, which ends the round.     *)
(*                                                                         *)
(* Here the kernel calls block for as long as they have to and any ready   *)
(* task may run next; RendezvousTimed adds the tick, the time-outs and     *)
(* the priorities.  A label of pc is the place of a task between two       *)
(* kernel calls:                                                           *)
(*   worker   "receive"  calls (or, once woken, retries) xQueueReceive     *)
(*            "recvWait" blocked on the queue                              *)
(*            "delay"    blocked in vTaskDelay                             *)
(*            "work"     delay over, about to increment its marker         *)
(*            "sync"     about to call xEventGroupSync                     *)
(*            "syncWait" blocked in xEventGroupSync                        *)
(*   manager  "send", "sendWait", "sync", "syncWait", and "count": back    *)
(*            from xEventGroupSync, about to increment MARKER_ROUNDS       *)
(***************************************************************************)
EXTENDS Integers, Sequences, FiniteSets

CONSTANTS
  Worker,       \* the worker tasks (three in the code)
  Manager,      \* the manager task
  QueueLength,  \* slots of the work queue (8 in the code)
  WorkItem,     \* what random_ticks can return
  CounterMod    \* markers are unsigned int: 2^16 in the code

ASSUME RendezvousAssumption ==
  /\ IsFiniteSet(Worker)
  /\ Worker # {}
  /\ Manager \notin Worker
  /\ QueueLength \in Nat \ {0}
  /\ CounterMod \in Nat /\ CounterMod > 1

Task == Worker \cup {Manager}

\* Items the manager sends in a round: the literal 3 of its for loop, which is
\* the number of workers main creates.
ItemsPerRound == Cardinality(Worker)

VARIABLES
  pc,      \* where each task is
  sent,    \* the manager's loop counter i
  queue,   \* xWorkQueue
  bits,    \* xEvents: the tasks whose bit is set
  marker,  \* the markers WORKER_A, WORKER_B, WORKER_C
  rounds   \* MARKER_ROUNDS

vars == <<pc, sent, queue, bits, marker, rounds>>

\* Increment of an unsigned marker.
Inc(n) == (n + 1) % CounterMod

WorkerPC == {"receive", "recvWait", "delay", "work", "sync", "syncWait"}
ManagerPC == {"send", "sendWait", "sync", "syncWait", "count"}

\* main: markers cleared, queue and event group empty, every task created.
Init ==
  /\ pc = [t \in Task |-> IF t = Manager THEN "send" ELSE "receive"]
  /\ sent = 0
  /\ queue = << >>
  /\ bits = {}
  /\ marker = [w \in Worker |-> 0]
  /\ rounds = 0

-----------------------------------------------------------------------------
(* The kernel's queue and event group, from how main_queue.c uses them.    *)

\* Tasks blocked on the empty, or on the full, queue.
Receivers == {w \in Worker : pc[w] = "recvWait"}

\* Mutant: the send wakes nobody.
QueueSendWakesNobody(item, next) ==
  /\ Len(queue) < QueueLength
  /\ queue' = Append(queue, item)
  /\ pc' = [pc EXCEPT ![Manager] = next]

\* xQueueSend that finds room: the item goes to the back and one blocked
\* receiver becomes ready.  Which one is left open here.
QueueSend(item, next) ==
  /\ Len(queue) < QueueLength
  /\ queue' = Append(queue, item)
  /\ IF Receivers = {}
       THEN pc' = [pc EXCEPT ![Manager] = next]
       ELSE \E w \in Receivers :
              pc' = [pc EXCEPT ![Manager] = next, ![w] = "receive"]

\* xQueueReceive that finds an item: it is taken from the front and a blocked
\* sender becomes ready.
QueueReceive(w, next) ==
  /\ queue # << >>
  /\ queue' = Tail(queue)
  /\ pc' = [pc EXCEPT ![w] = next,
                      ![Manager] = IF @ = "sendWait" THEN "send" ELSE @]

\* Where a task goes when xEventGroupSync returns.
AfterSync(t) == IF t = Manager THEN "count" ELSE "receive"

\* Whether everybody has arrived once t has.
AllHereWorkersOnly(t) == Worker \subseteq bits \cup {t}  \* mutant: MANAGER_BIT missing
AllHere(t) == bits \cup {t} = Task

\* The places of the tasks after the last arrival, t.
ReleasedAlone(t) == [pc EXCEPT ![t] = AfterSync(t)]  \* mutant: nobody is woken
Released(t) ==
  [u \in Task |-> IF u = t \/ pc[u] = "syncWait" THEN AfterSync(u) ELSE pc[u]]

\* Mutant: the bits stay set after the rendezvous.
EventGroupSyncKeepsBits(t) ==
  /\ bits' = bits \cup {t}
  /\ pc' = IF AllHere(t) THEN Released(t) ELSE [pc EXCEPT ![t] = "syncWait"]

\* xEventGroupSync: sets the caller's bit.  The last to arrive clears all bits
\* and readies every task that waits, atomically (the scheduler is suspended);
\* the others block.
EventGroupSync(t) ==
  IF AllHere(t)
    THEN bits' = {} /\ pc' = Released(t)
    ELSE bits' = bits \cup {t} /\ pc' = [pc EXCEPT ![t] = "syncWait"]

-----------------------------------------------------------------------------
(* vWorkerTask                                                             *)

Receive(w) ==
  /\ pc[w] = "receive"
  /\ QueueReceive(w, "delay")
  /\ UNCHANGED <<sent, bits, marker, rounds>>

ReceiveBlocks(w) ==
  /\ pc[w] = "receive"
  /\ queue = << >>
  /\ pc' = [pc EXCEPT ![w] = "recvWait"]
  /\ UNCHANGED <<sent, queue, bits, marker, rounds>>

\* A tick may end the delays of several workers at once.
DelayElapsed(S) ==
  /\ S # {}
  /\ \A w \in S : pc[w] = "delay"
  /\ pc' = [t \in Task |-> IF t \in S THEN "work" ELSE pc[t]]
  /\ UNCHANGED <<sent, queue, bits, marker, rounds>>

\* Mutant: the worker goes for another item instead of to the rendezvous.
RecordCompletionNoSync(w) ==
  /\ pc[w] = "work"
  /\ marker' = [marker EXCEPT ![w] = Inc(@)]
  /\ pc' = [pc EXCEPT ![w] = "receive"]
  /\ UNCHANGED <<sent, queue, bits, rounds>>

RecordCompletion(w) ==
  /\ pc[w] = "work"
  /\ marker' = [marker EXCEPT ![w] = Inc(@)]
  /\ pc' = [pc EXCEPT ![w] = "sync"]
  /\ UNCHANGED <<sent, queue, bits, rounds>>

WorkerSync(w) ==
  /\ pc[w] = "sync"
  /\ EventGroupSync(w)
  /\ UNCHANGED <<sent, queue, marker, rounds>>

-----------------------------------------------------------------------------
(* vManagerTask                                                            *)

Send ==
  /\ pc[Manager] = "send"
  /\ \E item \in WorkItem :
       QueueSend(item, IF sent + 1 < ItemsPerRound THEN "send" ELSE "sync")
  /\ sent' = sent + 1
  /\ UNCHANGED <<bits, marker, rounds>>

SendBlocks ==
  /\ pc[Manager] = "send"
  /\ Len(queue) = QueueLength
  /\ pc' = [pc EXCEPT ![Manager] = "sendWait"]
  /\ UNCHANGED <<sent, queue, bits, marker, rounds>>

\* Mutant: the manager does not wait for the workers.
ManagerSyncSkipped ==
  /\ pc[Manager] = "sync"
  /\ pc' = [pc EXCEPT ![Manager] = "count"]
  /\ UNCHANGED <<sent, queue, bits, marker, rounds>>

ManagerSync ==
  /\ pc[Manager] = "sync"
  /\ EventGroupSync(Manager)
  /\ UNCHANGED <<sent, queue, marker, rounds>>

CountRound ==
  /\ pc[Manager] = "count"
  /\ rounds' = Inc(rounds)
  /\ sent' = 0
  /\ pc' = [pc EXCEPT ![Manager] = "send"]
  /\ UNCHANGED <<queue, bits, marker>>

-----------------------------------------------------------------------------
WorkerStep(w) ==
  Receive(w) \/ ReceiveBlocks(w) \/ RecordCompletion(w) \/ WorkerSync(w)

ManagerStep == Send \/ SendBlocks \/ ManagerSync \/ CountRound

Next ==
  \/ \E w \in Worker : WorkerStep(w)
  \/ \E S \in SUBSET Worker : DelayElapsed(S)
  \/ ManagerStep

Spec == Init /\ [][Next]_vars

\* The time-sliced preemptive scheduler runs every ready task again and again,
\* and the tick ends every delay.
Fairness ==
  /\ \A w \in Worker : WF_vars(WorkerStep(w)) /\ WF_vars(DelayElapsed({w}))
  /\ WF_vars(ManagerStep)

FairSpec == Spec /\ Fairness

-----------------------------------------------------------------------------
(* Properties                                                              *)

TypeOK ==
  /\ pc \in [Task -> WorkerPC \cup ManagerPC]
  /\ pc[Manager] \in ManagerPC
  /\ \A w \in Worker : pc[w] \in WorkerPC
  /\ sent \in 0..ItemsPerRound
  /\ queue \in Seq(WorkItem)
  /\ Len(queue) <= QueueLength
  /\ bits \in SUBSET Task
  /\ marker \in [Worker -> 0..(CounterMod - 1)]
  /\ rounds \in 0..(CounterMod - 1)

\* The workers that hold, or have finished, an item of this round.
Served == {w \in Worker : pc[w] \notin {"receive", "recvWait"}}

\* Items the manager has sent that belong to this round.
SentThisRound == IF pc[Manager] = "count" THEN 0 ELSE sent

\* Every item of the round is in the queue or with a worker of its own: no
\* worker of vWorkerTask takes a second item before the rendezvous, none is
\* lost, and none is left over for the next round.
OneItemEach == Len(queue) + Cardinality(Served) = SentThisRound

\* xEvents holds exactly the bits of the tasks blocked in xEventGroupSync, so a
\* rendezvous never completes on a bit left from an earlier round.
BitsAreWaiters == bits = {t \in Task : pc[t] = "syncWait"}

\* Every item still queued has a worker ready to take it, unless nobody waits:
\* one wake-up per xQueueSend is enough, and no worker sleeps beside an item.
NoLostWakeup ==
  Receivers # {} =>
    Len(queue) <= Cardinality({w \in Worker : pc[w] = "receive"})

\* A worker is ahead of ROUNDS by one exactly from its marker's increment until
\* the manager has counted the round: whatever the interleaving, the markers
\* of two workers never differ by more than one, modulo the counter's width.
MarkersFollowRounds ==
  \A w \in Worker :
    marker[w] = IF pc[w] \in {"sync", "syncWait"} \/ pc[Manager] = "count"
                  THEN Inc(rounds)
                  ELSE rounds

\* With room for a whole round in the queue (8 slots, 3 items) the manager
\* never blocks in xQueueSend.
SendNeverBlocks ==
  ItemsPerRound <= QueueLength => pc[Manager] # "sendWait"

\* The demo implements RoundCount: every marker increment is a worker's one
\* completion of the round, and ROUNDS counts only rounds that all completed.
Promise == INSTANCE RoundCount
ImplementsRoundCount == Promise!Spec

\* What relates the manager's place to its loop counter.
SentMatchesPC ==
  /\ pc[Manager] \in {"send", "sendWait"} => sent < ItemsPerRound
  /\ pc[Manager] \in {"sync", "syncWait"} => sent = ItemsPerRound

\* The inductive invariant behind the theorems of RendezvousProofs.
IInv ==
  /\ TypeOK
  /\ SentMatchesPC
  /\ OneItemEach
  /\ BitsAreWaiters
  /\ MarkersFollowRounds

\* Each round comes to an end: the demo never gets stuck.
RoundsAdvance == \A r \in 0..(CounterMod - 1) : rounds = r ~> rounds # r

\* No worker starves: a worker that waits for an item gets to its delay.
NoWorkerStarves ==
  \A w \in Worker : pc[w] = "recvWait" ~> pc[w] = "delay"

=============================================================================
