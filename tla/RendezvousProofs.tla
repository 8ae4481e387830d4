-------------------------- MODULE RendezvousProofs --------------------------
(***************************************************************************)
(* Theorems about Rendezvous, for any number of workers, any queue length  *)
(* and any width of the markers.  IInv is inductive: OneItemEach shows     *)
(* that the task completing a rendezvous is the last of all, so that every *)
(* worker has worked once; BitsAreWaiters and SentMatchesPC are what that  *)
(* argument needs.                                                         *)
(*                                                                         *)
(* Then theorems about RendezvousTimed.  The first two hold whatever the   *)
(* time-outs are; the last says that with the demo's numbers none ever     *)
(* fires and the demo with time implements Rendezvous.                     *)
(***************************************************************************)
EXTENDS RendezvousTimed, FiniteSetTheorems, SequenceTheorems, Arithmetic

USE RendezvousAssumption

-----------------------------------------------------------------------------
(* The helpers                                                             *)

\* A marker's increment stays within its width.
LEMMA IncType == \A n \in 0..(CounterMod - 1) : Inc(n) \in 0..(CounterMod - 1)
  BY DEF Inc

\* A round has a natural, nonzero number of items.
LEMMA ItemsType == ItemsPerRound \in Nat /\ ItemsPerRound > 0
  BY FS_CardinalityType, FS_EmptySet DEF ItemsPerRound

\* Any set of workers is finite and no larger than a round.
LEMMA WorkersFinite ==
  ASSUME NEW S \in SUBSET Worker
  PROVE  /\ IsFiniteSet(S)
         /\ Cardinality(S) \in Nat
         /\ Cardinality(S) <= ItemsPerRound
         /\ Cardinality(S) = ItemsPerRound => S = Worker
  BY FS_Subset, FS_CardinalityType DEF ItemsPerRound

-----------------------------------------------------------------------------
(* Initial states                                                          *)

\* The state main sets up satisfies the invariant.
LEMMA InitIInv == Init => IInv
  <1> SUFFICES ASSUME Init PROVE IInv
    OBVIOUS
  <1>1. TypeOK
    BY ItemsType DEF Init, TypeOK, Task, WorkerPC, ManagerPC
  <1>2. SentMatchesPC
    BY ItemsType DEF Init, SentMatchesPC, Task
  <1>3. OneItemEach
    <2>1. Served = {}
      BY DEF Init, Served, Task
    <2> QED
      BY <2>1, FS_EmptySet DEF Init, OneItemEach, SentThisRound, Task
  <1>4. BitsAreWaiters
    BY DEF Init, BitsAreWaiters, Task
  <1>5. MarkersFollowRounds
    BY DEF Init, MarkersFollowRounds, Task
  <1> QED
    BY <1>1, <1>2, <1>3, <1>4, <1>5 DEF IInv

-----------------------------------------------------------------------------
(* The rendezvous                                                          *)

\* The last task to arrive finds every other task waiting, the queue empty and
\* every worker served.
LEMMA LastToArrive ==
  ASSUME IInv, NEW t \in Task, pc[t] = "sync", bits \cup {t} = Task
  PROVE  /\ \A u \in Task : u # t => pc[u] = "syncWait"
         /\ Served = Worker
         /\ queue = << >>
         /\ \A w \in Worker : marker[w] = Inc(rounds)
  <1>1. \A u \in Task : u # t => pc[u] = "syncWait"
    BY DEF IInv, BitsAreWaiters
  <1>2. Served = Worker
    BY <1>1 DEF Served, Task
  <1>3. pc[Manager] \in {"sync", "syncWait"} /\ Manager \in Task
    BY <1>1 DEF Task
  <1>4. Len(queue) = 0
    <2>1. Len(queue) + Cardinality(Worker) = ItemsPerRound
      BY <1>2, <1>3 DEF IInv, OneItemEach, SentThisRound, SentMatchesPC
    <2> QED
      BY <2>1, ItemsType, LenProperties DEF IInv, TypeOK, ItemsPerRound
  <1>5. queue = << >>
    BY <1>4, EmptySeq DEF IInv, TypeOK
  <1>6. \A w \in Worker : marker[w] = Inc(rounds)
    BY <1>1 DEF IInv, MarkersFollowRounds, Task
  <1> QED
    BY <1>1, <1>2, <1>5, <1>6

\* xEventGroupSync preserves the invariant, whichever task calls it.
LEMMA SyncStep ==
  ASSUME IInv, NEW t \in Task, pc[t] = "sync", EventGroupSync(t),
         UNCHANGED <<sent, queue, marker, rounds>>
  PROVE  IInv'
  <1>0. pc \in [Task -> WorkerPC \cup ManagerPC] /\ Manager \in Task /\ Worker \subseteq Task
    BY DEF IInv, TypeOK, Task
  <1>1. CASE bits \cup {t} = Task
    <2>1. bits' = {} /\ \A u \in Task : pc'[u] = AfterSync(u)
      BY <1>1, LastToArrive DEF EventGroupSync, AllHere, Released
    <2>2. pc'[Manager] = "count" /\ \A w \in Worker : pc'[w] = "receive"
      BY <1>0, <2>1 DEF AfterSync
    <2>3. TypeOK'
      <3>1. pc' \in [Task -> WorkerPC \cup ManagerPC]
        BY <1>0, <1>1 DEF EventGroupSync, AllHere, Released, AfterSync, WorkerPC, ManagerPC
      <3> QED
        BY <2>1, <2>2, <3>1 DEF IInv, TypeOK, WorkerPC, ManagerPC
    <2>4. SentMatchesPC'
      BY <2>2 DEF SentMatchesPC
    <2>5. OneItemEach'
      <3>1. Served' = {}
        BY <2>2 DEF Served
      <3> QED
        BY <2>2, <3>1, <1>1, LastToArrive, FS_EmptySet
        DEF OneItemEach, SentThisRound
    <2>6. BitsAreWaiters'
      BY <2>1, <2>2 DEF BitsAreWaiters, AfterSync, Task
    <2>7. MarkersFollowRounds'
      BY <2>2, <1>1, LastToArrive DEF MarkersFollowRounds, Inc
    <2> QED
      BY <2>3, <2>4, <2>5, <2>6, <2>7 DEF IInv
  <1>2. CASE bits \cup {t} # Task
    <2>1. bits' = bits \cup {t} /\ pc' = [pc EXCEPT ![t] = "syncWait"]
      BY <1>2 DEF EventGroupSync, AllHere, Released
    <2>2. TypeOK'
      BY <1>0, <2>1 DEF IInv, TypeOK, WorkerPC, ManagerPC
    <2>3. SentMatchesPC'
      BY <1>0, <2>1 DEF IInv, SentMatchesPC, ItemsPerRound
    <2>4. OneItemEach'
      <3>1. Served' = Served
        BY <1>0, <2>1 DEF Served
      <3> QED
        BY <1>0, <2>1, <3>1 DEF IInv, OneItemEach, SentThisRound
    <2>5. BitsAreWaiters'
      BY <1>0, <2>1 DEF IInv, BitsAreWaiters
    <2>6. MarkersFollowRounds'
      BY <1>0, <2>1 DEF IInv, MarkersFollowRounds, Inc
    <2> QED
      BY <2>2, <2>3, <2>4, <2>5, <2>6 DEF IInv
  <1> QED
    BY <1>1, <1>2

-----------------------------------------------------------------------------
(* The steps of a worker                                                   *)

\* A worker that takes an item moves it from the queue into its hands.
LEMMA ReceiveStep ==
  ASSUME IInv, NEW w \in Worker, Receive(w)
  PROVE  IInv'
  <1>0. /\ pc \in [Task -> WorkerPC \cup ManagerPC]
        /\ Manager \in Task /\ Worker \subseteq Task /\ w # Manager
    BY DEF IInv, TypeOK, Task
  <1>1. /\ pc[w] = "receive"
        /\ pc' = [pc EXCEPT ![w] = "delay",
                            ![Manager] = IF @ = "sendWait" THEN "send" ELSE @]
    BY DEF Receive, QueueReceive
  <1>2. /\ pc'[w] = "delay"
        /\ pc'[Manager] = IF pc[Manager] = "sendWait" THEN "send" ELSE pc[Manager]
        /\ \A u \in Worker : u # w => pc'[u] = pc[u]
    BY <1>0, <1>1
  <1>3. queue' \in Seq(WorkItem) /\ Len(queue') = Len(queue) - 1
    BY HeadTailProperties DEF Receive, QueueReceive, IInv, TypeOK
  <1>4. TypeOK'
    <2>1. pc' \in [Task -> WorkerPC \cup ManagerPC]
      BY <1>0, <1>1 DEF WorkerPC, ManagerPC
    <2>2. Len(queue') <= QueueLength
      BY <1>3, LenProperties DEF IInv, TypeOK
    <2> QED
      BY <1>2, <1>3, <2>1, <2>2 DEF Receive, IInv, TypeOK, WorkerPC, ManagerPC
  <1>5. SentMatchesPC'
    BY <1>2 DEF Receive, IInv, SentMatchesPC, ItemsPerRound
  <1>6. OneItemEach'
    <2>1. Served' = Served \cup {w} /\ w \notin Served
      BY <1>1, <1>2 DEF Served
    <2>2. Cardinality(Served') = Cardinality(Served) + 1
      BY <2>1, WorkersFinite, FS_AddElement DEF Served
    <2>3. SentThisRound' = SentThisRound
      BY <1>2 DEF SentThisRound, Receive
    <2>4. Cardinality(Served) \in Nat /\ Len(queue) \in Nat
      BY WorkersFinite, LenProperties DEF Served, IInv, TypeOK
    <2> QED
      BY <1>3, <2>2, <2>3, <2>4 DEF IInv, OneItemEach
  <1>7. BitsAreWaiters'
    BY <1>0, <1>1, <1>2 DEF Receive, IInv, BitsAreWaiters, Task
  <1>8. MarkersFollowRounds'
    <2>1. pc'[Manager] = "count" <=> pc[Manager] = "count"
      BY <1>2
    <2>2. \A u \in Worker :
            pc'[u] \in {"sync", "syncWait"} <=> pc[u] \in {"sync", "syncWait"}
      BY <1>1, <1>2
    <2> QED
      BY <2>1, <2>2 DEF Receive, IInv, MarkersFollowRounds, Inc
  <1> QED
    BY <1>4, <1>5, <1>6, <1>7, <1>8 DEF IInv

\* Steps that move workers between two labels with the same meaning for the
\* round: they leave Served, the waiting tasks and the markers' due alone.
LEMMA MoveStep ==
  ASSUME IInv, pc' \in [Task -> WorkerPC \cup ManagerPC],
         pc'[Manager] \in ManagerPC,
         \A w \in Worker : /\ pc'[w] \in WorkerPC
                           /\ w \in Served <=> w \in Served'
                           /\ pc[w] \in {"sync", "syncWait"} <=> pc'[w] \in {"sync", "syncWait"},
         \A t \in Task : pc[t] = "syncWait" <=> pc'[t] = "syncWait",
         pc[Manager] \in {"send", "sendWait"} <=> pc'[Manager] \in {"send", "sendWait"},
         pc[Manager] \in {"sync", "syncWait"} <=> pc'[Manager] \in {"sync", "syncWait"},
         pc[Manager] = "count" <=> pc'[Manager] = "count",
         UNCHANGED <<sent, queue, bits, marker, rounds>>
  PROVE  IInv'
  <1>1. TypeOK'
    BY DEF IInv, TypeOK
  <1>2. SentMatchesPC'
    BY DEF IInv, SentMatchesPC, ItemsPerRound
  <1>3. OneItemEach'
    <2>1. Served' = Served
      BY DEF Served
    <2> QED
      BY <2>1 DEF IInv, OneItemEach, SentThisRound
  <1>4. BitsAreWaiters'
    BY DEF IInv, BitsAreWaiters
  <1>5. MarkersFollowRounds'
    BY DEF IInv, MarkersFollowRounds, Inc
  <1> QED
    BY <1>1, <1>2, <1>3, <1>4, <1>5 DEF IInv

\* A worker that blocks on the empty queue changes nothing the invariant counts.
LEMMA ReceiveBlocksStep ==
  ASSUME IInv, NEW w \in Worker, ReceiveBlocks(w)
  PROVE  IInv'
  <1>1. \A u \in Task : pc'[u] = IF u = w THEN "recvWait" ELSE pc[u]
    BY DEF ReceiveBlocks, IInv, TypeOK
  <1>2. Served' = Served
    BY <1>1 DEF ReceiveBlocks, Served, Task
  <1> QED
    BY <1>1, <1>2, MoveStep
    DEF ReceiveBlocks, IInv, TypeOK, Task, WorkerPC, ManagerPC

\* The end of a delay leaves the item with its worker.
LEMMA DelayElapsedStep ==
  ASSUME IInv, NEW S \in SUBSET Worker, DelayElapsed(S)
  PROVE  IInv'
  <1>1. \A u \in Task : pc'[u] = IF u \in S THEN "work" ELSE pc[u]
    BY DEF DelayElapsed
  <1>2. Served' = Served
    BY <1>1 DEF DelayElapsed, Served, Task
  <1>3. pc' \in [Task -> WorkerPC \cup ManagerPC]
    BY DEF DelayElapsed, IInv, TypeOK, WorkerPC, ManagerPC
  <1> QED
    BY <1>1, <1>2, <1>3, MoveStep
    DEF DelayElapsed, IInv, TypeOK, Task, WorkerPC, ManagerPC

\* A worker's marker runs ahead of ROUNDS by one as it goes to the rendezvous.
LEMMA RecordCompletionStep ==
  ASSUME IInv, NEW w \in Worker, RecordCompletion(w)
  PROVE  IInv' /\ marker[w] = rounds
  <1>0. /\ pc \in [Task -> WorkerPC \cup ManagerPC]
        /\ Manager \in Task /\ Worker \subseteq Task /\ w # Manager
    BY DEF IInv, TypeOK, Task
  <1>1. \A u \in Task : pc'[u] = IF u = w THEN "sync" ELSE pc[u]
    BY <1>0 DEF RecordCompletion
  <1>2. pc[Manager] # "count"
    <2>1. w \in Served /\ Served \in SUBSET Worker
      BY DEF RecordCompletion, Served
    <2>2. Cardinality(Served) > 0
      BY <2>1, WorkersFinite, FS_EmptySet
    <2> QED
      BY <2>2, WorkersFinite, LenProperties, <2>1
      DEF IInv, TypeOK, OneItemEach, SentThisRound
  <1>3. marker[w] = rounds
    BY <1>2 DEF IInv, MarkersFollowRounds, RecordCompletion
  <1>4. TypeOK'
    <2>1. marker' \in [Worker -> 0..(CounterMod - 1)]
      BY IncType DEF RecordCompletion, IInv, TypeOK
    <2> QED
      BY <1>0, <1>1, <2>1 DEF RecordCompletion, IInv, TypeOK, WorkerPC, ManagerPC
  <1>5. SentMatchesPC'
    BY <1>0, <1>1 DEF RecordCompletion, IInv, SentMatchesPC, ItemsPerRound
  <1>6. OneItemEach'
    <2>1. Served' = Served
      BY <1>0, <1>1 DEF RecordCompletion, Served
    <2> QED
      BY <1>0, <1>1, <2>1 DEF RecordCompletion, IInv, OneItemEach, SentThisRound
  <1>7. BitsAreWaiters'
    BY <1>0, <1>1 DEF RecordCompletion, IInv, BitsAreWaiters
  <1>8. MarkersFollowRounds'
    BY <1>0, <1>1, <1>2, <1>3
    DEF RecordCompletion, IInv, TypeOK, MarkersFollowRounds, Inc
  <1> QED
    BY <1>3, <1>4, <1>5, <1>6, <1>7, <1>8 DEF IInv

-----------------------------------------------------------------------------
(* The steps of the manager                                                *)

\* A send adds one item to the queue and to the count of the round.
LEMMA SendStep ==
  ASSUME IInv, Send
  PROVE  IInv'
  <1>0. /\ pc \in [Task -> WorkerPC \cup ManagerPC]
        /\ Manager \in Task /\ Worker \subseteq Task
        /\ sent \in Nat /\ sent < ItemsPerRound /\ pc[Manager] = "send"
    BY ItemsType DEF Send, IInv, TypeOK, SentMatchesPC, Task
  <1> DEFINE next == IF sent + 1 < ItemsPerRound THEN "send" ELSE "sync"
  <1>1. PICK item \in WorkItem : QueueSend(item, next)
    BY DEF Send
  <1> HIDE DEF next
  <1>2. /\ pc' \in [Task -> WorkerPC \cup ManagerPC]
        /\ pc'[Manager] = next
        /\ \A w \in Worker : \/ pc'[w] = pc[w]
                             \/ pc[w] = "recvWait" /\ pc'[w] = "receive"
    <2>1. next \in ManagerPC
      BY DEF next, ManagerPC
    <2> QED
      BY <1>0, <1>1, <2>1 DEF QueueSend, Receivers, WorkerPC, ManagerPC
  <1>3. queue' \in Seq(WorkItem) /\ Len(queue') = Len(queue) + 1
    BY <1>1, AppendProperties DEF QueueSend, IInv, TypeOK
  <1>4. TypeOK'
    <2>1. Len(queue') <= QueueLength
      BY <1>1, <1>3, LenProperties DEF QueueSend, IInv, TypeOK
    <2>2. sent' \in 0..ItemsPerRound
      BY <1>0, ItemsType DEF Send
    <2>3. pc'[Manager] \in ManagerPC /\ \A w \in Worker : pc'[w] \in WorkerPC
      BY <1>2 DEF next, IInv, TypeOK, WorkerPC, ManagerPC
    <2> QED
      BY <1>2, <1>3, <2>1, <2>2, <2>3 DEF Send, IInv, TypeOK
  <1>5. SentMatchesPC'
    BY <1>0, <1>2, ItemsType DEF Send, SentMatchesPC, next, ItemsPerRound
  <1>6. OneItemEach'
    <2>1. Served' = Served
      BY <1>2 DEF Served
    <2>2. Cardinality(Served) \in Nat /\ Len(queue) \in Nat
      BY WorkersFinite, LenProperties DEF Served, IInv, TypeOK
    <2>3. SentThisRound' = SentThisRound + 1
      BY <1>0, <1>2 DEF SentThisRound, Send, next
    <2>4. Len(queue) + Cardinality(Served) = SentThisRound
      BY DEF IInv, OneItemEach
    <2> QED
      BY <1>3, <2>1, <2>2, <2>3, <2>4 DEF OneItemEach
  <1>7. BitsAreWaiters'
    BY <1>0, <1>2 DEF Send, IInv, BitsAreWaiters, Task, next
  <1>8. MarkersFollowRounds'
    <2>1. pc[Manager] # "count" /\ pc'[Manager] # "count"
      BY <1>0, <1>2 DEF next
    <2>2. \A u \in Worker :
            pc'[u] \in {"sync", "syncWait"} <=> pc[u] \in {"sync", "syncWait"}
      BY <1>2
    <2> QED
      BY <2>1, <2>2 DEF Send, IInv, MarkersFollowRounds, Inc
  <1> QED
    BY <1>4, <1>5, <1>6, <1>7, <1>8 DEF IInv

\* The manager blocks only when the queue is shorter than a round.
LEMMA SendBlocksStep ==
  ASSUME IInv, SendBlocks
  PROVE  IInv' /\ QueueLength < ItemsPerRound
  <1>1. \A u \in Task : pc'[u] = IF u = Manager THEN "sendWait" ELSE pc[u]
    BY DEF SendBlocks, IInv, TypeOK
  <1>2. Served' = Served
    BY <1>1 DEF Served, Task
  <1>3. IInv'
    BY <1>1, <1>2, MoveStep DEF SendBlocks, IInv, TypeOK, Task, WorkerPC, ManagerPC
  <1>4. QueueLength < ItemsPerRound
    <2>1. Cardinality(Served) \in Nat
      BY WorkersFinite DEF Served
    <2> QED
      BY <2>1, ItemsType, LenProperties
      DEF SendBlocks, IInv, TypeOK, OneItemEach, SentThisRound, SentMatchesPC
  <1> QED
    BY <1>3, <1>4

\* Counting the round brings ROUNDS level with every marker.
LEMMA CountRoundStep ==
  ASSUME IInv, CountRound
  PROVE  IInv' /\ \A w \in Worker : marker[w] = Inc(rounds)
  <1>0. /\ pc \in [Task -> WorkerPC \cup ManagerPC]
        /\ Manager \in Task /\ Worker \subseteq Task
    BY DEF IInv, TypeOK, Task
  <1>1. \A u \in Task : pc'[u] = IF u = Manager THEN "send" ELSE pc[u]
    BY <1>0 DEF CountRound
  <1>2. /\ Cardinality(Served) \in Nat /\ Len(queue) \in Nat
        /\ Len(queue) + Cardinality(Served) = 0
    BY WorkersFinite, LenProperties
    DEF CountRound, IInv, TypeOK, OneItemEach, SentThisRound, Served
  <1>3. Served = {} /\ Served' = {}
    <2>1. Served = {}
      BY <1>2, WorkersFinite, FS_EmptySet DEF Served
    <2> QED
      BY <2>1, <1>1, <1>0 DEF Served
  <1>4. \A w \in Worker : marker[w] = Inc(rounds)
    BY DEF CountRound, IInv, MarkersFollowRounds
  <1>5. TypeOK'
    BY <1>0, <1>1, IncType, ItemsType, SMTT(30)
    DEF CountRound, IInv, TypeOK, WorkerPC, ManagerPC
  <1>6. SentMatchesPC'
    BY <1>0, <1>1, ItemsType DEF CountRound, SentMatchesPC, ItemsPerRound
  <1>7. OneItemEach'
    BY <1>0, <1>1, <1>2, <1>3, FS_EmptySet
    DEF CountRound, OneItemEach, SentThisRound
  <1>8. BitsAreWaiters'
    BY <1>0, <1>1 DEF CountRound, IInv, BitsAreWaiters, Task
  <1>9. MarkersFollowRounds'
    <2>1. \A w \in Worker : pc'[w] \notin {"sync", "syncWait"}
      BY <1>0, <1>1, <1>3 DEF Served
    <2> QED
      BY <1>0, <1>1, <1>4, <2>1 DEF CountRound, MarkersFollowRounds
  <1> QED
    BY <1>4, <1>5, <1>6, <1>7, <1>8, <1>9 DEF IInv

-----------------------------------------------------------------------------
(* The theorems                                                            *)

\* IInv is inductive.
LEMMA NextIInv == IInv /\ [Next]_vars => IInv'
  <1> SUFFICES ASSUME IInv, [Next]_vars PROVE IInv'
    OBVIOUS
  <1>1. ASSUME NEW w \in Worker, WorkerStep(w) PROVE IInv'
    <2>1. CASE Receive(w)
      BY <2>1, ReceiveStep
    <2>2. CASE ReceiveBlocks(w)
      BY <2>2, ReceiveBlocksStep
    <2>3. CASE RecordCompletion(w)
      BY <2>3, RecordCompletionStep
    <2>4. CASE WorkerSync(w)
      BY <2>4, SyncStep DEF WorkerSync, Task
    <2> QED
      BY <1>1, <2>1, <2>2, <2>3, <2>4 DEF WorkerStep
  <1>2. ASSUME NEW S \in SUBSET Worker, DelayElapsed(S) PROVE IInv'
    BY <1>2, DelayElapsedStep
  <1>3. CASE ManagerStep
    <2>1. CASE Send
      BY <2>1, SendStep
    <2>2. CASE SendBlocks
      BY <2>2, SendBlocksStep
    <2>3. CASE ManagerSync
      BY <2>3, SyncStep DEF ManagerSync, Task
    <2>4. CASE CountRound
      BY <2>4, CountRoundStep
    <2> QED
      BY <1>3, <2>1, <2>2, <2>3, <2>4 DEF ManagerStep
  <1>4. CASE UNCHANGED vars
    BY <1>4 DEF vars, IInv, TypeOK, SentMatchesPC, OneItemEach, Served,
                SentThisRound, BitsAreWaiters, MarkersFollowRounds, ItemsPerRound, Inc
  <1> QED
    BY <1>1, <1>2, <1>3, <1>4 DEF Next

\* IInv holds of every reachable state of the demo.
THEOREM Invariance == Spec => []IInv
  BY InitIInv, NextIInv, PTL DEF Spec

\* Type correctness of the demo's state.
THEOREM TypeCorrect == Spec => []TypeOK
  <1>1. IInv => TypeOK
    BY DEF IInv
  <1> QED
    BY <1>1, Invariance, PTL

\* However the tasks of main_queue.c interleave, each worker gets exactly one
\* item of every round.
THEOREM OneItemEachHolds == Spec => []OneItemEach
  <1>1. IInv => OneItemEach
    BY DEF IInv
  <1> QED
    BY <1>1, Invariance, PTL

\* A bit of the event group is set exactly while its task waits in
\* xEventGroupSync: no round begins with a bit left over from the one before.
THEOREM BitsAreWaitersHolds == Spec => []BitsAreWaiters
  <1>1. IInv => BitsAreWaiters
    BY DEF IInv
  <1> QED
    BY <1>1, Invariance, PTL

\* The markers are always within one of ROUNDS, and which of the two is known
\* from where the tasks are.
THEOREM MarkersFollow == Spec => []MarkersFollowRounds
  <1>1. IInv => MarkersFollowRounds
    BY DEF IInv
  <1> QED
    BY <1>1, Invariance, PTL

\* A queue with room for a round never blocks the manager.
THEOREM SendNeverBlocksHolds == Spec => []SendNeverBlocks
  <1>1. Init => SendNeverBlocks
    BY DEF Init, SendNeverBlocks, Task
  <1>2. IInv /\ SendNeverBlocks /\ [Next]_vars => SendNeverBlocks'
    <2> SUFFICES ASSUME IInv, SendNeverBlocks, [Next]_vars,
                        ItemsPerRound <= QueueLength
                 PROVE  pc'[Manager] # "sendWait"
      BY DEF SendNeverBlocks, ItemsPerRound
    <2>0. /\ pc \in [Task -> WorkerPC \cup ManagerPC]
          /\ Manager \in Task /\ Worker \subseteq Task
          /\ pc[Manager] # "sendWait"
      BY DEF IInv, TypeOK, Task, SendNeverBlocks
    <2>1. ASSUME NEW w \in Worker, WorkerStep(w) PROVE pc'[Manager] # "sendWait"
      BY <2>0, <2>1 DEF WorkerStep, Receive, QueueReceive, ReceiveBlocks,
           RecordCompletion, WorkerSync, EventGroupSync, AllHere, Released, AfterSync
    <2>2. ASSUME NEW S \in SUBSET Worker, DelayElapsed(S)
          PROVE  pc'[Manager] # "sendWait"
      BY <2>0, <2>2 DEF DelayElapsed
    <2>3. CASE Send
      BY <2>0, <2>3 DEF Send, QueueSend, Receivers
    <2>4. CASE SendBlocks
      BY <2>4, SendBlocksStep, ItemsType
    <2>5. CASE ManagerSync \/ CountRound
      BY <2>0, <2>5 DEF ManagerSync, CountRound, EventGroupSync, AllHere, Released, AfterSync
    <2>6. CASE UNCHANGED vars
      BY <2>0, <2>6 DEF vars
    <2> QED
      BY <2>1, <2>2, <2>3, <2>4, <2>5, <2>6 DEF Next, ManagerStep
  <1> QED
    BY <1>1, <1>2, Invariance, PTL DEF Spec

\* The demo implements RoundCount: a marker is only incremented by a worker that
\* has not yet worked in the round, and ROUNDS only after all of them have.
THEOREM Refinement == Spec => ImplementsRoundCount
  <1>1. Init => Promise!Init
    BY DEF Init, Promise!Init
  <1>2. IInv /\ [Next]_vars => [Promise!Next]_(Promise!vars)
    <2> SUFFICES ASSUME IInv, [Next]_vars
                 PROVE  [Promise!Next]_(Promise!vars)
      OBVIOUS
    <2>1. ASSUME NEW w \in Worker, WorkerStep(w)
          PROVE  Promise!Complete(w) \/ UNCHANGED Promise!vars
      <3>1. CASE RecordCompletion(w)
        BY <3>1, RecordCompletionStep
        DEF RecordCompletion, Promise!Complete, Promise!Inc, Inc
      <3>2. CASE Receive(w) \/ ReceiveBlocks(w) \/ WorkerSync(w)
        BY <3>2 DEF Receive, ReceiveBlocks, WorkerSync, Promise!vars
      <3> QED
        BY <2>1, <3>1, <3>2 DEF WorkerStep
    <2>2. ASSUME NEW S \in SUBSET Worker, DelayElapsed(S)
          PROVE  UNCHANGED Promise!vars
      BY <2>2 DEF DelayElapsed, Promise!vars
    <2>3. CASE CountRound
      BY <2>3, CountRoundStep
      DEF CountRound, Promise!EndRound, Promise!Inc, Inc, Promise!Next
    <2>4. CASE Send \/ SendBlocks \/ ManagerSync
      BY <2>4 DEF Send, SendBlocks, ManagerSync, Promise!vars
    <2>5. CASE UNCHANGED vars
      BY <2>5 DEF vars, Promise!vars
    <2> QED
      BY <2>1, <2>2, <2>3, <2>4, <2>5 DEF Next, ManagerStep, Promise!Next
  <1> QED
    BY <1>1, <1>2, Invariance, PTL DEF Spec, ImplementsRoundCount, Promise!Spec

-----------------------------------------------------------------------------
(* No wake-up is lost                                                      *)

\* The workers ready to take an item.
Ready == {w \in Worker : pc[w] = "receive"}

\* No worker sleeps in xQueueReceive beside an item that nobody else is ready
\* to take.
THEOREM NoLostWakeupHolds == Spec => []NoLostWakeup
  <1>1. Init => NoLostWakeup
    <2> SUFFICES ASSUME Init PROVE Receivers = {}
      BY DEF NoLostWakeup
    <2> QED
      BY DEF Init, Receivers, Task
  <1>2. IInv /\ NoLostWakeup /\ [Next]_vars => NoLostWakeup'
    <2> SUFFICES ASSUME IInv, NoLostWakeup, [Next]_vars, Receivers' # {}
                 PROVE  Len(queue') <= Cardinality(Ready')
      BY DEF NoLostWakeup, Ready
    <2>0. /\ pc \in [Task -> WorkerPC \cup ManagerPC]
          /\ Manager \in Task /\ Worker \subseteq Task /\ Manager \notin Worker
          /\ Receivers # {} => Len(queue) <= Cardinality(Ready)
          /\ Len(queue) \in Nat
          /\ IsFiniteSet(Ready) /\ Cardinality(Ready) \in Nat
          /\ IsFiniteSet(Ready') /\ Cardinality(Ready') \in Nat
      BY WorkersFinite, LenProperties
      DEF IInv, TypeOK, Task, NoLostWakeup, Ready
    <2>1. ASSUME NEW w \in Worker, Receive(w)
          PROVE  Len(queue') <= Cardinality(Ready')
      <3>1. /\ \A u \in Worker : pc'[u] = IF u = w THEN "delay" ELSE pc[u]
            /\ pc[w] = "receive"
        BY <2>0, <2>1 DEF Receive, QueueReceive
      <3>2. Ready' = Ready \ {w} /\ w \in Ready /\ Receivers' = Receivers
        BY <3>1 DEF Ready, Receivers
      <3>3. Len(queue') = Len(queue) - 1
        BY <2>1, HeadTailProperties DEF Receive, QueueReceive, IInv, TypeOK
      <3>4. Cardinality(Ready') = Cardinality(Ready) - 1
        BY <3>2, <2>0, FS_RemoveElement
      <3> QED
        BY <2>0, <3>2, <3>3, <3>4
    <2>2. ASSUME NEW w \in Worker, ReceiveBlocks(w)
          PROVE  Len(queue') <= Cardinality(Ready')
      <3>1. Len(queue') = 0
        BY <2>2, EmptySeq DEF ReceiveBlocks
      <3> QED
        BY <2>0, <3>1
    <2>3. ASSUME NEW t \in Task, pc[t] = "sync", EventGroupSync(t), queue' = queue
          PROVE  Len(queue') <= Cardinality(Ready')
      <3>1. CASE bits \cup {t} = Task
        BY <2>0, <2>3, <3>1, LastToArrive, EmptySeq
      <3>2. CASE bits \cup {t} # Task
        <4>1. Ready' = Ready /\ Receivers' = Receivers
          BY <2>0, <2>3, <3>2 DEF EventGroupSync, AllHere, Released, Ready, Receivers
        <4> QED
          BY <2>0, <2>3, <4>1
      <3> QED
        BY <3>1, <3>2
    <2>4. CASE Send
      <3>1. PICK item \in WorkItem, next \in ManagerPC : QueueSend(item, next)
        BY <2>4 DEF Send, ManagerPC
      <3>2. Len(queue') = Len(queue) + 1
        BY <3>1, AppendProperties DEF QueueSend, IInv, TypeOK
      <3>3. Receivers # {}
        BY <2>0, <3>1 DEF QueueSend, Receivers
      <3>4. PICK w \in Receivers :
              pc' = [pc EXCEPT ![Manager] = next, ![w] = "receive"]
        BY <3>1, <3>3 DEF QueueSend
      <3>5. Ready' = Ready \cup {w} /\ w \notin Ready
        BY <2>0, <3>4 DEF Ready, Receivers
      <3>6. Cardinality(Ready') = Cardinality(Ready) + 1
        BY <2>0, <3>5, FS_AddElement
      <3> QED
        BY <2>0, <3>2, <3>3, <3>6
    <2>5. ASSUME \A u \in Worker : /\ pc'[u] = "receive" <=> pc[u] = "receive"
                                   /\ pc'[u] = "recvWait" <=> pc[u] = "recvWait",
                 queue' = queue
          PROVE  Len(queue') <= Cardinality(Ready')
      <3>1. Ready' = Ready /\ Receivers' = Receivers
        BY <2>5 DEF Ready, Receivers
      <3> QED
        BY <2>0, <2>5, <3>1
    <2>6. ASSUME NEW w \in Worker, RecordCompletion(w)
          PROVE  Len(queue') <= Cardinality(Ready')
      BY <2>0, <2>5, <2>6 DEF RecordCompletion
    <2>7. ASSUME NEW S \in SUBSET Worker, DelayElapsed(S)
          PROVE  Len(queue') <= Cardinality(Ready')
      BY <2>0, <2>5, <2>7 DEF DelayElapsed
    <2>8. CASE SendBlocks \/ CountRound
      BY <2>0, <2>5, <2>8 DEF SendBlocks, CountRound
    <2>9. CASE UNCHANGED vars
      BY <2>5, <2>9 DEF vars
    <2> QED
      BY <2>0, <2>1, <2>2, <2>3, <2>4, <2>6, <2>7, <2>8, <2>9
      DEF Next, WorkerStep, ManagerStep, WorkerSync, ManagerSync
  <1> QED
    BY <1>1, <1>2, Invariance, PTL DEF Spec

\* The timed part cites it where it needs it.
HIDE RendezvousAssumption

-----------------------------------------------------------------------------
(* Lists without repetition                                                *)

\* The list has the members of S, each once.
ListOf(list, S) ==
  /\ list \in Seq(Worker)
  /\ \A w \in Worker : w \in S <=> \E i \in 1..Len(list) : list[i] = w
  /\ \A i, j \in 1..Len(list) : list[i] = list[j] => i = j

\* The empty list.
LEMMA ListEmpty == ListOf(<< >>, {})
  BY DEF ListOf

\* A newcomer goes to the end.
LEMMA ListAppend ==
  ASSUME NEW list, NEW S, ListOf(list, S), NEW w \in Worker, w \notin S
  PROVE  ListOf(Append(list, w), S \cup {w})
  <1> DEFINE longer == Append(list, w)
  <1>1. list \in Seq(Worker) /\ Len(list) \in Nat
    BY DEF ListOf
  <1>2. /\ longer \in Seq(Worker) /\ Len(longer) = Len(list) + 1
        /\ \A i \in 1..Len(list) : longer[i] = list[i]
        /\ longer[Len(list) + 1] = w
    BY <1>1, AppendProperties
  <1> HIDE DEF longer
  <1>3. \A i \in 1..Len(list) : list[i] \in S
    BY <1>1, ElementOfSeq DEF ListOf
  <1>4. ASSUME NEW v \in Worker
        PROVE  v \in S \cup {w} <=> \E i \in 1..Len(longer) : longer[i] = v
    BY <1>1, <1>2 DEF ListOf
  <1>5. ASSUME NEW i \in 1..Len(longer), NEW j \in 1..Len(longer), longer[i] = longer[j]
        PROVE  i = j
    BY <1>1, <1>2, <1>3, <1>5 DEF ListOf
  <1>6. ListOf(longer, S \cup {w})
    BY <1>2, <1>4, <1>5 DEF ListOf
  <1> QED
    BY <1>6 DEF longer

\* The first leaves.
LEMMA ListTail ==
  ASSUME NEW list, NEW S, ListOf(list, S), list # << >>
  PROVE  Head(list) \in S /\ ListOf(Tail(list), S \ {Head(list)})
  <1> DEFINE first == Head(list)
             rest == Tail(list)
  <1>1. list \in Seq(Worker) /\ Len(list) \in Nat \ {0} /\ first = list[1]
    BY EmptySeq DEF ListOf
  <1>2. /\ rest \in Seq(Worker) /\ Len(rest) = Len(list) - 1 /\ first \in Worker
        /\ \A i \in 1..Len(rest) : rest[i] = list[i + 1]
    BY <1>1, HeadTailProperties
  <1> HIDE DEF first, rest
  <1>3. first \in S
    BY <1>1, <1>2 DEF ListOf
  <1>4. ASSUME NEW v \in Worker
        PROVE  v \in S \ {first} <=> \E i \in 1..Len(rest) : rest[i] = v
    <2>1. ASSUME v \in S \ {first} PROVE \E i \in 1..Len(rest) : rest[i] = v
      <3>1. PICK j \in 1..Len(list) : list[j] = v
        BY <2>1 DEF ListOf
      <3>2. j # 1
        BY <1>1, <2>1, <3>1
      <3>3. j - 1 \in 1..Len(rest) /\ rest[j - 1] = v
        BY <1>1, <1>2, <3>1, <3>2
      <3> QED
        BY <3>3
    <2>2. ASSUME NEW i \in 1..Len(rest), rest[i] = v PROVE v \in S \ {first}
      <3>1. i + 1 \in 1..Len(list) /\ 1 \in 1..Len(list) /\ list[i + 1] = v /\ i + 1 # 1
        BY <1>1, <1>2, <2>2
      <3>2. v # list[1]
        BY <3>1 DEF ListOf
      <3> QED
        BY <1>1, <3>1, <3>2 DEF ListOf
    <2> QED
      BY <2>1, <2>2
  <1>5. ASSUME NEW i \in 1..Len(rest), NEW j \in 1..Len(rest), rest[i] = rest[j]
        PROVE  i = j
    <2>1. i + 1 \in 1..Len(list) /\ j + 1 \in 1..Len(list) /\ list[i + 1] = list[j + 1]
      BY <1>1, <1>2, <1>5
    <2>2. i + 1 = j + 1
      BY <2>1 DEF ListOf
    <2> QED
      BY <2>2
  <1>6. ListOf(rest, S \ {first})
    BY <1>2, <1>4, <1>5 DEF ListOf
  <1> QED
    BY <1>3, <1>6 DEF first, rest

\* The lengths agree with the sets.
LEMMA ListCount ==
  ASSUME NEW list, NEW S \in SUBSET Worker, ListOf(list, S)
  PROVE  ToSet(list) = S /\ Len(list) = Cardinality(S)
  <1>1. list \in Seq(Worker) /\ Len(list) \in Nat /\ DOMAIN list = 1..Len(list)
    BY LenProperties DEF ListOf
  <1>2. ToSet(list) = S
    BY <1>1, ElementOfSeq DEF ToSet, ListOf
  <1>3. list \in Bijection(1..Len(list), S)
    <2>1. list \in [1..Len(list) -> S]
      BY <1>1, ElementOfSeq DEF ListOf
    <2>2. \A t \in S : \E i \in 1..Len(list) : list[i] = t
      BY DEF ListOf
    <2>3. \A i, j \in 1..Len(list) : list[i] = list[j] => i = j
      BY DEF ListOf
    <2>4. list \in Injection(1..Len(list), S)
      BY <2>1, <2>3 DEF Injection, IsInjective
    <2>5. list \in Surjection(1..Len(list), S)
      BY <2>1, <2>2 DEF Surjection
    <2> QED
      BY <2>4, <2>5 DEF Bijection
  <1> QED
    BY <1>1, <1>2, <1>3, FS_CountingElements DEF ExistsBijection

-----------------------------------------------------------------------------
(* Removal from a list                                                     *)

\* The recursive function by which Without is defined exists: it takes over the
\* members of the list that stay, one after the other.
LEMMA WithoutSteps ==
  ASSUME NEW list \in Seq(Worker), NEW E
  PROVE  \E kept \in [0..Len(list) -> Seq(Worker)] :
           /\ kept[0] = << >>
           /\ \A i \in 1..Len(list) :
                kept[i] = IF list[i] \in E THEN kept[i - 1] ELSE Append(kept[i - 1], list[i])
           /\ Without(list, E) = kept[Len(list)]
  <1> DEFINE n == Len(list)
             T == Seq(Worker)
             base == << >>
             Put(i, s) == IF list[i] \in E THEN s ELSE Append(s, list[i])
             Rec(k) == [i \in 0..n |-> IF i = 0 THEN base ELSE Put(i, k[i - 1])]
             kept == CHOOSE k : k = Rec(k)
  <1>1. n \in Nat /\ base \in T
    OBVIOUS
  <1>2. \A i \in 1..n, s \in T : Put(i, s) \in T
    BY <1>1, ElementOfSeq, AppendProperties
  <1>3. Without(list, E) = kept[n]
    BY DEF Without
  <1> HIDE DEF n, T, base, Put
  <1>4. \E k : k = Rec(k)
    <2> DEFINE F == [i \in 1..n |-> [s \in T |-> Put(i, s)]]
    <2>1. F \in [1..n -> [T -> T]]
      BY <1>2
    <2>2. \A i \in 1..n, s \in T : F[i][s] = Put(i, s)
      OBVIOUS
    <2> HIDE DEF F
    <2>3. PICK g \in [0..n -> T] : g[0] = base /\ \A i \in 1..n : g[i] = F[i][g[i - 1]]
      BY <1>1, <2>1, Iteration
    <2>4. ASSUME NEW i \in 1..n PROVE g[i] = Put(i, g[i - 1])
      <3>1. g[i - 1] \in T
        BY <1>1
      <3> QED
        BY <2>2, <2>3, <3>1
    <2>5. g = Rec(g)
      BY <1>1, <2>3, <2>4
    <2> QED
      BY <2>5
  <1>5. kept = Rec(kept)
    <2> HIDE DEF Rec
    <2> QED
      BY <1>4
  <1> HIDE DEF kept
  <1>6. kept[0] = base /\ \A i \in 1..n : kept[i] = Put(i, kept[i - 1])
    <2>1. \A i \in 0..n : kept[i] = Rec(kept)[i]
      <3> HIDE DEF Rec
      <3> QED
        BY <1>5
    <2> QED
      BY <1>1, <2>1
  <1>7. kept \in [0..n -> T]
    <2> DEFINE X == {i \in 0..n : kept[i] \in T}
    <2>1. 0 \in X
      BY <1>1, <1>6
    <2>2. ASSUME NEW i \in 0..(n - 1), i \in X PROVE i + 1 \in X
      <3>1. kept[i + 1] = Put(i + 1, kept[i])
        BY <1>1, <1>6
      <3> QED
        BY <1>1, <1>2, <2>2, <3>1
    <2>3. ASSUME NEW m \in 0..n PROVE m \in X
      <3>1. m \in Nat /\ \A i \in 0..(m - 1) : i \in 0..(n - 1)
        BY <1>1
      <3> HIDE DEF X
      <3> QED
        BY <2>1, <2>2, <3>1, UpTo
    <2> QED
      BY <1>5, <2>3
  <1> QED
    BY <1>3, <1>6, <1>7 DEF n, T, base, Put

\* A list without the members of E lists the others.
LEMMA ListWithout ==
  ASSUME NEW list, NEW S, ListOf(list, S), NEW E
  PROVE  ListOf(Without(list, E), S \ E)
  <1>1. list \in Seq(Worker) /\ Len(list) \in Nat
    BY DEF ListOf
  <1>2. PICK kept \in [0..Len(list) -> Seq(Worker)] :
           /\ kept[0] = << >>
           /\ \A i \in 1..Len(list) :
                kept[i] = IF list[i] \in E THEN kept[i - 1] ELSE Append(kept[i - 1], list[i])
           /\ Without(list, E) = kept[Len(list)]
    BY <1>1, WithoutSteps
  <1> DEFINE Part(i) == {w \in Worker \ E : \E j \in 1..i : list[j] = w}
             X == {i \in 0..Len(list) : ListOf(kept[i], Part(i))}
  <1>3. 0 \in X
    <2>1. Part(0) = {}
      OBVIOUS
    <2> HIDE DEF Part
    <2>2. ListOf(kept[0], Part(0))
      BY <1>2, <2>1, ListEmpty
    <2> QED
      BY <1>1, <2>2
  <1>4. ASSUME NEW i \in 0..(Len(list) - 1), i \in X PROVE i + 1 \in X
    <2> DEFINE w == list[i + 1]
    <2>1. /\ i + 1 \in 1..Len(list) /\ i \in Nat /\ w \in Worker
          /\ kept[i + 1] = IF w \in E THEN kept[i] ELSE Append(kept[i], w)
      BY <1>1, <1>2, ElementOfSeq
    <2>2. Part(i + 1) = IF w \in E THEN Part(i) ELSE Part(i) \cup {w}
      <3>1. \A j \in 1..(i + 1) : j \in 1..i \/ j = i + 1
        BY <2>1
      <3>2. \A j \in 1..i : j \in 1..(i + 1)
        BY <2>1
      <3>3. i + 1 \in 1..(i + 1)
        BY <2>1
      <3> QED
        BY <2>1, <3>1, <3>2, <3>3
    <2>3. w \notin Part(i)
      <3>1. ASSUME NEW j \in 1..i, list[j] = w PROVE FALSE
        <4>1. j \in 1..Len(list) /\ j # i + 1
          BY <1>1, <2>1
        <4> QED
          BY <2>1, <3>1, <4>1 DEF ListOf
      <3> QED
        BY <3>1
    <2>4. ListOf(kept[i], Part(i))
      BY <1>4
    <2> HIDE DEF Part, w
    <2>5. ListOf(kept[i + 1], Part(i + 1))
      BY <2>1, <2>2, <2>3, <2>4, ListAppend
    <2> QED
      BY <1>1, <2>1, <2>5
  <1>5. Len(list) \in X
    <2> HIDE DEF X
    <2> QED
      BY <1>1, <1>3, <1>4, UpTo
  <1>6. \A v \in Worker : v \in Part(Len(list)) <=> v \in S \ E
    BY DEF ListOf
  <1> HIDE DEF Part
  <1>7. ListOf(Without(list, E), Part(Len(list)))
    BY <1>2, <1>5
  <1> QED
    BY <1>6, <1>7 DEF ListOf

-----------------------------------------------------------------------------
(* Whatever times out                                                      *)

\* The kernel's event list names the blocked receivers and a task blocked in
\* xEventGroupSync has its bit set, whichever calls time out.
ListInv ==
  /\ pc \in [Task -> WorkerPC \cup ManagerPC]
  /\ pc[Manager] \in ManagerPC
  /\ \A w \in Worker : pc[w] \in WorkerPC
  /\ ListOf(waiting, Receivers)
  /\ WaitersHaveBits

\* A step that blocks or wakes no receiver.
LEMMA ListKept ==
  ASSUME ListInv, waiting' = waiting, pc' \in [Task -> WorkerPC \cup ManagerPC],
         pc'[Manager] \in ManagerPC,
         \A w \in Worker : /\ pc'[w] \in WorkerPC
                           /\ pc'[w] = "recvWait" <=> pc[w] = "recvWait",
         \A t \in Task : pc'[t] = "syncWait" => t \in bits'
  PROVE  ListInv'
  <1>1. Receivers' = Receivers
    BY DEF Receivers
  <1> QED
    BY <1>1 DEF ListInv, WaitersHaveBits, ListOf

\* xEventGroupSync.
LEMMA ListSync ==
  ASSUME ListInv, NEW t \in Task, pc[t] = "sync", EventGroupSync(t), waiting' = waiting
  PROVE  ListInv'
  <1>0. Manager \in Task /\ Worker \subseteq Task /\ pc \in [Task -> WorkerPC \cup ManagerPC]
    BY DEF Task, ListInv
  <1>1. CASE AllHere(t)
    <2>1. \A u \in Task : pc'[u] = IF u = t \/ pc[u] = "syncWait" THEN AfterSync(u) ELSE pc[u]
      BY <1>1 DEF EventGroupSync, Released
    <2>2. pc' \in [Task -> WorkerPC \cup ManagerPC]
      BY <1>0, <1>1 DEF EventGroupSync, Released, AfterSync, WorkerPC, ManagerPC
    <2>3. \A u \in Task : pc'[u] # "syncWait"
      BY <2>1 DEF AfterSync
    <2>4. pc'[Manager] \in ManagerPC
      BY <1>0, <2>1 DEF ListInv, AfterSync, ManagerPC
    <2>5. \A w \in Worker : pc'[w] \in WorkerPC /\ (pc'[w] = "recvWait" <=> pc[w] = "recvWait")
      BY RendezvousAssumption, <1>0, <2>1 DEF ListInv, AfterSync, WorkerPC
    <2> QED
      BY <2>2, <2>3, <2>4, <2>5, ListKept
  <1>2. CASE ~AllHere(t)
    <2>1. bits' = bits \cup {t} /\ pc' = [pc EXCEPT ![t] = "syncWait"]
      BY <1>2 DEF EventGroupSync
    <2>2. /\ pc' \in [Task -> WorkerPC \cup ManagerPC]
          /\ \A u \in Task : pc'[u] = IF u = t THEN "syncWait" ELSE pc[u]
      BY <1>0, <2>1 DEF WorkerPC, ManagerPC
    <2>3. /\ pc'[Manager] \in ManagerPC
          /\ \A w \in Worker : pc'[w] \in WorkerPC /\ (pc'[w] = "recvWait" <=> pc[w] = "recvWait")
      BY <1>0, <2>2 DEF ListInv, WorkerPC, ManagerPC
    <2>4. \A u \in Task : pc'[u] = "syncWait" => u \in bits'
      BY <2>1, <2>2 DEF ListInv, WaitersHaveBits
    <2> QED
      BY <2>2, <2>3, <2>4, ListKept
  <1> QED
    BY <1>1, <1>2

\* Every step keeps the list and the bits right.
LEMMA ListNext == ListInv /\ [TimedNext]_timedVars => ListInv'
  <1> SUFFICES ASSUME ListInv, [TimedNext]_timedVars PROVE ListInv'
    OBVIOUS
  <1>0. /\ Manager \in Task /\ Worker \subseteq Task /\ Manager \notin Worker
        /\ pc \in [Task -> WorkerPC \cup ManagerPC]
        /\ pc[Manager] \in ManagerPC /\ \A w \in Worker : pc[w] \in WorkerPC
    <2>1. Manager \in Task /\ Worker \subseteq Task /\ Manager \notin Worker
      BY RendezvousAssumption DEF Task
    <2> QED
      BY <2>1 DEF ListInv
  <1>1. ASSUME NEW w \in Worker, TimedReceive(w) PROVE ListInv'
    <2>1. /\ waiting' = waiting /\ bits' = bits /\ pc[w] = "receive"
          /\ pc' = [pc EXCEPT ![w] = "delay", ![Manager] = IF @ = "sendWait" THEN "send" ELSE @]
      BY <1>1 DEF TimedReceive, Receive, QueueReceive
    <2>2. \A t \in Task : pc'[t] = IF t = w THEN "delay"
                                   ELSE IF t = Manager /\ pc[t] = "sendWait" THEN "send" ELSE pc[t]
      BY <1>0, <2>1
    <2>3. pc' \in [Task -> WorkerPC \cup ManagerPC]
      BY <1>0, <2>1 DEF WorkerPC, ManagerPC
    <2> QED
      BY <1>0, <2>1, <2>2, <2>3, ListKept DEF ListInv, WaitersHaveBits, WorkerPC, ManagerPC
  <1>2. ASSUME NEW w \in Worker, TimedReceiveBlocks(w) PROVE ListInv'
    <2>1. /\ waiting' = Append(waiting, w) /\ bits' = bits /\ pc[w] = "receive"
          /\ pc' = [pc EXCEPT ![w] = "recvWait"]
      BY <1>2 DEF TimedReceiveBlocks, ReceiveBlocks
    <2>2. Receivers' = Receivers \cup {w} /\ w \notin Receivers
      BY <1>0, <2>1 DEF Receivers
    <2>3. ListOf(waiting', Receivers')
      BY <2>1, <2>2, ListAppend DEF ListInv
    <2> QED
      BY <1>0, <2>1, <2>3 DEF ListInv, WaitersHaveBits, WorkerPC, ManagerPC
  <1>3. ASSUME NEW w \in Worker, TimedRecordCompletion(w) PROVE ListInv'
    BY <1>0, <1>3, ListKept
    DEF TimedRecordCompletion, RecordCompletion, ListInv, WaitersHaveBits, WorkerPC, ManagerPC
  <1>4. ASSUME NEW w \in Worker, TimedWorkerSync(w) PROVE ListInv'
    BY <1>0, <1>4, ListSync DEF TimedWorkerSync, WorkerSync
  <1>5. ASSUME NEW w \in Worker, ReceiveTimesOut(w) PROVE ListInv'
    BY <1>0, <1>5, ListKept
    DEF ReceiveTimesOut, ListInv, WaitersHaveBits, WorkerPC, ManagerPC
  <1>6. CASE TimedSend
    <2> DEFINE next == IF sent + 1 < ItemsPerRound THEN "send" ELSE "sync"
    <2>1. PICK item \in WorkItem : QueueSend(item, next)
      BY <1>6 DEF TimedSend, Send
    <2>2. next \in ManagerPC /\ next # "syncWait"
      BY DEF ManagerPC
    <2> HIDE DEF next
    <2>3. bits' = bits /\ waiting' = WaitingAfterSend
      BY <1>6 DEF TimedSend, Send
    <2>4. CASE waiting = << >>
      <3>1. Receivers = {}
        BY <2>4 DEF ListInv, ListOf, Receivers
      <3>2. pc' = [pc EXCEPT ![Manager] = next] /\ waiting' = waiting
        BY <2>1, <2>3, <2>4, <3>1 DEF QueueSend, WaitingAfterSend
      <3> QED
        BY <1>0, <2>2, <2>3, <3>2, ListKept DEF ListInv, WaitersHaveBits, WorkerPC, ManagerPC
    <2>5. CASE waiting # << >>
      <3>1. Head(waiting) \in Receivers /\ ListOf(Tail(waiting), Receivers \ {Head(waiting)})
        BY <2>5, ListTail DEF ListInv
      <3>2. PICK w \in Receivers : pc' = [pc EXCEPT ![Manager] = next, ![w] = "receive"]
        BY <2>1, <3>1 DEF QueueSend
      <3>3. pc'[Head(waiting)] = "receive"
        BY <1>6, <2>5 DEF TimedSend
      <3>4. Head(waiting) = w
        BY <1>0, <3>1, <3>2, <3>3 DEF Receivers
      <3>5. Receivers' = Receivers \ {w}
        BY <1>0, <2>2, <3>2 DEF Receivers
      <3>6. ListOf(waiting', Receivers')
        BY <2>3, <2>5, <3>1, <3>4, <3>5 DEF WaitingAfterSend
      <3>7. /\ pc' \in [Task -> WorkerPC \cup ManagerPC]
            /\ \A t \in Task : pc'[t] = IF t = w THEN "receive" ELSE IF t = Manager THEN next ELSE pc[t]
        BY <1>0, <2>2, <3>2 DEF Receivers, WorkerPC, ManagerPC
      <3> QED
        BY <1>0, <2>2, <2>3, <3>6, <3>7 DEF ListInv, WaitersHaveBits, Receivers, WorkerPC, ManagerPC
    <2> QED
      BY <2>4, <2>5
  <1>7. CASE TimedSendBlocks
    BY <1>0, <1>7, ListKept
    DEF TimedSendBlocks, SendBlocks, ListInv, WaitersHaveBits, WorkerPC, ManagerPC
  <1>8. CASE TimedManagerSync
    BY <1>0, <1>8, ListSync DEF TimedManagerSync, ManagerSync
  <1>9. CASE TimedCountRound
    BY <1>0, <1>9, ListKept
    DEF TimedCountRound, CountRound, ListInv, WaitersHaveBits, WorkerPC, ManagerPC
  <1>10. CASE SendTimesOut
    BY <1>0, <1>10, ListKept DEF SendTimesOut, ListInv, WaitersHaveBits, WorkerPC, ManagerPC
  <1>11. CASE Tick
    <2>1. /\ bits' = bits /\ waiting' = Without(waiting, Expiring)
          /\ pc' = [t \in Task |-> IF t \in Expiring THEN OnExpiry(t) ELSE pc[t]]
      BY <1>11 DEF Tick, WaitingAfterTick
    <2>2. ASSUME NEW t \in Expiring
          PROVE  /\ t \in Task /\ OnExpiry(t) \notin {"recvWait", "syncWait"}
                 /\ t = Manager => OnExpiry(t) \in ManagerPC
                 /\ t # Manager => OnExpiry(t) \in WorkerPC
      BY <1>0 DEF Expiring, OnExpiry, Blocked, AfterSync, Task, WorkerPC, ManagerPC
    <2> HIDE DEF OnExpiry, Expiring
    <2>3. Receivers' = Receivers \ Expiring
      BY <1>0, <2>1, <2>2 DEF Receivers
    <2>4. ListOf(waiting', Receivers')
      BY <2>1, <2>3, ListWithout DEF ListInv
    <2>5. /\ pc'[Manager] \in ManagerPC /\ \A w \in Worker : pc'[w] \in WorkerPC
          /\ \A t \in Task : pc'[t] = "syncWait" => pc[t] = "syncWait"
      BY <1>0, <2>1, <2>2
    <2>6. pc' \in [Task -> WorkerPC \cup ManagerPC]
      BY <1>0, <2>1, <2>2
    <2> QED
      BY <2>1, <2>4, <2>5, <2>6 DEF ListInv, WaitersHaveBits
  <1>12. CASE UNCHANGED timedVars
    BY <1>12 DEF timedVars, vars, ListInv, WaitersHaveBits, Receivers, ListOf
  <1> QED
    BY <1>1, <1>2, <1>3, <1>4, <1>5, <1>6, <1>7, <1>8, <1>9, <1>10, <1>11, <1>12 DEF TimedNext

\* The invariant holds of every reachable state.
LEMMA ListInvariance == TimedSpec => []ListInv
  <1>1. TimedInit => ListInv
    <2> SUFFICES ASSUME TimedInit PROVE ListInv
      OBVIOUS
    <2>1. Receivers = {} /\ waiting = << >>
      BY DEF TimedInit, Init, Receivers, Task
    <2>2. ListOf(waiting, Receivers)
      BY <2>1, ListEmpty
    <2>3. /\ Manager \in Task /\ Worker \subseteq Task /\ Manager \notin Worker
          /\ pc = [t \in Task |-> IF t = Manager THEN "send" ELSE "receive"]
      BY RendezvousAssumption DEF TimedInit, Init, Task
    <2>4. pc \in [Task -> WorkerPC \cup ManagerPC]
      BY <2>3 DEF WorkerPC, ManagerPC
    <2>5. pc[Manager] \in ManagerPC /\ \A w \in Worker : pc[w] \in WorkerPC
      BY <2>3 DEF WorkerPC, ManagerPC
    <2>6. \A t \in Task : pc[t] # "syncWait"
      BY <2>3
    <2> QED
      BY <2>2, <2>4, <2>5, <2>6 DEF ListInv, WaitersHaveBits
  <1> QED
    BY <1>1, ListNext, PTL DEF TimedSpec

\* The queue's event list holds the workers blocked in xQueueReceive, each once,
\* also when some of them time out.
THEOREM WaitingIsReceiversHolds == TimedSpec => []WaitingIsReceivers
  <1>1. ListInv => WaitingIsReceivers
    BY ListCount DEF ListInv, WaitingIsReceivers, Receivers
  <1> QED
    BY <1>1, ListInvariance, PTL

\* A task blocked in xEventGroupSync has its bit set, also when others time out.
THEOREM WaitersHaveBitsHolds == TimedSpec => []WaitersHaveBits
  <1>1. ListInv => WaitersHaveBits
    BY DEF ListInv
  <1> QED
    BY <1>1, ListInvariance, PTL

-----------------------------------------------------------------------------
(* No time-out fires                                                       *)

\* The longest wait the demo's numbers allow, in ticks.
LongestWait == MaxTicks + MaxLag * StepsPerRound

\* What the code's numbers satisfy (3 items and 8 slots, 2^16 - 1 ticks): the
\* queue holds a round, and the time-out outlasts every wait.
EnoughRoomAndTime ==
  /\ ItemsPerRound <= QueueLength
  /\ LongestWait < portMAX_DELAY

\* The workers at one of the places P.
At(P) == {w \in Worker : pc[w] \in P}

\* The steps the workers still have to take before the rendezvous.
StepsLeft ==
  Cardinality(At({"receive"})) + Cardinality(At({"receive", "delay", "work"}))
    + Cardinality(At({"receive", "delay", "work", "sync"}))

\* The manager, having the higher priority, blocks nowhere but at the
\* rendezvous, and no worker gets to run before it has.
ManagerFirst ==
  /\ pc[Manager] # "sendWait"
  /\ pc[Manager] # "syncWait" => \A w \in Worker : pc[w] = "receive"
  /\ At({"recvWait"}) = {}
  /\ bits # Task

\* A timer runs in a blocked task and in no other.
TimersMatchPC ==
  /\ timer \in [Task -> Int]
  /\ \A t \in Task : ReadyTask(t) => timer[t] = NoTimer
  /\ \A w \in Worker : pc[w] = "delay" => timer[w] \in 1..MaxTicks
  /\ lag \in 0..MaxLag
  /\ (\A t \in Task : ~ReadyTask(t)) => lag = 0

\* With c ticks of delay to come, a waiting task has waited so little that c
\* ticks and the lag of the steps left still fit into LongestWait.
FitsIn(c) ==
  /\ \A w \in Worker : pc[w] = "delay" => timer[w] <= c
  /\ (\E w \in Worker : pc[w] = "receive") => c = MaxTicks
  /\ \A t \in Task : pc[t] = "syncWait" =>
       portMAX_DELAY - timer[t] + c + MaxLag * StepsLeft - lag <= LongestWait

TimedInv ==
  /\ IInv
  /\ ManagerFirst
  /\ TimersMatchPC
  /\ \E c \in 0..MaxTicks : FitsIn(c)

\* MaxTicks is the longest work item.
LEMMA MaxTicksIsLargest ==
  /\ MaxTicks \in WorkItem
  /\ \A n \in WorkItem : n \in 1..MaxTicks
  /\ MaxTicks \in Nat /\ MaxTicks >= 1
  <1> DEFINE X == {portMAX_DELAY - n : n \in WorkItem}
  <1>0. portMAX_DELAY \in Nat /\ WorkItem # {} /\ \A n \in WorkItem : n \in 1..portMAX_DELAY
    BY TimedAssumption
  <1>1. X \in SUBSET Nat /\ X # {}
    <2>1. \A n \in WorkItem : portMAX_DELAY - n \in Nat
      BY <1>0
    <2> QED
      BY <1>0, <2>1
  <1>2. PICK x \in X : \A y \in X : x <= y
    BY <1>1, LeastElement
  <1>3. PICK m \in WorkItem : x = portMAX_DELAY - m
    BY <1>2
  <1>4. \A n \in WorkItem : n <= m
    <2>1. ASSUME NEW n \in WorkItem PROVE n <= m
      <3>1. portMAX_DELAY - n \in X
        OBVIOUS
      <3>2. portMAX_DELAY - m <= portMAX_DELAY - n
        BY <1>2, <1>3, <3>1
      <3> QED
        BY <1>0, <3>2
    <2> QED
      BY <2>1
  <1>5. MaxTicks \in WorkItem /\ \A n \in WorkItem : n <= MaxTicks
    BY <1>4 DEF MaxTicks
  <1> QED
    BY <1>0, <1>5

\* What MaxLag ticks a step add up to.
LEMMA LagTimes ==
  /\ \A s \in Nat : MaxLag * s \in Nat
  /\ \A s \in Nat \ {0} : MaxLag * (s - 1) = MaxLag * s - MaxLag /\ MaxLag * s >= MaxLag
  /\ \A s \in Nat : s <= StepsPerRound => MaxLag * s <= MaxLag * StepsPerRound
  <1>1. MaxLag \in Nat /\ StepsPerRound \in Nat
    BY TimedAssumption, ItemsType DEF StepsPerRound
  <1>2. \A s \in Nat : MaxLag * s \in Nat
    BY <1>1
  <1>3. \A s \in Int : MaxLag * (s - 1) = MaxLag * s - MaxLag
    BY <1>1
  <1>4. ASSUME NEW s \in Nat, NEW r \in Nat, s <= r PROVE MaxLag * s <= MaxLag * r
    <2>1. r - s \in Nat /\ r = s + (r - s)
      BY <1>4
    <2>2. MaxLag * (s + (r - s)) = MaxLag * s + MaxLag * (r - s)
      BY <1>1
    <2>3. MaxLag * (r - s) \in Nat /\ MaxLag * s \in Nat
      BY <1>2, <2>1
    <2> QED
      BY <2>1, <2>2, <2>3
  <1>5. MaxLag * 1 = MaxLag
    BY <1>1
  <1>6. \A s \in Nat \ {0} : MaxLag * s >= MaxLag
    BY <1>4, <1>5
  <1> QED
    BY <1>1, <1>2, <1>3, <1>4, <1>6

\* The workers at P are finitely many.
LEMMA AtType ==
  ASSUME NEW P
  PROVE  /\ At(P) \in SUBSET Worker /\ IsFiniteSet(At(P))
         /\ Cardinality(At(P)) \in Nat /\ Cardinality(At(P)) <= ItemsPerRound
         /\ Cardinality(At(P)) = 0 <=> At(P) = {}
  <1>1. At(P) \in SUBSET Worker
    BY DEF At
  <1> QED
    BY <1>1, WorkersFinite, FS_EmptySet

\* There are never more steps left than a round has.
LEMMA StepsLeftType == StepsLeft \in Nat /\ StepsLeft <= StepsPerRound
  <1>1. ItemsPerRound \in Nat
    BY ItemsType
  <1> QED
    BY <1>1, AtType DEF StepsLeft, StepsPerRound

\* A worker's step is one of those left.
LEMMA OneStepLess ==
  ASSUME NEW w \in Worker, NEW new, pc \in [Task -> WorkerPC \cup ManagerPC],
         pc' = [pc EXCEPT ![w] = new],
         \/ pc[w] = "receive" /\ new = "delay"
         \/ pc[w] = "work" /\ new = "sync"
         \/ pc[w] = "sync" /\ new = "syncWait"
  PROVE  StepsLeft \in Nat \ {0} /\ StepsLeft' = StepsLeft - 1
  <1>0. w \in Task
    BY DEF Task
  <1>1. \A u \in Worker : pc'[u] = IF u = w THEN new ELSE pc[u]
    BY <1>0 DEF Task
  <1>2. ASSUME NEW P, pc[w] \in P, new \notin P
        PROVE  /\ Cardinality(At(P)) \in Nat \ {0}
               /\ Cardinality(At(P)') = Cardinality(At(P)) - 1
    <2>1. At(P)' = At(P) \ {w} /\ w \in At(P)
      BY <1>1, <1>2 DEF At
    <2>2. IsFiniteSet(At(P)) /\ Cardinality(At(P)) \in Nat /\ Cardinality(At(P)) # 0
      BY <2>1, AtType
    <2> QED
      BY <2>1, <2>2, FS_RemoveElement
  <1>3. ASSUME NEW P, pc[w] \in P <=> new \in P
        PROVE  At(P)' = At(P)
    BY <1>1, <1>3 DEF At
  <1> DEFINE P1 == {"receive"}
             P2 == {"receive", "delay", "work"}
             P3 == {"receive", "delay", "work", "sync"}
  <1>4. StepsLeft = Cardinality(At(P1)) + Cardinality(At(P2)) + Cardinality(At(P3))
    BY DEF StepsLeft
  <1>5. StepsLeft' = Cardinality(At(P1)') + Cardinality(At(P2)') + Cardinality(At(P3)')
    BY DEF StepsLeft
  <1>6. Cardinality(At(P1)) \in Nat /\ Cardinality(At(P2)) \in Nat /\ Cardinality(At(P3)) \in Nat
    BY AtType
  <1>7. CASE pc[w] = "receive" /\ new = "delay"
    <2>1. pc[w] \in P1 /\ new \notin P1 /\ pc[w] \in P2 /\ new \in P2 /\ pc[w] \in P3 /\ new \in P3
      BY <1>7
    <2> HIDE DEF P1, P2, P3
    <2>2. At(P2)' = At(P2) /\ At(P3)' = At(P3)
      BY <1>3, <2>1
    <2>3. Cardinality(At(P1)) # 0 /\ Cardinality(At(P1)') = Cardinality(At(P1)) - 1
      BY <1>2, <2>1
    <2>4. StepsLeft' = Cardinality(At(P1)) + Cardinality(At(P2)) + Cardinality(At(P3)) - 1
      BY <1>5, <1>6, <2>2, <2>3
    <2>5. StepsLeft' = StepsLeft - 1
      BY <1>4, <1>6, <2>4
    <2>6. StepsLeft \in Nat /\ StepsLeft # 0
      BY <1>4, <1>6, <2>3, StepsLeftType
    <2> QED
      BY <2>5, <2>6
  <1>8. CASE pc[w] = "work" /\ new = "sync"
    <2>1. pc[w] \notin P1 /\ new \notin P1 /\ pc[w] \in P2 /\ new \notin P2 /\ pc[w] \in P3 /\ new \in P3
      BY <1>8
    <2> HIDE DEF P1, P2, P3
    <2>2. At(P1)' = At(P1) /\ At(P3)' = At(P3)
      BY <1>3, <2>1
    <2>3. Cardinality(At(P2)) # 0 /\ Cardinality(At(P2)') = Cardinality(At(P2)) - 1
      BY <1>2, <2>1
    <2>4. StepsLeft' = Cardinality(At(P1)) + Cardinality(At(P2)) + Cardinality(At(P3)) - 1
      BY <1>5, <1>6, <2>2, <2>3
    <2>5. StepsLeft' = StepsLeft - 1
      BY <1>4, <1>6, <2>4
    <2>6. StepsLeft \in Nat /\ StepsLeft # 0
      BY <1>4, <1>6, <2>3, StepsLeftType
    <2> QED
      BY <2>5, <2>6
  <1>9. CASE pc[w] = "sync" /\ new = "syncWait"
    <2>1. pc[w] \notin P1 /\ new \notin P1 /\ pc[w] \notin P2 /\ new \notin P2 /\ pc[w] \in P3 /\ new \notin P3
      BY <1>9
    <2> HIDE DEF P1, P2, P3
    <2>2. At(P1)' = At(P1) /\ At(P2)' = At(P2)
      BY <1>3, <2>1
    <2>3. Cardinality(At(P3)) # 0 /\ Cardinality(At(P3)') = Cardinality(At(P3)) - 1
      BY <1>2, <2>1
    <2>4. StepsLeft' = Cardinality(At(P1)) + Cardinality(At(P2)) + Cardinality(At(P3)) - 1
      BY <1>5, <1>6, <2>2, <2>3
    <2>5. StepsLeft' = StepsLeft - 1
      BY <1>4, <1>6, <2>4
    <2>6. StepsLeft \in Nat /\ StepsLeft # 0
      BY <1>4, <1>6, <2>3, StepsLeftType
    <2> QED
      BY <2>5, <2>6
  <1> QED
    BY <1>7, <1>8, <1>9

-----------------------------------------------------------------------------
(* What the invariant says of a state                                      *)

\* The places of the tasks.
LEMMA TimedPlaces ==
  ASSUME TimedInv
  PROVE  /\ Manager \in Task /\ Worker \subseteq Task /\ Manager \notin Worker
         /\ pc \in [Task -> WorkerPC \cup ManagerPC]
         /\ pc[Manager] \in {"send", "sync", "syncWait", "count"}
         /\ \A w \in Worker : pc[w] \in {"receive", "delay", "work", "sync", "syncWait"}
  <1>1. Manager \in Task /\ Worker \subseteq Task /\ Manager \notin Worker
    BY RendezvousAssumption DEF Task
  <1>2. pc \in [Task -> WorkerPC \cup ManagerPC] /\ pc[Manager] \in ManagerPC /\ \A w \in Worker : pc[w] \in WorkerPC
    BY DEF TimedInv, IInv, TypeOK
  <1>3. pc[Manager] # "sendWait" /\ \A w \in Worker : pc[w] # "recvWait"
    BY DEF TimedInv, ManagerFirst, At
  <1> QED
    BY <1>1, <1>2, <1>3 DEF WorkerPC, ManagerPC

\* A worker runs only while the manager is at the rendezvous.
LEMMA WorkerRuns ==
  ASSUME TimedInv, NEW w \in Worker, Running(w)
  PROVE  pc[Manager] = "syncWait" /\ sent = ItemsPerRound
  <1>1. ~ReadyTask(Manager)
    BY TimedPlaces DEF Running
  <1>2. pc[Manager] = "syncWait"
    BY <1>1, TimedPlaces DEF ReadyTask, Blocked
  <1> QED
    BY <1>2 DEF TimedInv, IInv, SentMatchesPC

\* The manager runs only while every worker is about to receive.
LEMMA ManagerRuns ==
  ASSUME TimedInv, pc[Manager] # "syncWait"
  PROVE  /\ \A w \in Worker : pc[w] = "receive"
         /\ \A t \in Task : pc[t] # "syncWait"
  BY TimedPlaces DEF TimedInv, ManagerFirst, Task

\* Somebody has yet to arrive as long as somebody waits.
LEMMA SomeoneToCome ==
  ASSUME TimedInv, NEW t \in Task, pc[t] = "syncWait"
  PROVE  /\ pc[Manager] = "syncWait"
         /\ \E w \in Worker : pc[w] # "syncWait"
         /\ StepsLeft \in Nat \ {0}
  <1>1. pc[Manager] = "syncWait"
    BY ManagerRuns
  <1>2. PICK w \in Worker : pc[w] # "syncWait"
    BY <1>1, TimedPlaces DEF TimedInv, ManagerFirst, IInv, BitsAreWaiters, Task
  <1> DEFINE P3 == {"receive", "delay", "work", "sync"}
  <1>3. w \in At(P3)
    BY <1>2, TimedPlaces DEF At
  <1>4. Cardinality(At(P3)) # 0
    BY <1>3, AtType
  <1>5. StepsLeft # 0
    BY <1>4, AtType DEF StepsLeft
  <1> QED
    BY <1>1, <1>2, <1>5, StepsLeftType

\* The wait of a task at the rendezvous is within the bound, and short of it by
\* a tick as long as a tick may still come.
LEMMA WaitSoFar ==
  ASSUME TimedInv, NEW t \in Task, pc[t] = "syncWait"
  PROVE  /\ portMAX_DELAY - timer[t] <= LongestWait
         /\ lag < MaxLag => portMAX_DELAY - timer[t] < LongestWait
  <1>1. PICK c \in 0..MaxTicks : FitsIn(c)
    BY DEF TimedInv
  <1>2. portMAX_DELAY - timer[t] + c + MaxLag * StepsLeft - lag <= LongestWait
    BY <1>1 DEF FitsIn
  <1>3. MaxLag * StepsLeft >= MaxLag /\ MaxLag * StepsLeft \in Nat
    BY SomeoneToCome, LagTimes
  <1>4. timer[t] \in Int /\ lag \in 0..MaxLag /\ portMAX_DELAY \in Nat /\ MaxLag \in Nat /\ c \in Nat
    BY MaxTicksIsLargest, TimedAssumption DEF TimedInv, TimersMatchPC
  <1>5. LongestWait \in Nat
    BY MaxTicksIsLargest, LagTimes, ItemsType DEF LongestWait, StepsPerRound
  <1> QED
    BY <1>2, <1>3, <1>4, <1>5

-----------------------------------------------------------------------------
(* The steps, with time                                                    *)

\* What of TimedInv is about time and priorities.
InTime ==
  /\ ManagerFirst
  /\ TimersMatchPC
  /\ \E c \in 0..MaxTicks : FitsIn(c)

\* A worker on its way to the rendezvous.
LEMMA WorkerMoves ==
  ASSUME TimedInv, NEW w \in Worker, Running(w), NEW new,
         pc' = [pc EXCEPT ![w] = new],
         \/ pc[w] = "receive" /\ new = "delay" /\ timer'[w] \in 1..MaxTicks
         \/ pc[w] = "work" /\ new = "sync" /\ timer'[w] = NoTimer
         \/ pc[w] = "sync" /\ new = "syncWait" /\ timer'[w] = portMAX_DELAY,
         bits' # Task, timer' \in [Task -> Int], lag' = 0,
         \A t \in Task : t # w => timer'[t] = timer[t]
  PROVE  InTime'
  <1>0. /\ Manager \in Task /\ Worker \subseteq Task /\ w # Manager
        /\ pc \in [Task -> WorkerPC \cup ManagerPC]
    BY TimedPlaces
  <1>1. \A u \in Task : pc'[u] = IF u = w THEN new ELSE pc[u]
    BY <1>0
  <1>2. pc[Manager] = "syncWait"
    BY WorkerRuns
  <1>3. ManagerFirst'
    BY <1>0, <1>1, <1>2 DEF TimedInv, ManagerFirst, At
  <1>4. TimersMatchPC'
    <2>1. 0 \in 0..MaxLag
      BY TimedAssumption
    <2>2. ASSUME NEW t \in Task, ReadyTask(t)' PROVE timer'[t] = NoTimer
      BY <1>1, <2>2 DEF ReadyTask, Blocked, TimedInv, TimersMatchPC
    <2>3. ASSUME NEW v \in Worker, pc'[v] = "delay" PROVE timer'[v] \in 1..MaxTicks
      BY <1>0, <1>1, <2>3 DEF TimedInv, TimersMatchPC
    <2> QED
      BY <2>1, <2>2, <2>3 DEF TimersMatchPC
  <1>5. PICK c \in 0..MaxTicks : FitsIn(c)
    BY DEF TimedInv
  <1>6. FitsIn(c)'
    <2>1. ASSUME NEW v \in Worker, pc'[v] = "delay" PROVE timer'[v] <= c
      <3>1. CASE v = w
        <4>1. pc[w] = "receive" /\ timer'[w] \in 1..MaxTicks
          BY <1>0, <1>1, <2>1, <3>1
        <4>2. c = MaxTicks
          BY <1>5, <4>1 DEF FitsIn
        <4> QED
          BY <3>1, <4>1, <4>2, MaxTicksIsLargest
      <3>2. CASE v # w
        BY <1>0, <1>1, <1>5, <2>1, <3>2 DEF FitsIn
      <3> QED
        BY <3>1, <3>2
    <2>2. ASSUME NEW v \in Worker, pc'[v] = "receive" PROVE c = MaxTicks
      <3>1. pc[v] = "receive"
        BY <1>0, <1>1, <2>2
      <3> QED
        BY <1>5, <3>1 DEF FitsIn
    <2>3. StepsLeft \in Nat \ {0} /\ StepsLeft' = StepsLeft - 1
      BY <1>0, OneStepLess
    <2>4. /\ MaxLag * StepsLeft' = MaxLag * StepsLeft - MaxLag
          /\ MaxLag * StepsLeft \in Nat /\ MaxLag * StepsLeft <= MaxLag * StepsPerRound
          /\ MaxLag \in Nat /\ portMAX_DELAY \in Nat /\ c \in Nat /\ MaxTicks \in Nat /\ c <= MaxTicks
      BY <2>3, LagTimes, StepsLeftType, TimedAssumption, MaxTicksIsLargest
    <2>5. MaxLag * StepsPerRound \in Nat
      BY ItemsType, LagTimes DEF StepsPerRound
    <2>6. ASSUME NEW t \in Task, pc'[t] = "syncWait"
          PROVE  portMAX_DELAY - timer'[t] + c + MaxLag * StepsLeft' - lag' <= LongestWait
      <3>1. CASE t = w
        <4>1. timer'[w] = portMAX_DELAY
          BY <1>0, <1>1, <2>6, <3>1
        <4> QED
          BY <2>4, <2>5, <3>1, <4>1 DEF LongestWait
      <3>2. CASE t # w
        <4>1. pc[t] = "syncWait" /\ timer'[t] = timer[t]
          BY <1>1, <2>6, <3>2
        <4>2. portMAX_DELAY - timer[t] + c + MaxLag * StepsLeft - lag <= LongestWait
          BY <1>5, <4>1 DEF FitsIn
        <4>3. timer[t] \in Int /\ lag \in 0..MaxLag
          BY DEF TimedInv, TimersMatchPC
        <4> QED
          BY <2>4, <2>5, <4>1, <4>2, <4>3 DEF LongestWait
      <3> QED
        BY <3>1, <3>2
    <2> QED
      BY <2>1, <2>2, <2>6 DEF FitsIn
  <1> QED
    BY <1>3, <1>4, <1>6 DEF InTime

\* The manager, while every worker is about to receive.
LEMMA ManagerMoves ==
  ASSUME TimedInv, pc[Manager] # "syncWait", NEW new,
         pc' = [pc EXCEPT ![Manager] = new],
         \/ new \in {"send", "sync", "count"} /\ timer'[Manager] = NoTimer
         \/ new = "syncWait" /\ timer'[Manager] = portMAX_DELAY,
         bits' # Task, timer' \in [Task -> Int], lag' = 0,
         \A w \in Worker : timer'[w] = timer[w]
  PROVE  InTime'
  <1>0. /\ Manager \in Task /\ Worker \subseteq Task /\ Manager \notin Worker
        /\ pc \in [Task -> WorkerPC \cup ManagerPC]
    BY TimedPlaces
  <1>1. pc'[Manager] = new /\ \A w \in Worker : pc'[w] = "receive" /\ timer'[w] = NoTimer
    BY <1>0, ManagerRuns DEF TimedInv, TimersMatchPC, ReadyTask, Blocked
  <1>2. ManagerFirst'
    BY <1>0, <1>1 DEF ManagerFirst, At
  <1>3. TimersMatchPC'
    <2>1. 0 \in 0..MaxLag
      BY TimedAssumption
    <2>2. ASSUME NEW t \in Task, ReadyTask(t)' PROVE timer'[t] = NoTimer
      BY <1>1, <2>2 DEF ReadyTask, Blocked, Task
    <2>3. \A w \in Worker : pc'[w] # "delay"
      BY <1>1
    <2> QED
      BY <2>1, <2>2, <2>3 DEF TimersMatchPC
  <1>4. MaxTicks \in 0..MaxTicks /\ MaxTicks \in Nat
    BY MaxTicksIsLargest
  <1>5. FitsIn(MaxTicks)'
    <2>1. \A w \in Worker : pc'[w] # "delay"
      BY <1>1
    <2>2. StepsLeft' \in Nat /\ StepsLeft' <= StepsPerRound
      <3>1. \A w \in Worker : pc'[w] = pc[w]
        BY <1>1, ManagerRuns
      <3>2. ASSUME NEW P PROVE At(P)' = At(P)
        BY <3>1 DEF At
      <3>3. StepsLeft' = StepsLeft
        BY <3>2 DEF StepsLeft
      <3> QED
        BY <3>3, StepsLeftType
    <2>3. MaxLag * StepsLeft' <= MaxLag * StepsPerRound /\ MaxLag * StepsLeft' \in Nat
      BY <2>2, LagTimes
    <2>4. MaxLag * StepsPerRound \in Nat /\ portMAX_DELAY \in Nat
      BY ItemsType, LagTimes, TimedAssumption DEF StepsPerRound
    <2>5. ASSUME NEW t \in Task, pc'[t] = "syncWait"
          PROVE  portMAX_DELAY - timer'[t] + MaxTicks + MaxLag * StepsLeft' - lag' <= LongestWait
      <3>1. timer'[t] = portMAX_DELAY
        BY <1>1, <2>5 DEF Task
      <3> QED
        BY <1>4, <2>3, <2>4, <3>1 DEF LongestWait
    <2>6. MaxTicks' = MaxTicks
      BY DEF MaxTicks
    <2> QED
      BY <2>1, <2>5, <2>6 DEF FitsIn
  <1> QED
    BY <1>2, <1>3, <1>4, <1>5 DEF InTime

\* The queue has an item for every worker that comes for one.
LEMMA ItemIsThere ==
  ASSUME TimedInv, NEW w \in Worker, Running(w), pc[w] = "receive"
  PROVE  queue # << >>
  <1>1. Len(queue) + Cardinality(Served) = ItemsPerRound
    BY WorkerRuns DEF TimedInv, IInv, OneItemEach, SentThisRound
  <1>2. Served \in SUBSET Worker /\ Served # Worker
    BY DEF Served
  <1>3. Cardinality(Served) \in Nat /\ Cardinality(Served) < ItemsPerRound
    BY <1>2, WorkersFinite, ItemsType
  <1>4. Len(queue) # 0
    BY <1>1, <1>3, ItemsType
  <1> QED
    BY <1>4

\* The queue has room for every item the manager sends.
LEMMA RoomIsThere ==
  ASSUME EnoughRoomAndTime, TimedInv, pc[Manager] = "send"
  PROVE  Len(queue) < QueueLength
  <1>1. Len(queue) + Cardinality(Served) = sent /\ sent < ItemsPerRound /\ Len(queue) \in Nat
    BY LenProperties DEF TimedInv, IInv, TypeOK, OneItemEach, SentThisRound, SentMatchesPC
  <1>2. Cardinality(Served) \in Nat
    <2>1. Served \in SUBSET Worker
      BY DEF Served
    <2> QED
      BY <2>1, WorkersFinite
  <1>3. sent \in Nat /\ ItemsPerRound \in Nat /\ QueueLength \in Nat /\ ItemsPerRound <= QueueLength
    BY ItemsType, RendezvousAssumption DEF TimedInv, IInv, TypeOK, EnoughRoomAndTime
  <1> QED
    BY <1>1, <1>2, <1>3

\* A worker takes its item and starts its delay.
LEMMA TimedReceiveStep ==
  ASSUME TimedInv, NEW w \in Worker, TimedReceive(w) PROVE InTime'
  <1>0. Running(w) /\ lag' = 0 /\ pc[w] = "receive" /\ bits' = bits /\ bits # Task
    BY DEF TimedReceive, Step, Receive, TimedInv, ManagerFirst
  <1>1. pc[Manager] = "syncWait" /\ w # Manager /\ w \in Task /\ pc \in [Task -> WorkerPC \cup ManagerPC]
    BY <1>0, WorkerRuns, TimedPlaces
  <1>2. pc' = [pc EXCEPT ![w] = "delay", ![Manager] = IF @ = "sendWait" THEN "send" ELSE @]
    BY DEF TimedReceive, Receive, QueueReceive
  <1>3. pc' = [pc EXCEPT ![w] = "delay"]
    BY <1>1, <1>2
  <1>4. queue # << >> /\ queue \in Seq(WorkItem)
    BY DEF TimedReceive, Receive, QueueReceive, TimedInv, IInv, TypeOK
  <1>5. Head(queue) \in WorkItem
    BY <1>4, HeadTailProperties
  <1>6. Head(queue) \in 1..MaxTicks /\ Head(queue) \in Int
    <2>1. Head(queue) \in 1..MaxTicks
      BY <1>5, MaxTicksIsLargest
    <2> QED
      BY <2>1, MaxTicksIsLargest
  <1>7. timer' = [timer EXCEPT ![w] = Head(queue)] /\ timer \in [Task -> Int]
    BY DEF TimedReceive, TimedInv, TimersMatchPC
  <1>8. timer' \in [Task -> Int] /\ timer'[w] \in 1..MaxTicks /\ \A t \in Task : t # w => timer'[t] = timer[t]
    BY <1>1, <1>6, <1>7
  <1> QED
    BY <1>0, <1>3, <1>8, WorkerMoves

\* A worker's delay is over.
LEMMA TimedRecordCompletionStep ==
  ASSUME TimedInv, NEW w \in Worker, TimedRecordCompletion(w) PROVE InTime'
  <1>0. /\ Running(w) /\ lag' = 0 /\ pc[w] = "work" /\ bits' = bits /\ bits # Task
        /\ pc' = [pc EXCEPT ![w] = "sync"]
    BY DEF TimedRecordCompletion, Step, RecordCompletion, TimedInv, ManagerFirst
  <1>1. w \in Task /\ NoTimer \in Int
    BY TimedPlaces DEF NoTimer
  <1>2. timer' = [t \in Task |-> IF t \in {w} THEN NoTimer ELSE timer[t]] /\ timer \in [Task -> Int]
    BY DEF TimedRecordCompletion, StopTimers, TimedInv, TimersMatchPC
  <1>3. timer' \in [Task -> Int] /\ timer'[w] = NoTimer /\ \A t \in Task : t # w => timer'[t] = timer[t]
    BY <1>1, <1>2
  <1> QED
    BY <1>0, <1>3, WorkerMoves

\* A worker arrives at the rendezvous; the last one ends every wait.
LEMMA TimedWorkerSyncStep ==
  ASSUME TimedInv, NEW w \in Worker, TimedWorkerSync(w) PROVE InTime'
  <1>0. /\ Running(w) /\ lag' = 0 /\ pc[w] = "sync" /\ timer \in [Task -> Int]
        /\ w \in Task /\ Manager \in Task /\ Worker \subseteq Task /\ Manager \notin Worker
        /\ NoTimer \in Int /\ timer[w] = NoTimer
    BY TimedPlaces
    DEF TimedWorkerSync, Step, WorkerSync, TimedInv, TimersMatchPC, Running, NoTimer
  <1>1. CASE AllHere(w)
    <2>1. \A u \in Task : u # w => pc[u] = "syncWait"
      BY <1>0, <1>1, LastToArrive DEF AllHere, TimedInv
    <2>2. bits' = {} /\ \A u \in Task : pc'[u] = AfterSync(u)
      BY <1>1, <2>1 DEF TimedWorkerSync, WorkerSync, EventGroupSync, Released
    <2>3. pc'[Manager] = "count" /\ \A v \in Worker : pc'[v] = "receive"
      BY <1>0, <2>2 DEF AfterSync
    <2>4. timer' = [t \in Task |-> IF t \in {u \in Task : pc[u] = "syncWait"} \cup {w} THEN NoTimer ELSE timer[t]]
      BY <1>1 DEF TimedWorkerSync, TimedSync, StopTimers
    <2>5. timer' \in [Task -> Int] /\ \A t \in Task : timer'[t] = NoTimer
      BY <1>0, <2>1, <2>4
    <2>6. ManagerFirst'
      BY <1>0, <2>2, <2>3 DEF ManagerFirst, At
    <2>7. TimersMatchPC'
      <3>1. 0 \in 0..MaxLag
        BY TimedAssumption
      <3> QED
        BY <1>0, <2>3, <2>5, <3>1 DEF TimersMatchPC
    <2>8. FitsIn(MaxTicks)'
      <3>1. MaxTicks' = MaxTicks
        BY DEF MaxTicks
      <3>2. \A t \in Task : pc'[t] # "syncWait"
        BY <2>3 DEF Task
      <3> QED
        BY <2>3, <3>1, <3>2 DEF FitsIn
    <2>9. MaxTicks \in 0..MaxTicks
      BY MaxTicksIsLargest
    <2> QED
      BY <2>6, <2>7, <2>8, <2>9 DEF InTime
  <1>2. CASE ~AllHere(w)
    <2>1. bits' = bits \cup {w} /\ bits' # Task /\ pc' = [pc EXCEPT ![w] = "syncWait"]
      BY <1>2 DEF TimedWorkerSync, WorkerSync, EventGroupSync, AllHere
    <2>2. timer' = [timer EXCEPT ![w] = IF @ = NoTimer THEN portMAX_DELAY ELSE @]
      BY <1>2 DEF TimedWorkerSync, TimedSync, StartTimeout
    <2>3. portMAX_DELAY \in Int
      BY TimedAssumption
    <2>4. timer' \in [Task -> Int] /\ timer'[w] = portMAX_DELAY /\ \A t \in Task : t # w => timer'[t] = timer[t]
      BY <1>0, <2>2, <2>3
    <2> QED
      BY <1>0, <2>1, <2>4, WorkerMoves
  <1> QED
    BY <1>1, <1>2

\* The manager sends.
LEMMA TimedSendStep ==
  ASSUME TimedInv, TimedSend PROVE InTime'
  <1>0. /\ lag' = 0 /\ pc[Manager] = "send" /\ bits' = bits /\ bits # Task
        /\ timer \in [Task -> Int] /\ Manager \in Task /\ Worker \subseteq Task /\ Manager \notin Worker
    BY TimedPlaces DEF TimedSend, Step, Send, TimedInv, ManagerFirst, TimersMatchPC
  <1> DEFINE next == IF sent + 1 < ItemsPerRound THEN "send" ELSE "sync"
  <1>1. pc' = [pc EXCEPT ![Manager] = next]
    <2>1. Receivers = {}
      BY DEF TimedInv, ManagerFirst, At, Receivers
    <2> QED
      BY <2>1 DEF TimedSend, Send, QueueSend
  <1>2. timer' = [t \in Task |-> IF t \in {Manager} THEN NoTimer ELSE timer[t]]
    BY DEF TimedSend, StopTimers
  <1>3. timer' \in [Task -> Int] /\ timer'[Manager] = NoTimer /\ \A w \in Worker : timer'[w] = timer[w]
    BY <1>0, <1>2 DEF NoTimer
  <1>4. next \in {"send", "sync", "count"}
    OBVIOUS
  <1> HIDE DEF next
  <1> QED
    BY <1>0, <1>1, <1>3, <1>4, ManagerMoves

\* The manager arrives at the rendezvous, first of all.
LEMMA TimedManagerSyncStep ==
  ASSUME TimedInv, TimedManagerSync PROVE InTime'
  <1>0. /\ Running(Manager) /\ lag' = 0 /\ pc[Manager] = "sync" /\ timer \in [Task -> Int]
        /\ Manager \in Task /\ Worker \subseteq Task /\ Manager \notin Worker
        /\ timer[Manager] = NoTimer
    BY TimedPlaces
    DEF TimedManagerSync, Step, ManagerSync, TimedInv, TimersMatchPC, Running, NoTimer
  <1>1. ~AllHere(Manager)
    <2>1. PICK w \in Worker : pc[w] = "receive"
      BY <1>0, ManagerRuns, RendezvousAssumption
    <2>2. w \notin bits
      BY <2>1 DEF TimedInv, IInv, BitsAreWaiters
    <2> QED
      BY <1>0, <2>2 DEF AllHere
  <1>2. bits' = bits \cup {Manager} /\ bits' # Task /\ pc' = [pc EXCEPT ![Manager] = "syncWait"]
    BY <1>1 DEF TimedManagerSync, ManagerSync, EventGroupSync, AllHere
  <1>3. timer' = [timer EXCEPT ![Manager] = IF @ = NoTimer THEN portMAX_DELAY ELSE @]
    BY <1>1 DEF TimedManagerSync, TimedSync, StartTimeout
  <1>4. portMAX_DELAY \in Int
    BY TimedAssumption
  <1>5. timer' \in [Task -> Int] /\ timer'[Manager] = portMAX_DELAY /\ \A w \in Worker : timer'[w] = timer[w]
    BY <1>0, <1>3, <1>4
  <1> QED
    BY <1>0, <1>2, <1>5, ManagerMoves

\* The manager starts the next round.
LEMMA TimedCountRoundStep ==
  ASSUME TimedInv, TimedCountRound PROVE InTime'
  <1>0. /\ lag' = 0 /\ pc[Manager] = "count" /\ bits' = bits /\ bits # Task
        /\ timer' = timer /\ timer \in [Task -> Int] /\ Manager \in Task
        /\ pc' = [pc EXCEPT ![Manager] = "send"]
    BY TimedPlaces DEF TimedCountRound, Step, CountRound, TimedInv, ManagerFirst, TimersMatchPC
  <1>1. timer[Manager] = NoTimer
    BY <1>0 DEF TimedInv, TimersMatchPC, ReadyTask, Blocked
  <1> QED
    BY <1>0, <1>1, ManagerMoves

\* A tick ends delays and nothing else.
LEMMA OnlyDelaysExpire ==
  ASSUME EnoughRoomAndTime, TimedInv, Tick
  PROVE  /\ Expiring \in SUBSET Worker
         /\ \A w \in Expiring : pc[w] = "delay" /\ timer[w] = 1
         /\ pc' = [t \in Task |-> IF t \in Expiring THEN "work" ELSE pc[t]]
  <1>0. lag < MaxLag
    <2>1. MaxLag \in Nat \ {0}
      BY TimedAssumption
    <2> QED
      BY <2>1 DEF Tick, TimedInv, TimersMatchPC
  <1>1. ASSUME NEW t \in Expiring PROVE t \in Worker /\ pc[t] = "delay" /\ timer[t] = 1
    <2>1. t \in Task /\ pc[t] \in Blocked /\ timer[t] = 1
      BY DEF Expiring
    <2>2. pc[t] # "syncWait"
      <3> SUFFICES ASSUME pc[t] = "syncWait" PROVE FALSE
        OBVIOUS
      <3>1. portMAX_DELAY - 1 < LongestWait
        BY <1>0, <2>1, WaitSoFar
      <3>2. LongestWait \in Nat
        BY MaxTicksIsLargest, LagTimes, ItemsType DEF LongestWait, StepsPerRound
      <3> QED
        BY <3>1, <3>2, TimedAssumption DEF EnoughRoomAndTime
    <2>3. pc[t] = "delay" /\ t # Manager
      BY <2>1, <2>2, TimedPlaces DEF Task, Blocked
    <2> QED
      BY <2>1, <2>3 DEF Task
  <1>2. pc' = [t \in Task |-> IF t \in Expiring THEN OnExpiry(t) ELSE pc[t]]
    BY DEF Tick
  <1>3. \A t \in Expiring : OnExpiry(t) = "work"
    BY <1>1 DEF OnExpiry
  <1> QED
    BY <1>1, <1>2, <1>3

\* A tick uses up a tick of the delays to come or of the lag.
LEMMA TickStep ==
  ASSUME EnoughRoomAndTime, TimedInv, Tick PROVE InTime'
  <1>0. /\ Manager \in Task /\ Worker \subseteq Task /\ Manager \notin Worker
        /\ timer \in [Task -> Int] /\ lag \in 0..MaxLag /\ bits' = bits /\ bits # Task
        /\ NoTimer = -1 /\ MaxLag \in Nat \ {0} /\ portMAX_DELAY \in Nat
        /\ MaxTicks \in Nat /\ LongestWait \in Nat /\ LongestWait < portMAX_DELAY
    <2>1. timer \in [Task -> Int] /\ lag \in 0..MaxLag /\ bits' = bits /\ bits # Task
      BY DEF Tick, TimedInv, TimersMatchPC, ManagerFirst
    <2>2. LongestWait \in Nat /\ MaxTicks \in Nat
      BY MaxTicksIsLargest, LagTimes, ItemsType DEF LongestWait, StepsPerRound
    <2>3. MaxLag \in Nat \ {0} /\ portMAX_DELAY \in Nat
      BY TimedAssumption
    <2> QED
      BY <2>1, <2>2, <2>3, TimedPlaces DEF NoTimer, EnoughRoomAndTime
  <1>1. \A t \in Expiring : t \in Worker /\ pc[t] = "delay" /\ timer[t] = 1
    BY OnlyDelaysExpire
  <1>2. \A t \in Task : pc'[t] = IF t \in Expiring THEN "work" ELSE pc[t]
    BY OnlyDelaysExpire
  <1>3. lag < MaxLag
    BY <1>0 DEF Tick, TimedInv, TimersMatchPC
  <1>4. ASSUME NEW t \in Task, pc[t] = "syncWait"
        PROVE  timer'[t] = timer[t] - 1 /\ pc'[t] = "syncWait"
    <2>1. portMAX_DELAY - timer[t] < LongestWait
      BY <1>3, <1>4, WaitSoFar
    <2>2. timer[t] > 0 /\ t \notin Expiring
      BY <1>0, <1>1, <1>4, <2>1
    <2> QED
      BY <1>2, <1>4, <2>2 DEF Tick, TimerAfterTick
  <1>5. ASSUME NEW t \in Task, ReadyTask(t)
        PROVE  timer'[t] = NoTimer /\ pc'[t] = pc[t]
    <2>1. t \notin Expiring /\ timer[t] = NoTimer
      BY <1>1, <1>5 DEF ReadyTask, Blocked, TimedInv, TimersMatchPC
    <2> QED
      BY <1>0, <1>2, <2>1 DEF Tick, TimerAfterTick
  <1>6. ASSUME NEW w \in Worker, pc[w] = "delay"
        PROVE  /\ w \in Expiring => pc'[w] = "work" /\ timer'[w] = NoTimer
               /\ w \notin Expiring => pc'[w] = "delay" /\ timer'[w] = timer[w] - 1 /\ timer[w] \in 2..MaxTicks
    <2>1. w \in Task /\ timer[w] \in 1..MaxTicks /\ (w \in Expiring <=> timer[w] = 1)
      BY <1>0, <1>6 DEF Expiring, TimedInv, TimersMatchPC, Blocked
    <2>2. timer'[w] = TimerAfterTick(w)
      BY <2>1 DEF Tick
    <2> QED
      BY <1>0, <1>2, <1>6, <2>1, <2>2 DEF TimerAfterTick
  <1>7. \A t \in Task : \/ ReadyTask(t)
                        \/ pc[t] = "syncWait"
                        \/ t \in Worker /\ pc[t] = "delay"
    BY TimedPlaces DEF ReadyTask, Blocked, Task
  <1>8. ManagerFirst'
    <2>1. pc'[Manager] = pc[Manager] /\ \A w \in Worker : pc[w] = "receive" => pc'[w] = "receive"
      BY <1>0, <1>1, <1>2
    <2>2. \A w \in Worker : pc'[w] # "recvWait"
      BY <1>0, <1>2, TimedPlaces
    <2> QED
      BY <1>0, <2>1, <2>2 DEF TimedInv, ManagerFirst, At
  <1>9. ASSUME \E t \in Task : ReadyTask(t) PROVE lag' = lag + 1 /\ \E t \in Task : ReadyTask(t)'
    BY <1>5, <1>9 DEF Tick, ReadyTask
  <1>10. TimersMatchPC'
    <2>1. timer' \in [Task -> Int]
      <3>1. \A t \in Task : TimerAfterTick(t) \in Int
        BY <1>0 DEF TimerAfterTick
      <3> QED
        BY <3>1 DEF Tick
    <2>2. ASSUME NEW t \in Task, ReadyTask(t)' PROVE timer'[t] = NoTimer
      <3>1. CASE ReadyTask(t)
        BY <1>5, <3>1
      <3>2. CASE pc[t] = "syncWait"
        BY <1>4, <2>2, <3>2 DEF ReadyTask, Blocked
      <3>3. CASE t \in Worker /\ pc[t] = "delay"
        BY <1>6, <2>2, <3>3 DEF ReadyTask, Blocked
      <3> QED
        BY <1>7, <3>1, <3>2, <3>3
    <2>3. ASSUME NEW w \in Worker, pc'[w] = "delay" PROVE timer'[w] \in 1..MaxTicks
      <3>1. pc[w] = "delay" /\ w \notin Expiring
        BY <1>0, <1>2, <2>3
      <3> QED
        BY <1>0, <1>6, <3>1
    <2>4. lag' \in 0..MaxLag
      BY <1>0, <1>3 DEF Tick
    <2>5. (\A t \in Task : ~ReadyTask(t)') => lag' = 0
      BY <1>9 DEF Tick
    <2> QED
      BY <2>1, <2>2, <2>3, <2>4, <2>5 DEF TimersMatchPC
  <1>11. StepsLeft' = StepsLeft
    <2>1. ASSUME NEW P, "delay" \in P <=> "work" \in P PROVE At(P)' = At(P)
      BY <1>0, <1>1, <1>2, <2>1 DEF At
    <2> QED
      BY <2>1 DEF StepsLeft
  <1>12. PICK c \in 0..MaxTicks : FitsIn(c)
    BY DEF TimedInv
  <1>13. MaxLag * StepsLeft \in Nat
    BY StepsLeftType, LagTimes
  <1>14. ASSUME NEW t \in Task, pc'[t] = "syncWait"
         PROVE  /\ timer[t] \in Int /\ timer'[t] = timer[t] - 1
                /\ portMAX_DELAY - timer[t] + c + MaxLag * StepsLeft - lag <= LongestWait
    <2>1. pc[t] = "syncWait"
      BY <1>2, <1>14
    <2> QED
      BY <1>0, <1>4, <1>12, <2>1 DEF FitsIn
  <1>15. \A w \in Worker : pc'[w] = "delay" => /\ timer'[w] = timer[w] - 1
                                               /\ timer[w] \in Int /\ timer[w] <= c
    <2> SUFFICES ASSUME NEW w \in Worker, pc'[w] = "delay"
                 PROVE  timer'[w] = timer[w] - 1 /\ timer[w] \in Int /\ timer[w] <= c
      OBVIOUS
    <2>1. pc[w] = "delay" /\ w \notin Expiring
      BY <1>0, <1>2
    <2> QED
      BY <1>0, <1>6, <1>12, <2>1 DEF FitsIn
  <1>16. \A w \in Worker : pc'[w] = "receive" => pc[w] = "receive"
    BY <1>0, <1>2
  <1>17. CASE \E t \in Task : ReadyTask(t)
    <2>1. lag' = lag + 1
      BY <1>9, <1>17
    <2>2. FitsIn(c)'
      <3>1. \A w \in Worker : pc'[w] = "delay" => timer'[w] <= c
        BY <1>0, <1>15
      <3>2. (\E w \in Worker : pc'[w] = "receive") => c = MaxTicks
        BY <1>12, <1>16 DEF FitsIn
      <3>3. ASSUME NEW t \in Task, pc'[t] = "syncWait"
            PROVE  portMAX_DELAY - timer'[t] + c + MaxLag * StepsLeft - lag' <= LongestWait
        BY <1>0, <1>13, <1>14, <2>1, <3>3
      <3> QED
        BY <1>11, <3>1, <3>2, <3>3 DEF FitsIn
    <2> QED
      BY <1>8, <1>10, <2>2 DEF InTime
  <1>18. CASE \A t \in Task : ~ReadyTask(t)
    <2>1. lag = 0 /\ lag' = 0
      BY <1>18 DEF Tick, TimedInv, TimersMatchPC
    <2>2. pc[Manager] = "syncWait"
      BY <1>0, <1>7, <1>18
    <2>3. PICK w \in Worker : pc[w] # "syncWait"
      BY <1>0, <2>2, SomeoneToCome
    <2>4. pc[w] = "delay"
      BY <1>0, <1>7, <1>18, <2>3
    <2>5. c \in 1..MaxTicks
      <3>1. timer[w] \in 1..MaxTicks /\ timer[w] <= c
        BY <1>12, <2>4 DEF TimedInv, TimersMatchPC, FitsIn
      <3> QED
        BY <1>0, <3>1
    <2>6. \A v \in Worker : pc[v] # "receive"
      BY <1>0, <1>18 DEF ReadyTask, Blocked
    <2>7. FitsIn(c - 1)'
      <3>1. \A v \in Worker : pc'[v] = "delay" => timer'[v] <= c - 1
        BY <1>0, <1>15, <2>5
      <3>2. \A v \in Worker : pc'[v] # "receive"
        BY <1>16, <2>6
      <3>3. ASSUME NEW t \in Task, pc'[t] = "syncWait"
            PROVE  portMAX_DELAY - timer'[t] + (c - 1) + MaxLag * StepsLeft - lag' <= LongestWait
        BY <1>0, <1>13, <1>14, <2>1, <2>5, <3>3
      <3> QED
        BY <1>11, <3>1, <3>2, <3>3 DEF FitsIn
    <2>8. c - 1 \in 0..MaxTicks
      BY <1>0, <2>5
    <2> QED
      BY <1>8, <1>10, <2>7, <2>8 DEF InTime
  <1> QED
    BY <1>17, <1>18

-----------------------------------------------------------------------------
(* The theorems                                                            *)

\* Every step with time is a step of Rendezvous, or none of it, and keeps the
\* timers in order.
LEMMA TimedStep ==
  ASSUME EnoughRoomAndTime, TimedInv, [TimedNext]_timedVars
  PROVE  [Next]_vars /\ InTime'
  <1>1. ASSUME NEW w \in Worker, TimedReceive(w) PROVE Next /\ InTime'
    BY <1>1, TimedReceiveStep DEF TimedReceive, Next, WorkerStep
  <1>2. ASSUME NEW w \in Worker, TimedReceiveBlocks(w) PROVE FALSE
    BY <1>2, ItemIsThere DEF TimedReceiveBlocks, ReceiveBlocks, Step
  <1>3. ASSUME NEW w \in Worker, TimedRecordCompletion(w) PROVE Next /\ InTime'
    BY <1>3, TimedRecordCompletionStep DEF TimedRecordCompletion, Next, WorkerStep
  <1>4. ASSUME NEW w \in Worker, TimedWorkerSync(w) PROVE Next /\ InTime'
    BY <1>4, TimedWorkerSyncStep DEF TimedWorkerSync, Next, WorkerStep
  <1>5. ASSUME NEW w \in Worker, ReceiveTimesOut(w) PROVE FALSE
    BY <1>5, ItemIsThere DEF ReceiveTimesOut, Step
  <1>6. CASE TimedSend
    BY <1>6, TimedSendStep DEF TimedSend, Next, ManagerStep
  <1>7. ~TimedSendBlocks /\ ~SendTimesOut
    <2>1. ASSUME pc[Manager] = "send", Len(queue) = QueueLength PROVE FALSE
      <3>1. Len(queue) < QueueLength
        BY <2>1, RoomIsThere
      <3> QED
        BY <2>1, <3>1, RendezvousAssumption
    <2> QED
      BY <2>1 DEF TimedSendBlocks, SendBlocks, SendTimesOut
  <1>8. CASE TimedManagerSync
    BY <1>8, TimedManagerSyncStep DEF TimedManagerSync, Next, ManagerStep
  <1>9. CASE TimedCountRound
    BY <1>9, TimedCountRoundStep DEF TimedCountRound, Next, ManagerStep
  <1>10. CASE Tick
    <2>1. CASE Expiring = {}
      <3>1. pc' = pc
        BY <1>10, <2>1, OnlyDelaysExpire, TimedPlaces
      <3> QED
        BY <1>10, <3>1, TickStep DEF Tick, vars
    <2>2. CASE Expiring # {}
      <3>1. DelayElapsed(Expiring) /\ Expiring \in SUBSET Worker
        BY <1>10, <2>2, OnlyDelaysExpire DEF DelayElapsed, Tick
      <3> QED
        BY <1>10, <3>1, TickStep DEF Next
    <2> QED
      BY <2>1, <2>2
  <1>11. CASE UNCHANGED timedVars
    <2>1. /\ UNCHANGED vars /\ pc' = pc /\ bits' = bits /\ timer' = timer /\ lag' = lag
      BY <1>11 DEF timedVars, vars
    <2>2. InTime
      BY DEF TimedInv, InTime
    <2>3. ManagerFirst'
      BY <2>1, <2>2 DEF InTime, ManagerFirst, At
    <2>4. TimersMatchPC'
      BY <2>1, <2>2 DEF InTime, TimersMatchPC, ReadyTask
    <2>5. PICK c \in 0..MaxTicks : FitsIn(c)
      BY <2>2 DEF InTime
    <2>6. FitsIn(c)'
      <3>1. StepsLeft' = StepsLeft
        BY <2>1 DEF StepsLeft, At
      <3> QED
        BY <2>1, <2>5, <3>1 DEF FitsIn
    <2> QED
      BY <2>1, <2>3, <2>4, <2>6 DEF InTime
  <1> QED
    BY <1>1, <1>2, <1>3, <1>4, <1>5, <1>6, <1>7, <1>8, <1>9, <1>10, <1>11 DEF TimedNext

\* The invariant behind the theorems that follow: the demo's rendezvous
\* invariant, the priorities' effect and the time every wait has left.
THEOREM TimedInvariance == ASSUME EnoughRoomAndTime PROVE TimedSpec => []TimedInv
  <1>1. TimedInit => TimedInv
    <2> SUFFICES ASSUME TimedInit PROVE TimedInv
      OBVIOUS
    <2>1. Init /\ timer = [t \in Task |-> NoTimer] /\ lag = 0
      BY DEF TimedInit
    <2>2. IInv
      BY <2>1, InitIInv
    <2>3. Manager \in Task /\ Worker \subseteq Task /\ Manager \notin Worker
      BY RendezvousAssumption DEF Task
    <2>4. bits = {} /\ pc[Manager] = "send" /\ \A w \in Worker : pc[w] = "receive"
      BY <2>1, <2>3 DEF Init
    <2>5. ManagerFirst
      BY <2>3, <2>4 DEF ManagerFirst, At
    <2>6. 0 \in 0..MaxLag /\ NoTimer \in Int
      BY TimedAssumption DEF NoTimer
    <2>7. TimersMatchPC
      BY <2>1, <2>3, <2>4, <2>6 DEF TimersMatchPC
    <2>8. FitsIn(MaxTicks)
      BY <2>3, <2>4 DEF FitsIn, Task
    <2>9. MaxTicks \in 0..MaxTicks
      BY MaxTicksIsLargest
    <2> QED
      BY <2>2, <2>5, <2>7, <2>8, <2>9 DEF TimedInv
  <1>2. TimedInv /\ [TimedNext]_timedVars => TimedInv'
    BY TimedStep, NextIInv DEF TimedInv, InTime
  <1> QED
    BY <1>1, <1>2, PTL DEF TimedSpec

\* No wait outlasts the longest delay plus MaxLag ticks for every step of the
\* workers in a round, so portMAX_DELAY is as good as forever.
THEOREM WaitsAreShortHolds == ASSUME EnoughRoomAndTime PROVE TimedSpec => []WaitsAreShort
  <1>1. TimedInv => WaitsAreShort
    <2> SUFFICES ASSUME TimedInv, NEW t \in Task, pc[t] \in Blocked \ {"delay"}
                 PROVE  timer[t] >= portMAX_DELAY - LongestWait
      BY DEF WaitsAreShort, LongestWait
    <2>1. pc[t] = "syncWait"
      BY TimedPlaces DEF Blocked, Task
    <2>2. portMAX_DELAY - timer[t] <= LongestWait
      BY <2>1, WaitSoFar
    <2>3. timer[t] \in Int /\ portMAX_DELAY \in Nat
      BY TimedAssumption DEF TimedInv, TimersMatchPC
    <2>4. LongestWait \in Nat
      BY MaxTicksIsLargest, LagTimes, ItemsType DEF LongestWait, StepsPerRound
    <2> QED
      BY <2>2, <2>3, <2>4
  <1> QED
    BY <1>1, TimedInvariance, PTL

\* With ticks, priorities and time-outs the demo takes only the steps Rendezvous
\* allows: no call returns by time-out.  The fairness of ImplementsRendezvous is
\* left to the model checker.
THEOREM TimedRefinement == ASSUME EnoughRoomAndTime PROVE TimedSpec => Spec
  <1>1. TimedInit => Init
    BY DEF TimedInit
  <1>2. TimedInv /\ [TimedNext]_timedVars => [Next]_vars
    BY TimedStep
  <1> QED
    BY <1>1, <1>2, TimedInvariance, PTL DEF TimedSpec, Spec

=============================================================================
