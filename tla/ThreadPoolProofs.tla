-------------------------- MODULE ThreadPoolProofs ---------------------------
(***************************************************************************)
(* Theorems about ThreadPool, for any number of tasks, clients, slots and  *)
(* workers, and whatever native calls fail.  The strengthening PoolInv     *)
(* says why the safety properties hold: which calls own which storage      *)
(* (StorageInv), which threads exist (ThreadInv), and how the ring, the    *)
(* registry and the callbacks partition the unfinished tasks (QueueInv,    *)
(* CallInv).                                                               *)
(*                                                                         *)
(* The first part is about the pool's own storage.  The second is what a   *)
(* task's owner is promised: cancellations are kept and no waiter sleeps   *)
(* on a task that is over, whatever fails; and, where mutex locks succeed, *)
(* a task in the pool has a place in the ring or a worker, the registry is *)
(* exact, a stop drains it, and no worker sleeps beside a task.  The third *)
(* is that ThreadPool, where locks succeed, implements TaskQueue: each     *)
(* critical section is one operation of the queue or none, init opens the  *)
(* queue, the first stop closes it, and joins, parking and storage are     *)
(* invisible.  The progress TaskQueue promises is left to TLC.             *)
(***************************************************************************)
EXTENDS ThreadPool, FiniteSetTheorems, SequenceTheorems, TLAPS

StorageInv ==
    /\ ~synchronization_ready =>
          state = "STOPPED" /\ active = {} /\ ready = <<>> /\ worker_count = 0 /\ lpc = "none"
    /\ lpc \in {"starting", "unwinding"} => active = {} /\ ready = <<>>
    /\ lpc = "starting" => worker_count < lwant /\ lidx = 0 /\ state # "STOPPED"
    /\ lpc = "erasing" => state = "STOPPED"
    /\ state # "RUNNING" => ready = <<>>
    /\ lpc \in {"unwinding", "stopping", "destroying"} => state # "RUNNING"
    /\ lidx <= worker_count
    /\ lpc = "unwinding" =>
          /\ "create" \in Faults
          /\ "join" \notin Faults => \A i \in Workers : i < lidx => wpc[i] = "absent"

ThreadInv ==
    /\ synchronization_ready =>
          \A i \in Workers : wpc[i] # "absent" => i < worker_count /\ ~worker_joined[i]
    /\ \A i \in Workers : worker_joined[i] => i < worker_count
    /\ StoppedPoolHasNoWorker
    /\ {"create", "join"} \subseteq Faults \/ NoWorkerOutlivesPool

QueueInv ==
    /\ \A j, k \in 1..Len(ready) : ready[j] = ready[k] => j = k
    /\ \A j \in 1..Len(ready) : ready[j] \in active
    /\ \A t \in Tasks : tstate[t] = "QUEUED" <=> \E j \in 1..Len(ready) : ready[j] = t
    /\ \A t \in active : tstate[t] \in {"QUEUED", "RUNNING"}
    /\ Cardinality(active) <= MaxTasks

CallInv ==
    \A i \in Workers : wpc[i] = "calling" =>
        /\ wtask[i] \in active
        /\ tstate[wtask[i]] = "RUNNING"
        /\ \A j \in Workers : wpc[j] = "calling" /\ wtask[i] = wtask[j] => i = j

PoolInv == TypeOK /\ StorageInv /\ ThreadInv /\ QueueInv /\ CallInv /\ YieldAlwaysHasRoom

---------------------------------------------------------------------------
(* The helpers. *)

\* A signal moves at most parked workers, and only to polling.
LEMMA SignalEffect ==
    ASSUME NEW place \in [Workers -> WorkerPlaces], NEW next \in SignalWork(place)
    PROVE  /\ next \in [Workers -> WorkerPlaces]
           /\ \A i \in Workers : next[i] = place[i]
                                 \/ (place[i] = "parked" /\ next[i] = "polling")
<1>1. CASE \E i \in Workers : place[i] = "parked"
  <2>1. PICK k \in Workers : place[k] = "parked" /\ next = [place EXCEPT ![k] = "polling"]
    BY <1>1 DEF SignalWork, SignalOne
  <2> QED
    BY <2>1 DEF WorkerPlaces
<1>2. CASE ~(\E i \in Workers : place[i] = "parked")
  BY <1>2 DEF SignalWork, SignalOne
<1> QED
  BY <1>1, <1>2

\* So does a broadcast.
LEMMA BroadcastEffect ==
    ASSUME NEW place \in [Workers -> WorkerPlaces]
    PROVE  /\ BroadcastWork(place) \in [Workers -> WorkerPlaces]
           /\ \A i \in Workers : BroadcastWork(place)[i] = place[i]
                                 \/ (place[i] = "parked" /\ BroadcastWork(place)[i] = "polling")
BY DEF BroadcastWork, WorkerPlaces

\* The compaction takes out the given task and nothing else.
LEMMA RemoveReadyEffect ==
    ASSUME ready \in Seq(Tasks), NEW t \in Tasks,
           \A j, k \in 1..Len(ready) : ready[j] = ready[k] => j = k,
           \E j \in 1..Len(ready) : ready[j] = t
    PROVE  LET new == remove_ready_locked(t) IN
           /\ new \in Seq(Tasks)
           /\ \A j, k \in 1..Len(new) : new[j] = new[k] => j = k
           /\ \A u \in Tasks : (\E j \in 1..Len(new) : new[j] = u)
                               <=> u # t /\ \E j \in 1..Len(ready) : ready[j] = u
<1> DEFINE n == Len(ready)
           p == CHOOSE i \in 1..n : ready[i] = t
           e(i) == IF i < p THEN ready[i] ELSE ready[i + 1]
           new == [i \in 1..(n - 1) |-> e(i)]
<1>1. n \in Nat /\ \A i \in 1..n : ready[i] \in Tasks
  BY LenProperties, ElementOfSeq
<1>2. p \in 1..n /\ ready[p] = t
  OBVIOUS
<1>3. remove_ready_locked(t) = new
  BY DEF remove_ready_locked
<1> HIDE DEF p
<1>4. n - 1 \in Nat /\ \A i \in 1..(n - 1) : e(i) \in Tasks
  BY <1>1, <1>2
<1>5. new \in Seq(Tasks) /\ Len(new) = n - 1
  <2> HIDE DEF e
  <2>1. new \in Seq(Tasks)
    BY <1>4, IsASeq
  <2> QED
    BY <2>1, <1>4, LenProperties
<1>6. \A i \in 1..(n - 1) : new[i] = e(i)
  BY <1>4
<1>7. ASSUME NEW j \in 1..(n - 1), NEW k \in 1..(n - 1), new[j] = new[k]
      PROVE  j = k
  BY <1>7, <1>6, <1>1, <1>2
<1>8. ASSUME NEW u \in Tasks
      PROVE  (\E j \in 1..(n - 1) : new[j] = u) <=> u # t /\ \E j \in 1..n : ready[j] = u
  <2>1. ASSUME NEW j \in 1..(n - 1), new[j] = u
        PROVE  u # t /\ \E k \in 1..n : ready[k] = u
    BY <2>1, <1>6, <1>1, <1>2
  <2>2. ASSUME u # t, NEW k \in 1..n, ready[k] = u
        PROVE  \E j \in 1..(n - 1) : new[j] = u
    <3>1. CASE k < p
      BY <3>1, <2>2, <1>6, <1>1, <1>2
    <3>2. CASE k > p
      <4>1. k - 1 \in 1..(n - 1) /\ e(k - 1) = u
        BY <3>2, <2>2, <1>1, <1>2
      <4> QED
        BY <4>1, <1>6
    <3> QED
      BY <3>1, <3>2, <2>2, <1>1, <1>2
  <2> QED
    BY <2>1, <2>2
<1> HIDE DEF new, e, n
<1> QED
  BY <1>3, <1>5, <1>7, <1>8 DEF n

\* While a task of the registry is not queued the ring has a free slot.
LEMMA RingHasRoom ==
    ASSUME TypeOK, QueueInv, NEW t \in active, tstate[t] # "QUEUED"
    PROVE  Len(ready) < MaxTasks
<1>1. IsFiniteSet(active) /\ Cardinality(active) \in Nat
  BY ThreadPoolAssumption, FS_Subset, FS_CardinalityType DEF TypeOK
<1>2. /\ IsFiniteSet(active \ {t})
      /\ Cardinality(active \ {t}) = Cardinality(active) - 1
  BY <1>1, FS_RemoveElement
<1>3. Len(ready) \in Nat /\ ready \in [1..Len(ready) -> Tasks]
  BY LenProperties DEF TypeOK
<1>4. ready \in Injection(1..Len(ready), active \ {t})
  <2>1. t \in Tasks
    BY DEF TypeOK
  <2>2. \A j \in 1..Len(ready) : ready[j] \in active \ {t}
    BY <2>1 DEF QueueInv
  <2>3. ready \in [1..Len(ready) -> active \ {t}]
    BY <2>2, <1>3
  <2> QED
    BY <2>3 DEF QueueInv, Injection, IsInjective
<1>5. Cardinality(1..Len(ready)) <= Cardinality(active \ {t})
  BY <1>2, <1>4, FS_Injection
<1>6. Cardinality(1..Len(ready)) = Len(ready)
  <2> DEFINE n == Len(ready)
  <2>1. 1 \in Int /\ n \in Nat
    BY <1>3
  <2> HIDE DEF n
  <2>2. Cardinality(1..n) = IF 1 > n THEN 0 ELSE n - 1 + 1
    BY ONLY <2>1, FS_Interval
  <2>3. Cardinality(1..n) = n
    BY ONLY <2>1, <2>2
  <2> QED
    BY ONLY <2>3 DEF n
<1> QED
  BY <1>1, <1>2, <1>3, <1>5, <1>6, ThreadPoolAssumption DEF QueueInv

---------------------------------------------------------------------------
(* The invariant is inductive. *)

LEMMA InitEstablishesPoolInv == Init => PoolInv
<1> SUFFICES ASSUME Init PROVE PoolInv
  OBVIOUS
<1> USE ThreadPoolAssumption
<1>0. 0 \in 0..MaxWorkers /\ <<>> \in Seq(Tasks)
  BY EmptySeq
<1>1. TypeOK
  BY <1>0 DEF Init, TypeOK, PoolStates, TaskStates, ErrorCodes, WorkerPlaces,
                  ClientPlaces, LifecyclePlaces
<1>2. StorageInv /\ ThreadInv
  BY DEF Init, StorageInv, ThreadInv, Workers
<1>3. QueueInv /\ CallInv /\ YieldAlwaysHasRoom
  BY EmptySeq, FS_EmptySet DEF Init, QueueInv, CallInv, YieldAlwaysHasRoom
<1> QED
  BY <1>1, <1>2, <1>3 DEF PoolInv

\* stop_locked empties the ring and leaves the running tasks in the registry.
LEMMA StopTasksKeepsQueueInv ==
    ASSUME PoolInv, StopTasks
    PROVE  /\ QueueInv'
           /\ state' \in PoolStates /\ active' \subseteq Tasks /\ ready' \in Seq(Tasks)
           /\ tstate' \in [Tasks -> TaskStates] /\ cancel_requested' \in [Tasks -> BOOLEAN]
           /\ active' = {t \in active : tstate[t] = "RUNNING"}
           /\ \A t \in active' : tstate'[t] = "RUNNING"
<1>1. /\ state' \in PoolStates /\ active' \subseteq Tasks /\ ready' \in Seq(Tasks)
      /\ tstate' \in [Tasks -> TaskStates] /\ cancel_requested' \in [Tasks -> BOOLEAN]
  BY EmptySeq DEF StopTasks, FlagRunning, PoolInv, TypeOK, TaskStates, Terminal, PoolStates
<1>2. \A t \in active' : tstate'[t] = "RUNNING"
  BY DEF StopTasks, PoolInv, TypeOK
<1>3. \A t \in Tasks : tstate'[t] # "QUEUED"
  BY DEF StopTasks, PoolInv, TypeOK, QueueInv
<1>4. Cardinality(active') <= MaxTasks
  <2>1. IsFiniteSet(active)
    BY ThreadPoolAssumption, FS_Subset DEF PoolInv, TypeOK
  <2>2. active' \in SUBSET active
    BY DEF StopTasks
  <2>3. IsFiniteSet(active') /\ Cardinality(active') <= Cardinality(active)
    BY <2>1, <2>2, FS_Subset
  <2> QED
    BY <2>1, <2>3, FS_CardinalityType, ThreadPoolAssumption DEF PoolInv, QueueInv
<1>5. ready' = <<>> /\ Len(ready') = 0
  BY EmptySeq DEF StopTasks
<1>6. QueueInv'
  BY <1>2, <1>3, <1>4, <1>5 DEF QueueInv
<1> QED
  BY <1>1, <1>2, <1>6 DEF StopTasks

LEMMA TypeStep ==
    ASSUME PoolInv, [Next]_vars
    PROVE  TypeOK'
<1> USE DEF PoolInv
<1> USE ThreadPoolAssumption
<1>0. BroadcastState => cpc' \in [Clients -> ClientPlaces] /\ ctask' \in [Clients -> Tasks \cup {NULL}]
  BY DEF BroadcastState, TypeOK, ClientPlaces
<1>1. ASSUME NEW i \in Workers, StepBegin(i) PROVE TypeOK'
  BY <1>1, HeadTailProperties
  DEF StepBegin, TypeOK, WorkerPlaces, TaskStates, poolvars, threadvars, taskvars,
      workervars, clientvars, lifevars
<1>2. ASSUME NEW i \in Workers, Park(i) \/ SpuriousWakeup(i) \/ WorkerExits(i) \/ WorkerLockFails(i)
      PROVE TypeOK'
  BY <1>2 DEF Park, SpuriousWakeup, WorkerExits, WorkerLockFails, TypeOK, WorkerPlaces,
      poolvars, threadvars, taskvars, workervars, clientvars, lifevars
<1>3. ASSUME NEW i \in Workers, WorkWaitFails(i) PROVE TypeOK'
  <2>1. [wpc EXCEPT ![i] = "absent"] \in [Workers -> WorkerPlaces]
    BY DEF TypeOK, WorkerPlaces
  <2> QED
    BY <1>3, <2>1, <1>0, BroadcastEffect, StopTasksKeepsQueueInv
    DEF WorkWaitFails, stop_locked, TypeOK, threadvars, lifevars
<1>4. ASSUME NEW i \in Workers, NEW action \in StepActions, StepReturn(i, action)
      PROVE TypeOK'
  <2> DEFINE t == wtask[i]
  <2>1. t \in active /\ t \in Tasks /\ tstate[t] = "RUNNING"
    BY <1>4 DEF StepReturn, CallInv, TypeOK
  <2>2. Len(ready) < MaxTasks
    BY <2>1, RingHasRoom
  <2>3. [wpc EXCEPT ![i] = "polling"] \in [Workers -> WorkerPlaces]
    BY DEF TypeOK, WorkerPlaces
  <2>4. ASSUME NEW how \in Terminal, NEW why \in ErrorCodes, Retire(t, i, how, why)
        PROVE  /\ tstate' \in [Tasks -> TaskStates] /\ error_code' \in [Tasks -> ErrorCodes]
               /\ active' \subseteq Tasks /\ ready' \in Seq(Tasks)
               /\ wpc' \in [Workers -> WorkerPlaces]
    BY <2>3, <2>4 DEF Retire, remove_active_locked, TypeOK, TaskStates
  <2>5. ASSUME Requeue(t, i)
        PROVE  /\ tstate' \in [Tasks -> TaskStates] /\ error_code' \in [Tasks -> ErrorCodes]
               /\ active' \subseteq Tasks /\ ready' \in Seq(Tasks)
               /\ wpc' \in [Workers -> WorkerPlaces]
    <3>1. Len(ready) \in Nat /\ ~(Len(ready) >= MaxTasks)
      BY <2>2, LenProperties DEF TypeOK
    <3>2. wpc' \in SignalWork([wpc EXCEPT ![i] = "polling"]) /\ ready' = Append(ready, t)
      BY <2>5, <3>1 DEF Requeue
    <3>3. wpc' \in [Workers -> WorkerPlaces]
      BY <2>3, <3>2, SignalEffect
    <3>4. ready' \in Seq(Tasks)
      BY <2>1, <3>2, AppendProperties DEF TypeOK
    <3> QED
      BY <2>5, <3>1, <3>3, <3>4 DEF Requeue, TypeOK, TaskStates
  <2>6. /\ tstate' \in [Tasks -> TaskStates] /\ error_code' \in [Tasks -> ErrorCodes]
        /\ active' \subseteq Tasks /\ ready' \in Seq(Tasks)
        /\ wpc' \in [Workers -> WorkerPlaces]
    <3>1. error_code[t] \in ErrorCodes
      BY <2>1 DEF TypeOK
    <3> HIDE DEF t
    <3>2. \/ Retire(t, i, "CANCELLED", error_code[t])
          \/ Requeue(t, i)
          \/ Retire(t, i, "COMPLETED", "OK")
          \/ Retire(t, i, "FAILED", "CALLBACK")
          \/ Retire(t, i, "FAILED", "INVALID_STEP_RESULT")
      BY <1>4 DEF StepReturn, t, StepActions
    <3> QED
      BY <2>4, <2>5, <3>1, <3>2 DEF Terminal, ErrorCodes
  <2>7. wtask' \in [Workers -> Tasks \cup {NULL}]
    BY <1>4 DEF StepReturn, TypeOK
  <2> QED
    BY <1>4, <1>0, <2>6, <2>7 DEF StepReturn, TypeOK, threadvars, lifevars
<1>5. ASSUME NEW t \in Tasks, TaskInit(t) \/ CancelRunning(t) PROVE TypeOK'
  <2>1. CASE TaskInit(t)
    BY <2>1 DEF TaskInit, TypeOK, TaskStates, ErrorCodes,
       poolvars, threadvars, workervars, clientvars, lifevars
  <2>2. CASE CancelRunning(t)
    BY <2>2 DEF CancelRunning, TypeOK, poolvars, threadvars, workervars, clientvars, lifevars
  <2> QED
    BY <1>5, <2>1, <2>2
<1>6. ASSUME NEW t \in Tasks, Submit(t) PROVE TypeOK'
  <2>1. wpc' \in [Workers -> WorkerPlaces]
    BY <1>6, SignalEffect DEF Submit, TypeOK
  <2>2. ready' \in Seq(Tasks)
    BY <1>6, AppendProperties DEF Submit, TypeOK
  <2> QED
    BY <1>6, <2>1, <2>2 DEF Submit, TypeOK, TaskStates, ErrorCodes, threadvars,
       clientvars, lifevars
<1>7. ASSUME NEW t \in Tasks, CancelQueued(t) PROVE TypeOK'
  <2>1. ready' \in Seq(Tasks)
    <3>1. CASE tstate[t] = "QUEUED"
      BY <3>1, <1>7, RemoveReadyEffect DEF CancelQueued, TypeOK, QueueInv
    <3>2. CASE tstate[t] # "QUEUED"
      BY <3>2, <1>7 DEF CancelQueued, TypeOK
    <3> QED
      BY <3>1, <3>2
  <2> QED
    BY <1>7, <1>0, <2>1 DEF CancelQueued, remove_active_locked, TypeOK, TaskStates, Terminal, threadvars,
       workervars, lifevars
<1>8. ASSUME NEW c \in Clients, ClientStep(c) \/ WaitWakesSpuriously(c) PROVE TypeOK'
  BY <1>8 DEF ClientStep, WaitReturns, WaitAgain, WaitWakesSpuriously, TypeOK, ClientPlaces,
      poolvars, threadvars, taskvars, workervars, lifevars
<1>9. ASSUME NEW c \in Clients, NEW t \in Tasks, WaitBegin(c, t) PROVE TypeOK'
  BY <1>9 DEF WaitBegin, TypeOK, ClientPlaces,
      poolvars, threadvars, taskvars, workervars, lifevars
<1>10. ASSUME CreateWorker PROVE TypeOK'
  <2>1. worker_count + 1 \in 0..MaxWorkers
    BY <1>10 DEF CreateWorker, StartsTheLast, TypeOK, StorageInv
  <2>3. wpc' \in [Workers -> WorkerPlaces]
    BY <1>10 DEF CreateWorker, StartsTheLast, TypeOK, WorkerPlaces
  <2>2. lpc' \in LifecyclePlaces /\ lidx' \in 0..MaxWorkers /\ lwant' \in 0..MaxWorkers
    BY <1>10 DEF CreateWorker, StartsTheLast, LifecycleIdle, TypeOK, LifecyclePlaces, lifevars
  <2> QED
    BY <1>10, <2>1, <2>2, <2>3 DEF CreateWorker, StartsTheLast, TypeOK, poolvars, taskvars, clientvars
<1>11. ASSUME CreateWorkerFails PROVE TypeOK'
  BY <1>11, <1>0, BroadcastEffect DEF CreateWorkerFails, TypeOK, PoolStates, LifecyclePlaces,
     threadvars, taskvars
<1>12. ASSUME UnwindJoins \/ ShutdownJoins \/ ShutdownFails PROVE TypeOK'
  <2>1. lpc' \in LifecyclePlaces /\ lidx' \in 0..MaxWorkers /\ lwant' \in 0..MaxWorkers
    BY <1>12 DEF UnwindJoins, ShutdownJoins, ShutdownFails, LifecycleIdle, TypeOK,
       LifecyclePlaces, StorageInv
  <2>2. worker_joined' \in [Workers -> BOOLEAN]
    BY <1>12 DEF UnwindJoins, ShutdownJoins, ShutdownFails, TypeOK, threadvars
  <2> QED
    BY <1>12, <2>1, <2>2 DEF UnwindJoins, ShutdownJoins, ShutdownFails, TypeOK,
       poolvars, threadvars, taskvars, workervars, clientvars
<1>13. ASSUME UnwindEnds \/ DestroyEnds PROVE TypeOK'
  <2>1. ready' \in Seq(Tasks) /\ worker_joined' \in [Workers -> BOOLEAN]
    BY <1>13, EmptySeq DEF UnwindEnds, DestroyEnds, Erase, NoneJoined
  <2>2. lpc' \in LifecyclePlaces /\ lidx' \in 0..MaxWorkers /\ lwant' \in 0..MaxWorkers
    BY <1>13 DEF UnwindEnds, DestroyEnds, LifecycleIdle, LifecyclePlaces
  <2>3. worker_count' \in 0..MaxWorkers
    BY <1>13 DEF UnwindEnds, DestroyEnds, Erase
  <2>4. state' \in PoolStates /\ active' \subseteq Tasks
    BY <1>13 DEF UnwindEnds, DestroyEnds, Erase, PoolStates
  <2>5. synchronization_ready' \in BOOLEAN
    BY <1>13 DEF UnwindEnds, DestroyEnds, Erase
  <2> QED
    BY <1>13, <2>1, <2>2, <2>3, <2>4, <2>5 DEF UnwindEnds, DestroyEnds, TypeOK,
       taskvars, workervars, clientvars
<1>14. ASSUME ShutdownEnds PROVE TypeOK'
  BY <1>14, <1>0 DEF ShutdownEnds, LifecycleIdle, TypeOK, PoolStates, LifecyclePlaces,
     threadvars, taskvars, workervars
<1>15. ASSUME NEW n \in 1..MaxWorkers, InitBegin(n) PROVE TypeOK'
  BY <1>15 DEF InitBegin, TypeOK, PoolStates, LifecyclePlaces, threadvars, taskvars,
     workervars, clientvars
<1>16. ASSUME NEW place \in {"stopping", "destroying"}, ShutdownBegin(place) PROVE TypeOK'
  <2>1. CASE state = "RUNNING"
    BY <1>16, <2>1, <1>0, BroadcastEffect, StopTasksKeepsQueueInv
    DEF ShutdownBegin, stop_locked, TypeOK, LifecyclePlaces, threadvars
  <2>2. CASE state # "RUNNING"
    BY <1>16, <2>2 DEF ShutdownBegin, TypeOK, LifecyclePlaces, threadvars, clientvars
  <2> QED
    BY <2>1, <2>2
<1>17. CASE UNCHANGED vars
  BY <1>17 DEF vars, TypeOK, poolvars, threadvars, taskvars, workervars, clientvars, lifevars
<1> QED
  BY <1>1, <1>2, <1>3, <1>4, <1>5, <1>6, <1>7, <1>8, <1>9, <1>10, <1>11, <1>12, <1>13,
     <1>14, <1>15, <1>16, <1>17
  DEF Next, WorkerStep, LifecycleStep, LifecycleCall

\* Only a creation makes an absent worker present, and only a finished join
\* marks it joined, so the storage is erased when no worker is left.
LEMMA StorageStep ==
    ASSUME PoolInv, [Next]_vars
    PROVE  StorageInv' /\ ThreadInv'
<1> USE DEF PoolInv, StoppedPoolHasNoWorker, NoWorkerOutlivesPool
<1> USE ThreadPoolAssumption
<1>1. ASSUME NEW i \in Workers, StepBegin(i) PROVE StorageInv' /\ ThreadInv'
  <2>1. active # {} /\ lpc \notin {"starting", "unwinding"}
    BY <1>1, LenProperties, EmptySeq DEF StepBegin, StorageInv, TypeOK, QueueInv
  <2>2. synchronization_ready /\ state = "RUNNING" /\ lpc # "erasing"
    BY <1>1 DEF StepBegin, StorageInv
  <2> QED
    BY <1>1, <2>1, <2>2 DEF StepBegin, StorageInv, ThreadInv, TypeOK, threadvars, lifevars
<1>2. ASSUME NEW i \in Workers, Park(i) \/ SpuriousWakeup(i) \/ WorkerExits(i) \/ WorkerLockFails(i)
      PROVE StorageInv' /\ ThreadInv'
  <2>1. \A k \in Workers : wpc'[k] # "absent" => wpc[k] # "absent"
    BY <1>2 DEF Park, SpuriousWakeup, WorkerExits, WorkerLockFails, TypeOK
  <2>2. UNCHANGED <<poolvars, threadvars, lifevars>>
    BY <1>2 DEF Park, SpuriousWakeup, WorkerExits, WorkerLockFails
  <2> QED
    BY <2>1, <2>2 DEF StorageInv, ThreadInv, poolvars, threadvars, lifevars
<1>3. ASSUME NEW i \in Workers, WorkWaitFails(i) PROVE StorageInv' /\ ThreadInv'
  <2>1. [wpc EXCEPT ![i] = "absent"] \in [Workers -> WorkerPlaces]
    BY DEF TypeOK, WorkerPlaces
  <2> DEFINE place == [wpc EXCEPT ![i] = "absent"]
  <2>a. \A k \in Workers : place[k] # "absent" => wpc[k] # "absent"
    BY DEF TypeOK
  <2>b. wpc' = BroadcastWork(place)
    BY <1>3 DEF WorkWaitFails, stop_locked
  <2> HIDE DEF place
  <2>2. \A k \in Workers : wpc'[k] # "absent" => wpc[k] # "absent"
    BY <2>1, <2>a, <2>b, BroadcastEffect DEF place
  <2>3. active' \subseteq active /\ ready' = <<>> /\ state' = "STOPPING"
    BY <1>3 DEF WorkWaitFails, stop_locked, StopTasks
  <2> QED
    BY <1>3, <2>2, <2>3 DEF WorkWaitFails, StorageInv, ThreadInv, threadvars, lifevars
<1>4. ASSUME NEW i \in Workers, NEW action \in StepActions, StepReturn(i, action)
      PROVE StorageInv' /\ ThreadInv'
  <2> DEFINE t == wtask[i]
  <2>1. t \in active /\ lpc \notin {"starting", "unwinding"}
    BY <1>4 DEF StepReturn, CallInv, StorageInv
  <2>2. synchronization_ready /\ state # "STOPPED" /\ lpc # "erasing"
    BY <1>4, <2>1 DEF StepReturn, StorageInv, ThreadInv, StoppedPoolHasNoWorker
  <2>3. [wpc EXCEPT ![i] = "polling"] \in [Workers -> WorkerPlaces]
    BY DEF TypeOK, WorkerPlaces
  <2>4. \/ wpc' = [wpc EXCEPT ![i] = "polling"]
        \/ wpc' \in SignalWork([wpc EXCEPT ![i] = "polling"])
    BY <1>4 DEF StepReturn, Retire, Requeue
  <2> DEFINE place == [wpc EXCEPT ![i] = "polling"]
  <2>a. \A k \in Workers : place[k] # "absent" => wpc[k] # "absent"
    BY <1>4 DEF StepReturn, TypeOK
  <2> HIDE DEF place
  <2>b. \A k \in Workers : wpc'[k] # "absent" => place[k] # "absent"
    BY <2>3, <2>4, SignalEffect DEF place
  <2>5. \A k \in Workers : wpc'[k] # "absent" => wpc[k] # "absent"
    BY <2>a, <2>b
  <2>6. state # "RUNNING" => ready' = <<>>
    <3>1. SUFFICES ASSUME state # "RUNNING" PROVE ready' = <<>>
      OBVIOUS
    <3>2. MustCancel(t) /\ ready = <<>>
      BY <2>2, <3>1 DEF MustCancel, TypeOK, PoolStates, StorageInv
    <3> QED
      BY <1>4, <3>2 DEF StepReturn, Retire
  <2> QED
    BY <1>4, <2>1, <2>2, <2>5, <2>6 DEF StepReturn, StorageInv, ThreadInv, threadvars, lifevars
<1>5. ASSUME NEW t \in Tasks, TaskInit(t) \/ CancelRunning(t) PROVE StorageInv' /\ ThreadInv'
  BY <1>5 DEF TaskInit, CancelRunning, StorageInv, ThreadInv, poolvars, threadvars,
     workervars, lifevars
<1>6. ASSUME NEW t \in Tasks, Submit(t) PROVE StorageInv' /\ ThreadInv'
  <2>1. \A k \in Workers : wpc'[k] # "absent" => wpc[k] # "absent"
    BY <1>6, SignalEffect DEF Submit, TypeOK
  <2> QED
    BY <1>6, <2>1 DEF Submit, Usable, StorageInv, ThreadInv, threadvars, lifevars
<1>7. ASSUME NEW t \in Tasks, CancelQueued(t) PROVE StorageInv' /\ ThreadInv'
  <2>1. state # "RUNNING" => ready' = <<>>
    BY <1>7 DEF CancelQueued, remove_ready_locked, StorageInv, QueueInv
  <2> QED
    BY <1>7, <2>1 DEF CancelQueued, Usable, StorageInv, ThreadInv, threadvars, workervars, lifevars
<1>8. ASSUME NEW c \in Clients, NEW t \in Tasks, WaitBegin(c, t)
      PROVE StorageInv' /\ ThreadInv'
  BY <1>8 DEF WaitBegin, StorageInv, ThreadInv, poolvars, threadvars, workervars, lifevars
<1>9. ASSUME NEW c \in Clients, ClientStep(c) \/ WaitWakesSpuriously(c)
      PROVE StorageInv' /\ ThreadInv'
  BY <1>9 DEF ClientStep, WaitReturns, WaitAgain, WaitWakesSpuriously, StorageInv,
     ThreadInv, poolvars, threadvars, workervars, lifevars
<1>10. ASSUME CreateWorker PROVE StorageInv' /\ ThreadInv'
  <2>1. worker_count \in Workers /\ worker_count \in Nat /\ worker_count < lwant
        /\ lwant \in 0..MaxWorkers
    <3>1. worker_count < lwant /\ lwant \in 0..MaxWorkers /\ worker_count \in Nat
      BY <1>10 DEF CreateWorker, StartsTheLast, StorageInv, TypeOK
    <3> QED
      BY <3>1 DEF Workers
  <2>2. synchronization_ready /\ state # "STOPPED"
    BY <1>10 DEF CreateWorker, StartsTheLast, StorageInv
  <2> QED
    BY <1>10, <2>1, <2>2 DEF CreateWorker, StartsTheLast, LifecycleIdle, StorageInv, ThreadInv, TypeOK, Workers,
       poolvars, lifevars
<1>11. ASSUME CreateWorkerFails PROVE StorageInv' /\ ThreadInv'
  <2>1. \A k \in Workers : wpc'[k] # "absent" => wpc[k] # "absent"
    BY <1>11, BroadcastEffect DEF CreateWorkerFails, TypeOK
  <2> QED
    <3>1. lidx = 0 /\ lidx <= worker_count /\ lidx' = lidx /\ worker_count' = worker_count
      BY <1>11 DEF CreateWorkerFails, StorageInv, threadvars
    <3>2. ThreadInv'
      BY <1>11, <2>1 DEF CreateWorkerFails, ThreadInv, threadvars
    <3>3. \A i \in Workers : ~(i < lidx')
      BY <3>1 DEF Workers
    <3> QED
      BY <1>11, <3>1, <3>2, <3>3 DEF CreateWorkerFails, StorageInv
<1>12. ASSUME UnwindJoins PROVE StorageInv' /\ ThreadInv'
  BY <1>12 DEF UnwindJoins, HasReturned, StorageInv, ThreadInv, TypeOK, Workers,
     poolvars, threadvars, workervars
<1>13. ASSUME ShutdownJoins PROVE StorageInv' /\ ThreadInv'
  <2>1. StorageInv'
    BY <1>13 DEF ShutdownJoins, StorageInv, TypeOK, poolvars, workervars
  <2>2. ASSUME NEW k \in Workers
        PROVE  worker_joined'[k] => worker_joined[k] \/ (k < worker_count /\ wpc[k] = "absent")
    BY <1>13, <2>2 DEF ShutdownJoins, HasReturned, TypeOK, Workers
  <2>3. ThreadInv'
    BY <1>13, <2>2 DEF ShutdownJoins, ThreadInv, poolvars, workervars
  <2> QED
    BY <2>1, <2>3
<1>14. ASSUME ShutdownFails PROVE StorageInv' /\ ThreadInv'
  BY <1>14 DEF ShutdownFails, LifecycleIdle, StorageInv, ThreadInv, TypeOK,
     poolvars, threadvars, workervars
<1>15. ASSUME UnwindEnds PROVE StorageInv' /\ ThreadInv'
  <2>1. {"create", "join"} \subseteq Faults \/ \A k \in Workers : wpc[k] = "absent"
    BY <1>15 DEF UnwindEnds, StorageInv, ThreadInv
  <2> QED
    BY <1>15, <2>1 DEF UnwindEnds, Erase, NoneJoined, LifecycleIdle, StorageInv, ThreadInv, workervars
<1>16. ASSUME DestroyEnds PROVE StorageInv' /\ ThreadInv'
  <2>1. \A k \in Workers : wpc[k] = "absent"
    BY <1>16 DEF DestroyEnds, StorageInv, ThreadInv
  <2> QED
    BY <1>16, <2>1 DEF DestroyEnds, Erase, NoneJoined, LifecycleIdle, StorageInv, ThreadInv, workervars
<1>17. ASSUME ShutdownEnds PROVE StorageInv' /\ ThreadInv'
  <2>1. \A k \in Workers : wpc[k] = "absent"
    BY <1>17 DEF ShutdownEnds, AllJoined, StorageInv, ThreadInv
  <2> QED
    BY <1>17, <2>1 DEF ShutdownEnds, LifecycleIdle, StorageInv, ThreadInv, TypeOK,
       threadvars, workervars
<1>18. ASSUME NEW n \in 1..MaxWorkers, InitBegin(n) PROVE StorageInv' /\ ThreadInv'
  BY <1>18 DEF InitBegin, StorageInv, ThreadInv, TypeOK, threadvars, workervars
<1>19. ASSUME NEW place \in {"stopping", "destroying"}, ShutdownBegin(place)
       PROVE StorageInv' /\ ThreadInv'
  <2>1. CASE state = "RUNNING"
    <3>1. \A k \in Workers : wpc'[k] # "absent" => wpc[k] # "absent"
      BY <1>19, <2>1, BroadcastEffect DEF ShutdownBegin, stop_locked, TypeOK
    <3>2. state' = "STOPPING" /\ ready' = <<>>
      BY <1>19, <2>1 DEF ShutdownBegin, stop_locked, StopTasks
    <3> QED
      BY <1>19, <3>1, <3>2 DEF ShutdownBegin, StorageInv, ThreadInv, TypeOK, threadvars
  <2>2. CASE state # "RUNNING"
    BY <1>19, <2>2 DEF ShutdownBegin, StorageInv, ThreadInv, TypeOK, threadvars
  <2> QED
    BY <2>1, <2>2
<1>20. CASE UNCHANGED vars
  BY <1>20 DEF vars, StorageInv, ThreadInv, poolvars, threadvars, workervars, lifevars
<1> QED
  BY <1>1, <1>2, <1>3, <1>4, <1>5, <1>6, <1>7, <1>8, <1>9, <1>10, <1>11, <1>12, <1>13,
     <1>14, <1>15, <1>16, <1>17, <1>18, <1>19, <1>20
  DEF Next, WorkerStep, LifecycleStep, LifecycleCall

\* A step that leaves the tasks, the ring and the callbacks alone.
LEMMA QueueFrame ==
    ASSUME PoolInv, UNCHANGED <<active, ready, tstate, error_code>>,
           \A i \in Workers : wpc'[i] = "calling" => wpc[i] = "calling" /\ wtask'[i] = wtask[i]
    PROVE  QueueInv' /\ CallInv' /\ YieldAlwaysHasRoom'
<1>1. QueueInv' /\ YieldAlwaysHasRoom'
  BY DEF PoolInv, QueueInv, YieldAlwaysHasRoom
<1>2. CallInv'
  BY DEF PoolInv, CallInv
<1> QED
  BY <1>1, <1>2

\* A step that runs stop_locked and starts no callback.
LEMMA StopFrame ==
    ASSUME PoolInv, StopTasks, UNCHANGED <<error_code, wtask>>,
           \A i \in Workers : wpc'[i] = "calling" => wpc[i] = "calling"
    PROVE  QueueInv' /\ CallInv' /\ YieldAlwaysHasRoom'
<1>1. QueueInv'
  BY StopTasksKeepsQueueInv
<1>2. CallInv'
  BY StopTasksKeepsQueueInv DEF PoolInv, CallInv
<1> QED
  BY <1>1, <1>2 DEF PoolInv, YieldAlwaysHasRoom

\* The ring, the registry and the callbacks go on partitioning the unfinished
\* tasks, so a task that yields always finds a free slot.
LEMMA QueueStep ==
    ASSUME PoolInv, [Next]_vars
    PROVE  QueueInv' /\ CallInv' /\ YieldAlwaysHasRoom'
<1> DEFINE Goal == QueueInv' /\ CallInv' /\ YieldAlwaysHasRoom'
<1> USE DEF PoolInv
<1> USE ThreadPoolAssumption
<1>1. ASSUME NEW i \in Workers, StepBegin(i) PROVE Goal
  <2> DEFINE t == Head(ready)
             n == Len(ready)
  <2>1. /\ n \in Nat /\ n > 0 /\ t = ready[1] /\ t \in active /\ t \in Tasks
        /\ tstate[t] = "QUEUED"
    <3>1. n \in Nat /\ n > 0 /\ t = ready[1]
      BY <1>1, LenProperties, EmptySeq DEF StepBegin, TypeOK
    <3> QED
      BY <3>1 DEF QueueInv, TypeOK
  <2>2. Len(ready') = n - 1 /\ \A j \in 1..(n - 1) : ready'[j] = ready[j + 1]
    BY <1>1, HeadTailProperties DEF StepBegin, TypeOK
  <2>3. tstate' = [tstate EXCEPT ![t] = "RUNNING"] /\ active' = active /\ error_code' = error_code
    BY <1>1 DEF StepBegin
  <2> HIDE DEF t
  <2>4. \A j, k \in 1..(n - 1) : ready'[j] = ready'[k] => j = k
    BY <2>1, <2>2 DEF QueueInv
  <2>5. \A j \in 1..(n - 1) : ready'[j] \in active /\ ready'[j] # t
    BY <2>1, <2>2 DEF QueueInv
  <2>6. ASSUME NEW u \in Tasks
        PROVE  tstate'[u] = "QUEUED" <=> \E j \in 1..(n - 1) : ready'[j] = u
    <3>1. CASE u = t
      BY <3>1, <2>1, <2>3, <2>5 DEF TypeOK
    <3>2. CASE u # t
      <4>1. tstate'[u] = tstate[u]
        BY <3>2, <2>3 DEF TypeOK
      <4>2. (\E j \in 1..n : ready[j] = u) <=> \E j \in 1..(n - 1) : ready'[j] = u
        <5>1. ASSUME NEW j \in 1..n, ready[j] = u PROVE \E k \in 1..(n - 1) : ready'[k] = u
          <6>1. j - 1 \in 1..(n - 1) /\ ready'[j - 1] = u
            BY <5>1, <3>2, <2>1, <2>2
          <6> QED
            BY <6>1
        <5>2. ASSUME NEW k \in 1..(n - 1), ready'[k] = u PROVE \E j \in 1..n : ready[j] = u
          BY <5>2, <2>1, <2>2
        <5> QED
          BY <5>1, <5>2
      <4> QED
        BY <4>1, <4>2 DEF QueueInv
    <3> QED
      BY <3>1, <3>2
  <2>7. \A u \in active' : tstate'[u] \in {"QUEUED", "RUNNING"}
    BY <2>1, <2>3 DEF TypeOK, QueueInv
  <2>8. QueueInv'
    BY <2>2, <2>3, <2>4, <2>5, <2>6, <2>7 DEF QueueInv
  <2>9. \A k \in Workers : wpc[k] = "calling" => wtask[k] # t
    BY <2>1 DEF CallInv
  <2>10. wpc' = [wpc EXCEPT ![i] = "calling"] /\ wtask' = [wtask EXCEPT ![i] = t]
    BY <1>1 DEF StepBegin, t
  <2>11. CallInv'
    BY <2>1, <2>3, <2>9, <2>10 DEF CallInv, TypeOK
  <2> QED
    BY <2>3, <2>8, <2>11 DEF YieldAlwaysHasRoom
<1>2. ASSUME NEW i \in Workers, Park(i) \/ SpuriousWakeup(i) \/ WorkerExits(i) \/ WorkerLockFails(i)
      PROVE Goal
  <2>1. UNCHANGED <<active, ready, tstate, error_code>>
    BY <1>2 DEF Park, SpuriousWakeup, WorkerExits, WorkerLockFails, poolvars, taskvars
  <2>2. \A k \in Workers : wpc'[k] = "calling" => wpc[k] = "calling" /\ wtask'[k] = wtask[k]
    BY <1>2 DEF Park, SpuriousWakeup, WorkerExits, WorkerLockFails, TypeOK
  <2> QED
    BY <2>1, <2>2, QueueFrame
<1>3. ASSUME NEW i \in Workers, WorkWaitFails(i) PROVE Goal
  <2> DEFINE place == [wpc EXCEPT ![i] = "absent"]
  <2>1. place \in [Workers -> WorkerPlaces] /\ \A k \in Workers : place[k] = "calling" => wpc[k] = "calling"
    BY DEF TypeOK, WorkerPlaces
  <2>2. wpc' = BroadcastWork(place)
    BY <1>3 DEF WorkWaitFails, stop_locked
  <2> HIDE DEF place
  <2>3. \A k \in Workers : wpc'[k] = "calling" => wpc[k] = "calling"
    BY <2>1, <2>2, BroadcastEffect
  <2> QED
    BY <1>3, <2>3, StopFrame DEF WorkWaitFails, stop_locked
<1>4. ASSUME NEW i \in Workers, NEW action \in StepActions, StepReturn(i, action) PROVE Goal
  <2> DEFINE t == wtask[i]
             place == [wpc EXCEPT ![i] = "polling"]
  <2>1. t \in active /\ t \in Tasks /\ tstate[t] = "RUNNING" /\ wpc[i] = "calling"
    BY <1>4 DEF StepReturn, CallInv, TypeOK
  <2>2. Len(ready) < MaxTasks /\ Len(ready) \in Nat
    BY <2>1, RingHasRoom, LenProperties DEF TypeOK
  <2>3. \A j \in 1..Len(ready) : ready[j] # t
    BY <2>1 DEF QueueInv
  <2>4. \A k \in Workers : wpc[k] = "calling" /\ k # i => wtask[k] # t
    BY <2>1 DEF CallInv
  <2>5. place \in [Workers -> WorkerPlaces]
        /\ \A k \in Workers : place[k] = "calling" => wpc[k] = "calling" /\ k # i
    BY DEF TypeOK, WorkerPlaces
  <2>6. wtask' = [wtask EXCEPT ![i] = NULL]
    BY <1>4 DEF StepReturn
  <2>7. ASSUME NEW how \in Terminal, NEW why \in ErrorCodes, why # "FULL", Retire(t, i, how, why)
        PROVE  Goal
    <3>1. /\ tstate' = [tstate EXCEPT ![t] = how] /\ active' = active \ {t} /\ ready' = ready
          /\ error_code' = [error_code EXCEPT ![t] = why] /\ wpc' = place
      BY <2>7 DEF Retire, remove_active_locked
    <3>2. Cardinality(active') <= MaxTasks
      <4>1. IsFiniteSet(active) /\ Cardinality(active) \in Nat
        BY FS_Subset, FS_CardinalityType DEF TypeOK
      <4>2. Cardinality(active \ {t}) = Cardinality(active) - 1
        BY <4>1, <2>1, FS_RemoveElement
      <4> QED
        BY <4>1, <4>2, <3>1 DEF QueueInv
    <3> HIDE DEF t, place
    <3>3. how # "QUEUED"
      BY DEF Terminal
    <3>4. QueueInv'
      BY <2>1, <2>3, <3>1, <3>2, <3>3 DEF QueueInv, TypeOK
    <3>5. CallInv'
      BY <2>1, <2>4, <2>5, <2>6, <3>1 DEF CallInv, TypeOK
    <3>6. YieldAlwaysHasRoom'
      BY <2>1, <2>7, <3>1 DEF YieldAlwaysHasRoom, TypeOK
    <3> QED
      BY <3>4, <3>5, <3>6
  <2>8. ASSUME Requeue(t, i) PROVE Goal
    <3> DEFINE n == Len(ready)
    <3>1. /\ tstate' = [tstate EXCEPT ![t] = "QUEUED"] /\ active' = active
          /\ ready' = Append(ready, t) /\ error_code' = error_code /\ wpc' \in SignalWork(place)
      BY <2>2, <2>8 DEF Requeue
    <3> HIDE DEF t, place
    <3>2. /\ Len(ready') = n + 1 /\ ready'[n + 1] = t
          /\ \A j \in 1..n : ready'[j] = ready[j]
      BY <2>1, <3>1, AppendProperties DEF TypeOK
    <3>3. \A j \in 1..(n + 1) : j \in 1..n \/ j = n + 1
      BY <2>2
    <3>4. QueueInv'
      <4>1. \A j, k \in 1..(n + 1) : ready'[j] = ready'[k] => j = k
        BY <2>3, <3>2, <3>3 DEF QueueInv
      <4>2. \A j \in 1..(n + 1) : ready'[j] \in active'
        BY <2>1, <3>1, <3>2, <3>3 DEF QueueInv
      <4>3. ASSUME NEW u \in Tasks
            PROVE  tstate'[u] = "QUEUED" <=> \E j \in 1..(n + 1) : ready'[j] = u
        <5>1. (\E j \in 1..(n + 1) : ready'[j] = u) <=> u = t \/ \E j \in 1..n : ready[j] = u
          BY <2>2, <3>2, <3>3
        <5>2. tstate'[u] = "QUEUED" <=> u = t \/ tstate[u] = "QUEUED"
          BY <2>1, <3>1 DEF TypeOK
        <5> QED
          BY <5>1, <5>2 DEF QueueInv
      <4>4. \A u \in active' : tstate'[u] \in {"QUEUED", "RUNNING"}
        BY <2>1, <3>1 DEF QueueInv, TypeOK
      <4>5. Cardinality(active') <= MaxTasks
        BY <3>1 DEF QueueInv
      <4> QED
        BY <3>2, <4>1, <4>2, <4>3, <4>4, <4>5 DEF QueueInv
    <3>5. \A k \in Workers : wpc'[k] = "calling" => wpc[k] = "calling" /\ k # i
      BY <2>5, <3>1, SignalEffect
    <3>6. CallInv'
      BY <2>1, <2>4, <2>6, <3>1, <3>5 DEF CallInv, TypeOK
    <3> QED
      BY <3>1, <3>4, <3>6 DEF YieldAlwaysHasRoom
  <2> HIDE DEF Goal
  <2>9. error_code[t] \in ErrorCodes /\ error_code[t] # "FULL"
    BY <2>1 DEF TypeOK, YieldAlwaysHasRoom
  <2> HIDE DEF t
  <2>10. \/ Retire(t, i, "CANCELLED", error_code[t])
         \/ Requeue(t, i)
         \/ Retire(t, i, "COMPLETED", "OK")
         \/ Retire(t, i, "FAILED", "CALLBACK")
         \/ Retire(t, i, "FAILED", "INVALID_STEP_RESULT")
    BY <1>4 DEF StepReturn, t, StepActions
  <2> QED
    BY <2>7, <2>8, <2>9, <2>10 DEF Terminal, ErrorCodes
<1>5. ASSUME NEW t \in Tasks, TaskInit(t) PROVE Goal
  <2>1. /\ tstate' = [tstate EXCEPT ![t] = "IDLE"] /\ error_code' = [error_code EXCEPT ![t] = "OK"]
        /\ UNCHANGED <<active, ready, wpc, wtask>> /\ t \notin active
    BY <1>5 DEF TaskInit, poolvars, workervars
  <2>a. \A u \in Tasks : u # t => tstate'[u] = tstate[u]
    BY <2>1 DEF TypeOK
  <2>b. tstate'[t] = "IDLE" /\ \A j \in 1..Len(ready) : ready[j] # t
    BY <2>1 DEF QueueInv, TypeOK
  <2>c. \A u \in Tasks : tstate'[u] = "QUEUED" <=> \E j \in 1..Len(ready) : ready[j] = u
    BY <2>a, <2>b DEF QueueInv
  <2>2. QueueInv'
    BY <2>1, <2>a, <2>c DEF QueueInv, TypeOK
  <2>3. CallInv'
    BY <2>1, <2>a DEF CallInv, TypeOK
  <2> QED
    BY <2>1, <2>2, <2>3 DEF YieldAlwaysHasRoom, TypeOK
<1>6. ASSUME NEW t \in Tasks, Submit(t) PROVE Goal
  <2> DEFINE n == Len(ready)
  <2>1. /\ tstate' = [tstate EXCEPT ![t] = "QUEUED"] /\ active' = active \cup {t}
        /\ ready' = Append(ready, t) /\ error_code' = [error_code EXCEPT ![t] = "OK"]
        /\ wpc' \in SignalWork(wpc) /\ wtask' = wtask /\ tstate[t] = "IDLE"
        /\ Cardinality(active) < MaxTasks
    BY <1>6 DEF Submit, HasRoom
  <2>2. /\ n \in Nat /\ Len(ready') = n + 1 /\ ready'[n + 1] = t
        /\ \A j \in 1..n : ready'[j] = ready[j]
    BY <2>1, AppendProperties, LenProperties DEF TypeOK
  <2>3. \A j \in 1..(n + 1) : j \in 1..n \/ j = n + 1
    BY <2>2
  <2>4. t \notin active /\ \A j \in 1..n : ready[j] # t
    BY <2>1 DEF QueueInv
  <2>5. Cardinality(active') <= MaxTasks
    <3>1. IsFiniteSet(active) /\ Cardinality(active) \in Nat
      BY FS_Subset, FS_CardinalityType DEF TypeOK
    <3>2. Cardinality(active \cup {t}) = Cardinality(active) + 1
      BY <3>1, <2>4, FS_AddElement
    <3> QED
      BY <3>1, <3>2, <2>1
  <2>6. QueueInv'
    <3>1. \A j, k \in 1..(n + 1) : ready'[j] = ready'[k] => j = k
      BY <2>2, <2>3, <2>4 DEF QueueInv
    <3>2. \A j \in 1..(n + 1) : ready'[j] \in active'
      BY <2>1, <2>2, <2>3 DEF QueueInv
    <3>3. ASSUME NEW u \in Tasks
          PROVE  tstate'[u] = "QUEUED" <=> \E j \in 1..(n + 1) : ready'[j] = u
      <4>1. (\E j \in 1..(n + 1) : ready'[j] = u) <=> u = t \/ \E j \in 1..n : ready[j] = u
        BY <2>2, <2>3
      <4>2. tstate'[u] = "QUEUED" <=> u = t \/ tstate[u] = "QUEUED"
        BY <2>1 DEF TypeOK
      <4> QED
        BY <4>1, <4>2 DEF QueueInv
    <3>4. \A u \in active' : tstate'[u] \in {"QUEUED", "RUNNING"}
      BY <2>1 DEF QueueInv, TypeOK
    <3> QED
      BY <2>2, <2>5, <3>1, <3>2, <3>3, <3>4 DEF QueueInv
  <2>7. \A k \in Workers : wpc'[k] = "calling" => wpc[k] = "calling"
    BY <2>1, SignalEffect DEF TypeOK
  <2>8. CallInv'
    BY <2>1, <2>4, <2>7 DEF CallInv, TypeOK
  <2> QED
    BY <2>1, <2>6, <2>8 DEF YieldAlwaysHasRoom, TypeOK
<1>7. ASSUME NEW t \in Tasks, CancelQueued(t) PROVE Goal
  <2>1. t \in active /\ tstate[t] = "QUEUED"
    BY <1>7 DEF CancelQueued, find_active_locked, QueueInv
  <2>2. /\ tstate' = [tstate EXCEPT ![t] = "CANCELLED"] /\ active' = active \ {t}
        /\ ready' = remove_ready_locked(t) /\ UNCHANGED <<error_code, wpc, wtask>>
    BY <1>7, <2>1 DEF CancelQueued, remove_active_locked, workervars
  <2>3. /\ \A j, k \in 1..Len(ready') : ready'[j] = ready'[k] => j = k
        /\ ready' \in Seq(Tasks)
        /\ \A u \in Tasks : (\E j \in 1..Len(ready') : ready'[j] = u)
                            <=> u # t /\ \E j \in 1..Len(ready) : ready[j] = u
    <3>1. \A j, k \in 1..Len(ready) : ready[j] = ready[k] => j = k
      BY DEF QueueInv
    <3>2. \E j \in 1..Len(ready) : ready[j] = t
      BY <2>1 DEF QueueInv
    <3> DEFINE new == remove_ready_locked(t)
    <3>3. ready \in Seq(Tasks)
      BY DEF TypeOK
    <3>4. /\ new \in Seq(Tasks)
          /\ \A j, k \in 1..Len(new) : new[j] = new[k] => j = k
          /\ \A u \in Tasks : (\E j \in 1..Len(new) : new[j] = u)
                              <=> u # t /\ \E j \in 1..Len(ready) : ready[j] = u
      BY ONLY <3>1, <3>2, <3>3, RemoveReadyEffect
    <3>5. ready' = new
      BY <2>2
    <3> HIDE DEF new
    <3> QED
      BY ONLY <3>4, <3>5
  <2>4. Cardinality(active') <= MaxTasks
    <3>1. IsFiniteSet(active) /\ Cardinality(active) \in Nat
      BY FS_Subset, FS_CardinalityType DEF TypeOK
    <3>2. Cardinality(active \ {t}) = Cardinality(active) - 1
      BY <3>1, <2>1, FS_RemoveElement
    <3> QED
      BY <3>1, <3>2, <2>2 DEF QueueInv
  <2>5. \A j \in 1..Len(ready') : ready'[j] \in active'
    <3>1. \A j \in 1..Len(ready') : ready'[j] \in Tasks
      BY <2>3, ElementOfSeq
    <3> QED
      BY <3>1, <2>2, <2>3 DEF QueueInv
  <2>a. \A u \in Tasks : tstate'[u] = IF u = t THEN "CANCELLED" ELSE tstate[u]
    BY <2>2 DEF TypeOK
  <2>b. \A u \in Tasks : tstate'[u] = "QUEUED" <=> \E j \in 1..Len(ready') : ready'[j] = u
    BY <2>3, <2>a DEF QueueInv
  <2>c. \A u \in active' : tstate'[u] \in {"QUEUED", "RUNNING"}
    BY <2>2, <2>a DEF QueueInv, TypeOK
  <2>6. QueueInv'
    BY <2>3, <2>4, <2>5, <2>b, <2>c DEF QueueInv
  <2>7. CallInv'
    BY <2>1, <2>2 DEF CallInv, TypeOK
  <2> QED
    BY <2>2, <2>6, <2>7 DEF YieldAlwaysHasRoom
<1>8. ASSUME UnwindEnds \/ DestroyEnds PROVE Goal
  <2>1. \A k \in Workers : wpc'[k] # "calling"
    <3>1. CASE UnwindEnds
      BY <3>1 DEF UnwindEnds, StorageInv, CallInv, workervars
    <3>2. CASE DestroyEnds
      BY <3>2 DEF DestroyEnds, StorageInv, ThreadInv, StoppedPoolHasNoWorker, workervars
    <3> QED
      BY <1>8, <3>1, <3>2
  <2>2. active' = {} /\ ready' = <<>> /\ tstate' = tstate /\ error_code' = error_code
    BY <1>8 DEF UnwindEnds, DestroyEnds, Erase, taskvars
  <2>3. \A t \in Tasks : tstate[t] # "QUEUED"
    <3>1. lpc = "unwinding" => ready = <<>>
      BY DEF StorageInv
    <3>2. ready = <<>>
      BY <1>8, <3>1 DEF DestroyEnds, UnwindEnds, StorageInv
    <3> QED
      BY <3>2, EmptySeq DEF QueueInv
  <2>4. QueueInv'
    BY <2>2, <2>3, FS_EmptySet, EmptySeq DEF QueueInv
  <2> QED
    BY <2>1, <2>2, <2>4 DEF CallInv, YieldAlwaysHasRoom
<1>9. ASSUME NEW place \in {"stopping", "destroying"}, ShutdownBegin(place) PROVE Goal
  <2>1. CASE state = "RUNNING"
    <3>1. \A k \in Workers : wpc'[k] = "calling" => wpc[k] = "calling"
      BY <1>9, <2>1, BroadcastEffect DEF ShutdownBegin, stop_locked, TypeOK
    <3> QED
      BY <1>9, <2>1, <3>1, StopFrame DEF ShutdownBegin, stop_locked
  <2>2. CASE state # "RUNNING"
    BY <1>9, <2>2, QueueFrame DEF ShutdownBegin
  <2> QED
    BY <2>1, <2>2
<1>10. ASSUME CreateWorker PROVE Goal
  BY <1>10, QueueFrame DEF CreateWorker, StartsTheLast, poolvars, taskvars, TypeOK
<1>11. ASSUME CreateWorkerFails PROVE Goal
  <2>1. \A k \in Workers : wpc'[k] = "calling" => wpc[k] = "calling"
    BY <1>11, BroadcastEffect DEF CreateWorkerFails, TypeOK
  <2> QED
    BY <1>11, <2>1, QueueFrame DEF CreateWorkerFails, taskvars
<1>12. ASSUME \/ UnwindJoins \/ ShutdownJoins \/ ShutdownFails \/ ShutdownEnds
              \/ (\E n \in 1..MaxWorkers : InitBegin(n))
              \/ (\E t \in Tasks : CancelRunning(t))
              \/ (\E c \in Clients : ClientStep(c) \/ WaitWakesSpuriously(c))
              \/ (\E c \in Clients, t \in Tasks : WaitBegin(c, t))
              \/ UNCHANGED vars
       PROVE Goal
  <2>1. UNCHANGED <<active, ready, tstate, error_code, wpc, wtask>>
    BY <1>12 DEF UnwindJoins, ShutdownJoins, ShutdownFails, ShutdownEnds, InitBegin,
       CancelRunning, ClientStep, WaitReturns, WaitAgain, WaitWakesSpuriously, WaitBegin,
       vars, poolvars, taskvars, workervars
  <2> QED
    BY <2>1, QueueFrame
<1> HIDE DEF Goal
<1>13. Goal
  BY <1>1, <1>2, <1>3, <1>4, <1>5, <1>6, <1>7, <1>8, <1>9, <1>10, <1>11, <1>12
  DEF Next, WorkerStep, LifecycleStep, LifecycleCall
<1> QED
  BY <1>13 DEF Goal

---------------------------------------------------------------------------
(* The theorems. *)

\* Every behaviour of the pool keeps the invariant, whatever the callers do in
\* whatever order and whichever native calls fail.
THEOREM PoolInvariance == Spec => []PoolInv
<1>1. Init => PoolInv
  BY InitEstablishesPoolInv
<1>2. PoolInv /\ [Next]_vars => PoolInv'
  <2> SUFFICES ASSUME PoolInv, [Next]_vars PROVE PoolInv'
    OBVIOUS
  <2>1. TypeOK'
    BY TypeStep
  <2>2. StorageInv' /\ ThreadInv'
    BY StorageStep
  <2>3. QueueInv' /\ CallInv' /\ YieldAlwaysHasRoom'
    BY QueueStep
  <2> QED
    BY <2>1, <2>2, <2>3 DEF PoolInv
<1> QED
  BY <1>1, <1>2, PTL DEF Spec

\* The variables keep their types.
THEOREM TypeCorrectness == Spec => []TypeOK
<1>1. PoolInv => TypeOK
  BY DEF PoolInv
<1> QED
  BY <1>1, PoolInvariance, PTL

\* The ring holds each queued task exactly once (enqueue_locked,
\* dequeue_locked, remove_ready_locked, stop_locked).
THEOREM RingIsExact == Spec => []ReadyIsExact
<1>1. PoolInv => ReadyIsExact
  BY DEF PoolInv, QueueInv, ReadyIsExact
<1> QED
  BY <1>1, PoolInvariance, PTL

\* No two workers ever run the callback of one task.
THEOREM CallbacksAreExclusive == Spec => []OneWorkerPerTask
<1>1. PoolInv => OneWorkerPerTask
  BY DEF PoolInv, CallInv, OneWorkerPerTask
<1> QED
  BY <1>1, PoolInvariance, PTL

\* The THREAD_POOL_FULL branch of a yielding worker is dead code: a task that
\* was accepted is never failed for lack of room.
THEOREM YieldNeverFails == Spec => []YieldAlwaysHasRoom
<1>1. PoolInv => YieldAlwaysHasRoom
  BY DEF PoolInv
<1> QED
  BY <1>1, PoolInvariance, PTL

\* When shutdown has returned OK every worker thread has ended, whichever
\* native calls fail, so destroy erases the storage of no running thread.
THEOREM ShutdownEndsWorkers == Spec => []StoppedPoolHasNoWorker
<1>1. PoolInv => StoppedPoolHasNoWorker
  BY DEF PoolInv, ThreadInv
<1> QED
  BY <1>1, PoolInvariance, PTL

\* Nor does a failed init, unless the creation of one worker and the join of
\* another both fail: there the code ignores the second failure.
THEOREM WorkersEndFirst ==
    ASSUME ~({"create", "join"} \subseteq Faults)
    PROVE  Spec => []NoWorkerOutlivesPool
<1>1. PoolInv => NoWorkerOutlivesPool
  BY DEF PoolInv, ThreadInv
<1> QED
  BY <1>1, PoolInvariance, PTL

\* A task that is over keeps its verdict until its owner resets it.
THEOREM VerdictsAreFinal == Spec => VerdictIsFinal
<1>1. ASSUME PoolInv, [Next]_vars, NEW t \in Tasks, is_terminal(t), tstate'[t] # "IDLE"
      PROVE  tstate'[t] = tstate[t] /\ error_code'[t] = error_code[t]
  <2> DEFINE Kept == tstate'[t] = tstate[t] /\ error_code'[t] = error_code[t]
  <2> USE DEF PoolInv
  <2>0. /\ tstate[t] \in Terminal /\ tstate[t] \notin {"IDLE", "QUEUED", "RUNNING"}
        /\ t \notin active
        /\ \A j \in 1..Len(ready) : ready[j] # t
    BY <1>1 DEF is_terminal, Terminal, QueueInv
  <2>1. ASSUME NEW i \in Workers, StepBegin(i) PROVE Kept
    <3>1. Head(ready) # t
      <4>1. Len(ready) \in Nat /\ Len(ready) > 0 /\ Head(ready) = ready[1]
        BY <1>1, <2>1, LenProperties, EmptySeq DEF StepBegin, TypeOK
      <4> QED
        BY <4>1, <2>0
    <3> QED
      BY <1>1, <2>1, <3>1 DEF StepBegin, TypeOK
  <2>2. ASSUME NEW i \in Workers, NEW action \in StepActions, StepReturn(i, action) PROVE Kept
    <3>1. wtask[i] # t
      BY <1>1, <2>2, <2>0 DEF StepReturn, CallInv
    <3> QED
      BY <1>1, <2>2, <3>1 DEF StepReturn, Retire, Requeue, RequeueFails, TypeOK
  <2>3. ASSUME StopTasks, error_code' = error_code PROVE Kept
    BY <1>1, <2>3, <2>0 DEF StopTasks, TypeOK
  <2>4. ASSUME NEW i \in Workers, WorkWaitFails(i) PROVE Kept
    BY <2>3, <2>4 DEF WorkWaitFails, stop_locked
  <2>5. ASSUME NEW place \in {"stopping", "destroying"}, ShutdownBegin(place) PROVE Kept
    BY <2>3, <2>5 DEF ShutdownBegin, stop_locked
  <2>6. ASSUME NEW u \in Tasks, TaskInit(u) PROVE Kept
    BY <1>1, <2>6 DEF TaskInit, TypeOK
  <2>7. ASSUME NEW u \in Tasks, Submit(u) \/ CancelQueued(u) PROVE Kept
    <3>1. u # t
      BY <2>7, <2>0 DEF Submit, CancelQueued, find_active_locked
    <3> QED
      BY <1>1, <2>7, <3>1 DEF Submit, CancelQueued, TypeOK
  <2>8. ASSUME UNCHANGED <<tstate, error_code>> PROVE Kept
    BY <2>8
  <2>9. ASSUME \/ \E i \in Workers : Park(i) \/ SpuriousWakeup(i) \/ WorkerExits(i) \/ WorkerLockFails(i)
               \/ \E u \in Tasks : CancelRunning(u)
               \/ \E c \in Clients : ClientStep(c) \/ WaitWakesSpuriously(c)
               \/ \E c \in Clients, u \in Tasks : WaitBegin(c, u)
               \/ LifecycleStep
               \/ \E n \in 1..MaxWorkers : InitBegin(n)
               \/ UNCHANGED vars
        PROVE Kept
    BY <2>8, <2>9 DEF Park, SpuriousWakeup, WorkerExits, WorkerLockFails, CancelRunning,
       ClientStep, WaitReturns, WaitAgain, WaitWakesSpuriously, WaitBegin, LifecycleStep,
       CreateWorker, CreateWorkerFails, UnwindJoins, UnwindEnds, ShutdownJoins,
       ShutdownFails, ShutdownEnds, DestroyEnds, InitBegin, vars, taskvars
  <2> HIDE DEF Kept
  <2>10. Kept
    BY <1>1, <2>1, <2>2, <2>4, <2>5, <2>6, <2>7, <2>9 DEF Next, WorkerStep, LifecycleCall
  <2> QED
    BY <2>10 DEF Kept
<1>2. PoolInv /\ [Next]_vars =>
      [\A t \in Tasks : is_terminal(t) /\ tstate'[t] # "IDLE" =>
          tstate'[t] = tstate[t] /\ error_code'[t] = error_code[t]]_vars
  BY <1>1
<1> QED
  BY <1>2, PoolInvariance, PTL DEF Spec, VerdictIsFinal

---------------------------------------------------------------------------
(* What the owner of a task is promised. *)

\* A client inside wait has a task.
WaitInv == \A c \in Clients : cpc[c] # "outside" => ctask[c] \in Tasks

OwnerInv == CancelRequestIsKept /\ WaitInv /\ NoLostCompletion

\* A broadcast leaves no client parked.
LEMMA BroadcastWakesClients ==
    ASSUME TypeOK, BroadcastState
    PROVE  /\ \A c \in Clients : cpc'[c] # "parked"
           /\ \A c \in Clients : cpc'[c] # "outside" => cpc[c] # "outside"
           /\ ctask' = ctask
BY DEF BroadcastState, TypeOK, ClientPlaces

\* A step that broadcasts, and may finish any task.
LEMMA WaitersFollowBroadcast ==
    ASSUME TypeOK, WaitInv, BroadcastState
    PROVE  WaitInv' /\ NoLostCompletion'
BY BroadcastWakesClients DEF WaitInv, NoLostCompletion

\* A step that leaves the clients alone, and finishes no task.
LEMMA WaitersFollowNothing ==
    ASSUME TypeOK, WaitInv, NoLostCompletion, UNCHANGED clientvars,
           \A t \in Tasks : tstate'[t] \in Terminal => tstate[t] \in Terminal
    PROVE  WaitInv' /\ NoLostCompletion'
<1>1. WaitInv'
  BY DEF WaitInv, clientvars
<1>2. ASSUME NEW c \in Clients, cpc'[c] = "parked" PROVE ~is_terminal(ctask[c])'
  <2>1. cpc[c] = "parked" /\ ctask'[c] = ctask[c] /\ ctask[c] \in Tasks
    BY <1>2 DEF clientvars, WaitInv
  <2> QED
    BY <2>1 DEF NoLostCompletion, is_terminal
<1> QED
  BY <1>1, <1>2 DEF NoLostCompletion, is_terminal

LEMMA InitEstablishesOwnerInv == Init => OwnerInv
BY DEF Init, OwnerInv, CancelRequestIsKept, WaitInv, NoLostCompletion

LEMMA StopKeepsRequests ==
    ASSUME PoolInv, CancelRequestIsKept, StopTasks
    PROVE  CancelRequestIsKept'
BY DEF StopTasks, FlagRunning, PoolInv, QueueInv, TypeOK, CancelRequestIsKept

\* Each write of a state or a flag respects the flag, and each that finishes a
\* task is followed by a broadcast.
LEMMA OwnerStep ==
    ASSUME PoolInv, OwnerInv, [Next]_vars
    PROVE  OwnerInv'
<1> USE DEF PoolInv, OwnerInv
<1> USE ThreadPoolAssumption
<1>1. ASSUME NEW i \in Workers, StepBegin(i) PROVE OwnerInv'
  <2>1. Head(ready) \in Tasks /\ tstate[Head(ready)] = "QUEUED"
    <3>1. Len(ready) \in Nat /\ Len(ready) > 0 /\ Head(ready) = ready[1]
      BY <1>1, LenProperties, EmptySeq DEF StepBegin, TypeOK
    <3> QED
      BY <3>1 DEF QueueInv, TypeOK
  <2>2. tstate' = [tstate EXCEPT ![Head(ready)] = "RUNNING"] /\ cancel_requested' = cancel_requested
        /\ UNCHANGED clientvars
    BY <1>1 DEF StepBegin
  <2>3. CancelRequestIsKept'
    BY <2>1, <2>2 DEF CancelRequestIsKept, TypeOK
  <2>4. \A t \in Tasks : tstate'[t] \in Terminal => tstate[t] \in Terminal
    BY <2>1, <2>2 DEF Terminal, TypeOK
  <2> QED
    BY <2>2, <2>3, <2>4, WaitersFollowNothing
<1>2. ASSUME NEW i \in Workers, WorkWaitFails(i) PROVE OwnerInv'
  BY <1>2, StopKeepsRequests, WaitersFollowBroadcast DEF WorkWaitFails, stop_locked
<1>3. ASSUME NEW i \in Workers, NEW action \in StepActions, StepReturn(i, action)
      PROVE OwnerInv'
  <2> DEFINE t == wtask[i]
  <2>1. t \in Tasks /\ tstate[t] = "RUNNING" /\ cancel_requested' = cancel_requested
    BY <1>3 DEF StepReturn, CallInv, TypeOK
  <2>2. \E how \in TaskStates : tstate' = [tstate EXCEPT ![t] = how]
                                /\ (cancel_requested[t] => how = "CANCELLED")
    BY <1>3 DEF StepReturn, MustCancel, Retire, Requeue, RequeueFails, StepActions,
       TaskStates, Terminal
  <2>3. CancelRequestIsKept'
    BY <2>1, <2>2 DEF CancelRequestIsKept, TypeOK
  <2> QED
    BY <1>3, <2>3, WaitersFollowBroadcast DEF StepReturn
<1>4. ASSUME NEW t \in Tasks, TaskInit(t) PROVE OwnerInv'
  <2>1. /\ tstate' = [tstate EXCEPT ![t] = "IDLE"]
        /\ cancel_requested' = [cancel_requested EXCEPT ![t] = FALSE] /\ UNCHANGED clientvars
    BY <1>4 DEF TaskInit
  <2>2. CancelRequestIsKept'
    BY <2>1 DEF CancelRequestIsKept, TypeOK
  <2>3. \A u \in Tasks : tstate'[u] \in Terminal => tstate[u] \in Terminal
    BY <2>1 DEF Terminal, TypeOK
  <2> QED
    BY <2>1, <2>2, <2>3, WaitersFollowNothing
<1>5. ASSUME NEW t \in Tasks, Submit(t) PROVE OwnerInv'
  <2>1. /\ tstate' = [tstate EXCEPT ![t] = "QUEUED"]
        /\ cancel_requested' = [cancel_requested EXCEPT ![t] = FALSE] /\ UNCHANGED clientvars
    BY <1>5 DEF Submit
  <2>2. CancelRequestIsKept'
    BY <2>1 DEF CancelRequestIsKept, TypeOK
  <2>3. \A u \in Tasks : tstate'[u] \in Terminal => tstate[u] \in Terminal
    BY <2>1 DEF Terminal, TypeOK
  <2> QED
    BY <2>1, <2>2, <2>3, WaitersFollowNothing
<1>6. ASSUME NEW t \in Tasks, CancelRunning(t) PROVE OwnerInv'
  <2>1. /\ tstate' = tstate /\ tstate[t] = "RUNNING" /\ UNCHANGED clientvars
        /\ cancel_requested' = [cancel_requested EXCEPT ![t] = TRUE]
    BY <1>6 DEF CancelRunning
  <2>2. CancelRequestIsKept'
    BY <2>1 DEF CancelRequestIsKept, TypeOK
  <2> QED
    BY <2>1, <2>2, WaitersFollowNothing
<1>7. ASSUME NEW t \in Tasks, CancelQueued(t) PROVE OwnerInv'
  <2>1. CancelRequestIsKept'
    BY <1>7 DEF CancelQueued, CancelRequestIsKept, TypeOK
  <2> QED
    BY <1>7, <2>1, WaitersFollowBroadcast DEF CancelQueued
<1>8. ASSUME UNCHANGED <<tstate, cancel_requested>>, UNCHANGED clientvars \/ BroadcastState
      PROVE  OwnerInv'
  BY <1>8, WaitersFollowNothing, WaitersFollowBroadcast DEF CancelRequestIsKept
<1>9. ASSUME NEW c \in Clients,
             ClientStep(c) \/ WaitWakesSpuriously(c) \/ \E t \in Tasks : WaitBegin(c, t)
      PROVE  OwnerInv'
  <2>1. UNCHANGED <<tstate, cancel_requested>>
    BY <1>9 DEF ClientStep, WaitReturns, WaitAgain, WaitWakesSpuriously, WaitBegin, taskvars
  <2>2. ASSUME NEW d \in Clients, d # c PROVE cpc'[d] = cpc[d] /\ ctask'[d] = ctask[d]
    BY <1>9, <2>2 DEF ClientStep, WaitReturns, WaitAgain, WaitWakesSpuriously, WaitBegin, TypeOK
  <2>3. /\ cpc'[c] # "outside" => ctask'[c] \in Tasks
        /\ cpc'[c] = "parked" => tstate[ctask'[c]] \notin Terminal
    BY <1>9 DEF ClientStep, WaitReturns, WaitAgain, WaitWakesSpuriously, WaitBegin,
       is_terminal, WaitInv, TypeOK
  <2> QED
    BY <2>1, <2>2, <2>3 DEF WaitInv, NoLostCompletion, is_terminal, CancelRequestIsKept
<1>10. ASSUME NEW place \in {"stopping", "destroying"}, ShutdownBegin(place) PROVE OwnerInv'
  <2>1. CASE state = "RUNNING"
    BY <1>10, <2>1, StopKeepsRequests, WaitersFollowBroadcast DEF ShutdownBegin, stop_locked
  <2>2. CASE state # "RUNNING"
    BY <1>10, <2>2, <1>8 DEF ShutdownBegin
  <2> QED
    BY <2>1, <2>2
<1>11. ASSUME \/ \E i \in Workers : Park(i) \/ SpuriousWakeup(i) \/ WorkerExits(i) \/ WorkerLockFails(i)
              \/ LifecycleStep
              \/ \E n \in 1..MaxWorkers : InitBegin(n)
              \/ UNCHANGED vars
       PROVE OwnerInv'
  <2>1. UNCHANGED <<tstate, cancel_requested>> /\ (UNCHANGED clientvars \/ BroadcastState)
    BY <1>11 DEF Park, SpuriousWakeup, WorkerExits, WorkerLockFails, LifecycleStep,
       CreateWorker, CreateWorkerFails, UnwindJoins, UnwindEnds, ShutdownJoins,
       ShutdownFails, ShutdownEnds, DestroyEnds, InitBegin, vars, taskvars
  <2> QED
    BY <2>1, <1>8
<1> QED
  BY <1>1, <1>2, <1>3, <1>4, <1>5, <1>6, <1>7, <1>9, <1>10, <1>11
  DEF Next, WorkerStep, LifecycleCall

THEOREM OwnerInvariance == Spec => []OwnerInv
<1>1. PoolInv /\ OwnerInv /\ [Next]_vars => OwnerInv'
  BY OwnerStep
<1> QED
  BY <1>1, InitEstablishesOwnerInv, PoolInvariance, PTL DEF Spec

\* A cancellation that found its task running is never forgotten, whatever the
\* callback returns and whichever native calls fail.
THEOREM CancellationsAreKept == Spec => []CancelRequestIsKept
<1>1. OwnerInv => CancelRequestIsKept
  BY DEF OwnerInv
<1> QED
  BY <1>1, OwnerInvariance, PTL

\* Whatever ends a task wakes the clients that wait for it.
THEOREM CompletionsWakeWaiters == Spec => []NoLostCompletion
<1>1. OwnerInv => NoLostCompletion
  BY DEF OwnerInv
<1> QED
  BY <1>1, OwnerInvariance, PTL

---------------------------------------------------------------------------
(* Pools whose mutex locks succeed. *)

OwnedInv == \A t \in active : owner[t]

DrainInv == RunningTaskHasWorker /\ OwnedInv /\ StoppingDrains

LEMMA InitEstablishesDrainInv == Init => DrainInv
BY DEF Init, DrainInv, RunningTaskHasWorker, OwnedInv, StoppingDrains

\* The registry holds what the ring and the callbacks hold between them.
LEMMA DrainInvGivesRegistry ==
    ASSUME PoolInv, DrainInv
    PROVE  RegistryIsExact
<1> USE DEF PoolInv, DrainInv
<1>1. ASSUME NEW t \in Tasks, tstate[t] = "QUEUED" PROVE t \in active
  BY <1>1 DEF QueueInv
<1>2. ASSUME NEW t \in Tasks, tstate[t] = "RUNNING" PROVE t \in active
  BY <1>2 DEF RunningTaskHasWorker, CallInv
<1>3. \A t \in active : t \in Tasks /\ tstate[t] \in {"QUEUED", "RUNNING"}
  BY DEF QueueInv, TypeOK
<1> QED
  BY <1>1, <1>2, <1>3 DEF RegistryIsExact, OwnedInv

\* When no worker is in a callback and nothing is queued, the pool is empty.
LEMMA IdlePoolIsEmpty ==
    ASSUME PoolInv, DrainInv, ready = <<>>, \A i \in Workers : wpc[i] # "calling"
    PROVE  active = {}
<1>1. ASSUME NEW t \in active PROVE FALSE
  <2>1. t \in Tasks /\ tstate[t] \in {"QUEUED", "RUNNING"}
    BY DEF PoolInv, QueueInv, TypeOK
  <2>2. tstate[t] # "QUEUED"
    BY <2>1, EmptySeq DEF PoolInv, QueueInv
  <2>3. tstate[t] # "RUNNING"
    BY <2>1 DEF DrainInv, RunningTaskHasWorker
  <2> QED
    BY <2>1, <2>2, <2>3
<1> QED
  BY <1>1

\* A stop keeps the running tasks, flagged, and their workers.
LEMMA StopKeepsDrainInv ==
    ASSUME PoolInv, DrainInv, NEW place \in [Workers -> WorkerPlaces],
           \A i \in Workers : wpc[i] = "calling" => place[i] = "calling",
           stop_locked(place), owner' = owner, wtask' = wtask
    PROVE  DrainInv'
<1> USE DEF PoolInv, DrainInv
<1>1. \A i \in Workers : wpc[i] = "calling" => wpc'[i] = "calling"
  BY BroadcastEffect DEF stop_locked
<1>2. \A t \in Tasks : tstate'[t] = "RUNNING" => tstate[t] = "RUNNING"
  BY DEF stop_locked, StopTasks, TypeOK
<1>3. RunningTaskHasWorker'
  BY <1>1, <1>2 DEF RunningTaskHasWorker
<1>4. OwnedInv'
  BY DEF stop_locked, StopTasks, OwnedInv
<1>5. \A i \in Workers : wpc'[i] # "parked"
  BY DEF stop_locked, BroadcastWork, WorkerPlaces
<1>6. StoppingDrains'
  BY <1>5 DEF stop_locked, StopTasks, FlagRunning, StoppingDrains, TypeOK
<1> QED
  BY <1>3, <1>4, <1>6

\* A step that leaves the tasks, the registry and the callbacks alone.
LEMMA DrainFrame ==
    ASSUME DrainInv, UNCHANGED <<state, active, ready, tstate, owner, cancel_requested, wtask>>,
           \A i \in Workers : wpc[i] = "calling" => wpc'[i] = "calling",
           state # "RUNNING" => \A i \in Workers : wpc'[i] = "parked" => wpc[i] = "parked"
    PROVE  DrainInv'
BY DEF DrainInv, RunningTaskHasWorker, OwnedInv, StoppingDrains

LEMMA DrainStep ==
    ASSUME "lock" \notin Faults, PoolInv, DrainInv, [Next]_vars
    PROVE  DrainInv'
<1> USE DEF PoolInv
<1> USE ThreadPoolAssumption
<1> DEFINE Goal == DrainInv'
<1>1. ASSUME NEW i \in Workers, StepBegin(i) PROVE Goal
  <2>1. /\ tstate' = [tstate EXCEPT ![Head(ready)] = "RUNNING"]
        /\ wpc' = [wpc EXCEPT ![i] = "calling"] /\ wtask' = [wtask EXCEPT ![i] = Head(ready)]
        /\ wpc[i] = "polling" /\ state = "RUNNING"
        /\ UNCHANGED <<state, active, owner, cancel_requested>>
    BY <1>1 DEF StepBegin
  <2>2. RunningTaskHasWorker'
    BY <2>1 DEF DrainInv, RunningTaskHasWorker, TypeOK
  <2> QED
    BY <2>1, <2>2 DEF DrainInv, OwnedInv, StoppingDrains
<1>2. ASSUME NEW i \in Workers, Park(i) \/ SpuriousWakeup(i) \/ WorkerExits(i) PROVE Goal
  <2>1. /\ \A k \in Workers : wpc[k] = "calling" => wpc'[k] = "calling"
        /\ state # "RUNNING" => \A k \in Workers : wpc'[k] = "parked" => wpc[k] = "parked"
    BY <1>2 DEF Park, SpuriousWakeup, WorkerExits, TypeOK
  <2> QED
    BY <1>2, <2>1, DrainFrame DEF Park, SpuriousWakeup, WorkerExits, poolvars, taskvars
<1>3. ASSUME NEW i \in Workers, WorkWaitFails(i) PROVE Goal
  <2>1. /\ [wpc EXCEPT ![i] = "absent"] \in [Workers -> WorkerPlaces]
        /\ \A k \in Workers : wpc[k] = "calling" => [wpc EXCEPT ![i] = "absent"][k] = "calling"
    BY <1>3 DEF WorkWaitFails, TypeOK, WorkerPlaces
  <2> QED
    BY <1>3, <2>1, StopKeepsDrainInv DEF WorkWaitFails
<1>4. ASSUME NEW i \in Workers, NEW action \in StepActions, StepReturn(i, action) PROVE Goal
  <2> DEFINE t == wtask[i]
             place == [wpc EXCEPT ![i] = "polling"]
  <2>1. /\ t \in Tasks /\ t \in active /\ wpc[i] = "calling" /\ wtask' = [wtask EXCEPT ![i] = NULL]
        /\ UNCHANGED <<state, owner, cancel_requested>>
    BY <1>4 DEF StepReturn, CallInv, TypeOK
  <2>2. /\ place \in [Workers -> WorkerPlaces]
        /\ \A k \in Workers : wpc[k] = "calling" /\ k # i => place[k] = "calling"
    BY DEF TypeOK, WorkerPlaces
  <2>3. /\ wpc' = place \/ wpc' \in SignalWork(place)
        /\ \E how \in TaskStates \ {"RUNNING"} : tstate' = [tstate EXCEPT ![t] = how]
        /\ active' \subseteq active
    BY <1>4 DEF StepReturn, Retire, Requeue, RequeueFails, StepActions, TaskStates, Terminal,
       remove_active_locked
  <2>4. \A k \in Workers : wpc[k] = "calling" /\ k # i => wpc'[k] = "calling"
    BY <2>2, <2>3, SignalEffect
  <2>7. \A k \in Workers : wpc'[k] = "parked" => wpc[k] = "parked"
    <3>1. \A k \in Workers : place[k] = "parked" => wpc[k] = "parked"
      BY DEF TypeOK
    <3>2. \A k \in Workers : wpc'[k] = "parked" => place[k] = "parked"
      BY <2>2, <2>3, SignalEffect
    <3> QED
      BY <3>1, <3>2
  <2>5. RunningTaskHasWorker'
    BY <2>1, <2>3, <2>4 DEF DrainInv, RunningTaskHasWorker, TypeOK
  <2>6. state' # "RUNNING" => ready' = <<>>
    <3>1. CASE state = "RUNNING"
      BY <3>1, <2>1
    <3>2. CASE state # "RUNNING"
      <4>1. cancel_requested[t] /\ ready = <<>>
        BY <3>2, <2>1 DEF DrainInv, StoppingDrains
      <4>2. ready' = ready
        BY <4>1, <1>4 DEF StepReturn, MustCancel, Retire
      <4> QED
        BY <4>1, <4>2
    <3> QED
      BY <3>1, <3>2
  <2> QED
    BY <2>1, <2>3, <2>5, <2>6, <2>7 DEF DrainInv, OwnedInv, StoppingDrains
<1>5. ASSUME NEW t \in Tasks, TaskInit(t) PROVE Goal
  <2>1. /\ tstate' = [tstate EXCEPT ![t] = "IDLE"] /\ owner' = [owner EXCEPT ![t] = FALSE]
        /\ cancel_requested' = [cancel_requested EXCEPT ![t] = FALSE]
        /\ UNCHANGED <<state, active, ready, wpc, wtask>> /\ t \notin active
    BY <1>5 DEF TaskInit, poolvars, workervars
  <2>2. RunningTaskHasWorker'
    BY <2>1 DEF DrainInv, RunningTaskHasWorker, TypeOK
  <2>3. OwnedInv' /\ StoppingDrains'
    BY <2>1 DEF DrainInv, OwnedInv, StoppingDrains, TypeOK
  <2> QED
    BY <2>2, <2>3 DEF DrainInv
<1>6. ASSUME NEW t \in Tasks, Submit(t) PROVE Goal
  <2>1. /\ tstate' = [tstate EXCEPT ![t] = "QUEUED"] /\ owner' = [owner EXCEPT ![t] = TRUE]
        /\ active' = active \cup {t} /\ state' = state /\ state = "RUNNING"
        /\ wpc' \in SignalWork(wpc) /\ wtask' = wtask
    BY <1>6 DEF Submit
  <2>2. \A k \in Workers : wpc[k] = "calling" => wpc'[k] = "calling"
    BY <2>1, SignalEffect DEF TypeOK
  <2>3. RunningTaskHasWorker'
    BY <2>1, <2>2 DEF DrainInv, RunningTaskHasWorker, TypeOK
  <2>4. OwnedInv' /\ StoppingDrains'
    BY <2>1 DEF DrainInv, OwnedInv, StoppingDrains, TypeOK
  <2> QED
    BY <2>3, <2>4 DEF DrainInv
<1>7. ASSUME NEW t \in Tasks, CancelRunning(t) PROVE Goal
  BY <1>7 DEF CancelRunning, DrainInv, RunningTaskHasWorker, OwnedInv, StoppingDrains,
     poolvars, workervars, TypeOK
<1>8. ASSUME NEW t \in Tasks, CancelQueued(t) PROVE Goal
  <2>1. t \in active /\ tstate[t] = "QUEUED"
    BY <1>8 DEF CancelQueued, find_active_locked, QueueInv
  <2>2. state = "RUNNING"
    BY <2>1, EmptySeq DEF StorageInv, QueueInv, TypeOK
  <2> QED
    BY <1>8, <2>1, <2>2 DEF CancelQueued, remove_active_locked, DrainInv, RunningTaskHasWorker,
       OwnedInv, StoppingDrains, TypeOK, workervars
<1>9. ASSUME CreateWorker PROVE Goal
  <2>1. worker_count \in Workers => wpc[worker_count] = "absent"
    BY <1>9 DEF CreateWorker, StorageInv, ThreadInv, TypeOK, Workers
  <2>2. /\ \A k \in Workers : wpc[k] = "calling" => wpc'[k] = "calling"
        /\ \A k \in Workers : wpc'[k] = "parked" => wpc[k] = "parked"
    BY <1>9, <2>1 DEF CreateWorker, TypeOK
  <2> QED
    BY <1>9, <2>2, DrainFrame DEF CreateWorker, poolvars, taskvars
<1>10. ASSUME CreateWorkerFails PROVE Goal
  <2>1. active = {} /\ ready = <<>>
    BY <1>10 DEF CreateWorkerFails, StorageInv
  <2>2. \A k \in Workers : wpc[k] = "calling" => wpc'[k] = "calling"
    BY <1>10, BroadcastEffect DEF CreateWorkerFails, TypeOK
  <2>3. \A k \in Workers : wpc'[k] # "parked"
    BY <1>10 DEF CreateWorkerFails, BroadcastWork
  <2> QED
    BY <1>10, <2>1, <2>2, <2>3 DEF CreateWorkerFails, taskvars, DrainInv, RunningTaskHasWorker,
       OwnedInv, StoppingDrains
<1>11. ASSUME NEW place \in {"stopping", "destroying"}, ShutdownBegin(place) PROVE Goal
  <2>1. CASE state = "RUNNING"
    BY <1>11, <2>1, StopKeepsDrainInv DEF ShutdownBegin, TypeOK
  <2>2. CASE state # "RUNNING"
    BY <1>11, <2>2, DrainFrame DEF ShutdownBegin
  <2> QED
    BY <2>1, <2>2
<1>12. ASSUME ShutdownEnds PROVE Goal
  <2>1. \A k \in Workers : wpc[k] = "absent"
    BY <1>12 DEF ShutdownEnds, AllJoined, StorageInv, ThreadInv
  <2>2. ready = <<>>
    BY <1>12 DEF ShutdownEnds, StorageInv
  <2>3. active = {}
    BY <2>1, <2>2, IdlePoolIsEmpty
  <2> QED
    BY <1>12, <2>1, <2>2, <2>3 DEF ShutdownEnds, taskvars, workervars, DrainInv,
       RunningTaskHasWorker, OwnedInv, StoppingDrains
<1>13. ASSUME UnwindEnds \/ DestroyEnds PROVE Goal
  <2>1. state # "RUNNING"
    BY <1>13 DEF UnwindEnds, DestroyEnds, StorageInv
  <2> QED
    BY <1>13, <2>1 DEF UnwindEnds, DestroyEnds, Erase, taskvars, workervars, DrainInv,
       RunningTaskHasWorker, OwnedInv, StoppingDrains
<1>14. ASSUME NEW n \in 1..MaxWorkers, InitBegin(n) PROVE Goal
  BY <1>14 DEF InitBegin, taskvars, workervars, DrainInv, RunningTaskHasWorker, OwnedInv,
     StoppingDrains
<1>15. ASSUME \/ UnwindJoins \/ ShutdownJoins \/ ShutdownFails
              \/ (\E c \in Clients : ClientStep(c) \/ WaitWakesSpuriously(c))
              \/ (\E c \in Clients, t \in Tasks : WaitBegin(c, t))
              \/ UNCHANGED vars
       PROVE Goal
  <2>1. UNCHANGED <<state, active, ready, tstate, owner, cancel_requested, wpc, wtask>>
    BY <1>15 DEF UnwindJoins, ShutdownJoins, ShutdownFails, ClientStep, WaitReturns, WaitAgain,
       WaitWakesSpuriously, WaitBegin, vars, poolvars, taskvars, workervars
  <2> QED
    BY <2>1, DrainFrame
<1>16. \A i \in Workers : ~WorkerLockFails(i)
  BY DEF WorkerLockFails
<1> HIDE DEF Goal
<1>17. Goal
  BY <1>1, <1>2, <1>3, <1>4, <1>5, <1>6, <1>7, <1>8, <1>9, <1>10, <1>11, <1>12, <1>13, <1>14,
     <1>15, <1>16
  DEF Next, WorkerStep, LifecycleStep, LifecycleCall
<1> QED
  BY <1>17 DEF Goal

---------------------------------------------------------------------------
(* Parked and polling workers. *)

Polling == {i \in Workers : wpc[i] = "polling"}

LEMMA WorkersAreFinite == IsFiniteSet(Workers)
<1>1. MaxWorkers - 1 \in Int
  BY ThreadPoolAssumption
<1> QED
  BY <1>1, FS_Interval DEF Workers

\* A step after which no more tasks wait, that takes no polling worker away
\* and parks none.
LEMMA WakeupFrame ==
    ASSUME NoLostWakeup, Len(ready) \in Nat, Len(ready') \in Nat, Len(ready') <= Len(ready),
           \A i \in Workers : wpc[i] = "polling" => wpc'[i] = "polling",
           \A i \in Workers : wpc'[i] = "parked" => wpc[i] = "parked"
    PROVE  NoLostWakeup'
<1> SUFFICES ASSUME \E i \in Workers : wpc'[i] = "parked" PROVE Len(ready') <= Cardinality(Polling')
  BY DEF NoLostWakeup, Polling
<1>1. Len(ready) <= Cardinality(Polling)
  BY DEF NoLostWakeup, Polling
<1>2. IsFiniteSet(Polling') /\ Polling \in SUBSET Polling'
  BY WorkersAreFinite, FS_Subset DEF Polling
<1>3. /\ Cardinality(Polling) <= Cardinality(Polling')
      /\ Cardinality(Polling) \in Nat /\ Cardinality(Polling') \in Nat
  BY <1>2, FS_Subset, FS_CardinalityType
<1> QED
  BY <1>1, <1>3

\* The compaction shortens the ring by one.
LEMMA RemoveReadyLength ==
    ASSUME ready \in Seq(Tasks), NEW t \in Tasks, \E j \in 1..Len(ready) : ready[j] = t
    PROVE  Len(ready) > 0 /\ Len(remove_ready_locked(t)) = Len(ready) - 1
<1> DEFINE n == Len(ready)
           p == CHOOSE i \in 1..n : ready[i] = t
           e(i) == IF i < p THEN ready[i] ELSE ready[i + 1]
           new == [i \in 1..(n - 1) |-> e(i)]
<1>1. n \in Nat /\ \A i \in 1..n : ready[i] \in Tasks
  BY LenProperties, ElementOfSeq
<1>2. p \in 1..n
  OBVIOUS
<1>3. remove_ready_locked(t) = new
  BY DEF remove_ready_locked
<1> HIDE DEF p
<1>4. n > 0 /\ n - 1 \in Nat /\ \A i \in 1..(n - 1) : e(i) \in Tasks
  BY <1>1, <1>2
<1> HIDE DEF e
<1>5. new \in Seq(Tasks)
  BY <1>4, IsASeq
<1>6. Len(new) = n - 1
  BY <1>5, <1>4, LenProperties
<1> QED
  BY <1>3, <1>4, <1>6

\* A worker leaves its callback or not; one task joins the ring and is
\* signalled.
LEMMA WakeupEnqueue ==
    ASSUME TypeOK, NoLostWakeup, NEW place \in [Workers -> WorkerPlaces],
           \A i \in Workers : place[i] = wpc[i] \/ (wpc[i] = "calling" /\ place[i] = "polling"),
           wpc' \in SignalWork(place), Len(ready') = Len(ready) + 1
    PROVE  NoLostWakeup'
<1> SUFFICES ASSUME \E i \in Workers : wpc'[i] = "parked" PROVE Len(ready') <= Cardinality(Polling')
  BY DEF NoLostWakeup, Polling
<1>1. PICK k \in Workers : place[k] = "parked" /\ wpc' = [place EXCEPT ![k] = "polling"]
  BY SignalEffect DEF SignalWork, SignalOne
<1>2. wpc[k] = "parked" /\ Len(ready) <= Cardinality(Polling)
  BY <1>1 DEF NoLostWakeup, Polling
<1>3. k \notin Polling /\ IsFiniteSet(Polling) /\ IsFiniteSet(Polling')
  BY <1>2, WorkersAreFinite, FS_Subset DEF Polling
<1>4. Polling \cup {k} \in SUBSET Polling'
  BY <1>1 DEF Polling, TypeOK
<1>5. /\ Cardinality(Polling \cup {k}) = Cardinality(Polling) + 1
      /\ Cardinality(Polling \cup {k}) <= Cardinality(Polling')
  BY <1>3, <1>4, FS_AddElement, FS_Subset
<1>6. Cardinality(Polling) \in Nat /\ Cardinality(Polling') \in Nat /\ Len(ready) \in Nat
  BY <1>3, FS_CardinalityType, LenProperties DEF TypeOK
<1> QED
  BY <1>2, <1>5, <1>6

LEMMA WakeupStep ==
    ASSUME "lock" \notin Faults, PoolInv, NoLostWakeup, [Next]_vars
    PROVE  NoLostWakeup'
<1> USE DEF PoolInv
<1> USE ThreadPoolAssumption
<1> DEFINE Goal == NoLostWakeup'
<1>0. Len(ready) \in Nat /\ (ready = <<>> => Len(ready) = 0)
  BY LenProperties, EmptySeq DEF TypeOK
<1>a. ASSUME ready' = <<>> PROVE Goal
  <2>1. IsFiniteSet(Polling')
    BY WorkersAreFinite, FS_Subset DEF Polling
  <2>2. Cardinality(Polling') \in Nat /\ Len(ready') = 0
    BY <2>1, <1>a, FS_CardinalityType, EmptySeq
  <2> QED
    BY <2>2 DEF NoLostWakeup, Polling
<1>b. ASSUME ready' = ready, wpc' = wpc PROVE Goal
  BY <1>b DEF NoLostWakeup
<1>1. ASSUME NEW i \in Workers, StepBegin(i) PROVE Goal
  <2>1. /\ wpc[i] = "polling" /\ wpc' = [wpc EXCEPT ![i] = "calling"]
        /\ ready # <<>> /\ ready' = Tail(ready)
    BY <1>1 DEF StepBegin
  <2>2. Len(ready') = Len(ready) - 1
    BY <2>1, HeadTailProperties DEF TypeOK
  <2>3. i \in Polling /\ IsFiniteSet(Polling) /\ Polling' = Polling \ {i}
    BY <2>1, WorkersAreFinite, FS_Subset DEF Polling, TypeOK
  <2>4. Cardinality(Polling') = Cardinality(Polling) - 1 /\ Cardinality(Polling) \in Nat
    BY <2>3, FS_RemoveElement, FS_CardinalityType
  <2>5. (\E k \in Workers : wpc'[k] = "parked") => Len(ready) <= Cardinality(Polling)
    BY <2>1 DEF NoLostWakeup, Polling, TypeOK
  <2>6. (\E k \in Workers : wpc'[k] = "parked") => Len(ready') <= Cardinality(Polling')
    BY <1>0, <2>2, <2>4, <2>5
  <2> QED
    BY <2>6 DEF NoLostWakeup, Polling
<1>2. ASSUME NEW i \in Workers, Park(i) \/ WorkerExits(i) PROVE Goal
  BY <1>2, <1>a DEF Park, WorkerExits, StorageInv, poolvars
<1>3. ASSUME NEW i \in Workers, SpuriousWakeup(i) PROVE Goal
  BY <1>3, <1>0, WakeupFrame DEF SpuriousWakeup, poolvars, TypeOK
<1>4. ASSUME NEW i \in Workers, WorkWaitFails(i) PROVE Goal
  BY <1>4, <1>a DEF WorkWaitFails, stop_locked, StopTasks
<1>5. ASSUME NEW i \in Workers, NEW action \in StepActions, StepReturn(i, action) PROVE Goal
  <2> DEFINE t == wtask[i]
             place == [wpc EXCEPT ![i] = "polling"]
  <2>1. t \in Tasks /\ t \in active /\ wpc[i] = "calling" /\ tstate[t] = "RUNNING"
    BY <1>5 DEF StepReturn, CallInv, TypeOK
  <2>2. Len(ready) < MaxTasks
    BY <2>1, RingHasRoom
  <2>3. /\ place \in [Workers -> WorkerPlaces]
        /\ \A k \in Workers : place[k] = wpc[k] \/ (wpc[k] = "calling" /\ place[k] = "polling")
    BY <2>1 DEF TypeOK, WorkerPlaces
  <2>4. CASE wpc' = place /\ ready' = ready
    <3>1. /\ \A k \in Workers : wpc[k] = "polling" => wpc'[k] = "polling"
          /\ \A k \in Workers : wpc'[k] = "parked" => wpc[k] = "parked"
      BY <2>3, <2>4
    <3> QED
      BY <3>1, <2>4, <1>0, WakeupFrame
  <2>5. CASE wpc' \in SignalWork(place) /\ ready' = Append(ready, t)
    <3>1. Len(ready') = Len(ready) + 1
      BY <2>5, <2>1, AppendProperties DEF TypeOK
    <3> QED
      BY <2>3, <2>5, <3>1, WakeupEnqueue
  <2> QED
    BY <1>0, <1>5, <2>2, <2>4, <2>5 DEF StepReturn, Retire, Requeue, StepActions
<1>6. ASSUME NEW t \in Tasks, Submit(t) PROVE Goal
  <2>1. Len(ready') = Len(ready) + 1
    BY <1>6, AppendProperties DEF Submit, TypeOK
  <2> QED
    BY <1>6, <2>1, WakeupEnqueue DEF Submit, TypeOK
<1>7. ASSUME NEW t \in Tasks, CancelQueued(t) PROVE Goal
  <2>1. t \in active /\ tstate[t] = "QUEUED"
    BY <1>7 DEF CancelQueued, find_active_locked, QueueInv
  <2>2. ready' = remove_ready_locked(t) /\ wpc' = wpc
    BY <1>7, <2>1 DEF CancelQueued, workervars
  <2>3. Len(ready') = Len(ready) - 1 /\ Len(ready) > 0
    BY <2>1, <2>2, <1>0, RemoveReadyLength DEF QueueInv, TypeOK
  <2> QED
    BY <2>2, <2>3, <1>0, WakeupFrame
<1>8. ASSUME CreateWorker PROVE Goal
  <2>1. worker_count \in Workers => wpc[worker_count] = "absent"
    BY <1>8 DEF CreateWorker, StorageInv, ThreadInv, TypeOK, Workers
  <2>2. /\ \A k \in Workers : wpc[k] = "polling" => wpc'[k] = "polling"
        /\ \A k \in Workers : wpc'[k] = "parked" => wpc[k] = "parked"
    BY <1>8, <2>1 DEF CreateWorker, TypeOK
  <2> QED
    BY <1>8, <2>2, <1>0, WakeupFrame DEF CreateWorker, poolvars
<1>9. ASSUME CreateWorkerFails PROVE Goal
  BY <1>9, <1>a DEF CreateWorkerFails, StorageInv
<1>10. ASSUME NEW place \in {"stopping", "destroying"}, ShutdownBegin(place) PROVE Goal
  BY <1>10, <1>a, <1>b DEF ShutdownBegin, stop_locked, StopTasks
<1>11. ASSUME UnwindEnds \/ DestroyEnds PROVE Goal
  BY <1>11, <1>a DEF UnwindEnds, DestroyEnds, Erase
<1>12. ASSUME \/ UnwindJoins \/ ShutdownJoins \/ ShutdownFails \/ ShutdownEnds
              \/ (\E n \in 1..MaxWorkers : InitBegin(n))
              \/ (\E t \in Tasks : TaskInit(t) \/ CancelRunning(t))
              \/ (\E c \in Clients : ClientStep(c) \/ WaitWakesSpuriously(c))
              \/ (\E c \in Clients, t \in Tasks : WaitBegin(c, t))
              \/ UNCHANGED vars
       PROVE Goal
  <2>1. ready' = ready /\ wpc' = wpc
    BY <1>12 DEF UnwindJoins, ShutdownJoins, ShutdownFails, ShutdownEnds, InitBegin, TaskInit,
       CancelRunning, ClientStep, WaitReturns, WaitAgain, WaitWakesSpuriously, WaitBegin, vars,
       poolvars, workervars
  <2> QED
    BY <2>1, <1>b
<1>13. \A i \in Workers : ~WorkerLockFails(i)
  BY DEF WorkerLockFails
<1> HIDE DEF Goal
<1>14. Goal
  BY <1>1, <1>2, <1>3, <1>4, <1>5, <1>6, <1>7, <1>8, <1>9, <1>10, <1>11, <1>12, <1>13
  DEF Next, WorkerStep, LifecycleStep, LifecycleCall
<1> QED
  BY <1>14 DEF Goal

---------------------------------------------------------------------------
(* The theorems about such pools. *)

\* Without a failing lock, DrainInv is kept for ever.
THEOREM DrainInvariance ==
    ASSUME "lock" \notin Faults
    PROVE  Spec => []DrainInv
<1>1. PoolInv /\ DrainInv /\ [Next]_vars => DrainInv'
  BY DrainStep
<1> QED
  BY <1>1, InitEstablishesDrainInv, PoolInvariance, PTL DEF Spec

\* A task that is RUNNING is in the callback of a worker that will end its
\* slice (worker).
THEOREM RunningTasksAreCalled ==
    ASSUME "lock" \notin Faults
    PROVE  Spec => []RunningTaskHasWorker
<1>1. DrainInv => RunningTaskHasWorker
  BY DEF DrainInv
<1> QED
  BY <1>1, DrainInvariance, PTL

\* The registry is the set of unfinished tasks: no capacity is leaked.
THEOREM RegistryHoldsTheUnfinished ==
    ASSUME "lock" \notin Faults
    PROVE  Spec => []RegistryIsExact
<1>1. PoolInv /\ DrainInv => RegistryIsExact
  BY DrainInvGivesRegistry
<1> QED
  BY <1>1, PoolInvariance, DrainInvariance, PTL

\* A stop leaves only running tasks that know of it, and a pool that has
\* stopped holds no task.
THEOREM StopDrainsThePool ==
    ASSUME "lock" \notin Faults
    PROVE  Spec => []StoppingDrains
<1>1. DrainInv => StoppingDrains
  BY DEF DrainInv
<1> QED
  BY <1>1, DrainInvariance, PTL

\* One signal for each task is enough: while a worker sleeps, every task in
\* the ring has an awake worker of its own coming for it.
THEOREM WakeupsAreNotLost ==
    ASSUME "lock" \notin Faults
    PROVE  Spec => []NoLostWakeup
<1>1. Init => NoLostWakeup
  BY DEF Init, NoLostWakeup
<1>2. PoolInv /\ NoLostWakeup /\ [Next]_vars => NoLostWakeup'
  BY WakeupStep
<1> QED
  BY <1>1, <1>2, PoolInvariance, PTL DEF Spec

---------------------------------------------------------------------------
(* ThreadPool implements TaskQueue. *)

\* The invariants of the pool that the mapping rests on.
MapInv == PoolInv /\ CancelRequestIsKept /\ DrainInv /\ RegistryIsExact

Doomed == {t \in Tasks : tstate[t] = "RUNNING" /\ cancel_requested[t]}

\* A slice in progress occupies a worker, so fewer than all are in progress
\* while some worker is not in a callback.
LEMMA IdleWorkerMeansFreeSlice ==
    ASSUME MapInv, NEW i \in Workers, wpc[i] # "calling"
    PROVE  Cardinality({t \in Tasks : tstate[t] = "RUNNING"}) < MaxWorkers
<1> DEFINE R == {t \in Tasks : tstate[t] = "RUNNING"}
           caller(t) == CHOOSE k \in Workers : wpc[k] = "calling" /\ wtask[k] = t
           f == [t \in R |-> caller(t)]
<1>1. \A t \in R : caller(t) \in Workers /\ wpc[caller(t)] = "calling" /\ wtask[caller(t)] = t
  BY DEF MapInv, DrainInv, RunningTaskHasWorker
<1> HIDE DEF caller
<1>2. f \in Injection(R, Workers \ {i})
  BY <1>1 DEF Injection, IsInjective
<1>3. IsFiniteSet(Workers) /\ Cardinality(Workers) = MaxWorkers
  <2>1. MaxWorkers - 1 \in Int /\ MaxWorkers > 0 /\ MaxWorkers \in Nat
    BY ThreadPoolAssumption
  <2>2. IsFiniteSet(0..(MaxWorkers - 1)) /\ Cardinality(0..(MaxWorkers - 1))
           = IF 0 > MaxWorkers - 1 THEN 0 ELSE (MaxWorkers - 1) - 0 + 1
    BY <2>1, FS_Interval
  <2> QED
    BY <2>1, <2>2 DEF Workers
<1>4. IsFiniteSet(Workers \ {i}) /\ Cardinality(Workers \ {i}) = MaxWorkers - 1
  BY <1>3, FS_RemoveElement
<1> HIDE DEF R, f
<1>5. Cardinality(R) <= Cardinality(Workers \ {i}) /\ IsFiniteSet(R)
  BY <1>2, <1>4, FS_Injection
<1>6. Cardinality(R) \in Nat
  BY <1>5, FS_CardinalityType
<1> QED
  BY <1>4, <1>5, <1>6, ThreadPoolAssumption DEF R

\* A pool that is not running is a closed queue, an empty registry a queue
\* without unfinished tasks.
LEMMA InitRefines == Init => TQ!TQInit
BY DEF Init, TQ!TQInit

\* stop_locked closes the queue: what was queued is cancelled, what was
\* running is doomed.
LEMMA StopRefines ==
    ASSUME MapInv, state = "RUNNING", StopTasks
    PROVE  TQ!Close
<1> USE DEF MapInv, PoolInv
<1>1. \A t \in Tasks : t \in active <=> tstate[t] \in {"QUEUED", "RUNNING"}
  BY DEF RegistryIsExact
<1>2. tstate' = [t \in Tasks |-> IF tstate[t] = "QUEUED" THEN "CANCELLED" ELSE tstate[t]]
  BY <1>1 DEF StopTasks, TypeOK
<1>3. \A t \in Tasks : tstate'[t] = "RUNNING" /\ cancel_requested'[t] <=> tstate[t] = "RUNNING"
  BY <1>1, <1>2 DEF StopTasks, FlagRunning, CancelRequestIsKept
<1> QED
  BY <1>2, <1>3 DEF TQ!Close, TQ!Running, StopTasks

\* TaskQueue counts with its own instance of FiniteSets.
LEMMA SameCount == \A S : TQ!Cardinality(S) = Cardinality(S)
BY DEF TQ!Cardinality, Cardinality

LEMMA SliceEndRefines ==
    ASSUME NEW t \in Tasks, TQ!SliceEnds(t)
    PROVE  TQ!TQNext
BY DEF TQ!TQNext

\* A step the queue does not see.
LEMMA StutterRefines ==
    ASSUME UNCHANGED <<tstate, ready, cancel_requested>>,
           (state = "RUNNING") = (state' = "RUNNING")
    PROVE  UNCHANGED TQ!tqvars
BY DEF TQ!tqvars

LEMMA StepRefines ==
    ASSUME "lock" \notin Faults, MapInv, [Next]_vars
    PROVE  [TQ!TQNext]_TQ!tqvars
<1> USE DEF MapInv, PoolInv
<1> USE ThreadPoolAssumption
<1> DEFINE Goal == TQ!TQNext \/ UNCHANGED TQ!tqvars
<1>1. ASSUME NEW i \in Workers, StepBegin(i) PROVE Goal
  <2>1. /\ tstate' = [tstate EXCEPT ![Head(ready)] = "RUNNING"] /\ ready' = Tail(ready)
        /\ UNCHANGED <<state, cancel_requested>>
        /\ wpc[i] = "polling" /\ state = "RUNNING" /\ ready # <<>>
    BY <1>1 DEF StepBegin
  <2>2. Head(ready) \in Tasks /\ tstate[Head(ready)] = "QUEUED"
    <3>1. Len(ready) \in Nat /\ Len(ready) > 0 /\ Head(ready) = ready[1]
      BY <2>1, LenProperties, EmptySeq DEF TypeOK
    <3> QED
      BY <3>1 DEF QueueInv, TypeOK
  <2>3. ~cancel_requested[Head(ready)]
    BY <2>2 DEF CancelRequestIsKept
  <2>4. Doomed' = Doomed
    BY <2>1, <2>2, <2>3 DEF Doomed, TypeOK
  <2>5. TQ!Cardinality(TQ!Running) < MaxWorkers
    BY <2>1, IdleWorkerMeansFreeSlice, SameCount DEF TQ!Running
  <2>6. TQ!Start
    BY <2>1, <2>4, <2>5 DEF TQ!Start, Doomed
  <2> QED
    BY <2>6 DEF TQ!TQNext
<1>2. ASSUME NEW i \in Workers, WorkWaitFails(i) PROVE Goal
  BY <1>2, StopRefines DEF WorkWaitFails, stop_locked, TQ!TQNext
<1>3. ASSUME NEW i \in Workers, NEW action \in StepActions, StepReturn(i, action) PROVE Goal
  <2>0. PICK t \in Tasks : t = wtask[i]
    BY <1>3 DEF StepReturn, CallInv, TypeOK
  <2>1. /\ t \in active /\ tstate[t] = "RUNNING" /\ wpc[i] = "calling"
        /\ UNCHANGED <<state, cancel_requested>>
    BY <1>3, <2>0 DEF StepReturn, CallInv, TypeOK
  <2>2. state # "STOPPED" /\ (state = "STOPPING" => cancel_requested[t])
    BY <2>1 DEF DrainInv, StoppingDrains, ThreadInv
  <2>3. Len(ready) < MaxTasks /\ Len(ready) \in Nat
    BY <2>1, RingHasRoom, LenProperties DEF TypeOK
  <2>4. CASE cancel_requested[t]
    <3>1. tstate' = [tstate EXCEPT ![t] = "CANCELLED"] /\ ready' = ready
      BY <1>3, <2>0, <2>4 DEF StepReturn, MustCancel, Retire
    <3>2. Doomed' = Doomed \ {t} /\ t \in Doomed
      BY <3>1, <2>1, <2>4 DEF Doomed, TypeOK
    <3>3. TQ!Abandon(t)
      BY <3>1, <3>2, <2>1 DEF TQ!Abandon, Doomed
    <3> QED
      BY <3>3, SliceEndRefines DEF TQ!SliceEnds
  <2>5. CASE ~cancel_requested[t]
    <3>1. state = "RUNNING" /\ ~MustCancel(t)
      BY <2>2, <2>5 DEF MustCancel, TypeOK, PoolStates
    <3>2. ASSUME NEW how \in TaskStates \ {"RUNNING"}, tstate' = [tstate EXCEPT ![t] = how]
          PROVE  Doomed' = Doomed /\ t \in TQ!Running \ Doomed
      BY <3>2, <2>1, <2>5 DEF Doomed, TQ!Running, TypeOK
    <3>3. CASE action = "YIELD"
      <4>1. tstate' = [tstate EXCEPT ![t] = "QUEUED"] /\ ready' = Append(ready, t)
        BY <1>3, <2>0, <2>3, <3>1, <3>3 DEF StepReturn, Requeue
      <4>2. TQ!Yield(t)
        BY <4>1, <3>1, <3>2, <2>1 DEF TQ!Yield, Doomed, TaskStates
      <4> QED
        BY <4>2, SliceEndRefines DEF TQ!SliceEnds
    <3>4. CASE action # "YIELD"
      <4>1. /\ \E outcome \in {"COMPLETED", "FAILED"} : tstate' = [tstate EXCEPT ![t] = outcome]
            /\ ready' = ready
        BY <1>3, <2>0, <3>1, <3>4 DEF StepReturn, Retire, StepActions
      <4>2. TQ!Finish(t)
        BY <4>1, <3>1, <3>2, <2>1 DEF TQ!Finish, Doomed, TaskStates, Terminal
      <4> QED
        BY <4>2, SliceEndRefines DEF TQ!SliceEnds
    <3> QED
      BY <3>3, <3>4
  <2> QED
    BY <2>4, <2>5
<1>4. ASSUME NEW t \in Tasks, TaskInit(t) PROVE Goal
  <2>1. /\ tstate' = [tstate EXCEPT ![t] = "IDLE"] /\ UNCHANGED <<state, ready>> /\ t \notin active
        /\ cancel_requested' = [cancel_requested EXCEPT ![t] = FALSE]
    BY <1>4 DEF TaskInit, poolvars
  <2>2. tstate[t] \notin {"QUEUED", "RUNNING"}
    BY <2>1 DEF RegistryIsExact
  <2>3. Doomed' = Doomed
    BY <2>1, <2>2 DEF Doomed, TypeOK
  <2>4. tstate' = [u \in Tasks |-> IF u \in {t} THEN "IDLE" ELSE tstate[u]]
    BY <2>1 DEF TypeOK
  <2>5. TQ!Reset({t})
    BY <2>1, <2>2, <2>3, <2>4 DEF TQ!Reset, TQ!Unfinished, Doomed
  <2>6. {t} \in SUBSET Tasks
    OBVIOUS
  <2> QED
    BY <2>5, <2>6 DEF TQ!TQNext
<1>5. ASSUME NEW t \in Tasks, Submit(t) PROVE Goal
  <2>1. /\ tstate' = [tstate EXCEPT ![t] = "QUEUED"] /\ ready' = Append(ready, t)
        /\ cancel_requested' = [cancel_requested EXCEPT ![t] = FALSE]
        /\ state' = state /\ state = "RUNNING" /\ tstate[t] = "IDLE" /\ Cardinality(active) < MaxTasks
    BY <1>5 DEF Submit, HasRoom
  <2>2. TQ!Cardinality(TQ!Unfinished) < MaxTasks
    BY <2>1, SameCount DEF TQ!Unfinished, RegistryIsExact
  <2>3. Doomed' = Doomed
    BY <2>1 DEF Doomed, TypeOK
  <2>4. TQ!Accept(t)
    BY <2>1, <2>2, <2>3 DEF TQ!Accept, Doomed
  <2> QED
    BY <2>4 DEF TQ!TQNext
<1>6. ASSUME NEW t \in Tasks, CancelRunning(t) PROVE Goal
  <2>1. /\ tstate' = tstate /\ UNCHANGED <<state, ready>> /\ tstate[t] = "RUNNING"
        /\ cancel_requested' = [cancel_requested EXCEPT ![t] = TRUE]
    BY <1>6 DEF CancelRunning, poolvars
  <2>2. Doomed' = Doomed \cup {t}
    BY <2>1 DEF Doomed, TypeOK
  <2>3. TQ!CancelTask(t)
    BY <2>1, <2>2 DEF TQ!CancelTask, TQ!Running, Doomed
  <2> QED
    BY <2>3 DEF TQ!TQNext
<1>7. ASSUME NEW t \in Tasks, CancelQueued(t) PROVE Goal
  <2>1. t \in active /\ tstate[t] = "QUEUED"
    BY <1>7 DEF CancelQueued, find_active_locked, QueueInv
  <2>2. /\ tstate' = [tstate EXCEPT ![t] = "CANCELLED"] /\ ready' = remove_ready_locked(t)
        /\ UNCHANGED <<state, cancel_requested>>
    BY <1>7, <2>1 DEF CancelQueued
  <2>3. Doomed' = Doomed
    BY <2>1, <2>2 DEF Doomed, TypeOK
  <2>4. TQ!Without(ready, t) = remove_ready_locked(t)
    BY DEF TQ!Without, remove_ready_locked
  <2>5. TQ!CancelTask(t)
    BY <2>1, <2>2, <2>3, <2>4 DEF TQ!CancelTask, Doomed
  <2> QED
    BY <2>5 DEF TQ!TQNext
<1>8. ASSUME NEW n \in 1..MaxWorkers, InitBegin(n) PROVE Goal
  <2>1. /\ state = "STOPPED" /\ active = {} /\ state' = "RUNNING"
        /\ UNCHANGED <<tstate, ready, cancel_requested>>
    BY <1>8 DEF InitBegin, StorageInv, taskvars
  <2>2. TQ!Unfinished = {}
    BY <2>1 DEF TQ!Unfinished, RegistryIsExact
  <2>3. TQ!Open
    BY <2>1, <2>2 DEF TQ!Open
  <2> QED
    BY <2>3 DEF TQ!TQNext
<1>9. ASSUME CreateWorkerFails PROVE Goal
  <2>1. /\ active = {} /\ ready = <<>> /\ state' = "STOPPING"
        /\ UNCHANGED <<tstate, ready, cancel_requested>>
    BY <1>9 DEF CreateWorkerFails, StorageInv, taskvars
  <2>2. \A t \in Tasks : tstate[t] \notin {"QUEUED", "RUNNING"}
    BY <2>1 DEF RegistryIsExact
  <2>3. tstate = [t \in Tasks |-> IF tstate[t] = "QUEUED" THEN "CANCELLED" ELSE tstate[t]]
    BY <2>2 DEF TypeOK
  <2>4. CASE state = "RUNNING"
    BY <2>1, <2>2, <2>3, <2>4 DEF TQ!TQNext, TQ!Close, TQ!Running
  <2>5. CASE state # "RUNNING"
    BY <2>1, <2>5, StutterRefines
  <2> QED
    BY <2>4, <2>5
<1>10. ASSUME NEW place \in {"stopping", "destroying"}, ShutdownBegin(place) PROVE Goal
  <2>1. CASE state = "RUNNING"
    BY <1>10, <2>1, StopRefines DEF ShutdownBegin, stop_locked, TQ!TQNext
  <2>2. CASE state # "RUNNING"
    BY <1>10, <2>2, StutterRefines DEF ShutdownBegin
  <2> QED
    BY <2>1, <2>2
<1>11. ASSUME UnwindEnds \/ DestroyEnds \/ ShutdownEnds PROVE Goal
  <2>1. state' = "STOPPED" /\ UNCHANGED <<tstate, cancel_requested>> /\ (ready' = <<>> \/ ready' = ready)
    BY <1>11 DEF UnwindEnds, DestroyEnds, ShutdownEnds, Erase, taskvars
  <2>2. state # "RUNNING" /\ ready = <<>>
    BY <1>11 DEF UnwindEnds, DestroyEnds, ShutdownEnds, StorageInv
  <2> QED
    BY <2>1, <2>2, StutterRefines
<1>12. ASSUME \/ \E i \in Workers : Park(i) \/ SpuriousWakeup(i) \/ WorkerExits(i)
              \/ CreateWorker \/ UnwindJoins \/ ShutdownJoins \/ ShutdownFails
              \/ (\E c \in Clients : ClientStep(c) \/ WaitWakesSpuriously(c))
              \/ (\E c \in Clients, t \in Tasks : WaitBegin(c, t))
              \/ UNCHANGED vars
       PROVE Goal
  <2>1. UNCHANGED <<state, tstate, ready, cancel_requested>>
    BY <1>12 DEF Park, SpuriousWakeup, WorkerExits, CreateWorker, UnwindJoins, ShutdownJoins,
       ShutdownFails, ClientStep, WaitReturns, WaitAgain, WaitWakesSpuriously, WaitBegin, vars,
       poolvars, taskvars
  <2> QED
    BY <2>1, StutterRefines
<1>13. \A i \in Workers : ~WorkerLockFails(i)
  BY DEF WorkerLockFails
<1> HIDE DEF Goal
<1>14. Goal
  BY <1>1, <1>2, <1>3, <1>4, <1>5, <1>6, <1>7, <1>8, <1>9, <1>10, <1>11, <1>12, <1>13
  DEF Next, WorkerStep, LifecycleStep, LifecycleCall
<1> QED
  BY <1>14 DEF Goal

\* The pool is the bounded FIFO task queue of its documentation: every
\* critical section of workers, callers and lifecycle calls is one operation of
\* the queue, or none.
THEOREM PoolImplementsTaskQueue ==
    ASSUME "lock" \notin Faults
    PROVE  Spec => TQ!TQSafety
<1>1. Init => TQ!TQInit
  BY InitRefines
<1>2. MapInv /\ [Next]_vars => [TQ!TQNext]_TQ!tqvars
  BY StepRefines
<1>3. PoolInv /\ DrainInv /\ OwnerInv => MapInv
  BY DrainInvGivesRegistry DEF MapInv, OwnerInv
<1> QED
  BY <1>1, <1>2, <1>3, PoolInvariance, DrainInvariance, OwnerInvariance, PTL DEF Spec, TQ!TQSafety
==============================================================================
