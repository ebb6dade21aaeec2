-------------------------- MODULE HttpServerProofs ----------------------------
(***************************************************************************)
(* Theorems about HttpServer, for any number of slots, routes, workers and *)
(* other tasks in its pool, however the program's calls, the callbacks and *)
(* the pool's closing interleave, where the pool's waits do not fail: the  *)
(* server goes on as if a wait that failed had ended, and what it does to  *)
(* an unfinished task then is outside the pool's contract, and not         *)
(* followed.  SrvInv says why the rest holds: the flags of an              *)
(* exchange follow each other (FlagsInv), an unfinished handler pins its   *)
(* exchange (PinInv), a callback that keeps the mutex is still running     *)
(* (HolderInv), and each stage of start and stop has outlived the tasks it *)
(* waited for (StageInv).                                                  *)
(*                                                                         *)
(* The first part is about the task queue by itself, which the server's    *)
(* every step moves by one of TaskQueue's steps or not at all.             *)
(***************************************************************************)
EXTENDS HttpServer, FiniteSetTheorems, SequenceTheorems, TLAPS

---------------------------------------------------------------------------
(* The task queue. *)

TQTypeOK ==
    /\ phase \in [Tasks -> Phases]
    /\ queue \in Seq(Tasks)
    /\ doomed \in SUBSET Tasks
    /\ open \in BOOLEAN

\* The queue holds each queued task once and nothing else.
QueueIsExact ==
    /\ \A j, k \in 1..Len(queue) : queue[j] = queue[k] => j = k
    /\ \A t \in Tasks : phase[t] = "QUEUED" <=> \E j \in 1..Len(queue) : queue[j] = t

\* Only running tasks are doomed, and all of them once the pool is closed, when
\* nothing is queued.
ClosedDrains ==
    /\ doomed \subseteq Running
    /\ ~open => queue = <<>> /\ doomed = Running

CapacityKept == Cardinality(Unfinished) <= MaxTasks

TQInv == TQTypeOK /\ QueueIsExact /\ ClosedDrains /\ CapacityKept

\* Without takes out the given task and nothing else.
LEMMA WithoutEffect ==
    ASSUME NEW s \in Seq(Tasks), NEW t \in Tasks,
           \A j, k \in 1..Len(s) : s[j] = s[k] => j = k,
           \E j \in 1..Len(s) : s[j] = t
    PROVE  LET new == Without(s, t) IN
           /\ new \in Seq(Tasks)
           /\ \A j, k \in 1..Len(new) : new[j] = new[k] => j = k
           /\ \A u \in Tasks : (\E j \in 1..Len(new) : new[j] = u)
                               <=> u # t /\ \E j \in 1..Len(s) : s[j] = u
<1> DEFINE n == Len(s)
           p == CHOOSE i \in 1..n : s[i] = t
           e(i) == IF i < p THEN s[i] ELSE s[i + 1]
           new == [i \in 1..(n - 1) |-> e(i)]
<1>1. n \in Nat /\ \A i \in 1..n : s[i] \in Tasks
  BY LenProperties, ElementOfSeq
<1>2. p \in 1..n /\ s[p] = t
  OBVIOUS
<1>3. Without(s, t) = new
  BY DEF Without
<1> HIDE DEF p
<1>4. n - 1 \in Nat /\ \A i \in 1..(n - 1) : e(i) \in Tasks
  BY <1>1, <1>2
<1>5. new \in Seq(Tasks) /\ Len(new) = n - 1
  <2> HIDE DEF e
  <2>1. new \in Seq(Tasks)
    BY <1>4, IsASeq
  <2> QED
    BY <2>1, <1>4, LenProperties
<1>6. \A i \in 1..(n - 1) : new[i] = e(i)
  BY <1>4
<1>7. ASSUME NEW j \in 1..(n - 1), NEW k \in 1..(n - 1), new[j] = new[k]
      PROVE  j = k
  BY <1>7, <1>6, <1>1, <1>2
<1>8. ASSUME NEW u \in Tasks
      PROVE  (\E j \in 1..(n - 1) : new[j] = u) <=> u # t /\ \E j \in 1..n : s[j] = u
  <2>1. ASSUME NEW j \in 1..(n - 1), new[j] = u
        PROVE  u # t /\ \E k \in 1..n : s[k] = u
    BY <2>1, <1>6, <1>1, <1>2
  <2>2. ASSUME u # t, NEW k \in 1..n, s[k] = u
        PROVE  \E j \in 1..(n - 1) : new[j] = u
    <3>1. CASE k < p
      BY <3>1, <2>2, <1>6, <1>1, <1>2
    <3>2. CASE k > p
      <4>1. k - 1 \in 1..(n - 1) /\ e(k - 1) = u
        BY <3>2, <2>2, <1>1, <1>2
      <4> QED
        BY <4>1, <1>6
    <3> QED
      BY <3>1, <3>2, <2>2, <1>1, <1>2
  <2> QED
    BY <2>1, <2>2
<1> HIDE DEF new, e, n
<1> QED
  BY <1>3, <1>5, <1>7, <1>8 DEF n

\* Appending a task that is not in the sequence.
LEMMA AppendEffect ==
    ASSUME NEW s \in Seq(Tasks), NEW t \in Tasks,
           \A j, k \in 1..Len(s) : s[j] = s[k] => j = k,
           \A j \in 1..Len(s) : s[j] # t
    PROVE  LET new == Append(s, t) IN
           /\ new \in Seq(Tasks)
           /\ \A j, k \in 1..Len(new) : new[j] = new[k] => j = k
           /\ \A u \in Tasks : (\E j \in 1..Len(new) : new[j] = u)
                               <=> u = t \/ \E j \in 1..Len(s) : s[j] = u
<1> DEFINE n == Len(s)
           new == Append(s, t)
<1>1. /\ n \in Nat /\ Len(new) = n + 1 /\ new[n + 1] = t /\ new \in Seq(Tasks)
      /\ \A j \in 1..n : new[j] = s[j]
  BY AppendProperties, LenProperties
<1> HIDE DEF new, n
<1>2. \A j \in 1..(n + 1) : j \in 1..n \/ j = n + 1
  BY <1>1
<1>3. \A j, k \in 1..(n + 1) : new[j] = new[k] => j = k
  BY <1>1, <1>2 DEF n
<1>4. \A u \in Tasks : (\E j \in 1..(n + 1) : new[j] = u) <=> u = t \/ \E j \in 1..n : s[j] = u
  BY <1>1, <1>2
<1> QED
  BY <1>1, <1>3, <1>4 DEF n, new

\* The head of the queue is a queued task, and starting it changes nothing else.
LEMMA StartEffect ==
    ASSUME TQInv, Start
    PROVE  \E h \in Tasks :
             /\ h = Head(queue) /\ phase[h] = "QUEUED" /\ phase' = [phase EXCEPT ![h] = "RUNNING"]
             /\ queue' \in Seq(Tasks)
             /\ \A j, k \in 1..Len(queue') : queue'[j] = queue'[k] => j = k
             /\ \A u \in Tasks : (\E j \in 1..Len(queue') : queue'[j] = u)
                                 <=> u # h /\ \E j \in 1..Len(queue) : queue[j] = u
<1> DEFINE n == Len(queue)
           h == Head(queue)
<1>1. /\ queue \in Seq(Tasks) /\ queue # <<>> /\ queue' = Tail(queue)
      /\ phase' = [phase EXCEPT ![h] = "RUNNING"]
  BY DEF Start, TQInv, TQTypeOK
<1>2. n \in Nat /\ n > 0 /\ h = queue[1] /\ h \in Tasks
  BY <1>1, LenProperties, EmptySeq, HeadTailProperties
<1>3. phase[h] = "QUEUED"
  BY <1>2 DEF TQInv, QueueIsExact
<1>4. queue' \in Seq(Tasks) /\ Len(queue') = n - 1 /\ \A j \in 1..(n - 1) : queue'[j] = queue[j + 1]
  BY <1>1, HeadTailProperties
<1>5. \A j, k \in 1..n : queue[j] = queue[k] => j = k
  BY DEF TQInv, QueueIsExact
<1>6. \A j, k \in 1..(n - 1) : queue'[j] = queue'[k] => j = k
  BY <1>2, <1>4, <1>5
<1>7. ASSUME NEW u \in Tasks
      PROVE  (\E j \in 1..(n - 1) : queue'[j] = u) <=> u # h /\ \E j \in 1..n : queue[j] = u
  <2>1. ASSUME NEW j \in 1..(n - 1), queue'[j] = u PROVE u # h /\ \E k \in 1..n : queue[k] = u
    BY <2>1, <1>2, <1>4, <1>5
  <2>2. ASSUME u # h, NEW k \in 1..n, queue[k] = u PROVE \E j \in 1..(n - 1) : queue'[j] = u
    <3>1. k - 1 \in 1..(n - 1) /\ queue'[k - 1] = u
      BY <2>2, <1>2, <1>4
    <3> QED
      BY <3>1
  <2> QED
    BY <2>1, <2>2
<1> HIDE DEF n, h
<1>8. h = Head(queue)
  BY DEF h
<1>9. /\ \A j, k \in 1..Len(queue') : queue'[j] = queue'[k] => j = k
      /\ \A u \in Tasks : (\E j \in 1..Len(queue') : queue'[j] = u)
                          <=> u # h /\ \E j \in 1..Len(queue) : queue[j] = u
  BY <1>4, <1>6, <1>7 DEF n
<1> QED
  BY <1>1, <1>2, <1>3, <1>4, <1>8, <1>9

---------------------------------------------------------------------------
(* The invariant. *)

LEMMA UnfinishedIsFinite == IsFiniteSet(Unfinished) /\ Cardinality(Unfinished) \in Nat
<1>1. Unfinished \in SUBSET Tasks
  BY DEF Unfinished
<1> QED
  BY <1>1, TaskQueueAssumption, FS_Subset, FS_CardinalityType

\* A step after which no task is unfinished that was not.
LEMMA CapacityFrame ==
    ASSUME CapacityKept, Unfinished' \subseteq Unfinished
    PROVE  CapacityKept'
<1>1. Cardinality(Unfinished') <= Cardinality(Unfinished) /\ IsFiniteSet(Unfinished')
  BY UnfinishedIsFinite, FS_Subset
<1>2. Cardinality(Unfinished') \in Nat
  BY <1>1, FS_CardinalityType
<1> QED
  BY <1>1, <1>2, UnfinishedIsFinite, TaskQueueAssumption DEF CapacityKept

LEMMA InitEstablishesTQInv == TQInit => TQInv
<1> SUFFICES ASSUME TQInit PROVE TQInv
  OBVIOUS
<1>1. Unfinished = {} /\ Running = {}
  BY DEF TQInit, Unfinished, Running
<1>2. TQTypeOK /\ QueueIsExact
  <2>1. <<>> \in Seq(Tasks) /\ Len(<<>>) = 0
    BY EmptySeq
  <2>2. queue = <<>> /\ \A t \in Tasks : phase[t] = "IDLE"
    BY DEF TQInit
  <2>3. QueueIsExact
    BY <2>1, <2>2 DEF QueueIsExact
  <2> QED
    BY <2>1, <2>3 DEF TQInit, TQTypeOK, Phases
<1>3. ClosedDrains
  BY <1>1 DEF TQInit, ClosedDrains
<1>4. CapacityKept
  BY <1>1, FS_EmptySet, TaskQueueAssumption DEF CapacityKept
<1> QED
  BY <1>2, <1>3, <1>4 DEF TQInv

\* Every operation keeps the invariant.
LEMMA TQStep ==
    ASSUME TQInv, [TQNext]_tqvars
    PROVE  TQInv'
<1> USE DEF TQInv
<1>0. /\ \A t \in Tasks : t \in Running <=> phase[t] = "RUNNING"
      /\ \A t \in Tasks : t \in Unfinished <=> phase[t] \in {"QUEUED", "RUNNING"}
      /\ \A t \in Tasks : t \in Running' <=> phase'[t] = "RUNNING"
      /\ \A t \in Tasks : t \in Unfinished' <=> phase'[t] \in {"QUEUED", "RUNNING"}
      /\ Running \subseteq Tasks /\ Unfinished \subseteq Tasks
      /\ Running' \subseteq Tasks /\ Unfinished' \subseteq Tasks
  BY DEF Running, Unfinished
<1>1. CASE Open
  <2>1. UNCHANGED <<phase, queue, doomed>> /\ open' = TRUE
    BY <1>1 DEF Open
  <2> QED
    BY <2>1 DEF TQTypeOK, QueueIsExact, ClosedDrains, CapacityKept, Running, Unfinished
<1>2. CASE Start
  <2>1. PICK h \in Tasks :
             /\ h = Head(queue) /\ phase[h] = "QUEUED" /\ phase' = [phase EXCEPT ![h] = "RUNNING"]
             /\ queue' \in Seq(Tasks)
             /\ \A j, k \in 1..Len(queue') : queue'[j] = queue'[k] => j = k
             /\ \A u \in Tasks : (\E j \in 1..Len(queue') : queue'[j] = u)
                                 <=> u # h /\ \E j \in 1..Len(queue) : queue[j] = u
    BY <1>2, StartEffect
  <2>2. UNCHANGED <<doomed, open>> /\ open
    BY <1>2 DEF Start
  <2>3. Running' = Running \cup {h}
    BY <1>0, <2>1 DEF TQTypeOK
  <2>4. TQTypeOK' /\ ClosedDrains'
    BY <2>1, <2>2, <2>3 DEF TQTypeOK, ClosedDrains, Phases
  <2>5. QueueIsExact'
    BY <2>1 DEF QueueIsExact, TQTypeOK
  <2>6. Unfinished' \subseteq Unfinished
    BY <1>0, <2>1 DEF TQTypeOK
  <2> QED
    BY <2>4, <2>5, <2>6, CapacityFrame
<1>3. CASE Close
  <2>1. /\ phase' = [t \in Tasks |-> IF phase[t] = "QUEUED" THEN "CANCELLED" ELSE phase[t]]
        /\ queue' = <<>> /\ doomed' = Running /\ open' = FALSE
    BY <1>3 DEF Close
  <2>2. Len(queue') = 0 /\ queue' \in Seq(Tasks)
    BY <2>1, EmptySeq
  <2>3. TQTypeOK' /\ ClosedDrains'
    BY <1>0, <2>1, <2>2 DEF TQTypeOK, ClosedDrains, Phases, Ended
  <2>4. QueueIsExact'
    BY <2>1, <2>2 DEF QueueIsExact
  <2>5. Unfinished' \subseteq Unfinished
    BY <1>0, <2>1
  <2> QED
    BY <2>3, <2>4, <2>5, CapacityFrame
<1>4. ASSUME NEW S \in SUBSET Tasks, Reset(S) PROVE TQInv'
  <2>1. /\ phase' = [t \in Tasks |-> IF t \in S THEN "IDLE" ELSE phase[t]]
        /\ UNCHANGED <<queue, doomed, open>> /\ S \cap Unfinished = {}
    BY <1>4 DEF Reset
  <2>2. Unfinished' = Unfinished /\ Running' = Running
    BY <1>0, <2>1
  <2>3. \A t \in Tasks : phase'[t] = "QUEUED" <=> phase[t] = "QUEUED"
    BY <1>0, <2>1
  <2> QED
    BY <2>1, <2>2, <2>3 DEF TQTypeOK, QueueIsExact, ClosedDrains, CapacityKept, Phases
<1>5. ASSUME NEW t \in Tasks, Accept(t) PROVE TQInv'
  <2>1. /\ phase' = [phase EXCEPT ![t] = "QUEUED"] /\ queue' = Append(queue, t)
        /\ UNCHANGED <<doomed, open>> /\ open /\ phase[t] = "IDLE" /\ Cardinality(Unfinished) < MaxTasks
    BY <1>5 DEF Accept
  <2>2. /\ queue' \in Seq(Tasks)
        /\ \A j, k \in 1..Len(queue') : queue'[j] = queue'[k] => j = k
        /\ \A u \in Tasks : (\E j \in 1..Len(queue') : queue'[j] = u)
                            <=> u = t \/ \E j \in 1..Len(queue) : queue[j] = u
    <3>1. \A j \in 1..Len(queue) : queue[j] # t
      BY <2>1 DEF QueueIsExact
    <3> QED
      BY <2>1, <3>1, AppendEffect DEF QueueIsExact, TQTypeOK
  <2>3. QueueIsExact'
    BY <2>1, <2>2 DEF QueueIsExact, TQTypeOK
  <2>8. Running' = Running
    BY <1>0, <2>1 DEF TQTypeOK
  <2>4. TQTypeOK' /\ ClosedDrains'
    BY <2>1, <2>2, <2>8 DEF TQTypeOK, ClosedDrains, Phases
  <2>5. Unfinished' = Unfinished \cup {t} /\ t \notin Unfinished
    BY <1>0, <2>1 DEF TQTypeOK
  <2>6. Cardinality(Unfinished') = Cardinality(Unfinished) + 1
    BY <2>5, UnfinishedIsFinite, FS_AddElement
  <2>7. CapacityKept'
    BY <2>1, <2>6, UnfinishedIsFinite, TaskQueueAssumption DEF CapacityKept
  <2> QED
    BY <2>3, <2>4, <2>7
<1>6. ASSUME NEW t \in Tasks, Yield(t) PROVE TQInv'
  <2>1. /\ phase' = [phase EXCEPT ![t] = "QUEUED"] /\ queue' = Append(queue, t)
        /\ UNCHANGED <<doomed, open>> /\ open /\ phase[t] = "RUNNING" /\ t \notin doomed
    BY <1>6, <1>0 DEF Yield
  <2>2. /\ queue' \in Seq(Tasks)
        /\ \A j, k \in 1..Len(queue') : queue'[j] = queue'[k] => j = k
        /\ \A u \in Tasks : (\E j \in 1..Len(queue') : queue'[j] = u)
                            <=> u = t \/ \E j \in 1..Len(queue) : queue[j] = u
    <3>1. \A j \in 1..Len(queue) : queue[j] # t
      BY <2>1 DEF QueueIsExact
    <3> QED
      BY <2>1, <3>1, AppendEffect DEF QueueIsExact, TQTypeOK
  <2>3. QueueIsExact'
    BY <2>1, <2>2 DEF QueueIsExact, TQTypeOK
  <2>4. TQTypeOK' /\ ClosedDrains'
    BY <1>0, <2>1, <2>2 DEF TQTypeOK, ClosedDrains, Phases
  <2>5. Unfinished' \subseteq Unfinished
    BY <1>0, <2>1 DEF TQTypeOK
  <2> QED
    BY <2>3, <2>4, <2>5, CapacityFrame
<1>7. ASSUME NEW t \in Tasks, Finish(t) \/ Abandon(t) PROVE TQInv'
  <2>1. PICK how \in Ended : /\ phase' = [phase EXCEPT ![t] = how]
                             /\ phase[t] = "RUNNING" /\ UNCHANGED <<queue, open>>
                             /\ doomed' = doomed \ {t}
    BY <1>7, <1>0 DEF Finish, Abandon, Ended, ClosedDrains
  <2>2. \A u \in Tasks : phase'[u] = "QUEUED" <=> phase[u] = "QUEUED"
    BY <2>1 DEF TQTypeOK, Ended
  <2>3. QueueIsExact'
    BY <2>1, <2>2 DEF QueueIsExact
  <2>4. Running' = Running \ {t} /\ Unfinished' \subseteq Unfinished
    BY <1>0, <2>1 DEF TQTypeOK, Ended
  <2>5. TQTypeOK' /\ ClosedDrains'
    BY <2>1, <2>4 DEF TQTypeOK, ClosedDrains, Phases
  <2> QED
    BY <2>3, <2>4, <2>5, CapacityFrame
<1>8. ASSUME NEW t \in Tasks, CancelTask(t) PROVE TQInv'
  <2>1. CASE phase[t] = "QUEUED"
    <3>1. /\ phase' = [phase EXCEPT ![t] = "CANCELLED"] /\ queue' = Without(queue, t)
          /\ UNCHANGED <<doomed, open>>
      BY <1>8, <2>1, <1>0 DEF CancelTask
    <3>2. \E j \in 1..Len(queue) : queue[j] = t
      BY <2>1 DEF QueueIsExact
    <3>3. /\ queue' \in Seq(Tasks)
          /\ \A j, k \in 1..Len(queue') : queue'[j] = queue'[k] => j = k
          /\ \A u \in Tasks : (\E j \in 1..Len(queue') : queue'[j] = u)
                              <=> u # t /\ \E j \in 1..Len(queue) : queue[j] = u
      <4> DEFINE new == Without(queue, t)
      <4>1. /\ new \in Seq(Tasks)
            /\ \A j, k \in 1..Len(new) : new[j] = new[k] => j = k
            /\ \A u \in Tasks : (\E j \in 1..Len(new) : new[j] = u)
                                <=> u # t /\ \E j \in 1..Len(queue) : queue[j] = u
        BY <3>2, WithoutEffect DEF QueueIsExact, TQTypeOK
      <4>2. queue' = new
        BY <3>1
      <4> HIDE DEF new
      <4> QED
        BY ONLY <4>1, <4>2
    <3>4. QueueIsExact'
      BY <3>1, <3>3 DEF QueueIsExact, TQTypeOK
    <3>5. open
      BY <3>2, EmptySeq DEF ClosedDrains
    <3>6. Running' = Running /\ Unfinished' \subseteq Unfinished
      BY <1>0, <2>1, <3>1 DEF TQTypeOK
    <3>7. TQTypeOK' /\ ClosedDrains'
      BY <3>1, <3>3, <3>5, <3>6 DEF TQTypeOK, ClosedDrains, Phases, Ended
    <3> QED
      BY <3>4, <3>6, <3>7, CapacityFrame
  <2>2. CASE phase[t] # "QUEUED"
    <3>1. doomed' = doomed \cup {t} /\ t \in Running /\ UNCHANGED <<phase, queue, open>>
      BY <1>8, <2>2 DEF CancelTask
    <3>2. Running' = Running /\ Unfinished' = Unfinished
      BY <3>1 DEF Running, Unfinished
    <3> QED
      BY <3>1, <3>2 DEF TQTypeOK, QueueIsExact, ClosedDrains, CapacityKept
  <2> QED
    BY <2>1, <2>2
<1>9. CASE UNCHANGED tqvars
  BY <1>9 DEF tqvars, TQTypeOK, QueueIsExact, ClosedDrains, CapacityKept, Running, Unfinished
<1> QED
  BY <1>1, <1>2, <1>3, <1>4, <1>5, <1>6, <1>7, <1>8, <1>9 DEF TQNext, SliceEnds

\* The queue never holds a task twice nor loses one, never has more unfinished
\* tasks than its capacity, and once closed it only lets doomed slices end.
THEOREM QueueInvariance == TQSafety => []TQInv
<1>1. TQInv /\ [TQNext]_tqvars => TQInv'
  BY TQStep
<1> QED
  BY <1>1, InitEstablishesTQInv, PTL DEF TQSafety

---------------------------------------------------------------------------
(* The server. *)

\* What the flags of one exchange say about each other, and about its handler
\* in state.
Consistent(e, state) ==
    /\ e.request_finished => e.in_use
    /\ e.response_ready => e.request_finished /\ e.route_dispatched
    /\ e.head_notified => e.response_ready
    /\ e.in_use =>
          /\ e.route_dispatched => e.request_finished
          /\ e.handler_submitted => e.route_dispatched
          /\ ~e.handler_submitted => state = "IDLE"
          /\ e.handler_submitted /\ e.response_ready /\ ~e.head_notified => e.response = "route"
          /\ e.handler_submitted /\ e.head_notified =>
                \/ e.response = "route" /\ state = "COMPLETED"
                \/ e.response = "500" /\ state \in Ended

FlagsInv == \A s \in Slots : Consistent(exchange[s], phase[s])

\* The exchange of an unfinished handler.
Pinned(e) == e.in_use /\ e.request_finished /\ e.route_dispatched /\ e.handler_submitted /\ ~e.head_notified

PinInv == \A s \in Slots : phase[s] \in {"QUEUED", "RUNNING"} => Pinned(exchange[s])

HolderInv == holder # Nobody => phase[holder] = "RUNNING" /\ verdict[holder] = "none" /\ todo \subseteq InUse

Idle(t) == phase[t] \notin {"QUEUED", "RUNNING"}

StageInv ==
    /\ app \in {"gone", "down", "submit_head"} => \A t \in ServerTasks : Idle(t)
    /\ app \in {"init_router", "submit_router", "unwind_flag", "unwind_cancel", "unwind_wait"} =>
          \A t \in {RouterTask} \cup Slots : Idle(t)
    /\ app \in {"wait_router", "join"} => Idle(HeadTask)
    /\ app = "join" => Idle(RouterTask) /\ \A s \in Slots : Idle(s) \/ s \in joining \/ s = waiting
    /\ app = "submit_head" => phase[HeadTask] = "IDLE"
    /\ app = "submit_router" => phase[RouterTask] = "IDLE"
    /\ waiting # Nobody \/ joining # {} => app = "join"

SrvInv == TypeOK /\ TQInv /\ FlagsInv /\ PinInv /\ HolderInv /\ StageInv

---------------------------------------------------------------------------
(* Records: what the *_locked methods make of one exchange. *)

\* The stage of a connection and its answer, as HttpService sees them.
AnsweringNow(e) == e.in_use /\ e.response_ready /\ e.head_notified
Stage(e) == IF ~e.in_use THEN "free"
            ELSE IF AnsweringNow(e) THEN "answering"
            ELSE IF e.request_finished THEN "pending" ELSE "reading"
Reply(e) == IF AnsweringNow(e) THEN e.response ELSE "none"

\* One exchange may become another in one step of HttpService, or in none.
Moves(e, r) ==
    \/ Stage(r) = Stage(e) /\ Reply(r) = Reply(e)
    \/ Stage(e) = "free" /\ Stage(r) = "reading" /\ Reply(r) = "none"
    \/ Stage(e) = "reading" /\ Stage(r) = "pending" /\ Reply(r) = "none"
    \/ Stage(e) = "reading" /\ Stage(r) = "answering" /\ Reply(r) = "refused"
    \/ Stage(e) = "pending" /\ Stage(r) = "answering" /\ Reply(r) \in {"404", "503", "500", "route"}
    \/ Stage(e) \in {"answering", "reading"} /\ Stage(r) = "free" /\ Reply(r) = "none"

LEMMA ReleasedEffect ==
    ASSUME NEW e \in Exchanges, NEW state
    PROVE  /\ Released(e) \in Exchanges /\ ~Released(e).in_use
           /\ Consistent(Released(e), state)
           /\ Stage(Released(e)) = "free" /\ Reply(Released(e)) = "none"
BY DEF Released, Exchanges, Consistent, Stage, Reply, AnsweringNow

LEMMA BlankEffect ==
    ASSUME NEW state
    PROVE  /\ Blank \in Exchanges /\ Consistent(Blank, state)
           /\ Stage(Blank) = "free" /\ Reply(Blank) = "none"
<1>1. 0 \in 0..(ResponseChunks - 1) /\ 0 \in 0..MaxSlices
  BY HttpServerAssumption
<1> QED
  BY <1>1 DEF Blank, Exchanges, Responses, Consistent, Stage, Reply, AnsweringNow

\* send_one_locked on an exchange in use.
LEMMA SentEffect ==
    ASSUME NEW e \in Exchanges, NEW state, Consistent(e, state), e.in_use, NEW r \in Sent(e)
    PROVE  /\ r \in Exchanges /\ Consistent(r, state)
           /\ Pinned(e) => r = e
           /\ \/ Stage(r) = Stage(e) /\ Reply(r) = Reply(e)
              \/ Stage(e) = "answering" /\ Stage(r) = "free" /\ Reply(r) = "none"
<1>1. CASE r = e
  BY <1>1
<1>2. CASE e.response_ready /\ e.head_notified /\ r = Released(e)
  <2>1. Stage(e) = "answering" /\ ~Pinned(e)
    BY <1>2 DEF Stage, AnsweringNow, Pinned
  <2> QED
    BY <1>2, <2>1, ReleasedEffect
<1>3. CASE /\ e.response_ready /\ e.head_notified /\ e.response_offset + 1 < ResponseChunks
           /\ r = [e EXCEPT !.response_offset = @ + 1]
  <2>1. e.response_offset + 1 \in 0..(ResponseChunks - 1)
    BY <1>3, HttpServerAssumption DEF Exchanges
  <2>2. r \in Exchanges
    BY <1>3, <2>1 DEF Exchanges
  <2> QED
    BY <1>3, <2>2 DEF Exchanges, Consistent, Pinned, Stage, Reply, AnsweringNow
<1> QED
  BY <1>1, <1>2, <1>3 DEF Sent

\* receive_one_locked on an exchange in use.
LEMMA ReceivedEffect ==
    ASSUME NEW e \in Exchanges, NEW state, Consistent(e, state), e.in_use, NEW r \in Received(e)
    PROVE  /\ r \in Exchanges /\ Consistent(r, state)
           /\ e.request_finished => r = e
           /\ \/ Stage(r) = Stage(e) /\ Reply(r) = Reply(e)
              \/ Stage(e) = "reading" /\ Stage(r) = "free" /\ Reply(r) = "none"
              \/ Stage(e) = "reading" /\ Stage(r) = "pending" /\ Reply(r) = "none"
              \/ Stage(e) = "reading" /\ Stage(r) = "answering" /\ Reply(r) = "refused"
<1>1. CASE r = e
  BY <1>1
<1>2. CASE ~e.request_finished /\ r = Released(e)
  <2>1. Stage(e) = "reading"
    BY <1>2 DEF Stage, AnsweringNow, Consistent
  <2> QED
    BY <1>2, <2>1, ReleasedEffect
<1>3. ASSUME ~e.request_finished, NEW p \in Paths, r = [e EXCEPT !.request = p, !.request_finished = TRUE]
      PROVE  /\ r \in Exchanges /\ Consistent(r, state)
             /\ Stage(e) = "reading" /\ Stage(r) = "pending" /\ Reply(r) = "none"
  BY <1>3 DEF Exchanges, Consistent, Stage, Reply, AnsweringNow
<1>4. CASE /\ ~e.request_finished
           /\ r = [Simple(e, "refused") EXCEPT !.request_finished = TRUE, !.route_dispatched = TRUE]
  BY <1>4 DEF Simple, Exchanges, Responses, Consistent, Stage, Reply, AnsweringNow
<1> QED
  BY <1>1, <1>2, <1>3, <1>4 DEF Received

LEMMA ServicedEffect ==
    ASSUME NEW e \in Exchanges, NEW state, Consistent(e, state), e.in_use, NEW r \in Serviced(e)
    PROVE  r \in Exchanges /\ Consistent(r, state) /\ (Pinned(e) => r = e) /\ Moves(e, r)
<1>1. PICK m \in Received(e) : IF m.in_use THEN r \in Sent(m) ELSE r = m
  BY DEF Serviced
<1>2. /\ m \in Exchanges /\ Consistent(m, state)
      /\ e.request_finished => m = e
      /\ \/ Stage(m) = Stage(e) /\ Reply(m) = Reply(e)
         \/ Stage(e) = "reading" /\ Stage(m) = "free" /\ Reply(m) = "none"
         \/ Stage(e) = "reading" /\ Stage(m) = "pending" /\ Reply(m) = "none"
         \/ Stage(e) = "reading" /\ Stage(m) = "answering" /\ Reply(m) = "refused"
  BY ReceivedEffect
<1>3. CASE ~m.in_use
  BY <1>1, <1>2, <1>3 DEF Moves, Pinned
<1>4. CASE m.in_use
  <2>1. /\ r \in Exchanges /\ Consistent(r, state)
        /\ Pinned(m) => r = m
        /\ \/ Stage(r) = Stage(m) /\ Reply(r) = Reply(m)
           \/ Stage(m) = "answering" /\ Stage(r) = "free" /\ Reply(r) = "none"
    BY <1>1, <1>2, <1>4, SentEffect
  <2>2. Pinned(e) => r = e
    BY <1>2, <2>1 DEF Pinned
  <2> QED
    BY <1>2, <2>1, <2>2 DEF Moves
<1> QED
  BY <1>3, <1>4

\* The router settles an answer without a handler.
LEMMA SettledEffect ==
    ASSUME NEW e \in Exchanges, NEW state, Consistent(e, state), e.in_use,
           e.request_finished, ~e.route_dispatched, NEW why \in {"404", "503"}
    PROVE  LET r == Simple([e EXCEPT !.route_dispatched = TRUE], why) IN
           r \in Exchanges /\ Consistent(r, state) /\ Moves(e, r) /\ r.in_use /\ ~Pinned(e)
BY DEF Simple, Exchanges, Responses, Consistent, Pinned, Moves, Stage, Reply, AnsweringNow

\* The router submits the handler.
LEMMA SubmittedEffect ==
    ASSUME NEW e \in Exchanges, NEW state, Consistent(e, state), e.in_use,
           e.request_finished, ~e.route_dispatched
    PROVE  LET r == [[e EXCEPT !.route_dispatched = TRUE] EXCEPT !.handler_submitted = TRUE] IN
           /\ state = "IDLE"
           /\ r \in Exchanges /\ Consistent(r, "QUEUED") /\ Pinned(r) /\ Moves(e, r)
BY DEF Exchanges, Consistent, Pinned, Moves, Stage, Reply, AnsweringNow

\* The router looks at the handler's state.
LEMMA NotifiedEffect ==
    ASSUME NEW e \in Exchanges, NEW state, Consistent(e, state), e.in_use
    PROVE  LET r == Notified(e, state) IN
           /\ r \in Exchanges /\ Consistent(r, state) /\ Moves(e, r) /\ r.in_use
           /\ state \notin Ended => r = e
<1>1. CASE ~e.handler_submitted \/ e.head_notified \/ state \notin Ended
  BY <1>1 DEF Notified, Moves
<1>2. CASE /\ e.handler_submitted /\ ~e.head_notified
           /\ state = "COMPLETED" /\ e.response_ready
  BY <1>2 DEF Notified, Ended, Exchanges, Consistent, Moves, Stage, Reply, AnsweringNow
<1>3. CASE /\ e.handler_submitted /\ ~e.head_notified /\ state \in Ended
           /\ ~(state = "COMPLETED" /\ e.response_ready)
  <2>1. Notified(e, state) = Simple(e, "500")
    BY <1>3 DEF Notified
  <2> QED
    BY <1>3, <2>1 DEF Simple, Exchanges, Responses, Consistent, Moves, Stage, Reply, AnsweringNow
<1> QED
  BY <1>1, <1>2, <1>3

\* A running handler writes its response.
LEMMA HandledEffect ==
    ASSUME NEW e \in Exchanges, NEW state, Consistent(e, state), Pinned(e), ~e.response_ready,
           NEW r, \/ r = [e EXCEPT !.response = "route"]
                  \/ r = [e EXCEPT !.response = "route", !.response_ready = TRUE]
                  \/ e.response = "route" /\ r = [e EXCEPT !.response_ready = TRUE]
    PROVE  r \in Exchanges /\ Consistent(r, state) /\ Pinned(r) /\ Moves(e, r)
BY DEF Exchanges, Responses, Consistent, Pinned, Moves, Stage, Reply, AnsweringNow

---------------------------------------------------------------------------
(* The pool is used within its contract. *)

LEMMA TaskPlaces ==
    /\ HeadTask \in Tasks /\ RouterTask \in Tasks /\ Slots \subseteq Tasks /\ Others \subseteq Tasks
    /\ ServerTasks = {HeadTask, RouterTask} \cup Slots
    /\ HeadTask # RouterTask /\ HeadTask \notin Slots /\ RouterTask \notin Slots
    /\ ServerTasks \cap Others = {}
    /\ Nobody \notin Slots /\ HeadTask # Nobody /\ RouterTask # Nobody
BY HttpServerAssumption DEF ServerTasks

LEMMA IdleIsNotUnfinished == \A t \in Tasks : Idle(t) <=> t \notin Unfinished
BY DEF Idle, Unfinished

LEMMA ResetOne ==
    ASSUME TQTypeOK, NEW t \in Tasks, Idle(t),
           phase' = [phase EXCEPT ![t] = "IDLE"], UNCHANGED <<queue, doomed, open>>
    PROVE  TQNext
<1>1. phase' = [u \in Tasks |-> IF u \in {t} THEN "IDLE" ELSE phase[u]]
  BY DEF TQTypeOK
<1>2. {t} \in SUBSET Tasks /\ {t} \cap Unfinished = {}
  BY IdleIsNotUnfinished
<1>3. Reset({t})
  BY <1>1, <1>2 DEF Reset
<1> QED
  BY <1>2, <1>3 DEF TQNext

LEMMA SubmitIsAccept ==
    ASSUME NEW t \in Tasks, CanSubmit, phase[t] = "IDLE", Submit(t)
    PROVE  TQNext
<1>1. Accept(t)
  BY DEF CanSubmit, Submit, Accept
<1> QED
  BY <1>1 DEF TQNext

LEMMA ContractStep ==
    ASSUME SrvInv, [Next]_vars
    PROVE  [TQNext]_tqvars
<1> USE DEF SrvInv, TQInv
<1> USE TaskPlaces
<1> DEFINE Goal == TQNext \/ UNCHANGED tqvars
<1>1. ASSUME OpenPool \/ ClosePool \/ StartSlice PROVE Goal
  BY <1>1 DEF OpenPool, ClosePool, StartSlice, TQNext
<1>2. ASSUME NEW t \in ServerTasks, EndSlice(t) PROVE Goal
  <2>1. t \in Tasks /\ SliceEnds(t)
    BY <1>2 DEF EndSlice, SliceEnds
  <2> QED
    BY <2>1 DEF TQNext
<1>3. ASSUME NEW t \in Others, OtherTask(t) PROVE Goal
  <2>1. t \in Tasks /\ {t} \in SUBSET Tasks
    OBVIOUS
  <2> QED
    BY <1>3, <2>1 DEF OtherTask, TQNext
<1>4. ASSUME HeadEnter PROVE Goal
  <2>1. CASE running /\ \E s \in Slots \ InUse : phase' = [phase EXCEPT ![s] = "IDLE"]
    <3>1. PICK s \in Slots \ InUse : phase' = [phase EXCEPT ![s] = "IDLE"]
      BY <2>1
    <3>2. Idle(s) /\ s \in Tasks
      BY DEF PinInv, Pinned, InUse, Idle
    <3> QED
      BY <1>4, <3>1, <3>2, ResetOne DEF HeadEnter
  <2>2. CASE phase' = phase
    BY <1>4, <2>2 DEF HeadEnter, tqvars
  <2> QED
    BY <1>4, <2>1, <2>2 DEF HeadEnter, AcceptOne
<1>5. ASSUME NEW s \in Slots, RouterDispatch(s) PROVE Goal
  <2>1. CASE Submit(s) /\ CanSubmit
    <3>1. s \in InUse /\ ~exchange[s].route_dispatched
      BY <1>5 DEF RouterDispatch, HolderInv
    <3>2. phase[s] = "IDLE"
      BY <3>1 DEF FlagsInv, Consistent, InUse
    <3> QED
      BY <2>1, <3>2, SubmitIsAccept
  <2> QED
    BY <1>5, <2>1 DEF RouterDispatch
<1>6. ASSUME StartListener \/ InitRouter PROVE Goal
  <2>1. /\ StartListener => Idle(HeadTask) /\ phase' = [phase EXCEPT ![HeadTask] = "IDLE"]
        /\ InitRouter => Idle(RouterTask) /\ phase' = [phase EXCEPT ![RouterTask] = "IDLE"]
        /\ UNCHANGED <<queue, doomed, open>>
    BY <1>6 DEF StartListener, InitRouter, InitTask, StageInv, At
  <2> QED
    BY <1>6, <2>1, ResetOne
<1>7. ASSUME SubmitHead \/ SubmitRouter PROVE Goal
  BY <1>7, SubmitIsAccept DEF SubmitHead, SubmitRouter, StageInv, At
<1>8. ASSUME CancelPersistent \/ \E s \in Slots : CancelHandler(s) PROVE Goal
  <2>1. PICK t \in Tasks : Cancel(t)
    BY <1>8 DEF CancelPersistent, CancelHandler
  <2> QED
    BY <2>1 DEF Cancel, TQNext
<1>9. ASSUME Destroy PROVE Goal
  <2>1. ServerTasks \in SUBSET Tasks /\ ServerTasks \cap Unfinished = {}
    BY <1>9, IdleIsNotUnfinished DEF Destroy, At, StageInv
  <2>2. Reset(ServerTasks)
    BY <1>9, <2>1 DEF Destroy, Reset
  <2> QED
    BY <2>1, <2>2 DEF TQNext
<1>10. ASSUME \/ \E s \in Slots : HeadVisit(s) \/ RouterCheck(s) \/ HandlerStep(s) \/ WaitHandler(s)
              \/ Leave(HeadTask) \/ Leave(RouterTask) \/ RouterEnter
              \/ InitServer \/ BeginStop \/ ClearRunning \/ Unwound
              \/ WaitHead \/ WaitRouter \/ ReleaseAll
              \/ \E p \in Paths : AddRoute(p)
              \/ UNCHANGED vars
       PROVE Goal
  <2>1. UNCHANGED tqvars
    BY <1>10 DEF HeadVisit, RouterCheck, HandlerStep, HandlerAppends, HandlerFinishes,
       HandlerResponds, HandlerReturns, Handle, WaitHandler, Leave, RouterEnter, InitServer,
       BeginStop, ClearRunning, Unwound, WaitHead, WaitRouter, ReleaseAll, AddRoute, vars
  <2> QED
    BY <2>1
<1> HIDE DEF Goal
<1>11. Goal
  BY <1>1, <1>2, <1>3, <1>4, <1>5, <1>6, <1>7, <1>8, <1>9, <1>10
  DEF Next, HeadStep, RouterStep, CallSteps, StartSteps, StopSteps
<1> QED
  BY <1>11 DEF Goal

---------------------------------------------------------------------------
(* Frames: steps that touch the pool only, or one exchange only. *)

\* Starting, closing and cancelling change the state of queued tasks only.
LEMMA QueuedOnly ==
    ASSUME TQInv, Start \/ Close \/ (\E u \in Tasks : Cancel(u))
    PROVE  \A t \in Tasks : phase[t] # "QUEUED" => phase'[t] = phase[t]
<1> USE DEF TQInv, TQTypeOK
<1>1. CASE Start
  BY <1>1, StartEffect
<1>2. CASE Close
  BY <1>2 DEF Close
<1>3. ASSUME NEW u \in Tasks, Cancel(u)
      PROVE  \A t \in Tasks : phase[t] # "QUEUED" => phase'[t] = phase[t]
  BY <1>3 DEF Cancel, CancelTask, tqvars
<1> QED
  BY <1>1, <1>2, <1>3

\* The end of a slice changes the state of a running task only.
LEMMA SliceEndsOne ==
    ASSUME TQInv, NEW t \in Tasks, SliceEnds(t)
    PROVE  phase[t] = "RUNNING" /\ \A u \in Tasks : u # t => phase'[u] = phase[u]
BY DEF TQInv, TQTypeOK, ClosedDrains, SliceEnds, Yield, Finish, Abandon, Running

\* No exchange changes, and no idle server task.
LEMMA ExchangeFrame ==
    ASSUME FlagsInv, PinInv, exchange' = exchange,
           \A s \in Slots : Idle(s) => phase'[s] = phase[s]
    PROVE  FlagsInv' /\ PinInv'
<1>1. ASSUME NEW s \in Slots PROVE Consistent(exchange[s], phase'[s])
  <2>1. CASE Idle(s)
    BY <2>1 DEF FlagsInv
  <2>2. CASE ~Idle(s)
    BY <2>2 DEF FlagsInv, PinInv, Idle, Consistent, Pinned
  <2> QED
    BY <2>1, <2>2
<1>2. ASSUME NEW s \in Slots, phase'[s] \in {"QUEUED", "RUNNING"} PROVE Pinned(exchange[s])
  BY <1>2 DEF PinInv, Idle
<1> QED
  BY <1>1, <1>2 DEF FlagsInv, PinInv

\* One exchange changes, and at most the state of its own handler.
LEMMA ExchangeOne ==
    ASSUME TypeOK, FlagsInv, PinInv, NEW s \in Slots, NEW r \in Exchanges,
           exchange' = [exchange EXCEPT ![s] = r],
           Consistent(r, phase'[s]), phase'[s] \in {"QUEUED", "RUNNING"} => Pinned(r),
           \A u \in Slots : u # s => phase'[u] = phase[u]
    PROVE  FlagsInv' /\ PinInv'
<1>1. \A u \in Slots : exchange'[u] = IF u = s THEN r ELSE exchange[u]
  BY DEF TypeOK
<1> QED
  BY <1>1 DEF FlagsInv, PinInv

LEMMA HolderFrame ==
    ASSUME holder' = holder, todo' \subseteq todo, TypeOK, HolderInv,
           holder # Nobody => /\ phase'[holder] = "RUNNING" /\ verdict'[holder] = "none"
                              /\ \A s \in todo' : exchange'[s].in_use
    PROVE  HolderInv'
BY DEF HolderInv, InUse, TypeOK

LEMMA StageFrame ==
    ASSUME StageInv, UNCHANGED <<app, joining, waiting>>,
           \A t \in ServerTasks : Idle(t) => phase'[t] \in {phase[t], "IDLE"}
    PROVE  StageInv'
<1>1. \A t \in {HeadTask, RouterTask} \cup Slots : Idle(t) => phase'[t] \notin {"QUEUED", "RUNNING"}
  BY DEF ServerTasks, Idle
<1>2. /\ phase[HeadTask] = "IDLE" => phase'[HeadTask] = "IDLE"
      /\ phase[RouterTask] = "IDLE" => phase'[RouterTask] = "IDLE"
  BY DEF ServerTasks, Idle
<1> QED
  BY <1>1, <1>2 DEF StageInv, Idle, ServerTasks

\* A handler's return counts its slice.
LEMMA ReturnedEffect ==
    ASSUME NEW e \in Exchanges, NEW state, Consistent(e, state)
    PROVE  LET r == [e EXCEPT !.slices = IF @ < MaxSlices THEN @ + 1 ELSE @] IN
           /\ r \in Exchanges /\ Consistent(r, state) /\ (Pinned(e) => Pinned(r)) /\ Moves(e, r)
           /\ r.in_use = e.in_use
<1> DEFINE n == IF e.slices < MaxSlices THEN e.slices + 1 ELSE e.slices
<1>1. n \in 0..MaxSlices
  BY HttpServerAssumption DEF Exchanges
<1> HIDE DEF n
<1>2. LET r == [e EXCEPT !.slices = n] IN
           /\ r \in Exchanges /\ Consistent(r, state) /\ (Pinned(e) => Pinned(r)) /\ Moves(e, r)
           /\ r.in_use = e.in_use
  BY <1>1 DEF Exchanges, Consistent, Pinned, Moves, Stage, Reply, AnsweringNow
<1> QED
  BY <1>2 DEF n

---------------------------------------------------------------------------
(* The invariant is inductive: the steps of the pool and of the callbacks. *)

Kept == FlagsInv' /\ PinInv' /\ HolderInv' /\ StageInv'

\* A callback that keeps the mutex is still running after a step that changes
\* queued tasks only.
LEMMA PoolStep ==
    ASSUME SrvInv, OpenPool \/ ClosePool \/ StartSlice
                   \/ (\E t \in ServerTasks : EndSlice(t)) \/ (\E t \in Others : OtherTask(t))
    PROVE  Kept
<1> USE DEF SrvInv
<1> USE TaskPlaces
<1>0. holder # Nobody => holder \in ServerTasks
  BY DEF TypeOK
<1>1. ASSUME UNCHANGED <<app, joining, waiting, exchange, holder, todo>>,
             \A t \in ServerTasks : Idle(t) => phase'[t] = phase[t],
             holder # Nobody => phase'[holder] = phase[holder] /\ verdict'[holder] = verdict[holder]
      PROVE  Kept
  <2>1. FlagsInv' /\ PinInv'
    BY <1>1, ExchangeFrame
  <2>2. HolderInv'
    BY <1>1 DEF HolderInv, InUse
  <2>3. StageInv'
    BY <1>1, StageFrame
  <2> QED
    BY <2>1, <2>2, <2>3 DEF Kept
<1>2. ASSUME OpenPool \/ ClosePool \/ StartSlice PROVE Kept
  <2>1. \A t \in Tasks : phase[t] # "QUEUED" => phase'[t] = phase[t]
    BY <1>2, QueuedOnly DEF OpenPool, ClosePool, StartSlice, Open
  <2>2. UNCHANGED <<app, joining, waiting, exchange, holder, todo, verdict>>
    BY <1>2 DEF OpenPool, ClosePool, StartSlice, srvvars
  <2> QED
    BY <1>0, <1>1, <2>1, <2>2 DEF Idle, HolderInv
<1>3. ASSUME NEW t \in ServerTasks, EndSlice(t) PROVE Kept
  <2>1. t \in Tasks /\ SliceEnds(t) /\ verdict[t] # "none"
    BY <1>3 DEF EndSlice, SliceEnds
  <2>2. phase[t] = "RUNNING" /\ \A u \in Tasks : u # t => phase'[u] = phase[u]
    BY <2>1, SliceEndsOne
  <2>3. /\ UNCHANGED <<app, joining, waiting, exchange, holder, todo>>
        /\ \A u \in ServerTasks : u # t => verdict'[u] = verdict[u]
    BY <1>3 DEF EndSlice, Return, TypeOK
  <2>4. holder # t
    BY <2>1 DEF HolderInv, TypeOK
  <2> QED
    BY <1>0, <1>1, <2>2, <2>3, <2>4 DEF Idle
<1>4. ASSUME NEW t \in Others, OtherTask(t) PROVE Kept
  <2>1. \A u \in ServerTasks : phase'[u] = phase[u]
    <3>1. CASE Reset({t})
      BY <3>1 DEF Reset
    <3>2. CASE Accept(t)
      BY <3>2 DEF Accept, TypeOK
    <3>3. CASE SliceEnds(t)
      BY <3>3, SliceEndsOne
    <3> QED
      BY <1>4, <3>1, <3>2, <3>3 DEF OtherTask
  <2>2. UNCHANGED <<app, joining, waiting, exchange, holder, todo, verdict>>
    BY <1>4 DEF OtherTask, srvvars
  <2> QED
    BY <1>0, <1>1, <2>1, <2>2
<1> QED
  BY <1>2, <1>3, <1>4

LEMMA HeadKeeps ==
    ASSUME SrvInv, HeadStep
    PROVE  Kept
<1> USE DEF SrvInv
<1> USE TaskPlaces
<1>1. ASSUME HeadEnter PROVE Kept
  <2>1. /\ UNCHANGED <<app, joining, waiting>> /\ phase[HeadTask] = "RUNNING" /\ verdict[HeadTask] = "none"
        /\ holder = Nobody
    BY <1>1 DEF HeadEnter, Active, Running, Free
  <2>2. CASE running
    <3>1. holder' = HeadTask /\ todo' = {s \in Slots : exchange'[s].in_use} /\ verdict' = verdict /\ AcceptOne
      BY <1>1, <2>2 DEF HeadEnter
    <3>2. CASE UNCHANGED <<exchange, phase>>
      <4>1. FlagsInv' /\ PinInv'
        BY <3>2, ExchangeFrame
      <4>2. HolderInv' /\ StageInv'
        BY <2>1, <3>1, <3>2, StageFrame DEF HolderInv, InUse
      <4> QED
        BY <4>1, <4>2 DEF Kept
    <3>3. CASE ~UNCHANGED <<exchange, phase>>
      <4>1. PICK s \in Slots \ InUse : /\ exchange' = [exchange EXCEPT ![s] = [Blank EXCEPT !.in_use = TRUE]]
                                        /\ phase' = [phase EXCEPT ![s] = "IDLE"]
        BY <3>1, <3>3 DEF AcceptOne
      <4>2. /\ [Blank EXCEPT !.in_use = TRUE] \in Exchanges
            /\ Consistent([Blank EXCEPT !.in_use = TRUE], "IDLE")
        BY BlankEffect DEF Blank, Exchanges, Consistent
      <4>3. /\ phase'[s] = "IDLE" /\ \A u \in Tasks : u # s => phase'[u] = phase[u]
        BY <4>1 DEF TypeOK
      <4>4. FlagsInv' /\ PinInv'
        BY <4>1, <4>2, <4>3, ExchangeOne
      <4>5. HolderInv'
        BY <2>1, <3>1, <4>3 DEF HolderInv, InUse
      <4>6. StageInv'
        <5>1. \A t \in ServerTasks : Idle(t) => phase'[t] \in {phase[t], "IDLE"}
          BY <4>3
        <5> QED
          BY <5>1, <2>1, StageFrame
      <4> QED
        BY <4>4, <4>5, <4>6 DEF Kept
    <3> QED
      BY <3>2, <3>3
  <2>3. CASE ~running
    <3>1. UNCHANGED <<exchange, phase, holder, todo>>
      BY <1>1, <2>3 DEF HeadEnter
    <3> QED
      BY <2>1, <3>1, ExchangeFrame, StageFrame DEF HolderInv, Kept
  <2> QED
    BY <2>2, <2>3
<1>2. ASSUME NEW s \in Slots, HeadVisit(s) PROVE Kept
  <2>1. /\ UNCHANGED <<phase, app, joining, waiting, holder, verdict>>
        /\ s \in todo /\ todo' = todo \ {s} /\ exchange[s].in_use
    BY <1>2 DEF HeadVisit, HolderInv, InUse, tqvars
  <2>2. PICK r \in Serviced(exchange[s]) : exchange' = [exchange EXCEPT ![s] = r]
    BY <1>2 DEF HeadVisit
  <2>3. /\ exchange[s] \in Exchanges /\ Consistent(exchange[s], phase[s])
    BY DEF TypeOK, FlagsInv
  <2>4. r \in Exchanges /\ Consistent(r, phase[s]) /\ (Pinned(exchange[s]) => r = exchange[s])
    BY <2>1, <2>3, ServicedEffect
  <2>5. FlagsInv' /\ PinInv'
    BY <2>1, <2>2, <2>4, ExchangeOne DEF PinInv
  <2>6. \A u \in todo' : exchange'[u].in_use
    BY <1>2, <2>1, <2>2 DEF HolderInv, InUse, TypeOK, HeadVisit
  <2>7. HolderInv'
    BY <2>1, <2>6, HolderFrame DEF HolderInv
  <2> QED
    BY <2>1, <2>5, <2>7, StageFrame DEF Kept
<1>3. ASSUME Leave(HeadTask) PROVE Kept
  BY <1>3, ExchangeFrame, StageFrame DEF Leave, HolderInv, Kept, tqvars
<1> QED
  BY <1>1, <1>2, <1>3 DEF HeadStep

LEMMA RouterKeeps ==
    ASSUME SrvInv, RouterStep
    PROVE  Kept
<1> USE DEF SrvInv
<1> USE TaskPlaces
<1>1. ASSUME RouterEnter PROVE Kept
  BY <1>1, ExchangeFrame, StageFrame
  DEF RouterEnter, HolderInv, Kept, tqvars, Active, Running, Free, InUse
<1>2. ASSUME NEW s \in Slots, RouterDispatch(s) PROVE Kept
  <2> DEFINE e == exchange[s]
  <2>1. /\ UNCHANGED <<app, joining, waiting, holder, verdict>> /\ holder = RouterTask
        /\ s \in todo /\ todo' \subseteq todo /\ e.in_use /\ e.request_finished /\ ~e.route_dispatched
        /\ phase[RouterTask] = "RUNNING" /\ verdict[RouterTask] = "none"
    BY <1>2 DEF RouterDispatch, HolderInv, InUse
  <2>2. e \in Exchanges /\ Consistent(e, phase[s])
    BY DEF TypeOK, FlagsInv
  <2>3. CASE Submit(s) /\ exchange' = [exchange EXCEPT ![s] =
                 [[exchange[s] EXCEPT !.route_dispatched = TRUE] EXCEPT !.handler_submitted = TRUE]]
    <3> DEFINE r == [[e EXCEPT !.route_dispatched = TRUE] EXCEPT !.handler_submitted = TRUE]
    <3>1. r \in Exchanges /\ Consistent(r, "QUEUED") /\ Pinned(r) /\ exchange' = [exchange EXCEPT ![s] = r]
      BY <2>1, <2>2, <2>3, SubmittedEffect
    <3> HIDE DEF r
    <3>2. phase'[s] = "QUEUED" /\ \A t \in Tasks : t # s => phase'[t] = phase[t]
      BY <2>3 DEF Submit, TypeOK
    <3>3. FlagsInv' /\ PinInv'
      BY <3>1, <3>2, ExchangeOne
    <3>4. \A u \in todo' : exchange'[u].in_use
      BY <2>1, <3>1 DEF HolderInv, InUse, TypeOK, Pinned
    <3>5. HolderInv'
      BY <2>1, <3>2, <3>4, HolderFrame
    <3>6. app \in {"wait_head", "wait_router", "up", "stop_flag", "cancel_head", "cancel_router"}
      BY <2>1 DEF StageInv, Idle, ServerTasks, TypeOK, Places
    <3>7. StageInv'
      BY <2>1, <3>2, <3>6 DEF StageInv, Idle, ServerTasks
    <3> QED
      BY <3>3, <3>5, <3>7 DEF Kept
  <2>4. ASSUME NEW why \in {"404", "503"}, UNCHANGED phase,
               exchange' = [exchange EXCEPT ![s] = Simple([exchange[s] EXCEPT !.route_dispatched = TRUE], why)]
        PROVE  Kept
    <3> DEFINE r == Simple([e EXCEPT !.route_dispatched = TRUE], why)
    <3>1. /\ r \in Exchanges /\ Consistent(r, phase[s]) /\ r.in_use /\ ~Pinned(e)
          /\ exchange' = [exchange EXCEPT ![s] = r]
      BY <2>1, <2>2, <2>4, SettledEffect
    <3> HIDE DEF r
    <3>2. FlagsInv' /\ PinInv'
      BY <2>4, <3>1, ExchangeOne DEF PinInv
    <3>3. \A u \in todo' : exchange'[u].in_use
      BY <2>1, <3>1 DEF HolderInv, InUse, TypeOK
    <3>4. HolderInv'
      BY <2>1, <2>4, <3>3, HolderFrame
    <3> QED
      BY <2>1, <2>4, <3>2, <3>4, StageFrame DEF Kept
  <2> QED
    BY <1>2, <2>3, <2>4 DEF RouterDispatch, tqvars
<1>3. ASSUME NEW s \in Slots, RouterCheck(s) PROVE Kept
  <2>1. /\ UNCHANGED <<phase, app, joining, waiting, holder, verdict>> /\ holder = RouterTask
        /\ s \in todo /\ todo' \subseteq todo /\ exchange[s].in_use
        /\ phase[RouterTask] = "RUNNING" /\ verdict[RouterTask] = "none"
        /\ exchange' = [exchange EXCEPT ![s] = Notified(exchange[s], phase[s])]
    BY <1>3 DEF RouterCheck, HolderInv, InUse, tqvars
  <2> DEFINE r == Notified(exchange[s], phase[s])
  <2>2. exchange[s] \in Exchanges /\ Consistent(exchange[s], phase[s])
    BY DEF TypeOK, FlagsInv
  <2>3. /\ r \in Exchanges /\ Consistent(r, phase[s]) /\ r.in_use
        /\ phase[s] \notin Ended => r = exchange[s]
    BY <2>1, <2>2, NotifiedEffect
  <2> HIDE DEF r
  <2>4. exchange' = [exchange EXCEPT ![s] = r]
    BY <2>1 DEF r
  <2>5. FlagsInv' /\ PinInv'
    BY <2>1, <2>3, <2>4, ExchangeOne DEF PinInv, Ended
  <2>6. \A u \in todo' : exchange'[u].in_use
    BY <2>1, <2>3, <2>4 DEF HolderInv, InUse, TypeOK
  <2>7. HolderInv'
    BY <2>1, <2>6, HolderFrame
  <2> QED
    BY <2>1, <2>5, <2>7, StageFrame DEF Kept
<1>4. ASSUME Leave(RouterTask) PROVE Kept
  BY <1>4, ExchangeFrame, StageFrame DEF Leave, HolderInv, Kept, tqvars
<1> QED
  BY <1>1, <1>2, <1>3, <1>4 DEF RouterStep

\* What a handler's step makes of its exchange.
LEMMA HandlerEffect ==
    ASSUME SrvInv, NEW s \in Slots, HandlerStep(s)
    PROVE  /\ phase[s] = "RUNNING" /\ verdict[s] = "none"
           /\ UNCHANGED <<tqvars, app, joining, waiting, running, started, routes, holder, todo>>
           /\ verdict' = verdict \/ \E v \in Verdicts : verdict' = [verdict EXCEPT ![s] = v]
           /\ \E r \in Exchanges : /\ exchange' = [exchange EXCEPT ![s] = r]
                                   /\ Consistent(r, phase[s]) /\ Pinned(r) /\ Moves(exchange[s], r)
<1> USE DEF SrvInv
<1> DEFINE e == exchange[s]
<1>1. phase[s] = "RUNNING" /\ verdict[s] = "none" /\ Pinned(e)
  BY DEF HandlerStep, HandlerAppends, HandlerFinishes, HandlerResponds, HandlerReturns, Handle,
     Active, Running, PinInv
<1>2. /\ UNCHANGED <<tqvars, app, joining, waiting, running, started, routes, holder, todo>>
      /\ verdict' = verdict \/ \E v \in Verdicts : verdict' = [verdict EXCEPT ![s] = v]
  BY DEF HandlerStep, HandlerAppends, HandlerFinishes, HandlerResponds, HandlerReturns, Handle,
     Return, Verdicts
<1>3. e \in Exchanges /\ Consistent(e, phase[s])
  BY DEF TypeOK, FlagsInv
<1>4. CASE HandlerAppends(s) \/ HandlerFinishes(s) \/ HandlerResponds(s)
  <2>1. PICK r : /\ exchange' = [exchange EXCEPT ![s] = r] /\ ~e.response_ready
                 /\ \/ r = [e EXCEPT !.response = "route"]
                    \/ r = [e EXCEPT !.response = "route", !.response_ready = TRUE]
                    \/ e.response = "route" /\ r = [e EXCEPT !.response_ready = TRUE]
    BY <1>4 DEF HandlerAppends, HandlerFinishes, HandlerResponds, Handle
  <2> HIDE DEF e
  <2>2. r \in Exchanges /\ Consistent(r, phase[s]) /\ Pinned(r) /\ Moves(e, r)
    BY <1>1, <1>3, <2>1, HandledEffect
  <2> QED
    BY <1>1, <1>2, <2>1, <2>2 DEF e
<1>5. CASE HandlerReturns(s)
  <2> DEFINE r == [e EXCEPT !.slices = IF @ < MaxSlices THEN @ + 1 ELSE @]
  <2>1. exchange' = [exchange EXCEPT ![s] = r]
    BY <1>5 DEF HandlerReturns, TypeOK
  <2>2. r \in Exchanges /\ Consistent(r, phase[s]) /\ Pinned(r) /\ Moves(e, r)
    BY <1>1, <1>3, ReturnedEffect
  <2> HIDE DEF r
  <2> QED
    BY <1>1, <1>2, <2>1, <2>2
<1> QED
  BY <1>4, <1>5 DEF HandlerStep

LEMMA HandlerKeeps ==
    ASSUME SrvInv, NEW s \in Slots, HandlerStep(s)
    PROVE  Kept
<1> USE DEF SrvInv
<1> USE TaskPlaces
<1>1. /\ phase[s] = "RUNNING" /\ phase' = phase /\ UNCHANGED <<app, joining, waiting, holder, todo>>
      /\ verdict' = verdict \/ \E v \in Verdicts : verdict' = [verdict EXCEPT ![s] = v]
  BY HandlerEffect DEF tqvars
<1>2. PICK r \in Exchanges : /\ exchange' = [exchange EXCEPT ![s] = r]
                             /\ Consistent(r, phase[s]) /\ Pinned(r)
  BY HandlerEffect
<1>3. FlagsInv' /\ PinInv'
  BY <1>1, <1>2, ExchangeOne
<1>4. holder # Nobody => verdict'[holder] = verdict[holder]
  BY <1>1 DEF TypeOK
<1>5. \A u \in Slots : exchange[u].in_use => exchange'[u].in_use
  BY <1>2 DEF TypeOK, Pinned
<1>6. HolderInv'
  BY <1>1, <1>4, <1>5 DEF HolderInv, InUse
<1> QED
  BY <1>1, <1>3, <1>6, StageFrame DEF Kept

---------------------------------------------------------------------------
(* The steps of the program. *)

LEMMA ProgramKeeps ==
    ASSUME ~WaitsFail, SrvInv,
           \/ InitServer \/ StartListener \/ BeginStop \/ Destroy
           \/ \E p \in Paths : AddRoute(p)
           \/ CallSteps
    PROVE  Kept
<1> USE DEF SrvInv, At
<1> USE TaskPlaces
<1>0. holder # Nobody => holder \in {HeadTask, RouterTask}
  BY DEF TypeOK
\* A call that leaves the pool and the exchanges alone.
<1>1. ASSUME UNCHANGED <<phase, exchange, holder, todo, verdict>> PROVE FlagsInv' /\ PinInv' /\ HolderInv'
  BY <1>1, ExchangeFrame DEF HolderInv, InUse
<1>2. ASSUME \/ InitServer \/ BeginStop \/ ClearRunning \/ Unwound \/ WaitHead \/ WaitRouter
             \/ \E p \in Paths : AddRoute(p)
             \/ \E s \in Slots : WaitHandler(s)
      PROVE  Kept
  <2>1. UNCHANGED <<phase, exchange, holder, todo, verdict>>
    BY <1>2 DEF InitServer, BeginStop, ClearRunning, Unwound, WaitHead, WaitRouter, AddRoute,
       WaitHandler, tqvars
  <2>2. StageInv'
    <3>1. CASE InitServer \/ BeginStop \/ ClearRunning \/ \E p \in Paths : AddRoute(p)
      BY <3>1, <2>1 DEF InitServer, BeginStop, ClearRunning, AddRoute, StageInv, Idle
    <3>2. CASE Unwound \/ WaitHead
      <4>1. Idle(HeadTask)
        BY <3>2, IdleIsNotUnfinished DEF Unwound, WaitHead, Waited
      <4> QED
        BY <3>2, <4>1, <2>1 DEF Unwound, WaitHead, StageInv, Idle, ServerTasks
    <3>3. CASE WaitRouter
      <4>1. Idle(RouterTask) /\ joining' = {s \in Slots : exchange[s].handler_submitted}
        BY <3>3, IdleIsNotUnfinished DEF WaitRouter, Waited
      <4>2. \A s \in Slots : Idle(s) \/ s \in joining'
        BY <4>1 DEF PinInv, Pinned, Idle
      <4> QED
        BY <3>3, <4>1, <4>2, <2>1 DEF WaitRouter, StageInv, Idle
    <3>4. ASSUME NEW s \in Slots, WaitHandler(s) PROVE StageInv'
      <4>1. Idle(s)
        BY <3>4, IdleIsNotUnfinished DEF WaitHandler, Waited
      <4> QED
        BY <3>4, <4>1, <2>1 DEF WaitHandler, StageInv, Idle
    <3> QED
      BY <1>2, <3>1, <3>2, <3>3, <3>4
  <2> QED
    BY <1>1, <2>1, <2>2 DEF Kept
<1>3. ASSUME StartListener \/ InitRouter PROVE Kept
  <2>1. PICK t \in {HeadTask, RouterTask} :
           /\ phase' = [phase EXCEPT ![t] = "IDLE"] /\ Idle(t)
           /\ t = HeadTask => StartListener
           /\ t = RouterTask => InitRouter
    BY <1>3 DEF StartListener, InitRouter, InitTask, StageInv, ServerTasks
  <2>2. UNCHANGED <<exchange, holder, todo, verdict, joining, waiting>>
    BY <1>3 DEF StartListener, InitRouter
  <2>3. phase'[t] = "IDLE" /\ \A u \in Tasks : u # t => phase'[u] = phase[u]
    BY <2>1 DEF TypeOK
  <2>4. FlagsInv' /\ PinInv'
    BY <2>2, <2>3, ExchangeFrame
  <2>5. HolderInv'
    BY <1>0, <2>1, <2>2, <2>3 DEF HolderInv, InUse, Idle
  <2>6. StageInv'
    BY <2>1, <2>2, <2>3 DEF StartListener, InitRouter, StageInv, Idle, ServerTasks
  <2> QED
    BY <2>4, <2>5, <2>6 DEF Kept
<1>4. ASSUME SubmitHead \/ SubmitRouter PROVE Kept
  <2>1. UNCHANGED <<exchange, holder, todo, verdict, joining, waiting>>
    BY <1>4 DEF SubmitHead, SubmitRouter
  <2>2. CASE UNCHANGED phase
    <3>1. StageInv'
      BY <1>4, <2>1, <2>2 DEF SubmitHead, SubmitRouter, Submit, StageInv, Idle, ServerTasks, TypeOK
    <3> QED
      BY <1>1, <2>1, <2>2, <3>1 DEF Kept
  <2>3. ASSUME NEW t \in {HeadTask, RouterTask}, phase' = [phase EXCEPT ![t] = "QUEUED"],
               t = HeadTask => app = "submit_head" /\ app' = "init_router",
               t = RouterTask => app = "submit_router" /\ app' = "up"
        PROVE  Kept
    <3>1. phase'[t] = "QUEUED" /\ phase[t] = "IDLE" /\ \A u \in Tasks : u # t => phase'[u] = phase[u]
      BY <2>3 DEF TypeOK, StageInv
    <3>2. FlagsInv' /\ PinInv'
      BY <2>1, <3>1, ExchangeFrame
    <3>3. HolderInv'
      BY <1>0, <2>1, <3>1 DEF HolderInv, InUse
    <3>4. StageInv'
      BY <2>1, <2>3, <3>1 DEF StageInv, Idle, ServerTasks
    <3> QED
      BY <3>2, <3>3, <3>4 DEF Kept
  <2>4. CASE ~UNCHANGED phase
    BY <1>4, <2>3, <2>4 DEF SubmitHead, SubmitRouter, Submit, tqvars
  <2> QED
    BY <2>2, <2>4
<1>5. ASSUME CancelPersistent \/ \E s \in Slots : CancelHandler(s) PROVE Kept
  <2>1. \A t \in Tasks : phase[t] # "QUEUED" => phase'[t] = phase[t]
    BY <1>5, QueuedOnly DEF CancelPersistent, CancelHandler
  <2>2. UNCHANGED <<exchange, holder, todo, verdict>>
    BY <1>5 DEF CancelPersistent, CancelHandler
  <2>3. FlagsInv' /\ PinInv'
    BY <2>1, <2>2, ExchangeFrame DEF Idle
  <2>4. HolderInv'
    BY <1>0, <2>1, <2>2 DEF HolderInv, InUse
  <2>5. \A t \in Tasks : Idle(t) => phase'[t] \notin {"QUEUED", "RUNNING"}
    BY <2>1 DEF Idle
  <2>6. StageInv'
    BY <1>5, <2>5 DEF CancelPersistent, CancelHandler, StageInv, Idle, ServerTasks
  <2> QED
    BY <2>3, <2>4, <2>6 DEF Kept
<1>6. ASSUME ReleaseAll PROVE Kept
  <2>1. /\ exchange' = [s \in Slots |-> Released(exchange[s])] /\ phase' = phase
        /\ app = "join" /\ app' = "down" /\ joining = {} /\ waiting = Nobody /\ holder = Nobody
        /\ UNCHANGED <<joining, waiting, holder>>
    BY <1>6 DEF ReleaseAll, Free, tqvars
  <2>2. \A t \in ServerTasks : Idle(t)
    BY <2>1 DEF StageInv
  <2>3. \A s \in Slots : Consistent(exchange'[s], phase'[s])
    BY <2>1, ReleasedEffect DEF TypeOK
  <2> QED
    BY <2>1, <2>2, <2>3 DEF Kept, FlagsInv, PinInv, HolderInv, StageInv, Idle, ServerTasks
<1>7. ASSUME Destroy PROVE Kept
  <2>1. /\ exchange' = [s \in Slots |-> Blank]
        /\ phase' = [t \in Tasks |-> IF t \in ServerTasks THEN "IDLE" ELSE phase[t]]
        /\ app = "down" /\ app' = "gone" /\ UNCHANGED <<joining, waiting, holder>>
    BY <1>7 DEF Destroy
  <2>2. holder = Nobody /\ \A t \in ServerTasks : phase'[t] = "IDLE"
    BY <1>0, <2>1 DEF StageInv, HolderInv, Idle
  <2>3. \A s \in Slots : Consistent(exchange'[s], phase'[s])
    BY <2>1, BlankEffect
  <2> QED
    BY <2>1, <2>2, <2>3 DEF Kept, FlagsInv, PinInv, HolderInv, StageInv, Idle, ServerTasks
<1> QED
  BY <1>2, <1>3, <1>4, <1>5, <1>6, <1>7 DEF CallSteps, StartSteps, StopSteps

---------------------------------------------------------------------------
(* Types, and what a step makes of the exchanges. *)

\* Every step changes no exchange, or one as HttpService allows, or clears all.
LEMMA ExchangeStep ==
    ASSUME SrvInv, [Next]_vars
    PROVE  \/ exchange' = exchange
           \/ \E s \in Slots, r \in Exchanges : /\ exchange' = [exchange EXCEPT ![s] = r]
                                               /\ Moves(exchange[s], r)
           \/ \E f \in [Slots -> Exchanges] :
                 /\ exchange' = f
                 /\ \A s \in Slots : Stage(f[s]) = "free" /\ Reply(f[s]) = "none"
<1> USE DEF SrvInv
<1> DEFINE Goal ==
           \/ exchange' = exchange
           \/ \E s \in Slots, r \in Exchanges : /\ exchange' = [exchange EXCEPT ![s] = r]
                                               /\ Moves(exchange[s], r)
           \/ \E f \in [Slots -> Exchanges] :
                 /\ exchange' = f
                 /\ \A s \in Slots : Stage(f[s]) = "free" /\ Reply(f[s]) = "none"
<1>1. ASSUME HeadEnter PROVE Goal
  <2>1. CASE exchange' = exchange
    BY <2>1
  <2>2. CASE exchange' # exchange
    <3>1. PICK s \in Slots \ InUse : exchange' = [exchange EXCEPT ![s] = [Blank EXCEPT !.in_use = TRUE]]
      BY <1>1, <2>2 DEF HeadEnter, AcceptOne
    <3> DEFINE r == [Blank EXCEPT !.in_use = TRUE]
    <3>2. r \in Exchanges /\ Stage(r) = "reading" /\ Reply(r) = "none"
      BY BlankEffect DEF Blank, Exchanges, Stage, Reply, AnsweringNow
    <3>3. Stage(exchange[s]) = "free"
      BY DEF InUse, Stage
    <3> HIDE DEF r
    <3>4. Moves(exchange[s], r)
      BY <3>2, <3>3 DEF Moves
    <3> QED
      BY <3>1, <3>2, <3>4 DEF r
  <2> QED
    BY <2>1, <2>2
<1>2. ASSUME NEW s \in Slots, HeadVisit(s) PROVE Goal
  <2>1. PICK r \in Serviced(exchange[s]) : exchange' = [exchange EXCEPT ![s] = r]
    BY <1>2 DEF HeadVisit
  <2>2. exchange[s] \in Exchanges /\ Consistent(exchange[s], phase[s]) /\ exchange[s].in_use
    BY <1>2, TaskPlaces DEF TypeOK, FlagsInv, HeadVisit, HolderInv, InUse
  <2>3. r \in Exchanges /\ Moves(exchange[s], r)
    BY <2>2, ServicedEffect
  <2> QED
    BY <2>1, <2>3
<1>3. ASSUME NEW s \in Slots, RouterDispatch(s) PROVE Goal
  <2> DEFINE e == exchange[s]
  <2>1. /\ e \in Exchanges /\ Consistent(e, phase[s]) /\ e.in_use
        /\ e.request_finished /\ ~e.route_dispatched
    BY <1>3, TaskPlaces DEF TypeOK, FlagsInv, RouterDispatch, HolderInv, InUse
  <2>2. PICK r : /\ exchange' = [exchange EXCEPT ![s] = r]
                 /\ \/ r = [[e EXCEPT !.route_dispatched = TRUE] EXCEPT !.handler_submitted = TRUE]
                    \/ r = Simple([e EXCEPT !.route_dispatched = TRUE], "503")
                    \/ r = Simple([e EXCEPT !.route_dispatched = TRUE], "404")
    BY <1>3 DEF RouterDispatch
  <2> HIDE DEF e
  <2>3. r \in Exchanges /\ Moves(e, r)
    BY <2>1, <2>2, SettledEffect, SubmittedEffect
  <2> QED
    BY <2>2, <2>3 DEF e
<1>4. ASSUME NEW s \in Slots, RouterCheck(s) PROVE Goal
  <2>1. /\ exchange[s] \in Exchanges /\ Consistent(exchange[s], phase[s]) /\ exchange[s].in_use
    BY <1>4, TaskPlaces DEF TypeOK, FlagsInv, RouterCheck, HolderInv, InUse
  <2>2. Notified(exchange[s], phase[s]) \in Exchanges /\ Moves(exchange[s], Notified(exchange[s], phase[s]))
    BY <2>1, NotifiedEffect
  <2> QED
    BY <1>4, <2>2 DEF RouterCheck
<1>5. ASSUME NEW s \in Slots, HandlerStep(s) PROVE Goal
  BY <1>5, HandlerEffect
<1>6. ASSUME ReleaseAll \/ Destroy PROVE Goal
  <2>1. /\ [s \in Slots |-> Blank] \in [Slots -> Exchanges]
        /\ \A s \in Slots : Stage(Blank) = "free" /\ Reply(Blank) = "none"
    BY BlankEffect
  <2>2. \A s \in Slots : /\ Released(exchange[s]) \in Exchanges
                         /\ Stage(Released(exchange[s])) = "free" /\ Reply(Released(exchange[s])) = "none"
    BY ReleasedEffect DEF TypeOK
  <2>3. CASE ReleaseAll
    BY <2>3, <2>2 DEF ReleaseAll
  <2>4. CASE Destroy
    BY <2>4, <2>1 DEF Destroy
  <2> QED
    BY <1>6, <2>3, <2>4
<1>7. ASSUME \/ OpenPool \/ ClosePool \/ StartSlice
             \/ (\E t \in ServerTasks : EndSlice(t)) \/ (\E t \in Others : OtherTask(t))
             \/ Leave(HeadTask) \/ Leave(RouterTask) \/ RouterEnter
             \/ InitServer \/ StartListener \/ BeginStop
             \/ (\E p \in Paths : AddRoute(p))
             \/ StartSteps \/ ClearRunning \/ CancelPersistent \/ WaitHead \/ WaitRouter
             \/ (\E s \in Slots : CancelHandler(s) \/ WaitHandler(s))
             \/ UNCHANGED vars
      PROVE Goal
  <2>1. exchange' = exchange
    BY <1>7 DEF OpenPool, ClosePool, StartSlice, EndSlice, OtherTask, Leave, RouterEnter, InitServer,
       StartListener, BeginStop, AddRoute, StartSteps, SubmitHead, InitRouter, SubmitRouter, Unwound,
       ClearRunning, CancelPersistent, WaitHead, WaitRouter, CancelHandler, WaitHandler, vars, srvvars
  <2> QED
    BY <2>1
<1> HIDE DEF Goal
<1>8. Goal
  BY <1>1, <1>2, <1>3, <1>4, <1>5, <1>6, <1>7 DEF Next, HeadStep, RouterStep, CallSteps, StopSteps
<1> QED
  BY <1>8 DEF Goal

LEMMA TypeStep ==
    ASSUME SrvInv, TQInv', [Next]_vars
    PROVE  TypeOK'
<1> USE DEF SrvInv
<1> USE TaskPlaces
<1>1. exchange' \in [Slots -> Exchanges]
  BY ExchangeStep DEF TypeOK
<1>2. /\ phase' \in [Tasks -> Phases] /\ queue' \in Seq(Tasks)
      /\ doomed' \in SUBSET Tasks /\ open' \in BOOLEAN
  BY DEF TQInv, TQTypeOK
<1> DEFINE Goal ==
      /\ app' \in Places /\ joining' \in SUBSET Slots /\ waiting' \in Slots \cup {Nobody}
      /\ running' \in BOOLEAN /\ started' \in BOOLEAN /\ routes' \in SUBSET Paths
      /\ holder' \in {HeadTask, RouterTask, Nobody} /\ todo' \in SUBSET Slots
      /\ verdict' \in [ServerTasks -> Verdicts \cup {"none"}]
<1>3. ASSUME OpenPool \/ ClosePool \/ StartSlice \/ (\E t \in Others : OtherTask(t)) \/ UNCHANGED vars
      PROVE Goal
  BY <1>3 DEF OpenPool, ClosePool, StartSlice, OtherTask, vars, srvvars, TypeOK
<1>4. ASSUME NEW t \in ServerTasks, EndSlice(t) PROVE Goal
  BY <1>4 DEF EndSlice, Return, TypeOK
<1>5. ASSUME HeadStep \/ RouterStep PROVE Goal
  BY <1>5 DEF HeadStep, RouterStep, HeadEnter, HeadVisit, Leave, RouterEnter, RouterDispatch, RouterCheck,
     Return, Verdicts, InUse, TypeOK
<1>6. ASSUME NEW s \in Slots, HandlerStep(s) PROVE Goal
  <2>1. /\ UNCHANGED <<app, joining, waiting, running, started, routes, holder, todo>>
        /\ verdict' = verdict \/ \E v \in Verdicts : verdict' = [verdict EXCEPT ![s] = v]
    BY <1>6, HandlerEffect
  <2>2. verdict' \in [ServerTasks -> Verdicts \cup {"none"}]
    BY <2>1 DEF TypeOK
  <2> QED
    BY <2>1, <2>2 DEF TypeOK
<1>7. ASSUME \/ InitServer \/ StartListener \/ BeginStop \/ Destroy
             \/ (\E p \in Paths : AddRoute(p)) \/ CallSteps
      PROVE Goal
  <2>1. /\ app' \in Places /\ UNCHANGED <<holder, todo, verdict>>
    BY <1>7 DEF InitServer, StartListener, BeginStop, Destroy, AddRoute, CallSteps, StartSteps, StopSteps,
       SubmitHead, InitRouter, SubmitRouter, Unwound, ClearRunning, CancelPersistent, WaitHead,
       WaitRouter, CancelHandler, WaitHandler, ReleaseAll, At, Places, TypeOK
  <2>2. joining' \in SUBSET Slots /\ waiting' \in Slots \cup {Nobody}
    BY <1>7 DEF InitServer, StartListener, BeginStop, Destroy, AddRoute, CallSteps, StartSteps, StopSteps,
       SubmitHead, InitRouter, SubmitRouter, Unwound, ClearRunning, CancelPersistent, WaitHead,
       WaitRouter, CancelHandler, WaitHandler, ReleaseAll, TypeOK
  <2>3. running' \in BOOLEAN /\ started' \in BOOLEAN /\ routes' \in SUBSET Paths
    BY <1>7 DEF InitServer, StartListener, BeginStop, Destroy, AddRoute, CallSteps, StartSteps, StopSteps,
       SubmitHead, InitRouter, SubmitRouter, Unwound, ClearRunning, CancelPersistent, WaitHead,
       WaitRouter, CancelHandler, WaitHandler, ReleaseAll, TypeOK
  <2> QED
    BY <2>1, <2>2, <2>3 DEF TypeOK
<1> HIDE DEF Goal
<1>8. Goal
  BY <1>3, <1>4, <1>5, <1>6, <1>7 DEF Next
<1> QED
  BY <1>1, <1>2, <1>8 DEF Goal, TypeOK

---------------------------------------------------------------------------
(* The theorems. *)

LEMMA InitEstablishesSrvInv == Init => SrvInv
<1> SUFFICES ASSUME Init PROVE SrvInv
  OBVIOUS
<1> USE TaskPlaces
<1>1. TQInv
  BY InitEstablishesTQInv DEF Init
<1>2. TypeOK
  <2>1. TQTypeOK
    BY <1>1 DEF TQInv
  <2>2. [s \in Slots |-> Blank] \in [Slots -> Exchanges]
    BY BlankEffect
  <2> QED
    BY <2>1, <2>2 DEF Init, TypeOK, TQTypeOK, Places
<1>3. FlagsInv
  BY BlankEffect DEF Init, FlagsInv
<1>4. \A t \in Tasks : phase[t] = "IDLE"
  BY DEF Init, TQInit
<1>5. PinInv /\ HolderInv /\ StageInv
  BY <1>4 DEF Init, PinInv, HolderInv, StageInv, Idle, ServerTasks
<1> QED
  BY <1>1, <1>2, <1>3, <1>5 DEF SrvInv

\* Every behaviour of a server whose waits do not fail keeps SrvInv.
THEOREM SrvInvariance ==
    ASSUME ~WaitsFail
    PROVE  Spec => []SrvInv
<1>1. SrvInv /\ [Next]_vars => SrvInv'
  <2> SUFFICES ASSUME SrvInv, [Next]_vars PROVE SrvInv'
    OBVIOUS
  <2>1. TQInv'
    BY ContractStep, TQStep DEF SrvInv
  <2>2. TypeOK'
    BY <2>1, TypeStep
  <2>3. Kept
    <3>1. CASE UNCHANGED vars
      <4>1. UNCHANGED <<phase, app, joining, waiting, exchange, holder, todo, verdict>>
        BY <3>1 DEF vars, tqvars, srvvars
      <4> QED
        BY <4>1, ExchangeFrame, StageFrame DEF SrvInv, HolderInv, InUse, Kept
    <3>2. CASE Next
      BY <3>2, PoolStep, HeadKeeps, RouterKeeps, HandlerKeeps, ProgramKeeps DEF Next
    <3> QED
      BY <3>1, <3>2
  <2> QED
    BY <2>1, <2>2, <2>3 DEF SrvInv, Kept
<1> QED
  BY <1>1, InitEstablishesSrvInv, PTL DEF Spec

\* Neither the head nor stop takes an exchange from under a handler that the
\* pool has not finished (run_head_step, release_exchange_locked, stop).
THEOREM HandlersOwnTheirExchanges ==
    ASSUME ~WaitsFail
    PROVE  Spec => []HandlerOwnsItsExchange
<1>1. SrvInv => HandlerOwnsItsExchange
  BY DEF SrvInv, HandlerOwnsItsExchange, PinInv, Pinned, Unfinished
<1> QED
  BY <1>1, SrvInvariance, PTL

\* A handler's answer is sent only if the handler completed, and a 500 replaces
\* it in every other case (handler_status_locked).
THEOREM AnswersMatchVerdicts ==
    ASSUME ~WaitsFail
    PROVE  Spec => []AnswerMatchesVerdict
<1>1. SrvInv => AnswerMatchesVerdict
  BY DEF SrvInv, AnswerMatchesVerdict, FlagsInv, Consistent, InUse
<1> QED
  BY <1>1, SrvInvariance, PTL

\* After a failed start and after stop no callback runs, is queued, or keeps
\* the server's mutex.
THEOREM StoppedServersAreQuiet ==
    ASSUME ~WaitsFail
    PROVE  Spec => []QuietWhenDown
<1>1. SrvInv => QuietWhenDown
  <2> SUFFICES ASSUME SrvInv, app \in {"down", "gone"}
               PROVE  ServerTasks \cap Unfinished = {} /\ Free
    BY DEF QuietWhenDown
  <2>1. \A t \in ServerTasks : Idle(t)
    BY DEF SrvInv, StageInv
  <2>2. holder = Nobody
    BY <2>1, TaskPlaces DEF SrvInv, HolderInv, TypeOK, Idle
  <2> QED
    BY <2>1, <2>2 DEF Idle, Unfinished, Free
<1> QED
  BY <1>1, SrvInvariance, PTL

\* Every step of the server is one of the pool's operations, called as the
\* pool allows, or does not concern the pool.
THEOREM ServerKeepsPoolContract ==
    ASSUME ~WaitsFail
    PROVE  Spec => UsesPoolWithinContract
<1>1. SrvInv /\ [Next]_vars => [TQNext]_tqvars
  BY ContractStep
<1> QED
  BY <1>1, SrvInvariance, PTL DEF Spec, UsesPoolWithinContract

---------------------------------------------------------------------------
(* The server implements HttpService. *)

Conn == [s \in Slots |-> Stage(exchange[s])]
Ans == [s \in Slots |-> Reply(exchange[s])]

\* HttpService's step for one slot, in terms of the exchanges.
LEMMA MoveIsServiceMove ==
    ASSUME NEW s \in Slots, NEW from, NEW to, NEW a, Conn[s] = from,
           Conn' = [Conn EXCEPT ![s] = to], Ans' = [Ans EXCEPT ![s] = a]
    PROVE  Service!Move(s, from, to, a)
BY DEF Service!Move, Conn, Ans, Stage, Reply, AnsweringNow, Answering

\* A step that no client can see.
LEMMA StutterIsServiceStutter ==
    ASSUME Conn' = Conn, Ans' = Ans
    PROVE  UNCHANGED Service!svars
BY DEF Conn, Ans, Stage, Reply, AnsweringNow, Answering, Service!svars

LEMMA ServiceMove ==
    ASSUME TypeOK, NEW s \in Slots, NEW r \in Exchanges, exchange' = [exchange EXCEPT ![s] = r],
           Moves(exchange[s], r)
    PROVE  [Service!SNext]_Service!svars
<1> DEFINE e == exchange[s]
<1>1. Conn[s] = Stage(e) /\ Ans[s] = Reply(e)
  BY DEF Conn, Ans
<1>2. Conn' = [Conn EXCEPT ![s] = Stage(r)] /\ Ans' = [Ans EXCEPT ![s] = Reply(r)]
  BY DEF Conn, Ans, TypeOK
<1>3. CASE Stage(r) = Stage(e) /\ Reply(r) = Reply(e)
  <2>1. Conn' = Conn /\ Ans' = Ans
    BY <1>1, <1>2, <1>3 DEF Conn, Ans
  <2> QED
    BY <2>1, StutterIsServiceStutter
<1>4. CASE ~(Stage(r) = Stage(e) /\ Reply(r) = Reply(e))
  <2>1. Service!Move(s, Stage(e), Stage(r), Reply(r))
    BY <1>1, <1>2, MoveIsServiceMove
  <2>2. Service!Connect(s) \/ Service!Complete(s) \/ Service!Refuse(s) \/ Service!Answer(s) \/ Service!Close(s)
    BY <1>4, <2>1 DEF Moves, Service!Connect, Service!Complete, Service!Refuse, Service!Answer,
       Service!Close, Service!Refused, Service!Nothing
  <2> QED
    BY <2>2 DEF Service!SNext
<1> QED
  BY <1>3, <1>4

LEMMA ServiceStep ==
    ASSUME SrvInv, [Next]_vars
    PROVE  [Service!SNext]_Service!svars
<1>1. CASE exchange' = exchange
  <2>1. Conn' = Conn /\ Ans' = Ans
    BY <1>1 DEF Conn, Ans
  <2> QED
    BY <2>1, StutterIsServiceStutter
<1>2. ASSUME NEW s \in Slots, NEW r \in Exchanges, exchange' = [exchange EXCEPT ![s] = r],
             Moves(exchange[s], r)
      PROVE  [Service!SNext]_Service!svars
  BY <1>2, ServiceMove DEF SrvInv
<1>3. ASSUME NEW f \in [Slots -> Exchanges], exchange' = f,
             \A s \in Slots : Stage(f[s]) = "free" /\ Reply(f[s]) = "none"
      PROVE  [Service!SNext]_Service!svars
  <2>1. Conn' = [s \in Slots |-> "free"] /\ Ans' = [s \in Slots |-> "none"]
    BY <1>3 DEF Conn, Ans
  <2>2. Service!Shutdown
    BY <2>1 DEF Service!Shutdown, Service!Nothing, Conn, Ans, Stage, Reply, AnsweringNow, Answering
  <2> QED
    BY <2>2 DEF Service!SNext
<1> QED
  BY <1>1, <1>2, <1>3, ExchangeStep

\* Clients see a server that reads each request, answers it exactly once or
\* refuses it, and closes: nothing the tasks, routes and locks do is more.
THEOREM ServerImplementsService ==
    ASSUME ~WaitsFail
    PROVE  Spec => ImplementsHttpService
<1>1. Init => Service!SInit
  <2> SUFFICES ASSUME Init PROVE Service!SInit
    OBVIOUS
  <2>1. \A s \in Slots : exchange[s] = Blank
    BY DEF Init
  <2>2. Conn = [s \in Slots |-> "free"] /\ Ans = [s \in Slots |-> "none"]
    BY <2>1, BlankEffect DEF Conn, Ans
  <2> QED
    BY <2>2 DEF Service!SInit, Service!Nothing, Conn, Ans, Stage, Reply, AnsweringNow, Answering
<1>2. SrvInv /\ [Next]_vars => [Service!SNext]_Service!svars
  BY ServiceStep
<1> QED
  BY <1>1, <1>2, SrvInvariance, PTL DEF Spec, ImplementsHttpService, Service!SSpec
==============================================================================
