----------------------------- MODULE ReadyRing -------------------------------
(***************************************************************************)
(* The ready ring of stdlib/concurrency/thread_pool.cp: MaxTasks slots, a  *)
(* head, a tail and a count, with the compaction that takes a task out of  *)
(* its middle.  ThreadPool keeps the ring as a sequence; this module shows *)
(* that the array code is that sequence.                                   *)
(***************************************************************************)
EXTENDS Naturals, Sequences, Functions, SequencesExt

CONSTANTS Tasks,     \* the tasks
          MaxTasks,  \* CPLUS_THREAD_POOL_MAX_TASKS
          NULL       \* an empty slot

ASSUME ReadyRingAssumption == MaxTasks \in Nat \ {0} /\ NULL \notin Tasks

VARIABLES ready, ready_head, ready_tail, ready_count

ringvars == <<ready, ready_head, ready_tail, ready_count>>

Slots == 0..(MaxTasks - 1)
Empty == [slot \in Slots |-> NULL]

\* The slot that lies offset places after the head.
SlotAt(offset) == (ready_head + offset) % MaxTasks

RingInit ==
    /\ ready = Empty
    /\ ready_head = 0
    /\ ready_tail = 0
    /\ ready_count = 0

\* enqueue_locked; ThreadPool calls it on tasks that are not in the ring.
enqueue_locked(t) ==
    /\ \A slot \in Slots : ready[slot] # t
    /\ ready_count < MaxTasks
    /\ ready' = [ready EXCEPT ![ready_tail] = t]
    /\ ready_tail' = (ready_tail + 1) % MaxTasks
    /\ ready_count' = ready_count + 1
    /\ UNCHANGED ready_head

\* dequeue_locked
dequeue_locked ==
    /\ ready_count > 0
    /\ ready' = [ready EXCEPT ![ready_head] = NULL]
    /\ ready_head' = (ready_head + 1) % MaxTasks
    /\ ready_count' = ready_count - 1
    /\ UNCHANGED ready_tail

\* One pass of the compaction loop: the item at offset moves down to the next
\* kept place unless it is t.
Compact(t, acc, offset) ==
    LET item == acc.ring[SlotAt(offset)]
    IN  IF item = t THEN acc
        ELSE [ring |-> [acc.ring EXCEPT ![SlotAt(acc.kept)] = item],
              kept |-> acc.kept + 1]

\* The second loop: the slots the items moved out of are cleared.
ClearTrailing(ring, kept) ==
    [slot \in Slots |->
        IF \E offset \in kept..(ready_count - 1) : slot = SlotAt(offset)
        THEN NULL ELSE ring[slot]]

TailUnmoved(kept) == ready_tail
TailAfter(kept) == SlotAt(kept)

\* remove_ready_locked
remove_ready_locked(t) ==
    LET offsets == [k \in 1..ready_count |-> k - 1]
        last == FoldLeft(LAMBDA acc, offset : Compact(t, acc, offset),
                         [ring |-> ready, kept |-> 0], offsets)
    IN  /\ ready' = ClearTrailing(last.ring, last.kept)
        /\ ready_count' = last.kept
        /\ ready_tail' = TailAfter(last.kept)
        /\ UNCHANGED ready_head

\* stop_locked on the ring
clear_locked ==
    /\ ready' = Empty
    /\ ready_head' = 0
    /\ ready_tail' = 0
    /\ ready_count' = 0

RingNext ==
    \/ dequeue_locked
    \/ clear_locked
    \/ \E t \in Tasks : enqueue_locked(t) \/ remove_ready_locked(t)

RingSpec == RingInit /\ [][RingNext]_ringvars

---------------------------------------------------------------------------

Abstract == INSTANCE Fifo WITH
    Items <- Tasks,
    Bound <- MaxTasks,
    line <- [k \in 1..ready_count |-> ready[SlotAt(k - 1)]]

\* The array is a FIFO of at most MaxTasks tasks: order survives wrap-around
\* and the removal of a task from the middle.
ImplementsFifo == Abstract!FifoSpec
==============================================================================
