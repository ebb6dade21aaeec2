------------------------------ MODULE TaskQueue ------------------------------
(***************************************************************************)
(* What stdlib/concurrency/thread_pool.cp promises to a program that hands *)
(* it resumable tasks: one FIFO queue, a bounded number of unfinished      *)
(* tasks, at most one step of a task in progress at a time, a yield that   *)
(* goes to the tail, a cancellation that takes effect at once for a queued *)
(* task and at the next checkpoint for a running one, and a closing after  *)
(* which nothing starts.                                                   *)
(*                                                                         *)
(* There are no threads, locks or condition variables here: ThreadPool has *)
(* them, and is shown to implement this module.  HttpServer is built on    *)
(* this module rather than on ThreadPool.                                  *)
(***************************************************************************)
EXTENDS Naturals, Sequences, FiniteSets

CONSTANTS Tasks,      \* the caller-owned task records
          MaxTasks,   \* CPLUS_THREAD_POOL_MAX_TASKS
          MaxWorkers  \* CPLUS_THREAD_POOL_MAX_WORKERS

ASSUME TaskQueueAssumption ==
    /\ IsFiniteSet(Tasks)
    /\ MaxTasks \in Nat \ {0}
    /\ MaxWorkers \in Nat \ {0}

VARIABLES phase,   \* phase[t]: the thread_task_state_t of task t
          queue,   \* the tasks waiting for a time slice, first to run first
          doomed,  \* the running tasks whose cancellation was requested
          open     \* TRUE while the pool accepts and starts tasks

tqvars == <<phase, queue, doomed, open>>

Ended == {"COMPLETED", "FAILED", "CANCELLED"}
Phases == {"IDLE", "QUEUED", "RUNNING"} \cup Ended

Running == {t \in Tasks : phase[t] = "RUNNING"}
Unfinished == {t \in Tasks : phase[t] \in {"QUEUED", "RUNNING"}}

\* s without its (only) occurrence of t.
Without(s, t) ==
    IF \E i \in 1..Len(s) : s[i] = t
    THEN LET p == CHOOSE i \in 1..Len(s) : s[i] = t
         IN  [i \in 1..(Len(s) - 1) |-> IF i < p THEN s[i] ELSE s[i + 1]]
    ELSE s

TQInit ==
    /\ phase = [t \in Tasks |-> "IDLE"]
    /\ queue = <<>>
    /\ doomed = {}
    /\ open = FALSE

\* The pool starts to accept tasks.
Open ==
    /\ ~open
    /\ Unfinished = {}
    /\ open' = TRUE
    /\ UNCHANGED <<phase, queue, doomed>>

\* The owner resets tasks that are not in the pool, or clears their memory.
Reset(S) ==
    /\ S \cap Unfinished = {}
    /\ phase' = [t \in Tasks |-> IF t \in S THEN "IDLE" ELSE phase[t]]
    /\ UNCHANGED <<queue, doomed, open>>

\* A fresh task joins the tail, unless the pool is closed or full.
Accept(t) ==
    /\ open
    /\ phase[t] = "IDLE"
    /\ Cardinality(Unfinished) < MaxTasks
    /\ phase' = [phase EXCEPT ![t] = "QUEUED"]
    /\ queue' = Append(queue, t)
    /\ UNCHANGED <<doomed, open>>

\* The task at the head, and no other, gets the next time slice.
Start ==
    /\ open
    /\ queue # <<>>
    /\ Cardinality(Running) < MaxWorkers
    /\ phase' = [phase EXCEPT ![Head(queue)] = "RUNNING"]
    /\ queue' = Tail(queue)
    /\ UNCHANGED <<doomed, open>>

\* A slice ends and the task wants another one.
Yield(t) ==
    /\ open
    /\ t \in Running \ doomed
    /\ phase' = [phase EXCEPT ![t] = "QUEUED"]
    /\ queue' = Append(queue, t)
    /\ UNCHANGED <<doomed, open>>

\* A slice ends and the task is over.
Finish(t) ==
    /\ open
    /\ t \in Running \ doomed
    /\ \E outcome \in {"COMPLETED", "FAILED"} :
          phase' = [phase EXCEPT ![t] = outcome]
    /\ UNCHANGED <<queue, doomed, open>>

\* A slice of a doomed task ends: whatever it returned, it is cancelled.
Abandon(t) ==
    /\ t \in doomed
    /\ phase' = [phase EXCEPT ![t] = "CANCELLED"]
    /\ doomed' = doomed \ {t}
    /\ UNCHANGED <<queue, open>>

SliceEnds(t) == Yield(t) \/ Finish(t) \/ Abandon(t)

\* A queued task is cancelled at once, a running one is doomed.
CancelTask(t) ==
    \/ /\ phase[t] = "QUEUED"
       /\ phase' = [phase EXCEPT ![t] = "CANCELLED"]
       /\ queue' = Without(queue, t)
       /\ UNCHANGED <<doomed, open>>
    \/ /\ t \in Running
       /\ doomed' = doomed \cup {t}
       /\ UNCHANGED <<phase, queue, open>>

\* Closing cancels what is queued and dooms what is running.
Close ==
    /\ open
    /\ open' = FALSE
    /\ phase' = [t \in Tasks |-> IF phase[t] = "QUEUED" THEN "CANCELLED" ELSE phase[t]]
    /\ queue' = <<>>
    /\ doomed' = Running

TQNext ==
    \/ Open
    \/ Start
    \/ Close
    \/ \E S \in SUBSET Tasks : Reset(S)
    \/ \E t \in Tasks : Accept(t) \/ SliceEnds(t) \/ CancelTask(t)

TQSafety == TQInit /\ [][TQNext]_tqvars

\* A queued head is started once a worker is free, and slices are bounded.
TQFairness ==
    /\ WF_tqvars(Start)
    /\ \A t \in Tasks : WF_tqvars(SliceEnds(t))

TQSpec == TQSafety /\ TQFairness
==============================================================================
