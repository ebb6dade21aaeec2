----------------------------- MODULE ThreadPool ------------------------------
(***************************************************************************)
(* stdlib/concurrency/thread_pool.cp: many resumable tasks on one or two   *)
(* native threads.  One critical section of the pool's mutex is one        *)
(* action; a thread inside condition_wait is "parked" and leaves the       *)
(* critical section, so a wait loop is one action per pass.  A callback    *)
(* runs outside the mutex, between StepBegin and StepReturn: what it calls *)
(* (submit, cancel) are the Submit and Cancel actions, whoever the caller. *)
(*                                                                         *)
(* Abstracted: the ready ring is the sequence of its occupied slots        *)
(* (ReadyRing models the ring), the active array is the set of its entries *)
(* (their order is never observed), step_count is left out, and a call     *)
(* that returns an error without changing anything is a stuttering step.   *)
(*                                                                         *)
(* Some definitions are preceded by a variant named for a slip (LeaveReady,*)
(* SignalNobody, HasRoomOffByOne...).  No action uses it: the mutants of   *)
(* PROJECT.json put it in the place of the definition that follows.        *)
(***************************************************************************)
EXTENDS Naturals, Sequences, FiniteSets

CONSTANTS
    Tasks,       \* the caller-owned thread_task_t records
    Clients,     \* the application threads that may block in wait
    MaxTasks,    \* CPLUS_THREAD_POOL_MAX_TASKS
    MaxWorkers,  \* CPLUS_THREAD_POOL_MAX_WORKERS
    Faults,      \* the native calls that may fail
    NULL         \* no task

NativeCalls == {"lock", "wait", "create", "join"}

ASSUME ThreadPoolAssumption ==
    /\ IsFiniteSet(Tasks)
    /\ MaxTasks \in Nat \ {0}
    /\ MaxWorkers \in Nat \ {0}
    /\ Faults \subseteq NativeCalls
    /\ NULL \notin Tasks

VARIABLES
    state,                  \* the pool: "STOPPED", "RUNNING" or "STOPPING"
    synchronization_ready,  \* TRUE from init to the memset of destroy
    active,                 \* the entries of the active registry
    ready,                  \* the occupied slots of the ready ring, head first
    worker_count,           \* how many workers init has started
    worker_joined,          \* worker_joined[i]: shutdown has joined worker i
    tstate,                 \* tstate[t]: the task's state field
    owner,                  \* owner[t]: TRUE iff task->owner is this pool
    error_code,             \* error_code[t]: the task's failure code
    cancel_requested,       \* cancel_requested[t]: the task's flag
    wpc,                    \* wpc[i]: where worker i is
    wtask,                  \* wtask[i]: the task whose callback i runs
    cpc,                    \* cpc[c]: where client c is in wait
    ctask,                  \* ctask[c]: the task c waits for
    lpc,                    \* the lifecycle call in progress
    lidx,                   \* its loop index over the workers
    lwant                   \* the worker_count argument of init

poolvars == <<state, synchronization_ready, active, ready>>
taskvars == <<tstate, owner, error_code, cancel_requested>>
workervars == <<wpc, wtask>>
clientvars == <<cpc, ctask>>
threadvars == <<worker_count, worker_joined>>
lifevars == <<lpc, lidx, lwant>>
vars == <<poolvars, threadvars, taskvars, workervars, clientvars, lifevars>>

Workers == 0..(MaxWorkers - 1)
PoolStates == {"STOPPED", "RUNNING", "STOPPING"}
Terminal == {"COMPLETED", "FAILED", "CANCELLED"}
TaskStates == {"IDLE", "QUEUED", "RUNNING"} \cup Terminal
ErrorCodes == {"OK", "CALLBACK", "FULL", "INVALID_STEP_RESULT"}

\* absent: not created, or returned from its entry function.  polling: about
\* to lock and test the queue.  parked: in condition_wait on work_condition.
\* calling: in the callback of wtask.
WorkerPlaces == {"absent", "polling", "parked", "calling"}
\* parked: in condition_wait on state_condition.  woken: about to test again.
ClientPlaces == {"outside", "parked", "woken"}
\* starting: in the creation loop of init.  unwinding: joining after a failed
\* creation.  stopping: shutdown, at its joins.  destroying: the same inside
\* destroy.  erasing: destroy after its shutdown returned OK.
LifecyclePlaces ==
    {"none", "starting", "unwinding", "stopping", "destroying", "erasing"}

is_terminal(t) == tstate[t] \in Terminal

---------------------------------------------------------------------------
(* The condition variables. *)

\* condition_signal(work_condition): one parked worker, if any, is woken.
SignalOne(place) ==
    IF \E i \in Workers : place[i] = "parked"
    THEN {[place EXCEPT ![i] = "polling"] : i \in {j \in Workers : place[j] = "parked"}}
    ELSE {place}

SignalNobody(place) == {place}
SignalWork(place) == SignalOne(place)

\* condition_broadcast(work_condition)
WakeNoWorker(place) == place
BroadcastWork(place) ==
    [i \in Workers |-> IF place[i] = "parked" THEN "polling" ELSE place[i]]

\* condition_broadcast(state_condition)
WakeNoClient == UNCHANGED clientvars
BroadcastState ==
    /\ cpc' = [c \in Clients |-> IF cpc[c] = "parked" THEN "woken" ELSE cpc[c]]
    /\ UNCHANGED ctask

---------------------------------------------------------------------------
(* The locked helpers. *)

\* remove_ready_locked: the ring holds a task at most once (ReadyIsExact), so
\* its compaction drops one entry; ReadyRing models the loop.
LeaveReady(t) == ready
SwapOutReady(t) ==
    [i \in 1..(Len(ready) - 1) |-> IF ready[i] = t THEN ready[Len(ready)] ELSE ready[i]]
remove_ready_locked(t) ==
    IF \E i \in 1..Len(ready) : ready[i] = t
    THEN LET p == CHOOSE i \in 1..Len(ready) : ready[i] = t
         IN  [i \in 1..(Len(ready) - 1) |-> IF i < p THEN ready[i] ELSE ready[i + 1]]
    ELSE ready

\* remove_active_locked
StayActive(t) == active
remove_active_locked(t) == active \ {t}

\* find_active_locked on a task whose owner is this pool.
OwnedHere(t) == owner[t]
find_active_locked(t) == owner[t] /\ t \in active

\* enqueue_locked in a worker that returns from t: the ring was found full.
RequeueFails(t) ==
    /\ tstate' = [tstate EXCEPT ![t] = "FAILED"]
    /\ error_code' = [error_code EXCEPT ![t] = "FULL"]
    /\ active' = remove_active_locked(t)
    /\ UNCHANGED ready

\* stop_locked on the queue and the tasks: a running task is asked to stop and
\* stays, every other active task is cancelled on the spot.
FlagNobody == cancel_requested
FlagRunning ==
    [t \in Tasks |-> cancel_requested[t] \/ (t \in active /\ tstate[t] = "RUNNING")]
StopTasks ==
    /\ state' = "STOPPING"
    /\ tstate' = [t \in Tasks |-> IF t \in active /\ tstate[t] # "RUNNING"
                                  THEN "CANCELLED" ELSE tstate[t]]
    /\ cancel_requested' = FlagRunning
    /\ active' = {t \in active : tstate[t] = "RUNNING"}
    /\ ready' = <<>>

\* stop_locked, called by a thread that leaves the workers at place.
stop_locked(place) ==
    /\ StopTasks
    /\ wpc' = BroadcastWork(place)
    /\ BroadcastState

---------------------------------------------------------------------------
(* The workers. *)

\* The wait loop and the dequeue of worker: the head becomes RUNNING and the
\* mutex is released before the callback.
StepBegin(i) ==
    /\ wpc[i] = "polling"
    /\ state = "RUNNING"
    /\ ready # <<>>
    /\ ready' = Tail(ready)
    /\ tstate' = [tstate EXCEPT ![Head(ready)] = "RUNNING"]
    /\ wpc' = [wpc EXCEPT ![i] = "calling"]
    /\ wtask' = [wtask EXCEPT ![i] = Head(ready)]
    /\ UNCHANGED <<state, synchronization_ready, active, threadvars, owner,
                   error_code, cancel_requested, clientvars, lifevars>>

\* Nothing to do: the worker waits on work_condition.
Park(i) ==
    /\ wpc[i] = "polling"
    /\ state = "RUNNING"
    /\ ready = <<>>
    /\ wpc' = [wpc EXCEPT ![i] = "parked"]
    /\ UNCHANGED <<poolvars, threadvars, taskvars, wtask, clientvars, lifevars>>

\* pthread_cond_wait may return without a signal.
SpuriousWakeup(i) ==
    /\ wpc[i] = "parked"
    /\ wpc' = [wpc EXCEPT ![i] = "polling"]
    /\ UNCHANGED <<poolvars, threadvars, taskvars, wtask, clientvars, lifevars>>

\* The wait fails: the worker stops the whole pool and returns.
WorkWaitFails(i) ==
    /\ "wait" \in Faults
    /\ wpc[i] = "polling"
    /\ state = "RUNNING"
    /\ ready = <<>>
    /\ stop_locked([wpc EXCEPT ![i] = "absent"])
    /\ UNCHANGED <<synchronization_ready, threadvars, owner, error_code,
                   wtask, lifevars>>

\* The pool no longer runs: the worker returns.
WorkerExits(i) ==
    /\ wpc[i] = "polling"
    /\ state # "RUNNING"
    /\ wpc' = [wpc EXCEPT ![i] = "absent"]
    /\ UNCHANGED <<poolvars, threadvars, taskvars, wtask, clientvars, lifevars>>

\* mutex_lock fails: the worker returns at once; a task it was running stays
\* RUNNING, in the registry and without a thread.
WorkerLockFails(i) ==
    /\ "lock" \in Faults
    /\ wpc[i] \in {"polling", "calling"}
    /\ wpc' = [wpc EXCEPT ![i] = "absent"]
    /\ wtask' = [wtask EXCEPT ![i] = NULL]
    /\ UNCHANGED <<poolvars, threadvars, taskvars, clientvars, lifevars>>

\* A callback of t that must not run again.
MustCancelOnStopOnly(t) == state = "STOPPING"
MustCancel(t) == state = "STOPPING" \/ cancel_requested[t]

\* The callback asked for another slice: the tail of the ring, if it has room.
Requeue(t, i) ==
    IF Len(ready) >= MaxTasks
    THEN RequeueFails(t) /\ wpc' = [wpc EXCEPT ![i] = "polling"]
    ELSE /\ ready' = Append(ready, t)
         /\ tstate' = [tstate EXCEPT ![t] = "QUEUED"]
         /\ wpc' \in SignalWork([wpc EXCEPT ![i] = "polling"])
         /\ UNCHANGED <<active, error_code>>

\* The task leaves the pool as how, with failure code why.
RetireUnmarked(t, i, how, why) ==
    /\ active' = remove_active_locked(t)
    /\ wpc' = [wpc EXCEPT ![i] = "polling"]
    /\ UNCHANGED <<ready, tstate, error_code>>
Retire(t, i, how, why) ==
    /\ tstate' = [tstate EXCEPT ![t] = how]
    /\ error_code' = [error_code EXCEPT ![t] = why]
    /\ active' = remove_active_locked(t)
    /\ wpc' = [wpc EXCEPT ![i] = "polling"]
    /\ UNCHANGED ready

\* The callback of worker i has returned action; the worker locks and acts.
StepReturn(i, action) ==
    LET t == wtask[i] IN
    /\ wpc[i] = "calling"
    /\ IF MustCancel(t) THEN Retire(t, i, "CANCELLED", error_code[t])
       ELSE CASE action = "YIELD" -> Requeue(t, i)
              [] action = "DONE" -> Retire(t, i, "COMPLETED", "OK")
              [] action = "FAILED" -> Retire(t, i, "FAILED", "CALLBACK")
              [] OTHER -> Retire(t, i, "FAILED", "INVALID_STEP_RESULT")
    /\ wtask' = [wtask EXCEPT ![i] = NULL]
    /\ BroadcastState
    /\ UNCHANGED <<state, synchronization_ready, threadvars, owner,
                   cancel_requested, lifevars>>

\* What a callback may return; UNKNOWN is any other integer.
StepActions == {"YIELD", "DONE", "FAILED", "UNKNOWN"}

WorkerStep(i) ==
    \/ StepBegin(i)
    \/ Park(i)
    \/ WorkWaitFails(i)
    \/ WorkerExits(i)
    \/ WorkerLockFails(i)
    \/ \E action \in StepActions : StepReturn(i, action)

---------------------------------------------------------------------------
(* The calls of application threads and callbacks. *)

\* The contract of THREAD_POOL.SPEC.md: the pool is used between the return
\* of init and the call of destroy.
Usable == synchronization_ready /\ lpc \in {"none", "stopping"}

\* thread_task_t.init, on a task that is not in the pool and not waited for.
\* It takes no lock.
TaskInit(t) ==
    /\ t \notin active
    /\ \A c \in Clients : ctask[c] # t
    /\ owner' = [owner EXCEPT ![t] = FALSE]
    /\ tstate' = [tstate EXCEPT ![t] = "IDLE"]
    /\ error_code' = [error_code EXCEPT ![t] = "OK"]
    /\ cancel_requested' = [cancel_requested EXCEPT ![t] = FALSE]
    /\ UNCHANGED <<poolvars, threadvars, workervars, clientvars, lifevars>>

\* submit has room for one more task.
HasRoomOffByOne == Cardinality(active) <= MaxTasks
HasRoom == Cardinality(active) < MaxTasks /\ Len(ready) < MaxTasks

\* submit.  Its roll-back after a failed enqueue changes nothing: the entry,
\* owner and state it set are reset before the unlock.
Submit(t) ==
    /\ Usable
    /\ state = "RUNNING"
    /\ tstate[t] = "IDLE" /\ ~owner[t]
    /\ HasRoom
    /\ active' = active \cup {t}
    /\ owner' = [owner EXCEPT ![t] = TRUE]
    /\ error_code' = [error_code EXCEPT ![t] = "OK"]
    /\ cancel_requested' = [cancel_requested EXCEPT ![t] = FALSE]
    /\ ready' = Append(ready, t)
    /\ tstate' = [tstate EXCEPT ![t] = "QUEUED"]
    /\ wpc' \in SignalWork(wpc)
    /\ UNCHANGED <<state, synchronization_ready, threadvars, wtask, clientvars,
                   lifevars>>

\* cancel of a running task: its callback is not interrupted.
CancelRunning(t) ==
    /\ Usable
    /\ find_active_locked(t)
    /\ tstate[t] = "RUNNING"
    /\ cancel_requested' = [cancel_requested EXCEPT ![t] = TRUE]
    /\ UNCHANGED <<poolvars, threadvars, tstate, owner, error_code, workervars,
                   clientvars, lifevars>>

\* cancel of any other active task: it leaves the ring and the registry.
CancelQueued(t) ==
    /\ Usable
    /\ find_active_locked(t)
    /\ tstate[t] # "RUNNING"
    /\ ready' = IF tstate[t] = "QUEUED" THEN remove_ready_locked(t) ELSE ready
    /\ tstate' = [tstate EXCEPT ![t] = "CANCELLED"]
    /\ active' = remove_active_locked(t)
    /\ BroadcastState
    /\ UNCHANGED <<state, synchronization_ready, threadvars, owner, error_code,
                   cancel_requested, workervars, lifevars>>

\* wait, up to its first condition_wait.  Every other outcome returns at once.
WaitBegin(c, t) ==
    /\ Usable
    /\ cpc[c] = "outside"
    /\ tstate[t] # "IDLE" /\ ~is_terminal(t)
    /\ find_active_locked(t)
    /\ cpc' = [cpc EXCEPT ![c] = "parked"]
    /\ ctask' = [ctask EXCEPT ![c] = t]
    /\ UNCHANGED <<poolvars, threadvars, taskvars, workervars, lifevars>>

WaitWakesSpuriously(c) ==
    /\ cpc[c] = "parked"
    /\ cpc' = [cpc EXCEPT ![c] = "woken"]
    /\ UNCHANGED <<poolvars, threadvars, taskvars, workervars, ctask, lifevars>>

\* wait returns: OK on a terminal task, NOT_FOUND on one that is no longer
\* active, SYSTEM_ERROR when the next condition_wait fails.
WaitReturns(c) ==
    /\ cpc[c] = "woken"
    /\ is_terminal(ctask[c]) \/ ctask[c] \notin active \/ "wait" \in Faults
    /\ cpc' = [cpc EXCEPT ![c] = "outside"]
    /\ ctask' = [ctask EXCEPT ![c] = NULL]
    /\ UNCHANGED <<poolvars, threadvars, taskvars, workervars, lifevars>>

\* The task is not over: wait goes back to condition_wait.
WaitAgain(c) ==
    /\ cpc[c] = "woken"
    /\ ~is_terminal(ctask[c]) /\ ctask[c] \in active
    /\ cpc' = [cpc EXCEPT ![c] = "parked"]
    /\ UNCHANGED <<poolvars, threadvars, taskvars, workervars, ctask, lifevars>>

---------------------------------------------------------------------------
(* The lifecycle calls; callers serialize them. *)

\* The call returns; its locals are forgotten.
LifecycleIdle == lpc' = "none" /\ lidx' = 0 /\ lwant' = 0

\* init, up to the creation loop, on zeroed storage that no thread is left in:
\* what a second init would do under such a thread is undefined, and not followed.
InitBegin(n) ==
    /\ lpc = "none" /\ ~synchronization_ready
    /\ \A i \in Workers : wpc[i] = "absent"
    /\ synchronization_ready' = TRUE
    /\ state' = "RUNNING"
    /\ lpc' = "starting"
    /\ lidx' = 0
    /\ lwant' = n
    /\ UNCHANGED <<active, ready, threadvars, taskvars, workervars, clientvars>>

StartsOneTooMany == worker_count = lwant
StartsTheLast == worker_count + 1 = lwant

\* One create_worker succeeds; the loop ends with the last.
CreateWorker ==
    /\ lpc = "starting"
    /\ wpc' = [wpc EXCEPT ![worker_count] = "polling"]
    /\ worker_count' = worker_count + 1
    /\ IF StartsTheLast THEN LifecycleIdle ELSE UNCHANGED lifevars
    /\ UNCHANGED <<poolvars, worker_joined, taskvars, wtask, clientvars>>

\* create_worker fails: the started workers are told to stop.
CreateWorkerFails ==
    /\ "create" \in Faults
    /\ lpc = "starting"
    /\ state' = "STOPPING"
    /\ wpc' = BroadcastWork(wpc)
    /\ BroadcastState
    /\ lpc' = "unwinding"
    /\ UNCHANGED <<synchronization_ready, active, ready, threadvars, taskvars,
                   wtask, lidx, lwant>>

\* Variant: a join returns at once.
ReturnsAtOnce(i) == TRUE

\* join_worker returns when the thread has returned from its entry function.
HasReturned(i) == wpc[i] = "absent"

\* The memset at the end of destroy and of a failed init.
JoinsKept == worker_joined
NoneJoined == [i \in Workers |-> FALSE]
Erase ==
    /\ state' = "STOPPED"
    /\ synchronization_ready' = FALSE
    /\ active' = {}
    /\ ready' = <<>>
    /\ worker_count' = 0
    /\ worker_joined' = NoneJoined

\* A failed init joins what it started, and ignores what the joins return.
UnwindJoins ==
    /\ lpc = "unwinding"
    /\ lidx < worker_count
    /\ HasReturned(lidx) \/ "join" \in Faults
    /\ lidx' = lidx + 1
    /\ UNCHANGED <<poolvars, threadvars, taskvars, workervars, clientvars, lpc, lwant>>

\* It then erases, under a worker too whose join has failed.
UnwindEnds ==
    /\ lpc = "unwinding"
    /\ lidx = worker_count
    /\ Erase
    /\ LifecycleIdle
    /\ UNCHANGED <<taskvars, workervars, clientvars>>

\* shutdown (alone or as the first half of destroy), up to its joins.
ShutdownBegin(place) ==
    /\ lpc = "none" /\ synchronization_ready
    /\ place = "destroying" => \A c \in Clients : cpc[c] = "outside"
    /\ IF state = "RUNNING"
       THEN stop_locked(wpc)
       ELSE UNCHANGED <<state, active, ready, tstate, cancel_requested, wpc, clientvars>>
    /\ lpc' = place
    /\ lidx' = 0
    /\ UNCHANGED <<synchronization_ready, threadvars, owner, error_code, wtask, lwant>>

\* join_worker on the next worker that is not joined yet.
ShutdownJoins ==
    /\ lpc \in {"stopping", "destroying"}
    /\ lidx < worker_count
    /\ \/ worker_joined[lidx] /\ UNCHANGED worker_joined
       \/ /\ ~worker_joined[lidx]
          /\ HasReturned(lidx)
          /\ worker_joined' = [worker_joined EXCEPT ![lidx] = TRUE]
       \/ /\ ~worker_joined[lidx]
          /\ "join" \in Faults
          /\ UNCHANGED worker_joined
    /\ lidx' = lidx + 1
    /\ UNCHANGED <<poolvars, worker_count, taskvars, workervars, clientvars, lpc, lwant>>

AllJoined == \A i \in Workers : i < worker_count => worker_joined[i]

\* A join failed, or the second mutex_lock did: shutdown returns an error and
\* leaves the pool STOPPING, to be shut down again.
ShutdownFails ==
    /\ lpc \in {"stopping", "destroying"}
    /\ lidx = worker_count
    /\ ~AllJoined \/ "lock" \in Faults
    /\ LifecycleIdle
    /\ UNCHANGED <<poolvars, threadvars, taskvars, workervars, clientvars>>

\* Every worker is joined: the pool is STOPPED and the waiters are told.
ShutdownEnds ==
    /\ lpc \in {"stopping", "destroying"}
    /\ lidx = worker_count
    /\ AllJoined
    /\ state' = "STOPPED"
    /\ BroadcastState
    /\ IF lpc = "destroying"
       THEN lpc' = "erasing" /\ UNCHANGED <<lidx, lwant>>
       ELSE LifecycleIdle
    /\ UNCHANGED <<synchronization_ready, active, ready, threadvars, taskvars, workervars>>

\* destroy, after its shutdown returned OK.
DestroyEnds ==
    /\ lpc = "erasing"
    /\ Erase
    /\ LifecycleIdle
    /\ UNCHANGED <<taskvars, workervars, clientvars>>

---------------------------------------------------------------------------
(* The specification. *)

Init ==
    /\ state = "STOPPED"
    /\ synchronization_ready = FALSE
    /\ active = {}
    /\ ready = <<>>
    /\ worker_count = 0
    /\ worker_joined = [i \in Workers |-> FALSE]
    /\ tstate = [t \in Tasks |-> "IDLE"]
    /\ owner = [t \in Tasks |-> FALSE]
    /\ error_code = [t \in Tasks |-> "OK"]
    /\ cancel_requested = [t \in Tasks |-> FALSE]
    /\ wpc = [i \in Workers |-> "absent"]
    /\ wtask = [i \in Workers |-> NULL]
    /\ cpc = [c \in Clients |-> "outside"]
    /\ ctask = [c \in Clients |-> NULL]
    /\ lpc = "none"
    /\ lidx = 0
    /\ lwant = 0

ClientStep(c) == WaitReturns(c) \/ WaitAgain(c)

LifecycleStep ==
    \/ CreateWorker
    \/ CreateWorkerFails
    \/ UnwindJoins
    \/ UnwindEnds
    \/ ShutdownJoins
    \/ ShutdownFails
    \/ ShutdownEnds
    \/ DestroyEnds

LifecycleCall ==
    \/ \E n \in 1..MaxWorkers : InitBegin(n)
    \/ \E place \in {"stopping", "destroying"} : ShutdownBegin(place)

Next ==
    \/ \E i \in Workers : WorkerStep(i) \/ SpuriousWakeup(i)
    \/ \E t \in Tasks : TaskInit(t) \/ Submit(t) \/ CancelRunning(t) \/ CancelQueued(t)
    \/ \E c \in Clients : ClientStep(c) \/ WaitWakesSpuriously(c)
    \/ \E c \in Clients, t \in Tasks : WaitBegin(c, t)
    \/ LifecycleStep
    \/ LifecycleCall

Spec == Init /\ [][Next]_vars

\* Callbacks are bounded, a thread that waits for the mutex gets it, and a
\* lifecycle call in progress goes on.  Nothing makes a caller call.
Fairness ==
    /\ \A i \in Workers : WF_vars(WorkerStep(i))
    /\ \A c \in Clients : WF_vars(ClientStep(c))
    /\ WF_vars(LifecycleStep)

FairSpec == Spec /\ Fairness

---------------------------------------------------------------------------
(* Safety. *)

TypeOK ==
    /\ state \in PoolStates
    /\ synchronization_ready \in BOOLEAN
    /\ active \subseteq Tasks
    /\ ready \in Seq(Tasks)
    /\ worker_count \in 0..MaxWorkers
    /\ worker_joined \in [Workers -> BOOLEAN]
    /\ tstate \in [Tasks -> TaskStates]
    /\ owner \in [Tasks -> BOOLEAN]
    /\ error_code \in [Tasks -> ErrorCodes]
    /\ cancel_requested \in [Tasks -> BOOLEAN]
    /\ wpc \in [Workers -> WorkerPlaces]
    /\ wtask \in [Workers -> Tasks \cup {NULL}]
    /\ cpc \in [Clients -> ClientPlaces]
    /\ ctask \in [Clients -> Tasks \cup {NULL}]
    /\ lpc \in LifecyclePlaces
    /\ lidx \in 0..MaxWorkers
    /\ lwant \in 0..MaxWorkers

\* The ring holds every queued task once and nothing else, so no task is run
\* twice for one submission or lost (enqueue_locked, remove_ready_locked).
ReadyIsExact ==
    /\ \A j, k \in 1..Len(ready) : ready[j] = ready[k] => j = k
    /\ \A t \in Tasks : tstate[t] = "QUEUED" <=> \E j \in 1..Len(ready) : ready[j] = t

\* No task is ever in the callback of two workers at once, and a task in a
\* callback is RUNNING: no other thread finishes, requeues or resets it
\* meanwhile (worker, lines 334-340).
OneWorkerPerTask ==
    \A i \in Workers : wpc[i] = "calling" =>
        /\ tstate[wtask[i]] = "RUNNING"
        /\ \A j \in Workers : wpc[j] = "calling" /\ wtask[i] = wtask[j] => i = j

\* A RUNNING task is in the callback of some worker: nobody waits for a slice
\* that no thread will end.  It needs the worker's second mutex_lock to succeed.
RunningTaskHasWorker ==
    \A t \in Tasks : tstate[t] = "RUNNING" =>
        \E i \in Workers : wpc[i] = "calling" /\ wtask[i] = t

\* The registry is the set of unfinished tasks of this pool: capacity is
\* neither leaked by a finished task nor freed under an unfinished one.
RegistryIsExact ==
    /\ active = {t \in Tasks : tstate[t] \in {"QUEUED", "RUNNING"}}
    /\ \A t \in active : owner[t]

\* A yield always finds room, however callbacks, submissions and cancellations
\* interleave: no task is ever failed with THREAD_POOL_FULL (lines 346-349).
YieldAlwaysHasRoom == \A t \in Tasks : error_code[t] # "FULL"

\* A cancellation that found the task running is never forgotten: the task is
\* not queued again, does not complete, and ends cancelled.
CancelRequestIsKept ==
    \A t \in Tasks : cancel_requested[t] => tstate[t] \in {"RUNNING", "CANCELLED"}

\* While the pool stops, nothing is queued, every task still in the pool is
\* running with its cancellation requested, and no worker sleeps where nobody
\* will signal it again (stop_locked); once STOPPED it holds nothing.
StoppingDrains ==
    /\ state # "RUNNING" =>
          /\ ready = <<>>
          /\ \A t \in active : cancel_requested[t]
          /\ \A i \in Workers : wpc[i] # "parked"
    /\ state = "STOPPED" => active = {}

\* A pool is STOPPED only when every thread it created has returned, whatever
\* failed and however often shutdown is called again: destroy, which goes on
\* after an OK only, never clears the storage of a thread that runs (524-536).
StoppedPoolHasNoWorker ==
    synchronization_ready /\ state = "STOPPED" => \A i \in Workers : wpc[i] = "absent"

\* No worker outlives the storage of its pool: destroy, and an init whose second
\* worker could not be created, clear it after the first has returned.  It needs
\* that a creation and then a join do not both fail: init ignores its joins.
NoWorkerOutlivesPool ==
    ~synchronization_ready => \A i \in Workers : wpc[i] = "absent"

\* No worker sleeps on a task it should run: while one is parked, there are as
\* many awake workers on their way to the queue as there are tasks in it.
NoLostWakeup ==
    (\E i \in Workers : wpc[i] = "parked") =>
        Len(ready) <= Cardinality({i \in Workers : wpc[i] = "polling"})

\* No waiter sleeps on a task that is over.
NoLostCompletion ==
    \A c \in Clients : cpc[c] = "parked" => ~is_terminal(ctask[c])

---------------------------------------------------------------------------
(* What a step may not do. *)

\* A task that is over keeps its verdict and its error code until its owner
\* resets it: no late callback, cancel or shutdown overwrites them.
VerdictIsFinal ==
    [][\A t \in Tasks :
          is_terminal(t) /\ tstate'[t] # "IDLE" =>
              tstate'[t] = tstate[t] /\ error_code'[t] = error_code[t]]_vars

---------------------------------------------------------------------------
(* Liveness. *)

\* A wait on a task that is over returns.
WaitOfEndedTaskReturns ==
    \A c \in Clients : (cpc[c] # "outside" /\ is_terminal(ctask[c])) ~> cpc[c] = "outside"

\* init, shutdown and destroy return: no worker is left parked and unjoined.
LifecycleCallsReturn == lpc # "none" ~> lpc = "none"

---------------------------------------------------------------------------
(* The pool implements the task queue. *)

TQ == INSTANCE TaskQueue WITH
        phase <- tstate,
        queue <- ready,
        doomed <- {t \in Tasks : tstate[t] = "RUNNING" /\ cancel_requested[t]},
        open <- (state = "RUNNING")

\* Every step of the pool is a step of the FIFO task queue, or none: order,
\* capacity, cancellation and closing are as promised. Under the pool's own
\* fairness the queue's promises of progress hold too: a free worker starts the
\* head, so that every queued task gets a slice or is cancelled although others
\* yield for ever (round-robin, THREAD_POOL.SPEC.md).
ImplementsFairTaskQueue == TQ!TQSpec
==============================================================================
