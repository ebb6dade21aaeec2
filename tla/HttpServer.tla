------------------------------ MODULE HttpServer ------------------------------
(***************************************************************************)
(* The cooperative HTTP server of stdlib/http/server.cp on top of the pool *)
(* of TaskQueue: the persistent head task (accept, receive, send), the     *)
(* persistent router task (dispatch, notify), one handler task for each    *)
(* exchange slot, and the program that starts and stops the server.        *)
(*                                                                         *)
(* Atomicity.  Exchanges are read and written under the server's mutex, so *)
(* a critical section without a pool call is one action.  The head and the *)
(* router keep the mutex while they go through the exchanges, and the      *)
(* router calls the pool in between: holder and todo make each visit an    *)
(* action of its own.  A pool call is one action of TaskQueue.  All pool   *)
(* workers, handlers and the program's own thread interleave freely.       *)
(*                                                                         *)
(* Data.  A request is the path it asks for; a response is named after who *)
(* wrote it, and is ResponseChunks sends long.  A slot stands for its      *)
(* exchange and for the handler_task inside it.                            *)
(***************************************************************************)
EXTENDS TaskQueue

CONSTANTS HeadTask, RouterTask,     \* head_task and router_task
          Slots,            \* the exchanges, each with its handler_task
          Others,           \* tasks of the program in the same pool
          Paths,            \* the paths of routes and requests
          MaxRoutes,        \* CPLUS_HTTP_SERVER_MAX_ROUTES
          ResponseChunks,   \* the sends a response takes
          WaitsFail,        \* pool.wait may return THREAD_POOL_SYSTEM_ERROR
          MaxSlices         \* bound: slices a handler takes at most

Nobody == "nobody"

ASSUME HttpServerAssumption ==
    /\ Tasks = {HeadTask, RouterTask} \cup Slots \cup Others
    /\ HeadTask # RouterTask
    /\ {HeadTask, RouterTask} \cap Slots = {}
    /\ ({HeadTask, RouterTask} \cup Slots) \cap Others = {}
    /\ Slots # {}
    /\ Nobody \notin Tasks
    /\ Cardinality(Slots) + 2 <= MaxTasks     \* the #error of line 41
    /\ MaxRoutes \in Nat \ {0}
    /\ ResponseChunks \in Nat \ {0}
    /\ WaitsFail \in BOOLEAN
    /\ MaxSlices \in Nat \ {0}

VARIABLES app,       \* where the program is in start, stop or neither
          joining,   \* the handlers stop has still to cancel and wait for
          waiting,   \* the handler stop waits for, or Nobody
          running,   \* self->running
          started,   \* self->started
          routes,    \* the paths in self->routes
          exchange,  \* self->exchanges
          holder,    \* the callback that keeps self->mutex, or Nobody
          todo,      \* the exchanges it has still to visit
          verdict    \* what a callback has returned and the pool not yet seen

srvvars == <<app, joining, waiting, running, started, routes, exchange, holder,
             todo, verdict>>
vars == <<tqvars, srvvars>>

NoPath == "unread"
ServerTasks == {HeadTask, RouterTask} \cup Slots
Verdicts == {"yield", "done", "failed"}
Responses == {"none", "refused", "404", "503", "500", "route"}

\* An exchange after memset.
Blank == [in_use            |-> FALSE,
          request           |-> NoPath,
          request_finished  |-> FALSE,
          route_dispatched  |-> FALSE,
          handler_submitted |-> FALSE,
          response          |-> "none",
          response_ready    |-> FALSE,
          head_notified     |-> FALSE,
          response_offset   |-> 0,
          slices            |-> 0]

Init ==
    /\ TQInit
    /\ app = "gone"
    /\ joining = {}
    /\ waiting = Nobody
    /\ running = FALSE
    /\ started = FALSE
    /\ routes = {}
    /\ exchange = [s \in Slots |-> Blank]
    /\ holder = Nobody
    /\ todo = {}
    /\ verdict = [t \in ServerTasks |-> "none"]

Free == holder = Nobody
InUse == {s \in Slots : exchange[s].in_use}

-------------------------------------------------------------------------------
\* Exchanges, as functions of the record (the *_locked methods).

\* release_exchange_locked: what describes the request stays behind.
Released(e) ==
    [e EXCEPT !.in_use = FALSE, !.request_finished = FALSE,
              !.response_ready = FALSE, !.head_notified = FALSE]

\* set_simple_response_locked.
Simple(e, response) ==
    [e EXCEPT !.response = response, !.response_ready = TRUE, !.head_notified = TRUE]

\* Variant: the early return for a finished request is missing.
ReceivedAgain(e) ==
    {e, Released(e)}
    \cup {[e EXCEPT !.request = p, !.request_finished = TRUE] : p \in Paths}

\* receive_one_locked: nothing yet, a whole request, one that is refused, or
\* the end of the connection.
Received(e) ==
    IF e.request_finished THEN {e}
    ELSE {e, Released(e)}
         \cup {[e EXCEPT !.request = p, !.request_finished = TRUE] : p \in Paths}
         \cup {[Simple(e, "refused") EXCEPT !.request_finished = TRUE,
                                            !.route_dispatched = TRUE]}

\* send_one_locked: the socket takes nothing or a chunk, or it fails.
Sent(e) ==
    IF ~e.response_ready \/ ~e.head_notified THEN {e}
    ELSE {e, Released(e)}
         \cup (IF e.response_offset + 1 < ResponseChunks
               THEN {[e EXCEPT !.response_offset = @ + 1]} ELSE {})

\* The two calls run_head_step makes for an exchange in use.
Serviced(e) == UNION {IF r.in_use THEN Sent(r) ELSE {r} : r \in Received(e)}

-------------------------------------------------------------------------------
\* The pool, as the server calls it.

\* thread_task_t.init, and pool.submit, which takes the task or not.
InitTask(t) ==
    /\ phase' = [phase EXCEPT ![t] = "IDLE"]
    /\ UNCHANGED <<queue, doomed, open>>
CanSubmit == open /\ Cardinality(Unfinished) < MaxTasks
Submit(t) ==
    /\ phase' = [phase EXCEPT ![t] = "QUEUED"]
    /\ queue' = Append(queue, t)
    /\ UNCHANGED <<doomed, open>>

\* pool.cancel, whose result the server ignores.
Cancel(t) == CancelTask(t) \/ (t \notin Unfinished /\ UNCHANGED tqvars)

\* pool.wait has returned: the task has ended, or the wait has failed, which
\* the server does not look at.
Waited(t) == t \notin Unfinished \/ WaitsFail

\* The callback of t has been called and has not returned.
Active(t) == t \in Running /\ verdict[t] = "none"
Return(t, v) == verdict' = [verdict EXCEPT ![t] = v]

\* A worker takes the next task.
StartSlice == Start /\ UNCHANGED srvvars

\* A worker acts on what the callback of t returned.
EndSlice(t) ==
    /\ t \in Running
    /\ verdict[t] # "none"
    /\ \/ Abandon(t)
       \/ verdict[t] = "yield" /\ Yield(t)
       \/ verdict[t] = "done" /\ Finish(t) /\ phase'[t] = "COMPLETED"
       \/ verdict[t] = "failed" /\ Finish(t) /\ phase'[t] = "FAILED"
    /\ Return(t, "none")
    /\ UNCHANGED <<app, joining, waiting, running, started, routes, exchange, holder, todo>>

\* The rest of the program: it opens the pool before the server needs it, the
\* pool may shut down (a worker that cannot wait does that), and tasks of the
\* program compete for its places.
OpenPool == app = "gone" /\ Open /\ UNCHANGED srvvars
ClosePool == Close /\ UNCHANGED srvvars
OtherTask(t) == (Reset({t}) \/ Accept(t) \/ SliceEnds(t)) /\ UNCHANGED srvvars

-------------------------------------------------------------------------------
\* The head task: run_head_step.

\* A connection is taken into a free slot, whose memory is cleared, the
\* handler's task included; with no free slot it is closed at once.
AcceptOne ==
    \/ UNCHANGED <<exchange, phase>>
    \/ \E s \in Slots \ InUse :
          /\ exchange' = [exchange EXCEPT ![s] = [Blank EXCEPT !.in_use = TRUE]]
          /\ phase' = [phase EXCEPT ![s] = "IDLE"]

HeadEnter ==
    /\ Active(HeadTask)
    /\ Free
    /\ IF running
       THEN /\ AcceptOne
            /\ holder' = HeadTask
            /\ todo' = {s \in Slots : exchange'[s].in_use}
            /\ UNCHANGED verdict
       ELSE /\ Return(HeadTask, "done")
            /\ UNCHANGED <<exchange, phase, holder, todo>>
    /\ UNCHANGED <<queue, doomed, open, app, joining, waiting, running, started, routes>>

HeadVisit(s) ==
    /\ holder = HeadTask
    /\ s \in todo
    /\ todo' = todo \ {s}
    /\ \E e \in Serviced(exchange[s]) : exchange' = [exchange EXCEPT ![s] = e]
    /\ UNCHANGED <<tqvars, app, joining, waiting, running, started, routes, holder, verdict>>

\* Variant: the mutex is not unlocked on the way out.
LeaveLocked(t) ==
    /\ holder = t
    /\ todo = {}
    /\ Return(t, "yield")
    /\ UNCHANGED <<tqvars, app, joining, waiting, running, started, routes, exchange, holder, todo>>

\* Either persistent callback unlocks and yields when it has seen all of them.
Leave(t) ==
    /\ holder = t
    /\ todo = {}
    /\ holder' = Nobody
    /\ Return(t, "yield")
    /\ UNCHANGED <<tqvars, app, joining, waiting, running, started, routes, exchange, todo>>

-------------------------------------------------------------------------------
\* The router task: run_router_step.

RouterEnter ==
    /\ Active(RouterTask)
    /\ Free
    /\ IF running
       THEN holder' = RouterTask /\ todo' = InUse /\ UNCHANGED verdict
       ELSE Return(RouterTask, "done") /\ UNCHANGED <<holder, todo>>
    /\ UNCHANGED <<tqvars, app, joining, waiting, running, started, routes, exchange>>

\* dispatch_route_locked: the handler, whose task the memset of its exchange has
\* left as thread_task_t.init would, is submitted, and its status is looked at
\* in the same visit; or the answer is settled without a handler.
RouterDispatch(s) ==
    LET e == [exchange[s] EXCEPT !.route_dispatched = TRUE]
        found == e.request \in routes
    IN  /\ holder = RouterTask
        /\ s \in todo
        /\ exchange[s].request_finished /\ ~exchange[s].route_dispatched
        /\ \/ /\ found /\ CanSubmit
              /\ Submit(s)
              /\ exchange' = [exchange EXCEPT ![s] = [e EXCEPT !.handler_submitted = TRUE]]
              /\ UNCHANGED todo
           \/ /\ found /\ ~CanSubmit
              /\ exchange' = [exchange EXCEPT ![s] = Simple(e, "503")]
              /\ todo' = todo \ {s}
              /\ UNCHANGED tqvars
           \/ /\ ~found
              /\ exchange' = [exchange EXCEPT ![s] = Simple(e, "404")]
              /\ todo' = todo \ {s}
              /\ UNCHANGED tqvars
        /\ UNCHANGED <<app, joining, waiting, running, started, routes, holder, verdict>>

\* Variants: a published response is handed over before the handler has ended;
\* even if it failed; and a handler that published nothing is waited for.
NotifiedEarly(e, state) ==
    IF ~e.handler_submitted \/ e.head_notified THEN e
    ELSE IF e.response_ready THEN [e EXCEPT !.head_notified = TRUE]
    ELSE IF state \in Ended THEN Simple(e, "500")
    ELSE e

NotifiedOfFailure(e, state) ==
    IF ~e.handler_submitted \/ e.head_notified \/ state \notin Ended THEN e
    ELSE IF e.response_ready THEN [e EXCEPT !.head_notified = TRUE]
    ELSE Simple(e, "500")

NotifiedOnlyIfReady(e, state) ==
    IF ~e.handler_submitted \/ e.head_notified \/ state \notin Ended THEN e
    ELSE IF state # "COMPLETED" THEN Simple(e, "500")
    ELSE [e EXCEPT !.head_notified = e.response_ready]

\* The status of the handler, and what follows from it.
Notified(e, state) ==
    IF ~e.handler_submitted \/ e.head_notified \/ state \notin Ended THEN e
    ELSE IF state = "COMPLETED" /\ e.response_ready THEN [e EXCEPT !.head_notified = TRUE]
    ELSE Simple(e, "500")

RouterCheck(s) ==
    /\ holder = RouterTask
    /\ s \in todo
    /\ exchange[s].request_finished => exchange[s].route_dispatched
    /\ todo' = todo \ {s}
    /\ exchange' = [exchange EXCEPT ![s] = Notified(@, phase[s])]
    /\ UNCHANGED <<tqvars, app, joining, waiting, running, started, routes, holder, verdict>>

-------------------------------------------------------------------------------
\* A route's handler: it calls append_response, finish_response or respond any
\* number of times in a slice, and returns whatever it likes.

Handle(s, guard, e) ==
    /\ Active(s)
    /\ Free
    /\ exchange[s].in_use /\ ~exchange[s].response_ready
    /\ guard
    /\ exchange' = [exchange EXCEPT ![s] = e]
    /\ UNCHANGED <<tqvars, app, joining, waiting, running, started, routes, holder, todo, verdict>>

\* response_append_locked.
HandlerAppends(s) ==
    Handle(s, exchange[s].response = "none", [exchange[s] EXCEPT !.response = "route"])

\* finish_response wants a response that is not empty.
HandlerFinishes(s) ==
    Handle(s, exchange[s].response = "route", [exchange[s] EXCEPT !.response_ready = TRUE])

\* respond, by a handler that has appended nothing.
HandlerResponds(s) ==
    Handle(s, exchange[s].response = "none",
           [exchange[s] EXCEPT !.response = "route", !.response_ready = TRUE])

HandlerReturns(s) ==
    /\ Active(s)
    /\ \/ exchange[s].slices < MaxSlices /\ Return(s, "yield")
       \/ Return(s, "done")
       \/ Return(s, "failed")
    /\ exchange' = [exchange EXCEPT ![s].slices = IF @ < MaxSlices THEN @ + 1 ELSE @]
    /\ UNCHANGED <<tqvars, app, joining, waiting, running, started, routes, holder, todo>>

HandlerStep(s) ==
    HandlerAppends(s) \/ HandlerFinishes(s) \/ HandlerResponds(s) \/ HandlerReturns(s)

-------------------------------------------------------------------------------
\* The program: init, add_route, start, stop and destroy, called by one thread
\* outside of the pool's callbacks.

At(from, to) == app = from /\ app' = to

InitServer ==
    /\ At("gone", "down")
    /\ UNCHANGED <<tqvars, joining, waiting, running, started, routes, exchange,
                   holder, todo, verdict>>

AddRoute(p) ==
    /\ app = "down"
    /\ p \notin routes
    /\ Cardinality(routes) < MaxRoutes
    /\ routes' = routes \cup {p}
    /\ UNCHANGED <<tqvars, app, joining, waiting, running, started, exchange, holder,
                   todo, verdict>>

\* start, once the listener is open (when it cannot be, nothing has changed).
StartListener ==
    /\ At("down", "submit_head")
    /\ ~started
    /\ running' = TRUE
    /\ started' = TRUE
    /\ InitTask(HeadTask)
    /\ UNCHANGED <<joining, waiting, routes, exchange, holder, todo, verdict>>

SubmitHead ==
    /\ IF CanSubmit
       THEN At("submit_head", "init_router") /\ Submit(HeadTask) /\ UNCHANGED <<running, started>>
       ELSE /\ At("submit_head", "down")
            /\ running' = FALSE
            /\ started' = FALSE
            /\ UNCHANGED tqvars
    /\ UNCHANGED <<joining, waiting, routes, exchange, holder, todo, verdict>>

InitRouter ==
    /\ At("init_router", "submit_router")
    /\ InitTask(RouterTask)
    /\ UNCHANGED <<joining, waiting, running, started, routes, exchange, holder, todo, verdict>>

SubmitRouter ==
    /\ IF CanSubmit
       THEN At("submit_router", "up") /\ Submit(RouterTask)
       ELSE At("submit_router", "unwind_flag") /\ UNCHANGED tqvars
    /\ UNCHANGED <<joining, waiting, running, started, routes, exchange, holder, todo, verdict>>

\* Both start and stop clear running under the mutex,
ClearRunning ==
    /\ At("unwind_flag", "unwind_cancel") \/ At("stop_flag", "cancel_head")
    /\ Free
    /\ running' = FALSE
    /\ UNCHANGED <<tqvars, joining, waiting, started, routes, exchange, holder, todo, verdict>>

\* cancel the persistent tasks,
CancelPersistent ==
    /\ \/ At("unwind_cancel", "unwind_wait") /\ Cancel(HeadTask)
       \/ At("cancel_head", "cancel_router") /\ Cancel(HeadTask)
       \/ At("cancel_router", "wait_head") /\ Cancel(RouterTask)
    /\ UNCHANGED <<joining, waiting, running, started, routes, exchange, holder, todo, verdict>>

\* Variant: the failed start does not wait for the head.
UnwoundAtOnce ==
    /\ At("unwind_wait", "down")
    /\ started' = FALSE
    /\ UNCHANGED <<tqvars, joining, waiting, running, routes, exchange, holder, todo, verdict>>

\* and wait for them.  A start that failed leaves the exchanges as they are.
Unwound ==
    /\ At("unwind_wait", "down")
    /\ Waited(HeadTask)
    /\ started' = FALSE
    /\ UNCHANGED <<tqvars, joining, waiting, running, routes, exchange, holder, todo, verdict>>

BeginStop ==
    /\ At("up", "stop_flag")
    /\ UNCHANGED <<tqvars, joining, waiting, running, started, routes, exchange,
                   holder, todo, verdict>>

WaitHead ==
    /\ At("wait_head", "wait_router")
    /\ Waited(HeadTask)
    /\ UNCHANGED <<tqvars, joining, waiting, running, started, routes, exchange,
                   holder, todo, verdict>>

\* Variant: stop takes a handler that has published its response for ended.
JoinsUnpublished ==
    /\ At("wait_router", "join")
    /\ Waited(RouterTask)
    /\ joining' = {s \in Slots : exchange[s].handler_submitted /\ ~exchange[s].response_ready}
    /\ UNCHANGED <<tqvars, waiting, running, started, routes, exchange, holder, todo, verdict>>

\* stop then goes through the handlers, without the mutex.
WaitRouter ==
    /\ At("wait_router", "join")
    /\ Waited(RouterTask)
    /\ joining' = {s \in Slots : exchange[s].handler_submitted}
    /\ UNCHANGED <<tqvars, waiting, running, started, routes, exchange, holder, todo, verdict>>

CancelHandler(s) ==
    /\ app = "join"
    /\ waiting = Nobody
    /\ s \in joining
    /\ Cancel(s)
    /\ joining' = joining \ {s}
    /\ waiting' = s
    /\ UNCHANGED <<app, running, started, routes, exchange, holder, todo, verdict>>

WaitHandler(s) ==
    /\ waiting = s
    /\ Waited(s)
    /\ waiting' = Nobody
    /\ UNCHANGED <<tqvars, app, joining, running, started, routes, exchange, holder, todo, verdict>>

\* It closes what is left of the connections, and the listener.
ReleaseAll ==
    /\ At("join", "down")
    /\ joining = {} /\ waiting = Nobody
    /\ Free
    /\ exchange' = [s \in Slots |-> Released(exchange[s])]
    /\ started' = FALSE
    /\ UNCHANGED <<tqvars, joining, waiting, running, routes, holder, todo, verdict>>

\* destroy is stop and then a memset of the server, tasks included.
Destroy ==
    /\ At("down", "gone")
    /\ exchange' = [s \in Slots |-> Blank]
    /\ routes' = {}
    /\ phase' = [t \in Tasks |-> IF t \in ServerTasks THEN "IDLE" ELSE phase[t]]
    /\ UNCHANGED <<queue, doomed, open, joining, waiting, running, started, holder, todo, verdict>>

StartSteps == SubmitHead \/ InitRouter \/ SubmitRouter \/ Unwound
StopSteps == WaitHead \/ WaitRouter \/ (\E s \in Slots : CancelHandler(s) \/ WaitHandler(s)) \/ ReleaseAll
CallSteps == StartSteps \/ ClearRunning \/ CancelPersistent \/ StopSteps

HeadStep == HeadEnter \/ (\E s \in Slots : HeadVisit(s)) \/ Leave(HeadTask)
RouterStep == \/ RouterEnter
              \/ \E s \in Slots : RouterDispatch(s) \/ RouterCheck(s)
              \/ Leave(RouterTask)

Next ==
    \/ OpenPool \/ ClosePool \/ StartSlice
    \/ \E t \in ServerTasks : EndSlice(t)
    \/ \E t \in Others : OtherTask(t)
    \/ HeadStep \/ RouterStep
    \/ \E s \in Slots : HandlerStep(s)
    \/ InitServer \/ StartListener \/ BeginStop \/ Destroy
    \/ \E p \in Paths : AddRoute(p)
    \/ CallSteps

Spec == Init /\ [][Next]_vars

-------------------------------------------------------------------------------
(***************************************************************************)
(* Fairness.  Callbacks return and the operating system runs every thread; *)
(* a thread that waits for the server's mutex gets it in the end, although *)
(* the others keep coming back for it (strong fairness of the two enters   *)
(* and of ClearRunning).  Nothing is assumed of clients, of handlers       *)
(* beyond a bounded number of slices, or of what the program calls.        *)
(***************************************************************************)
Fairness ==
    /\ WF_vars(StartSlice)
    /\ \A t \in ServerTasks : WF_vars(EndSlice(t))
    /\ \A t \in Others : WF_vars(SliceEnds(t) /\ UNCHANGED srvvars)
    /\ SF_vars(HeadEnter) /\ SF_vars(RouterEnter) /\ SF_vars(ClearRunning)
    /\ WF_vars(\E s \in Slots : HeadVisit(s)) /\ WF_vars(Leave(HeadTask))
    /\ WF_vars(\E s \in Slots : RouterDispatch(s) \/ RouterCheck(s)) /\ WF_vars(Leave(RouterTask))
    /\ \A s \in Slots : WF_vars(HandlerReturns(s))
    /\ WF_vars(CallSteps)

FairSpec == Spec /\ Fairness

-------------------------------------------------------------------------------
\* Properties.

Exchanges == [in_use            : BOOLEAN,
              request           : Paths \cup {NoPath},
              request_finished  : BOOLEAN,
              route_dispatched  : BOOLEAN,
              handler_submitted : BOOLEAN,
              response          : Responses,
              response_ready    : BOOLEAN,
              head_notified     : BOOLEAN,
              response_offset   : 0..(ResponseChunks - 1),
              slices            : 0..MaxSlices]

Places == {"gone", "down", "submit_head", "init_router", "submit_router", "up",
           "unwind_flag", "unwind_cancel", "unwind_wait", "stop_flag", "cancel_head", "cancel_router",
           "wait_head", "wait_router", "join"}

\* Every variable of the server and of the pool keeps to its values.
TypeOK ==
    /\ phase \in [Tasks -> Phases]
    /\ queue \in Seq(Tasks)
    /\ doomed \in SUBSET Tasks
    /\ open \in BOOLEAN
    /\ app \in Places
    /\ joining \in SUBSET Slots
    /\ waiting \in Slots \cup {Nobody}
    /\ running \in BOOLEAN
    /\ started \in BOOLEAN
    /\ routes \in SUBSET Paths
    /\ exchange \in [Slots -> Exchanges]
    /\ holder \in {HeadTask, RouterTask, Nobody}
    /\ todo \in SUBSET Slots
    /\ verdict \in [ServerTasks -> Verdicts \cup {"none"}]

\* While a handler is in the pool, its exchange is a whole request in use that
\* has been dispatched and not yet handed to the head: neither the head nor
\* stop takes the memory of an unfinished handler task from under the pool.
HandlerOwnsItsExchange ==
    /\ TypeOK
    /\ \A s \in Slots \cap Unfinished :
          /\ exchange[s].in_use /\ exchange[s].request_finished
          /\ exchange[s].route_dispatched /\ exchange[s].handler_submitted
          /\ ~exchange[s].head_notified

\* A client gets what its handler published only if the handler completed, and
\* a 500 only if it did not complete or completed without a response: a handler
\* that fails after publishing, or is cancelled, is answered by a 500.
AnswerMatchesVerdict ==
    \A s \in InUse : exchange[s].head_notified /\ exchange[s].handler_submitted =>
        \/ exchange[s].response = "route" /\ phase[s] = "COMPLETED"
        \/ exchange[s].response = "500" /\ phase[s] \in Ended

\* No step of the server runs, or will run, once start has failed or stop has
\* returned: the program may free the server's memory.  It needs the pool's waits
\* to last until the task has ended.
QuietWhenDown ==
    app \in {"down", "gone"} => ServerTasks \cap Unfinished = {} /\ Free

\* The server initializes, submits and cancels tasks only as the pool allows:
\* seen from the pool, every step is one of TaskQueue's or none.
UsesPoolWithinContract == [][TQNext]_tqvars

\* The server implements HttpService: a connection is in the stage its flags
\* say, and its answer is the response once it is ready to be sent.
Answering(s) == exchange[s].in_use /\ exchange[s].response_ready /\ exchange[s].head_notified

Service == INSTANCE HttpService WITH
    Answers <- {"404", "503", "500", "route"},
    conn    <- [s \in Slots |-> IF ~exchange[s].in_use THEN "free"
                                ELSE IF Answering(s) THEN "answering"
                                ELSE IF exchange[s].request_finished THEN "pending"
                                ELSE "reading"],
    answer  <- [s \in Slots |-> IF Answering(s) THEN exchange[s].response ELSE "none"]

ImplementsHttpService == Service!SSpec

\* While the server runs and the pool is open, every whole request is handed to
\* the head with an answer, whatever its handler does.
RequestsAreAnswered ==
    \A s \in Slots :
        exchange[s].in_use /\ exchange[s].request_finished
            ~> Answering(s) \/ ~exchange[s].in_use \/ ~running \/ ~open

\* start and stop return, even when the pool has shut down meanwhile.
CallsReturn ==
    app \notin {"gone", "down", "up"} ~> app \in {"down", "up"}
===============================================================================
