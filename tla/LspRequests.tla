----------------------------- MODULE LspRequests ------------------------------
(***************************************************************************)
(* The request scheduling of cli/src/main/kotlin/cplus/lsp/                *)
(* CPlusLspServer.kt: one thread reads the client's messages and applies   *)
(* edits under a fair write lock; document requests take a snapshot of the *)
(* documents and go to an executor of a few threads and a bounded queue,   *)
(* whose work runs under the read lock; cancellations reach a request      *)
(* before it is read, in the queue, while it runs, or too late.            *)
(*                                                                         *)
(* The documents are abstracted to a version in 0..1 that every edit       *)
(* flips: enough to tell an answer from the snapshot of its request from   *)
(* one that is an edit older or newer, with any number of edits.           *)
(***************************************************************************)
EXTENDS Integers, Sequences, FiniteSets, SequencesExt

CONSTANTS Ids,          \* the request ids a client uses
          Scripts,      \* bound: the requests it sends, in order, each an id and the
                        \* kind of request: "document" or "symbol"
          Workers,      \* the threads of requestExecutor
          QueueSize,    \* the capacity of its queue
          MaxTracked    \* MAX_TRACKED_REQUEST_IDS

ASSUME LspAssumption ==
    /\ IsFiniteSet(Scripts) /\ Scripts \subseteq Seq(Ids \X {"document", "symbol"})
    /\ QueueSize \in Nat \ {0} /\ MaxTracked \in Nat \ {0}
    /\ "reader" \notin Workers /\ IsFiniteSet(Workers)

VARIABLES
    reader,         \* "reading", "writing" (wants the write lock), "draining" (in
                    \* shutdown's awaitTermination) or "gone" (serve has returned)
    version,        \* the documents
    requests,       \* requests[i]: the i-th request: its RequestState, and the
                    \* answers it was sent
    requestStates,  \* requestStates[id]: the RequestState under that id, 0 if none
    seen,           \* seenRequestIds
    preCancelled,   \* preCancelledRequests
    queue,          \* the executor's queue
    worker,         \* worker[w]: where the thread stands and for which request
    lockQueue       \* the threads that wait for stateLock, in order

vars == <<reader, version, requests, requestStates, seen, preCancelled, queue, worker, lockQueue>>

None == 0
Indices == 1..Len(requests)

Init ==
    /\ reader = "reading" /\ version = 0
    /\ requests = <<>>
    /\ requestStates = [id \in Ids |-> None]
    /\ seen = {} /\ preCancelled = {}
    /\ queue = <<>>
    /\ worker = [w \in Workers |-> [pc |-> "unborn", on |-> None]]
    /\ lockQueue = <<>>

--------------------------------------------------------------------------------
\* Bookkeeping.

\* The values of the set once the key is remembered: a full set forgets one first.
rememberBounded(set, key) ==
    IF Cardinality(set) >= MaxTracked THEN {(set \ {old}) \cup {key} : old \in set}
                                      ELSE {set \cup {key}}

\* Threads that hold the read lock: an exception is reported, and the state is
\* removed, after it has been released.
Holders == {w \in Workers : worker[w].pc \in {"working", "publishing"}}

InFlight(i) == i \in Range(queue) \/ \E w \in Workers : worker[w].on = i

RequestState(id, answers, cancelled) ==
    [id |-> id, readView |-> version, cancelled |-> cancelled, answers |-> answers]

\* The client may send this request next.
CanSend(id, method) ==
    /\ reader = "reading"
    /\ \E script \in Scripts :
          /\ Len(requests) < Len(script)
          /\ script[Len(requests) + 1] = <<id, method>>
          /\ \A i \in Indices : script[i][1] = requests[i].id

To(w, pc) == worker' = [worker EXCEPT ![w].pc = pc]

\* Variant: whatever the id stands for is removed.
RemoveAnyState(i) == requestStates' = [requestStates EXCEPT ![requests[i].id] = None]

\* requestStates.remove(key, state): a newer request under the id stays.
RemoveState(i) == requestStates' = [requestStates EXCEPT ![requests[i].id] = IF @ = i THEN None ELSE @]

--------------------------------------------------------------------------------
\* The reader thread.

\* requestExecutor.submit: a new thread while there are fewer than two, else the
\* queue, else RejectedExecutionException and -32001.
Submit(id, i, cancelled) ==
    LET state(answers) == Append(requests, RequestState(id, answers, cancelled))
        unborn == {w \in Workers : worker[w].pc = "unborn"}
    IN \/ /\ unborn # {}
          /\ \E w \in unborn : worker' = [worker EXCEPT ![w] = [pc |-> "assigned", on |-> i]]
          /\ requests' = state(<<>>)
          /\ requestStates' = [requestStates EXCEPT ![id] = i]
          /\ UNCHANGED queue
       \/ /\ unborn = {} /\ Len(queue) < QueueSize
          /\ queue' = Append(queue, i)
          /\ requests' = state(<<>>)
          /\ requestStates' = [requestStates EXCEPT ![id] = i]
          /\ UNCHANGED worker
       \/ /\ unborn = {} /\ Len(queue) >= QueueSize
          /\ requests' = state(<< <<"refused">> >>)
          /\ requestStates' = [requestStates EXCEPT ![id] = None]
          /\ UNCHANGED <<queue, worker>>

\* A document request. The snapshot is taken under the read lock, behind the
\* threads that wait for it.
dispatchReadRequest(id) ==
    /\ CanSend(id, "document")
    /\ lockQueue = <<>>
    /\ seen' \in rememberBounded(seen, id)
    /\ preCancelled' = preCancelled \ {id}
    /\ Submit(id, Len(requests) + 1, id \in preCancelled)
    /\ UNCHANGED <<reader, version, lockQueue>>

\* workspace/symbol is answered by the reader itself.
WorkspaceSymbol(id) ==
    /\ CanSend(id, "symbol")
    /\ lockQueue = <<>>
    /\ requests' = Append(requests, RequestState(id, << <<"result", version>> >>, FALSE))
    /\ UNCHANGED <<reader, version, requestStates, seen, preCancelled, queue, worker, lockQueue>>

\* Variant: a cancellation that finds no request is always kept for the next.
CancelForNext(id) ==
    /\ reader = "reading"
    /\ IF requestStates[id] = None
       THEN /\ preCancelled' \in rememberBounded(preCancelled, id)
            /\ UNCHANGED <<requests, requestStates>>
       ELSE /\ requests' = [requests EXCEPT ![requestStates[id]].cancelled = TRUE]
            /\ requestStates' = [requestStates EXCEPT ![id] = None]
            /\ UNCHANGED preCancelled
    /\ UNCHANGED <<reader, version, seen, queue, worker, lockQueue>>

\* A cancelled future keeps its place in the queue; its thread is interrupted
\* if it runs, which may make its work throw.
cancelRequest(id) ==
    /\ reader = "reading"
    /\ IF requestStates[id] = None
       THEN /\ preCancelled' \in IF id \in seen THEN {preCancelled}
                                 ELSE rememberBounded(preCancelled, id)
            /\ UNCHANGED <<requests, requestStates>>
       ELSE /\ requests' = [requests EXCEPT ![requestStates[id]].cancelled = TRUE]
            /\ requestStates' = [requestStates EXCEPT ![id] = None]
            /\ UNCHANGED preCancelled
    /\ UNCHANGED <<reader, version, seen, queue, worker, lockQueue>>

\* Variant: the lock prefers a writer to the readers that wait for it.
ReceiveEditFirst ==
    /\ reader = "reading" /\ reader' = "writing"
    /\ lockQueue' = <<"reader">> \o lockQueue
    /\ UNCHANGED <<version, requests, requestStates, seen, preCancelled, queue, worker>>

\* didOpen, didChange and the other notifications that change the documents
\* wait for the write lock, behind whoever waits for the read lock already.
ReceiveEdit ==
    /\ reader = "reading" /\ reader' = "writing"
    /\ lockQueue' = Append(lockQueue, "reader")
    /\ UNCHANGED <<version, requests, requestStates, seen, preCancelled, queue, worker>>

withWriteState ==
    /\ reader = "writing" /\ Head(lockQueue) = "reader" /\ Holders = {}
    /\ reader' = "reading" /\ version' = 1 - version
    /\ lockQueue' = Tail(lockQueue)
    /\ UNCHANGED <<requests, requestStates, seen, preCancelled, queue, worker>>

\* serve returns: shutdownNow drops what is queued.
Return ==
    /\ reader' = "gone" /\ queue' = <<>>
    /\ UNCHANGED <<version, requests, requestStates, seen, preCancelled, worker, lockQueue>>

\* "shutdown": no thread takes new work from the client, which waits for the
\* response; queued work goes on for at most five seconds.
BeginShutdown ==
    /\ reader = "reading" /\ reader' = "draining"
    /\ UNCHANGED <<version, requests, requestStates, seen, preCancelled, queue, worker, lockQueue>>

Idle(w) == worker[w].pc \in {"unborn", "idle"}
Terminated == queue = <<>> /\ \A w \in Workers : Idle(w)

Drained == reader = "draining" /\ Terminated /\ Return
DrainTimesOut == reader = "draining" /\ ~Terminated /\ Return

\* "exit", or the client has closed the stream.
Exit == reader = "reading" /\ Return

--------------------------------------------------------------------------------
\* The executor's threads.

Take(w) ==
    /\ worker[w].pc = "idle" /\ queue # <<>>
    /\ worker' = [worker EXCEPT ![w] = [pc |-> "assigned", on |-> Head(queue)]]
    /\ queue' = Tail(queue)
    /\ UNCHANGED <<reader, version, requests, requestStates, seen, preCancelled, lockQueue>>

\* A request that is cancelled by now is passed over.
Skip(w) ==
    /\ worker[w].pc = "assigned" /\ requests[worker[w].on].cancelled
    /\ RemoveState(worker[w].on)
    /\ worker' = [worker EXCEPT ![w] = [pc |-> "idle", on |-> None]]
    /\ UNCHANGED <<reader, version, requests, seen, preCancelled, queue, lockQueue>>

Start(w) ==
    /\ worker[w].pc = "assigned" /\ ~requests[worker[w].on].cancelled
    /\ To(w, "waiting")
    /\ lockQueue' = Append(lockQueue, w)
    /\ UNCHANGED <<reader, version, requests, requestStates, seen, preCancelled, queue>>

\* respondForDocument's test: cancelled, or wasCancelled, which consumes the
\* early cancellation.
ProceedUnlessCancelled(w, pc) ==
    LET i == worker[w].on
        wasCancelled == ~requests[i].cancelled /\ requests[i].id \in preCancelled
    IN /\ To(w, IF requests[i].cancelled \/ wasCancelled THEN "finishing" ELSE pc)
       /\ preCancelled' = IF wasCancelled THEN preCancelled \ {requests[i].id} ELSE preCancelled

\* withReadState grants the read lock in order.
Enter(w) ==
    /\ worker[w].pc = "waiting" /\ Head(lockQueue) = w
    /\ lockQueue' = Tail(lockQueue)
    /\ ProceedUnlessCancelled(w, "working")
    /\ UNCHANGED <<reader, version, requests, requestStates, seen, queue>>

\* The answer has been computed.
Work(w) ==
    /\ worker[w].pc = "working"
    /\ ProceedUnlessCancelled(w, "publishing")
    /\ UNCHANGED <<reader, version, requests, requestStates, seen, queue, lockQueue>>

\* The work has thrown an exception.
Throw(w) ==
    /\ worker[w].pc = "working"
    /\ To(w, IF requests[worker[w].on].cancelled THEN "finishing" ELSE "failing")
    /\ UNCHANGED <<reader, version, requests, requestStates, seen, preCancelled, queue, lockQueue>>

Answer(i, a) == requests' = [requests EXCEPT ![i].answers = Append(@, a)]

Publish(w) ==
    /\ worker[w].pc = "publishing"
    /\ Answer(worker[w].on, <<"result", requests[worker[w].on].readView>>)
    /\ To(w, "finishing")
    /\ UNCHANGED <<reader, version, requestStates, seen, preCancelled, queue, lockQueue>>

Fail(w) ==
    /\ worker[w].pc = "failing"
    /\ Answer(worker[w].on, <<"failed">>)
    /\ To(w, "finishing")
    /\ UNCHANGED <<reader, version, requestStates, seen, preCancelled, queue, lockQueue>>

\* The outer finally block.
Finish(w) ==
    /\ worker[w].pc = "finishing"
    /\ RemoveState(worker[w].on)
    /\ worker' = [worker EXCEPT ![w] = [pc |-> "idle", on |-> None]]
    /\ UNCHANGED <<reader, version, requests, seen, preCancelled, queue, lockQueue>>

--------------------------------------------------------------------------------
ReaderStep ==
    \/ \E id \in Ids : dispatchReadRequest(id) \/ WorkspaceSymbol(id) \/ cancelRequest(id)
    \/ ReceiveEdit \/ withWriteState
    \/ BeginShutdown \/ Drained \/ DrainTimesOut \/ Exit

WorkerStep(w) ==
    \/ Take(w) \/ Skip(w) \/ Start(w) \/ Enter(w)
    \/ Work(w) \/ Throw(w) \/ Publish(w) \/ Fail(w) \/ Finish(w)

Rest == reader = "gone" /\ Terminated /\ UNCHANGED vars

Next == ReaderStep \/ (\E w \in Workers : WorkerStep(w)) \/ Rest

\* The client owes nothing; the threads run, work on a snapshot ends, and
\* awaitTermination returns.
Fairness ==
    /\ WF_vars(withWriteState)
    /\ WF_vars(Drained \/ DrainTimesOut)
    /\ \A w \in Workers : WF_vars(WorkerStep(w))

Spec == Init /\ [][Next]_vars
FairSpec == Spec /\ Fairness

--------------------------------------------------------------------------------
\* Every variable keeps to its values, and the sets of ids to their bound.
TypeOK ==
    /\ reader \in {"reading", "writing", "draining", "gone"}
    /\ version \in 0..1
    /\ requests \in Seq([id : Ids, readView : 0..1, cancelled : BOOLEAN,
                         answers : Seq({<<"refused">>, <<"failed">>, <<"result", 0>>, <<"result", 1>>})])
    /\ requestStates \in [Ids -> Indices \cup {None}]
    /\ seen \in SUBSET Ids /\ Cardinality(seen) <= MaxTracked
    /\ preCancelled \in SUBSET Ids /\ Cardinality(preCancelled) <= MaxTracked
    /\ queue \in Seq(Indices) /\ Len(queue) <= QueueSize
    /\ worker \in [Workers -> [pc : {"unborn", "idle", "assigned", "waiting", "working",
                                     "publishing", "failing", "finishing"},
                               on : Indices \cup {None}]]
    /\ lockQueue \in Seq(Workers \cup {"reader"})

\* While the server serves, a cancellation reaches exactly the requests it can
\* still stop: requestStates holds a request that is queued or running under its
\* own id, and the newest request under an id is held until it ends, unless a
\* cancellation has reached it.
RequestStatesAreExact ==
    /\ TypeOK
    /\ reader # "gone" =>
        /\ \A id \in Ids : requestStates[id] # None =>
              InFlight(requestStates[id]) /\ requests[requestStates[id]].id = id
        /\ \A i \in Indices :
              /\ InFlight(i) /\ ~requests[i].cancelled
              /\ \A j \in i+1..Len(requests) : requests[j].id # requests[i].id
              => requestStates[requests[i].id] = i

\* The server implements LspService: at most one answer, of the snapshot, and
\* none only where a cancellation was meant for the request or the server ended.
Outcome(i) ==
    CASE Len(requests[i].answers) = 1 -> requests[i].answers[1]
      [] Len(requests[i].answers) > 1 -> <<"twice">>
      [] OTHER -> IF InFlight(i) THEN <<"open">> ELSE <<"dropped">>

Service == INSTANCE LspService WITH
    Views    <- 0..1,
    view     <- version,
    received <- [i \in Indices |-> [id |-> requests[i].id, view |-> requests[i].readView]],
    outcome  <- [i \in Indices |-> Outcome(i)],
    excused  <- {i \in Indices : requests[i].cancelled /\ Outcome(i) = <<"open">>},
    early    <- {id \in preCancelled : \A i \in Indices : requests[i].id # id},
    serving  <- reader # "gone"

ImplementsLspService == Service!SSpec

\* Whatever the client sends or cancels, however many edits it makes: a request
\* that is queued or running ends, an edit gets the lock, and shutdown returns.
NothingHangs ==
    /\ \A i \in UNION {DOMAIN script : script \in Scripts} : (i \in Indices /\ InFlight(i)) ~> ~InFlight(i)
    /\ reader = "writing" ~> reader = "reading"
    /\ reader = "draining" ~> reader = "gone"

\* cancelRequest's comment: a cancellation after a completed request does not
\* poison a reused id. Only the first request under an id is received cancelled.
ReusedIdsAreNotPoisoned ==
    [][\A i \in DOMAIN requests' \ Indices :
          requests'[i].cancelled => \A j \in Indices : requests[j].id # requests'[i].id]_vars

\* LSP-COMPONENT-IMPLEMENTATION.md: accepted work is drained during orderly
\* shutdown. Nothing is queued when shutdown is answered.
ShutdownDrains == [][reader = "draining" /\ reader' = "gone" => queue = <<>>]_vars
===============================================================================
