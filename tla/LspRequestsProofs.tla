-------------------------- MODULE LspRequestsProofs ----------------------------
(***************************************************************************)
(* What LspRequests' runs check on a few requests and one or two threads,  *)
(* proved for any number of requests, threads, queue places and tracked    *)
(* ids, with any sequence of edits and cancellations.                      *)
(***************************************************************************)
EXTENDS LspRequests, FiniteSetTheorems, SequenceTheorems, TLAPS

Replies == {<<"refused">>, <<"failed">>, <<"result", 0>>, <<"result", 1>>}
AtMostOne == {<<>>} \cup {<<reply>> : reply \in Replies}
Received == [id : Ids, readView : 0..1, cancelled : BOOLEAN, answers : AtMostOne]

\* Requests, each answered once at most, and what stands for them by number.
RequestType ==
    /\ requests \in Seq(Received)
    /\ requestStates \in [Ids -> Indices \cup {None}]
    /\ queue \in Seq(Indices) /\ Len(queue) <= QueueSize
    /\ worker \in [Workers -> [pc : {"unborn", "idle", "assigned", "waiting", "working",
                                     "publishing", "failing", "finishing"},
                               on : Indices \cup {None}]]

\* The sets of ids are bounded.
Bounded(set) == set \in SUBSET Ids /\ IsFiniteSet(set) /\ Cardinality(set) <= MaxTracked
TrackedInv == Bounded(seen) /\ Bounded(preCancelled)

\* Whoever waits for the lock stands in its queue.
LockInv ==
    /\ reader \in {"reading", "writing", "draining", "gone"} /\ version \in 0..1
    /\ lockQueue \in Seq(Workers \cup {"reader"})
    /\ reader = "writing" => Contains(lockQueue, "reader")
    /\ \A w \in Workers : worker[w].pc = "waiting" => Contains(lockQueue, w)

\* A request is in one place: once in the queue, or at one thread.
PlaceInv ==
    /\ \A w \in Workers : worker[w].on = None <=> Idle(w)
    /\ \A v, w \in Workers : worker[v].on = worker[w].on /\ worker[v].on # None => v = w
    /\ \A j, k \in 1..Len(queue) : queue[j] = queue[k] => j = k
    /\ \A w \in Workers : \A k \in 1..Len(queue) : worker[w].on # queue[k]

\* It is answered when its thread is done with it, and not before.
AnswerInv ==
    /\ \A k \in 1..Len(queue) : requests[queue[k]].answers = <<>>
    /\ \A w \in Workers : ~Idle(w) /\ worker[w].pc # "finishing" => requests[worker[w].on].answers = <<>>

\* What requestStates holds while the server serves.
StatesInv ==
    reader # "gone" =>
        /\ \A id \in Ids : requestStates[id] # None =>
              InFlight(requestStates[id]) /\ requests[requestStates[id]].id = id
        /\ \A i \in Indices :
              /\ InFlight(i) /\ ~requests[i].cancelled
              /\ \A j \in i+1..Len(requests) : requests[j].id # requests[i].id
              => requestStates[requests[i].id] = i

RequestInv == RequestType /\ TrackedInv /\ LockInv /\ PlaceInv /\ AnswerInv /\ StatesInv

\* With ids that are used once, a cancellation is kept in preCancelled only for a
\* request that is still to come, and a thread gives up only what was cancelled.
FreshInv ==
    /\ \A i, j \in Indices : requests[i].id = requests[j].id => i = j
    /\ \A id \in seen : \E i \in Indices : requests[i].id = id
    /\ \A i \in Indices : InFlight(i) /\ ~requests[i].cancelled => requests[i].id \notin preCancelled
    /\ \A w \in Workers : worker[w].pc = "finishing" /\ requests[worker[w].on].answers = <<>>
                          => requests[worker[w].on].cancelled

--------------------------------------------------------------------------------
\* What the steps do to requests, threads and the queue.

Places == {"unborn", "idle", "assigned", "waiting", "working", "publishing", "failing", "finishing"}

LEMMA WorkerType ==
    RequestType => worker \in [Workers -> [pc : Places, on : Indices \cup {None}]]
  BY DEF RequestType, Places

LEMMA IndicesAreNat ==
    RequestType => /\ Len(requests) \in Nat /\ Indices = 1..Len(requests)
                   /\ None \notin Indices /\ None = 0
                   /\ \A i \in Indices : requests[i] \in Received
<1> SUFFICES ASSUME RequestType PROVE /\ Len(requests) \in Nat /\ Indices = 1..Len(requests)
                                      /\ None \notin Indices /\ None = 0
                                      /\ \A i \in Indices : requests[i] \in Received
  OBVIOUS
<1>1. requests \in Seq(Received)
  BY DEF RequestType
<1> QED
  BY <1>1, LenProperties, ElementOfSeq DEF Indices, None

\* A thread that is not idle has a request.
LEMMA AtWork ==
    ASSUME RequestType, PlaceInv, NEW w \in Workers, ~Idle(w)
    PROVE  worker[w].on \in Indices
  BY WorkerType DEF PlaceInv

LEMMA InQueue ==
    RequestType => /\ Len(queue) \in Nat
                   /\ \A k \in 1..Len(queue) : queue[k] \in Indices
                   /\ \A i : i \in Range(queue) <=> \E k \in 1..Len(queue) : queue[k] = i
<1> SUFFICES ASSUME RequestType PROVE /\ Len(queue) \in Nat
                                      /\ \A k \in 1..Len(queue) : queue[k] \in Indices
                                      /\ \A i : i \in Range(queue) <=> \E k \in 1..Len(queue) : queue[k] = i
  OBVIOUS
<1>1. queue \in Seq(Indices)
  BY DEF RequestType
<1>2. Len(queue) \in Nat /\ DOMAIN queue = 1..Len(queue) /\ \A k \in 1..Len(queue) : queue[k] \in Indices
  BY <1>1, LenProperties, ElementOfSeq
<1> QED
  BY <1>2 DEF Range

LEMMA MoveEffect ==
    ASSUME RequestType, NEW w \in Workers, NEW pc \in Places, To(w, pc)
    PROVE  /\ worker' \in [Workers -> [pc : Places, on : Indices \cup {None}]]
           /\ worker'[w].pc = pc /\ worker'[w].on = worker[w].on
           /\ \A v \in Workers : v # w => worker'[v] = worker[v]
<1>1. worker \in [Workers -> [pc : Places, on : Indices \cup {None}]]
  BY WorkerType
<1> QED
  BY <1>1 DEF To

LEMMA PlacedEffect ==
    ASSUME RequestType, NEW w \in Workers, NEW pc \in Places, NEW I, Indices \subseteq I,
           NEW on \in I \cup {None}, worker' = [worker EXCEPT ![w] = [pc |-> pc, on |-> on]]
    PROVE  /\ worker' \in [Workers -> [pc : Places, on : I \cup {None}]]
           /\ worker'[w].pc = pc /\ worker'[w].on = on
           /\ \A v \in Workers : v # w => worker'[v] = worker[v]
<1>1. worker \in [Workers -> [pc : Places, on : I \cup {None}]]
  BY WorkerType
<1> QED
  BY <1>1

\* A request that arrives.
LEMMA ArrivalEffect ==
    ASSUME RequestType, NEW r \in Received, requests' = Append(requests, r)
    PROVE  /\ requests' \in Seq(Received) /\ Len(requests') = Len(requests) + 1
           /\ Indices' = Indices \cup {Len(requests) + 1} /\ Len(requests) + 1 \notin Indices
           /\ requests'[Len(requests) + 1] = r
           /\ \A i \in Indices : requests'[i] = requests[i]
<1>1. requests \in Seq(Received)
  BY DEF RequestType
<1>2. /\ requests' \in Seq(Received) /\ Len(requests') = Len(requests) + 1
      /\ requests'[Len(requests) + 1] = r
      /\ \A i \in 1..Len(requests) : requests'[i] = requests[i]
  BY <1>1, AppendProperties
<1> QED
  BY <1>2, IndicesAreNat DEF Indices

LEMMA ArrivalIsReceived ==
    ASSUME LockInv, NEW id \in Ids, NEW answers \in AtMostOne, NEW cancelled \in BOOLEAN
    PROVE  LET r == RequestState(id, answers, cancelled) IN
           /\ r \in Received
           /\ r.id = id /\ r.readView = version /\ r.answers = answers /\ r.cancelled = cancelled
  BY DEF RequestState, Received, LockInv

\* One request changes.
LEMMA ChangeEffect ==
    ASSUME RequestType, NEW i \in Indices, NEW r \in Received, requests' = [requests EXCEPT ![i] = r]
    PROVE  /\ requests' \in Seq(Received) /\ Len(requests') = Len(requests) /\ Indices' = Indices
           /\ requests'[i] = r /\ \A j \in Indices : j # i => requests'[j] = requests[j]
<1>1. requests \in Seq(Received)
  BY DEF RequestType
<1> QED
  BY <1>1, IndicesAreNat, ExceptSeq DEF Indices

LEMMA CancelledEffect ==
    ASSUME RequestType, NEW i \in Indices, requests' = [requests EXCEPT ![i].cancelled = TRUE]
    PROVE  /\ requests' \in Seq(Received) /\ Len(requests') = Len(requests) /\ Indices' = Indices
           /\ requests'[i].cancelled = TRUE
           /\ \A j \in Indices : /\ j # i => requests'[j] = requests[j]
                                 /\ requests'[j].id = requests[j].id
                                 /\ requests'[j].readView = requests[j].readView
                                 /\ requests'[j].answers = requests[j].answers
<1> DEFINE r == [requests[i] EXCEPT !.cancelled = TRUE]
<1>1. requests[i] \in Received
  BY IndicesAreNat
<1>2. r \in Received /\ r.id = requests[i].id /\ r.readView = requests[i].readView
      /\ r.answers = requests[i].answers /\ r.cancelled = TRUE
  <2> HIDE DEF AtMostOne
  <2> QED
    BY <1>1 DEF Received
<1>3. requests' = [requests EXCEPT ![i] = r]
  OBVIOUS
<1> HIDE DEF r
<1>4. /\ requests' \in Seq(Received) /\ Len(requests') = Len(requests) /\ Indices' = Indices
      /\ requests'[i] = r /\ \A j \in Indices : j # i => requests'[j] = requests[j]
  BY <1>2, <1>3, ChangeEffect
<1> QED
  BY <1>2, <1>4

LEMMA AnswerEffect ==
    ASSUME RequestType, NEW i \in Indices, NEW a \in Replies, requests[i].answers = <<>>, Answer(i, a)
    PROVE  /\ requests' \in Seq(Received) /\ Len(requests') = Len(requests) /\ Indices' = Indices
           /\ requests'[i].answers = <<a>>
           /\ \A j \in Indices : /\ j # i => requests'[j] = requests[j]
                                 /\ requests'[j].id = requests[j].id
                                 /\ requests'[j].readView = requests[j].readView
                                 /\ requests'[j].cancelled = requests[j].cancelled
<1> DEFINE answers == Append(requests[i].answers, a)
           r == [requests[i] EXCEPT !.answers = answers]
<1>1. requests[i] \in Received
  BY IndicesAreNat
<1>2. answers = <<a>> /\ answers \in AtMostOne
  BY DEF AtMostOne
<1>3. requests' = [requests EXCEPT ![i] = r]
  BY DEF Answer
<1> HIDE DEF answers
<1>4. r \in Received /\ r.id = requests[i].id /\ r.readView = requests[i].readView
      /\ r.cancelled = requests[i].cancelled /\ r.answers = answers
  BY <1>1, <1>2 DEF Received
<1> HIDE DEF r
<1> QED
  BY <1>2, <1>3, <1>4, ChangeEffect

--------------------------------------------------------------------------------
\* Requests, their places and their states, step by step.

CoreInv == RequestType /\ PlaceInv /\ AnswerInv /\ StatesInv

\* Nothing of it changes, and the server does not come back.
LEMMA CoreFrame ==
    ASSUME CoreInv, UNCHANGED <<requests, requestStates, queue, worker>>,
           reader' # "gone" => reader # "gone"
    PROVE  CoreInv'
<1> USE DEF CoreInv
<1>1. RequestType'
  BY DEF RequestType, Indices
<1>2. PlaceInv' /\ AnswerInv'
  BY DEF PlaceInv, AnswerInv, Idle
<1>3. \A i : InFlight(i)' <=> InFlight(i)
  BY DEF InFlight
<1>4. StatesInv'
  BY <1>3 DEF StatesInv, Indices
<1> QED
  BY <1>1, <1>2, <1>4

\* A thread goes on with its request.
LEMMA MoveKeepsCore ==
    ASSUME CoreInv, NEW w \in Workers, ~Idle(w), NEW pc \in Places \ {"unborn", "idle"}, To(w, pc),
           UNCHANGED <<reader, queue, requestStates>>,
           requests' \in Seq(Received), Len(requests') = Len(requests), Indices' = Indices,
           \A j \in Indices : /\ requests'[j].id = requests[j].id
                              /\ requests'[j].cancelled = requests[j].cancelled
                              /\ j # worker[w].on => requests'[j].answers = requests[j].answers,
           pc # "finishing" => requests'[worker[w].on].answers = <<>>
    PROVE  CoreInv'
<1> USE DEF CoreInv
<1>1. /\ worker' \in [Workers -> [pc : Places, on : Indices \cup {None}]]
      /\ worker'[w].pc = pc /\ worker'[w].on = worker[w].on
      /\ \A v \in Workers : v # w => worker'[v] = worker[v]
  BY MoveEffect
<1>2. \A v \in Workers : worker'[v].on = worker[v].on
  BY <1>1
<1>3. /\ worker[w].on \in Indices /\ None \notin Indices
      /\ \A v \in Workers : ~Idle(v) => worker[v].on \in Indices
  BY AtWork, IndicesAreNat
<1>4. RequestType'
  BY <1>1 DEF RequestType, Places
<1>5. PlaceInv'
  BY <1>1, <1>2, <1>3 DEF PlaceInv, Idle
<1>6. AnswerInv'
  <2>1. \A k \in 1..Len(queue) : queue[k] \in Indices /\ queue[k] # worker[w].on
    BY InQueue DEF PlaceInv
  <2>2. \A k \in 1..Len(queue) : requests'[queue[k]].answers = <<>>
    BY <2>1 DEF AnswerInv
  <2>3. ASSUME NEW v \in Workers, worker'[v].pc # "finishing", ~Idle(v)'
        PROVE  requests'[worker'[v].on].answers = <<>>
    <3>1. CASE v = w
      BY <1>1, <2>3, <3>1
    <3>2. CASE v # w
      <4>1. ~Idle(v) /\ worker'[v] = worker[v]
        BY <1>1, <2>3, <3>2 DEF Idle
      <4>2. worker[v].on \in Indices /\ worker[v].on # worker[w].on
        BY <1>3, <3>2, <4>1 DEF PlaceInv
      <4> QED
        BY <2>3, <4>1, <4>2 DEF AnswerInv
    <3> QED
      BY <3>1, <3>2
  <2> QED
    BY <2>2, <2>3 DEF AnswerInv
<1>7. \A i : InFlight(i)' <=> InFlight(i)
  BY <1>2 DEF InFlight
<1>8. StatesInv'
  <2> SUFFICES ASSUME reader # "gone" PROVE StatesInv'
    BY DEF StatesInv
  <2>1. ASSUME NEW id \in Ids, requestStates[id] # None
        PROVE  InFlight(requestStates[id]) /\ requests'[requestStates[id]].id = id
    <3>1. requestStates[id] \in Indices
      BY <2>1 DEF RequestType
    <3> QED
      BY <2>1, <3>1 DEF StatesInv
  <2>2. ASSUME NEW i \in Indices, InFlight(i), ~requests'[i].cancelled,
               \A j \in i+1..Len(requests) : requests'[j].id # requests'[i].id
        PROVE  requestStates[requests'[i].id] = i
    <3>1. \A j \in i+1..Len(requests) : j \in Indices
      BY IndicesAreNat
    <3> QED
      BY <2>2, <3>1 DEF StatesInv
  <2> QED
    BY <1>7, <2>1, <2>2 DEF StatesInv
<1> QED
  BY <1>4, <1>5, <1>6, <1>8

\* A thread is done with its request, and removes its state.
LEMMA ReleaseKeepsCore ==
    ASSUME CoreInv, NEW w \in Workers, ~Idle(w), RemoveState(worker[w].on),
           worker' = [worker EXCEPT ![w] = [pc |-> "idle", on |-> None]],
           UNCHANGED <<reader, queue, requests>>
    PROVE  /\ CoreInv'
           /\ \A i \in Indices : InFlight(i)' <=> InFlight(i) /\ i # worker[w].on
<1> USE DEF CoreInv
<1> DEFINE on == worker[w].on
<1>1. /\ on \in Indices /\ None \notin Indices
      /\ \A v \in Workers : ~Idle(v) => worker[v].on \in Indices
  BY AtWork, IndicesAreNat
<1>2. /\ worker' \in [Workers -> [pc : Places, on : Indices \cup {None}]]
      /\ worker'[w].pc = "idle" /\ worker'[w].on = None
      /\ \A v \in Workers : v # w => worker'[v] = worker[v]
  BY PlacedEffect DEF Places
<1>3. \A v \in Workers : worker'[v].on \in {None, worker[v].on}
  BY <1>2
<1>4. requests[on] \in Received /\ requests[on].id \in Ids
  BY <1>1, IndicesAreNat DEF Received
<1>5. /\ requestStates' \in [Ids -> Indices \cup {None}]
      /\ \A id \in Ids : requestStates'[id] = IF id = requests[on].id /\ requestStates[id] = on THEN None
                                              ELSE requestStates[id]
  BY <1>4 DEF RemoveState, RequestType
<1>6. RequestType'
  BY <1>2, <1>5 DEF RequestType, Indices, Places
<1>7. PlaceInv'
  BY <1>1, <1>2, <1>3, InQueue DEF PlaceInv, Idle
<1>8. AnswerInv'
  BY <1>2 DEF AnswerInv, Idle
<1>9. \A i \in Indices : InFlight(i)' <=> InFlight(i) /\ i # on
  <2>1. ASSUME NEW i \in Indices, InFlight(i)' PROVE InFlight(i) /\ i # on
    <3>1. CASE i \in Range(queue)
      BY <3>1, InQueue DEF InFlight, PlaceInv
    <3>2. CASE \E v \in Workers : worker'[v].on = i
      <4>1. PICK v \in Workers : worker'[v].on = i
        BY <3>2
      <4>2. v # w /\ worker[v].on = i
        BY <1>1, <1>2, <4>1
      <4>3. i # on
        BY <1>1, <4>2 DEF PlaceInv
      <4> QED
        BY <4>2, <4>3 DEF InFlight
    <3> QED
      BY <2>1, <3>1, <3>2 DEF InFlight
  <2>2. ASSUME NEW i \in Indices, InFlight(i), i # on PROVE InFlight(i)'
    BY <1>2, <2>2 DEF InFlight
  <2> QED
    BY <2>1, <2>2
<1>10. StatesInv'
  <2> SUFFICES ASSUME reader # "gone" PROVE StatesInv'
    BY DEF StatesInv
  <2>1. ASSUME NEW id \in Ids, requestStates'[id] # None
        PROVE  InFlight(requestStates[id])' /\ requests[requestStates'[id]].id = id
    <3>1. /\ requestStates'[id] = requestStates[id] /\ requestStates[id] \in Indices
          /\ InFlight(requestStates[id]) /\ requests[requestStates[id]].id = id
      BY <1>5, <2>1 DEF StatesInv, RequestType
    <3>2. requestStates[id] # on
      BY <1>1, <1>5, <2>1, <3>1
    <3>3. PICK j \in Indices : j = requestStates[id]
      BY <3>1
    <3>4. InFlight(j)' /\ requestStates'[id] = j
      BY <1>9, <3>1, <3>2, <3>3
    <3> QED
      BY <3>1, <3>3, <3>4 DEF InFlight
  <2>2. ASSUME NEW i \in Indices, InFlight(i)', ~requests[i].cancelled,
               \A j \in i+1..Len(requests) : requests[j].id # requests[i].id
        PROVE  requestStates'[requests[i].id] = i
    <3>1. InFlight(i) /\ i # on
      BY <1>9, <2>2
    <3>2. requestStates[requests[i].id] = i
      BY <2>2, <3>1 DEF StatesInv
    <3>3. requests[i].id \in Ids
      BY IndicesAreNat DEF Received
    <3> QED
      BY <1>5, <3>1, <3>2, <3>3
  <2> QED
    BY <2>1, <2>2 DEF StatesInv, Indices
<1> QED
  BY <1>6, <1>7, <1>8, <1>9, <1>10

\* A thread takes the request at the head of the queue.
LEMMA TakeKeepsCore ==
    ASSUME CoreInv, NEW w \in Workers, Take(w)
    PROVE  CoreInv' /\ \A i \in Indices : InFlight(i)' <=> InFlight(i)
<1> USE DEF CoreInv
<1> DEFINE h == Head(queue)
           n == Len(queue)
<1>1. /\ worker[w].pc = "idle" /\ queue # <<>>
      /\ worker' = [worker EXCEPT ![w] = [pc |-> "assigned", on |-> h]]
      /\ queue' = Tail(queue) /\ UNCHANGED <<reader, requests, requestStates>>
  BY DEF Take
<1>2. queue \in Seq(Indices)
  BY DEF RequestType
<1>3. n \in Nat /\ n > 0 /\ h = queue[1] /\ h \in Indices /\ None \notin Indices
  BY <1>1, <1>2, EmptySeq, HeadTailProperties, LenProperties, IndicesAreNat
<1>4. /\ queue' \in Seq(Indices) /\ Len(queue') = n - 1
      /\ \A k \in 1..(n - 1) : queue'[k] = queue[k + 1]
      /\ DOMAIN queue' = 1..(n - 1)
  BY <1>1, <1>2, HeadTailProperties, LenProperties
<1>5. /\ worker' \in [Workers -> [pc : Places, on : Indices \cup {None}]]
      /\ worker'[w].pc = "assigned" /\ worker'[w].on = h
      /\ \A v \in Workers : v # w => worker'[v] = worker[v]
  BY <1>1, <1>3, PlacedEffect DEF Places
<1> HIDE DEF h
<1>6. worker[w].on = None
  BY <1>1 DEF PlaceInv, Idle
<1>7. \A k \in 1..(n - 1) : k + 1 \in 1..n /\ k + 1 # 1
  BY <1>3
<1>8. \A k \in 1..(n - 1) : queue'[k] # h
  BY <1>3, <1>4, <1>7 DEF PlaceInv
<1>9. RequestType'
  <2>1. Len(queue') <= QueueSize
    BY <1>3, <1>4, LspAssumption DEF RequestType
  <2> QED
    BY <1>1, <1>4, <1>5, <2>1 DEF RequestType, Indices, Places
<1>10. PlaceInv'
  <2>1. \A v \in Workers : worker'[v].on = None <=> Idle(v)'
    BY <1>3, <1>5 DEF PlaceInv, Idle
  <2>2. \A v \in Workers : v # w => worker'[v].on # h
    BY <1>3, <1>5 DEF PlaceInv
  <2>3. \A u, v \in Workers : worker'[u].on = worker'[v].on /\ worker'[u].on # None => u = v
    BY <1>5, <2>2 DEF PlaceInv
  <2>4. \A j, k \in 1..(n - 1) : queue'[j] = queue'[k] => j = k
    BY <1>3, <1>4, <1>7 DEF PlaceInv
  <2>5. \A v \in Workers : \A k \in 1..(n - 1) : worker'[v].on # queue'[k]
    BY <1>4, <1>5, <1>7, <1>8 DEF PlaceInv
  <2> QED
    BY <1>4, <2>1, <2>3, <2>4, <2>5 DEF PlaceInv
<1>11. AnswerInv'
  <2>1. requests[h].answers = <<>>
    BY <1>3 DEF AnswerInv
  <2> QED
    BY <1>1, <1>4, <1>5, <1>7, <2>1 DEF AnswerInv, Idle
<1>12. \A i \in Indices : InFlight(i)' <=> InFlight(i)
  <2>1. \A i : i \in Range(queue) <=> \E k \in 1..n : queue[k] = i
    BY InQueue
  <2>2. \A i : i \in Range(queue') <=> \E k \in 1..(n - 1) : queue'[k] = i
    BY <1>4 DEF Range
  <2>3. \A k \in 1..n : k = 1 \/ (k - 1 \in 1..(n - 1) /\ k = (k - 1) + 1)
    BY <1>3
  <2>4. \A i : i \in Range(queue) <=> i = h \/ i \in Range(queue')
    <3>1. ASSUME NEW i, i \in Range(queue) PROVE i = h \/ i \in Range(queue')
      <4>1. PICK k \in 1..n : queue[k] = i
        BY <2>1, <3>1
      <4>2. CASE k = 1
        BY <1>3, <4>1, <4>2
      <4>3. CASE k - 1 \in 1..(n - 1)
        <5>1. queue'[k - 1] = queue[(k - 1) + 1] /\ (k - 1) + 1 = k
          BY <1>4, <4>3
        <5> QED
          BY <2>2, <4>1, <4>3, <5>1
      <4> QED
        BY <2>3, <4>1, <4>2, <4>3
    <3>2. ASSUME NEW i, i = h \/ i \in Range(queue') PROVE i \in Range(queue)
      BY <1>3, <1>4, <1>7, <2>1, <2>2, <3>2
    <3> QED
      BY <3>1, <3>2
  <2>5. ASSUME NEW i \in Indices, InFlight(i)' PROVE InFlight(i)
    BY <1>5, <2>4, <2>5 DEF InFlight
  <2>6. ASSUME NEW i \in Indices, InFlight(i) PROVE InFlight(i)'
    <3>1. CASE i = h
      BY <1>5, <3>1 DEF InFlight
    <3>2. CASE i \in Range(queue')
      BY <3>2 DEF InFlight
    <3>3. CASE \E v \in Workers : worker[v].on = i
      <4>1. PICK v \in Workers : worker[v].on = i
        BY <3>3
      <4>2. CASE v = w
        BY <1>3, <1>6, <4>1, <4>2
      <4> QED
        BY <1>5, <4>1, <4>2 DEF InFlight
    <3> QED
      BY <2>4, <2>6, <3>1, <3>2, <3>3 DEF InFlight
  <2> QED
    BY <2>5, <2>6
<1>13. StatesInv'
  <2>1. \A id \in Ids : requestStates[id] # None => requestStates[id] \in Indices
    BY DEF RequestType
  <2> QED
    BY <1>1, <1>12, <2>1 DEF StatesInv, Indices
<1> QED
  BY <1>9, <1>10, <1>11, <1>12, <1>13

\* The states once a request has arrived: it is the newest under its id.
LEMMA ArrivalStates ==
    ASSUME CoreInv, NEW r \in Received, requests' = Append(requests, r), UNCHANGED reader,
           NEW n, n = Len(requests) + 1,
           \A i \in Indices : InFlight(i)' <=> InFlight(i),
           \/ InFlight(n)' /\ requestStates' = [requestStates EXCEPT ![r.id] = n]
           \/ ~InFlight(n)' /\ requestStates' = [requestStates EXCEPT ![r.id] = None]
           \/ ~InFlight(n)' /\ requestStates' = requestStates
    PROVE  StatesInv' /\ requestStates' \in [Ids -> Indices' \cup {None}]
<1> USE DEF CoreInv
<1>1. /\ Len(requests') = n /\ Indices' = Indices \cup {n} /\ n \notin Indices
      /\ requests'[n] = r /\ \A i \in Indices : requests'[i] = requests[i]
  BY ArrivalEffect
<1>2. r.id \in Ids
  BY DEF Received
<1>3. requestStates \in [Ids -> Indices \cup {None}]
  BY DEF RequestType
<1>4. requestStates' \in [Ids -> Indices' \cup {None}]
  BY <1>1, <1>2, <1>3
<1>5. StatesInv'
  <2> SUFFICES ASSUME reader # "gone" PROVE StatesInv'
    BY DEF StatesInv
  <2>1. ASSUME NEW id \in Ids, requestStates'[id] # None
        PROVE  InFlight(requestStates[id])' /\ requests'[requestStates'[id]].id = id
    <3>1. CASE requestStates'[id] = n /\ InFlight(n)' /\ id = r.id
      BY <1>1, <3>1 DEF InFlight
    <3>2. CASE requestStates'[id] = requestStates[id]
      <4>1. PICK i \in Indices : i = requestStates[id]
        BY <1>3, <2>1, <3>2
      <4>2. InFlight(i) /\ requests[i].id = id
        BY <2>1, <3>2, <4>1 DEF StatesInv
      <4>3. InFlight(i)'
        BY <4>2
      <4> QED
        BY <1>1, <3>2, <4>1, <4>2, <4>3 DEF InFlight
    <3>3. \/ requestStates'[id] = n /\ InFlight(n)' /\ id = r.id
          \/ requestStates'[id] = requestStates[id]
      <4>1. CASE InFlight(n)' /\ requestStates' = [requestStates EXCEPT ![r.id] = n]
        BY <1>3, <4>1
      <4>2. CASE requestStates' = [requestStates EXCEPT ![r.id] = None]
        BY <1>3, <2>1, <4>2
      <4>3. CASE requestStates' = requestStates
        BY <4>3
      <4> QED
        BY <4>1, <4>2, <4>3
    <3> QED
      BY <3>1, <3>2, <3>3
  <2>2. ASSUME NEW i \in Indices', InFlight(i)', ~requests'[i].cancelled,
               \A j \in i+1..Len(requests') : requests'[j].id # requests'[i].id
        PROVE  requestStates'[requests'[i].id] = i
    <3>1. CASE i = n
      BY <1>1, <1>2, <1>3, <2>2, <3>1
    <3>2. CASE i \in Indices
      <4>1. /\ Len(requests) \in Nat /\ i \in 1..Len(requests) /\ i \in Nat
            /\ i+1..Len(requests) \subseteq Indices
        BY <3>2, IndicesAreNat
      <4>2. n \in i+1..n /\ i+1..Len(requests) \subseteq i+1..n
        BY <4>1
      <4>3. requests[i].id # r.id /\ \A j \in i+1..Len(requests) : requests[j].id # requests[i].id
        BY <1>1, <2>2, <3>2, <4>1, <4>2
      <4>4. requests[i].id \in Ids
        BY <3>2, IndicesAreNat DEF Received
      <4>5. requestStates[requests[i].id] = i
        BY <1>1, <2>2, <3>2, <4>3 DEF StatesInv
      <4>6. requestStates'[requests[i].id] = requestStates[requests[i].id]
        BY <1>2, <1>3, <4>3, <4>4
      <4> QED
        BY <1>1, <3>2, <4>5, <4>6
    <3> QED
      BY <1>1, <3>1, <3>2
  <2> QED
    BY <2>1, <2>2 DEF StatesInv
<1> QED
  BY <1>4, <1>5

\* A request goes to a thread of its own.
LEMMA NewThreadKeepsCore ==
    ASSUME CoreInv, NEW r \in Received, requests' = Append(requests, r), r.answers = <<>>,
           NEW n, n = Len(requests) + 1, NEW w \in Workers, Idle(w),
           worker' = [worker EXCEPT ![w] = [pc |-> "assigned", on |-> n]],
           requestStates' = [requestStates EXCEPT ![r.id] = n], UNCHANGED <<reader, queue>>
    PROVE  CoreInv' /\ InFlight(n)' /\ \A i \in Indices : InFlight(i)' <=> InFlight(i)
<1> USE DEF CoreInv
<1>1. /\ requests' \in Seq(Received) /\ Indices' = Indices \cup {n} /\ n \notin Indices
      /\ requests'[n] = r /\ \A i \in Indices : requests'[i] = requests[i]
  BY ArrivalEffect
<1>2. /\ worker' \in [Workers -> [pc : Places, on : Indices' \cup {None}]]
      /\ worker'[w].pc = "assigned" /\ worker'[w].on = n
      /\ \A v \in Workers : v # w => worker'[v] = worker[v]
  <2>1. PICK I : I = Indices'
    OBVIOUS
  <2>2. n \in I /\ worker \in [Workers -> [pc : Places, on : I \cup {None}]] /\ "assigned" \in Places
    BY <1>1, <2>1, WorkerType DEF Places
  <2>3. /\ worker' \in [Workers -> [pc : Places, on : I \cup {None}]]
        /\ worker'[w].pc = "assigned" /\ worker'[w].on = n
        /\ \A v \in Workers : v # w => worker'[v] = worker[v]
    BY <2>2
  <2> QED
    BY <2>1, <2>3
<1>3. worker[w].on = None /\ None \notin Indices /\ n # None /\ n \in Nat
  BY IndicesAreNat DEF PlaceInv
<1>4. /\ \A k \in 1..Len(queue) : queue[k] \in Indices
      /\ \A v \in Workers : worker[v].on \in Indices \cup {None}
  BY InQueue, WorkerType
<1>5. InFlight(n)'
  BY <1>2 DEF InFlight
<1>6. \A i \in Indices : InFlight(i)' <=> InFlight(i)
  <2>1. ASSUME NEW i \in Indices, NEW v \in Workers PROVE worker'[v].on = i <=> worker[v].on = i
    BY <1>1, <1>2, <1>3
  <2> QED
    BY <2>1 DEF InFlight
<1>7. StatesInv' /\ requestStates' \in [Ids -> Indices' \cup {None}]
  BY <1>5, <1>6, ArrivalStates
<1>8. RequestType'
  <2>1. queue' \in Seq(Indices')
    BY <1>1, SeqMonotonic DEF RequestType
  <2> QED
    BY <1>1, <1>2, <1>7, <2>1 DEF RequestType, Places
<1>9. PlaceInv'
  <2>1. \A v \in Workers : worker'[v].on = None <=> Idle(v)'
    BY <1>2, <1>3 DEF PlaceInv, Idle
  <2>2. \A v \in Workers : v # w => worker'[v].on # n
    BY <1>1, <1>2, <1>3, <1>4
  <2>3. \A u, v \in Workers : worker'[u].on = worker'[v].on /\ worker'[u].on # None => u = v
    BY <1>2, <2>2 DEF PlaceInv
  <2>4. \A v \in Workers : \A k \in 1..Len(queue) : worker'[v].on # queue[k]
    BY <1>1, <1>2, <1>4 DEF PlaceInv
  <2> QED
    BY <2>1, <2>3, <2>4 DEF PlaceInv
<1>10. AnswerInv'
  <2>1. \A k \in 1..Len(queue) : requests'[queue[k]].answers = <<>>
    BY <1>1, <1>4 DEF AnswerInv
  <2>2. ASSUME NEW v \in Workers, v # w, ~Idle(v)', worker'[v].pc # "finishing"
        PROVE  requests'[worker'[v].on].answers = <<>>
    <3>1. ~Idle(v) /\ worker'[v] = worker[v]
      BY <1>2, <2>2 DEF Idle
    <3>2. worker[v].on \in Indices
      BY <3>1, AtWork
    <3> QED
      BY <1>1, <2>2, <3>1, <3>2 DEF AnswerInv
  <2> QED
    BY <1>1, <1>2, <2>1, <2>2 DEF AnswerInv
<1> QED
  BY <1>5, <1>6, <1>7, <1>8, <1>9, <1>10

\* A request goes to the queue.
LEMMA QueuedKeepsCore ==
    ASSUME CoreInv, NEW r \in Received, requests' = Append(requests, r), r.answers = <<>>,
           NEW n, n = Len(requests) + 1, queue' = Append(queue, n), Len(queue) < QueueSize,
           requestStates' = [requestStates EXCEPT ![r.id] = n], UNCHANGED <<reader, worker>>
    PROVE  CoreInv' /\ InFlight(n)' /\ \A i \in Indices : InFlight(i)' <=> InFlight(i)
<1> USE DEF CoreInv
<1>1. /\ requests' \in Seq(Received) /\ Indices' = Indices \cup {n} /\ n \notin Indices
      /\ requests'[n] = r /\ \A i \in Indices : requests'[i] = requests[i]
  BY ArrivalEffect
<1>2. None \notin Indices /\ n # None /\ n \in Nat
  BY IndicesAreNat
<1>3. /\ Len(queue) \in Nat /\ \A k \in 1..Len(queue) : queue[k] \in Indices
      /\ \A v \in Workers : worker[v].on \in Indices \cup {None}
  BY InQueue, WorkerType
<1>4. queue \in Seq(Indices')
  BY <1>1, SeqMonotonic DEF RequestType
<1>5. /\ queue' \in Seq(Indices') /\ Len(queue') = Len(queue) + 1
      /\ queue'[Len(queue) + 1] = n /\ \A k \in 1..Len(queue) : queue'[k] = queue[k]
      /\ DOMAIN queue' = 1..(Len(queue) + 1)
  <2>1. n \in Indices'
    BY <1>1
  <2> QED
    BY <1>4, <2>1, AppendProperties, LenProperties
<1>6. \A k \in 1..(Len(queue) + 1) : k \in 1..Len(queue) \/ k = Len(queue) + 1
  BY <1>3
<1>7. Len(queue) + 1 \in 1..(Len(queue) + 1) /\ 1..Len(queue) \subseteq 1..(Len(queue) + 1)
  BY <1>3
<1>8. \A i : i \in Range(queue') <=> i \in Range(queue) \/ i = n
  BY <1>5, <1>6, <1>7, InQueue DEF Range
<1>9. InFlight(n)' /\ \A i \in Indices : InFlight(i)' <=> InFlight(i)
  BY <1>1, <1>8 DEF InFlight
<1>10. StatesInv' /\ requestStates' \in [Ids -> Indices' \cup {None}]
  BY <1>9, ArrivalStates
<1>11. RequestType'
  <2>1. Len(queue') <= QueueSize
    BY <1>3, <1>5, LspAssumption
  <2>2. worker' \in [Workers -> [pc : Places, on : Indices' \cup {None}]]
    BY <1>1, WorkerType
  <2> QED
    BY <1>1, <1>5, <1>10, <2>1, <2>2 DEF RequestType, Places
<1>12. PlaceInv'
  <2>1. \A j, k \in 1..(Len(queue) + 1) : queue'[j] = queue'[k] => j = k
    BY <1>1, <1>3, <1>5, <1>6 DEF PlaceInv
  <2>2. \A v \in Workers : \A k \in 1..(Len(queue) + 1) : worker[v].on # queue'[k]
    BY <1>1, <1>2, <1>3, <1>5, <1>6 DEF PlaceInv
  <2> QED
    BY <1>5, <2>1, <2>2 DEF PlaceInv, Idle
<1>13. AnswerInv'
  <2>1. ASSUME NEW k \in 1..(Len(queue) + 1) PROVE requests'[queue'[k]].answers = <<>>
    <3>1. CASE k \in 1..Len(queue)
      BY <1>1, <1>3, <1>5, <3>1 DEF AnswerInv
    <3>2. CASE k = Len(queue) + 1
      BY <1>1, <1>5, <3>2
    <3> QED
      BY <1>6, <3>1, <3>2
  <2>2. ASSUME NEW v \in Workers, ~Idle(v), worker[v].pc # "finishing"
        PROVE  requests'[worker[v].on].answers = <<>>
    <3>1. worker[v].on \in Indices
      BY <2>2, AtWork
    <3> QED
      BY <1>1, <2>2, <3>1 DEF AnswerInv
  <2> QED
    BY <1>5, <2>1, <2>2 DEF AnswerInv, Idle
<1> QED
  BY <1>9, <1>10, <1>11, <1>12, <1>13

\* A request is answered as it arrives.
LEMMA AnsweredKeepsCore ==
    ASSUME CoreInv, NEW r \in Received, requests' = Append(requests, r),
           NEW n, n = Len(requests) + 1,
           requestStates' \in {requestStates, [requestStates EXCEPT ![r.id] = None]},
           UNCHANGED <<reader, worker, queue>>
    PROVE  CoreInv' /\ ~InFlight(n)' /\ \A i \in Indices : InFlight(i)' <=> InFlight(i)
<1> USE DEF CoreInv
<1>1. /\ requests' \in Seq(Received) /\ Indices' = Indices \cup {n} /\ n \notin Indices
      /\ requests'[n] = r /\ \A i \in Indices : requests'[i] = requests[i]
  BY ArrivalEffect
<1>2. None \notin Indices /\ n # None
  BY IndicesAreNat
<1>3. /\ Len(queue) \in Nat /\ \A k \in 1..Len(queue) : queue[k] \in Indices
      /\ \A v \in Workers : worker[v].on \in Indices \cup {None}
  BY InQueue, WorkerType
<1>4. \A i : InFlight(i)' <=> InFlight(i)
  BY DEF InFlight
<1>5. ~InFlight(n)
  BY <1>1, <1>2, <1>3, InQueue DEF InFlight
<1>6. ~InFlight(n)' /\ \A i \in Indices : InFlight(i)' <=> InFlight(i)
  BY <1>4, <1>5
<1>7. StatesInv' /\ requestStates' \in [Ids -> Indices' \cup {None}]
  BY <1>6, ArrivalStates
<1>8. RequestType'
  <2>1. queue \in Seq(Indices')
    BY <1>1, SeqMonotonic DEF RequestType
  <2>2. worker' \in [Workers -> [pc : Places, on : Indices' \cup {None}]]
    BY <1>1, WorkerType
  <2> QED
    BY <1>1, <1>7, <2>1, <2>2 DEF RequestType, Places
<1>9. PlaceInv'
  BY DEF PlaceInv, Idle
<1>10. AnswerInv'
  <2>1. \A k \in 1..Len(queue) : requests'[queue[k]].answers = <<>>
    BY <1>1, <1>3 DEF AnswerInv
  <2>2. ASSUME NEW v \in Workers, ~Idle(v), worker[v].pc # "finishing"
        PROVE  requests'[worker[v].on].answers = <<>>
    <3>1. worker[v].on \in Indices
      BY <2>2, AtWork
    <3> QED
      BY <1>1, <2>2, <3>1 DEF AnswerInv
  <2> QED
    BY <2>1, <2>2 DEF AnswerInv, Idle
<1> QED
  BY <1>6, <1>7, <1>8, <1>9, <1>10


\* A cancellation reaches the request under the id.
LEMMA CancelKeepsCore ==
    ASSUME CoreInv, NEW id \in Ids, requestStates[id] # None,
           requests' = [requests EXCEPT ![requestStates[id]].cancelled = TRUE],
           requestStates' = [requestStates EXCEPT ![id] = None], UNCHANGED <<reader, queue, worker>>
    PROVE  CoreInv'
<1> USE DEF CoreInv
<1>1. PICK c \in Indices : c = requestStates[id]
  BY DEF RequestType
<1>2. /\ requests' \in Seq(Received) /\ Len(requests') = Len(requests) /\ Indices' = Indices
      /\ requests'[c].cancelled = TRUE
      /\ \A j \in Indices : /\ j # c => requests'[j] = requests[j]
                            /\ requests'[j].id = requests[j].id
                            /\ requests'[j].answers = requests[j].answers
  BY <1>1, CancelledEffect
<1>3. /\ requestStates' \in [Ids -> Indices \cup {None}] /\ requestStates'[id] = None
      /\ \A d \in Ids : d # id => requestStates'[d] = requestStates[d]
  BY DEF RequestType
<1>4. RequestType'
  BY <1>2, <1>3 DEF RequestType
<1>5. PlaceInv'
  BY DEF PlaceInv, Idle
<1>6. AnswerInv'
  <2>1. \A k \in 1..Len(queue) : requests'[queue[k]].answers = <<>>
    BY <1>2, InQueue DEF AnswerInv
  <2>2. ASSUME NEW v \in Workers, ~Idle(v), worker[v].pc # "finishing"
        PROVE  requests'[worker[v].on].answers = <<>>
    BY <1>2, <2>2, AtWork DEF AnswerInv
  <2> QED
    BY <2>1, <2>2 DEF AnswerInv, Idle
<1>7. \A i : InFlight(i)' <=> InFlight(i)
  BY DEF InFlight
<1>8. StatesInv'
  <2> SUFFICES ASSUME reader # "gone" PROVE StatesInv'
    BY DEF StatesInv
  <2>1. ASSUME NEW d \in Ids, requestStates'[d] # None
        PROVE  InFlight(requestStates'[d]) /\ requests'[requestStates'[d]].id = d
    <3>1. d # id /\ requestStates'[d] = requestStates[d] /\ requestStates[d] \in Indices
      BY <1>3, <2>1 DEF RequestType
    <3> QED
      BY <1>2, <2>1, <3>1 DEF StatesInv
  <2>2. ASSUME NEW i \in Indices, InFlight(i), ~requests'[i].cancelled,
               \A j \in i+1..Len(requests) : requests'[j].id # requests'[i].id
        PROVE  requestStates'[requests'[i].id] = i
    <3>1. \A j \in i+1..Len(requests) : j \in Indices
      BY IndicesAreNat
    <3>2. i # c /\ requests'[i] = requests[i] /\ requests[i].id \in Ids
      BY <1>2, <2>2, IndicesAreNat DEF Received
    <3>3. requestStates[requests[i].id] = i
      BY <1>2, <2>2, <3>1, <3>2 DEF StatesInv
    <3>4. requests[i].id # id
      BY <1>1, <3>2, <3>3
    <3> QED
      BY <1>3, <3>2, <3>3, <3>4
  <2> QED
    BY <1>2, <1>7, <2>1, <2>2 DEF StatesInv, InFlight
<1> QED
  BY <1>4, <1>5, <1>6, <1>8

\* serve returns.
LEMMA ReturnKeepsCore ==
    ASSUME CoreInv, Return
    PROVE  CoreInv'
<1> USE DEF CoreInv
<1>1. reader' = "gone" /\ queue' = <<>> /\ UNCHANGED <<requests, requestStates, worker>>
  BY DEF Return
<1>2. queue' \in Seq(Indices) /\ Len(queue') = 0
  BY <1>1, EmptySeq
<1>3. RequestType'
  BY <1>1, <1>2, LspAssumption DEF RequestType, Indices
<1>4. PlaceInv' /\ AnswerInv'
  BY <1>1, <1>2 DEF PlaceInv, AnswerInv, Idle
<1>5. StatesInv'
  BY <1>1 DEF StatesInv
<1> QED
  BY <1>3, <1>4, <1>5

\* A thread goes on, and no request changes.
LEMMA StepOnKeepsCore ==
    ASSUME CoreInv, NEW w \in Workers, ~Idle(w), worker[w].pc # "finishing",
           NEW pc \in Places \ {"unborn", "idle"}, To(w, pc),
           UNCHANGED <<reader, queue, requestStates, requests>>
    PROVE  CoreInv'
<1> USE DEF CoreInv
<1>1. requests' \in Seq(Received) /\ Indices' = Indices
  BY DEF RequestType, Indices
<1>2. requests[worker[w].on].answers = <<>>
  BY DEF AnswerInv
<1> QED
  BY <1>1, <1>2, MoveKeepsCore

\* A thread answers its request.
LEMMA ReplyKeepsCore ==
    ASSUME CoreInv, NEW w \in Workers, ~Idle(w), worker[w].pc # "finishing",
           NEW a \in Replies, Answer(worker[w].on, a), To(w, "finishing"),
           UNCHANGED <<reader, queue, requestStates>>
    PROVE  CoreInv'
<1> USE DEF CoreInv
<1>1. worker[w].on \in Indices /\ requests[worker[w].on].answers = <<>>
  BY AtWork DEF AnswerInv
<1>2. PICK i \in Indices : i = worker[w].on
  BY <1>1
<1>3. /\ requests' \in Seq(Received) /\ Len(requests') = Len(requests) /\ Indices' = Indices
      /\ \A j \in Indices : /\ j # i => requests'[j] = requests[j]
                            /\ requests'[j].id = requests[j].id
                            /\ requests'[j].cancelled = requests[j].cancelled
  BY <1>1, <1>2, AnswerEffect
<1>4. "finishing" \in Places \ {"unborn", "idle"}
  BY DEF Places
<1> QED
  BY <1>2, <1>3, <1>4, MoveKeepsCore

\* A document request that arrives goes to a new thread, to the queue or back.
LEMMA DispatchKeepsCore ==
    ASSUME CoreInv, LockInv, NEW id \in Ids, dispatchReadRequest(id)
    PROVE  CoreInv'
<1> DEFINE n == Len(requests) + 1
           r(answers) == RequestState(id, answers, id \in preCancelled)
<1>1. Submit(id, n, id \in preCancelled) /\ UNCHANGED reader
  BY DEF dispatchReadRequest
<1>2. \A answers \in AtMostOne : r(answers) \in Received /\ r(answers).id = id /\ r(answers).answers = answers
  <2>1. (id \in preCancelled) \in BOOLEAN
    OBVIOUS
  <2>2. SUFFICES ASSUME NEW answers \in AtMostOne
                 PROVE  r(answers) \in Received /\ r(answers).id = id /\ r(answers).answers = answers
    OBVIOUS
  <2>3. PICK early \in BOOLEAN : early = (id \in preCancelled)
    BY <2>1
  <2>4. r(answers) = RequestState(id, answers, early)
    BY <2>3 DEF RequestState
  <2> QED
    BY <2>4, ArrivalIsReceived
<1>3. <<>> \in AtMostOne /\ << <<"refused">> >> \in AtMostOne
  BY DEF AtMostOne, Replies
<1>4. CASE /\ \E w \in {v \in Workers : worker[v].pc = "unborn"} :
                    worker' = [worker EXCEPT ![w] = [pc |-> "assigned", on |-> n]]
           /\ requests' = Append(requests, r(<<>>))
           /\ requestStates' = [requestStates EXCEPT ![id] = n] /\ UNCHANGED queue
  <2>1. PICK w \in Workers : worker[w].pc = "unborn"
                             /\ worker' = [worker EXCEPT ![w] = [pc |-> "assigned", on |-> n]]
    BY <1>4
  <2>2. Idle(w)
    BY <2>1 DEF Idle
  <2> HIDE DEF r
  <2> QED
    BY <1>1, <1>2, <1>3, <1>4, <2>1, <2>2, NewThreadKeepsCore
<1>5. CASE /\ Len(queue) < QueueSize /\ queue' = Append(queue, n)
           /\ requests' = Append(requests, r(<<>>))
           /\ requestStates' = [requestStates EXCEPT ![id] = n] /\ UNCHANGED worker
  <2> HIDE DEF r
  <2> QED
    BY <1>1, <1>2, <1>3, <1>5, QueuedKeepsCore
<1>6. CASE /\ requests' = Append(requests, r(<< <<"refused">> >>))
           /\ requestStates' = [requestStates EXCEPT ![id] = None] /\ UNCHANGED <<queue, worker>>
  <2> HIDE DEF r
  <2> QED
    BY <1>1, <1>2, <1>3, <1>6, AnsweredKeepsCore
<1> QED
  BY <1>1, <1>4, <1>5, <1>6 DEF Submit

LEMMA CoreStep ==
    ASSUME CoreInv, LockInv, [Next]_vars
    PROVE  CoreInv'
<1>1. ASSUME NEW id \in Ids, dispatchReadRequest(id) PROVE CoreInv'
  BY <1>1, DispatchKeepsCore
<1>2. ASSUME NEW id \in Ids, WorkspaceSymbol(id) PROVE CoreInv'
  <2> DEFINE r == RequestState(id, << <<"result", version>> >>, FALSE)
  <2>1. << <<"result", version>> >> \in AtMostOne
    BY DEF AtMostOne, Replies, LockInv
  <2>2. r \in Received
    BY <2>1, ArrivalIsReceived
  <2>3. requests' = Append(requests, r) /\ UNCHANGED <<reader, worker, queue, requestStates>>
    BY <1>2 DEF WorkspaceSymbol
  <2> HIDE DEF r
  <2> QED
    BY <2>2, <2>3, AnsweredKeepsCore
<1>3. ASSUME NEW id \in Ids, cancelRequest(id) PROVE CoreInv'
  <2>1. CASE requestStates[id] = None
    BY <1>3, <2>1, CoreFrame DEF cancelRequest
  <2>2. CASE requestStates[id] # None
    BY <1>3, <2>2, CancelKeepsCore DEF cancelRequest
  <2> QED
    BY <2>1, <2>2
<1>4. CASE ReceiveEdit \/ withWriteState \/ BeginShutdown \/ UNCHANGED vars
  BY <1>4, CoreFrame DEF ReceiveEdit, withWriteState, BeginShutdown, vars
<1>5. CASE Drained \/ DrainTimesOut \/ Exit
  BY <1>5, ReturnKeepsCore DEF Drained, DrainTimesOut, Exit
<1>6. ASSUME NEW w \in Workers, Take(w) PROVE CoreInv'
  BY <1>6, TakeKeepsCore
<1>7. ASSUME NEW w \in Workers, Skip(w) \/ Finish(w) PROVE CoreInv'
  <2>1. /\ ~Idle(w) /\ RemoveState(worker[w].on)
        /\ worker' = [worker EXCEPT ![w] = [pc |-> "idle", on |-> None]]
        /\ UNCHANGED <<reader, queue, requests>>
    BY <1>7 DEF Skip, Finish, Idle
  <2> QED
    BY <2>1, ReleaseKeepsCore
<1>8. ASSUME NEW w \in Workers, Start(w) \/ Enter(w) \/ Work(w) \/ Throw(w) PROVE CoreInv'
  <2>1. ~Idle(w) /\ worker[w].pc # "finishing" /\ UNCHANGED <<reader, queue, requestStates, requests>>
    BY <1>8 DEF Start, Enter, Work, Throw, Idle
  <2>2. \E pc \in Places \ {"unborn", "idle"} : To(w, pc)
    <3>1. CASE Start(w)
      BY <3>1 DEF Start, Places
    <3>2. CASE Enter(w)
      BY <3>2 DEF Enter, ProceedUnlessCancelled, Places
    <3>3. CASE Work(w)
      BY <3>3 DEF Work, ProceedUnlessCancelled, Places
    <3>4. CASE Throw(w)
      BY <3>4 DEF Throw, Places
    <3> QED
      BY <1>8, <3>1, <3>2, <3>3, <3>4
  <2> QED
    BY <2>1, <2>2, StepOnKeepsCore
<1>9. ASSUME NEW w \in Workers, Publish(w) \/ Fail(w) PROVE CoreInv'
  <2>1. /\ ~Idle(w) /\ worker[w].pc # "finishing" /\ To(w, "finishing")
        /\ UNCHANGED <<reader, queue, requestStates>>
    BY <1>9 DEF Publish, Fail, Idle
  <2>2. worker[w].on \in Indices
    BY <2>1, AtWork DEF CoreInv
  <2>3. <<"result", requests[worker[w].on].readView>> \in Replies /\ <<"failed">> \in Replies
    BY <2>2, IndicesAreNat DEF CoreInv, Received, Replies
  <2>4. \E a \in Replies : Answer(worker[w].on, a)
    BY <1>9, <2>3 DEF Publish, Fail
  <2> QED
    BY <2>1, <2>4, ReplyKeepsCore
<1> QED
  BY <1>1, <1>2, <1>3, <1>4, <1>5, <1>6, <1>7, <1>8, <1>9 DEF Next, ReaderStep, WorkerStep, Rest

--------------------------------------------------------------------------------
\* The bounded sets.

LEMMA Remembering ==
    ASSUME NEW set, Bounded(set), NEW key \in Ids, NEW s \in rememberBounded(set, key)
    PROVE  Bounded(s) /\ key \in s /\ s \subseteq set \cup {key}
<1>1. IsFiniteSet(set) /\ Cardinality(set) \in Nat /\ MaxTracked \in Nat \ {0}
  BY FS_CardinalityType, LspAssumption DEF Bounded
<1>2. CASE Cardinality(set) >= MaxTracked /\ \E old \in set : s = (set \ {old}) \cup {key}
  <2>1. PICK old \in set : s = (set \ {old}) \cup {key}
    BY <1>2
  <2>2. IsFiniteSet(set \ {old}) /\ Cardinality(set \ {old}) = Cardinality(set) - 1
    BY <1>1, FS_RemoveElement
  <2>3. IsFiniteSet(s) /\ Cardinality(s) \in {Cardinality(set) - 1, Cardinality(set)}
    BY <1>1, <2>1, <2>2, FS_AddElement
  <2> QED
    BY <1>1, <2>1, <2>3 DEF Bounded
<1>3. CASE Cardinality(set) < MaxTracked /\ s = set \cup {key}
  <2>1. IsFiniteSet(s) /\ Cardinality(s) \in {Cardinality(set), Cardinality(set) + 1}
    BY <1>1, <1>3, FS_AddElement
  <2> QED
    BY <1>1, <1>3, <2>1 DEF Bounded
<1> QED
  BY <1>1, <1>2, <1>3 DEF rememberBounded

LEMMA Forgetting ==
    ASSUME NEW set, Bounded(set), NEW key
    PROVE  Bounded(set \ {key})
<1>1. IsFiniteSet(set) /\ Cardinality(set) \in Nat /\ MaxTracked \in Nat \ {0}
  BY FS_CardinalityType, LspAssumption DEF Bounded
<1>2. IsFiniteSet(set \ {key}) /\ Cardinality(set \ {key}) <= Cardinality(set)
      /\ Cardinality(set \ {key}) \in Nat
  BY <1>1, FS_Subset, FS_CardinalityType
<1> QED
  BY <1>1, <1>2 DEF Bounded

LEMMA TrackedStep ==
    ASSUME TrackedInv, [Next]_vars
    PROVE  TrackedInv'
<1> SUFFICES Bounded(seen') /\ Bounded(preCancelled')
  BY DEF TrackedInv, Bounded
<1>0. Bounded(seen) /\ Bounded(preCancelled)
  BY DEF TrackedInv
<1>1. ASSUME NEW id \in Ids, dispatchReadRequest(id) PROVE Bounded(seen') /\ Bounded(preCancelled')
  BY <1>0, <1>1, Remembering, Forgetting DEF dispatchReadRequest
<1>2. ASSUME NEW id \in Ids, cancelRequest(id) PROVE Bounded(seen') /\ Bounded(preCancelled')
  <2>1. UNCHANGED seen /\ (UNCHANGED preCancelled \/ preCancelled' \in rememberBounded(preCancelled, id))
    BY <1>2 DEF cancelRequest
  <2> QED
    BY <1>0, <2>1, Remembering
<1>3. ASSUME NEW w \in Workers, Enter(w) \/ Work(w) PROVE Bounded(seen') /\ Bounded(preCancelled')
  <2>1. UNCHANGED seen /\ (UNCHANGED preCancelled \/ \E key : preCancelled' = preCancelled \ {key})
    BY <1>3 DEF Enter, Work, ProceedUnlessCancelled
  <2> QED
    BY <1>0, <2>1, Forgetting
<1>4. CASE UNCHANGED <<seen, preCancelled>>
  BY <1>0, <1>4
<1>5. ASSUME NEW id \in Ids, WorkspaceSymbol(id) PROVE UNCHANGED <<seen, preCancelled>>
  BY <1>5 DEF WorkspaceSymbol
<1>6. ASSUME NEW w \in Workers, Take(w) \/ Skip(w) \/ Start(w) \/ Throw(w) \/ Publish(w) \/ Fail(w) \/ Finish(w)
      PROVE  UNCHANGED <<seen, preCancelled>>
  BY <1>6 DEF Take, Skip, Start, Throw, Publish, Fail, Finish
<1>7. ASSUME \/ ReceiveEdit \/ withWriteState \/ BeginShutdown \/ Drained \/ DrainTimesOut \/ Exit
             \/ UNCHANGED vars
      PROVE  UNCHANGED <<seen, preCancelled>>
  BY <1>7 DEF ReceiveEdit, withWriteState, BeginShutdown, Drained, DrainTimesOut, Exit, Return, vars
<1> QED
  BY <1>1, <1>2, <1>3, <1>4, <1>5, <1>6, <1>7 DEF Next, ReaderStep, WorkerStep, Rest

--------------------------------------------------------------------------------
\* The lock's queue.

LEMMA LastOfQueue ==
    ASSUME NEW S, NEW q \in Seq(S), NEW x \in S
    PROVE  Append(q, x) \in Seq(S) /\ \A y : Contains(q, y) \/ y = x => Contains(Append(q, x), y)
<1>1. /\ Len(q) \in Nat /\ Append(q, x) \in Seq(S) /\ Len(Append(q, x)) = Len(q) + 1
      /\ Append(q, x)[Len(q) + 1] = x
      /\ \A k \in 1..Len(q) : Append(q, x)[k] = q[k]
  BY AppendProperties, LenProperties
<1>2. Len(q) + 1 \in 1..(Len(q) + 1) /\ 1..Len(q) \subseteq 1..(Len(q) + 1)
  BY <1>1
<1> QED
  BY <1>1, <1>2 DEF Contains

LEMMA FirstOfQueue ==
    ASSUME NEW S, NEW q \in Seq(S), NEW x, Contains(q, x)
    PROVE  Tail(q) \in Seq(S) /\ \A y : Contains(q, y) => y = Head(q) \/ Contains(Tail(q), y)
<1>1. q # <<>> /\ Len(q) \in Nat
  BY EmptySeq, LenProperties DEF Contains
<1>2. /\ Tail(q) \in Seq(S) /\ Head(q) = q[1] /\ Len(Tail(q)) = Len(q) - 1
      /\ \A k \in 1..Len(Tail(q)) : Tail(q)[k] = q[k + 1]
  BY <1>1, HeadTailProperties
<1>3. ASSUME NEW k \in 1..Len(q), k # 1 PROVE Contains(Tail(q), q[k])
  <2>1. k - 1 \in 1..Len(Tail(q)) /\ (k - 1) + 1 = k
    BY <1>1, <1>2, <1>3
  <2>2. Tail(q)[k - 1] = q[k]
    BY <1>2, <2>1
  <2> QED
    BY <2>1, <2>2 DEF Contains
<1> QED
  BY <1>2, <1>3 DEF Contains

\* Nobody joins or leaves it.
LEMMA LockFrame ==
    ASSUME LockInv, UNCHANGED <<version, lockQueue>>, reader' \in {reader, "draining", "gone"},
           \A w \in Workers : worker'[w].pc = "waiting" => worker[w].pc = "waiting"
    PROVE  LockInv'
  BY DEF LockInv

LEMMA LockStep ==
    ASSUME CoreInv, LockInv, [Next]_vars
    PROVE  LockInv'
<1> USE DEF CoreInv
<1>0. /\ lockQueue \in Seq(Workers \cup {"reader"}) /\ "reader" \notin Workers
      /\ worker \in [Workers -> [pc : Places, on : Indices \cup {None}]]
  BY LspAssumption, WorkerType DEF LockInv
<1>1. ASSUME NEW id \in Ids, dispatchReadRequest(id) PROVE LockInv'
  <2>1. UNCHANGED worker \/ \E w \in Workers : worker' = [worker EXCEPT ![w] = [pc |-> "assigned", on |-> Len(requests) + 1]]
    BY <1>1 DEF dispatchReadRequest, Submit
  <2>2. \A w \in Workers : worker'[w].pc = "waiting" => worker[w].pc = "waiting"
    BY <1>0, <2>1
  <2> QED
    BY <1>1, <2>2, LockFrame DEF dispatchReadRequest
<1>2. ASSUME NEW id \in Ids, WorkspaceSymbol(id) \/ cancelRequest(id) PROVE LockInv'
  BY <1>2, LockFrame DEF WorkspaceSymbol, cancelRequest
<1>3. CASE ReceiveEdit
  <2>1. /\ lockQueue' \in Seq(Workers \cup {"reader"})
        /\ \A y : Contains(lockQueue, y) \/ y = "reader" => Contains(lockQueue', y)
    BY <1>0, <1>3, LastOfQueue DEF ReceiveEdit
  <2> QED
    BY <1>3, <2>1 DEF ReceiveEdit, LockInv
<1>4. CASE withWriteState
  <2>1. Contains(lockQueue, "reader")
    BY <1>4 DEF withWriteState, LockInv
  <2>2. /\ lockQueue' \in Seq(Workers \cup {"reader"})
        /\ \A y : Contains(lockQueue, y) => y = "reader" \/ Contains(lockQueue', y)
    BY <1>0, <1>4, <2>1, FirstOfQueue DEF withWriteState
  <2>3. version' \in 0..1 /\ reader' = "reading" /\ UNCHANGED worker
    BY <1>4 DEF withWriteState, LockInv
  <2> QED
    BY <1>0, <2>2, <2>3 DEF LockInv
<1>5. CASE BeginShutdown \/ Drained \/ DrainTimesOut \/ Exit \/ UNCHANGED vars
  BY <1>5, LockFrame DEF BeginShutdown, Drained, DrainTimesOut, Exit, Return, vars
<1>6. ASSUME NEW w \in Workers, Take(w) \/ Skip(w) \/ Work(w) \/ Throw(w) \/ Publish(w) \/ Fail(w) \/ Finish(w)
      PROVE  LockInv'
  <2>1. UNCHANGED <<reader, version, lockQueue>>
    BY <1>6 DEF Take, Skip, Work, Throw, Publish, Fail, Finish
  <2>2. \A v \in Workers : worker'[v].pc = "waiting" => worker[v].pc = "waiting"
    <3>1. CASE Take(w) \/ Skip(w) \/ Finish(w)
      BY <1>0, <3>1 DEF Take, Skip, Finish
    <3>2. CASE Work(w) \/ Throw(w) \/ Publish(w) \/ Fail(w)
      <4>1. PICK pc : To(w, pc) /\ pc # "waiting"
        BY <3>2 DEF Work, Throw, Publish, Fail, ProceedUnlessCancelled
      <4> QED
        BY <1>0, <4>1 DEF To
    <3> QED
      BY <1>6, <3>1, <3>2
  <2> QED
    BY <2>1, <2>2, LockFrame
<1>7. ASSUME NEW w \in Workers, Start(w) PROVE LockInv'
  <2>1. /\ lockQueue' \in Seq(Workers \cup {"reader"})
        /\ \A y : Contains(lockQueue, y) \/ y = w => Contains(lockQueue', y)
    BY <1>0, <1>7, LastOfQueue DEF Start
  <2>2. UNCHANGED <<reader, version>> /\ \A v \in Workers : v # w => worker'[v] = worker[v]
    BY <1>0, <1>7 DEF Start, To
  <2> QED
    BY <2>1, <2>2 DEF LockInv
<1>8. ASSUME NEW w \in Workers, Enter(w) PROVE LockInv'
  <2>1. Contains(lockQueue, w)
    BY <1>8 DEF Enter, LockInv
  <2>2. /\ lockQueue' \in Seq(Workers \cup {"reader"})
        /\ \A y : Contains(lockQueue, y) => y = w \/ Contains(lockQueue', y)
    BY <1>0, <1>8, <2>1, FirstOfQueue DEF Enter
  <2>3. PICK pc : To(w, pc) /\ pc # "waiting"
    BY <1>8 DEF Enter, ProceedUnlessCancelled
  <2>4. UNCHANGED <<reader, version>> /\ worker'[w].pc # "waiting"
        /\ \A v \in Workers : v # w => worker'[v] = worker[v]
    BY <1>0, <1>8, <2>3 DEF Enter, To
  <2> QED
    BY <1>0, <2>2, <2>4 DEF LockInv
<1> QED
  BY <1>1, <1>2, <1>3, <1>4, <1>5, <1>6, <1>7, <1>8 DEF Next, ReaderStep, WorkerStep, Rest

--------------------------------------------------------------------------------
\* The invariant, and what it says of requestStates.

LEMMA RequestInvInit == Init => RequestInv
<1> SUFFICES ASSUME Init PROVE RequestInv
  OBVIOUS
<1>1. requests = <<>> /\ queue = <<>> /\ lockQueue = <<>> /\ Len(requests) = 0 /\ Len(queue) = 0
  BY DEF Init
<1>2. <<>> \in Seq(Received) /\ <<>> \in Seq(Indices) /\ <<>> \in Seq(Workers \cup {"reader"})
  BY EmptySeq
<1>3. Indices = {}
  BY <1>1 DEF Indices
<1>4. RequestType
  BY <1>1, <1>2, LspAssumption DEF Init, RequestType
<1>5. TrackedInv
  BY LspAssumption, FS_EmptySet DEF Init, TrackedInv, Bounded
<1>6. LockInv /\ PlaceInv
  BY <1>1, <1>2 DEF Init, LockInv, PlaceInv, Idle, None
<1>7. AnswerInv /\ StatesInv
  BY <1>1, <1>3 DEF Init, AnswerInv, StatesInv, Idle
<1> QED
  BY <1>4, <1>5, <1>6, <1>7 DEF RequestInv

LEMMA RequestInvStep == RequestInv /\ [Next]_vars => RequestInv'
  BY CoreStep, TrackedStep, LockStep DEF RequestInv, CoreInv

\* In every reachable state a request is in the queue or at one thread at most,
\* is answered once at most, and stands in requestStates as long as a
\* cancellation can stop it.
THEOREM RequestInvariance == Spec => []RequestInv
  BY RequestInvInit, RequestInvStep, PTL DEF Spec

LEMMA ExactFromInv == RequestInv => RequestStatesAreExact
<1> SUFFICES ASSUME RequestInv PROVE RequestStatesAreExact
  OBVIOUS
<1> DEFINE Records == [id : Ids, readView : 0..1, cancelled : BOOLEAN, answers : Seq(Replies)]
<1>1. Received \subseteq Records
  <2>1. AtMostOne \subseteq Seq(Replies)
    <3>1. \A reply \in Replies : <<reply>> \in Seq(Replies)
      OBVIOUS
    <3> QED
      BY <3>1, EmptySeq DEF AtMostOne
  <2> HIDE DEF AtMostOne, Replies
  <2> QED
    BY <2>1 DEF Received
<1>2. requests \in Seq(Records)
  <2>1. requests \in Seq(Received)
    BY DEF RequestInv, RequestType
  <2> HIDE DEF Records, Received
  <2> QED
    BY <1>1, <2>1, SeqMonotonic
<1>3. TypeOK
  BY <1>2 DEF RequestInv, RequestType, TrackedInv, Bounded, LockInv, TypeOK, Replies
<1>4. StatesInv
  BY DEF RequestInv
<1> QED
  BY <1>3, <1>4 DEF RequestStatesAreExact, StatesInv

\* While the server serves, whatever the client sends and cancels, requestStates
\* holds only requests in flight, under their own id, and the newest request
\* under an id until it ends or is cancelled: a cancellation reaches exactly what
\* it can still stop.
THEOREM CancellationsReachTheirRequests == Spec => []RequestStatesAreExact
  BY RequestInvariance, ExactFromInv, PTL

--------------------------------------------------------------------------------
\* A client that numbers its requests, as the VS Code extension does.

FreshIds == \A script \in Scripts : \A i, j \in DOMAIN script : script[i][1] = script[j][1] => i = j

LEMMA NewIdIsNew ==
    ASSUME FreshIds, RequestType, NEW id, NEW method, CanSend(id, method)
    PROVE  \A i \in Indices : requests[i].id # id
<1>1. PICK script \in Scripts : /\ Len(requests) < Len(script)
                                /\ script[Len(requests) + 1] = <<id, method>>
                                /\ \A i \in Indices : script[i][1] = requests[i].id
  BY DEF CanSend
<1>2. script \in Seq(Ids \X {"document", "symbol"})
  BY LspAssumption
<1>3. DOMAIN script = 1..Len(script) /\ Len(script) \in Nat
  BY <1>2, LenProperties
<1>4. Len(requests) + 1 \in DOMAIN script /\ Indices \subseteq DOMAIN script
      /\ Len(requests) + 1 \notin Indices
  BY <1>1, <1>3, IndicesAreNat
<1>5. script[Len(requests) + 1][1] = id
  BY <1>1
<1> QED
  BY <1>1, <1>4, <1>5 DEF FreshIds

\* A request arrives that is not in preCancelled any more.
LEMMA ArrivalIsFresh ==
    ASSUME RequestInv, FreshInv, NEW r \in Received, requests' = Append(requests, r),
           \A i \in Indices : requests[i].id # r.id,
           NEW n, n = Len(requests) + 1, \A i \in Indices : InFlight(i)' <=> InFlight(i),
           preCancelled' \subseteq preCancelled, r.id \notin preCancelled' \/ ~InFlight(n)',
           seen' \subseteq seen \cup {r.id},
           \A w \in Workers : worker'[w].pc = "finishing" => worker'[w] = worker[w]
    PROVE  FreshInv'
<1>1. /\ Indices' = Indices \cup {n} /\ n \notin Indices
      /\ requests'[n] = r /\ \A i \in Indices : requests'[i] = requests[i]
  BY ArrivalEffect DEF RequestInv
<1>2. \A i, j \in Indices' : requests'[i].id = requests'[j].id => i = j
  <2> SUFFICES ASSUME NEW i \in Indices', NEW j \in Indices', requests'[i].id = requests'[j].id
               PROVE  i = j
    OBVIOUS
  <2>1. CASE i \in Indices /\ j \in Indices
    <3>1. requests[i].id = requests[j].id
      BY <1>1, <2>1
    <3> QED
      BY <2>1, <3>1 DEF FreshInv
  <2>2. CASE i = n \/ j = n
    BY <1>1, <2>2
  <2> QED
    BY <1>1, <2>1, <2>2
<1>3. ASSUME NEW id \in seen' PROVE \E i \in Indices' : requests'[i].id = id
  <2>1. CASE id = r.id
    BY <1>1, <2>1
  <2>2. CASE id \in seen
    <3>1. PICK i \in Indices : requests[i].id = id
      BY <2>2 DEF FreshInv
    <3> QED
      BY <1>1, <3>1
  <2> QED
    BY <2>1, <2>2
<1>4. ASSUME NEW i \in Indices', InFlight(i)', ~requests'[i].cancelled PROVE requests'[i].id \notin preCancelled'
  <2>1. CASE i = n
    BY <1>1, <1>4, <2>1 DEF InFlight
  <2>2. CASE i \in Indices
    BY <1>1, <1>4, <2>2 DEF FreshInv
  <2> QED
    BY <1>1, <2>1, <2>2
<1>5. ASSUME NEW w \in Workers, worker'[w].pc = "finishing", requests'[worker'[w].on].answers = <<>>
      PROVE  requests'[worker'[w].on].cancelled
  <2>1. ~Idle(w) /\ worker'[w] = worker[w]
    BY <1>5 DEF Idle
  <2>2. worker[w].on \in Indices
    BY <2>1, AtWork DEF RequestInv
  <2>3. requests[worker[w].on].answers = <<>> /\ requests'[worker'[w].on] = requests[worker[w].on]
    BY <1>1, <1>5, <2>1, <2>2
  <2> QED
    BY <1>5, <2>1, <2>3 DEF FreshInv
<1> QED
  BY <1>2, <1>3, <1>4, <1>5 DEF FreshInv

\* Requests stay as they are, and fewer are in flight.
LEMMA FreshFrame ==
    ASSUME FreshInv, UNCHANGED <<requests, seen>>, preCancelled' \subseteq preCancelled,
           \A i \in Indices : InFlight(i)' => InFlight(i),
           \A w \in Workers : worker'[w].pc = "finishing" =>
               \/ worker[w].pc = "finishing" /\ worker'[w].on = worker[w].on
               \/ requests[worker'[w].on].cancelled
    PROVE  FreshInv'
  BY DEF FreshInv, Indices

\* The test for an early cancellation finds none: it was found when the request came.
LEMMA NoLateFinding ==
    ASSUME RequestInv, FreshInv, NEW w \in Workers, ~Idle(w), NEW pc, ProceedUnlessCancelled(w, pc)
    PROVE  /\ UNCHANGED preCancelled
           /\ \/ requests[worker[w].on].cancelled /\ To(w, "finishing")
              \/ ~requests[worker[w].on].cancelled /\ To(w, pc)
<1>1. PICK i \in Indices : i = worker[w].on
  BY AtWork DEF RequestInv
<1>2. InFlight(i)
  BY <1>1 DEF InFlight
<1>3. ~(~requests[i].cancelled /\ requests[i].id \in preCancelled)
  BY <1>2 DEF FreshInv
<1> QED
  BY <1>1, <1>3 DEF ProceedUnlessCancelled

\* A cancellation is kept for later only if no request is in flight under its id
\* that it could stop.
LEMMA CancelIsFresh ==
    ASSUME RequestInv, FreshInv, NEW id \in Ids, cancelRequest(id)
    PROVE  FreshInv'
<1>1. UNCHANGED <<reader, seen, queue, worker>> /\ reader = "reading"
  BY DEF cancelRequest
<1>2. \A i : InFlight(i)' <=> InFlight(i)
  BY <1>1 DEF InFlight
<1>3. CASE requestStates[id] = None
  <2>1. UNCHANGED requests /\ preCancelled' \subseteq preCancelled \cup {id}
    BY <1>3, Remembering DEF cancelRequest, RequestInv, TrackedInv
  <2>2. ASSUME NEW i \in Indices, InFlight(i), ~requests[i].cancelled PROVE requests[i].id # id
    <3>1. \A j \in i+1..Len(requests) : j \in Indices /\ j # i
      BY IndicesAreNat DEF RequestInv
    <3>2. requestStates[requests[i].id] = i
      BY <1>1, <2>2, <3>1 DEF RequestInv, StatesInv, FreshInv
    <3> QED
      BY <1>3, <3>2, IndicesAreNat DEF RequestInv
  <2>3. \A i \in Indices : InFlight(i)' /\ ~requests[i].cancelled => requests[i].id \notin preCancelled'
    BY <1>2, <2>1, <2>2 DEF FreshInv
  <2> QED
    BY <1>1, <2>1, <2>3 DEF FreshInv, Indices
<1>4. CASE requestStates[id] # None
  <2>1. PICK c \in Indices : c = requestStates[id]
    BY <1>4 DEF RequestInv, RequestType
  <2>2. requests' = [requests EXCEPT ![c].cancelled = TRUE] /\ UNCHANGED preCancelled
    BY <1>4, <2>1 DEF cancelRequest
  <2>3. /\ Indices' = Indices /\ requests'[c].cancelled = TRUE
        /\ \A j \in Indices : /\ j # c => requests'[j] = requests[j]
                              /\ requests'[j].id = requests[j].id
                              /\ requests'[j].answers = requests[j].answers
    BY <2>2, CancelledEffect DEF RequestInv
  <2>4. \A w \in Workers : worker[w].pc = "finishing" => worker[w].on \in Indices
    BY AtWork DEF RequestInv, Idle
  <2>5. \A i \in Indices : InFlight(i)' /\ ~requests'[i].cancelled => requests'[i].id \notin preCancelled'
    BY <1>2, <2>2, <2>3 DEF FreshInv
  <2>6. ASSUME NEW w \in Workers, worker'[w].pc = "finishing", requests'[worker'[w].on].answers = <<>>
        PROVE  requests'[worker'[w].on].cancelled
    BY <1>1, <2>3, <2>4, <2>6 DEF FreshInv
  <2> QED
    BY <1>1, <2>3, <2>5, <2>6 DEF FreshInv
<1> QED
  BY <1>3, <1>4

\* A thread answers.
LEMMA ReplyIsFresh ==
    ASSUME RequestInv, FreshInv, NEW w \in Workers, ~Idle(w), worker[w].pc # "finishing",
           NEW a \in Replies, Answer(worker[w].on, a), To(w, "finishing"),
           UNCHANGED <<seen, preCancelled, queue>>
    PROVE  FreshInv'
<1>1. PICK i \in Indices : i = worker[w].on
  BY AtWork DEF RequestInv
<1>2. requests[i].answers = <<>>
  BY <1>1 DEF RequestInv, AnswerInv
<1>3. /\ Indices' = Indices /\ requests'[i].answers = <<a>>
      /\ \A j \in Indices : /\ j # i => requests'[j] = requests[j]
                            /\ requests'[j].id = requests[j].id
                            /\ requests'[j].cancelled = requests[j].cancelled
  BY <1>1, <1>2, AnswerEffect DEF RequestInv
<1>4. /\ worker'[w].on = i /\ \A v \in Workers : worker'[v].on = worker[v].on
      /\ \A v \in Workers : v # w => worker'[v] = worker[v]
  BY <1>1, MoveEffect DEF RequestInv, Places
<1>5. \A j : InFlight(j)' <=> InFlight(j)
  BY <1>4 DEF InFlight
<1>6. ASSUME NEW v \in Workers, worker'[v].pc = "finishing", requests'[worker'[v].on].answers = <<>>
      PROVE  requests'[worker'[v].on].cancelled
  <2>1. v # w
    BY <1>3, <1>4, <1>6
  <2>2. worker'[v] = worker[v] /\ ~Idle(v)
    BY <1>4, <1>6, <2>1 DEF Idle
  <2>3. worker[v].on \in Indices /\ worker[v].on # i
    BY <1>1, <2>1, <2>2, AtWork, IndicesAreNat DEF RequestInv, PlaceInv
  <2> QED
    BY <1>3, <1>6, <2>2, <2>3 DEF FreshInv
<1> QED
  BY <1>3, <1>5, <1>6 DEF FreshInv

\* What becomes of the places when a document request arrives.
LEMMA DispatchEffect ==
    ASSUME RequestInv, NEW id \in Ids, dispatchReadRequest(id)
    PROVE  \E r \in Received, n \in {Len(requests) + 1} :
              /\ requests' = Append(requests, r) /\ r.id = id /\ r.readView = version
              /\ r.cancelled => id \in preCancelled
              /\ \A i \in Indices : InFlight(i)' <=> InFlight(i)
              /\ \A w \in Workers : worker'[w].pc = "finishing" => worker'[w] = worker[w]
              /\ \/ InFlight(n)' /\ r.answers = <<>>
                 \/ ~InFlight(n)' /\ r.answers = << <<"refused">> >>
<1>0. PICK n : n = Len(requests) + 1
  OBVIOUS
<1> DEFINE r(answers) == RequestState(id, answers, id \in preCancelled)
<1>1. Submit(id, n, id \in preCancelled) /\ UNCHANGED reader
  BY <1>0 DEF dispatchReadRequest
<1>2. \A answers \in AtMostOne :
          /\ r(answers) \in Received /\ r(answers).id = id /\ r(answers).answers = answers
          /\ r(answers).readView = version /\ (r(answers).cancelled => id \in preCancelled)
  <2>1. (id \in preCancelled) \in BOOLEAN
    OBVIOUS
  <2>2. SUFFICES ASSUME NEW answers \in AtMostOne
                 PROVE  /\ r(answers) \in Received /\ r(answers).id = id /\ r(answers).answers = answers
                        /\ r(answers).readView = version /\ (r(answers).cancelled => id \in preCancelled)
    OBVIOUS
  <2>3. PICK early \in BOOLEAN : early = (id \in preCancelled)
    BY <2>1
  <2>4. r(answers) = RequestState(id, answers, early)
    BY <2>3 DEF RequestState
  <2>5. /\ r(answers) \in Received /\ r(answers).id = id /\ r(answers).answers = answers
        /\ r(answers).readView = version /\ r(answers).cancelled = early
    <3> HIDE DEF r
    <3> QED
      BY <2>4, ArrivalIsReceived DEF RequestInv
  <2> HIDE DEF r
  <2> QED
    BY <2>3, <2>5
<1>3. <<>> \in AtMostOne /\ << <<"refused">> >> \in AtMostOne
  BY DEF AtMostOne, Replies
<1>4. worker \in [Workers -> [pc : Places, on : Indices \cup {None}]]
  BY WorkerType DEF RequestInv
<1>5. CoreInv
  BY DEF CoreInv, RequestInv
<1>6. CASE /\ \E w \in {v \in Workers : worker[v].pc = "unborn"} :
                    worker' = [worker EXCEPT ![w] = [pc |-> "assigned", on |-> n]]
           /\ requests' = Append(requests, r(<<>>))
           /\ requestStates' = [requestStates EXCEPT ![id] = n] /\ UNCHANGED queue
  <2>1. PICK w \in Workers : worker[w].pc = "unborn"
                             /\ worker' = [worker EXCEPT ![w] = [pc |-> "assigned", on |-> n]]
    BY <1>6
  <2>2. Idle(w)
    BY <2>1 DEF Idle
  <2>3. \A v \in Workers : worker'[v].pc = "finishing" => worker'[v] = worker[v]
    BY <1>4, <2>1
  <2> HIDE DEF r
  <2>4. InFlight(n)' /\ \A i \in Indices : InFlight(i)' <=> InFlight(i)
    BY <1>0, <1>1, <1>2, <1>3, <1>5, <1>6, <2>1, <2>2, NewThreadKeepsCore
  <2> QED
    BY <1>0, <1>2, <1>3, <1>6, <2>3, <2>4
<1>7. CASE /\ Len(queue) < QueueSize /\ queue' = Append(queue, n)
           /\ requests' = Append(requests, r(<<>>))
           /\ requestStates' = [requestStates EXCEPT ![id] = n] /\ UNCHANGED worker
  <2> HIDE DEF r
  <2>1. InFlight(n)' /\ \A i \in Indices : InFlight(i)' <=> InFlight(i)
    BY <1>0, <1>1, <1>2, <1>3, <1>5, <1>7, QueuedKeepsCore
  <2> QED
    BY <1>0, <1>2, <1>3, <1>7, <2>1
<1>8. CASE /\ requests' = Append(requests, r(<< <<"refused">> >>))
           /\ requestStates' = [requestStates EXCEPT ![id] = None] /\ UNCHANGED <<queue, worker>>
  <2> HIDE DEF r
  <2>1. ~InFlight(n)' /\ \A i \in Indices : InFlight(i)' <=> InFlight(i)
    BY <1>0, <1>1, <1>2, <1>3, <1>5, <1>8, AnsweredKeepsCore
  <2> QED
    BY <1>0, <1>2, <1>3, <1>8, <2>1
<1> QED
  BY <1>1, <1>6, <1>7, <1>8 DEF Submit

\* What becomes of them when the reader answers a workspace symbol.
LEMMA SymbolEffect ==
    ASSUME RequestInv, NEW id \in Ids, WorkspaceSymbol(id)
    PROVE  \E r \in Received, n \in {Len(requests) + 1} :
              /\ requests' = Append(requests, r) /\ r.id = id /\ r.readView = version
              /\ r.cancelled = FALSE /\ r.answers = << <<"result", version>> >>
              /\ \A i \in Indices : InFlight(i)' <=> InFlight(i)
              /\ ~InFlight(n)'
<1> DEFINE r == RequestState(id, << <<"result", version>> >>, FALSE)
<1>0. PICK n : n = Len(requests) + 1
  OBVIOUS
<1>1. << <<"result", version>> >> \in AtMostOne
  BY DEF AtMostOne, Replies, LockInv, RequestInv
<1>2. /\ r \in Received /\ r.id = id /\ r.readView = version
      /\ r.cancelled = FALSE /\ r.answers = << <<"result", version>> >>
  BY <1>1, ArrivalIsReceived DEF RequestInv
<1>3. requests' = Append(requests, r) /\ UNCHANGED <<reader, worker, queue, requestStates>>
  BY DEF WorkspaceSymbol
<1> HIDE DEF r
<1>4. ~InFlight(n)' /\ \A i \in Indices : InFlight(i)' <=> InFlight(i)
  BY <1>0, <1>2, <1>3, AnsweredKeepsCore DEF CoreInv, RequestInv
<1> QED
  BY <1>0, <1>2, <1>3, <1>4

LEMMA FreshStep ==
    ASSUME FreshIds, RequestInv, FreshInv, [Next]_vars
    PROVE  FreshInv'
<1>0. CoreInv /\ RequestType /\ worker \in [Workers -> [pc : Places, on : Indices \cup {None}]]
  BY WorkerType DEF RequestInv, CoreInv
<1>1. ASSUME NEW id \in Ids, dispatchReadRequest(id) PROVE FreshInv'
  <2>1. PICK r \in Received, n \in {Len(requests) + 1} :
            /\ requests' = Append(requests, r) /\ r.id = id
            /\ \A i \in Indices : InFlight(i)' <=> InFlight(i)
            /\ \A w \in Workers : worker'[w].pc = "finishing" => worker'[w] = worker[w]
    BY <1>1, DispatchEffect
  <2>2. \A i \in Indices : requests[i].id # id
    BY <1>0, <1>1, NewIdIsNew DEF dispatchReadRequest
  <2>3. preCancelled' \subseteq preCancelled /\ id \notin preCancelled' /\ seen' \subseteq seen \cup {id}
    BY <1>1, Remembering DEF dispatchReadRequest, RequestInv, TrackedInv
  <2> QED
    BY <2>1, <2>2, <2>3, ArrivalIsFresh
<1>2. ASSUME NEW id \in Ids, WorkspaceSymbol(id) PROVE FreshInv'
  <2>1. PICK r \in Received, n \in {Len(requests) + 1} :
            /\ requests' = Append(requests, r) /\ r.id = id
            /\ \A i \in Indices : InFlight(i)' <=> InFlight(i)
            /\ ~InFlight(n)'
    BY <1>2, SymbolEffect
  <2>2. \A i \in Indices : requests[i].id # id
    BY <1>0, <1>2, NewIdIsNew DEF WorkspaceSymbol
  <2>3. UNCHANGED <<preCancelled, seen, worker>>
    BY <1>2 DEF WorkspaceSymbol
  <2> QED
    BY <2>1, <2>2, <2>3, ArrivalIsFresh
<1>3. ASSUME NEW id \in Ids, cancelRequest(id) PROVE FreshInv'
  BY <1>3, CancelIsFresh
<1>4. CASE ReceiveEdit \/ withWriteState \/ BeginShutdown \/ UNCHANGED vars
  <2>1. UNCHANGED <<requests, seen, preCancelled, queue, worker>>
    BY <1>4 DEF ReceiveEdit, withWriteState, BeginShutdown, vars
  <2> QED
    BY <2>1, FreshFrame DEF InFlight
<1>5. CASE Drained \/ DrainTimesOut \/ Exit
  <2>1. UNCHANGED <<requests, seen, preCancelled, worker>> /\ queue' = <<>>
    BY <1>5 DEF Drained, DrainTimesOut, Exit, Return
  <2>2. Range(queue') = {}
    BY <2>1 DEF Range
  <2> QED
    BY <2>1, <2>2, FreshFrame DEF InFlight
<1>6. ASSUME NEW w \in Workers, Take(w) PROVE FreshInv'
  <2>1. \A i \in Indices : InFlight(i)' => InFlight(i)
    BY <1>0, <1>6, TakeKeepsCore
  <2>2. \A v \in Workers : worker'[v].pc = "finishing" => worker'[v] = worker[v]
    BY <1>0, <1>6 DEF Take
  <2> QED
    BY <1>6, <2>1, <2>2, FreshFrame DEF Take
<1>7. ASSUME NEW w \in Workers, Skip(w) \/ Finish(w) PROVE FreshInv'
  <2>1. /\ ~Idle(w) /\ RemoveState(worker[w].on)
        /\ worker' = [worker EXCEPT ![w] = [pc |-> "idle", on |-> None]]
        /\ UNCHANGED <<reader, queue, requests, seen, preCancelled>>
    BY <1>7 DEF Skip, Finish, Idle
  <2>2. \A i \in Indices : InFlight(i)' => InFlight(i)
    BY <1>0, <2>1, ReleaseKeepsCore
  <2>3. \A v \in Workers : worker'[v].pc = "finishing" => worker'[v] = worker[v]
    BY <1>0, <2>1
  <2> QED
    BY <2>1, <2>2, <2>3, FreshFrame
<1>8. ASSUME NEW w \in Workers, Start(w) \/ Enter(w) \/ Work(w) \/ Throw(w) PROVE FreshInv'
  <2>1. ~Idle(w) /\ worker[w].pc # "finishing" /\ UNCHANGED <<queue, requests, seen>>
    BY <1>8 DEF Start, Enter, Work, Throw, Idle
  <2>2. /\ UNCHANGED preCancelled
        /\ \E pc \in Places : To(w, pc) /\ (pc = "finishing" => requests[worker[w].on].cancelled)
    <3>1. CASE Start(w)
      BY <3>1 DEF Start, Places
    <3>2. CASE Enter(w)
      <4>1. ProceedUnlessCancelled(w, "working")
        BY <3>2 DEF Enter
      <4> QED
        BY <2>1, <4>1, NoLateFinding DEF Places
    <3>3. CASE Work(w)
      <4>1. ProceedUnlessCancelled(w, "publishing")
        BY <3>3 DEF Work
      <4> QED
        BY <2>1, <4>1, NoLateFinding DEF Places
    <3>4. CASE Throw(w)
      BY <3>4 DEF Throw, Places
    <3> QED
      BY <1>8, <3>1, <3>2, <3>3, <3>4
  <2>3. PICK pc \in Places : To(w, pc) /\ (pc = "finishing" => requests[worker[w].on].cancelled)
    BY <2>2
  <2>4. /\ worker'[w].pc = pc /\ worker'[w].on = worker[w].on
        /\ \A v \in Workers : v # w => worker'[v] = worker[v]
    BY <1>0, <2>3, MoveEffect
  <2>5. \A i : InFlight(i)' <=> InFlight(i)
    BY <2>1, <2>4 DEF InFlight
  <2>6. \A v \in Workers : worker'[v].pc = "finishing" =>
               \/ worker[v].pc = "finishing" /\ worker'[v].on = worker[v].on
               \/ requests[worker'[v].on].cancelled
    BY <2>3, <2>4
  <2> QED
    BY <2>1, <2>2, <2>5, <2>6, FreshFrame
<1>9. ASSUME NEW w \in Workers, Publish(w) \/ Fail(w) PROVE FreshInv'
  <2>1. /\ ~Idle(w) /\ worker[w].pc # "finishing" /\ To(w, "finishing")
        /\ UNCHANGED <<seen, preCancelled, queue>>
    BY <1>9 DEF Publish, Fail, Idle
  <2>2. worker[w].on \in Indices
    BY <2>1, AtWork DEF RequestInv
  <2>3. <<"result", requests[worker[w].on].readView>> \in Replies /\ <<"failed">> \in Replies
    BY <1>0, <2>2, IndicesAreNat DEF Received, Replies
  <2>4. \E a \in Replies : Answer(worker[w].on, a)
    BY <1>9, <2>3 DEF Publish, Fail
  <2> QED
    BY <2>1, <2>4, ReplyIsFresh
<1> QED
  BY <1>1, <1>2, <1>3, <1>4, <1>5, <1>6, <1>7, <1>8, <1>9 DEF Next, ReaderStep, WorkerStep, Rest

--------------------------------------------------------------------------------
\* LspService, as the mapping of LspRequests sees it.

Rec == [i \in Indices |-> [id |-> requests[i].id, view |-> requests[i].readView]]
Out == [i \in Indices |-> Outcome(i)]
Exc == {i \in Indices : requests[i].cancelled /\ Outcome(i) = <<"open">>}
Ear == {id \in preCancelled : \A i \in Indices : requests[i].id # id}

LEMMA FunctionIsSequence ==
    ASSUME NEW n \in Nat, NEW f, f = [i \in 1..n |-> f[i]]
    PROVE  f \in Seq({f[i] : i \in 1..n}) /\ Len(f) = n
<1> DEFINE S == {f[i] : i \in 1..n}
<1>1. f \in [1..n -> S]
  OBVIOUS
<1> HIDE DEF S
<1>2. f \in Seq(S)
  BY <1>1, SeqDef
<1>3. Len(f) \in Nat /\ 1..n = 1..Len(f)
  BY <1>1, <1>2, LenProperties
<1> QED
  BY <1>2, <1>3 DEF S

LEMMA FunctionAppends ==
    ASSUME NEW n \in Nat, NEW f, f = [i \in 1..n |-> f[i]], NEW g, g = [i \in 1..(n + 1) |-> g[i]],
           \A i \in 1..n : g[i] = f[i]
    PROVE  g = Append(f, g[n + 1])
<1> DEFINE S == {g[i] : i \in 1..(n + 1)}
<1>1. g \in Seq(S) /\ Len(g) = n + 1
  BY FunctionIsSequence
<1>2. f \in [1..n -> S]
  <2>1. \A i \in 1..n : i \in 1..(n + 1) /\ f[i] \in S
    OBVIOUS
  <2> HIDE DEF S
  <2> QED
    BY <2>1
<1>3. g[n + 1] \in S
  OBVIOUS
<1> HIDE DEF S
<1>4. f \in Seq(S)
  BY <1>2, SeqDef
<1>5. Len(f) = n
  <2>1. Len(f) \in Nat /\ 1..n = 1..Len(f)
    BY <1>2, <1>4, LenProperties
  <2> QED
    BY <2>1
<1>6. /\ Append(f, g[n + 1]) \in Seq(S) /\ Len(Append(f, g[n + 1])) = n + 1
      /\ \A i \in 1..n : Append(f, g[n + 1])[i] = f[i]
      /\ Append(f, g[n + 1])[n + 1] = g[n + 1]
  BY <1>3, <1>4, <1>5, AppendProperties
<1>7. \A i \in 1..Len(g) : g[i] = Append(f, g[n + 1])[i]
  <2>1. \A i \in 1..(n + 1) : i \in 1..n \/ i = n + 1
    OBVIOUS
  <2> QED
    BY <1>1, <1>6, <2>1
<1> QED
  BY <1>1, <1>6, <1>7, SeqEqual

\* Requests as the service sees them.
LEMMA SeenByTheService ==
    RequestType => /\ Len(Rec) = Len(requests) /\ Len(Out) = Len(requests)
                   /\ \A i \in Indices : /\ Rec[i].id = requests[i].id /\ Rec[i].view = requests[i].readView
                                         /\ Out[i] = Outcome(i)
<1> SUFFICES ASSUME RequestType
             PROVE  /\ Len(Rec) = Len(requests) /\ Len(Out) = Len(requests)
                    /\ \A i \in Indices : /\ Rec[i].id = requests[i].id /\ Rec[i].view = requests[i].readView
                                          /\ Out[i] = Outcome(i)
  OBVIOUS
<1>1. Len(requests) \in Nat /\ Indices = 1..Len(requests)
  BY IndicesAreNat
<1>2. /\ Rec = [i \in 1..Len(requests) |-> Rec[i]] /\ Out = [i \in 1..Len(requests) |-> Out[i]]
  BY <1>1 DEF Rec, Out
<1> QED
  BY <1>1, <1>2, FunctionIsSequence DEF Rec, Out

\* What has become of a request.
OutcomesFollow ==
    \A i \in Indices :
        /\ requests[i].answers = <<>> => Outcome(i) = IF InFlight(i) THEN <<"open">> ELSE <<"dropped">>
        /\ \A a \in Replies : requests[i].answers = <<a>> => Outcome(i) = a
        /\ Outcome(i) = <<"open">> => InFlight(i) /\ requests[i].answers = <<>>

LEMMA Outcomes == RequestType => OutcomesFollow
<1> SUFFICES ASSUME RequestType, NEW i \in Indices
             PROVE  /\ requests[i].answers = <<>> => Outcome(i) = IF InFlight(i) THEN <<"open">> ELSE <<"dropped">>
                    /\ \A a \in Replies : requests[i].answers = <<a>> => Outcome(i) = a
                    /\ Outcome(i) = <<"open">> => InFlight(i) /\ requests[i].answers = <<>>
  BY DEF OutcomesFollow
<1>1. requests[i].answers \in AtMostOne
  BY IndicesAreNat DEF Received
<1>2. CASE requests[i].answers = <<>>
  <2>1. Len(requests[i].answers) = 0
    BY <1>2
  <2>2. Outcome(i) = IF InFlight(i) THEN <<"open">> ELSE <<"dropped">>
    BY <2>1 DEF Outcome
  <2> QED
    BY <1>2, <2>2
<1>3. ASSUME NEW a \in Replies, requests[i].answers = <<a>>
      PROVE  Outcome(i) = a /\ a # <<"open">> /\ requests[i].answers # <<>>
  <2>1. Len(requests[i].answers) = 1 /\ requests[i].answers[1] = a
    BY <1>3
  <2>2. Outcome(i) = a
    BY <2>1 DEF Outcome
  <2> QED
    BY <1>3, <2>2 DEF Replies
<1> QED
  BY <1>1, <1>2, <1>3 DEF AtMostOne

LEMMA SameOutcome ==
    ASSUME NEW i, requests'[i].answers = requests[i].answers, InFlight(i)' <=> InFlight(i)
    PROVE  Outcome(i)' = Outcome(i)
  BY DEF Outcome

\* A step that no client can see.
LEMMA ServiceStutter ==
    ASSUME UNCHANGED version, Rec' = Rec, Out' = Out, Exc' = Exc, Ear' = Ear,
           (reader # "gone")' <=> reader # "gone"
    PROVE  UNCHANGED Service!svars
  BY DEF Service!svars, Rec, Out, Exc, Ear

LEMMA RequestsStutter ==
    ASSUME RequestType, UNCHANGED <<version, requests, preCancelled>>,
           reader' # "gone" <=> reader # "gone",
           \A i \in Indices : Outcome(i)' = Outcome(i)
    PROVE  UNCHANGED Service!svars
<1>1. Indices' = Indices
  BY DEF Indices
<1>2. Rec' = Rec
  BY <1>1 DEF Rec
<1>3. Out' = Out
  BY <1>1 DEF Out
<1>4. Exc' = Exc
  BY <1>1 DEF Exc
<1>5. Ear' = Ear
  BY <1>1 DEF Ear
<1> QED
  BY <1>2, <1>3, <1>4, <1>5, ServiceStutter

\* The actions of LspService, of the mapping.
LEMMA ServiceReceive ==
    ASSUME reader # "gone", (reader # "gone")', NEW id, NEW o \in {<<"open">>, <<"refused">>, <<"result", version>>},
           Rec' = Append(Rec, [id |-> id, view |-> version]), Out' = Append(Out, o),
           Exc' = Exc \/ (id \in Ear /\ o = <<"open">> /\ Exc' = Exc \cup {Len(Rec) + 1}),
           Ear' = Ear \ {id}, UNCHANGED version
    PROVE  Service!Receive(id, o)
  BY DEF Service!Receive, Service!Open, Service!Refused, Service!Result, Rec, Out, Exc, Ear

LEMMA ServiceSettle ==
    ASSUME NEW i, Out[i] = <<"open">>,
           NEW o, o \in {<<"result", Rec[i].view>>, <<"failed">>} \/ (o = <<"dropped">> /\ i \in Exc),
           Out' = [Out EXCEPT ![i] = o], Exc' = Exc \ {i}, Rec' = Rec, Ear' = Ear,
           UNCHANGED version, (reader # "gone")' <=> reader # "gone"
    PROVE  Service!Settle(i, o)
  BY DEF Service!Settle, Service!Open, Service!Result, Service!Failed, Service!Dropped, Rec, Out, Exc, Ear

\* A request arrives, and is open or answered.
LEMMA ArrivalIsReceive ==
    ASSUME RequestInv, RequestInv', reader = "reading", UNCHANGED <<reader, version>>,
           NEW r \in Received, NEW n, n = Len(requests) + 1, requests' = Append(requests, r),
           r.readView = version, \A i \in Indices : InFlight(i)' <=> InFlight(i),
           NEW o \in {<<"open">>, <<"refused">>, <<"result", version>>}, Outcome(n)' = o,
           r.cancelled /\ o = <<"open">> => r.id \in Ear, Ear' = Ear \ {r.id}
    PROVE  Service!Receive(r.id, o)
<1>1. /\ Len(requests') = n /\ Indices' = Indices \cup {n} /\ n \notin Indices
      /\ requests'[n] = r /\ \A i \in Indices : requests'[i] = requests[i]
  BY ArrivalEffect DEF RequestInv
<1>2. /\ Len(requests) \in Nat /\ n \in Nat /\ Indices = 1..Len(requests) /\ Indices' = 1..n
      /\ Len(Rec) = Len(requests)
  BY <1>1, IndicesAreNat, SeenByTheService DEF RequestInv, Indices
<1>3. \A i \in Indices : Outcome(i)' = Outcome(i)
  BY <1>1, SameOutcome
<1>4. Rec' = Append(Rec, [id |-> r.id, view |-> version])
  <2>1. Rec = [i \in 1..Len(requests) |-> Rec[i]]
    BY <1>2 DEF Rec
  <2>2. Rec' = [i \in 1..n |-> Rec'[i]] /\ Rec'[n] = [id |-> r.id, view |-> version]
    BY <1>1, <1>2 DEF Rec
  <2>3. \A i \in 1..Len(requests) : Rec'[i] = Rec[i]
    BY <1>1, <1>2 DEF Rec
  <2> QED
    BY <1>2, <2>1, <2>2, <2>3, FunctionAppends
<1>5. Out' = Append(Out, o)
  <2>1. Out = [i \in 1..Len(requests) |-> Out[i]]
    BY <1>2 DEF Out
  <2>2. Out' = [i \in 1..n |-> Out'[i]] /\ Out'[n] = o
    BY <1>1, <1>2 DEF Out
  <2>3. \A i \in 1..Len(requests) : Out'[i] = Out[i]
    BY <1>1, <1>2, <1>3 DEF Out
  <2> QED
    BY <1>2, <2>1, <2>2, <2>3, FunctionAppends
<1>6. Exc' = Exc \/ (r.id \in Ear /\ o = <<"open">> /\ Exc' = Exc \cup {Len(Rec) + 1})
  <2>1. \A i \in Indices : i \in Exc' <=> i \in Exc
    BY <1>1, <1>3 DEF Exc
  <2>2. n \in Exc' <=> r.cancelled /\ o = <<"open">>
    BY <1>1 DEF Exc
  <2>3. Exc \subseteq Indices /\ Exc' \subseteq Indices \cup {n}
    BY <1>1 DEF Exc
  <2>4. CASE r.cancelled /\ o = <<"open">>
    BY <1>2, <2>1, <2>2, <2>3, <2>4
  <2>5. CASE ~(r.cancelled /\ o = <<"open">>)
    BY <2>1, <2>2, <2>3, <2>5
  <2> QED
    BY <2>4, <2>5
<1> QED
  BY <1>4, <1>5, <1>6, ServiceReceive

\* A thread answers its request, or passes over it.
LEMMA OutcomeIsSettle ==
    ASSUME RequestInv, RequestInv', NEW i \in Indices, Outcome(i) = <<"open">>,
           NEW o, Outcome(i)' = o, o # <<"open">>,
           \/ o \in {<<"result", requests[i].readView>>, <<"failed">>}
           \/ o = <<"dropped">> /\ requests[i].cancelled,
           Indices' = Indices, UNCHANGED <<version, preCancelled, reader>>,
           \A j \in Indices : /\ requests'[j].id = requests[j].id
                              /\ requests'[j].readView = requests[j].readView
                              /\ requests'[j].cancelled = requests[j].cancelled
                              /\ j # i => Outcome(j)' = Outcome(j)
    PROVE  Service!Settle(i, o)
<1>1. Out[i] = <<"open">> /\ Rec[i].view = requests[i].readView
  BY SeenByTheService DEF RequestInv
<1>2. Out' = [Out EXCEPT ![i] = o]
  BY DEF Out
<1>3. Rec' = Rec /\ Ear' = Ear
  BY DEF Rec, Ear
<1>4. Exc' = Exc \ {i}
  BY DEF Exc
<1>5. requests[i].cancelled => i \in Exc
  BY DEF Exc
<1> QED
  BY <1>1, <1>2, <1>3, <1>4, <1>5, ServiceSettle

\* The service's step for a request that arrives.
LEMMA ArrivalRefines ==
    ASSUME FreshIds, RequestInv, RequestInv', FreshInv, NEW id \in Ids,
           dispatchReadRequest(id) \/ WorkspaceSymbol(id)
    PROVE  Service!SNext
<1>1. /\ reader = "reading" /\ UNCHANGED <<reader, version>> /\ preCancelled' \in {preCancelled, preCancelled \ {id}}
      /\ version \in 0..1
  BY DEF dispatchReadRequest, WorkspaceSymbol, CanSend, RequestInv, LockInv
<1>2. \A i \in Indices : requests[i].id # id
  BY NewIdIsNew DEF dispatchReadRequest, WorkspaceSymbol, RequestInv
<1>3. \E r \in Received, n \in {Len(requests) + 1} :
         /\ requests' = Append(requests, r) /\ r.id = id /\ r.readView = version
         /\ r.cancelled => id \in preCancelled
         /\ \A i \in Indices : InFlight(i)' <=> InFlight(i)
         /\ \/ InFlight(n)' /\ r.answers = <<>>
            \/ r.answers \in {<< <<"refused">> >>, << <<"result", version>> >>}
  BY DispatchEffect, SymbolEffect
<1>4. PICK r \in Received, n \in {Len(requests) + 1} :
         /\ requests' = Append(requests, r) /\ r.id = id /\ r.readView = version
         /\ r.cancelled => id \in preCancelled
         /\ \A i \in Indices : InFlight(i)' <=> InFlight(i)
         /\ \/ InFlight(n)' /\ r.answers = <<>>
            \/ r.answers \in {<< <<"refused">> >>, << <<"result", version>> >>}
  BY <1>3
<1>5. Indices' = Indices \cup {n} /\ requests'[n] = r /\ \A i \in Indices : requests'[i] = requests[i]
  BY <1>4, ArrivalEffect DEF RequestInv
<1>6. \E o \in {<<"open">>, <<"refused">>, <<"result", version>>} : Outcome(n)' = o
  <2>1. RequestType'
    BY DEF RequestInv
  <2>2. OutcomesFollow'
    BY <2>1, Outcomes, PTL
  <2>3. <<"refused">> \in Replies /\ <<"result", version>> \in Replies
    BY <1>1 DEF Replies
  <2>4. CASE InFlight(n)' /\ r.answers = <<>>
    <3>1. Outcome(n)' = <<"open">>
      BY <1>5, <2>2, <2>4 DEF OutcomesFollow
    <3> QED
      BY <3>1
  <2>5. ASSUME NEW a \in Replies, r.answers = <<a>> PROVE Outcome(n)' = a
    BY <1>5, <2>2, <2>5 DEF OutcomesFollow
  <2> QED
    BY <1>4, <2>3, <2>4, <2>5
<1>7. PICK o \in {<<"open">>, <<"refused">>, <<"result", version>>} : Outcome(n)' = o
  BY <1>6
<1>8. Ear' = Ear \ {id}
  BY <1>1, <1>4, <1>5 DEF Ear
<1>9. r.cancelled => id \in Ear
  BY <1>2, <1>4 DEF Ear
<1>10. Service!Receive(id, o)
  BY <1>1, <1>4, <1>7, <1>8, <1>9, ArrivalIsReceive
<1> QED
  BY <1>10 DEF Service!SNext, Service!Open, Service!Refused, Service!Result

LEMMA ServiceCancel ==
    ASSUME reader # "gone", (reader # "gone")', NEW id,
           NEW L, L = {i \in 1..Len(Rec) : Rec[i].id = id /\ \A j \in i+1..Len(Rec) : Rec[j].id # id},
           Exc' = Exc \cup {i \in L : Out[i] = <<"open">>},
           NEW kept \in SUBSET Ear, Ear' = IF L = {} THEN kept \cup {id} ELSE kept,
           Rec' = Rec, Out' = Out, UNCHANGED version
    PROVE  Service!Cancel(id)
  BY DEF Service!Cancel, Service!Last, Service!Open, Rec, Out, Exc, Ear

\* The service's step for a cancellation.
LEMMA CancelRefines ==
    ASSUME RequestInv, FreshInv, NEW id \in Ids, cancelRequest(id)
    PROVE  Service!Cancel(id)
<1>1. UNCHANGED <<reader, version, seen, queue, worker>> /\ reader = "reading" /\ RequestType
  BY DEF cancelRequest, RequestInv
<1>2. \A i : InFlight(i)' <=> InFlight(i)
  BY <1>1 DEF InFlight
<1>3. /\ Len(requests) \in Nat /\ Indices = 1..Len(requests) /\ Len(Rec) = Len(requests)
      /\ \A i \in Indices : Rec[i].id = requests[i].id /\ Out[i] = Outcome(i)
  BY <1>1, IndicesAreNat, SeenByTheService
<1>4. \A i \in Indices : \A j \in i+1..Len(requests) : j \in Indices /\ j # i
  BY <1>3
<1>5. PICK L : L = {i \in 1..Len(Rec) : Rec[i].id = id /\ \A j \in i+1..Len(Rec) : Rec[j].id # id}
  OBVIOUS
<1>6. \A i : i \in L <=> i \in Indices /\ requests[i].id = id
  <2>1. ASSUME NEW i \in Indices, requests[i].id = id, NEW j \in i+1..Len(requests) PROVE Rec[j].id # id
    <3>1. j \in Indices /\ j # i /\ Rec[j].id = requests[j].id
      BY <1>3, <1>4
    <3> QED
      BY <2>1, <3>1 DEF FreshInv
  <2> QED
    BY <1>3, <1>5, <2>1
<1>7. CASE requestStates[id] = None
  <2>1. UNCHANGED requests /\ preCancelled' \in IF id \in seen THEN {preCancelled} ELSE rememberBounded(preCancelled, id)
    BY <1>7 DEF cancelRequest
  <2>2. Indices' = Indices /\ Rec' = Rec
    BY <2>1 DEF Indices, Rec
  <2>3. \A i \in Indices : Outcome(i)' = Outcome(i)
    BY <1>2, <2>1, SameOutcome
  <2>4. Out' = Out /\ Exc' = Exc
    BY <2>1, <2>2, <2>3 DEF Out, Exc
  <2>5. \A i \in L : Out[i] = <<"open">> => i \in Exc
    <3> SUFFICES ASSUME NEW i \in L, Out[i] = <<"open">>, ~requests[i].cancelled PROVE FALSE
      BY <1>3, <1>6 DEF Exc
    <3>1. i \in Indices /\ requests[i].id = id /\ InFlight(i)
      BY <1>1, <1>3, <1>6, Outcomes DEF OutcomesFollow
    <3>2. \A j \in i+1..Len(requests) : requests[j].id # requests[i].id
      BY <1>4, <3>1 DEF FreshInv
    <3>3. requestStates[id] = i
      BY <1>1, <3>1, <3>2 DEF RequestInv, StatesInv
    <3> QED
      BY <1>1, <1>7, <3>1, <3>3, IndicesAreNat
  <2>6. Exc' = Exc \cup {i \in L : Out[i] = <<"open">>}
    BY <2>4, <2>5
  <2>7. CASE L = {}
    <3>1. id \notin seen
      BY <1>6, <2>7 DEF FreshInv
    <3>2. id \in preCancelled' /\ preCancelled' \subseteq preCancelled \cup {id}
      BY <2>1, <3>1, Remembering DEF RequestInv, TrackedInv
    <3>3. id \in Ear' /\ Ear' \subseteq Ear \cup {id}
      BY <1>6, <2>1, <2>2, <2>7, <3>2 DEF Ear
    <3>4. PICK kept \in SUBSET Ear : Ear' = kept \cup {id}
      <4>1. Ear' \cap Ear \in SUBSET Ear /\ Ear' = (Ear' \cap Ear) \cup {id}
        BY <3>3
      <4> QED
        BY <4>1
    <3> QED
      BY <1>1, <1>5, <2>2, <2>4, <2>6, <2>7, <3>4, ServiceCancel
  <2>8. CASE L # {}
    <3>1. PICK i \in Indices : requests[i].id = id
      BY <1>6, <2>8
    <3>2. preCancelled' \subseteq preCancelled \cup {id}
      BY <2>1, Remembering DEF RequestInv, TrackedInv
    <3>3. Ear' \in SUBSET Ear
      BY <2>1, <2>2, <3>1, <3>2 DEF Ear
    <3> QED
      BY <1>1, <1>5, <2>2, <2>4, <2>6, <2>8, <3>3, ServiceCancel
  <2> QED
    BY <2>7, <2>8
<1>8. CASE requestStates[id] # None
  <2>1. PICK c \in Indices : c = requestStates[id]
    BY <1>1, <1>8 DEF RequestType
  <2>2. requests' = [requests EXCEPT ![c].cancelled = TRUE] /\ UNCHANGED preCancelled
    BY <1>8, <2>1 DEF cancelRequest
  <2>3. /\ Indices' = Indices /\ requests'[c].cancelled = TRUE
        /\ \A j \in Indices : /\ j # c => requests'[j] = requests[j]
                              /\ requests'[j].id = requests[j].id
                              /\ requests'[j].readView = requests[j].readView
                              /\ requests'[j].answers = requests[j].answers
    BY <1>1, <2>2, CancelledEffect
  <2>4. \A i : i \in L <=> i = c
    BY <1>1, <1>6, <1>8, <2>1 DEF RequestInv, StatesInv, FreshInv
  <2>5. \A i \in Indices : Outcome(i)' = Outcome(i)
    BY <1>2, <2>3, SameOutcome
  <2>6. Rec' = Rec /\ Out' = Out
    BY <2>3, <2>5 DEF Rec, Out
  <2>7. Ear' = Ear
    BY <2>2, <2>3 DEF Ear
  <2>8. Exc' = Exc \cup {i \in L : Out[i] = <<"open">>}
    <3>1. \A i \in Indices : i \in Exc' <=> i \in Exc \/ (i = c /\ Outcome(i) = <<"open">>)
      BY <2>3, <2>5 DEF Exc
    <3>2. Exc \subseteq Indices /\ Exc' \subseteq Indices
      BY <2>3 DEF Exc
    <3>3. \A i \in Indices : Out[i] = Outcome(i)
      BY <1>3
    <3> QED
      BY <2>4, <3>1, <3>2, <3>3
  <2>9. L # {} /\ Ear' \in SUBSET Ear
    BY <2>4, <2>7
  <2> QED
    BY <1>1, <1>5, <2>6, <2>8, <2>9, ServiceCancel
<1> QED
  BY <1>7, <1>8

\* The service's step for the end.
LEMMA ServiceEnd ==
    ASSUME reader # "gone", reader' = "gone", UNCHANGED version, Rec' = Rec, Ear' = Ear,
           NEW lost \in SUBSET {i \in 1..Len(Rec) : Out[i] = <<"open">>},
           Out' = [i \in 1..Len(Rec) |-> IF i \in lost THEN <<"dropped">> ELSE Out[i]],
           Exc' = Exc \ lost
    PROVE  Service!End
  BY DEF Service!End, Service!Open, Service!Dropped, Rec, Out, Exc, Ear

LEMMA ReturnRefines ==
    ASSUME RequestInv, RequestInv', reader # "gone", Return
    PROVE  Service!End
<1>1. /\ reader' = "gone" /\ queue' = <<>> /\ UNCHANGED <<version, requests, preCancelled, worker>>
      /\ RequestType /\ RequestType'
  BY DEF Return, RequestInv
<1>2. Indices' = Indices /\ Rec' = Rec /\ Ear' = Ear
  BY <1>1 DEF Indices, Rec, Ear
<1>3. /\ Len(requests) \in Nat /\ Indices = 1..Len(Rec) /\ \A i \in Indices : Out[i] = Outcome(i)
  BY <1>1, IndicesAreNat, SeenByTheService
<1>4. PICK lost : lost = Range(queue)
  OBVIOUS
<1>5. \A i : i \in lost <=> \E k \in 1..Len(queue) : queue[k] = i
  BY <1>1, <1>4, InQueue
<1>6. \A i \in lost : i \in Indices /\ requests[i].answers = <<>> /\ InFlight(i)
  BY <1>1, <1>4, <1>5, InQueue DEF RequestInv, AnswerInv, InFlight
<1>7. \A i \in lost : Outcome(i) = <<"open">>
  BY <1>1, <1>6, Outcomes DEF OutcomesFollow
<1>8. Range(queue') = {}
  BY <1>1 DEF Range
<1>9. \A i : InFlight(i)' <=> \E w \in Workers : worker[w].on = i
  BY <1>1, <1>8 DEF InFlight
<1>10. \A i \in lost : ~InFlight(i)'
  BY <1>5, <1>9 DEF RequestInv, PlaceInv
<1>11. \A i \in lost : Outcome(i)' = <<"dropped">>
  <2>1. OutcomesFollow'
    BY <1>1, Outcomes, PTL
  <2> QED
    BY <1>1, <1>2, <1>6, <1>10, <2>1 DEF OutcomesFollow
<1>12. ASSUME NEW i \in Indices, i \notin lost PROVE Outcome(i)' = Outcome(i)
  <2>1. InFlight(i)' <=> InFlight(i)
    BY <1>4, <1>9, <1>12 DEF InFlight
  <2> QED
    BY <1>1, <2>1, SameOutcome
<1>13. Out' = [i \in 1..Len(Rec) |-> IF i \in lost THEN <<"dropped">> ELSE Out[i]]
  BY <1>2, <1>3, <1>11, <1>12 DEF Out
<1>14. Exc' = Exc \ lost
  BY <1>1, <1>2, <1>11, <1>12 DEF Exc
<1>15. lost \in SUBSET {i \in 1..Len(Rec) : Out[i] = <<"open">>}
  BY <1>3, <1>6, <1>7
<1> QED
  BY <1>1, <1>2, <1>13, <1>14, <1>15, ServiceEnd

\* A thread goes on with its request: nothing a client could see.
LEMMA WorkIsStutter ==
    ASSUME RequestInv, FreshInv, NEW w \in Workers,
           Take(w) \/ Start(w) \/ Enter(w) \/ Work(w) \/ Throw(w)
    PROVE  UNCHANGED Service!svars
<1>0. RequestType /\ CoreInv
  BY DEF RequestInv, CoreInv
<1>1. UNCHANGED <<reader, version, requests>>
  BY DEF Take, Start, Enter, Work, Throw
<1>2. CASE Take(w)
  <2>1. \A i \in Indices : InFlight(i)' <=> InFlight(i)
    BY <1>0, <1>2, TakeKeepsCore
  <2>2. \A i \in Indices : Outcome(i)' = Outcome(i)
    BY <1>1, <2>1, SameOutcome
  <2>3. UNCHANGED preCancelled
    BY <1>2 DEF Take
  <2> QED
    BY <1>0, <1>1, <2>2, <2>3, RequestsStutter
<1>3. CASE Start(w) \/ Enter(w) \/ Work(w) \/ Throw(w)
  <2>1. ~Idle(w) /\ UNCHANGED queue
    BY <1>3 DEF Start, Enter, Work, Throw, Idle
  <2>2. UNCHANGED preCancelled /\ \E pc \in Places : To(w, pc)
    <3>1. CASE Start(w)
      BY <3>1 DEF Start, Places
    <3>2. CASE Enter(w)
      <4>1. ProceedUnlessCancelled(w, "working")
        BY <3>2 DEF Enter
      <4> QED
        BY <2>1, <4>1, NoLateFinding DEF Places
    <3>3. CASE Work(w)
      <4>1. ProceedUnlessCancelled(w, "publishing")
        BY <3>3 DEF Work
      <4> QED
        BY <2>1, <4>1, NoLateFinding DEF Places
    <3>4. CASE Throw(w)
      BY <3>4 DEF Throw, Places
    <3> QED
      BY <1>3, <3>1, <3>2, <3>3, <3>4
  <2>3. \A v \in Workers : worker'[v].on = worker[v].on
    BY <1>0, <2>2, MoveEffect
  <2>4. \A i : InFlight(i)' <=> InFlight(i)
    BY <2>1, <2>3 DEF InFlight
  <2>5. \A i \in Indices : Outcome(i)' = Outcome(i)
    BY <1>1, <2>4, SameOutcome
  <2> QED
    BY <1>0, <1>1, <2>2, <2>5, RequestsStutter
<1> QED
  BY <1>2, <1>3

\* A thread answers.
LEMMA ReplyRefines ==
    ASSUME RequestInv, RequestInv', NEW w \in Workers, Publish(w) \/ Fail(w)
    PROVE  \E i \in Indices : \E o \in {<<"result", requests[i].readView>>, <<"failed">>} : Service!Settle(i, o)
<1>0. RequestType /\ RequestType'
  BY DEF RequestInv
<1>1. /\ ~Idle(w) /\ worker[w].pc # "finishing" /\ To(w, "finishing")
      /\ UNCHANGED <<reader, version, preCancelled, queue>>
  BY DEF Publish, Fail, Idle
<1>2. PICK i \in Indices : i = worker[w].on
  BY <1>1, AtWork DEF RequestInv
<1>3. requests[i].answers = <<>> /\ InFlight(i)
  BY <1>1, <1>2 DEF RequestInv, AnswerInv, InFlight
<1>4. PICK o \in {<<"result", requests[i].readView>>, <<"failed">>} : Answer(i, o)
  BY <1>2 DEF Publish, Fail
<1>5. o \in Replies /\ o # <<"open">>
  BY <1>0, <1>4, IndicesAreNat DEF Received, Replies
<1>6. /\ Indices' = Indices /\ requests'[i].answers = <<o>>
      /\ \A j \in Indices : /\ j # i => requests'[j] = requests[j]
                            /\ requests'[j].id = requests[j].id
                            /\ requests'[j].readView = requests[j].readView
                            /\ requests'[j].cancelled = requests[j].cancelled
  BY <1>0, <1>3, <1>4, <1>5, AnswerEffect
<1>7. \A v \in Workers : worker'[v].on = worker[v].on
  BY <1>0, <1>1, MoveEffect DEF Places
<1>8. \A j : InFlight(j)' <=> InFlight(j)
  BY <1>1, <1>7 DEF InFlight
<1>9. Outcome(i) = <<"open">>
  BY <1>0, <1>3, Outcomes DEF OutcomesFollow
<1>10. Outcome(i)' = o
  <2>1. OutcomesFollow'
    BY <1>0, Outcomes, PTL
  <2> QED
    BY <1>5, <1>6, <2>1 DEF OutcomesFollow
<1>11. \A j \in Indices : j # i => Outcome(j)' = Outcome(j)
  BY <1>6, <1>8, SameOutcome
<1>12. Service!Settle(i, o)
  BY <1>1, <1>4, <1>5, <1>6, <1>9, <1>10, <1>11, OutcomeIsSettle
<1> QED
  BY <1>12

\* A thread is done with its request: an answered one stays answered, another
\* one was cancelled and is dropped.
LEMMA ReleaseRefines ==
    ASSUME RequestInv, RequestInv', FreshInv, NEW w \in Workers, Skip(w) \/ Finish(w)
    PROVE  \/ UNCHANGED Service!svars
           \/ \E i \in Indices : Service!Settle(i, <<"dropped">>)
<1>0. RequestType /\ RequestType' /\ CoreInv
  BY DEF RequestInv, CoreInv
<1>1. /\ ~Idle(w) /\ RemoveState(worker[w].on)
      /\ worker' = [worker EXCEPT ![w] = [pc |-> "idle", on |-> None]]
      /\ UNCHANGED <<reader, version, queue, requests, preCancelled>>
  BY DEF Skip, Finish, Idle
<1>2. PICK i \in Indices : i = worker[w].on
  BY <1>1, AtWork DEF RequestInv
<1>3. \A j \in Indices : InFlight(j)' <=> InFlight(j) /\ j # i
  BY <1>0, <1>1, <1>2, ReleaseKeepsCore
<1>4. Indices' = Indices
  BY <1>1 DEF Indices
<1>5. OutcomesFollow /\ OutcomesFollow'
  BY <1>0, Outcomes, PTL
<1>6. \A j \in Indices : j # i => Outcome(j)' = Outcome(j)
  BY <1>1, <1>3, SameOutcome
<1>7. CASE requests[i].answers = <<>>
  <2>1. InFlight(i) /\ ~InFlight(i)'
    BY <1>2, <1>3 DEF InFlight
  <2>2. Outcome(i) = <<"open">> /\ Outcome(i)' = <<"dropped">>
    BY <1>1, <1>4, <1>5, <1>7, <2>1 DEF OutcomesFollow
  <2>3. requests[i].cancelled
    BY <1>2, <1>7 DEF Skip, Finish, FreshInv
  <2>4. Service!Settle(i, <<"dropped">>)
    BY <1>1, <1>4, <1>6, <2>2, <2>3, OutcomeIsSettle
  <2> QED
    BY <2>4
<1>8. CASE requests[i].answers # <<>>
  <2>1. PICK a \in Replies : requests[i].answers = <<a>>
    BY <1>0, <1>8, IndicesAreNat DEF Received, AtMostOne
  <2>2. Outcome(i) = a /\ Outcome(i)' = a
    BY <1>1, <1>4, <1>5, <2>1 DEF OutcomesFollow
  <2> QED
    BY <1>0, <1>1, <1>6, <2>2, RequestsStutter
<1> QED
  BY <1>7, <1>8

LEMMA ServiceChange ==
    ASSUME reader # "gone", (reader # "gone")', Rec' = Rec, Out' = Out, Exc' = Exc, Ear' = Ear
    PROVE  Service!Change(version')
  BY DEF Service!Change, Rec, Out, Exc, Ear

LEMMA ServiceStep ==
    ASSUME FreshIds, RequestInv, RequestInv', FreshInv, [Next]_vars
    PROVE  [Service!SNext]_Service!svars
<1>0. RequestType /\ Len(Rec) = Len(requests) /\ Indices = 1..Len(requests)
      /\ \A i \in Indices : Rec[i].view = requests[i].readView
  BY SeenByTheService, IndicesAreNat DEF RequestInv
<1>1. ASSUME NEW id \in Ids, dispatchReadRequest(id) \/ WorkspaceSymbol(id) PROVE Service!SNext
  BY <1>1, ArrivalRefines
<1>2. ASSUME NEW id \in Ids, cancelRequest(id) PROVE Service!SNext
  <2>1. Service!Cancel(id)
    BY <1>2, CancelRefines
  <2> QED
    BY <2>1 DEF Service!SNext
<1>3. CASE ReceiveEdit \/ BeginShutdown \/ UNCHANGED vars
  <2>1. UNCHANGED <<version, requests, preCancelled, queue, worker>> /\ (reader' # "gone" <=> reader # "gone")
    BY <1>3 DEF ReceiveEdit, BeginShutdown, vars
  <2>2. \A i : InFlight(i)' <=> InFlight(i)
    BY <2>1 DEF InFlight
  <2>3. \A i \in Indices : Outcome(i)' = Outcome(i)
    BY <2>1, <2>2, SameOutcome
  <2> QED
    BY <1>0, <2>1, <2>3, RequestsStutter
<1>4. CASE withWriteState
  <2>1. /\ reader = "writing" /\ reader' = "reading"
        /\ UNCHANGED <<requests, preCancelled, queue, worker>>
    BY <1>4 DEF withWriteState
  <2>2. \A i : InFlight(i)' <=> InFlight(i)
    BY <2>1 DEF InFlight
  <2>3. \A i \in Indices : Outcome(i)' = Outcome(i)
    BY <2>1, <2>2, SameOutcome
  <2>4. Indices' = Indices
    BY <2>1 DEF Indices
  <2>5. Rec' = Rec /\ Out' = Out /\ Exc' = Exc /\ Ear' = Ear
    BY <2>1, <2>3, <2>4 DEF Rec, Out, Exc, Ear
  <2>6. Service!Change(version')
    BY <2>1, <2>5, ServiceChange
  <2>7. version' \in 0..1
    BY DEF RequestInv, LockInv
  <2> QED
    BY <2>6, <2>7 DEF Service!SNext
<1>5. CASE Drained \/ DrainTimesOut \/ Exit
  <2>1. reader # "gone" /\ Return
    BY <1>5 DEF Drained, DrainTimesOut, Exit
  <2>2. Service!End
    BY <2>1, ReturnRefines
  <2> QED
    BY <2>2 DEF Service!SNext
<1>6. ASSUME NEW w \in Workers, Take(w) \/ Start(w) \/ Enter(w) \/ Work(w) \/ Throw(w)
      PROVE  UNCHANGED Service!svars
  BY <1>6, WorkIsStutter
<1>7. ASSUME NEW w \in Workers, Publish(w) \/ Fail(w) \/ Skip(w) \/ Finish(w)
      PROVE  [Service!SNext]_Service!svars
  <2>1. ASSUME NEW i \in Indices, NEW o \in {<<"result", requests[i].readView>>, <<"failed">>, <<"dropped">>},
               Service!Settle(i, o)
        PROVE  Service!SNext
    <3>1. i \in 1..Len(Rec) /\ o \in {<<"result", Rec[i].view>>, <<"failed">>, <<"dropped">>}
      BY <1>0, <2>1
    <3> QED
      BY <2>1, <3>1 DEF Service!SNext, Service!Result, Service!Failed, Service!Dropped, Rec
  <2>2. CASE Publish(w) \/ Fail(w)
    BY <2>1, <2>2, ReplyRefines
  <2>3. CASE Skip(w) \/ Finish(w)
    BY <2>1, <2>3, ReleaseRefines
  <2> QED
    BY <1>7, <2>2, <2>3
<1> QED
  BY <1>1, <1>2, <1>3, <1>4, <1>5, <1>6, <1>7 DEF Next, ReaderStep, WorkerStep, Rest

LEMMA ServiceInit == Init => FreshInv /\ Service!SInit
<1> SUFFICES ASSUME Init PROVE FreshInv /\ Service!SInit
  OBVIOUS
<1>1. /\ requests = <<>> /\ Len(requests) = 0 /\ Indices = {} /\ preCancelled = {} /\ seen = {}
      /\ reader = "reading" /\ version = 0 /\ \A w \in Workers : worker[w].pc = "unborn"
  BY DEF Init, Indices
<1>2. FreshInv
  BY <1>1 DEF FreshInv
<1>3. RequestType
  BY RequestInvInit DEF RequestInv
<1>4. Rec = <<>> /\ Out = <<>>
  <2>1. Indices = 1..0
    BY <1>1
  <2>2. Rec = [i \in 1..0 |-> Rec[i]] /\ Out = [i \in 1..0 |-> Out[i]]
    BY <2>1 DEF Rec, Out
  <2>3. ASSUME NEW f, f = [i \in 1..0 |-> f[i]] PROVE f = <<>>
    <3>1. f \in Seq({f[i] : i \in 1..0}) /\ Len(f) = 0
      BY <2>3, FunctionIsSequence
    <3> QED
      BY <3>1, EmptySeq
  <2> QED
    BY <2>2, <2>3
<1>5. Exc = {} /\ Ear = {}
  BY <1>1 DEF Exc, Ear
<1>6. Service!SInit
  BY <1>1, <1>4, <1>5 DEF Service!SInit, Rec, Out, Exc, Ear
<1> QED
  BY <1>2, <1>6

\* For a client that uses each id once, the server is LspService: a request is
\* answered at most once, from the documents as they were when it was received,
\* and left without an answer only if a cancellation was meant for it or the
\* server has ended, however its threads, queue and lock take turns.
THEOREM RequestsImplementService == ASSUME FreshIds PROVE Spec => ImplementsLspService
<1>1. Spec => [](RequestInv /\ FreshInv)
  <2>1. RequestInv /\ FreshInv /\ [Next]_vars => (RequestInv /\ FreshInv)'
    BY RequestInvStep, FreshStep
  <2> QED
    BY <2>1, RequestInvInit, ServiceInit, PTL DEF Spec
<1>2. RequestInv /\ FreshInv /\ RequestInv' /\ [Next]_vars => [Service!SNext]_Service!svars
  BY ServiceStep
<1> QED
  BY <1>1, <1>2, ServiceInit, PTL DEF Spec, ImplementsLspService, Service!SSpec
===============================================================================
