-------------------------- MODULE LspClientProofs ------------------------------
(***************************************************************************)
(* What LspClient's runs check on three processes, proved for any number   *)
(* of processes, requests, versions and frames.                            *)
(***************************************************************************)
EXTENDS LspClient, FiniteSetTheorems, SequenceTheorems, WellFoundedInduction, TLAPS

\* A request is known by its number everywhere: under its id in the map, in what
\* a process has still to answer, and in the answers on their way.  Only a process
\* that runs knows a document.
Messages == {message \in Ids \X Requests : message[1] = message[2]}
Answers == {frame \in Frames : frame.kind = "answer" => frame.id = frame.about}
Chunks == [frame : Answers, part : {"whole", "tail"}]
Processes ==
    {p \in [process : {"unborn", "failed", "running", "dead", "gone"},
            inbox : SUBSET Messages, view : 0..MaxVersion, owed : BOOLEAN, output : Seq(Chunks)] :
     p.process # "running" => p.view = 0}

ProcessInv ==
    /\ server \in [Children -> Processes]
    /\ child # None => server[child].process # "unborn"

\* Numbers are never used again, whichever process they were given out for.
NumbersInv ==
    /\ nextId = sent + 1
    /\ sent <= Cardinality(Ids) - Cardinality(Unborn)

\* The map holds requests that were made, of the process that is there, and their
\* promises are the open ones.
PromiseInv ==
    /\ \A id \in PendingIds : id <= sent /\ pending[id].request = id /\ pending[id].child = child
    /\ open = PendingIds
    /\ Cardinality(PendingIds) <= MaxPending

\* Every restart by a timer, made or to come, is counted, and a client that is
\* disposed of starts nothing.
RecoveryInv ==
    /\ automatic + timers <= restartAttempts
    /\ disposed => child = None /\ timers = 0

\* The process that runs knows the document as it is or not at all: not at all
\* while the editor's events do not reach it, and as it is once start went on.
DocumentInv ==
    /\ initialized => listening /\ child # None
    /\ Running(child) =>
         /\ server[child].view \in {0, document}
         /\ ~listening => server[child].view = 0
         /\ initialized => server[child].view = document

ClientInv == TypeOK /\ NumbersInv /\ PromiseInv /\ ProcessInv /\ RecoveryInv /\ DocumentInv

-------------------------------------------------------------------------------
\* Numbers.

Less == {pair \in Nat \X Nat : pair[1] < pair[2]}

LEMMA LeastExists ==
    ASSUME NEW S, S \subseteq Nat, S # {}
    PROVE  \E x \in S : \A y \in S : x <= y
<1>1. IsWellFoundedOn(Less, Nat)
  BY NatLessThanWellFounded DEF OpToRel, Less
<1>2. PICK x \in S : \A y \in S : ~ (<<y, x>> \in Less)
  BY <1>1, WFMin
<1>3. \A y \in S : ~ (y < x)
  BY <1>2 DEF Less
<1> QED
  BY <1>2, <1>3

LEMMA ConstantsAreNat ==
    /\ {MaxChildren, MaxRequests, MaxPending, MaxVersion, MaxOutput} \subseteq Nat \ {0}
    /\ MaxChildren + MaxRequests \in Nat
    /\ Ids = 1..(MaxChildren + MaxRequests) /\ Requests = Ids
    /\ IsFiniteSet(Ids) /\ Cardinality(Ids) = MaxChildren + MaxRequests
    /\ None = 0 /\ None \notin Children /\ None \notin Ids
    /\ IsFiniteSet(Children) /\ Cardinality(Children) = MaxChildren
<1>1. {MaxChildren, MaxRequests, MaxPending, MaxVersion, MaxOutput} \subseteq Nat \ {0}
  BY ClientAssumption
<1>2. MaxChildren + MaxRequests \in Nat /\ MaxChildren \in Nat
  BY <1>1
<1>3. Ids = 1..(MaxChildren + MaxRequests) /\ Requests = Ids /\ Children = 1..MaxChildren
  BY DEF Ids, Requests, Children
<1>4. /\ IsFiniteSet(Ids) /\ Cardinality(Ids) = MaxChildren + MaxRequests
      /\ IsFiniteSet(Children) /\ Cardinality(Children) = MaxChildren
  BY <1>1, <1>2, <1>3, FS_Interval
<1> QED
  BY <1>1, <1>2, <1>3, <1>4 DEF None

\* The processes that are still to be started are finitely many, and there is one
\* with the least number.
LEMMA UnbornIsFinite ==
    /\ IsFiniteSet(Unborn) /\ Cardinality(Unborn) \in 0..MaxChildren
    /\ Unborn # {} => /\ (CHOOSE x \in Unborn : \A y \in Unborn : x <= y) \in Unborn
                      /\ Cardinality(Unborn) > 0
<1>1. Unborn \subseteq Children /\ Children \subseteq Nat
  BY DEF Unborn, Children
<1>2. IsFiniteSet(Unborn) /\ Cardinality(Unborn) \in Nat /\ Cardinality(Unborn) <= MaxChildren
  BY <1>1, ConstantsAreNat, FS_Subset, FS_CardinalityType
<1>3. ASSUME Unborn # {}
      PROVE  /\ (CHOOSE x \in Unborn : \A y \in Unborn : x <= y) \in Unborn
             /\ Cardinality(Unborn) > 0
  <2>1. \E x \in Unborn : \A y \in Unborn : x <= y
    BY <1>1, <1>3, LeastExists
  <2>2. Cardinality(Unborn) # 0
    BY <1>2, <1>3, FS_EmptySet
  <2> QED
    BY <2>1, <2>2, <1>2
<1> QED
  BY <1>2, <1>3, ConstantsAreNat

\* The processes once some have been started.
LEMMA UnbornStep ==
    ASSUME NEW c \in Unborn, \A d \in Children : server'[d].process = "unborn" <=> d \in Unborn \ {c}
    PROVE  Unborn' = Unborn \ {c} /\ Cardinality(Unborn') = Cardinality(Unborn) - 1
<1>1. Unborn' = Unborn \ {c}
  BY DEF Unborn
<1> QED
  BY <1>1, UnbornIsFinite, FS_RemoveElement


-------------------------------------------------------------------------------
\* What becomes of the processes.

\* What the steps do to one process keeps it one.
LEMMA ProcessUpdates ==
    ASSUME NEW p \in Processes
    PROVE  /\ p.inbox \in SUBSET Messages /\ p.output \in Seq(Chunks) /\ p.view \in 0..MaxVersion
           /\ [p EXCEPT !.process = "dead", !.inbox = {}, !.view = 0, !.owed = FALSE] \in Processes
           /\ p.process # "running" =>
                 \A to \in {"gone", "failed", "running"}, inbox \in SUBSET Messages :
                    [p EXCEPT !.process = to, !.inbox = inbox] \in Processes
           /\ p.process # "running" => [p EXCEPT !.process = "gone"] \in Processes
           /\ \A inbox \in SUBSET Messages : [p EXCEPT !.inbox = inbox] \in Processes
           /\ \A inbox \in SUBSET Messages, output \in Seq(Chunks) :
                 [p EXCEPT !.inbox = inbox, !.output = output] \in Processes
           /\ \A output \in Seq(Chunks) :
                 /\ [p EXCEPT !.output = output] \in Processes
                 /\ [p EXCEPT !.owed = FALSE, !.output = output] \in Processes
           /\ p.process = "running" => \A version \in 0..MaxVersion :
                 [p EXCEPT !.view = version, !.owed = TRUE] \in Processes
<1> DEFINE Outputs == Seq(Chunks)
<1>1. 0 \in 0..MaxVersion
  BY ConstantsAreNat
<1>2. Processes =
        {q \in [process : {"unborn", "failed", "running", "dead", "gone"},
                inbox : SUBSET Messages, view : 0..MaxVersion, owed : BOOLEAN, output : Outputs] :
         q.process # "running" => q.view = 0}
  BY DEF Processes
<1> HIDE DEF Outputs
<1>3. p.inbox \in SUBSET Messages /\ p.output \in Outputs /\ p.view \in 0..MaxVersion
  BY <1>2
<1>4. [p EXCEPT !.process = "dead", !.inbox = {}, !.view = 0, !.owed = FALSE] \in Processes
  BY <1>1, <1>2
<1>5. ASSUME p.process # "running", NEW to \in {"gone", "failed", "running"},
             NEW inbox \in SUBSET Messages
      PROVE  [p EXCEPT !.process = to, !.inbox = inbox] \in Processes
  BY <1>2, <1>5
<1>6. p.process # "running" => [p EXCEPT !.process = "gone"] \in Processes
  BY <1>2
<1>7. \A inbox \in SUBSET Messages : [p EXCEPT !.inbox = inbox] \in Processes
  BY <1>2
<1>8. \A inbox \in SUBSET Messages, output \in Outputs :
         [p EXCEPT !.inbox = inbox, !.output = output] \in Processes
  BY <1>2
<1>9. \A output \in Outputs :
         /\ [p EXCEPT !.output = output] \in Processes
         /\ [p EXCEPT !.owed = FALSE, !.output = output] \in Processes
  BY <1>2
<1>10. ASSUME p.process = "running", NEW version \in 0..MaxVersion
       PROVE  [p EXCEPT !.view = version, !.owed = TRUE] \in Processes
  BY <1>2, <1>10
<1> QED
  BY <1>3, <1>4, <1>5, <1>6, <1>7, <1>8, <1>9, <1>10 DEF Outputs

\* An update of one process that does not start it.
LEMMA OneProcess ==
    ASSUME NEW s \in [Children -> Processes], NEW c \in Children, NEW p \in Processes
    PROVE  LET new == [s EXCEPT ![c] = p] IN
           /\ new \in [Children -> Processes]
           /\ new[c] = p /\ \A d \in Children : d # c => new[d] = s[d]
  OBVIOUS

LEMMA EndedEffect ==
    ASSUME server \in [Children -> Processes], NEW c \in Children, server[c].process # "unborn"
    PROVE  /\ Ended(c) \in [Children -> Processes]
           /\ Ended(c)[c].process = "dead"
           /\ \A d \in Children : d # c => Ended(c)[d] = server[d]
<1> DEFINE p == [server[c] EXCEPT !.process = "dead", !.inbox = {}, !.view = 0, !.owed = FALSE]
<1>1. server[c] \in Processes
  OBVIOUS
<1>2. p \in Processes
  BY <1>1, ProcessUpdates
<1>3. p.process = "dead"
  BY <1>1 DEF Processes
<1>4. Ended(c) = [server EXCEPT ![c] = p]
  BY DEF Ended
<1> HIDE DEF p
<1> QED
  BY <1>2, <1>3, <1>4, OneProcess

LEMMA KilledEffect ==
    ASSUME server \in [Children -> Processes], child \in Children \cup {None}
    PROVE  /\ Killed \in [Children -> Processes]
           /\ \A d \in Children : /\ d # child => Killed[d] = server[d]
                                  /\ Killed[d].process = "unborn" <=> d \in Unborn
<1>1. CASE Running(child)
  <2>1. child \in Children /\ server[child].process # "unborn"
    BY <1>1 DEF Running
  <2> QED
    BY <1>1, <2>1, EndedEffect DEF Killed, Unborn
<1> QED
  BY <1>1 DEF Killed, Unborn

LEMMA ToldEffect ==
    ASSUME NEW s \in [Children -> Processes], NEW version \in 0..MaxVersion,
           child \in Children \cup {None}, Running(child) => s[child].process = "running"
    PROVE  /\ Told(s, version) \in [Children -> Processes]
           /\ \A d \in Children : /\ Told(s, version)[d].process = s[d].process
                                  /\ d # child => Told(s, version)[d] = s[d]
           /\ Running(child) => Told(s, version)[child].view = version
<1>1. CASE Running(child)
  <2> DEFINE p == [s[child] EXCEPT !.view = version, !.owed = TRUE]
  <2>1. child \in Children /\ s[child] \in Processes /\ s[child].process = "running"
    BY <1>1 DEF Running
  <2>2. p \in Processes
    BY <2>1, ProcessUpdates
  <2>3. p.process = s[child].process /\ p.view = version
    BY <2>1 DEF Processes
  <2>4. Told(s, version) = [s EXCEPT ![child] = p]
    BY <1>1 DEF Told
  <2> HIDE DEF p
  <2> QED
    BY <2>1, <2>2, <2>3, <2>4, OneProcess
<1> QED
  BY <1>1 DEF Told

\* start leaves one process more, and kills none but the child.
LEMMA StartEffect ==
    ASSUME TypeOK, ProcessInv, NumbersInv, Unborn # {}, NEW before, NEW servers \in {server, Killed},
           start(before, servers)
    PROVE  /\ child' \in Unborn
           /\ sent' = sent + 1 /\ nextId' = nextId + 1 /\ nextId = sent' /\ sent' \in Ids
           /\ pending' = [NothingPending EXCEPT ![sent'] = Entry("initialize", child', sent')]
           /\ open' = before \cup {sent'}
           /\ server' \in [Children -> Processes]
           /\ server'[child'].process \in {"running", "failed"} /\ server'[child'].view = 0
           /\ Unborn' = Unborn \ {child'} /\ Cardinality(Unborn') = Cardinality(Unborn) - 1
<1> DEFINE c == CHOOSE x \in Unborn : \A y \in Unborn : x <= y
<1>1. PICK outcome \in {"running", "failed"} :
        /\ child' = c
        /\ nextId' = FirstId + 1
        /\ sent' = sent + 1
        /\ pending' = [NothingPending EXCEPT ![FirstId] = Entry("initialize", c, sent')]
        /\ open' = before \cup {sent'}
        /\ server' = [servers EXCEPT ![c].process = outcome,
                        ![c].inbox = IF outcome = "running" THEN {<<FirstId, sent'>>} ELSE {}]
  BY Zenon DEF start
<1>2. c \in Unborn /\ c \in Children /\ server[c].process = "unborn" /\ c # child
  <2>1. c \in Unborn
    BY UnbornIsFinite
  <2> HIDE DEF c
  <2> QED
    BY <2>1 DEF Unborn, ProcessInv, TypeOK, Children, None
<1> HIDE DEF c
<1>3. FirstId = nextId /\ nextId = sent' /\ sent' \in Ids
  <2>1. nextId = sent + 1 /\ sent <= Cardinality(Ids) - Cardinality(Unborn) /\ sent \in Nat
    BY ConstantsAreNat DEF NumbersInv, TypeOK
  <2>2. Cardinality(Unborn) \in Nat /\ Cardinality(Unborn) > 0
    BY UnbornIsFinite
  <2> QED
    BY <1>1, <2>1, <2>2, ConstantsAreNat DEF FirstId
<1>4. /\ servers \in [Children -> Processes] /\ servers[c] = server[c]
      /\ \A d \in Children : servers[d].process = "unborn" <=> d \in Unborn
  BY <1>2, KilledEffect DEF ProcessInv, TypeOK, Unborn
<1> DEFINE inbox == IF outcome = "running" THEN {<<FirstId, sent'>>} ELSE {}
           p == [servers[c] EXCEPT !.process = outcome, !.inbox = inbox]
<1>5. inbox \in SUBSET Messages
  BY <1>3, ConstantsAreNat DEF Messages
<1>6. servers[c] \in Processes /\ servers[c].process = "unborn"
  BY <1>2, <1>4
<1>7. server' = [servers EXCEPT ![c] = p]
  BY <1>1
<1>8. p \in Processes /\ p.process = outcome /\ p.view = 0
  <2> HIDE DEF inbox
  <2>1. p \in Processes
    BY <1>5, <1>6, ProcessUpdates
  <2> QED
    BY <2>1, <1>6 DEF Processes
<1> HIDE DEF p, inbox
<1>9. server' \in [Children -> Processes] /\ server'[c] = p
      /\ \A d \in Children : d # c => server'[d] = servers[d]
  BY <1>2, <1>4, <1>7, <1>8, OneProcess
<1>10. Unborn' = Unborn \ {c} /\ Cardinality(Unborn') = Cardinality(Unborn) - 1
  <2>1. \A d \in Children : server'[d].process = "unborn" <=> d \in Unborn \ {c}
    BY <1>4, <1>8, <1>9
  <2> QED
    BY <1>2, <2>1, UnbornStep
<1> QED
  BY <1>1, <1>2, <1>3, <1>8, <1>9, <1>10

\* A process keeps its place and what it knows when its output is read.
Unread(rest) ==
    /\ rest \in [Children -> Processes]
    /\ \A d \in Children : rest[d].process = server[d].process /\ rest[d].view = server[d].view

Buffers == {Clean, Lost} \cup {<<c>> : c \in Children}

\* What a chunk does: nothing but to the unread output, or a request is settled,
\* and start may go on.
LEMMA DataEffect ==
    ASSUME TypeOK, ProcessInv, NEW c \in Children, Data(c)
    PROVE  \E rest :
             /\ Unread(rest) /\ buffer' \in Buffers /\ diagnostics' \in BOOLEAN
             /\ \/ server' = rest /\ UNCHANGED <<pending, open, initialized, listening>>
                \/ /\ \E id \in PendingIds : Settle(id)
                   /\ \/ server' = rest /\ UNCHANGED <<initialized, listening>>
                      \/ initialized' = TRUE /\ OpenAll(rest)
<1> DEFINE next == Head(server[c].output)
           left(output) == [server EXCEPT ![c].output = output]
<1>1. server[c] \in Processes /\ server[c].output \in Seq(Chunks) /\ server[c].output # <<>>
  BY ProcessUpdates DEF Data, ProcessInv
<1>2. next \in Chunks /\ Tail(server[c].output) \in Seq(Chunks)
  BY <1>1, HeadTailProperties
<1>3. next.frame \in Answers /\ next.part \in {"whole", "tail"}
  BY <1>2 DEF Chunks
<1>4. ASSUME NEW output \in Seq(Chunks)
      PROVE  Unread(left(output))
  <2> DEFINE p == [server[c] EXCEPT !.output = output]
  <2>1. p \in Processes
    BY <1>1, ProcessUpdates
  <2>2. p.process = server[c].process /\ p.view = server[c].view
    BY <1>1 DEF Processes
  <2>3. left(output) = [server EXCEPT ![c] = p]
    OBVIOUS
  <2> HIDE DEF p, left
  <2> QED
    BY <2>1, <2>2, <2>3, OneProcess DEF Unread, ProcessInv
<1>5. PICK part, output : /\ output \in Seq(Chunks)
                          /\ consume(c, next.frame, part, left(output))
  <2> DEFINE tail == [next EXCEPT !.part = "tail"]
             whole == Tail(server[c].output)
  <2>1. tail \in Chunks
    BY <1>2 DEF Chunks
  <2>2. whole \in Seq(Chunks) /\ <<tail>> \o whole \in Seq(Chunks)
    <3> HIDE DEF tail, whole
    <3>1. <<tail>> \in Seq(Chunks)
      BY <2>1
    <3> QED
      BY <3>1, <1>2, ConcatProperties DEF whole
  <2>3. \/ consume(c, next.frame, next.part, left(whole))
        \/ consume(c, next.frame, "head", left(<<tail>> \o whole))
    BY Zenon DEF Data
  <2> HIDE DEF next, left, tail, whole
  <2> QED
    BY <2>2, <2>3
<1> DEFINE rest == left(output)
<1>6. Unread(rest)
  BY <1>4, <1>5
<1>7. consume(c, next.frame, part, rest)
  BY <1>5
<1> HIDE DEF next, left, rest
<1>8. buffer' \in Buffers
  BY <1>7 DEF consume, Buffers
<1>9. \/ receive(next.frame, rest)
      \/ server' = rest /\ UNCHANGED <<pending, open, initialized, listening, diagnostics>>
  BY <1>7 DEF consume
<1>10. diagnostics \in BOOLEAN
  BY DEF TypeOK
<1>11. CASE receive(next.frame, rest) /\ next.frame.kind = "answer"
  <2>1. ReceiveAnswer(next.frame.id, rest) /\ UNCHANGED diagnostics
    BY <1>11 DEF receive
  <2> QED
    BY <1>6, <1>8, <1>10, <2>1 DEF ReceiveAnswer
<1>12. CASE receive(next.frame, rest) /\ next.frame.kind # "answer"
  <2>1. /\ ReceiveDiagnostics(next.frame.about)
        /\ server' = rest
        /\ UNCHANGED <<pending, open, initialized, listening>>
    BY <1>12 DEF receive
  <2>2. diagnostics' \in BOOLEAN
    BY <2>1, <1>10 DEF ReceiveDiagnostics
  <2> QED
    BY <1>6, <1>8, <2>1, <2>2
<1> QED
  BY <1>6, <1>8, <1>9, <1>10, <1>11, <1>12

\* The steps of a process that write: what is written is an answer to a request it
\* was sent, or a report.
LEMMA WriteEffect ==
    ASSUME TypeOK, ProcessInv, NEW c \in Children, AnswerRequest(c) \/ Report(c)
    PROVE  Unread(server')
<1>1. server[c] \in Processes /\ server[c].inbox \in SUBSET Messages
      /\ server[c].output \in Seq(Chunks) /\ server[c].view \in 0..MaxVersion
  BY ProcessUpdates DEF ProcessInv
<1>2. CASE AnswerRequest(c)
  <2>1. PICK message \in server[c].inbox :
          server' = [server EXCEPT ![c].inbox = @ \ {message},
             ![c].output = Append(@, Whole([kind |-> "answer", id |-> message[1], about |-> message[2]]))]
    BY <1>2 DEF AnswerRequest
  <2> DEFINE chunk == Whole([kind |-> "answer", id |-> message[1], about |-> message[2]])
             inbox == server[c].inbox \ {message}
             output == Append(server[c].output, chunk)
             p == [server[c] EXCEPT !.inbox = inbox, !.output = output]
  <2>2. message \in Messages /\ message[1] \in Ids /\ message[2] = message[1] /\ message[2] \in Nat
    BY <1>1, <2>1, ConstantsAreNat DEF Messages
  <2>3. chunk \in Chunks
    BY <2>2 DEF Whole, Chunks, Answers, Frames
  <2>4. output \in Seq(Chunks)
    <3> HIDE DEF chunk
    <3> QED
      BY <1>1, <2>3, AppendProperties
  <2>5. server' = [server EXCEPT ![c] = p]
    BY <2>1 DEF ProcessInv
  <2> HIDE DEF output, inbox
  <2>6. p \in Processes
    BY <1>1, <2>4, ProcessUpdates DEF inbox
  <2>7. p.process = server[c].process /\ p.view = server[c].view
    BY <1>1 DEF Processes
  <2> HIDE DEF p
  <2> QED
    BY <2>5, <2>6, <2>7, OneProcess DEF Unread, ProcessInv
<1>3. CASE Report(c)
  <2> DEFINE chunk == Whole([kind |-> "diagnostics", id |-> None, about |-> server[c].view])
             output == Append(server[c].output, chunk)
             p == [server[c] EXCEPT !.owed = FALSE, !.output = output]
  <2>1. chunk \in Chunks
    BY <1>1, ConstantsAreNat DEF Whole, Chunks, Answers, Frames
  <2>2. output \in Seq(Chunks)
    <3> HIDE DEF chunk
    <3> QED
      BY <1>1, <2>1, AppendProperties
  <2>3. server' = [server EXCEPT ![c] = p]
    BY <1>3 DEF ProcessInv, Report
  <2> HIDE DEF output
  <2>4. p \in Processes
    BY <1>1, <2>2, ProcessUpdates
  <2>5. p.process = server[c].process /\ p.view = server[c].view
    BY <1>1 DEF Processes
  <2> HIDE DEF p
  <2> QED
    BY <2>3, <2>4, <2>5, OneProcess DEF Unread, ProcessInv
<1> QED
  BY <1>2, <1>3

-------------------------------------------------------------------------------
\* Processes and numbers, step by step.

\* A step that starts no process and makes no request.
LEMMA NothingStarted ==
    ASSUME TypeOK, ProcessInv, NumbersInv, server' \in [Children -> Processes],
           \A d \in Children : server'[d].process = "unborn" <=> server[d].process = "unborn",
           child' \in {child, None}, UNCHANGED <<nextId, sent>>
    PROVE  ProcessInv' /\ NumbersInv'
<1>1. Unborn' = Unborn
  BY DEF Unborn
<1>2. child' # None => child' = child /\ child \in Children /\ server[child].process # "unborn"
  BY DEF TypeOK, ProcessInv
<1> QED
  BY <1>1, <1>2 DEF ProcessInv, NumbersInv

LEMMA ProcessesStep ==
    ASSUME TypeOK, ProcessInv, NumbersInv, [Next]_vars
    PROVE  ProcessInv' /\ NumbersInv'
<1> USE DEF ProcessInv
<1>0. server \in [Children -> Processes] /\ child \in Children \cup {None}
  BY DEF TypeOK
<1>1. ASSUME NEW before, NEW servers \in {server, Killed}, Unborn # {}, start(before, servers)
      PROVE  ProcessInv' /\ NumbersInv'
  <2>1. /\ child' \in Unborn /\ sent' = sent + 1 /\ nextId' = nextId + 1 /\ nextId = sent'
        /\ server' \in [Children -> Processes] /\ server'[child'].process \in {"running", "failed"}
        /\ Cardinality(Unborn') = Cardinality(Unborn) - 1
    BY <1>1, StartEffect
  <2>2. sent \in Nat /\ sent <= Cardinality(Ids) - Cardinality(Unborn)
    BY ConstantsAreNat DEF NumbersInv, TypeOK
  <2>3. NumbersInv'
    BY <2>1, <2>2, ConstantsAreNat, UnbornIsFinite DEF NumbersInv
  <2> QED
    BY <2>1, <2>3
<1>2. CASE Activate
  <2>1. Unborn # {}
    BY <1>2, ConstantsAreNat, FS_EmptySet DEF Activate
  <2> QED
    BY <2>1, <1>1, <1>2 DEF Activate
<1>3. CASE restart
  BY <1>1, <1>3 DEF restart
<1>4. CASE TimerFires
  <2>1. CASE child # None
    BY <2>1, <1>4, <1>0, NothingStarted DEF TimerFires
  <2> QED
    BY <2>1, <1>1, <1>4 DEF TimerFires
<1>5. CASE dispose \/ protocolFailure
  <2>1. /\ server' = Killed /\ child' = None /\ UNCHANGED <<nextId, sent>>
    BY <1>5 DEF dispose, protocolFailure, stopProcess, NoChild
  <2> QED
    BY <1>0, <2>1, KilledEffect, NothingStarted DEF Unborn
<1>6. CASE request
  <2>1. /\ nextId <= Cardinality(Ids) - Cardinality(Unborn) /\ nextId' = nextId + 1 /\ sent' = sent + 1
        /\ child' = child /\ child \in Children
        /\ \/ server' = server
           \/ /\ Running(child)
              /\ server' = [server EXCEPT ![child].inbox = @ \cup {<<nextId, sent'>>}]
    BY <1>0, <1>6 DEF request
  <2>2. sent \in Nat /\ nextId = sent + 1
    BY ConstantsAreNat DEF NumbersInv, TypeOK
  <2>3. server' \in [Children -> Processes]
        /\ \A d \in Children : server'[d].process = server[d].process
    <3>1. CASE server' = [server EXCEPT ![child].inbox = @ \cup {<<nextId, sent'>>}]
      <4> DEFINE inbox == server[child].inbox \cup {<<nextId, sent'>>}
                 p == [server[child] EXCEPT !.inbox = inbox]
      <4>1. server[child] \in Processes /\ server[child].inbox \in SUBSET Messages
        BY <2>1, ProcessUpdates
      <4>2. nextId \in Ids
        BY <2>1, <2>2, UnbornIsFinite, ConstantsAreNat
      <4>3. inbox \in SUBSET Messages
        BY <4>1, <4>2, <2>1, <2>2, ConstantsAreNat DEF Messages
      <4>4. server' = [server EXCEPT ![child] = p]
        BY <3>1
      <4> HIDE DEF inbox
      <4>5. p \in Processes
        BY <4>1, <4>3, ProcessUpdates
      <4>6. p.process = server[child].process
        BY <4>1 DEF Processes
      <4> HIDE DEF p
      <4> QED
        BY <2>1, <4>4, <4>5, <4>6, OneProcess
    <3> QED
      BY <2>1, <3>1
  <2>4. Unborn' = Unborn
    BY <2>3 DEF Unborn
  <2> QED
    BY <2>1, <2>2, <2>3, <2>4 DEF NumbersInv
<1>7. ASSUME NEW id \in Ids, GiveUp(id)
      PROVE  ProcessInv' /\ NumbersInv'
  BY <1>0, <1>7, NothingStarted DEF GiveUp
<1>8. CASE EditorStep
  <2>1. PICK version \in 0..MaxVersion : EditorSets(version)
    BY <1>8, ConstantsAreNat DEF EditorStep, OpenDocument, ChangeDocument, CloseDocument, TypeOK
  <2>2. /\ \/ server' = Told(server, version)
           \/ server' = server
        /\ UNCHANGED <<child, nextId, sent>>
    BY <2>1 DEF EditorSets
  <2>3. Running(child) => server[child].process = "running"
    BY DEF Running
  <2>4. server' \in [Children -> Processes]
        /\ \A d \in Children : server'[d].process = server[d].process
    BY <1>0, <2>2, <2>3, ToldEffect
  <2> QED
    BY <1>0, <2>2, <2>4, NothingStarted
<1>9. ASSUME NEW c \in Children, onExit(c) \/ StartError(c)
      PROVE  ProcessInv' /\ NumbersInv'
  <2> DEFINE p == [server[c] EXCEPT !.process = "gone"]
  <2>1. /\ server[c].process \in {"dead", "failed"} /\ server' = [server EXCEPT ![c].process = "gone"]
        /\ child' \in {child, None} /\ UNCHANGED <<nextId, sent>>
    BY <1>9 DEF onExit, StartError, CurrentExits, NoChild
  <2>2. server' = [server EXCEPT ![c] = p]
    BY <2>1
  <2>3. server[c] \in Processes
    OBVIOUS
  <2>4. p \in Processes
    BY <2>1, <2>3, ProcessUpdates
  <2>6. p.process = "gone"
    BY <2>3 DEF Processes
  <2> HIDE DEF p
  <2>5. server' \in [Children -> Processes] /\ server'[c].process = "gone"
        /\ \A d \in Children : d # c => server'[d] = server[d]
    BY <2>2, <2>4, <2>6, OneProcess
  <2> QED
    BY <2>1, <2>5, NothingStarted
<1>10. ASSUME NEW c \in Children, StdinError(c)
       PROVE  ProcessInv' /\ NumbersInv'
  BY <1>0, <1>10, NothingStarted DEF StdinError
<1>11. ASSUME NEW c \in Children, Data(c)
       PROVE  ProcessInv' /\ NumbersInv'
  <2>1. PICK rest : /\ Unread(rest)
                    /\ server' = rest \/ OpenAll(rest)
    BY <1>11, DataEffect
  <2>2. UNCHANGED <<child, nextId, sent>>
    BY <1>11 DEF Data
  <2>3. Running(child) => rest[child].process = "running"
    BY <2>1, <1>0 DEF Unread, Running
  <2>4. server' = rest \/ server' = Told(rest, document)
    BY <2>1 DEF OpenAll
  <2>5. document \in 0..MaxVersion
    BY DEF TypeOK
  <2>6. server' \in [Children -> Processes]
        /\ \A d \in Children : server'[d].process = server[d].process
    BY <1>0, <2>1, <2>3, <2>4, <2>5, ToldEffect DEF Unread
  <2> QED
    BY <1>0, <2>2, <2>6, NothingStarted
<1>12. ASSUME NEW c \in Children, AnswerRequest(c) \/ Report(c)
       PROVE  ProcessInv' /\ NumbersInv'
  <2>1. UNCHANGED <<child, nextId, sent>>
    BY <1>12 DEF AnswerRequest, Report, clientvars
  <2> QED
    BY <1>0, <1>12, <2>1, WriteEffect, NothingStarted DEF Unread
<1>13. ASSUME NEW c \in Children, Die(c)
       PROVE  ProcessInv' /\ NumbersInv'
  <2>1. UNCHANGED <<child, nextId, sent>> /\ server' = Ended(c) /\ server[c].process = "running"
    BY <1>13 DEF Die, clientvars, Running
  <2>2. /\ server' \in [Children -> Processes] /\ server'[c].process = "dead"
        /\ \A d \in Children : d # c => server'[d] = server[d]
    BY <1>0, <2>1, EndedEffect
  <2> QED
    BY <1>0, <2>1, <2>2, NothingStarted
<1>14. CASE UNCHANGED vars
  BY <1>0, <1>14, NothingStarted DEF vars, clientvars
<1> QED
  BY <1>2, <1>3, <1>4, <1>5, <1>6, <1>7, <1>8, <1>9, <1>10, <1>11, <1>12, <1>13, <1>14
     DEF Next, ClientStep, ProcessStep

-------------------------------------------------------------------------------
\* Promises, step by step.

Waiting == [method : {"initialize", "feature"}, child : Children, request : Requests]
PendingType == pending \in [Ids -> {Nothing} \cup Waiting]

LEMMA EntryIsWaiting ==
    ASSUME NEW method \in {"initialize", "feature"}, NEW c \in Children, NEW i \in Requests
    PROVE  /\ Entry(method, c, i) \in Waiting /\ Entry(method, c, i) # Nothing
           /\ Entry(method, c, i).request = i /\ Entry(method, c, i).child = c
  BY DEF Entry, Waiting, Nothing

\* With every request failed, nothing waits and no promise is open.
LEMMA FailEffect ==
    ASSUME PromiseInv
    PROVE  StillOpen = {}
  BY DEF PromiseInv, StillOpen

LEMMA NothingWaits ==
    ASSUME pending' = NothingPending, open' = {}
    PROVE  PromiseInv' /\ PendingType'
<1>1. PendingIds' = {}
  BY DEF PendingIds, NothingPending
<1>2. Cardinality({}) = 0
  BY FS_EmptySet
<1> QED
  BY <1>1, <1>2, ConstantsAreNat DEF PromiseInv, PendingType, NothingPending

\* One request less.
LEMMA SettleEffect ==
    ASSUME TypeOK, PromiseInv, NEW id \in PendingIds, Settle(id), UNCHANGED <<child, sent>>
    PROVE  PromiseInv' /\ PendingType'
<1>1. pending' = [pending EXCEPT ![id] = Nothing] /\ open' = open \ {id} /\ id \in Ids
  BY DEF Settle, PromiseInv, PendingIds
<1>2. pending \in [Ids -> {Nothing} \cup Waiting]
  BY DEF TypeOK, Waiting
<1>3. /\ PendingType' /\ PendingIds' = PendingIds \ {id}
      /\ \A i \in PendingIds' : pending'[i] = pending[i] /\ i \in PendingIds
  BY <1>1, <1>2 DEF PendingType, PendingIds
<1>4. Cardinality(PendingIds') <= MaxPending
  <2>1. IsFiniteSet(PendingIds)
    BY ConstantsAreNat, FS_Subset DEF PendingIds
  <2>2. Cardinality(PendingIds') = Cardinality(PendingIds) - 1 /\ Cardinality(PendingIds) \in Nat
    BY <1>3, <2>1, FS_RemoveElement, FS_CardinalityType
  <2> QED
    BY <2>2, ConstantsAreNat DEF PromiseInv
<1> QED
  BY <1>1, <1>3, <1>4 DEF PromiseInv

\* A process's first request waits alone.
LEMMA FirstWaits ==
    ASSUME child' \in Children, sent' \in Ids,
           pending' = [NothingPending EXCEPT ![sent'] = Entry("initialize", child', sent')],
           open' = {sent'}
    PROVE  PromiseInv' /\ PendingType'
<1> DEFINE entry == Entry("initialize", child', sent')
<1>1. entry \in Waiting /\ entry # Nothing /\ entry.request = sent' /\ entry.child = child'
  BY EntryIsWaiting, ConstantsAreNat
<1>2. pending' = [NothingPending EXCEPT ![sent'] = entry]
  OBVIOUS
<1> HIDE DEF entry
<1>3. PendingIds' = {sent'} /\ pending'[sent'] = entry /\ PendingType'
  BY <1>1, <1>2 DEF PendingIds, PendingType, NothingPending
<1>4. Cardinality({sent'}) = 1
  BY FS_Singleton
<1>5. sent' <= sent'
  BY ConstantsAreNat
<1>6. 1 <= MaxPending
  BY ConstantsAreNat
<1> QED
  BY <1>1, <1>3, <1>4, <1>5, <1>6 DEF PromiseInv

LEMMA PromisesStep ==
    ASSUME TypeOK, ProcessInv, NumbersInv, PromiseInv, [Next]_vars
    PROVE  PromiseInv' /\ PendingType'
<1>1. PendingType /\ child \in Children \cup {None} /\ sent \in Nat
  BY ConstantsAreNat DEF TypeOK, PendingType, Waiting
<1>2. child = None => open = {}
  BY <1>1, ConstantsAreNat DEF PromiseInv, PendingType, PendingIds, Waiting
<1>3. ASSUME NEW before, before = {}, NEW servers \in {server, Killed}, Unborn # {},
             start(before, servers)
      PROVE  PromiseInv' /\ PendingType'
  <2>1. /\ child' \in Unborn /\ sent' \in Ids /\ open' = before \cup {sent'}
        /\ pending' = [NothingPending EXCEPT ![sent'] = Entry("initialize", child', sent')]
    BY <1>3, StartEffect
  <2>2. child' \in Children /\ open' = {sent'}
    BY <1>3, <2>1 DEF Unborn
  <2> QED
    BY <2>1, <2>2, FirstWaits
<1>4. ASSUME fail PROVE PromiseInv' /\ PendingType'
  BY <1>4, FailEffect, NothingWaits DEF fail
<1>5. ASSUME UNCHANGED <<pending, open, child, sent>>
      PROVE  PromiseInv' /\ PendingType'
  <2>1. PendingIds' = PendingIds
    BY <1>5 DEF PendingIds
  <2> QED
    BY <1>1, <1>5, <2>1 DEF PromiseInv, PendingType
<1>6. CASE Activate
  <2>1. Unborn # {} /\ child = None
    BY <1>1, <1>6, ConstantsAreNat, FS_EmptySet DEF Activate, ProcessInv, Unborn
  <2> QED
    BY <1>2, <1>3, <1>6, <2>1 DEF Activate
<1>7. CASE restart
  BY <1>3, <1>7, FailEffect DEF restart
<1>8. CASE TimerFires
  <2>1. CASE child # None
    BY <1>5, <1>8, <2>1 DEF TimerFires
  <2> QED
    BY <1>2, <1>3, <1>8, <2>1 DEF TimerFires
<1>9. CASE dispose \/ protocolFailure
  BY <1>4, <1>9 DEF dispose, protocolFailure
<1>10. CASE request
  <2>1. /\ child \in Children /\ child' = child /\ nextId = sent' /\ sent' = sent + 1
    BY <1>1, <1>10 DEF request, NumbersInv
  <2>2. sent' \in Ids
    BY <1>1, <1>10, <2>1, UnbornIsFinite, ConstantsAreNat DEF request
  <2>3. CASE Cardinality(PendingIds) >= MaxPending
    <3>1. PendingIds' = PendingIds /\ UNCHANGED <<pending, open>>
      BY <1>10, <2>3 DEF request, PendingIds
    <3>2. \A id \in PendingIds : id <= sent'
      BY <1>1, <2>1, ConstantsAreNat DEF PromiseInv, PendingIds
    <3> QED
      BY <1>1, <2>1, <3>1, <3>2 DEF PromiseInv, PendingType
  <2>4. CASE ~(Cardinality(PendingIds) >= MaxPending)
    <3> DEFINE entry == Entry("feature", child, sent')
    <3>1. entry \in Waiting /\ entry # Nothing /\ entry.request = sent' /\ entry.child = child
      BY <2>1, <2>2, EntryIsWaiting, ConstantsAreNat
    <3>2. pending' = [pending EXCEPT ![sent'] = entry] /\ open' = open \cup {sent'}
      BY <1>10, <2>1, <2>4 DEF request
    <3> HIDE DEF entry
    <3>3. sent' \notin PendingIds
      BY <1>1, <2>1, <2>2, ConstantsAreNat DEF PromiseInv
    <3>4. /\ PendingIds' = PendingIds \cup {sent'} /\ PendingType' /\ pending'[sent'] = entry
          /\ \A id \in PendingIds : pending'[id] = pending[id]
      BY <1>1, <2>2, <3>1, <3>2, <3>3 DEF PendingIds, PendingType
    <3>5. Cardinality(PendingIds') <= MaxPending
      <4>1. IsFiniteSet(PendingIds)
        BY ConstantsAreNat, FS_Subset DEF PendingIds
      <4>2. Cardinality(PendingIds') = Cardinality(PendingIds) + 1 /\ Cardinality(PendingIds) \in Nat
        BY <3>3, <3>4, <4>1, FS_AddElement, FS_CardinalityType
      <4> QED
        BY <2>4, <4>2, ConstantsAreNat
    <3>6. \A id \in PendingIds' : id <= sent'
      BY <1>1, <2>1, <2>2, <3>4, ConstantsAreNat DEF PromiseInv, PendingIds
    <3> QED
      BY <2>1, <3>1, <3>2, <3>4, <3>5, <3>6 DEF PromiseInv
  <2> QED
    BY <2>3, <2>4
<1>11. ASSUME NEW id \in Ids, GiveUp(id)
       PROVE  PromiseInv' /\ PendingType'
  BY <1>11, SettleEffect DEF GiveUp
<1>12. CASE EditorStep
  BY <1>5, <1>12 DEF EditorStep, OpenDocument, ChangeDocument, CloseDocument, EditorSets
<1>13. ASSUME NEW c \in Children, onExit(c) \/ StartError(c) \/ StdinError(c)
       PROVE  PromiseInv' /\ PendingType'
  <2>1. fail \/ UNCHANGED <<pending, open, child, sent>>
    BY <1>13 DEF onExit, StartError, StdinError, CurrentExits
  <2> QED
    BY <1>4, <1>5, <2>1
<1>14. ASSUME NEW c \in Children, Data(c)
       PROVE  PromiseInv' /\ PendingType'
  <2>1. UNCHANGED <<child, sent>>
    BY <1>14 DEF Data
  <2>2. UNCHANGED <<pending, open>> \/ \E id \in PendingIds : Settle(id)
    BY <1>14, DataEffect
  <2> QED
    BY <1>5, <2>1, <2>2, SettleEffect
<1>15. ASSUME NEW c \in Children, AnswerRequest(c) \/ Report(c) \/ Die(c)
       PROVE  PromiseInv' /\ PendingType'
  BY <1>5, <1>15 DEF AnswerRequest, Report, Die, clientvars
<1>16. CASE UNCHANGED vars
  BY <1>5, <1>16 DEF vars, clientvars
<1> QED
  BY <1>6, <1>7, <1>8, <1>9, <1>10, <1>11, <1>12, <1>13, <1>14, <1>15, <1>16
     DEF Next, ClientStep, ProcessStep

-------------------------------------------------------------------------------
\* The rest of the client's state.

ClientType ==
    /\ child \in Children \cup {None} /\ buffer \in Buffers /\ sent \in Nat
    /\ initialized \in BOOLEAN /\ diagnostics \in BOOLEAN
    /\ listening \in BOOLEAN /\ disposed \in BOOLEAN
    /\ restartAttempts \in 0..1 /\ timers \in Nat /\ automatic \in Nat
    /\ document \in 0..MaxVersion

LEMMA TypeParts == TypeOK => ClientType
  BY ConstantsAreNat DEF TypeOK, ClientType, Buffers

\* The parts together are the type.
LEMMA TypeWhole == ClientType /\ ProcessInv /\ NumbersInv /\ PromiseInv /\ PendingType => TypeOK
<1> SUFFICES ASSUME ClientType, ProcessInv, NumbersInv, PromiseInv, PendingType PROVE TypeOK
  OBVIOUS
<1>1. sent \in 0..Cardinality(Ids) /\ nextId = sent + 1
  BY UnbornIsFinite, ConstantsAreNat DEF ClientType, NumbersInv
<1>2. nextId \in 1..(Cardinality(Ids) + 1) /\ sent \in Requests \cup {0}
  BY <1>1, ConstantsAreNat
<1>3. open \in SUBSET Requests
  BY ConstantsAreNat DEF PromiseInv, PendingIds
<1>4. server \in [Children ->
           [process : {"unborn", "failed", "running", "dead", "gone"},
            inbox : SUBSET (Ids \X Requests), view : 0..MaxVersion, owed : BOOLEAN,
            output : Seq([frame : Frames, part : {"whole", "tail"}])]]
  <2> DEFINE Outputs == Seq([frame : Frames, part : {"whole", "tail"}])
             Anything == [process : {"unborn", "failed", "running", "dead", "gone"},
                          inbox : SUBSET (Ids \X Requests), view : 0..MaxVersion, owed : BOOLEAN,
                          output : Outputs]
  <2>1. Chunks \subseteq [frame : Frames, part : {"whole", "tail"}]
    BY DEF Chunks, Answers
  <2>2. Seq(Chunks) \subseteq Outputs
    <3> DEFINE All == [frame : Frames, part : {"whole", "tail"}]
    <3> SUFFICES ASSUME NEW s \in Seq(Chunks) PROVE s \in Seq(All)
      OBVIOUS
    <3>1. Chunks \subseteq All
      BY <2>1
    <3> HIDE DEF All
    <3>2. Len(s) \in Nat /\ s = [i \in 1..Len(s) |-> s[i]] /\ \A i \in 1..Len(s) : s[i] \in All
      BY <3>1, LenProperties, ElementOfSeq
    <3> QED
      BY <3>2, IsASeq
  <2>3. Messages \subseteq Ids \X Requests
    BY DEF Messages
  <2> HIDE DEF Outputs
  <2>4. Processes \subseteq Anything
    BY <2>2, <2>3 DEF Processes
  <2> HIDE DEF Anything
  <2>5. server \in [Children -> Anything]
    BY <2>4 DEF ProcessInv
  <2> QED
    BY <2>5 DEF Anything, Outputs
<1>5. pending \in [Ids -> {Nothing} \cup [method : {"initialize", "feature"},
                                          child : Children, request : Requests]]
  BY DEF PendingType, Waiting
<1>6. {initialized, diagnostics, listening, disposed} \subseteq BOOLEAN
  BY DEF ClientType
<1> QED
  BY <1>1, <1>2, <1>3, <1>4, <1>5, <1>6 DEF ClientType, TypeOK, Buffers

\* The restarts, and the type of what the lemmas above leave out.
LEMMA RecoveryStep ==
    ASSUME TypeOK, ProcessInv, NumbersInv, PromiseInv, RecoveryInv, [Next]_vars
    PROVE  ClientType' /\ RecoveryInv'
<1>1. ClientType
  BY TypeParts
<1>2. Clean \in Buffers /\ 0 \in 0..1
  BY DEF Buffers
<1>a. /\ restartAttempts \in Nat /\ restartAttempts <= 1 /\ timers \in Nat /\ automatic \in Nat
      /\ automatic + timers <= restartAttempts
  BY <1>1 DEF ClientType, RecoveryInv
<1>b. TimerCleared = 0
  BY <1>a DEF TimerCleared
<1>3. ASSUME NEW before, NEW servers \in {server, Killed}, Unborn # {}, start(before, servers)
      PROVE  child' \in Children /\ sent' \in Nat
  <2>1. child' \in Unborn /\ sent' \in Ids
    BY <1>3, StartEffect
  <2> QED
    BY <2>1, ConstantsAreNat DEF Unborn
<1>4. CASE Activate
  <2>1. Unborn # {}
    BY <1>4, ConstantsAreNat, FS_EmptySet DEF Activate
  <2>2. child' \in Children /\ sent' \in Nat
    BY <1>3, <1>4, <2>1 DEF Activate
  <2> QED
    BY <1>1, <1>4, <2>2 DEF Activate, ClientType, RecoveryInv
<1>5. CASE restart
  <2>1. child' \in Children /\ sent' \in Nat
    BY <1>3, <1>5 DEF restart
  <2>2. ClientType'
    BY <1>1, <1>2, <1>a, <1>b, <1>5, <2>1 DEF restart, ClientType
  <2> QED
    BY <1>a, <1>b, <1>5, <2>2 DEF restart, RecoveryInv
<1>6. CASE TimerFires
  <2>1. /\ child' \in Children \cup {None} /\ sent' \in Nat
        /\ \/ automatic' = automatic
           \/ automatic' = automatic + 1
        /\ timers > 0 /\ timers' = timers - 1
    BY <1>1, <1>3, <1>6 DEF TimerFires, ClientType
  <2>2. disposed' = disposed /\ restartAttempts' = restartAttempts
    BY <1>6 DEF TimerFires
  <2>3. ClientType'
    BY <1>1, <1>a, <1>6, <2>1 DEF TimerFires, ClientType
  <2>4. ~disposed
    BY <2>1 DEF RecoveryInv
  <2>5. automatic' + timers' <= restartAttempts'
    <3>1. CASE automatic' = automatic
      BY <1>a, <2>1, <2>2, <3>1
    <3>2. CASE automatic' = automatic + 1
      BY <1>a, <2>1, <2>2, <3>2
    <3> QED
      BY <2>1, <3>1, <3>2
  <2> QED
    BY <2>2, <2>3, <2>4, <2>5 DEF RecoveryInv
<1>7. CASE dispose
  <2>1. ClientType'
    BY <1>1, <1>2, <1>a, <1>b, <1>7 DEF dispose, stopProcess, NoChild, ClientType
  <2> QED
    BY <1>a, <1>b, <1>7, <2>1 DEF dispose, stopProcess, NoChild, RecoveryInv
<1>8. CASE protocolFailure
  BY <1>1, <1>2, <1>8 DEF protocolFailure, stopProcess, NoChild, ClientType, RecoveryInv
<1>9. CASE request
  BY <1>1, <1>9 DEF request, ClientType, RecoveryInv
<1>10. ASSUME NEW id \in Ids, GiveUp(id)
       PROVE  ClientType' /\ RecoveryInv'
  BY <1>1, <1>10 DEF GiveUp, ClientType, RecoveryInv
<1>11. CASE EditorStep
  <2>0. MaxVersion \in Nat /\ MaxVersion > 0 /\ document \in 0..MaxVersion
    BY <1>1, ConstantsAreNat DEF ClientType
  <2>2. diagnostics \in BOOLEAN /\ listening \in BOOLEAN
    BY <1>1 DEF ClientType
  <2>3. ASSUME OpenDocument
        PROVE  \E version \in 0..MaxVersion : EditorSets(version) /\ diagnostics' \in BOOLEAN
    <3>1. EditorSets(1) /\ diagnostics' \in BOOLEAN
      BY <2>2, <2>3 DEF OpenDocument
    <3> QED
      BY <2>0, <3>1
  <2>4. ASSUME ChangeDocument
        PROVE  \E version \in 0..MaxVersion : EditorSets(version) /\ diagnostics' \in BOOLEAN
    <3>1. document \in 1..(MaxVersion - 1) /\ EditorSets(document + 1) /\ diagnostics' \in BOOLEAN
      BY <2>2, <2>4 DEF ChangeDocument
    <3>2. document + 1 \in 0..MaxVersion
      BY <2>0, <3>1
    <3> QED
      BY <3>1, <3>2
  <2>5. ASSUME CloseDocument
        PROVE  \E version \in 0..MaxVersion : EditorSets(version) /\ diagnostics' \in BOOLEAN
    <3>1. EditorSets(0) /\ diagnostics' \in BOOLEAN
      BY <2>2, <2>5 DEF CloseDocument
    <3> QED
      BY <2>0, <3>1
  <2>1. PICK version \in 0..MaxVersion : EditorSets(version) /\ diagnostics' \in BOOLEAN
    BY <1>11, <2>3, <2>4, <2>5 DEF EditorStep
  <2> QED
    BY <1>1, <2>1 DEF EditorSets, ClientType, RecoveryInv
<1>12. ASSUME NEW c \in Children, onExit(c)
       PROVE  ClientType' /\ RecoveryInv'
  <2>1. CASE CurrentExits
    <3>0. \/ restartAttempts' = restartAttempts /\ timers' = timers
          \/ /\ restartAttempts' = restartAttempts + 1 /\ timers' = timers + 1
             /\ ~(disposed \/ restartAttempts >= 1)
      BY <2>1 DEF CurrentExits
    <3>4. restartAttempts' \in 0..1 /\ timers' \in Nat
      BY <1>a, <3>0
    <3>1. ClientType'
      BY <1>1, <1>2, <1>12, <2>1, <3>4 DEF onExit, CurrentExits, NoChild, ClientType
    <3>2. disposed' = disposed /\ automatic' = automatic /\ child' = None
      BY <1>12, <2>1 DEF onExit, CurrentExits, NoChild
    <3>3. automatic' + timers' <= restartAttempts'
      BY <1>a, <3>0, <3>2
    <3>5. disposed => timers' = timers
      BY <3>0
    <3> QED
      BY <3>1, <3>2, <3>3, <3>5 DEF RecoveryInv
  <2>2. CASE UNCHANGED <<child, buffer, diagnostics, initialized, pending, open, restartAttempts,
                         timers>>
    BY <1>1, <1>12, <2>2 DEF onExit, ClientType, RecoveryInv
  <2> QED
    BY <1>12, <2>1, <2>2 DEF onExit
<1>13. ASSUME NEW c \in Children, StartError(c) \/ StdinError(c)
       PROVE  ClientType' /\ RecoveryInv'
  BY <1>1, <1>13 DEF StartError, StdinError, ClientType, RecoveryInv
<1>14. ASSUME NEW c \in Children, Data(c)
       PROVE  ClientType' /\ RecoveryInv'
  <2>1. UNCHANGED <<child, nextId, sent, disposed, restartAttempts, timers, automatic, document>>
    BY <1>14 DEF Data
  <2>2. buffer' \in Buffers /\ diagnostics' \in BOOLEAN /\ initialized' \in BOOLEAN
        /\ listening' \in BOOLEAN
    BY <1>1, <1>14, DataEffect DEF ClientType, OpenAll
  <2> QED
    BY <1>1, <2>1, <2>2 DEF ClientType, RecoveryInv
<1>15. ASSUME NEW c \in Children, AnswerRequest(c) \/ Report(c) \/ Die(c)
       PROVE  ClientType' /\ RecoveryInv'
  BY <1>1, <1>15 DEF AnswerRequest, Report, Die, clientvars, ClientType, RecoveryInv
<1>16. CASE UNCHANGED vars
  BY <1>1, <1>16 DEF vars, clientvars, ClientType, RecoveryInv
<1> QED
  BY <1>4, <1>5, <1>6, <1>7, <1>8, <1>9, <1>10, <1>11, <1>12, <1>13, <1>14, <1>15, <1>16
     DEF Next, ClientStep, ProcessStep

-------------------------------------------------------------------------------
\* The document.

\* What the current process is told is what the editor has; else nothing changes.
LEMMA DocumentFrame ==
    ASSUME DocumentInv, UNCHANGED <<child, initialized, listening, document>>,
           Running(child)' => Running(child) /\ server'[child].view = server[child].view
    PROVE  DocumentInv'
  BY DEF DocumentInv

LEMMA NothingRuns ==
    ASSUME ~Running(child)', initialized' => listening' /\ child' # None
    PROVE  DocumentInv'
  BY DEF DocumentInv

LEMMA DocumentStep ==
    ASSUME TypeOK, ProcessInv, NumbersInv, PromiseInv, RecoveryInv, DocumentInv, [Next]_vars
    PROVE  DocumentInv'
<1>1. ClientType /\ ClientType' /\ ProcessInv'
  BY TypeParts, RecoveryStep, ProcessesStep
<1>2. ASSUME NEW before, NEW servers \in {server, Killed}, Unborn # {}, start(before, servers),
             ~initialized', UNCHANGED document
      PROVE  DocumentInv'
  <2>1. server'[child'].view = 0
    BY <1>2, StartEffect
  <2> QED
    BY <1>2, <2>1 DEF DocumentInv
<1>3. CASE Activate
  <2>1. Unborn # {} /\ child = None
    BY <1>1, <1>3, ConstantsAreNat, FS_EmptySet DEF Activate, ProcessInv, Unborn, ClientType
  <2> QED
    BY <1>2, <1>3, <2>1 DEF Activate, DocumentInv
<1>4. CASE restart
  BY <1>2, <1>4 DEF restart
<1>5. CASE TimerFires
  <2>1. CASE child # None
    BY <1>5, <2>1, DocumentFrame DEF TimerFires, Running
  <2> QED
    BY <1>2, <1>5, <2>1 DEF TimerFires, DocumentInv
<1>6. CASE dispose \/ protocolFailure
  BY <1>6, NothingRuns DEF dispose, protocolFailure, stopProcess, NoChild, Running
<1>7. CASE request
  <2>1. UNCHANGED <<child, initialized, listening, document>> /\ child \in Children
    BY <1>1, <1>7 DEF request, ClientType
  <2>2. \/ server' = server
        \/ server' = [server EXCEPT ![child].inbox = @ \cup {<<nextId, sent'>>}]
    BY <1>7 DEF request
  <2>3. server[child] \in Processes
    BY <2>1 DEF ProcessInv
  <2>4. server'[child].process = server[child].process /\ server'[child].view = server[child].view
    BY <2>1, <2>2, <2>3 DEF ProcessInv, Processes
  <2> QED
    BY <2>1, <2>4, DocumentFrame DEF Running
<1>8. ASSUME NEW id \in Ids, GiveUp(id)
      PROVE  DocumentInv'
  BY <1>8, DocumentFrame DEF GiveUp, Running
<1>9. CASE EditorStep
  <2>1. PICK version : EditorSets(version)
    BY <1>9 DEF EditorStep, OpenDocument, ChangeDocument, CloseDocument
  <2>2. /\ document' = version /\ version \in 0..MaxVersion
        /\ server' = IF listening THEN Told(server, version) ELSE server
        /\ UNCHANGED <<child, initialized, listening>>
    BY <1>1, <2>1 DEF EditorSets, ClientType
  <2>3. CASE listening
    <3>1. server \in [Children -> Processes] /\ child \in Children \cup {None}
          /\ (Running(child) => server[child].process = "running")
      BY <1>1 DEF ProcessInv, ClientType, Running
    <3>2. /\ \A d \in Children : server'[d].process = server[d].process
          /\ Running(child) => server'[child].view = version
      BY <2>2, <2>3, <3>1, ToldEffect
    <3>3. Running(child)' => Running(child) /\ server'[child].view = document'
      BY <1>1, <2>2, <3>2 DEF Running, ClientType
    <3> QED
      BY <2>2, <2>3, <3>3 DEF DocumentInv
  <2>4. CASE ~listening
    <3>1. server' = server /\ ~initialized
      BY <2>2, <2>4 DEF DocumentInv
    <3>2. Running(child)' => Running(child) /\ server'[child'].view = 0
      BY <2>2, <2>4, <3>1 DEF DocumentInv, Running
    <3> QED
      BY <2>2, <2>4, <3>1, <3>2 DEF DocumentInv
  <2> QED
    BY <2>3, <2>4
<1>10. ASSUME NEW c \in Children, onExit(c)
       PROVE  DocumentInv'
  <2>1. CASE child = c
    BY <1>10, <2>1, NothingRuns DEF onExit, CurrentExits, NoChild, Running
  <2>2. CASE child # c
    BY <1>10, <2>2, DocumentFrame DEF onExit, Running
  <2> QED
    BY <2>1, <2>2
<1>11. ASSUME NEW c \in Children, StartError(c)
       PROVE  DocumentInv'
  <2>1. /\ UNCHANGED <<child, initialized, listening, document>>
        /\ server' = [server EXCEPT ![c].process = "gone"]
    BY <1>11 DEF StartError
  <2>2. server \in [Children -> Processes]
    BY DEF ProcessInv
  <2>3. Running(child)' => Running(child) /\ server'[child] = server[child]
    <3>1. CASE child = c
      <4>1. server[c] \in Processes
        BY <2>2
      <4>2. server'[c].process = "gone"
        BY <2>1, <2>2, <4>1 DEF Processes
      <4> QED
        BY <2>1, <3>1, <4>2 DEF Running
    <3>2. CASE child # c
      BY <2>1, <2>2, <3>2 DEF Running
    <3> QED
      BY <3>1, <3>2
  <2> QED
    BY <2>1, <2>3, DocumentFrame
<1>12. ASSUME NEW c \in Children, StdinError(c)
       PROVE  DocumentInv'
  BY <1>12, DocumentFrame DEF StdinError, Running
<1>13. ASSUME NEW c \in Children, Data(c)
       PROVE  DocumentInv'
  <2>1. UNCHANGED <<child, document>>
    BY <1>13 DEF Data
  <2>2. PICK rest :
           /\ Unread(rest)
           /\ \/ server' = rest /\ UNCHANGED <<pending, open, initialized, listening>>
              \/ /\ \E id \in PendingIds : Settle(id)
                 /\ \/ server' = rest /\ UNCHANGED <<initialized, listening>>
                    \/ initialized' = TRUE /\ OpenAll(rest)
    BY <1>13, DataEffect
  <2>3. child # None => child \in Children /\ rest[child].process = server[child].process
                        /\ rest[child].view = server[child].view
    BY <1>1, <2>2 DEF Unread, ClientType
  <2>4. CASE server' = rest /\ UNCHANGED <<initialized, listening>>
    BY <2>1, <2>3, <2>4, DocumentFrame DEF Running
  <2>5. CASE (\E id \in PendingIds : Settle(id)) /\ initialized' = TRUE /\ OpenAll(rest)
    <3>1. child \in Children
      BY <1>1, <2>5 DEF ClientType, PromiseInv, PendingIds, TypeOK, None, Nothing, Entry
    <3>2. CASE document = 0
      <4>1. server' = rest /\ listening' = TRUE
        BY <2>5, <3>2 DEF OpenAll
      <4>2. Running(child)' => Running(child) /\ server'[child].view = server[child].view
        BY <2>1, <2>3, <4>1 DEF Running
      <4>3. Running(child) => server[child].view = 0
        BY <3>2 DEF DocumentInv
      <4> QED
        BY <2>1, <2>5, <3>1, <3>2, <4>1, <4>2, <4>3, ConstantsAreNat DEF DocumentInv
    <3>3. CASE document # 0
      <4>1. server' = Told(rest, document) /\ listening' = TRUE
        BY <2>5, <3>3 DEF OpenAll
      <4>2. /\ rest \in [Children -> Processes] /\ document \in 0..MaxVersion
            /\ child \in Children \cup {None} /\ (Running(child) => rest[child].process = "running")
        BY <1>1, <2>2, <2>3, <3>1 DEF Unread, ClientType, Running
      <4>3. server'[child].process = rest[child].process
            /\ (Running(child) => server'[child].view = document)
        BY <3>1, <4>1, <4>2, ToldEffect
      <4>4. Running(child)' => Running(child)
        BY <2>1, <2>3, <3>1, <4>3 DEF Running
      <4> QED
        BY <2>1, <2>5, <3>1, <4>1, <4>3, <4>4, ConstantsAreNat DEF DocumentInv
    <3> QED
      BY <3>2, <3>3
  <2> QED
    BY <2>2, <2>4, <2>5
<1>14. ASSUME NEW c \in Children, AnswerRequest(c) \/ Report(c)
       PROVE  DocumentInv'
  <2>1. UNCHANGED <<child, initialized, listening, document>>
    BY <1>14 DEF AnswerRequest, Report, clientvars
  <2>2. \A d \in Children : server'[d].process = server[d].process /\ server'[d].view = server[d].view
    BY <1>14, WriteEffect DEF Unread
  <2> QED
    BY <1>1, <2>1, <2>2, DocumentFrame DEF Running, ClientType
<1>15. ASSUME NEW c \in Children, Die(c)
       PROVE  DocumentInv'
  <2>1. UNCHANGED <<child, initialized, listening, document>>
        /\ server' = Ended(c) /\ server[c].process = "running"
    BY <1>15 DEF Die, clientvars, Running
  <2>2. server'[c].process = "dead" /\ \A d \in Children : d # c => server'[d] = server[d]
    BY <2>1, EndedEffect DEF ProcessInv
  <2>3. Running(child)' => Running(child) /\ server'[child] = server[child]
    BY <1>1, <2>1, <2>2 DEF Running, ClientType
  <2> QED
    BY <2>1, <2>3, DocumentFrame
<1>16. CASE UNCHANGED vars
  BY <1>16, DocumentFrame DEF vars, clientvars, Running
<1> QED
  BY <1>3, <1>4, <1>5, <1>6, <1>7, <1>8, <1>9, <1>10, <1>11, <1>12, <1>13, <1>14, <1>15, <1>16
     DEF Next, ClientStep, ProcessStep

-------------------------------------------------------------------------------
\* The invariant, and what it says.

LEMMA InitEstablishesClientInv == Init => ClientInv
<1> SUFFICES ASSUME Init PROVE ClientInv
  OBVIOUS
<1> DEFINE p == [process |-> "unborn", inbox |-> {}, view |-> 0, owed |-> FALSE, output |-> <<>>]
<1>1. server = [c \in Children |-> p] /\ child = None
  BY DEF Init
<1>2. <<>> \in Seq(Chunks) /\ 0 \in 0..MaxVersion /\ 1 \in 0..MaxVersion
  BY EmptySeq, ConstantsAreNat
<1>3. p \in Processes
  <2> DEFINE Outputs == Seq(Chunks)
  <2>1. <<>> \in Outputs
    BY <1>2
  <2>2. Processes =
          {q \in [process : {"unborn", "failed", "running", "dead", "gone"},
                  inbox : SUBSET Messages, view : 0..MaxVersion, owed : BOOLEAN, output : Outputs] :
           q.process # "running" => q.view = 0}
    BY DEF Processes
  <2> HIDE DEF Outputs
  <2> QED
    BY <1>2, <2>1, <2>2
<1>4. ProcessInv
  BY <1>1, <1>3 DEF ProcessInv
<1>5. NumbersInv
  BY UnbornIsFinite, ConstantsAreNat DEF Init, NumbersInv
<1>6. PromiseInv /\ PendingType
  <2>1. PendingIds = {} /\ open = {} /\ pending = [id \in Ids |-> Nothing]
    BY DEF Init, PendingIds, NothingPending
  <2>2. Cardinality(PendingIds) = 0
    BY <2>1, FS_EmptySet
  <2> QED
    BY <2>1, <2>2, ConstantsAreNat DEF PromiseInv, PendingType
<1>7. ClientType /\ RecoveryInv
  <2>1. document \in 0..MaxVersion
    BY <1>2 DEF Init
  <2>2. /\ child = None /\ buffer = Clean /\ sent = 0
        /\ initialized = FALSE /\ diagnostics = FALSE /\ listening = FALSE /\ disposed = FALSE
        /\ restartAttempts = 0 /\ timers = 0 /\ automatic = 0
    BY DEF Init
  <2>3. Clean \in Buffers /\ 0 \in 0..1
    BY DEF Buffers
  <2>4. ClientType
    BY <2>1, <2>2, <2>3 DEF ClientType
  <2> QED
    BY <2>2, <2>4 DEF RecoveryInv
<1>8. DocumentInv
  BY DEF Init, DocumentInv, Running
<1> QED
  BY <1>4, <1>5, <1>6, <1>7, <1>8, TypeWhole DEF ClientInv

LEMMA ClientInvStep == ClientInv /\ [Next]_vars => ClientInv'
<1> SUFFICES ASSUME ClientInv, [Next]_vars PROVE ClientInv'
  OBVIOUS
<1>1. ProcessInv' /\ NumbersInv'
  BY ProcessesStep DEF ClientInv
<1>2. PromiseInv' /\ PendingType'
  BY PromisesStep DEF ClientInv
<1>3. ClientType' /\ RecoveryInv'
  BY RecoveryStep DEF ClientInv
<1>4. DocumentInv'
  BY DocumentStep DEF ClientInv
<1>5. TypeOK'
  BY <1>1, <1>2, <1>3, TypeWhole, PTL
<1> QED
  BY <1>1, <1>2, <1>3, <1>4, <1>5 DEF ClientInv

\* Through starts, crashes, restarts and disposal, each part of the invariant holds.
THEOREM ClientInvariance == Spec => []ClientInv
  BY InitEstablishesClientInv, ClientInvStep, PTL DEF Spec

\* start, fail, settle and receive: no promise is left behind, the map holds the
\* requests of the process that is there now, and never more than the limit.
THEOREM NoPromiseIsLeftBehind == Spec => []PendingIsExact
<1>1. ClientInv => PendingIsExact
  <2> SUFFICES ASSUME ClientInv PROVE PendingIsExact
    OBVIOUS
  <2>1. \A id \in PendingIds : pending[id].request = id
    BY DEF ClientInv, PromiseInv
  <2>2. open = {pending[id].request : id \in PendingIds}
    BY <2>1 DEF ClientInv, PromiseInv
  <2> QED
    BY <2>2 DEF ClientInv, PromiseInv, PendingIsExact
<1> QED
  BY <1>1, ClientInvariance, PTL

\* receive: an answer that arrives late, of the process that is there or of one that
\* was replaced, never completes another request than its own.
THEOREM LateAnswersHarmNothing == Spec => []AnswersReachTheirRequests
<1>1. ClientInv => AnswersReachTheirRequests
  <2> SUFFICES ASSUME ClientInv, NEW c \in Children, NEW n \in DOMAIN server[c].output,
                      server[c].output[n].frame.kind = "answer",
                      server[c].output[n].frame.id \in PendingIds
               PROVE  pending[server[c].output[n].frame.id].request = server[c].output[n].frame.about
    BY DEF AnswersReachTheirRequests
  <2>1. server[c] \in Processes
    BY DEF ClientInv, ProcessInv
  <2>2. server[c].output \in Seq(Chunks)
    BY <2>1, ProcessUpdates
  <2>3. server[c].output[n] \in Chunks
    BY <2>2, LenProperties, ElementOfSeq
  <2>4. server[c].output[n].frame.id = server[c].output[n].frame.about
    BY <2>3 DEF Chunks, Answers
  <2> QED
    BY <2>4 DEF ClientInv, PromiseInv
<1> QED
  BY <1>1, ClientInvariance, PTL

\* openAll, open, change and close: the process that runs knows the document as the
\* editor has it, once it has answered initialize.
THEOREM RunningServerKnowsTheDocument == Spec => []DocumentIsSynchronized
<1>1. ClientInv => DocumentIsSynchronized
  BY DEF ClientInv, DocumentInv, DocumentIsSynchronized
<1> QED
  BY <1>1, ClientInvariance, PTL

\* onExit and the restart timer: one restart at most, until the user asks for one.
THEOREM OneAutomaticRestart == Spec => []RecoveryIsBounded
<1>1. ClientInv => RecoveryIsBounded
  BY DEF ClientInv, TypeOK, RecoveryInv, RecoveryIsBounded
<1> QED
  BY <1>1, ClientInvariance, PTL

===============================================================================
