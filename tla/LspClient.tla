------------------------------ MODULE LspClient ------------------------------
(***************************************************************************)
(* vscode-cplus/src/lspClient.ts: the VS Code client of the language       *)
(* server, through starts, crashes, restarts and disposal of the server's  *)
(* process.  One callback of the editor or of Node (a chunk of output, an  *)
(* exit, a timer, a command), with what its promises run before the next   *)
(* callback, is one action.                                                *)
(*                                                                         *)
(* Abstracted: one document; a frame of the server is an answer or a       *)
(* report of diagnostics and arrives whole or in two chunks; `started' is  *)
(* child # None; a process that is killed writes no more, but what it wrote *)
(* may arrive at any time later, so that it might as well have written it   *)
(* before; watched files, saves and logging change nothing here.           *)
(***************************************************************************)
EXTENDS Naturals, Sequences, FiniteSets

CONSTANTS MaxChildren,   \* bound: the processes a behaviour starts
          MaxRequests,   \* bound: the requests of the editor's features
          MaxPending,    \* 128
          MaxVersion,    \* bound: the versions of a document between open and close
          MaxOutput      \* bound: the frames of a process on their way

ASSUME ClientAssumption ==
    {MaxChildren, MaxRequests, MaxPending, MaxVersion, MaxOutput} \subseteq Nat \ {0}

VARIABLES
    child,            \* the current process, or None
    buffer,           \* the unread output: Clean at the end of a frame, <<c>>
                      \* within a frame of c, Lost when frames cannot be told apart
    nextId,
    sent,             \* history: how many requests were made; each is known by its number
    pending,          \* pending[id]: the request that waits under id, or Nothing
    open,             \* the requests whose promise is not settled
    initialized,      \* whether start went on after initialize for the current process
    diagnostics,      \* whether a report is shown
    listening,        \* whether the editor's events are subscribed to
    disposed,
    restartAttempts,
    timers,           \* the restart timers that run
    automatic,        \* history: restarts by timer since the last one by command
    document,         \* the editor's document: 0 if closed, else its version
    server            \* server[c]: the c-th process

\* server[c].process is "unborn", "failed" (to start), "running", "dead" (its exit
\* not reported yet) or "gone"; inbox holds the requests it may answer, by id and
\* number; view is the version of the document it was told, 0 if none; owed tells
\* whether it has a report to make; output holds the chunks it has written.

clientvars == <<child, buffer, nextId, sent, pending, open, initialized, diagnostics,
                listening, disposed, restartAttempts, timers, automatic>>
vars == <<clientvars, document, server>>

None == 0
Clean == <<>>
Lost == <<None>>
Children == 1..MaxChildren
Requests == 1..(MaxChildren + MaxRequests)
Ids == Requests
Entry(method, c, i) == [method |-> method, child |-> c, request |-> i]
Nothing == Entry("none", None, None)
NothingPending == [id \in Ids |-> Nothing]
PendingIds == {id \in Ids : pending[id] # Nothing}
Unborn == {c \in Children : server[c].process = "unborn"}
Running(c) == c # None /\ server[c].process = "running"

Init ==
    /\ child = None /\ buffer = Clean
    /\ nextId = 1 /\ sent = 0 /\ pending = NothingPending /\ open = {}
    /\ initialized = FALSE /\ diagnostics = FALSE /\ listening = FALSE /\ disposed = FALSE
    /\ restartAttempts = 0 /\ timers = 0 /\ automatic = 0
    /\ document \in {0, 1}
    /\ server = [c \in Children |-> [process |-> "unborn", inbox |-> {}, view |-> 0,
                                     owed |-> FALSE, output |-> <<>>]]

-------------------------------------------------------------------------------
\* Requests and how they end.

\* fail: every pending request is rejected.
StillOpen == open \ {pending[id].request : id \in PendingIds}
fail == open' = StillOpen /\ pending' = NothingPending

\* One pending request ends: its entry goes, and its promise is settled.
Settle(id) ==
    /\ pending' = [pending EXCEPT ![id] = Nothing]
    /\ open' = open \ {pending[id].request}

\* A request of one of the editor's features. At the limit it throws.
request ==
    /\ child # None
    /\ nextId <= Cardinality(Ids) - Cardinality(Unborn)
    /\ nextId' = nextId + 1
    /\ sent' = sent + 1
    /\ IF Cardinality(PendingIds) >= MaxPending THEN UNCHANGED <<pending, open, server>>
       ELSE /\ pending' = [pending EXCEPT ![nextId] = Entry("feature", child, sent')]
            /\ open' = open \cup {sent'}
            /\ server' = IF ~Running(child) THEN server
                         ELSE [server EXCEPT ![child].inbox = @ \cup {<<nextId, sent'>>}]
    /\ UNCHANGED <<child, buffer, initialized, diagnostics, listening, disposed,
                   restartAttempts, timers, automatic, document>>

\* The request's timer or its token's callback. The server may answer or not.
GiveUp(id) ==
    /\ id \in PendingIds
    /\ Settle(id)
    /\ UNCHANGED <<child, buffer, nextId, sent, initialized, diagnostics, listening, disposed,
                   restartAttempts, timers, automatic, document, server>>

-------------------------------------------------------------------------------
\* Processes.

\* A process ends, by itself or because it is killed.
Ended(c) == [server EXCEPT ![c] = [@ EXCEPT !.process = "dead", !.inbox = {}, !.view = 0, !.owed = FALSE]]
Killed == IF Running(child) THEN Ended(child) ELSE server

\* What stopProcess and onExit set.
NoChild == child' = None /\ buffer' = Clean /\ diagnostics' = FALSE /\ initialized' = FALSE
stopProcess == NoChild /\ server' = Killed

\* Variant: ids start again with each process.
FirstIdAgain == 1

FirstId == nextId

\* start: a process, and the initialize request to it. `before' are the promises
\* that are open after what the same callback did first, and `servers' the
\* processes; nothing is pending then.
start(before, servers) ==
    \E outcome \in {"running", "failed"} :
        LET c == CHOOSE x \in Unborn : \A y \in Unborn : x <= y
        IN  /\ child' = c
            /\ nextId' = FirstId + 1
            /\ sent' = sent + 1
            /\ pending' = [NothingPending EXCEPT ![FirstId] = Entry("initialize", c, sent')]
            /\ open' = before \cup {sent'}
            /\ server' = [servers EXCEPT ![c].process = outcome,
                    ![c].inbox = IF outcome = "running" THEN {<<FirstId, sent'>>} ELSE {}]

\* Activation of the extension.
Activate ==
    /\ Unborn = Children /\ ~disposed
    /\ start(open, server)
    /\ UNCHANGED <<buffer, initialized, diagnostics, listening, disposed, restartAttempts,
                   timers, automatic, document>>

\* clearTimeout(restartTimer)
TimerCleared == IF timers > 0 THEN timers - 1 ELSE 0

\* restart, by the user's command or after a change of settings.
restart ==
    /\ Unborn # Children /\ Unborn # {} /\ ~disposed
    /\ restartAttempts' = 0 /\ automatic' = 0
    /\ timers' = TimerCleared
    /\ buffer' = Clean /\ diagnostics' = FALSE /\ initialized' = FALSE
    /\ start(StillOpen, Killed)
    /\ UNCHANGED <<listening, disposed, document>>

\* The restart timer: start, which does nothing while a process is there.
TimerFires ==
    /\ timers > 0
    /\ timers' = timers - 1
    /\ IF child # None
       THEN UNCHANGED <<child, nextId, sent, pending, open, automatic, server>>
       ELSE /\ Unborn # {}
            /\ start(open, server)
            /\ automatic' = automatic + 1
    /\ UNCHANGED <<buffer, initialized, diagnostics, listening, disposed, restartAttempts,
                   document>>

dispose ==
    /\ ~disposed
    /\ disposed' = TRUE /\ listening' = FALSE
    /\ timers' = TimerCleared
    /\ stopProcess
    /\ fail
    /\ UNCHANGED <<nextId, sent, restartAttempts, automatic, document>>

\* Variant: requests to a process that is gone are left to their timers.
ExitUnnoticed ==
    /\ NoChild
    /\ UNCHANGED <<pending, open>>
    /\ restartAttempts' = IF disposed \/ restartAttempts >= 1 THEN restartAttempts ELSE restartAttempts + 1
    /\ timers' = IF disposed \/ restartAttempts >= 1 THEN timers ELSE timers + 1

\* Variant: the restarts are counted from the second on.
RestartTwice ==
    /\ NoChild
    /\ fail
    /\ IF disposed \/ restartAttempts > 1 THEN UNCHANGED <<restartAttempts, timers>>
       ELSE restartAttempts' = restartAttempts + 1 /\ timers' = timers + 1

\* onExit for the current process: one restart, after a while.
CurrentExits ==
    /\ NoChild
    /\ fail
    /\ IF disposed \/ restartAttempts >= 1 THEN UNCHANGED <<restartAttempts, timers>>
       ELSE restartAttempts' = restartAttempts + 1 /\ timers' = timers + 1

onExit(c) ==
    /\ server[c].process = "dead"
    /\ server' = [server EXCEPT ![c].process = "gone"]
    /\ IF child = c THEN CurrentExits
       ELSE UNCHANGED <<child, buffer, diagnostics, initialized, pending, open, restartAttempts,
                        timers>>
    /\ UNCHANGED <<nextId, sent, listening, disposed, automatic, document>>

\* The "error" event of a process that did not start. It stays the child.
StartError(c) ==
    /\ server[c].process = "failed"
    /\ server' = [server EXCEPT ![c].process = "gone"]
    /\ IF child = c THEN fail ELSE UNCHANGED <<pending, open>>
    /\ UNCHANGED <<child, buffer, nextId, sent, initialized, diagnostics, listening, disposed, restartAttempts,
                   timers, automatic, document>>

\* The "error" event of the input of a process that has ended.
StdinError(c) ==
    /\ server[c].process = "dead" /\ child = c
    /\ fail
    /\ UNCHANGED <<child, buffer, nextId, sent, initialized, diagnostics, listening, disposed, restartAttempts,
                   timers, automatic, document, server>>

-------------------------------------------------------------------------------
\* The document. Messages reach the process unless it has ended.

Told(servers, version) ==
    IF ~Running(child) THEN servers
    ELSE [servers EXCEPT ![child].view = version, ![child].owed = TRUE]

\* Variant: documents are opened where the events are subscribed to, once.
OpenAllOnce(servers) ==
    /\ listening' = TRUE
    /\ server' = IF document = 0 \/ listening THEN servers ELSE Told(servers, document)

\* What start does once initialize is answered.
OpenAll(servers) ==
    /\ listening' = TRUE
    /\ server' = IF document = 0 THEN servers ELSE Told(servers, document)

\* open, change and close, and what the editor does before. What the editor does
\* after the client is disposed of reaches nothing of it, and is left out.
EditorSets(version) ==
    /\ ~disposed
    /\ document' = version
    /\ server' = IF listening THEN Told(server, version) ELSE server
    /\ UNCHANGED <<child, buffer, nextId, sent, pending, open, initialized, listening, disposed,
                   restartAttempts, timers, automatic>>

OpenDocument == document = 0 /\ EditorSets(1) /\ UNCHANGED diagnostics
ChangeDocument ==
    document \in 1..(MaxVersion - 1) /\ EditorSets(document + 1) /\ UNCHANGED diagnostics
CloseDocument ==
    /\ document # 0
    /\ EditorSets(0)
    /\ diagnostics' = (diagnostics /\ ~listening)

-------------------------------------------------------------------------------
\* The server's process, as far as the client can tell.

Whole(frame) == [frame |-> frame, part |-> "whole"]
MayWrite(c) == Running(c) /\ Len(server[c].output) < MaxOutput

AnswerRequest(c) ==
    /\ MayWrite(c)
    /\ \E message \in server[c].inbox :
          server' = [server EXCEPT ![c].inbox = @ \ {message},
              ![c].output = Append(@, Whole([kind |-> "answer", id |-> message[1], about |-> message[2]]))]
    /\ UNCHANGED <<clientvars, document>>

\* publishDiagnostics, for the version the server has; empty for a closed document.
Report(c) ==
    /\ MayWrite(c) /\ server[c].owed
    /\ server' = [server EXCEPT ![c].owed = FALSE,
           ![c].output = Append(@, Whole([kind |-> "diagnostics", id |-> None, about |-> server[c].view]))]
    /\ UNCHANGED <<clientvars, document>>

Die(c) ==
    /\ Running(c)
    /\ server' = Ended(c)
    /\ UNCHANGED <<clientvars, document>>

-------------------------------------------------------------------------------
\* Output, from whichever process it comes.

\* receive, for an answer: the request that waits under its id is resolved, and
\* start goes on if it was initialize.
ReceiveAnswer(id, rest) ==
    IF id \notin PendingIds
    THEN server' = rest /\ UNCHANGED <<pending, open, initialized, listening>>
    ELSE /\ Settle(id)
         /\ IF pending[id].method = "initialize" THEN initialized' = TRUE /\ OpenAll(rest)
            ELSE server' = rest /\ UNCHANGED <<initialized, listening>>

\* receive, for diagnostics: a report that is older than the document is dropped.
ReceiveDiagnostics(version) ==
    diagnostics' = IF version # 0 /\ (version < document \/ disposed) THEN diagnostics
                   ELSE version # 0

receive(frame, rest) ==
    IF frame.kind = "answer" THEN ReceiveAnswer(frame.id, rest) /\ UNCHANGED diagnostics
    ELSE /\ ReceiveDiagnostics(frame.about)
         /\ server' = rest
         /\ UNCHANGED <<pending, open, initialized, listening>>

\* consume: what the bytes of a chunk of c do to the unread output. A frame is
\* found whole only at a boundary, or when its end follows its beginning.
consume(c, frame, part, rest) ==
    LET completes == <<part, buffer>> \in {<<"whole", Clean>>, <<"tail", <<c>> >>}
    IN  /\ buffer' = IF completes THEN Clean
                     ELSE IF part = "head" /\ buffer = Clean THEN <<c>>
                     ELSE Lost
        /\ IF completes THEN receive(frame, rest)
           ELSE server' = rest /\ UNCHANGED <<pending, open, initialized, listening, diagnostics>>

\* A "data" event: the next chunk of c, or the first part of it.
Data(c) ==
    /\ server[c].output # <<>>
    /\ LET next == Head(server[c].output)
           rest == Tail(server[c].output)
           left(output) == [server EXCEPT ![c].output = output]
       IN  \/ consume(c, next.frame, next.part, left(rest))
           \/ /\ next.part = "whole"
              /\ consume(c, next.frame, "head", left(<<[next EXCEPT !.part = "tail"]>> \o rest))
    /\ UNCHANGED <<child, nextId, sent, disposed, restartAttempts, timers, automatic, document>>

\* protocolFailure: frames that run together make a header of more than 8 KiB.
protocolFailure ==
    /\ buffer = Lost
    /\ fail
    /\ stopProcess
    /\ UNCHANGED <<nextId, sent, listening, disposed, restartAttempts, timers, automatic,
                   document>>

-------------------------------------------------------------------------------
ClientStep ==
    \/ Activate \/ restart \/ TimerFires \/ dispose \/ protocolFailure
    \/ request \/ \E id \in Ids : GiveUp(id)
EditorStep == OpenDocument \/ ChangeDocument \/ CloseDocument
ProcessStep(c) ==
    \/ onExit(c) \/ StartError(c) \/ StdinError(c) \/ Data(c)
    \/ AnswerRequest(c) \/ Report(c) \/ Die(c)

Next == ClientStep \/ EditorStep \/ \E c \in Children : ProcessStep(c)

Spec == Init /\ [][Next]_vars

-------------------------------------------------------------------------------
\* Properties.

Frames == [kind : {"answer", "diagnostics"}, id : Ids \cup {None}, about : Nat]

TypeOK ==
    /\ child \in Children \cup {None}
    /\ buffer \in {Clean, Lost} \cup {<<c>> : c \in Children}
    /\ nextId \in 1..(Cardinality(Ids) + 1) /\ sent \in Requests \cup {0}
    /\ pending \in [Ids -> {Nothing} \cup [method : {"initialize", "feature"},
                                           child : Children, request : Requests]]
    /\ open \in SUBSET Requests
    /\ {initialized, diagnostics, listening, disposed} \subseteq BOOLEAN
    /\ restartAttempts \in 0..1 /\ timers \in Nat /\ automatic \in Nat
    /\ document \in 0..MaxVersion
    /\ server \in [Children ->
           [process : {"unborn", "failed", "running", "dead", "gone"},
            inbox : SUBSET (Ids \X Requests), view : 0..MaxVersion, owed : BOOLEAN,
            output : Seq([frame : Frames, part : {"whole", "tail"}])]]

\* No promise is left behind: the open ones are those in the map, which are of
\* the process that is there now. With no process nothing waits.
PendingIsExact ==
    /\ TypeOK
    /\ open = {pending[id].request : id \in PendingIds}
    /\ \A id \in PendingIds : pending[id].child = child
    /\ Cardinality(PendingIds) <= MaxPending

\* A request is resolved by its own answer: a late answer, of this process or of
\* one that was replaced, never completes another. Whatever answer is on its way
\* is the one to the request under its id, if there still is one.
AnswersReachTheirRequests ==
    \A c \in Children : \A n \in DOMAIN server[c].output :
        LET frame == server[c].output[n].frame
        IN  frame.kind = "answer" /\ frame.id \in PendingIds
                => pending[frame.id].request = frame.about

\* Once the process that runs has answered initialize it knows the document as the
\* editor has it, however often the editor changed it while processes came and went.
DocumentIsSynchronized ==
    Running(child) /\ initialized => server[child].view = document

\* SPEC.lsp.md: automatic recovery is bounded to one restart until an explicit one.
RecoveryIsBounded == automatic <= 1

\* SPEC.lsp.md: a restart clears diagnostics. None are shown while there is no
\* process to report any.
DiagnosticsAreCleared == child = None => ~diagnostics

\* SPEC.lsp.md: a restart re-opens the current buffers. A process whose client has
\* heard all it had to say, and has not given it up, has been told the document.
RestartReopensDocument ==
    Running(child) /\ server[child].inbox = {} /\ server[child].output = <<>>
    /\ (\E id \in PendingIds : pending[id].method = "initialize")
        => server[child].view = document
===============================================================================
