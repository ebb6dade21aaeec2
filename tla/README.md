# C-plus, in TLA+

TLA+ specifications of the C-plus repository: models of its components, TLC
configurations that check them on small instances, and proofs that TLAPS checks
for instances of any size. Paths below are relative to the repository's root.

## 1. The system

C-plus is a C dialect. The repository holds a compiler (Kotlin), a command line
with a package manager, a language server and three editor clients, and a
standard library written in C-plus itself.

| Component | Where | State it keeps | Operations | Hard part |
| --- | --- | --- | --- | --- |
| Thread pool | `stdlib/concurrency/thread_pool.cp` | ready ring, active registry, task records, worker threads, pool state | init, submit, cancel, wait, shutdown, destroy, the worker loop | two workers, callbacks outside the lock, two condition variables, failing native calls |
| HTTP server | `stdlib/http/server.cp` | exchange slots, routes, head and router tasks, running and started flags | add_route, start, stop, destroy, head, router and handler callbacks | three kinds of tasks and the program share slots; start and stop race with all of them |
| HTTP framing | `stdlib/http/protocol.cp` | none | request_complete, response_framing, route_matches | requests cut anywhere, arithmetic on declared lengths |
| Memory | `stdlib/memory/xmem.cp` | per arena: regions, blocks, free list, statistics | alloc, realloc, free, reset, destroy | splitting, coalescing, growing in place, direct mappings |
| HTTP client, sockets | `stdlib/http/client.cp`, `stdlib/net/socket.cp` | a connection | request | one deadline for all phases |
| Files and streams | `stdlib/io` | cursor, buffer | read, write, seek | limits, growth |
| Containers, strings, encodings | `stdlib/containers`, `stdlib/strings`, `stdlib/encodings` | buffers | insert, remove, lookup, decode | growth, bounds |
| UI runtime | `stdlib/ui` | component states, virtual trees | render, reconcile, dispatch | state kept across reorderings |
| Compiler | `compiler/src/main`, `parser-tree-sitter/src/jvmMain` | source snapshots, import graph, syntax trees, mappings | parse, evaluate at compile time, lower, emit, call a C compiler | cyclic imports, order of passes, positions through rewritings |
| Command line | `cli/src/main` | project file, lockfile, installed packages and toolchains | add, install, update, build, run | interrupted installations, one lockfile for two commands, an upstream that changes |
| Language server | `cli/src/main/kotlin/cplus/lsp` | documents, open set, two import maps; request states, sets of ids, executor queue, read-write lock | open, change, save, close, file changes, about ten kinds of queries, cancel, shutdown, exit | a reader thread and an executor, snapshots, cancellation, ids used again, derived data that follows imports |
| Editor clients | `vscode-cplus`, `intellij-cplus`, `vim-cplus` | server process, unread output, pending requests, restart timer, shown diagnostics | start, request, cancel, time out, notify, restart, dispose | crashes and restarts with requests open, output of a process that was replaced |

How they meet at run time: the server's head and router are two persistent tasks
of a thread pool the program owns. The head accepts connections and calls the
framing on what it has received; the router submits one handler task per whole
request and asks the pool how it ended. They share the exchanges under the
server's mutex and call the pool, which has a mutex of its own, while holding
it. Containers, strings and the UI take their memory from the arenas. At
development time the editor clients speak JSON over pipes to the language
server, which uses the compiler's parser and import resolution. The VS Code
client owns the server's process: it starts it, tells it every open document,
matches its answers to promises by id, and starts it again when it ends. The
command line's two installers share `cplus.lock`: one pins toolchains in it, the
other records packages in it, and each writes the whole file.

The correctness a user relies on, per modelled component:

* pool: a task runs in one place at a time, in FIFO order, leaves the pool
  exactly once, and every thread that waits for it is woken;
* server: a handler's memory is not reused under it, an answer says how the
  handler ended, a stopped server is quiet, whole requests are answered;
* framing: the verdict does not depend on how the bytes arrived;
* arenas: memory in use is mapped and undisturbed, freed memory is whole again;
* language server, requests: each is answered at most once, from the documents as
  they were when it was read, and goes without an answer only where it was
  cancelled or the server ended;
* language server, documents: the import maps are inverse and hold what open
  documents reach, and what was derived from a document is derived again when
  anything in its import closure changes;
* VS Code client: every promise is settled, by its own answer or a failure,
  whatever the process does, and a new process knows the documents as they are;
* installers: a toolchain stays what the lock says until it is updated, and the
  packages a command has placed are a complete tree.

## 2. Modules

```
Fifo <--- ReadyRing
TaskQueue <--- ThreadPool <--- ThreadPoolProofs, MCThreadPool
   ^
   +----- HttpServer <--- HttpServerProofs, MCHttpServer
HttpService <--- HttpServer
HttpFraming <--- HttpFramingProofs
Arena <--- ArenaProofs
LspService <--- LspRequests <--- LspRequestsProofs, MCLspRequests
LspDocuments <--- LspDocumentsProofs, MCLspDocuments
LspClient <--- LspClientProofs
Lockfile <--- Toolchains, Packages <--- Installs <--- InstallsProofs, MCInstalls
```

An arrow from left to right reads "is implemented by" or "is extended by".

| Module | What it is |
| --- | --- |
| `TaskQueue` | What the pool promises: a FIFO of tasks without threads or locks. |
| `ThreadPool` | The pool's code: workers, callers, waiters, lifecycle calls, failing native calls. Refines `TaskQueue`. |
| `Fifo`, `ReadyRing` | The ring of slots with its compaction, and the sequence it stands for. |
| `ThreadPoolProofs` | Theorems about `ThreadPool`: with any native failures; where locks succeed; and that it then implements `TaskQueue`. |
| `HttpService` | What the server promises to a client of each connection. |
| `HttpServer` | The server's code over `TaskQueue`. Refines `HttpService`. |
| `HttpServerProofs` | The invariant of `TaskQueue`; theorems about `HttpServer`, its contract with the pool, and that it implements `HttpService`. |
| `HttpFraming` | The request parser, and the receive loop that calls it. |
| `HttpFramingProofs` | Theorems about both: numbers, headers, and chunks. |
| `Arena` | A managed arena of `xmem.cp` and the program that uses it. |
| `ArenaProofs` | Theorems about `Arena`: the heap through splits, merges and mappings. |
| `LspService` | What the language server promises for each request. |
| `LspRequests` | Its reader thread, executor, lock and cancellations. Refines `LspService`. |
| `LspRequestsProofs` | Theorems about `LspRequests`, and that it implements `LspService`. |
| `LspDocuments` | Its documents and import graph, under the editor and other programs. |
| `LspDocumentsProofs` | Theorems about its import graph, and about what documents are derived from. |
| `LspClient` | The VS Code client, with the processes it starts and the editor's document. |
| `LspClientProofs` | Theorems about `LspClient`. |
| `Lockfile` | `cplus.lock`, and what a write of it leaves when it is cut. |
| `Toolchains` | `toolchain install` and `update`, and the upstream repository. |
| `Packages` | `pkg add` and `pkg install`, and the user's own changes. |
| `Installs` | Both over one project and its lock, and what both promise. |
| `InstallsProofs` | Theorems about both promises. |
| `MCThreadPool`, `MCHttpServer`, `MCLspRequests`, `MCLspDocuments`, `MCInstalls` | Symmetry sets, sequences of requests, workspaces and packages for TLC. |

Definitions have the names of the C functions and fields where TLA+ allows it.
Some are preceded by a *variant*, the same definition with a plausible slip;
`PROJECT.json` pairs each property with a variant that it refutes.

### ThreadPool

One critical section of the pool's mutex is one action. A thread inside
`condition_wait` has left the critical section and is `parked`, so the loop in
`worker` is `StepBegin`, `Park` or `WorkerExits`, one pass at a time, and the
loop in `wait` is `WaitAgain` or `WaitReturns`. The callback runs between
`StepBegin` and `StepReturn`, when everything else may happen; a call it makes
to `submit` or `cancel` is the same action as one by an application thread.
Signals choose any parked worker, and both condition variables wake up
spuriously. `init`, `shutdown` and `destroy` are split at their joins
(`lpc`, `lidx`), because the workers act in between.

`Faults` names the native calls that may fail, each at the places where the code
looks at the result: `lock` (the worker's two locks, the second one of
`shutdown`), `wait`, `create` and `join`. A failed `init` drops what its joins
return (line 397) and clears the storage next. Where one has failed a worker is left
in storage that is not a pool's any more; the model lets it return, as from a pool
that is STOPPED, and has no second `init` under it, whose outcome is undefined.

What is abstracted: the ring is a sequence (`ReadyRing` justifies it), the
registry a set, since the order of its array is never observed; `step_count` is
left out; a call that returns an error and changes nothing is a stuttering step.

The model takes the contract of `THREAD_POOL.SPEC.md` for its environment: calls
are made between the return of `init` and the call of `destroy`, lifecycle calls
are serialized and not made from callbacks, nobody waits while the pool is
destroyed, and a task is initialized only when it is neither in the pool nor
waited for.

### HttpServer

The server is modelled over the *abstract* pool, which `ThreadPool` implements:
the variables `phase`, `queue`, `doomed` and `open` are `TaskQueue`'s, and each
pool call of the server is a `TaskQueue` action. That the server calls the pool
only as it may is a property (`UsesPoolWithinContract`), not an assumption.

Head and router keep the server's mutex while they go through the exchanges;
`holder` and `todo` make each exchange an action, in any order, so that workers
can act in the pool between two of them. A slot stands for its exchange and for
the handler task inside it. A request is the path it asks for. A response is
known by its author (`route`, `404`, `500`, `503`, `refused`) and takes
`ResponseChunks` sends. Fields that `release_exchange_locked` leaves stale are
left stale. `start` and `stop` are split at every pool call and every wait. The
pool may close at any moment: a worker that cannot wait shuts it down.

Handlers do what `stdlib/README.md` allows: respond once, or append and finish;
they may yield (at most `MaxSlices` times), complete without a response, or fail
after publishing one. Left out: bytes and sizes of responses, unique ids, lock
failures, a `status` call that fails.

The pool's `wait` may return an error before the task has ended (`thread_pool.cp`
lines 494-496), and the server never looks at what it returned (`server.cp` lines
475, 567, 568 and 574). With `WaitsFail` each of the four waits may end early
(`Waited`). The runs and the theorems have it FALSE: `pthread_mutex_lock` and
`pthread_cond_wait` fail on an invalid or foreign mutex only, and the pool waits on
its own, under its lock. `HttpServerWaits.cfg` shows what happens otherwise.

### HttpFraming

A message is a request line (valid or not), headers, an empty line and a body, of
which the client sends a prefix of any length; the connection may break at any time.
Each line and each byte of the body is one unit. A header is what `parse_headers`
distinguishes: a `Content-Length` with its digits, a `Transfer-Encoding` empty or
not, another header, or a line without a name. `parse_decimal` keeps its overflow
test for a `size_t` up to `SizeMax`, in base `Base`. `Meant` is the reference: what
the message is, seen as a whole and without a bound on numbers.

### Arena

Addresses are pairs of a region and an offset; offsets, spans and sizes count units
of the block alignment, to which `block_requirements` rounds. A header is an entry
of `arena.block` under its own address, with its links; a block that is merged or
unmapped takes its header away. The model computes user offsets with padding for
alignment, first fit in list order, splits, both directions of coalescing, in-place
shrinking and growing, doubling region sizes, direct mappings, and mappings the
system refuses. The size of the first region and the threshold of direct mappings
are fields that `Init` and a new arena choose from `RegionSizes` and `Thresholds`,
as hot, warm and cold arenas differ in them. `live` is what the program holds; it
frees and reallocates nothing else. Left out: contents, debug guards, the reserved
and peak statistics, the scratch arena.

### LspRequests

`serve` handles one message at a time on its own thread, so each message is an
action, except where it blocks: an edit waits for the write lock (`ReceiveEdit`,
`withWriteState`), and shutdown waits for the executor (`BeginShutdown`,
`Drained`, `DrainTimesOut`). A document request that has to wait for the read
lock is not taken from the stream until the lock is free for it, which the
client cannot tell apart. A thread of the executor is split where another thread
can make a difference: when it takes a request, gets the lock, has its result,
answers, and removes its state. `ReentrantReadWriteLock(true)` is `lockQueue`.
The documents are a bit that every edit flips: an answer from the wrong side of
one edit is told apart, and the number of edits has no bound.

`LspService` knows neither threads nor locks. Which cancellation is meant for
which request is stated there, over ids in the order of their use.

### LspDocuments

Every handler runs under the write lock and is one action; its parts are
operators from a record of the server's maps to the next one, in the order of
the code. A text is an identity and the files it imports. What the server derives
from a document is abstracted to what it was derived from at the last parse, which
is of two kinds. `inputs` is for the materialized tree, its spans and symbols: the
contents of the files of the import closure, buffers before files, as the compiler's
resolver finds them from the new text. `seen` is for the diagnostics of ambiguous
calls: the documents that were in reach over the server's own edges, which are those
of the text before (line 351 is before line 136), and their texts; whether the
symbols of these were themselves current is not part of it. The files change at any
time and their notifications come later, once for several changes. Every
notification of the editor has a version, as those of all clients in the repository
have, and versions start at 1 with each opening; one without a version, which the
code takes as it comes, is not modelled.

### LspClient

Callbacks of Node run one after another, so each is an action, with the promises
it settles and what `start` does after its `await`. The extension's processes are
`server[c]`, for the first, second, ... that was spawned. They are the
environment: one answers any request it has, reports diagnostics after it was
told a document, fails to start, or ends. What a process wrote may arrive at any
time later, also after its exit was seen or another process was started, because
the callback of line 92 is never taken back. The unread output is `Clean`, the
beginning of a frame, or `Lost`: a part of one frame followed by anything but
its other part.

### Installs

A command is a process with a program counter, cut wherever a kill or a failing
file operation would leave something behind, or where upstream can change: the
download, the checksum that is fetched after it, the removal of the old bundle,
the move of the new one, the reading and the writing of the lock. What a command
only reads or keeps in directories of its own is one step. A damaged or
unsound archive, an upstream that does not answer and a checksum that does not
agree all end in `Reject`.
The address that a download ends at is taken to name its release; where it has no
segment `download`, `releaseFrom` (line 141) takes its first segment for one, and
the requests that follow fail, which is `Reject` again.

An archive is its release and the number of times its assets were replaced, which
stands for the digest. The lock is its section of toolchains; the section of
packages is written and never read. A write that is cut leaves the first entries.
`resolve` is the recursive function of the code over `Manifest`, with its two tests
in their order, for the manifest or for a request of up to `MaxRequested`
references, two of one name included. A recursive function of TLA+ has one argument,
so a call is a record of its three parameters, and `resolveAll` is told which
function to call.

`pin`, `doubt` and `fragments` are history: what the last command that went
through recorded for a reference, and which references and modules a broken
command has left half done. Left out: the staging directories, which no other
command reads, and the atomicity of the manifest's own rewriting by `pkg add`.

## 3. Runs

| Run | Instance | Question |
| --- | --- | --- |
| `thread_pool_faults` | 4 tasks, 3 slots, 2 workers, 2 waiters; all native calls fail | What holds whatever fails: ring, callbacks, cancellations, verdicts, the end of the workers of a stopped pool? |
| `thread_pool_fair` | 3 tasks, 3 slots, 1 waiter, no symmetry; `wait` and `create` fail | What needs working locks: is the registry exact, is no wakeup lost, does no worker outlive the storage, does everything come to its end, in FIFO order? |
| `ready_ring` | 4 slots and 5 tasks | Is the array code a FIFO with withdrawal? |
| `http_server` | 2 slots, 2 workers, 1 route | Are exchanges handled safely, and as promised? |
| `http_server_fair` | 1 slot and a competing task, a pool of 3 places | Are requests answered, and do calls return? |
| `http_framing` | headers up to 3, buffer of 4 units, `size_t` of 4 bits | Is the verdict independent of the chunks? |
| `arena_managed` | 2 regions of different sizes, 2 sizes, 2 alignments; arenas with and without direct mappings | Do block chain, free list and statistic stay exact, and does all memory come back? |
| `arena_direct_realloc` | 3 regions, direct mappings that are resized | And when direct mappings shrink? (no) |
| `lsp_requests` | 3 requests of both kinds, under ids of their own or all under one; 1 thread, 1 queue place, sets of 1 id | Does the server keep its promise for each request, also when ids return, and does nothing hang? |
| `lsp_documents` | 3 files with two texts each, of different imports; chains and cycles; a and c are opened, b and c written by others | Is the graph consistent, and are trees, spans and symbols derived from no old texts? |
| `lsp_client` | 3 processes, 1 feature request besides initialize, 2 pending, 1 document in 2 versions | Are promises and documents right through crashes and restarts? |
| `installs` | 1 reference with 2 releases of 2 editions, one unsound; 3 package names with 6 sources: trees, a cycle, one that is missing | Are toolchains reproducible and package trees complete, whatever upstream does and wherever commands are killed? |

Further configurations show, by a counterexample, a promise of the documentation
that the code does not keep (section 5): `HttpFramingDuplicates.cfg`,
`LspLateCancel.cfg`, `LspShutdown.cfg`, `LspDocumentsCreated.cfg`,
`LspDocumentsSaved.cfg`, `LspDocumentsReopened.cfg`, `LspDocumentsDiagnostics.cfg`,
`LspClientDiagnostics.cfg`, `LspClientReopens.cfg`, `InstallsRebound.cfg`,
`InstallsPartial.cfg` and `InstallsPins.cfg`. Three show where theorems stop:
`ThreadPoolUnwinds.cfg` and `HttpServerWaits.cfg`, with failing native calls whose
results the code ignores, and `InstallsTwice.cfg`, with two commands at a time. Two
are larger instances that hold: `LspReusedIds.cfg`, with two threads, and
`InstallsToolchains.cfg`, with the two references of a triple. Run each with the
module of the same beginning (`MC` in front, where there is one).

Why these bounds are enough. The pool's code compares with its capacity and
with its two workers, never with other numbers: one task more than there are
slots reaches a full pool, and two workers are all there can be by default. Two
waiters are needed for a broadcast to matter. The ring's arithmetic is modulo
the capacity, and four slots let the head stand at the first, an inner and the
last one with every possible length. Two exchanges let the head release one
while the router dispatches the other; the pool of the safety run has exactly
the places the server's `#error` demands, and the one of the liveness run loses
a place to another task, so that `start` and dispatch can find it full. The
framing instance has numbers on both sides of `SizeMax`, headers that end
beyond the buffer, and bodies below, at and beyond the declared length. The
arena instance has room for splits that are just possible and just not, a second
region that is mapped and refused, and alignment padding.

One thread, one queue place and three requests reach a request that runs, one
that is queued and one that is refused, under one id or several; in
`LspReusedIds.cfg` a second thread lets a request run beside its predecessor under
the same id. Sets of one id forget at the second. Three files
give an import that is direct, one that is indirect, and a cycle; one is only opened,
one only written by others, and one both. A second version of an open document is
where its imports change, and more of them add nothing, because versions are only
compared. Three processes
are one that crashes, one that the timer starts and one more, which is where a
second automatic restart would show. A document of two versions lets a report be
older than the text, and lets it be closed and opened between two processes.

One reference has a pinned release with a later one, and editions on both sides of
the pin. A lock of one entry is cut with or without it; that a cut loses the
entries of others needs two, as in `InstallsToolchains.cfg`. The packages have
a name that two others need from different sources, a cycle of two, and a
dependency that cannot be obtained.

Named bounds: `MaxSlices` (slices of a handler), `ResponseChunks`, `MaxDigits`,
`MaxHeaders` and `MaxSent` (messages), `Regions` (regions mapped at a time), the
lengths in `Scripts` (requests to the language server), `MaxVersion` (versions of an
open document, and those that reloads of a document reach), `MaxChildren`,
`MaxRequests` and `MaxOutput` (processes, requests and frames on their way in the
client), `MaxRelease` and `MaxEdition` (what upstream publishes), `MaxRequested`
(references in one request). `http_framing` switches the deadlock check off because
the client may stop sending, and `lsp_client` because a disposed client whose
processes have ended does nothing more.

### Fairness

`ThreadPool`: each worker's step, each woken waiter's step and the lifecycle
call in progress are weakly fair. This says that callbacks return (the pool's
specification demands bounded callbacks), that a thread on its way to the mutex
gets it, and that the operating system runs threads. Spurious wakeups, failures
and the callers' calls are not fair. A worker's lock and a waiter's failure are
alternatives within a fair step, never forced.

`HttpServer`: slices start and end as `TaskQueue` has it, and the steps inside a
callback and inside a call are weakly fair. The three places that take the
server's mutex against recurring competition (the two persistent callbacks and
the flag of `stop`) are strongly fair: a mutex that is free again and again is
obtained in the end. POSIX does not promise this of its default mutex, but every
implementation the code targets queues or wakes its waiters; a program without
it could also wait for ever in code that is right. Clients and the application
are not assumed to do anything.

`HttpFraming`: what was sent arrives, and the head visits the connection again.

`LspRequests`: the executor's threads run and their work on a snapshot ends; a
writer at the head of the lock's queue gets it once the readers have left; and
`awaitTermination` returns, if only by its time-out. The lock is constructed as
a fair one (`ReentrantReadWriteLock(true)`), which the model has as its queue. The
editor is not assumed to send anything, and it may edit without end.

`LspClient` and `LspDocuments` state no liveness: a promise ends at the latest by
its timer, which would be assumed and not shown. Commands of `Installs` may be
killed at any step.

## 4. What the runs show

*Pool.* In all interleavings the ring holds each queued task once, the registry is
the set of unfinished tasks, a task is in at most one callback and a RUNNING task in
exactly one, a cancellation that met a running task is not lost, verdicts are final,
no wakeup is lost, a pool that stops leaves nothing queued and no worker asleep, no
worker outlives the storage, and every step is a step of `TaskQueue`, where nothing
starts after a stop. Under fairness queued tasks get their slice although others
yield for ever, and waits and lifecycle calls return.

When locks fail as well, `RunningTaskHasWorker`, `RegistryIsExact`,
`StoppingDrains` and `NoLostWakeup` no longer hold: a worker whose second
`mutex_lock` fails leaves its task RUNNING without a thread (line 340), and one
that dies at line 316 may have consumed a signal. A valid default mutex does not
fail to lock, so these are limits of the error handling, recorded among the
hazards; `thread_pool_faults` checks the properties that hold regardless. One of
them is that a STOPPED pool has no worker, through failing joins and repeated
shutdowns, which is what `destroy` relies on. `NoWorkerOutlivesPool` also speaks of
an `init` that is undone, and needs that not both the creation of a thread and a
join fail: `ThreadPoolUnwinds.cfg` shows `init` clear the storage of a worker whose
join has failed.

*Server.* No exchange is cleared or released while its handler is in the pool,
an answer by a route comes only from a completed handler, a server that is down
has no task in the pool, and per connection it does what `HttpService` says. A
request is answered while the pool stays open, and `start` and `stop` return even
if it does not. All this is for waits of the pool that do not fail: otherwise `stop`
can return, and release an exchange, while the server's task still runs
(`HttpServerWaits.cfg`).

*Framing.* Unless the connection breaks, the verdict is always the one `Meant` gives
to the message as a whole, and it is reached; COMPLETE comes with the whole body.

*Arenas.* In hot and warm arenas, and in cold ones as long as no direct mapping is
resized, blocks tile their regions, the free list is exact, the statistic is
right, live memory is intact and all memory comes back.

*Language server.* Every request is answered at most once and from its snapshot;
it goes without an answer only if a cancellation was meant for it or the server
ended. A state that a cancellation finds is that of the newest request under the
id which is still in flight. Requests, edits and shutdown end, against an editor
that never stops editing. The import maps are inverse, and hold exactly what the
open documents reach. A document, its tree, spans and symbols are up to date, except
through files whose notification is still on its way; the diagnostics of its calls
are not (section 5).

*Client.* The open promises are those of the pending map, all of them requests to
the current process; a crash, a protocol failure, a restart and disposal leave
none behind. An answer completes no other request than its own, however late it
comes: ids are never used twice, over all processes. A process that has answered
initialize knows the document as it is, through edits during its start. It
restarts once by itself until the next command.

*Installers.* Whatever upstream publishes or replaces, and wherever a command is
killed, a reference that was installed has its bundle, whole, and the entry of the
same archive in the lock, until it is updated; only from the removal of the old
bundle to the entry of the new one can a command leave less, which the next
install repairs with the release that the lock names. Nothing else than a published
bundle of the right name comes into the store. Packages that a command has placed
are a complete tree without cycles, also next to parts that killed commands and
the user have left.

## 5. Where code and documentation disagree

Each is the counterexample of a configuration; the first is also a listed run.

* `arena_direct_realloc`: `realloc` of a direct mapping to a smaller size puts its
  end on the arena's free list (`xmem.cp` line 635). A later small allocation is
  served from it, and freeing the large block unmaps both (lines 582-585), while
  `ALLOCATORS.SPEC.md` line 735 has such mappings independent.
* `LspDocumentsDiagnostics.cfg`: a changed document is parsed, and its calls are judged
  by the symbols of the documents in reach (`CPlusLspServer.kt` lines 351, 396, 435
  and 1770-1782), before `refreshImports` replaces its edges (line 136), and is not
  judged again. A call may stay ambiguous through a document that is no longer
  imported; `SPEC.lsp.md` lines 71-72 say "Imports, generated declarations, mapped
  spans, and diagnostics are rebuilt together."
* `HttpFramingDuplicates.cfg`: two equal `Content-Length` headers are accepted
  (`protocol.cp` line 112); `HTTP.SPEC.md` line 9 says "Duplicate or malformed
  content lengths are rejected."
* `LspLateCancel.cfg`: `workspace/symbol` is answered without `dispatchReadRequest`
  (`CPlusLspServer.kt` line 181), so that its id is not in `seenRequestIds`. A late
  cancellation of it is kept and drops the next document request under that id,
  where the comment at lines 271-273 says that a late cancellation does not
  "poison a reused ID".
* `LspShutdown.cfg`: `shutdown` is answered after five seconds (line 128) although
  requests may be queued, which `shutdownNow` drops (line 219);
  `LSP-COMPONENT-IMPLEMENTATION.md` lines 179-180 have accepted work drained
  during an orderly shutdown.
* `LspDocumentsCreated.cfg`: when a file appears that a loaded document imports and
  misses, `reloadDocument` returns at line 550, because the file is not loaded, and
  its importers are not refreshed; `SPEC.lsp.md` lines 67-69, 81 and 125-126 promise
  current dependents after file changes.
* `LspDocumentsSaved.cfg`: for an open document `reloadDocument` (lines 545-549)
  refreshes its imports but does not parse it again. If it is saved between the
  deletion of an imported file and the notification, the edge is gone by the time
  the notification comes, and the document keeps what it derived from the deleted
  file; compare `SPEC.lsp.md` lines 71-72.
* `LspDocumentsReopened.cfg`: `updateDocument` ignores an update whose version is not
  above the loaded one (line 342), and a document that is imported keeps its version
  when it is closed, and gets the next one when it is reloaded. An editor that numbers
  from 1 at each opening, as VS Code does, then loses its buffer to the text read
  from disk, where `SPEC.lsp.md` lines 64-65 and 81-82 give open buffers
  precedence.
* `LspClientDiagnostics.cfg`, `LspClientReopens.cfg`: output of a process that was
  replaced is still consumed (`lspClient.ts` line 92). A report that arrives after
  the exit shows diagnostics while no server runs. The first part of an old frame
  takes in the new process's answer to initialize, so that the documents are not
  opened until another restart; `SPEC.lsp.md` lines 124-126 say "A restart rejects
  pending requests, clears diagnostics, and re-opens current buffers".

* `InstallsRebound.cfg`: `resolve` keeps the package that was found first under a
  name (`CPlusPackageManager.kt` line 103), also if it comes from another source;
  `SPEC.package-management.md` line 92 says "A package name cannot be silently
  rebound to a different manifest."
* `InstallsPartial.cfg`: packages are moved one by one (lines 66-69), and a command
  that is killed or fails in between leaves some of them, which the next install
  refuses to replace (line 64); line 12 of the same document has "invalid or
  incomplete trees must not be published as usable modules".
* `InstallsPins.cfg`: `cplus.lock` is written in place (`CPlusLockfile.kt` lines 55
  and 80). A write that is cut loses entries, also those of toolchains while
  packages are installed, and the next install takes the latest release, where
  `SPEC.toolchains.md` lines 108-111 have ordinary installs reproducible.

## 6. Proofs

Eight modules hold theorems, for instances of any size. A module's theorems rest
on the assumption named with its constants (finite sets where the code has
arrays, positive sizes, `NULL` and the like outside the sets), which every run
evaluates, and on what the third column adds.

| Module | Theorem | Besides | Statement |
| --- | --- | --- | --- |
| `ThreadPoolProofs` | `TypeCorrectness` | | the types |
| | `RingIsExact` | | each queued task is in the ring once, and nothing else is |
| | `CallbacksAreExclusive` | | no task is in two callbacks, and a task in one is RUNNING |
| | `YieldNeverFails` | | the `THREAD_POOL_FULL` branch of a yield is dead code |
| | `ShutdownEndsWorkers` | | a STOPPED pool has no worker |
| | `WorkersEndFirst` | *joins succeed* | erased storage has no worker |
| | `VerdictsAreFinal` | | a finished task keeps its state and error code |
| | `CancellationsAreKept` | | a cancellation that met a running task is not overwritten |
| | `CompletionsWakeWaiters` | | nobody stays parked in `wait` for a task that is over |
| | `RunningTasksAreCalled` | locks succeed | a RUNNING task is in a callback |
| | `RegistryHoldsTheUnfinished` | locks succeed | the registry is the unfinished tasks |
| | `StopDrainsThePool` | locks succeed | a stopping pool has no queued task, no parked worker, and has told its running tasks |
| | `WakeupsAreNotLost` | locks succeed | while a worker is parked, one is on its way for each queued task |
| | `PoolImplementsTaskQueue` | locks succeed | `Spec => TQ!TQSafety` |
| `HttpServerProofs` | `QueueInvariance` | | `TaskQueue`, and what `HttpServer` uses of it |
| | `HandlersOwnTheirExchanges` | *waits succeed* | an unfinished handler's exchange is in use and is its own |
| | `AnswersMatchVerdicts` | *waits succeed* | a route's answer means that its handler completed |
| | `StoppedServersAreQuiet` | *waits succeed* | a server that is down has no task in the pool |
| | `ServerKeepsPoolContract` | *waits succeed* | each step of the server is one of the task queue's |
| | `ServerImplementsService` | *waits succeed* | `Spec => ImplementsHttpService` |
| `HttpFramingProofs` | `FramingIsOfTheMessage` | | the verdict is the message's, however it was cut |
| | `BodiesAreWhole` | | what is COMPLETE has its whole body in the buffer |
| `LspClientProofs` | `NoPromiseIsLeftBehind` | | open promises and pending map agree |
| | `LateAnswersHarmNothing` | | an answer completes its own request or none |
| | `RunningServerKnowsTheDocument` | | a process past initialize has the document |
| | `OneAutomaticRestart` | | at most one between two commands |
| `LspRequestsProofs` | `CancellationsReachTheirRequests` | | a state that is found is the newest request's in flight |
| | `RequestsImplementService` | `FreshIds` | `Spec => ImplementsLspService` |
| `LspDocumentsProofs` | `GraphStaysConsistent` | | the import maps are inverse and hold what open documents reach |
| | `SnapshotsStayCurrent` | *files notified* | what trees, spans and symbols are derived from is what the closure holds now |
| `ArenaProofs` | `HeapInvariance` | no direct resizing | the heap below |
| | `LiveMemory` | no direct resizing | memory in use is one block, large enough, undisturbed |
| | `WellFormed` | no direct resizing | tiling, free list and statistic are exact |
| | `AllReturned` | no direct resizing | all memory freed is all memory whole |
| `InstallsProofs` | `ToolchainsReproduce` | `OneCommand` | an installed toolchain is what the lock says |
| | `TreesAreComplete` | | what commands have placed is a complete tree |

The additions are conditions under which the code is right, and no weaker ones
would do:

* *locks succeed* is `"lock" \notin Faults`. Waits, thread creation and joins may
  still fail. With failing locks the properties are false (section 4).
* *joins succeed*, when a creation fails, is `~({"create", "join"} \subseteq Faults)`:
  either may fail, but not both. `init` drops the results of its joins, and with
  both `ThreadPoolUnwinds.cfg` is a counterexample.
* *waits succeed* is `~WaitsFail`: the pool's `wait` returns when the task has ended.
  The server drops its result, and `HttpServerWaits.cfg` is a counterexample.
* `FreshIds`: a client uses an id for one request. The VS Code client does so
  over all its processes, which `NumbersInv` of `LspClientProofs` says. The run
  `lsp_requests` also has requests that share an id, within its bounds; without
  bounds an id that was pushed out of `seenRequestIds`, or that `workspace/symbol`
  has used (`LspLateCancel.cfg`), lets a late cancellation drop a later request.
* *no direct resizing* is `~ReallocsDirect`: the program resizes nothing in an
  arena with direct mappings. With it, `arena_direct_realloc` is a
  counterexample (section 5).
* *files notified* is `~Creations /\ ~Races /\ ~IgnoredOpens`, the instance of the
  run: no file appears that a loaded document has missed, no open document is
  reloaded while the deletion of a file of its closure is not notified yet, and no
  file is opened that the server has loaded under version 1 or a later one, which
  the opening has as well (changes have versions above the loaded one by themselves,
  which `Numbered` of the proof says). `LspDocumentsCreated.cfg`,
  `LspDocumentsSaved.cfg` and `LspDocumentsReopened.cfg` show what the code does in
  each of the three cases (section 5). What is left is unrestricted: any files,
  texts and cycles, edits, saves, closings, changes and deletions by other programs,
  and notifications that come as late as they like.
* `OneCommand`: there is one command at a time, the instance of the run. Two of
  them can leave a lock that names a bundle which is not in the store
  (`CPlusToolchainManager.kt` line 112, and `InstallsTwice.cfg`). The trees of
  packages need no such condition.

### Why the invariants are as they are

Hardly a property is inductive by itself; each rests on what the code relies
on silently.

*Pool.* `PoolInv` consists of `TypeOK` and

* `QueueInv`: ring entries are in the registry, distinct, and exactly the QUEUED
  tasks; the registry has at most `MaxTasks` entries, all QUEUED or RUNNING;
* `CallInv`: a worker's callback is on a RUNNING registered task of its own;
* `StorageInv`: unused storage is empty; while `init` or its roll-back is in
  progress there are no tasks; outside RUNNING the ring is empty; where joins
  succeed, the roll-back has passed only workers that have ended;
* `ThreadInv`: a thread of a pool is among the created ones and not joined; a STOPPED
  pool has none, and, unless a creation and a join both fail, nor has erased storage.

`YieldNeverFails` shows how they work together. The task that yields is in the
registry and RUNNING, hence not in the ring, and the ring is an injection into
the registry without it. The ring is therefore shorter than the registry, which
is at most `MaxTasks` long (lemma `RingHasRoom`). That a submission during the
callback fits is the test of `active_count` at `submit`, not the one of the ring.
`VerdictsAreFinal` is an action property and uses `CallInv`: the only actions
that write a state without looking at it are a worker's, and a worker's task is
RUNNING, so it is not terminal.

`OwnerInv` needs no lock: a task ends only in a step that broadcasts, so a client
that is parked in `wait` waits for one that has not ended. `DrainInv` does: a
worker that takes a task stays with it until it has written its state, so that
the registry is the ring and the callbacks. `WakeupsAreNotLost` counts:
a submission or a yield adds one task, and its signal turns one parked worker into
one that polls, if there is any; a worker parks only when the ring is empty.
`PoolImplementsTaskQueue` goes through the critical sections one by one; most of
the work is in `remove_ready_locked`, which is `Without` of the queue, and in a
stop, which cancels what is queued at once.

*Server.* `SrvInv` adds to the pool's `TQInv`: the flags of an exchange follow
each other and its handler's phase (`FlagsInv`), an unfinished handler pins its
exchange (`PinInv`), a callback that has the mutex is running and has no verdict
yet (`HolderInv`), and each stage of start and stop has outlived the tasks that
it has waited for (`StageInv`). `StageInv` is what lets a stage submit or
initialize a task again: the contract with the pool is a theorem about it.

*Client.* `ClientInv`: a request has one number for ever, in the map, in a
process's inbox and in every frame still unread, which is why late output of an
old process cannot settle a new promise; and a process that runs knows the
document as it is or not at all.

*Language server.* `RequestInv`: a request is once in the queue or at one thread
and is answered only when its thread is done with it; whoever waits for the lock
stands in its queue; `requestStates` names requests in flight, under their id, and
misses none that is the newest under its id. For the refinement `FreshInv` adds
that a cancellation is kept only for a request that is still to come.

*Arena.* Within a call the heap is not well formed, so the invariant has a
parameter: `Heap(a, h, X)` says that arena `a` serves a program that holds `h`
while the allocator has the blocks `X` in hand, neither free nor the program's.
Blocks tile their regions and are linked in order, a direct mapping is one block
in use, no two free blocks are neighbours, the free list names each free block
once, and every other block is held, with room for what was asked. Splits,
merges, `free_list_remove`, new regions and unmapping each have a lemma that takes
one such heap to the next, and a call is their composition that begins and ends
with `X` empty. That no two neighbours are free makes one merge to either side
enough, and gives `AllReturned`. The statistic is a sum over what the program
holds, which `FoldFunction` computes by a recursion outside the prover's reach;
the sum of a function is the number of its units (`SumIsUnits`), and those are
counted with the library's facts about finite sets.

*Framing.* `FramingInv` says what a verdict rests on: the client closes its end
after the last byte, what is not decided could not be decided with what has come,
and what is decided stays so. The work is in what it is about. `DigitsAreRead`
shows that the overflow test of `parse_decimal` (line 66) refuses a number exactly
when a `size_t` cannot hold it, at whichever digit that shows, leading zeros
included; `HeadersAreParsed`, that `parse_headers` ends with what the headers mean
as a whole, although it stops at the first bad one; `CompleteIsMeant`, that the two
comparisons of `request_complete` are the sum that the code avoids.

*Documents.* `GraphInv` says that the maps are inverse, that edges start at loaded
documents (`Linked`), and that open documents reach all that is loaded (`Rooted`).
Handlers pass through states that are not `Rooted`: the parts keep `Linked`, and
the last of them prunes. `DependentsEach` shows that a refresh of dependents keeps
what each refresh keeps, whatever their number and order.

`CurrentInv` says what holds of a document while notifications are to come. `Late`
are the files whose notification is to come and that have no buffer. A text is
read, but for late files (`Timely`); what a document imports, and is there, has an
edge (`Imported`); a document has no inputs outside the closure of its text
(`Minimal`). The heart is `Backed`: wherever what the document was derived from may
differ from what is read now, there is an edge, and the notification finds the
document by it. A file that was deleted keeps its edges until then, which is what a
save of the importer undoes (`Races`), and a file that was missing never had one,
which is what `Creations` is about. While the dependents of a file are refreshed,
one after another, each of those done is derived from what is read (`Sure`), and
each of those that are not dependents does not know of the file (`Untouched`);
`HalfStep` takes one more document from one part to the other, although its refresh
may load further files and change the graph under the rest. When notifications of a
closure have come, nothing in it is late, `Backed` and `Minimal` make the inputs
exactly the closure, and that is the property (`CurrentIsDerived`). An update that is
ignored would leave the buffer out: `Numbered` says that an open document has the
version of its buffer, so that each change is above it (`NoneIsIgnored`).

*Installers.* `ToolchainInv` says what a command has made sure of at each of its
stages: that its archive is the pinned release, was published and is sound, then
that it is in the store; and that every pin is in the lock, in doubt or not, which
is why a repair installs the release that was pinned. `PackageInv` says that each
command on packages has a whole tree of which a part is placed, in places where
nothing was, and that what is installed depends on nothing that a command may
still take back: a failing command takes nothing away that another one relies on.
That `resolve` returns whole trees is `ResolveIsSound`. A tree below a chain is
whole but for the names on the chain, whose dependencies are still to come; when
the chain is empty, it is whole.

*Recursion.* The induction theorems of the library cannot be used here, and what a
recursive definition or a fold computes is not decided by unfolding it once. The
proofs go by minimal counterexamples instead: the natural numbers are well-founded
(`CountingUp`), and a definition with `CHOOSE` has a value that satisfies it as
soon as one exists, which `RunsExist` shows for a run of steps and `IteratesExist`
for a fold over a finite set, by an explicit construction. So a fold is what it is
after each of its steps (`ParseRuns`, `HeaderRuns`, `ReachRuns`, `ResolveAllRuns`).
`resolve` is not a fold: it exists (`ResolvesExist`), and is unique, because each
call has a longer chain and `Names` is finite. The lemmas up to `IteratesExist`
stand at the beginning of three modules, which share nothing else.

### Only model-checked

* All liveness (`ImplementsFairTaskQueue` beyond its safety half, waits and
  lifecycle calls that return, answers and verdicts that arrive): fairness and
  `ENABLED` are out of the prover's reach.
* The refinement of `Fifo` by `ReadyRing`, whose compaction is a fold that writes the
  slots it will not read any more. Nothing else depends on it: the pool's proofs
  are about the sequence.

## 7. Not modelled

`status` and `step_count` of the pool; the Windows variants, except where they
return what the POSIX ones do; responses to be parsed by the client; the scratch
arena and the routing of `xmem_t`; the rest of the standard library. Of the
language server: the change of settings, the bound of 256 steps when imports are
followed, and what answers contain. Of the VS Code client: several documents,
watched files, conversions of answers, and the editor's commands. The IntelliJ
and Vim clients, the compiler, and the command line except for its installers. Of
these: how archives are read and manifests parsed, several projects with one
storage, and commands side by side, which `InstallsTwice.cfg` shows to be unsafe;
`toolchain update` without a reference, which updates the whole catalogue, is covered
as the commands on one reference or triple that it consists of.

Vendored grammar code, installers, examples and bindings stay outside for good:
they are generated, or pure I/O. The files with a `.c` or `.h` ending are of that
kind (the generated parser, its runtime headers, the grammar's example corpus, one
example program): the program itself is written in C-plus, Kotlin and TypeScript.

## 8. Plan

The language server, the VS Code client and the installers are done. Next:

1. Proofs: the compaction of `ReadyRing`.
2. `ScratchArena` and `XMem`; `MemoryStream`; `DynamicMap` and `DynamicList`;
   `Utf8` as functions against references.
3. `React`: component states through reconciliation.
4. `ImportGraph`, `SourceMapping`, `DeferLowering` and `TryCatchLowering`, the last
   two by running a small program before and after the pass.
