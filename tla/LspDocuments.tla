----------------------------- MODULE LspDocuments -----------------------------
(***************************************************************************)
(* The documents of cli/src/main/kotlin/cplus/lsp/CPlusLspServer.kt: what  *)
(* the editor's notifications and the watched files do to the snapshots    *)
(* and to the graph of their imports.                                      *)
(*                                                                         *)
(* A text is abstracted to an identity and to the files it imports.  What  *)
(* the server derives from a document is abstracted to what it was derived *)
(* from when it was last parsed:                                           *)
(*  - its materialized tree, spans and symbols to inputs, the contents of  *)
(*    the files its text imports, directly or not;                         *)
(*  - its ambiguous-call diagnostics to inputs and seen, the texts of the  *)
(*    documents that could be reached over the edges the server had then.  *)
(*                                                                         *)
(* Every handler runs under the write lock, and is one action here; files  *)
(* do not change while one runs.  Its parts are operators on a record s of *)
(* the server's maps.  Traversals that stay below MAX_WORKSPACE_IMPORTS    *)
(* steps load everything that can be reached, in whatever order.           *)
(***************************************************************************)
EXTENDS Naturals, FiniteSets, FiniteSetsExt

CONSTANTS Files,          \* the uris of the workspace
          TextsOf,        \* TextsOf[f]: the texts file f can have
          ImportsOf,      \* ImportsOf[t]: the files text t imports
          Openable,       \* files the user opens in the editor
          Changeable,     \* files other programs write and delete
          Creations,      \* whether files appear that loaded documents miss
          Races,          \* whether an open document is reloaded while the notification
                          \* of a deletion in its import closure is on its way
          IgnoredOpens,   \* whether files are opened that the server has loaded under
                          \* the version of a first opening, or a later one
          MaxVersion      \* bound: the versions an editor gives to an open file, and
                          \* those that reloads from the disk reach

Missing == 0

ASSUME DocumentsAssumption ==
    /\ IsFiniteSet(Files) /\ Openable \subseteq Files /\ Changeable \subseteq Files
    /\ \A f \in Files : TextsOf[f] \subseteq Nat \ {Missing}
    /\ \A f \in Files : \A t \in TextsOf[f] : ImportsOf[t] \subseteq Files
    /\ ImportsOf[Missing] = {}
    /\ Creations \in BOOLEAN /\ Races \in BOOLEAN /\ IgnoredOpens \in BOOLEAN /\ MaxVersion \in Nat

VARIABLES disk,     \* disk[f]: the text of the file, or Missing
          pending,  \* files that changed and whose watch notification is to come
          editor,   \* editor[f]: the buffer [text, version] of an open file, or Closed
          server    \* the maps of the server

vars == <<disk, pending, editor, server>>

Closed == [text |-> Missing, version |-> 0]
NoDocument == [text |-> Missing, version |-> 0, inputs |-> <<>>, seen |-> <<>>]

Loaded(s) == {f \in Files : s.documents[f] # NoDocument}

\* Everything that can be reached from a set, where next[f] is what follows file f.
Reach(from, next) ==
    LET Grow(i, found) == found \cup UNION {next[f] : f \in found}
    IN FoldSet(Grow, from, 1..Cardinality(Files))

--------------------------------------------------------------------------------
\* Parts of the handlers.

\* sourceProvider, sourceAvailable: an open buffer stands before the file.
Effective(s, f) == IF f \in s.openDocuments THEN s.documents[f].text ELSE disk[f]

\* materializeCPlusForTools: what a text means depends on the contents of its
\* import closure, the files that are missing included.
Inputs(s, text) ==
    LET next == [f \in Files |-> ImportsOf[Effective(s, f)]]
    IN [f \in Reach(ImportsOf[text], next) |-> Effective(s, f)]

\* visibleSymbols, for ambiguousCallableDiagnostics: the other documents whose
\* symbols a document sees, over the edges it had before its text changed.
VisibleTexts(s, uri) ==
    [f \in (Reach({uri}, s.imports) \cap Loaded(s)) \ {uri} |-> s.documents[f].text]

parseDocument(s, uri, version, text) ==
    [text |-> text, version |-> version,
     inputs |-> Inputs(s, text), seen |-> VisibleTexts(s, uri)]

\* The files a document's imports resolve to.
Resolved(s, text) == {f \in ImportsOf[text] : Effective(s, f) # Missing}

clearImports(s, uri) ==
    [s EXCEPT !.imports[uri] = {},
              !.importers = [f \in Files |-> @[f] \ {uri}]]

\* Variant: only documents that are imported by none go.
PruneUnimported(s) ==
    LET gone == {f \in Loaded(s) \ s.openDocuments : s.importers[f] = {}}
    IN [s EXCEPT !.documents = [f \in Files |-> IF f \in gone THEN NoDocument ELSE @[f]],
                 !.imports   = [f \in Files |-> IF f \in gone THEN {} ELSE @[f]],
                 !.importers = [f \in Files |-> @[f] \ gone]]

pruneUnreachableDocuments(s) ==
    LET gone == Loaded(s) \ Reach(s.openDocuments, s.imports)
    IN [s EXCEPT !.documents = [f \in Files |-> IF f \in gone THEN NoDocument ELSE @[f]],
                 !.imports   = [f \in Files |-> IF f \in gone THEN {} ELSE @[f]],
                 !.importers = [f \in Files |-> @[f] \ gone]]

\* From uri on, edges are added for every document that is reached, and
\* documents that are not loaded yet are read from the disk.
refreshImports(s, uri) ==
    LET cleared == clearImports(s, uri)
        text(f) == IF f \in Loaded(cleared) THEN cleared.documents[f].text ELSE disk[f]
        next    == [f \in Files |-> Resolved(cleared, text(f))]
        reached == Reach({uri} \cap Loaded(cleared), next)
    IN pruneUnreachableDocuments([cleared EXCEPT
         !.imports   = [f \in Files |-> IF f \in reached THEN @[f] \cup next[f] ELSE @[f]],
         !.importers = [f \in Files |-> @[f] \cup {g \in reached : f \in next[g]}],
         !.documents = [f \in Files |-> IF f \in reached \ Loaded(cleared)
                                         THEN parseDocument(cleared, f, 0, disk[f]) ELSE @[f]]])

\* Every document in the transitive dependent closure is parsed again.
refreshDependents(s, uri) ==
    LET next == [f \in Files |-> s.importers[f] \cap Loaded(s)]
        Refresh(d, r) ==
            IF d \notin Loaded(r) THEN r
            ELSE LET doc == r.documents[d]
                 IN refreshImports([r EXCEPT !.documents[d] =
                        parseDocument(r, d, doc.version, doc.text)], d)
    IN FoldSet(Refresh, s, Reach({uri}, next) \ {uri})

Without(s, uri) == [s EXCEPT !.documents[uri] = NoDocument]

\* A version that is not above the loaded one is ignored.
updateDocument(s, uri, text, version) ==
    LET opened == [s EXCEPT !.openDocuments = @ \cup {uri},
                            !.documents[uri] = [text |-> text, version |-> version,
                                                inputs |-> <<>>, seen |-> <<>>]]
    IN IF uri \in Loaded(s) /\ version <= s.documents[uri].version THEN s
       ELSE refreshDependents(refreshImports([opened EXCEPT !.documents[uri] =
                parseDocument(opened, uri, version, text)], uri), uri)

reloadDocument(s, uri) ==
    LET read == [s EXCEPT !.documents[uri] =
                    parseDocument(s, uri, @.version + 1, disk[uri])]
    IN IF uri \in s.openDocuments
       THEN refreshDependents(refreshImports(s, uri), uri)
       ELSE IF uri \notin Loaded(s) THEN s
       ELSE pruneUnreachableDocuments(refreshDependents(
              IF disk[uri] # Missing THEN refreshImports(read, uri)
                                     ELSE clearImports(Without(s, uri), uri), uri))

\* Variant: dependents are not told.
CloseAlone(s, uri) ==
    LET closed == [s EXCEPT !.openDocuments = @ \ {uri}, !.documents[uri] = NoDocument]
        read == [closed EXCEPT !.documents[uri] =
                    parseDocument(closed, uri, s.documents[uri].version, disk[uri])]
    IN pruneUnreachableDocuments(
         IF s.importers[uri] # {} /\ disk[uri] # Missing THEN refreshImports(read, uri)
                                                         ELSE clearImports(closed, uri))

\* A document that is still imported goes back to its text on the disk.
closeDocument(s, uri) ==
    LET closed == [s EXCEPT !.openDocuments = @ \ {uri}, !.documents[uri] = NoDocument]
        read == [closed EXCEPT !.documents[uri] =
                    parseDocument(closed, uri, s.documents[uri].version, disk[uri])]
    IN pruneUnreachableDocuments(refreshDependents(
         IF s.importers[uri] # {} /\ disk[uri] # Missing THEN refreshImports(read, uri)
                                                         ELSE clearImports(closed, uri), uri))

--------------------------------------------------------------------------------
Init ==
    /\ disk \in [Files -> (UNION {TextsOf[f] : f \in Files}) \cup {Missing}]
    /\ \A f \in Files : disk[f] \in TextsOf[f] \cup {Missing}
    /\ pending = {}
    /\ editor = [f \in Files |-> Closed]
    /\ server = [documents     |-> [f \in Files |-> NoDocument],
                 openDocuments |-> {},
                 imports       |-> [f \in Files |-> {}],
                 importers     |-> [f \in Files |-> {}]]

\* A file comes into being, on the disk or in the editor.
MayAppear(f) ==
    \/ Creations \/ Effective(server, f) # Missing
    \/ \A d \in Loaded(server) : f \notin DOMAIN server.documents[d].inputs

MayReload(f) ==
    /\ Races \/ f \notin server.openDocuments
             \/ \A g \in pending \cap DOMAIN server.documents[f].inputs : disk[g] # Missing
    /\ f \in server.openDocuments \/ server.documents[f].version < MaxVersion

\* textDocument/didOpen: an editor numbers the versions of a file from 1
\* whenever it opens it.
DidOpen(f, t) ==
    /\ f \in Openable /\ editor[f] = Closed /\ MayAppear(f)
    /\ IgnoredOpens \/ server.documents[f].version = 0
    /\ editor' = [editor EXCEPT ![f] = [text |-> t, version |-> 1]]
    /\ server' = updateDocument(server, f, t, 1)
    /\ UNCHANGED <<disk, pending>>

\* textDocument/didChange
DidChange(f, t) ==
    /\ editor[f] # Closed /\ t # editor[f].text /\ editor[f].version < MaxVersion
    /\ editor' = [editor EXCEPT ![f] = [text |-> t, version |-> @.version + 1]]
    /\ server' = updateDocument(server, f, t, editor[f].version + 1)
    /\ UNCHANGED <<disk, pending>>

\* textDocument/didClose
DidClose(f) ==
    /\ editor[f] # Closed
    /\ editor' = [editor EXCEPT ![f] = Closed]
    /\ server' = closeDocument(server, f)
    /\ UNCHANGED <<disk, pending>>

\* The user saves: the file is written, which is watched as well, and then
\* textDocument/didSave is sent.
WriteBuffer(f) ==
    /\ editor[f] # Closed /\ disk[f] # editor[f].text
    /\ disk' = [disk EXCEPT ![f] = editor[f].text]
    /\ pending' = pending \cup {f}
    /\ UNCHANGED <<editor, server>>

DidSave(f) ==
    /\ editor[f] # Closed /\ disk[f] = editor[f].text /\ MayReload(f)
    /\ server' = reloadDocument(server, f)
    /\ UNCHANGED <<disk, pending, editor>>

\* Another program writes or deletes the file.
FileChanges(f, t) ==
    /\ f \in Changeable /\ t # disk[f] /\ MayAppear(f)
    /\ disk' = [disk EXCEPT ![f] = t]
    /\ pending' = pending \cup {f}
    /\ UNCHANGED <<editor, server>>

\* workspace/didChangeWatchedFiles, for one of its changes.
DidChangeWatchedFiles(f) ==
    /\ f \in pending /\ MayReload(f)
    /\ pending' = pending \ {f}
    /\ server' = reloadDocument(server, f)
    /\ UNCHANGED <<disk, editor>>

Next ==
    \E f \in Files :
        \/ \E t \in TextsOf[f] : DidOpen(f, t) \/ DidChange(f, t)
        \/ DidClose(f) \/ WriteBuffer(f) \/ DidSave(f)
        \/ \E t \in TextsOf[f] \cup {Missing} : FileChanges(f, t)
        \/ DidChangeWatchedFiles(f)

Spec == Init /\ [][Next]_vars

--------------------------------------------------------------------------------
\* The two maps of the import graph are inverse to each other, every edge starts
\* at a loaded document, and what is loaded is what the open documents reach.
GraphIsConsistent ==
    /\ \A f, g \in Files : g \in server.imports[f] <=> f \in server.importers[g]
    /\ \A f \in Files \ Loaded(server) : server.imports[f] = {}
    /\ Loaded(server) \subseteq Reach(server.openDocuments, server.imports)
    /\ server.openDocuments \subseteq Loaded(server)

\* What the user has: the buffer of an open file, else the file.
Actual(f) == IF editor[f] # Closed THEN editor[f].text ELSE disk[f]

\* A document has the text the user has, and its tree, spans and symbols were
\* derived from the contents its import closure has now: only files whose watch
\* notification is still to come may make a difference.
SnapshotsAreCurrent ==
    \A d \in Loaded(server) :
        LET doc == server.documents[d]
            next == [f \in Files |-> ImportsOf[Actual(f)]]
        IN /\ d \notin pending => doc.text = Actual(d)
           /\ DOMAIN doc.inputs \cap pending = {} =>
                 doc.inputs = [f \in Reach(ImportsOf[doc.text], next) |-> Actual(f)]

\* SPEC.lsp.md: imports, generated declarations, mapped spans, and diagnostics are
\* rebuilt together.  The calls of a document were judged by symbols of no file but
\* those it imports, as they are now.
DiagnosticsAreCurrent ==
    \A d \in Loaded(server) :
        LET doc == server.documents[d]
        IN DOMAIN doc.inputs \cap pending = {} =>
              \A f \in DOMAIN doc.seen : f \in DOMAIN doc.inputs /\ doc.seen[f] = Actual(f)

\* SPEC.lsp.md: didOpen installs an immutable current snapshot; dirty open
\* buffers retain precedence over filesystem notifications.
OpenBuffersArePresent ==
    \A f \in Files : editor[f] # Closed =>
        f \in server.openDocuments /\ server.documents[f].text = editor[f].text
===============================================================================
