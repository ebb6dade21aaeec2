------------------------------- MODULE Packages -------------------------------
(***************************************************************************)
(* "pkg add" and "pkg install" of                                          *)
(* cli/src/main/kotlin/cplus/CPlusPackageManager.kt: the tree of packages  *)
(* that a manifest or a request asks for is resolved and validated in a    *)
(* staging directory, moved to modules/ package by package, and recorded   *)
(* in cplus.lock.                                                          *)
(*                                                                         *)
(* A reference is a name and a source, a directory or an archive.  What is *)
(* obtained from a source is known by the source; the staging directory is *)
(* left out.                                                               *)
(***************************************************************************)
EXTENDS Sequences, SequencesExt, Lockfile

CONSTANTS Names,        \* the names of packages
          Manifest,     \* Manifest[source]: its name and its dependencies, in order
          Offered,      \* the references that the user writes
          MaxRequested  \* bound: references in one request

Missing == "missing"

\* Every reference there is.
Known == Offered \cup UNION {Range(Manifest[s].dependencies) : s \in DOMAIN Manifest}

ASSUME PackagesAssumption ==
    /\ IsFiniteSet(Names)
    /\ MaxRequested \in Nat
    /\ Missing \notin DOMAIN Manifest
    /\ \A s \in DOMAIN Manifest : Manifest[s].dependencies \in Seq(Known)
    /\ \A reference \in Known : reference.name \in Names

VARIABLES manifest,     \* the dependencies in the project's cplus.toml
          modules,      \* modules[name]: the source of what is there, or Missing
          fragments     \* history: the modules that a broken command placed, and those
                        \* of which the user removed a dependency

packagevars == <<manifest, modules, fragments>>

NamesOf(references) == {d.name : d \in Range(references)}

PackagesInit ==
    /\ manifest = <<>>
    /\ modules = [n \in Names |-> Missing]
    /\ fragments = {}

-------------------------------------------------------------------------------
Failure == [failed |-> TRUE, found |-> <<>>]
Found(packages) == [failed |-> FALSE, found |-> packages]

\* A call of resolve, in a function whose values are what the calls return.
Call(reference, packages, chain) ==
    [reference |-> reference, packages |-> packages, chain |-> chain]

Calls == [reference : Known, packages : Seq(Known), chain : SUBSET Names]

\* The dependencies of one package, or of the project, in order, as long as
\* nothing fails.
resolveAll(calls, references, packages, chain) ==
    FoldLeft(LAMBDA tree, d : IF tree.failed THEN tree ELSE calls[Call(d, tree.found, chain)],
             Found(packages), references)

\* Variant: a name that was found is not looked for in the chain.
ResolveKnownFirst(calls, reference, packages, chain) ==
    IF reference.name \in NamesOf(packages) THEN Found(packages)
    ELSE IF reference.source \notin DOMAIN Manifest THEN Failure
    ELSE IF Manifest[reference.source].name # reference.name THEN Failure
    ELSE resolveAll(calls, Manifest[reference.source].dependencies, Append(packages, reference),
                    chain \cup {reference.name})

\* A name on the way from the root is a cycle; one that was found elsewhere is
\* kept; a source may be out of reach, or the manifest have another name.
ResolveOne(calls, reference, packages, chain) ==
    IF reference.name \in chain THEN Failure
    ELSE IF reference.name \in NamesOf(packages) THEN Found(packages)
    ELSE IF reference.source \notin DOMAIN Manifest THEN Failure
    ELSE IF Manifest[reference.source].name # reference.name THEN Failure
    ELSE resolveAll(calls, Manifest[reference.source].dependencies, Append(packages, reference),
                    chain \cup {reference.name})

resolve[call \in Calls] == ResolveOne(resolve, call.reference, call.packages, call.chain)

-------------------------------------------------------------------------------
\* add
AddPackage(p) ==
    /\ command[p] = Idle
    /\ \E reference \in Offered :
          /\ reference.name \notin NamesOf(manifest)
          /\ manifest' = Append(manifest, reference)
    /\ UNCHANGED <<lock, pin, command, modules, fragments>>

\* install of the manifest or of a request, which may name a package twice, up to
\* the test that no target exists. One that fails changes nothing.
InstallPackages(p) ==
    /\ command[p] = Idle
    /\ \E references \in {manifest} \cup SeqOf(Offered, MaxRequested) :
          LET tree == resolveAll(resolve, references, <<>>, {})
          IN /\ references # <<>> /\ ~tree.failed
             /\ \A n \in NamesOf(tree.found) : modules[n] = Missing
             /\ Becomes(p, [pc |-> "place", todo |-> tree.found, placed |-> {}])
    /\ UNCHANGED <<lock, pin, packagevars>>

\* ATOMIC_MOVE of the next package.
Place(p) ==
    /\ At(p, "place")
    /\ LET next == Head(command[p].todo)
       IN /\ modules[next.name] = Missing
          /\ modules' = [modules EXCEPT ![next.name] = next.source]
          /\ Becomes(p, [command[p] EXCEPT !.todo = Tail(@), !.placed = @ \cup {next.name},
                             !.pc = IF Len(command[p].todo) = 1 THEN "record" ELSE @])
    /\ UNCHANGED <<lock, pin, manifest, fragments>>

RecordDependencies(p) ==
    /\ At(p, "record")
    /\ lock' = writeDependencies
    /\ Becomes(p, Idle)
    /\ UNCHANGED <<pin, packagevars>>

\* The process is killed, or the file system fails.
BreakPackages(p) ==
    /\ command[p].pc \in {"place", "record"}
    /\ IF At(p, "record") THEN WriteBreaks(writeDependencies)
       ELSE UNCHANGED <<lock, pin>>
    /\ fragments' = fragments \cup (IF At(p, "place") THEN command[p].placed ELSE {})
    /\ Becomes(p, Idle)
    /\ UNCHANGED <<manifest, modules>>

PackageStep(p) ==
    \/ AddPackage(p) \/ InstallPackages(p) \/ Place(p) \/ RecordDependencies(p)
    \/ BreakPackages(p)

-------------------------------------------------------------------------------
Dependencies(n) ==
    IF modules[n] = Missing THEN {} ELSE Range(Manifest[modules[n]].dependencies)

\* Between two commands, the user edits the manifest and removes modules, as the
\* error of line 64 says.
RemoveModule ==
    /\ \A p \in Processes : command[p] = Idle
    /\ \E n \in Names :
          /\ modules[n] # Missing
          /\ modules' = [modules EXCEPT ![n] = Missing]
          /\ fragments' = (fragments \cup {k \in Names : \E d \in Dependencies(k) : d.name = n})
                              \ {n}
    /\ UNCHANGED <<lock, pin, command, manifest>>

RemoveDependency ==
    /\ \A p \in Processes : command[p] = Idle
    /\ \E i \in DOMAIN manifest : manifest' = RemoveAt(manifest, i)
    /\ UNCHANGED <<lock, pin, command, modules, fragments>>

-------------------------------------------------------------------------------
Placing == UNION {command[p].placed : p \in {q \in Processes : command[q].pc \in {"place", "record"}}}

Installed == {n \in Names : modules[n] # Missing} \ (fragments \cup Placing)

\* SPEC.package-management.md: no invalid or incomplete tree is published. What a
\* command that ended placed has all its dependencies in place, whatever was
\* there before, each module declares the name it is found under, and there is
\* no cycle among them.
PackagesAreComplete ==
    /\ \A n \in Installed :
          /\ Manifest[modules[n]].name = n
          /\ \A d \in Dependencies(n) : modules[d.name] # Missing
    /\ \A group \in (SUBSET Installed) \ {{}} :
          \E n \in group : \A d \in Dependencies(n) : d.name \notin group

\* The same document: a name is not silently rebound to a different manifest.
\* (line 103 keeps the first one)
NamesAreNotRebound ==
    \A n \in Installed : \A d \in Dependencies(n) : modules[d.name] = d.source

\* The same document: incomplete trees are not published. A command that ends early
\* leaves nothing. (the moves of lines 66-69 may be cut)
AllOrNothing ==
    [][\A p \in Processes :
          At(p, "place") /\ command'[p] = Idle => command[p].placed = {}]_<<command, packagevars>>
===============================================================================
