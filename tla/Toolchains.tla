------------------------------ MODULE Toolchains ------------------------------
(***************************************************************************)
(* "toolchain install" and "toolchain update" of                           *)
(* cli/src/main/kotlin/cplus/CPlusToolchainManager.kt: bundles that are    *)
(* downloaded, verified, staged and put in the place of their predecessor, *)
(* with the release and digest recorded in cplus.lock, while upstream      *)
(* publishes releases and replaces assets of old ones.                     *)
(*                                                                         *)
(* An archive is identified by its release and its edition, the number of  *)
(* times its assets were replaced, which stands for its digest, too.  The  *)
(* catalogue has every reference.  The temporary archive and the staging   *)
(* directory, which no other command sees, are left out.                   *)
(***************************************************************************)
EXTENDS Sequences, Lockfile

CONSTANTS MaxRelease,   \* bound: the releases upstream publishes
          MaxEdition,   \* bound: the editions of a release
          Unsound       \* the archives whose manifest is missing or names another reference

ASSUME ToolchainAssumption == MaxRelease \in Nat \ {0} /\ MaxEdition \in Nat \ {0}

VARIABLES latest,       \* the latest release
          edition,      \* edition[n]: that of release n
          store,        \* store[r]: the archive in the reference's directory, Absent or Partial
          doubt         \* history: references that a broken command left half done

upstream == <<latest, edition>>
toolchainvars == <<latest, edition, store, doubt>>

Releases == 1..MaxRelease
Absent == <<>>
Partial == <<0>>
Damaged(release) == <<release>>
Published(release) == <<release, edition[release]>>
Entry(archive) == [release |-> archive[1], digest |-> archive]

\* A project may come with a lock, to a machine that has none of its bundles.
ToolchainsInit ==
    /\ latest = 1 /\ edition = [n \in Releases |-> 1]
    /\ \E entries \in [References -> {NoEntry, Entry(<<1, 1>>)}] :
          /\ lock = entries
          /\ pin = [r \in References |-> entries[r].digest]
          /\ doubt = {r \in References : entries[r] # NoEntry}
    /\ store = [r \in References |-> Absent]

-------------------------------------------------------------------------------
\* Upstream.

Publish ==
    /\ latest < MaxRelease /\ latest' = latest + 1
    /\ UNCHANGED <<lock, pin, command, edition, store, doubt>>

Republish ==
    /\ \E n \in 1..latest :
          edition[n] < MaxEdition /\ edition' = [edition EXCEPT ![n] = @ + 1]
    /\ UNCHANGED <<lock, pin, command, latest, store, doubt>>

-------------------------------------------------------------------------------
\* installExact, for the first of the references to do.

Begin(todo, refresh) ==
    [pc |-> "download", todo |-> todo, refresh |-> refresh,
     pinned |-> None, archive |-> Absent, entries |-> EmptyLock]

Doing(p) == Head(command[p].todo)

\* install and update, of an exact reference or of both bundles of a triple.
Toolchain(p) ==
    /\ command[p] = Idle
    /\ \E todo \in {<<r>> : r \in References} \cup (References \X References),
          refresh \in BOOLEAN :
          /\ Len(todo) = 2 => todo[1] < todo[2]
          /\ Becomes(p, Begin(todo, refresh))
    /\ UNCHANGED <<lock, pin, toolchainvars>>

\* An entry in the lock pins the release. The bytes may arrive damaged.
Download(p) ==
    /\ At(p, "download")
    /\ LET locked  == IF command[p].refresh THEN NoEntry ELSE lock[Doing(p)]
           release == IF locked = NoEntry THEN latest ELSE locked.release
       IN \E archive \in {Published(release), Damaged(release)} :
             Becomes(p, [command[p] EXCEPT !.pc = "validate", !.pinned = locked.digest,
                                           !.archive = archive])
    /\ UNCHANGED <<lock, pin, toolchainvars>>

\* Variant: the checksum of a pinned release is not compared with the lock's.
ValidateUnpinned(p) ==
    /\ At(p, "validate")
    /\ command[p].archive = Published(command[p].archive[1])
    /\ Go(p, "inspect")
    /\ UNCHANGED <<lock, pin, toolchainvars>>

\* The published checksum, which is fetched after the archive, is the pinned one
\* and that of the archive.
Validate(p) ==
    /\ At(p, "validate")
    /\ LET expected == Published(command[p].archive[1])
       IN command[p].pinned \in {None, expected} /\ command[p].archive = expected
    /\ Go(p, "inspect")
    /\ UNCHANGED <<lock, pin, toolchainvars>>

\* The archive is unpacked, and its MANIFEST.json read.
Inspect(p) ==
    /\ At(p, "inspect") /\ command[p].archive \notin Unsound
    /\ Go(p, "replace")
    /\ UNCHANGED <<lock, pin, toolchainvars>>

\* A request or one of the tests above fails.
Reject(p) ==
    /\ command[p].pc \in {"download", "validate", "inspect"}
    /\ Becomes(p, Idle)
    /\ UNCHANGED <<lock, pin, toolchainvars>>

\* deleteTree(target)
Replace(p) ==
    /\ At(p, "replace")
    /\ store' = [store EXCEPT ![Doing(p)] = Absent]
    /\ Go(p, "move")
    /\ UNCHANGED <<lock, pin, upstream, doubt>>

\* ATOMIC_MOVE, which fails if another process has filled the place.
Move(p) ==
    /\ At(p, "move") /\ store[Doing(p)] = Absent
    /\ store' = [store EXCEPT ![Doing(p)] = command[p].archive]
    /\ Go(p, "read")
    /\ UNCHANGED <<lock, pin, upstream, doubt>>

ReadEntries(p) ==
    /\ At(p, "read")
    /\ Becomes(p, [command[p] EXCEPT !.pc = "write", !.entries = lock])
    /\ UNCHANGED <<lock, pin, toolchainvars>>

\* writeToolchains
Recorded(p) == [command[p].entries EXCEPT ![Doing(p)] = Entry(command[p].archive)]

\* The lock is written, and the command goes on with the next reference.
Record(p) ==
    /\ At(p, "write")
    /\ lock' = Recorded(p)
    /\ pin' = [pin EXCEPT ![Doing(p)] =
                  IF command[p].refresh \/ @ = None THEN command[p].archive ELSE @]
    /\ doubt' = doubt \ {Doing(p)}
    /\ Becomes(p, IF Len(command[p].todo) = 1 THEN Idle
                  ELSE Begin(Tail(command[p].todo), command[p].refresh))
    /\ UNCHANGED <<upstream, store>>

\* The process is killed, or the file system fails. A directory may be deleted
\* in part.
BreakReplacing(p) ==
    /\ At(p, "replace")
    /\ store' = [store EXCEPT ![Doing(p)] = Partial]
    /\ doubt' = doubt \cup {Doing(p)}
    /\ Becomes(p, Idle)
    /\ UNCHANGED <<lock, pin, upstream>>

BreakRecording(p) ==
    /\ command[p].pc \in {"move", "read", "write"}
    /\ IF At(p, "write") THEN WriteBreaks(Recorded(p)) ELSE UNCHANGED <<lock, pin>>
    /\ doubt' = doubt \cup {Doing(p)}
    /\ Becomes(p, Idle)
    /\ UNCHANGED <<upstream, store>>

ToolchainStep(p) ==
    \/ Toolchain(p) \/ Download(p) \/ Validate(p) \/ Inspect(p) \/ Reject(p)
    \/ Replace(p) \/ Move(p) \/ ReadEntries(p) \/ Record(p)
    \/ BreakReplacing(p) \/ BreakRecording(p)

-------------------------------------------------------------------------------
\* What is in the store was published, and names its reference.
Bundles == {archive \in Releases \X (1..MaxEdition) : archive[2] <= edition[archive[1]]} \ Unsound

\* References between the removal of a bundle and the entry of its successor.
Changing == {Doing(p) : p \in {q \in Processes : command[q].pc \in {"move", "read", "write"}}}

\* SPEC.toolchains.md: ordinary installs are reproducible. Whatever upstream
\* publishes or replaces, and whatever fails before the old bundle is removed: a
\* reference that was installed or updated has its bundle, whole, and the entry of
\* the same archive, until it is updated. A broken command is repaired by an
\* install, to the release that the lock still has.
InstallsReproduce ==
    /\ \A r \in References : store[r] \in Bundles \cup {Absent, Partial}
    /\ \A r \in References \ (doubt \cup Changing) :
          /\ lock[r] = IF pin[r] = None THEN NoEntry ELSE Entry(pin[r])
          /\ pin[r] # None => store[r] = pin[r]
===============================================================================
