------------------------------- MODULE Lockfile -------------------------------
(***************************************************************************)
(* cplus.lock, which cli/src/main/kotlin/cplus/CPlusLockfile.kt reads and  *)
(* writes for two commands: its section of toolchains, entries in order of *)
(* their references.  The section of packages behind it is copied by one   *)
(* command and written anew by the other, and read by none; it is left out.*)
(* Each write replaces the whole file, so one that breaks leaves the       *)
(* beginning of the text.                                                  *)
(***************************************************************************)
EXTENDS Naturals

CONSTANTS References,   \* the toolchain references, numbered in alphabetical order
          Processes     \* the commands that may run at a time

ASSUME LockfileAssumption ==
    References \subseteq Nat \ {0}

VARIABLES lock,         \* lock[r]: the entry of a reference, or NoEntry
          pin,          \* history: the archive of the last update, or of the first install,
                        \* of a reference, or None once the lock has lost its entry
          command       \* command[p]: what a process does, or Idle

None == <<>>
NoEntry == [release |-> 0, digest |-> None]
Idle == [pc |-> "idle"]
EmptyLock == [r \in References |-> NoEntry]

\* Variant: the section of toolchains is not written again.
WriteDependenciesOnly == EmptyLock

\* The toolchains are read, and written in front of the dependencies.
writeDependencies == lock

\* What a write of these entries can leave when it breaks. An entry that is cut has
\* no closing quote and is skipped by the reader.
Beginnings(entries) ==
    {[r \in References |-> IF r <= n THEN entries[r] ELSE NoEntry] : n \in References \cup {0}}

At(p, pc) == command[p].pc = pc
Becomes(p, c) == command' = [command EXCEPT ![p] = c]
Go(p, pc) == Becomes(p, [command[p] EXCEPT !.pc = pc])

\* The write is cut, or not begun. A pin is gone with its entry.
WriteBreaks(entries) ==
    /\ lock' \in {lock} \cup Beginnings(entries)
    /\ pin' = [r \in References |->
                  IF lock'[r] = lock[r] THEN pin[r] ELSE None]
===============================================================================
