----------------------------- MODULE InstallsProofs -----------------------------
(***************************************************************************)
(* What the runs of Installs check with a few bundles and packages, proved *)
(* for any.                                                                *)
(***************************************************************************)
EXTENDS Installs, SequenceTheorems, FiniteSetTheorems, WellFoundedInduction, TLAPS

-------------------------------------------------------------------------------
\* Toolchains.

\* No command begins while another one runs.
OneCommand == \A p, q \in Processes : p = q

Archives == Releases \X (1..MaxEdition)
Entries == {NoEntry} \cup {Entry(archive) : archive \in Archives}

Stages == {"download", "validate", "inspect", "replace", "move", "read", "write"}

ToolchainCommands ==
    [pc : Stages, todo : Seq(References) \ {<<>>}, refresh : BOOLEAN,
     pinned : Archives \cup {None},
     archive : Archives \cup {Damaged(n) : n \in Releases} \cup {Absent},
     entries : [References -> Entries]]

IsPackageCommand(c) ==
    c.pc \in {"place", "record"} /\ c = [pc |-> c.pc, todo |-> c.todo, placed |-> c.placed]

\* A command of either kind, or none.
IsCommand(c) == c = Idle \/ c \in ToolchainCommands \/ IsPackageCommand(c)

ToolchainTypes ==
    /\ latest \in Releases
    /\ edition \in [Releases -> 1..MaxEdition]
    /\ lock \in [References -> Entries]
    /\ pin \in [References -> Archives \cup {None}]
    /\ store \in [References -> Archives \cup {Absent, Partial}]
    /\ doubt \in SUBSET References
    /\ command = [p \in Processes |-> command[p]]
    /\ \A p \in Processes : IsCommand(command[p])

\* An archive that was published, though its edition may be an old one.
Genuine(archive) == archive \in Archives /\ archive[2] <= edition[archive[1]]

\* What a command has made sure of at each of its stages.
Assured(c) ==
    /\ c.pc \in Stages \ {"download"} /\ ~c.refresh => c.pinned = lock[Head(c.todo)].digest
    /\ c.pc \in Stages \ {"download", "validate"} =>
          Genuine(c.archive) /\ c.pinned \in {None, c.archive}
    /\ c.pc \in {"replace", "move", "read", "write"} => c.archive \notin Unsound
    /\ c.pc \in {"read", "write"} => store[Head(c.todo)] = c.archive
    /\ c.pc = "write" => c.entries = lock

\* A pin is in the lock, and where nothing is left half done the lock has no other
\* entries and the store has the archive.
ToolchainInv ==
    /\ ToolchainTypes
    /\ \A r \in References : store[r] \in Archives => Genuine(store[r]) /\ store[r] \notin Unsound
    /\ \A r \in References : pin[r] # None => lock[r] = Entry(pin[r])
    /\ \A r \in References \ doubt : pin[r] = None => lock[r] = NoEntry
    /\ \A r \in References \ (doubt \cup Changing) : pin[r] # None => store[r] = pin[r]
    /\ \A p \in Processes : Assured(command[p])

LEMMA ArchiveFacts ==
    /\ \A archive \in Archives :
          /\ archive = <<archive[1], archive[2]>> /\ archive[1] \in Releases /\ archive[2] \in 1..MaxEdition
          /\ archive \notin {None, Absent, Partial} /\ \A n \in Releases : archive # Damaged(n)
          /\ Entry(archive).digest = archive /\ Entry(archive).release = archive[1]
          /\ Entry(archive) # NoEntry
    /\ NoEntry.digest = None
<1>1. ASSUME NEW archive \in Archives
      PROVE  /\ archive = <<archive[1], archive[2]>> /\ archive[1] \in Releases /\ archive[2] \in 1..MaxEdition
             /\ archive \notin {None, Absent, Partial} /\ \A n \in Releases : archive # Damaged(n)
             /\ Entry(archive).digest = archive /\ Entry(archive).release = archive[1]
             /\ Entry(archive) # NoEntry
  <2>1. archive = <<archive[1], archive[2]>> /\ archive[1] \in Releases /\ archive[2] \in 1..MaxEdition
    BY DEF Archives
  <2>2. Len(archive) = 2
    BY <2>1
  <2>3. archive \notin {None, Absent, Partial} /\ \A n \in Releases : archive # Damaged(n)
    <3>1. Len(<<>>) = 0 /\ Len(<<0>>) = 1
      OBVIOUS
    <3>2. ASSUME NEW n \in Releases PROVE archive # <<n>>
      BY <2>2 DEF Releases
    <3>3. archive # <<>> /\ archive # <<0>>
      BY <2>2, <3>1
    <3> QED
      BY <3>2, <3>3, Zenon DEF None, Absent, Partial, Damaged
  <2>4. Entry(archive).digest = archive /\ Entry(archive).release = archive[1]
    BY DEF Entry
  <2>5. archive[1] # 0
    BY <2>1, ToolchainAssumption DEF Releases
  <2>6. Entry(archive) # NoEntry
    BY <2>4, <2>5 DEF NoEntry
  <2> QED
    BY <2>1, <2>3, <2>4, <2>6
<1>2. NoEntry.digest = None
  BY DEF NoEntry
<1> QED
  BY <1>1, <1>2

\* The stages at which the bundle of a reference is not to be relied on.
Moving == {"move", "read", "write"}

\* The one command there is, before and after a step of it.
LEMMA TheCommand ==
    ASSUME OneCommand, NEW p \in Processes, ToolchainTypes
    PROVE  /\ IsCommand(command[p])
           /\ \A q \in Processes : q = p
           /\ \A c : command' = [command EXCEPT ![p] = c] =>
                 command'[p] = c /\ \A q \in Processes : command'[q] = c
           /\ Changing = IF command[p].pc \in Moving THEN {Head(command[p].todo)} ELSE {}
           /\ Changing' = IF command'[p].pc \in Moving THEN {Head(command'[p].todo)} ELSE {}
<1>1. \A q \in Processes : q = p
  BY DEF OneCommand
<1>2. IsCommand(command[p])
  BY DEF ToolchainTypes
<1>3. ASSUME NEW c, command' = [command EXCEPT ![p] = c]
      PROVE  command'[p] = c /\ \A q \in Processes : command'[q] = c
  BY <1>1, <1>3 DEF ToolchainTypes
<1>4. Changing = IF command[p].pc \in Moving THEN {Head(command[p].todo)} ELSE {}
  <2>1. {q \in Processes : command[q].pc \in Moving} = IF command[p].pc \in Moving THEN {p} ELSE {}
    BY <1>1
  <2> QED
    BY <2>1 DEF Changing, Moving, Doing
<1>5. Changing' = IF command'[p].pc \in Moving THEN {Head(command'[p].todo)} ELSE {}
  <2>1. {q \in Processes : command'[q].pc \in Moving} = IF command'[p].pc \in Moving THEN {p} ELSE {}
    BY <1>1
  <2> QED
    BY <2>1 DEF Changing, Moving, Doing
<1> QED
  BY <1>1, <1>2, <1>3, <1>4, <1>5

\* A step that changes no more than the command.
LEMMA CommandStep ==
    ASSUME OneCommand, NEW p \in Processes, ToolchainInv,
           UNCHANGED <<lock, pin, toolchainvars>>,
           NEW c, command' = [command EXCEPT ![p] = c],
           IsCommand(c), Assured(c),
           command[p].pc \in Moving => c.pc \in Moving /\ Head(c.todo) = Head(command[p].todo)
    PROVE  ToolchainInv'
<1>1. ToolchainTypes
  BY DEF ToolchainInv
<1>2. lock' = lock /\ pin' = pin /\ latest' = latest /\ edition' = edition /\ store' = store /\ doubt' = doubt
  BY DEF toolchainvars
<1>3. command'[p] = c /\ \A q \in Processes : command'[q] = c
  BY <1>1, TheCommand
<1>4. Changing \subseteq Changing'
  BY <1>1, <1>3, TheCommand
<1>5. ToolchainTypes'
  <2>1. command' = [q \in Processes |-> command'[q]]
    BY <1>1 DEF ToolchainTypes
  <2>2. \A q \in Processes : IsCommand(command'[q])
    BY <1>3
  <2>3. \A x : IsCommand(x)' <=> IsCommand(x)
    BY DEF IsCommand, IsPackageCommand
  <2> QED
    BY <1>1, <1>2, <2>1, <2>2, <2>3 DEF ToolchainTypes
<1>6. \A archive : Genuine(archive)' <=> Genuine(archive)
  BY <1>2 DEF Genuine
<1>7. Assured(c)'
  BY <1>2, <1>6 DEF Assured
<1>8. \A q \in Processes : Assured(command[q])'
  BY <1>3, <1>7
<1> QED
  BY <1>2, <1>4, <1>5, <1>6, <1>8 DEF ToolchainInv

LEMMA InitToolchains == Init => ToolchainInv
<1> SUFFICES ASSUME Init PROVE ToolchainInv
  OBVIOUS
<1>1. PICK entries \in [References -> {NoEntry, Entry(<<1, 1>>)}] :
          /\ lock = entries
          /\ pin = [r \in References |-> entries[r].digest]
          /\ doubt = {r \in References : entries[r] # NoEntry}
  BY DEF Init, ToolchainsInit
<1>2. /\ latest = 1 /\ edition = [n \in Releases |-> 1] /\ store = [r \in References |-> Absent]
      /\ command = [p \in Processes |-> Idle]
  BY DEF Init, ToolchainsInit
<1>3. 1 \in Releases /\ 1 \in 1..MaxEdition /\ <<1, 1>> \in Archives
  BY ToolchainAssumption DEF Releases, Archives
<1>4. \A r \in References :
        \/ lock[r] = NoEntry /\ pin[r] = None /\ r \notin doubt
        \/ lock[r] = Entry(<<1, 1>>) /\ pin[r] = <<1, 1>> /\ r \in doubt
  <2>1. ASSUME NEW r \in References
        PROVE  \/ lock[r] = NoEntry /\ pin[r] = None /\ r \notin doubt
               \/ lock[r] = Entry(<<1, 1>>) /\ pin[r] = <<1, 1>> /\ r \in doubt
    <3>1. pin[r] = lock[r].digest /\ (r \in doubt <=> lock[r] # NoEntry)
      BY <1>1
    <3>2. CASE lock[r] = NoEntry
      BY <3>1, <3>2, ArchiveFacts
    <3>3. CASE lock[r] = Entry(<<1, 1>>)
      BY <1>3, <3>1, <3>3, ArchiveFacts
    <3> QED
      BY <1>1, <3>2, <3>3
  <2> QED
    BY <2>1
<1>5. ToolchainTypes
  <2>1. lock \in [References -> Entries]
    BY <1>1, <1>3 DEF Entries
  <2>2. pin \in [References -> Archives \cup {None}]
    BY <1>1, <1>3, <1>4
  <2>3. store \in [References -> Archives \cup {Absent, Partial}] /\ doubt \in SUBSET References
    BY <1>1, <1>2
  <2>4. latest \in Releases /\ edition \in [Releases -> 1..MaxEdition]
        /\ command = [p \in Processes |-> command[p]] /\ \A p \in Processes : IsCommand(command[p])
    BY <1>2, <1>3 DEF IsCommand
  <2> QED
    BY <2>1, <2>2, <2>3, <2>4 DEF ToolchainTypes
<1>6. \A p \in Processes : Assured(command[p])
  BY <1>2 DEF Assured, Idle, Stages
<1>7. \A r \in References : store[r] \notin Archives
  BY <1>2, ArchiveFacts
<1> QED
  BY <1>3, <1>4, <1>5, <1>6, <1>7 DEF ToolchainInv

LEMMA KindOf ==
    ASSUME NEW c, IsCommand(c)
    PROVE  /\ c.pc \in Stages => c \in ToolchainCommands /\ Head(c.todo) \in References
           /\ c.pc \in Stages /\ Len(c.todo) # 1 => Tail(c.todo) \in Seq(References) \ {<<>>}
           /\ c.pc \in {"place", "record"} => IsPackageCommand(c)
<1>1. Idle.pc \notin Stages /\ {"place", "record"} \cap Stages = {}
  BY DEF Idle, Stages
<1>2. c.pc \in Stages => c \in ToolchainCommands
  BY <1>1 DEF IsCommand, IsPackageCommand
<1>3. c \in ToolchainCommands => c.todo \in Seq(References) /\ c.todo # <<>>
  BY DEF ToolchainCommands
<1>4. \A todo \in Seq(References) : todo # <<>> =>
        Head(todo) \in References /\ (Len(todo) # 1 => Tail(todo) \in Seq(References) \ {<<>>})
  <2>1. ASSUME NEW todo \in Seq(References), todo # <<>>
        PROVE  /\ Head(todo) \in References /\ Tail(todo) \in Seq(References)
               /\ Len(todo) # 1 => Tail(todo) # <<>>
    <3>1. Len(todo) \in Nat \ {0} /\ Tail(todo) \in Seq(References) /\ Len(Tail(todo)) = Len(todo) - 1
      BY <2>1, HeadTailProperties
    <3> QED
      BY <2>1, <3>1, HeadTailProperties, EmptySeq
  <2> QED
    BY <2>1
<1>5. c.pc \in {"place", "record"} => IsPackageCommand(c)
  BY DEF IsCommand, Idle, ToolchainCommands, Stages
<1> QED
  BY <1>2, <1>3, <1>4, <1>5

\* Steps of toolchain commands that change nothing but what they know.
LEMMA PreparationKeepsToolchains ==
    ASSUME OneCommand, NEW p \in Processes, ToolchainInv,
           Toolchain(p) \/ Download(p) \/ Validate(p) \/ Inspect(p) \/ Reject(p) \/ ReadEntries(p)
    PROVE  ToolchainInv'
<1>1. ToolchainTypes /\ Assured(command[p])
  BY DEF ToolchainInv
<1>2. PICK k : k = command[p]
  OBVIOUS
<1>3. IsCommand(k) /\ (k.pc \in Stages => k \in ToolchainCommands /\ Head(k.todo) \in References)
  BY <1>1, <1>2, TheCommand, KindOf
<1>4. UNCHANGED <<lock, pin, toolchainvars>>
  <2>1. Toolchain(p) => UNCHANGED <<lock, pin, toolchainvars>>
    BY DEF Toolchain
  <2>2. Download(p) => UNCHANGED <<lock, pin, toolchainvars>>
    BY DEF Download
  <2>3. Validate(p) \/ Inspect(p) => UNCHANGED <<lock, pin, toolchainvars>>
    BY DEF Validate, Inspect
  <2>4. Reject(p) \/ ReadEntries(p) => UNCHANGED <<lock, pin, toolchainvars>>
    BY DEF Reject, ReadEntries
  <2> QED
    BY <2>1, <2>2, <2>3, <2>4
<1>5. CASE Toolchain(p)
  <2>0. PICK todos : todos = {<<r>> : r \in References} \cup (References \X References)
    OBVIOUS
  <2>1. k = Idle /\ \E todo \in todos, refresh \in BOOLEAN : command' = [command EXCEPT ![p] = Begin(todo, refresh)]
    <3>1. command[p] = Idle /\ \E todo \in todos, refresh \in BOOLEAN : Becomes(p, Begin(todo, refresh))
      BY <1>5, <2>0, Zenon DEF Toolchain
    <3> QED
      BY <1>2, <3>1 DEF Becomes
  <2>1a. PICK todo \in todos, refresh \in BOOLEAN : command' = [command EXCEPT ![p] = Begin(todo, refresh)]
    BY <2>1
  <2>2. PICK c : c = Begin(todo, refresh)
    OBVIOUS
  <2>3. todo \in Seq(References) \ {<<>>}
    <3>1. CASE \E r \in References : todo = <<r>>
      BY <3>1
    <3>2. CASE \E r \in References : \E s \in References : todo = <<r, s>>
      BY <3>2
    <3>3. todo \in {<<r>> : r \in References} \/ todo \in References \X References
      BY <2>0
    <3> QED
      BY <3>1, <3>2, <3>3
  <2>4. c \in ToolchainCommands /\ c.pc = "download"
    BY <2>2, <2>3 DEF Begin, ToolchainCommands, Stages, EmptyLock, Entries
  <2>5. Assured(c) /\ IsCommand(c) /\ k.pc \notin Moving
    BY <2>1, <2>4 DEF Assured, IsCommand, Moving, Idle, Stages
  <2> QED
    BY <1>2, <1>4, <2>1a, <2>2, <2>5, CommandStep
<1>6. CASE Download(p)
  <2>0. PICK locked : locked = IF k.refresh THEN NoEntry ELSE lock[Head(k.todo)]
    OBVIOUS
  <2>0a. PICK release : release = IF locked = NoEntry THEN latest ELSE locked.release
    OBVIOUS
  <2>1. k.pc = "download" /\ \E archive \in {Published(release), Damaged(release)} :
          command' = [command EXCEPT ![p] = [k EXCEPT !.pc = "validate", !.pinned = locked.digest,
                                                      !.archive = archive]]
    BY <1>2, <1>6, <2>0, <2>0a, Zenon DEF Download, Becomes, At, Doing
  <2>1a. PICK archive \in {Published(release), Damaged(release)} :
          command' = [command EXCEPT ![p] = [k EXCEPT !.pc = "validate", !.pinned = locked.digest,
                                                      !.archive = archive]]
    BY <2>1, Zenon
  <2>2. PICK c : c = [k EXCEPT !.pc = "validate", !.pinned = locked.digest, !.archive = archive]
    OBVIOUS
  <2>3. k \in ToolchainCommands /\ Head(k.todo) \in References
    BY <1>3, <2>1 DEF Stages
  <2>4. locked \in Entries
    BY <1>1, <2>0, <2>3 DEF ToolchainTypes, Entries
  <2>5. locked.digest \in Archives \cup {None} /\ (locked # NoEntry => locked.release \in Releases)
    BY <2>4, ArchiveFacts DEF Entries
  <2>6. release \in Releases
    BY <1>1, <2>0a, <2>5 DEF ToolchainTypes
  <2>7. archive \in Archives \cup {Damaged(n) : n \in Releases}
    BY <1>1, <2>1a, <2>6 DEF Published, Archives, ToolchainTypes
  <2>8. c \in ToolchainCommands /\ c.pc = "validate" /\ c.pinned = locked.digest
        /\ c.refresh = k.refresh /\ c.todo = k.todo
    BY <2>2, <2>3, <2>5, <2>7 DEF ToolchainCommands, Stages
  <2>9. Assured(c) /\ IsCommand(c) /\ k.pc \notin Moving
    BY <2>0, <2>1, <2>8 DEF Assured, IsCommand, Moving
  <2> QED
    BY <1>2, <1>4, <2>1a, <2>2, <2>9, CommandStep
<1>7. CASE Validate(p)
  <2>1. /\ k.pc = "validate" /\ k.pinned \in {None, Published(k.archive[1])}
        /\ k.archive = Published(k.archive[1])
        /\ command' = [command EXCEPT ![p] = [k EXCEPT !.pc = "inspect"]]
    BY <1>2, <1>7 DEF Validate, Becomes, At, Go
  <2>2. PICK c : c = [k EXCEPT !.pc = "inspect"]
    OBVIOUS
  <2>3. k \in ToolchainCommands
    BY <1>3, <2>1 DEF Stages
  <2>4. /\ c \in ToolchainCommands /\ c.pc = "inspect" /\ c.pinned = k.pinned /\ c.archive = k.archive
        /\ c.refresh = k.refresh /\ c.todo = k.todo
    BY <2>2, <2>3 DEF ToolchainCommands, Stages
  <2>5. Genuine(k.archive)
    <3>1. k.archive \in Archives \cup {Damaged(n) : n \in Releases} \cup {Absent}
      BY <2>3 DEF ToolchainCommands
    <3>2. Len(k.archive) = 2 /\ k.archive[2] = edition[k.archive[1]]
      BY <2>1 DEF Published
    <3>3. k.archive \in Archives
      <4>1. Len(<<>>) = 0
        OBVIOUS
      <4>2. ASSUME NEW n \in Releases PROVE k.archive # <<n>>
        BY <3>2 DEF Releases
      <4> QED
        BY <3>1, <3>2, <4>1, <4>2 DEF Damaged, Absent
    <3> QED
      BY <1>1, <3>2, <3>3, ArchiveFacts DEF Genuine, ToolchainTypes
  <2>6. Assured(c) /\ IsCommand(c) /\ k.pc \notin Moving
    BY <1>1, <1>2, <2>1, <2>4, <2>5 DEF Assured, IsCommand, Moving, Stages
  <2> QED
    BY <1>2, <1>4, <2>1, <2>2, <2>6, CommandStep
<1>8. CASE Inspect(p)
  <2>1. /\ k.pc = "inspect" /\ k.archive \notin Unsound
        /\ command' = [command EXCEPT ![p] = [k EXCEPT !.pc = "replace"]]
    BY <1>2, <1>8 DEF Inspect, Becomes, At, Go
  <2>2. PICK c : c = [k EXCEPT !.pc = "replace"]
    OBVIOUS
  <2>3. k \in ToolchainCommands
    BY <1>3, <2>1 DEF Stages
  <2>4. /\ c \in ToolchainCommands /\ c.pc = "replace" /\ c.pinned = k.pinned /\ c.archive = k.archive
        /\ c.refresh = k.refresh /\ c.todo = k.todo
    BY <2>2, <2>3 DEF ToolchainCommands, Stages
  <2>5. Assured(c) /\ IsCommand(c) /\ k.pc \notin Moving
    BY <1>1, <1>2, <2>1, <2>4 DEF Assured, IsCommand, Moving, Stages
  <2> QED
    BY <1>2, <1>4, <2>1, <2>2, <2>5, CommandStep
<1>9. CASE Reject(p)
  <2>1. k.pc \in {"download", "validate", "inspect"} /\ command' = [command EXCEPT ![p] = Idle]
    BY <1>2, <1>9 DEF Reject, Becomes
  <2>2. Assured(Idle) /\ IsCommand(Idle) /\ k.pc \notin Moving
    BY <2>1 DEF Assured, IsCommand, Moving, Idle, Stages
  <2> QED
    BY <1>2, <1>4, <2>1, <2>2, CommandStep
<1>10. CASE ReadEntries(p)
  <2>1. k.pc = "read" /\ command' = [command EXCEPT ![p] = [k EXCEPT !.pc = "write", !.entries = lock]]
    BY <1>2, <1>10 DEF ReadEntries, Becomes, At
  <2>2. PICK c : c = [k EXCEPT !.pc = "write", !.entries = lock]
    OBVIOUS
  <2>3. k \in ToolchainCommands
    BY <1>3, <2>1 DEF Stages
  <2>4. /\ c \in ToolchainCommands /\ c.pc = "write" /\ c.pinned = k.pinned /\ c.archive = k.archive
        /\ c.refresh = k.refresh /\ c.todo = k.todo /\ c.entries = lock
    BY <1>1, <2>2, <2>3 DEF ToolchainCommands, Stages, ToolchainTypes
  <2>5. Assured(c) /\ IsCommand(c) /\ c.pc \in Moving /\ Head(c.todo) = Head(k.todo)
    BY <1>1, <1>2, <2>1, <2>4 DEF Assured, IsCommand, Moving, Stages
  <2> QED
    BY <1>2, <1>4, <2>1, <2>2, <2>5, CommandStep
<1> QED
  BY <1>5, <1>6, <1>7, <1>8, <1>9, <1>10

\* The old bundle goes, and the new one is put in its place.
LEMMA StoringKeepsToolchains ==
    ASSUME OneCommand, NEW p \in Processes, ToolchainInv, Replace(p) \/ Move(p)
    PROVE  ToolchainInv'
<1>1. ToolchainTypes /\ Assured(command[p])
  BY DEF ToolchainInv
<1>2. PICK k : k = command[p]
  OBVIOUS
<1>3a. PICK stage \in {"move", "read"} : \E archive :
        /\ k.pc = IF stage = "move" THEN "replace" ELSE "move"
        /\ archive = IF stage = "move" THEN Absent ELSE k.archive
        /\ store' = [store EXCEPT ![Head(k.todo)] = archive]
        /\ command' = [command EXCEPT ![p] = [k EXCEPT !.pc = stage]]
        /\ UNCHANGED <<lock, pin, upstream, doubt>>
  <2>1. CASE Replace(p)
    BY <1>2, <2>1 DEF Replace, At, Go, Becomes, Doing
  <2>2. CASE Move(p)
    BY <1>2, <2>2 DEF Move, At, Go, Becomes, Doing
  <2> QED
    BY <2>1, <2>2
<1>3. PICK archive :
        /\ k.pc = IF stage = "move" THEN "replace" ELSE "move"
        /\ archive = IF stage = "move" THEN Absent ELSE k.archive
        /\ store' = [store EXCEPT ![Head(k.todo)] = archive]
        /\ command' = [command EXCEPT ![p] = [k EXCEPT !.pc = stage]]
        /\ UNCHANGED <<lock, pin, upstream, doubt>>
  BY <1>3a, Zenon
<1>4. k \in ToolchainCommands /\ Head(k.todo) \in References
  BY <1>1, <1>2, <1>3, TheCommand, KindOf DEF Stages
<1>5. PICK c : c = [k EXCEPT !.pc = stage]
  OBVIOUS
<1>6. PICK r : r = Head(k.todo)
  OBVIOUS
<1>7. c \in ToolchainCommands /\ c.pc = stage /\ c.pinned = k.pinned /\ c.archive = k.archive
      /\ c.refresh = k.refresh /\ c.todo = k.todo
  BY <1>3, <1>4, <1>5 DEF ToolchainCommands, Stages
<1>8. command'[p] = c /\ \A q \in Processes : command'[q] = c
  BY <1>1, <1>2, <1>3, <1>5, TheCommand
<1>9. r \in References /\ \A s \in References : store'[s] = IF s = r THEN archive ELSE store[s]
  BY <1>1, <1>3, <1>4, <1>6 DEF ToolchainTypes
<1>10. lock' = lock /\ pin' = pin /\ latest' = latest /\ edition' = edition /\ doubt' = doubt
  BY <1>3 DEF upstream
<1>11. Changing \subseteq {r} /\ Changing' = {r}
  BY <1>1, <1>2, <1>3, <1>6, <1>7, <1>8, TheCommand DEF Moving
<1>12. Genuine(k.archive) /\ k.archive \notin Unsound /\ k.archive \in Archives
  BY <1>1, <1>2, <1>3 DEF Assured, Stages, Genuine
<1>13. archive \in Archives \cup {Absent} /\ (archive \in Archives => archive = k.archive)
  BY <1>3, <1>12, ArchiveFacts
<1>14. \A a : Genuine(a)' <=> Genuine(a)
  BY <1>10 DEF Genuine
<1>15. ToolchainTypes'
  <2>1. store' \in [References -> Archives \cup {Absent, Partial}]
    BY <1>1, <1>3, <1>13 DEF ToolchainTypes
  <2>2. command' = [q \in Processes |-> command'[q]]
    BY <1>1, <1>3 DEF ToolchainTypes
  <2>3. \A q \in Processes : IsCommand(command'[q])
    BY <1>7, <1>8 DEF IsCommand
  <2>4. \A x : IsCommand(x)' <=> IsCommand(x)
    BY DEF IsCommand, IsPackageCommand
  <2> QED
    BY <1>1, <1>10, <2>1, <2>2, <2>3, <2>4 DEF ToolchainTypes
<1>16. Assured(c)'
  <2>1. Assured(k)
    BY <1>1, <1>2
  <2>2. k.pc \in Stages \ {"download", "validate"} /\ c.pc \in Stages \ {"download", "validate", "write"}
    BY <1>3, <1>7 DEF Stages
  <2>3. c.pc = "read" => store'[r] = k.archive
    BY <1>3, <1>7, <1>9
  <2> QED
    BY <1>6, <1>7, <1>10, <1>12, <1>14, <2>1, <2>2, <2>3 DEF Assured
<1>17. \A q \in Processes : Assured(command[q])'
  BY <1>8, <1>16
<1>18. \A s \in References : store'[s] \in Archives => Genuine(store'[s]) /\ store'[s] \notin Unsound
  BY <1>9, <1>12, <1>13 DEF ToolchainInv
<1> QED
  BY <1>9, <1>10, <1>11, <1>14, <1>15, <1>17, <1>18 DEF ToolchainInv

\* The command that ends with its last reference, or goes on with the next.
LEMMA RecordKeepsToolchains ==
    ASSUME OneCommand, NEW p \in Processes, ToolchainInv, Record(p)
    PROVE  ToolchainInv'
<1>1. ToolchainTypes /\ Assured(command[p])
  BY DEF ToolchainInv
<1>2. PICK k : k = command[p]
  OBVIOUS
<1>3. PICK r : r = Head(k.todo)
  OBVIOUS
<1>4. PICK c : c = IF Len(k.todo) = 1 THEN Idle ELSE Begin(Tail(k.todo), k.refresh)
  OBVIOUS
<1>5. /\ k.pc = "write"
      /\ lock' = [k.entries EXCEPT ![r] = Entry(k.archive)]
      /\ pin' = [pin EXCEPT ![r] = IF k.refresh \/ @ = None THEN k.archive ELSE @]
      /\ doubt' = doubt \ {r}
      /\ command' = [command EXCEPT ![p] = c]
      /\ UNCHANGED <<upstream, store>>
  BY <1>2, <1>3, <1>4 DEF Record, Recorded, At, Becomes, Doing
<1>6. k \in ToolchainCommands /\ r \in References /\ (Len(k.todo) # 1 => Tail(k.todo) \in Seq(References) \ {<<>>})
  BY <1>1, <1>2, <1>3, <1>5, TheCommand, KindOf DEF Stages
<1>7. /\ k.entries = lock /\ store[r] = k.archive /\ k.archive \in Archives /\ Genuine(k.archive)
      /\ k.pinned \in {None, k.archive} /\ (~k.refresh => k.pinned = lock[r].digest)
  BY <1>1, <1>2, <1>3, <1>5 DEF Assured, Stages, Genuine
<1>8. latest' = latest /\ edition' = edition /\ store' = store
  BY <1>5 DEF upstream
<1>9. pin'[r] = k.archive
  <2>1. pin'[r] = IF k.refresh \/ pin[r] = None THEN k.archive ELSE pin[r]
    BY <1>1, <1>5, <1>6 DEF ToolchainTypes
  <2>2. CASE ~k.refresh /\ pin[r] # None
    <3>1. lock[r] = Entry(pin[r]) /\ pin[r] \in Archives
      BY <1>1, <1>6, <2>2 DEF ToolchainInv, ToolchainTypes
    <3>2. k.pinned = pin[r]
      BY <1>7, <2>2, <3>1, ArchiveFacts
    <3>3. pin[r] = k.archive
      BY <1>7, <2>2, <3>2
    <3> QED
      BY <2>1, <3>3
  <2> QED
    BY <2>1, <2>2
<1>10. \A s \in References : /\ lock'[s] = IF s = r THEN Entry(k.archive) ELSE lock[s]
                             /\ pin'[s] = IF s = r THEN k.archive ELSE pin[s]
  BY <1>1, <1>5, <1>6, <1>7, <1>9 DEF ToolchainTypes
<1>11. command'[p] = c /\ \A q \in Processes : command'[q] = c
  BY <1>1, <1>2, <1>5, TheCommand
<1>12. IsCommand(c) /\ c.pc \in {"idle", "download"}
  <2>1. CASE Len(k.todo) = 1
    BY <1>4, <2>1 DEF IsCommand, Idle
  <2>2. CASE Len(k.todo) # 1
    <3>1. k.refresh \in BOOLEAN
      BY <1>6 DEF ToolchainCommands
    <3>2. c \in ToolchainCommands /\ c.pc = "download"
      BY <1>4, <1>6, <2>2, <3>1 DEF Begin, ToolchainCommands, Stages, EmptyLock, Entries
    <3> QED
      BY <3>2 DEF IsCommand
  <2> QED
    BY <2>1, <2>2
<1>13. Changing = {r} /\ Changing' = {}
  BY <1>1, <1>2, <1>3, <1>5, <1>11, <1>12, TheCommand DEF Moving
<1>14. \A q \in Processes : Assured(command[q])'
  <2>1. Assured(c)'
    BY <1>12 DEF Assured, Stages
  <2> QED
    BY <1>11, <2>1
<1>15. ToolchainTypes'
  <2>1. lock' \in [References -> Entries]
    BY <1>1, <1>5, <1>7 DEF ToolchainTypes, Entries
  <2>2. pin' \in [References -> Archives \cup {None}]
    BY <1>1, <1>5, <1>7 DEF ToolchainTypes
  <2>3. command' = [q \in Processes |-> command'[q]]
    BY <1>1, <1>5 DEF ToolchainTypes
  <2>4. \A q \in Processes : IsCommand(command'[q])
    BY <1>11, <1>12
  <2>5. \A x : IsCommand(x)' <=> IsCommand(x)
    BY DEF IsCommand, IsPackageCommand
  <2>6. doubt' \in SUBSET References
    BY <1>1, <1>5 DEF ToolchainTypes
  <2> QED
    BY <1>1, <1>8, <2>1, <2>2, <2>3, <2>4, <2>5, <2>6 DEF ToolchainTypes
<1>16. /\ \A s \in References : store'[s] \in Archives => Genuine(store'[s]) /\ store'[s] \notin Unsound
       /\ \A a : Genuine(a)' <=> Genuine(a)
  BY <1>8 DEF ToolchainInv, Genuine
<1>17. \A s \in References : pin'[s] # None => lock'[s] = Entry(pin'[s])
  BY <1>10 DEF ToolchainInv
<1>18. k.archive # None
  BY <1>7, ArchiveFacts
<1>19. \A s \in References \ doubt' : pin'[s] = None => lock'[s] = NoEntry
  BY <1>5, <1>10, <1>18 DEF ToolchainInv
<1>20. \A s \in References \ (doubt' \cup Changing') : pin'[s] # None => store'[s] = pin'[s]
  BY <1>5, <1>7, <1>8, <1>10, <1>13 DEF ToolchainInv
<1> QED
  BY <1>14, <1>15, <1>16, <1>17, <1>19, <1>20 DEF ToolchainInv

\* A write that breaks keeps an entry and its pin, or loses both.
LEMMA BrokenWrite ==
    ASSUME NEW entries \in [References -> Entries], WriteBreaks(entries), ToolchainTypes,
           NEW exempt, \A r \in References \ exempt : entries[r] = lock[r]
    PROVE  /\ lock' \in [References -> Entries] /\ pin' \in [References -> Archives \cup {None}]
           /\ \A r \in References : \/ lock'[r] = lock[r] /\ pin'[r] = pin[r]
                                    \/ pin'[r] = None /\ (r \notin exempt => lock'[r] = NoEntry)
<1>1. pin' = [r \in References |-> IF lock'[r] = lock[r] THEN pin[r] ELSE None]
  BY DEF WriteBreaks
<1>2. lock' = lock \/ \E n \in References \cup {0} :
                         lock' = [r \in References |-> IF r <= n THEN entries[r] ELSE NoEntry]
  BY DEF WriteBreaks, Beginnings
<1>3. lock' \in [References -> Entries] /\ \A r \in References : lock'[r] \in {lock[r], entries[r], NoEntry}
  BY <1>2 DEF ToolchainTypes, Entries
<1> QED
  BY <1>1, <1>3 DEF ToolchainTypes

\* What a command that ends early leaves of a reference is in doubt.
LEMMA BreakKeepsToolchains ==
    ASSUME OneCommand, NEW p \in Processes, ToolchainInv, BreakReplacing(p) \/ BreakRecording(p)
    PROVE  ToolchainInv'
<1>1. ToolchainTypes /\ Assured(command[p])
  BY DEF ToolchainInv
<1>2. PICK k : k = command[p]
  OBVIOUS
<1>3. PICK r : r = Head(k.todo)
  OBVIOUS
<1>4. /\ k.pc \in {"replace", "move", "read", "write"}
      /\ doubt' = doubt \cup {r} /\ command' = [command EXCEPT ![p] = Idle] /\ UNCHANGED upstream
  BY <1>2, <1>3 DEF BreakReplacing, BreakRecording, At, Becomes, Doing
<1>5. k \in ToolchainCommands /\ r \in References
  BY <1>1, <1>2, <1>3, <1>4, TheCommand, KindOf DEF Stages
<1>6. latest' = latest /\ edition' = edition
  BY <1>4 DEF upstream
<1>7. command'[p] = Idle /\ \A q \in Processes : command'[q] = Idle
  BY <1>1, <1>2, <1>4, TheCommand
<1>8. store' \in [References -> Archives \cup {Absent, Partial}]
      /\ \A s \in References : store'[s] = store[s] \/ (s = r /\ store'[s] = Partial)
  <2>1. store' = store \/ store' = [store EXCEPT ![r] = Partial]
    BY <1>2, <1>3 DEF BreakReplacing, BreakRecording, Doing
  <2> QED
    BY <1>1, <1>5, <2>1 DEF ToolchainTypes
<1>9. /\ lock' \in [References -> Entries] /\ pin' \in [References -> Archives \cup {None}]
      /\ \A s \in References : \/ lock'[s] = lock[s] /\ pin'[s] = pin[s]
                               \/ pin'[s] = None /\ (s # r => lock'[s] = NoEntry)
  <2>1. CASE lock' = lock /\ pin' = pin
    BY <1>1, <2>1 DEF ToolchainTypes
  <2>2. CASE k.pc = "write" /\ WriteBreaks(Recorded(p))
    <3>1. k.entries = lock /\ k.archive \in Archives
      BY <1>1, <1>2, <2>2 DEF Assured, Stages, Genuine
    <3>2. PICK entries : entries = Recorded(p)
      OBVIOUS
    <3>3. entries = [lock EXCEPT ![r] = Entry(k.archive)]
      BY <1>2, <1>3, <3>1, <3>2 DEF Recorded, Doing
    <3>4. entries \in [References -> Entries] /\ \A s \in References \ {r} : entries[s] = lock[s]
      BY <1>1, <1>5, <3>1, <3>3 DEF ToolchainTypes, Entries
    <3>5. PICK exempt : exempt = {r}
      OBVIOUS
    <3>6. WriteBreaks(entries) /\ \A s \in References \ exempt : entries[s] = lock[s]
      BY <2>2, <3>2, <3>4, <3>5
    <3>7. /\ lock' \in [References -> Entries] /\ pin' \in [References -> Archives \cup {None}]
          /\ \A s \in References : \/ lock'[s] = lock[s] /\ pin'[s] = pin[s]
                                   \/ pin'[s] = None /\ (s \notin exempt => lock'[s] = NoEntry)
      BY <1>1, <3>4, <3>6, BrokenWrite
    <3> QED
      BY <3>5, <3>7
  <2> QED
    BY <1>2, <2>1, <2>2 DEF BreakReplacing, BreakRecording, At
<1>10. Changing \subseteq {r} /\ Changing' = {}
  BY <1>1, <1>2, <1>3, <1>7, TheCommand DEF Moving, Idle
<1>11. \A q \in Processes : Assured(command[q])'
  BY <1>7 DEF Assured, Idle, Stages
<1>12. ToolchainTypes'
  <2>1. command' = [q \in Processes |-> command'[q]]
    BY <1>1, <1>4 DEF ToolchainTypes
  <2>2. \A q \in Processes : IsCommand(command'[q])
    BY <1>7 DEF IsCommand
  <2>3. \A x : IsCommand(x)' <=> IsCommand(x)
    BY DEF IsCommand, IsPackageCommand
  <2>4. doubt' \in SUBSET References
    BY <1>1, <1>4, <1>5 DEF ToolchainTypes
  <2> QED
    BY <1>1, <1>6, <1>8, <1>9, <2>1, <2>2, <2>3, <2>4 DEF ToolchainTypes
<1>13. /\ \A s \in References : store'[s] \in Archives => Genuine(store'[s]) /\ store'[s] \notin Unsound
       /\ \A a : Genuine(a)' <=> Genuine(a)
  <2>1. Partial \notin Archives
    BY ArchiveFacts
  <2>2. \A s \in References : store'[s] \in Archives => Genuine(store'[s]) /\ store'[s] \notin Unsound
    BY <1>8, <2>1 DEF ToolchainInv
  <2>3. \A a : Genuine(a)' <=> Genuine(a)
    BY <1>6 DEF Genuine
  <2> QED
    BY <2>2, <2>3
<1>14. \A s \in References : pin'[s] # None => lock'[s] = Entry(pin'[s])
  BY <1>9 DEF ToolchainInv
<1>15. \A s \in References \ doubt' : pin'[s] = None => lock'[s] = NoEntry
  BY <1>4, <1>9 DEF ToolchainInv
<1>16. \A s \in References \ (doubt' \cup Changing') : pin'[s] # None => store'[s] = pin'[s]
  BY <1>4, <1>8, <1>9, <1>10 DEF ToolchainInv
<1> QED
  BY <1>11, <1>12, <1>13, <1>14, <1>15, <1>16 DEF ToolchainInv

LEMMA UntouchedToolchains ==
    ASSUME ToolchainInv, UNCHANGED <<lock, pin, toolchainvars, command>>
    PROVE  ToolchainInv'
<1>1. /\ lock' = lock /\ pin' = pin /\ latest' = latest /\ edition' = edition /\ store' = store
      /\ doubt' = doubt /\ command' = command
  BY DEF toolchainvars
<1>2. ToolchainTypes'
  <2>1. \A x : IsCommand(x)' <=> IsCommand(x)
    BY DEF IsCommand, IsPackageCommand
  <2> QED
    BY <1>1, <2>1 DEF ToolchainInv, ToolchainTypes
<1>3. \A a : (Genuine(a)' <=> Genuine(a)) /\ (Assured(a)' <=> Assured(a))
  BY <1>1 DEF Genuine, Assured
<1>4. Changing' = Changing
  BY <1>1 DEF Changing, Doing
<1> QED
  BY <1>1, <1>2, <1>3, <1>4 DEF ToolchainInv

\* Releases and their assets are published; they are not withdrawn.
LEMMA UpstreamKeepsToolchains ==
    ASSUME ToolchainInv, Publish \/ Republish
    PROVE  ToolchainInv'
<1>1. ToolchainTypes
  BY DEF ToolchainInv
<1>2. lock' = lock /\ pin' = pin /\ command' = command /\ store' = store /\ doubt' = doubt
  BY DEF Publish, Republish
<1>3. latest' \in Releases
  BY <1>1, ToolchainAssumption DEF Publish, Republish, ToolchainTypes, Releases
<1>4. edition' \in [Releases -> 1..MaxEdition] /\ \A n \in Releases : edition[n] <= edition'[n]
  <2>1. CASE Publish
    BY <1>1, <2>1 DEF Publish, ToolchainTypes
  <2>2. CASE Republish
    <3>1. PICK n \in 1..latest : edition[n] < MaxEdition /\ edition' = [edition EXCEPT ![n] = @ + 1]
      BY <2>2 DEF Republish
    <3>2. n \in Releases
      BY <1>1, ToolchainAssumption DEF ToolchainTypes, Releases
    <3> QED
      BY <1>1, <3>1, <3>2, ToolchainAssumption DEF ToolchainTypes
  <2> QED
    BY <2>1, <2>2
<1>5. ToolchainTypes'
  <2>1. \A x : IsCommand(x)' <=> IsCommand(x)
    BY DEF IsCommand, IsPackageCommand
  <2> QED
    BY <1>1, <1>2, <1>3, <1>4, <2>1 DEF ToolchainTypes
<1>6. \A a : Genuine(a) => Genuine(a)'
  <2>1. ASSUME NEW a, Genuine(a) PROVE Genuine(a)'
    <3>1. a \in Archives /\ a[2] <= edition[a[1]] /\ a[1] \in Releases /\ a[2] \in Int
      BY <2>1, ArchiveFacts, ToolchainAssumption DEF Genuine
    <3>2. edition[a[1]] \in Int /\ edition'[a[1]] \in Int
      BY <1>1, <1>4, <3>1, ToolchainAssumption DEF ToolchainTypes
    <3> QED
      BY <1>4, <3>1, <3>2 DEF Genuine
  <2> QED
    BY <2>1
<1>7. \A a : Assured(a) => Assured(a)'
  BY <1>2, <1>6 DEF Assured
<1>8. Changing' = Changing
  BY <1>2 DEF Changing, Doing
<1> QED
  BY <1>2, <1>5, <1>6, <1>7, <1>8 DEF ToolchainInv

\* Commands on packages write the lock again, with the toolchains that it has.
LEMMA PackagesKeepToolchains ==
    ASSUME OneCommand, NEW p \in Processes, ToolchainInv, PackageStep(p), UNCHANGED toolchainvars
    PROVE  ToolchainInv'
<1>1. ToolchainTypes
  BY DEF ToolchainInv
<1>2. PICK k : k = command[p]
  OBVIOUS
<1>3. IsCommand(k) /\ (k.pc \in {"place", "record"} => IsPackageCommand(k))
  BY <1>1, <1>2, TheCommand, KindOf
<1>4. Assured(Idle) /\ IsCommand(Idle) /\ Idle.pc \notin Moving
  BY DEF Assured, IsCommand, Moving, Idle, Stages
<1>5. CASE AddPackage(p)
  BY <1>5, UntouchedToolchains DEF AddPackage
<1>6. CASE InstallPackages(p)
  <2>1. PICK todo : command' = [command EXCEPT ![p] = [pc |-> "place", todo |-> todo, placed |-> {}]]
    BY <1>6 DEF InstallPackages, Becomes
  <2>2. PICK c : c = [pc |-> "place", todo |-> todo, placed |-> {}]
    OBVIOUS
  <2>3. c.pc = "place" /\ IsPackageCommand(c)
    BY <2>2 DEF IsPackageCommand
  <2>4. Assured(c) /\ IsCommand(c)
    BY <2>3 DEF Assured, IsCommand, Stages
  <2>5. command[p].pc \notin Moving
    BY <1>4, <1>6 DEF InstallPackages
  <2>6. UNCHANGED <<lock, pin, toolchainvars>>
    BY <1>6 DEF InstallPackages
  <2> QED
    BY <2>1, <2>2, <2>4, <2>5, <2>6, CommandStep
<1>7. CASE Place(p)
  <2>1. PICK c : c = [k EXCEPT !.todo = Tail(@), !.placed = @ \cup {Head(k.todo).name},
                               !.pc = IF Len(k.todo) = 1 THEN "record" ELSE @]
    OBVIOUS
  <2>2. k.pc = "place" /\ command' = [command EXCEPT ![p] = c]
    BY <1>2, <1>7, <2>1 DEF Place, At, Becomes
  <2>3. k = [pc |-> k.pc, todo |-> k.todo, placed |-> k.placed]
    BY <1>3, <2>2 DEF IsPackageCommand
  <2>4. c = [pc |-> IF Len(k.todo) = 1 THEN "record" ELSE k.pc, todo |-> Tail(k.todo),
             placed |-> k.placed \cup {Head(k.todo).name}]
    BY <2>1, <2>3
  <2>5. c.pc \in {"place", "record"} /\ IsPackageCommand(c)
    BY <2>2, <2>4 DEF IsPackageCommand
  <2>6. Assured(c) /\ IsCommand(c) /\ k.pc \notin Moving
    BY <2>2, <2>5 DEF Assured, IsCommand, Moving, Stages
  <2>7. UNCHANGED <<lock, pin, toolchainvars>>
    BY <1>7 DEF Place
  <2> QED
    BY <1>2, <2>2, <2>6, <2>7, CommandStep
<1>8. CASE RecordDependencies(p)
  <2>1. command' = [command EXCEPT ![p] = Idle] /\ k.pc = "record"
    BY <1>2, <1>8 DEF RecordDependencies, At, Becomes
  <2>2. UNCHANGED <<lock, pin, toolchainvars>>
    BY <1>8 DEF RecordDependencies, writeDependencies
  <2> QED
    BY <1>2, <1>4, <2>1, <2>2, CommandStep DEF Moving
<1>9. CASE BreakPackages(p)
  <2>1. command' = [command EXCEPT ![p] = Idle] /\ k.pc \in {"place", "record"}
    BY <1>2, <1>9 DEF BreakPackages, Becomes
  <2>2. CASE UNCHANGED <<lock, pin>>
    BY <1>2, <1>4, <2>1, <2>2, CommandStep DEF Moving
  <2>3. CASE WriteBreaks(lock)
    <3>1. PICK exempt : exempt = {}
      OBVIOUS
    <3>2. lock \in [References -> Entries] /\ \A r \in References \ exempt : lock[r] = lock[r]
      BY <1>1 DEF ToolchainTypes
    <3>3. /\ lock' \in [References -> Entries] /\ pin' \in [References -> Archives \cup {None}]
          /\ \A r \in References : \/ lock'[r] = lock[r] /\ pin'[r] = pin[r]
                                   \/ pin'[r] = None /\ (r \notin exempt => lock'[r] = NoEntry)
      BY <1>1, <2>3, <3>2, BrokenWrite
    <3>4. latest' = latest /\ edition' = edition /\ store' = store /\ doubt' = doubt
      BY DEF toolchainvars
    <3>5. command'[p] = Idle /\ \A q \in Processes : command'[q] = Idle
      BY <1>1, <2>1, TheCommand
    <3>6. Changing = {} /\ Changing' = {}
      BY <1>1, <1>2, <1>4, <2>1, <3>5, TheCommand DEF Moving
    <3>7. ToolchainTypes'
      <4>1. command' = [q \in Processes |-> command'[q]]
        BY <1>1, <2>1 DEF ToolchainTypes
      <4>2. \A q \in Processes : IsCommand(command'[q])
        BY <1>4, <3>5
      <4>3. \A x : IsCommand(x)' <=> IsCommand(x)
        BY DEF IsCommand, IsPackageCommand
      <4> QED
        BY <1>1, <3>3, <3>4, <4>1, <4>2, <4>3 DEF ToolchainTypes
    <3>8. \A q \in Processes : Assured(command[q])'
      BY <3>5 DEF Assured, Idle, Stages
    <3>9. \A a : Genuine(a)' <=> Genuine(a)
      BY <3>4 DEF Genuine
    <3> QED
      BY <3>1, <3>3, <3>4, <3>6, <3>7, <3>8, <3>9 DEF ToolchainInv
  <2> QED
    BY <1>9, <2>2, <2>3 DEF BreakPackages, writeDependencies
<1> QED
  BY <1>5, <1>6, <1>7, <1>8, <1>9 DEF PackageStep

LEMMA ToolchainInvStep ==
    ASSUME OneCommand, ToolchainInv, [Next]_vars
    PROVE  ToolchainInv'
<1>1. ASSUME NEW p \in Processes, ToolchainCommand(p) PROVE ToolchainInv'
  BY <1>1, PreparationKeepsToolchains, StoringKeepsToolchains, RecordKeepsToolchains, BreakKeepsToolchains
     DEF ToolchainCommand, ToolchainStep
<1>2. ASSUME NEW p \in Processes, PackageCommand(p) PROVE ToolchainInv'
  BY <1>2, PackagesKeepToolchains DEF PackageCommand
<1>3. CASE Upstream
  BY <1>3, UpstreamKeepsToolchains DEF Upstream
<1>4. CASE User
  BY <1>4, UntouchedToolchains DEF User, RemoveModule, RemoveDependency
<1>5. CASE UNCHANGED vars
  BY <1>5, UntouchedToolchains DEF vars
<1> QED
  BY <1>1, <1>2, <1>3, <1>4, <1>5 DEF Next

\* As long as the commands on a project run one after the other, "toolchain
\* install" and "toolchain update" leave what the lock says, whole, whatever is
\* published in the meantime and wherever a command of either kind ends early,
\* for any references, releases and editions. That a pin is in the lock at all
\* times, in doubt or not, is what makes a repaired command install the release
\* that was pinned.
THEOREM ToolchainsReproduce == OneCommand => (Spec => []InstallsReproduce)
<1>1. Init => ToolchainInv
  BY InitToolchains
<1>2. OneCommand /\ ToolchainInv /\ [Next]_vars => ToolchainInv'
  BY ToolchainInvStep
<1>3. ToolchainInv => InstallsReproduce
  <2> SUFFICES ASSUME ToolchainInv PROVE InstallsReproduce
    OBVIOUS
  <2>2. \A r \in References : store[r] \in Bundles \cup {Absent, Partial}
    BY DEF ToolchainInv, ToolchainTypes, Genuine, Bundles, Archives
  <2>3. ASSUME NEW r \in References \ (doubt \cup Changing)
        PROVE  /\ lock[r] = IF pin[r] = None THEN NoEntry ELSE Entry(pin[r])
               /\ pin[r] # None => store[r] = pin[r]
    BY DEF ToolchainInv
  <2> QED
    BY <2>2, <2>3 DEF InstallsReproduce
<1>4. CASE OneCommand
  <2>1. ToolchainInv /\ [Next]_vars => ToolchainInv'
    BY <1>2, <1>4
  <2> QED
    BY <1>1, <1>3, <2>1, PTL DEF Spec
<1> QED
  BY <1>4

-------------------------------------------------------------------------------
\* Induction and recursion, over sets and functions.

Less == {pair \in Nat \X Nat : pair[1] < pair[2]}

\* What holds of 0, and with a number of the next, holds of all.
LEMMA CountingUp ==
    ASSUME NEW P, 0 \in P, \A n \in Nat : n \in P => n + 1 \in P
    PROVE  Nat \subseteq P
<1> SUFFICES ASSUME ~(Nat \subseteq P) PROVE FALSE
  OBVIOUS
<1>1. PICK bad : bad = {n \in Nat : n \notin P}
  OBVIOUS
<1>2. bad # {} /\ bad \subseteq Nat
  BY <1>1
<1>3. IsWellFoundedOn(Less, Nat)
  BY NatLessThanWellFounded DEF OpToRel, Less
<1>4. PICK n \in bad : \A m \in bad : ~ (<<m, n>> \in Less)
  BY <1>2, <1>3, WFMin
<1>5. n \in Nat /\ n # 0 /\ n \notin P
  BY <1>1, <1>4
<1>6. n - 1 \in Nat /\ n - 1 < n /\ (n - 1) + 1 = n
  BY <1>5
<1>7. n - 1 \notin bad
  BY <1>4, <1>5, <1>6 DEF Less
<1> QED
  BY <1>1, <1>5, <1>6, <1>7

\* A step defines a run.
Steps(A, base, step) == base \in A /\ step \in [Nat \X A -> A]

LEMMA RunsExist ==
    ASSUME NEW A, NEW base, NEW step, Steps(A, base, step)
    PROVE  \E r \in [Nat -> A] : r[0] = base /\ \A n \in Nat : r[n + 1] = step[<<n, r[n]>>]
<1> DEFINE Run(n, g) == /\ g \in [0..n -> A] /\ g[0] = base
                        /\ \A i \in 0..n : i < n => g[i + 1] = step[<<i, g[i]>>]
<1> USE DEF Steps
<1>1. ASSUME NEW n \in Nat, NEW g, NEW h, Run(n, g), Run(n + 1, h)
      PROVE  \A i \in 0..n : g[i] = h[i]
  <2>1. PICK P : P = {i \in Nat : i <= n => g[i] = h[i]}
    OBVIOUS
  <2>2. 0 \in P
    BY <1>1, <2>1
  <2>3. ASSUME NEW i \in Nat, i \in P PROVE i + 1 \in P
    <3>1. CASE i + 1 <= n
      <4>1. i \in 0..n /\ i < n /\ i \in 0..(n + 1) /\ i < n + 1
        BY <3>1
      <4>2. g[i] = h[i]
        BY <2>1, <2>3, <4>1
      <4>3. g[i + 1] = step[<<i, g[i]>>] /\ h[i + 1] = step[<<i, h[i]>>]
        BY <1>1, <4>1
      <4> QED
        BY <2>1, <4>2, <4>3
    <3>2. CASE ~(i + 1 <= n)
      BY <2>1, <3>2
    <3> QED
      BY <3>1, <3>2
  <2>4. Nat \subseteq P
    BY <2>2, <2>3, CountingUp
  <2> QED
    BY <2>1, <2>4
<1>2. PICK E : E = {n \in Nat : \E g : Run(n, g)}
  OBVIOUS
<1>3. 0 \in E
  <2>1. Run(0, [i \in 0..0 |-> base])
    OBVIOUS
  <2> QED
    BY <1>2, <2>1
<1>4. ASSUME NEW n \in Nat, n \in E PROVE n + 1 \in E
  <2>1. PICK g : Run(n, g)
    BY <1>2, <1>4
  <2>2. PICK h : h = [i \in 0..(n + 1) |-> IF i <= n THEN g[i] ELSE step[<<n, g[n]>>]]
    OBVIOUS
  <2>3. g[n] \in A /\ step[<<n, g[n]>>] \in A
    BY <2>1
  <2>4. h \in [0..(n + 1) -> A] /\ h[0] = base
    BY <2>1, <2>2, <2>3
  <2>5. ASSUME NEW i \in 0..(n + 1), i < n + 1 PROVE h[i + 1] = step[<<i, h[i]>>]
    <3>1. CASE i < n
      BY <2>1, <2>2, <2>5, <3>1
    <3>2. CASE i = n
      BY <2>2, <3>2
    <3> QED
      BY <2>5, <3>1, <3>2
  <2>6. Run(n + 1, h)
    BY <2>4, <2>5
  <2> QED
    BY <1>2, <2>6
<1> HIDE DEF Run
<1>5. Nat \subseteq E
  BY <1>3, <1>4, CountingUp
<1>6. PICK run : run = [n \in Nat |-> CHOOSE g : Run(n, g)]
  OBVIOUS
<1>7. \A n \in Nat : Run(n, run[n])
  BY <1>2, <1>5, <1>6
<1>8. PICK r : r = [n \in Nat |-> run[n][n]]
  OBVIOUS
<1>9. ASSUME NEW n \in Nat PROVE r[n] \in A /\ r[n + 1] = step[<<n, r[n]>>]
  <2>1. Run(n, run[n]) /\ Run(n + 1, run[n + 1])
    BY <1>7
  <2>2. \A i \in 0..n : run[n][i] = run[n + 1][i]
    BY <1>1, <2>1
  <2>2a. run[n][n] = run[n + 1][n]
    BY <2>2
  <2>3. run[n][n] \in A /\ run[n + 1][n + 1] = step[<<n, run[n + 1][n]>>]
    BY <2>1 DEF Run
  <2> QED
    BY <1>8, <2>2a, <2>3
<1>10. r[0] = base
  BY <1>7, <1>8 DEF Run
<1>11. r \in [Nat -> A]
  BY <1>8, <1>9
<1> QED
  BY <1>9, <1>10, <1>11

\* MapThenFoldSet in the form of a function: it takes an element after the other
\* out of each subset of S.
Folding(S, A, base, step, pick) ==
    /\ IsFiniteSet(S) /\ base \in A /\ step \in [S \X A -> A]
    /\ \A s \in SUBSET S : s # {} => pick[s] \in s

Folded(S, A, base, step, pick, it) ==
    /\ it \in [SUBSET S -> A]
    /\ \A s \in SUBSET S : it[s] = IF s = {} THEN base ELSE step[<<pick[s], it[s \ {pick[s]}]>>]

LEMMA IteratesExist ==
    ASSUME NEW S, NEW A, NEW base, NEW step, NEW pick, Folding(S, A, base, step, pick)
    PROVE  \E it : Folded(S, A, base, step, pick, it)
<1> USE DEF Folding
<1>1. PICK B : B = [SUBSET S -> A]
  OBVIOUS
<1>2. PICK next : next = [p \in Nat \X B |-> [s \in SUBSET S |->
                    IF s = {} THEN base ELSE step[<<pick[s], p[2][s \ {pick[s]}]>>]]]
  OBVIOUS
<1>3. next \in [Nat \X B -> B]
  <2>1. ASSUME NEW b \in B, NEW s \in SUBSET S, s # {} PROVE step[<<pick[s], b[s \ {pick[s]}]>>] \in A
    <3>1. pick[s] \in S /\ s \ {pick[s]} \in SUBSET S
      BY <2>1
    <3>2. b[s \ {pick[s]}] \in A
      BY <1>1, <3>1
    <3> QED
      BY <3>1, <3>2
  <2>2. ASSUME NEW p \in Nat \X B PROVE next[p] \in B
    <3>1. p[2] \in B
      OBVIOUS
    <3> QED
      BY <1>1, <1>2, <2>1, <3>1
  <2> QED
    BY <1>2, <2>2
<1>4. PICK first : first = [s \in SUBSET S |-> base]
  OBVIOUS
<1>5. first \in B
  BY <1>1, <1>4
<1>5a. Steps(B, first, next)
  BY <1>3, <1>5 DEF Steps
<1>6. PICK r \in [Nat -> B] : r[0] = first /\ \A n \in Nat : r[n + 1] = next[<<n, r[n]>>]
  BY <1>5a, RunsExist
<1>7. \A s \in SUBSET S : IsFiniteSet(s) /\ Cardinality(s) \in Nat
  BY FS_Subset, FS_CardinalityType
<1>8. PICK it : it = [s \in SUBSET S |-> r[Cardinality(s)][s]]
  OBVIOUS
<1>9. it \in [SUBSET S -> A]
  BY <1>1, <1>6, <1>7, <1>8
<1>10. ASSUME NEW s \in SUBSET S
       PROVE  it[s] = IF s = {} THEN base ELSE step[<<pick[s], it[s \ {pick[s]}]>>]
  <2>1. CASE s = {}
    BY <1>4, <1>6, <1>8, <2>1, FS_EmptySet
  <2>2. CASE s # {}
    <3>1. PICK x : x = pick[s]
      OBVIOUS
    <3>2. PICK t : t = s \ {x}
      OBVIOUS
    <3>3. x \in s /\ t \in SUBSET S
      BY <2>2, <3>1, <3>2
    <3>4. Cardinality(t) = Cardinality(s) - 1
      BY <1>7, <3>2, <3>3, FS_RemoveElement
    <3>5. PICK n \in Nat : n = Cardinality(t) /\ Cardinality(s) = n + 1
      BY <1>7, <3>3, <3>4
    <3>6. it[s] = r[n + 1][s] /\ it[t] = r[n][t]
      BY <1>8, <3>3, <3>5
    <3>7. r[n + 1] = next[<<n, r[n]>>] /\ r[n] \in B
      BY <1>6
    <3>8. next[<<n, r[n]>>][s] = step[<<x, r[n][t]>>]
      BY <1>2, <2>2, <3>1, <3>2, <3>7
    <3> QED
      BY <2>2, <3>1, <3>2, <3>6, <3>7, <3>8
  <2> QED
    BY <2>1, <2>2
<1> QED
  BY <1>9, <1>10 DEF Folded

\* The last of the first numbers.
LEMMA LastOfFirst ==
    ASSUME NEW k \in Nat, k # 0
    PROVE  Max(1..k) = k /\ (1..k) \ {Max(1..k)} = 1..(k - 1) /\ 1..k # {}
<1>1. k \in 1..k /\ \A y \in 1..k : k >= y
  OBVIOUS
<1>2. \A x \in 1..k : (\A y \in 1..k : x >= y) => x = k
  BY <1>1
<1>3. Max(1..k) = k
  BY <1>1, <1>2 DEF Max
<1> QED
  BY <1>1, <1>3

LEMMA MaxIsMember ==
    ASSUME NEW n \in Nat, NEW s \in SUBSET (1..n), s # {}
    PROVE  Max(s) \in s
<1>1. PICK P : P = {i \in Nat : \A t \in SUBSET (1..i) : t # {} => \E x \in t : \A y \in t : x >= y}
  OBVIOUS
<1>2. 0 \in P
  <2>1. 1..0 = {}
    OBVIOUS
  <2> QED
    BY <1>1, <2>1
<1>3. ASSUME NEW i \in Nat, i \in P PROVE i + 1 \in P
  <2>1. ASSUME NEW t \in SUBSET (1..(i + 1)), t # {} PROVE \E x \in t : \A y \in t : x >= y
    <3>1. CASE i + 1 \in t
      BY <2>1, <3>1
    <3>2. CASE i + 1 \notin t
      <4>1. t \in SUBSET (1..i)
        BY <2>1, <3>2
      <4> QED
        BY <1>1, <1>3, <2>1, <4>1
    <3> QED
      BY <3>1, <3>2
  <2> QED
    BY <1>1, <2>1
<1>4. n \in P
  BY <1>2, <1>3, CountingUp
<1>5. \E x \in s : \A y \in s : x >= y
  BY <1>1, <1>4
<1> QED
  BY <1>5 DEF Max

\* The iterates with Max, for a sequence of length n.
Stepping(n, A, base, step) == n \in Nat /\ base \in A /\ step \in [(1..n) \X A -> A]

FoldedLeft(n, A, base, step, it) ==
    /\ it \in [SUBSET (1..n) -> A]
    /\ \A s \in SUBSET (1..n) : it[s] = IF s = {} THEN base ELSE step[<<Max(s), it[s \ {Max(s)}]>>]

LEMMA LeftIterates ==
    ASSUME NEW n, NEW A, NEW base, NEW step, Stepping(n, A, base, step)
    PROVE  \E it : FoldedLeft(n, A, base, step, it)
<1>1. PICK S : S = 1..n
  OBVIOUS
<1>2. IsFiniteSet(S)
  BY <1>1, FS_Interval DEF Stepping
<1>3. PICK pick : pick = [s \in SUBSET S |-> Max(s)]
  OBVIOUS
<1>4. \A s \in SUBSET S : s # {} => pick[s] \in s
  BY <1>1, <1>3, MaxIsMember DEF Stepping
<1>5. Folding(S, A, base, step, pick)
  BY <1>1, <1>2, <1>4 DEF Stepping, Folding
<1>6. PICK it : Folded(S, A, base, step, pick, it)
  BY <1>5, IteratesExist
<1>7. FoldedLeft(n, A, base, step, it)
  BY <1>1, <1>3, <1>6 DEF Folded, FoldedLeft
<1> QED
  BY <1>7

\* What such iterates are after each element.
LEMMA FirstNumbers ==
    ASSUME NEW n \in Nat, NEW k \in 1..n
    PROVE  /\ Max(1..k) = k /\ (1..k) \ {Max(1..k)} = 1..(k - 1)
           /\ 1..k # {} /\ 1..k \in SUBSET (1..n)
<1>1. k \in Nat /\ k # 0 /\ 1..k \in SUBSET (1..n)
  OBVIOUS
<1>2. Max(1..k) = k /\ (1..k) \ {Max(1..k)} = 1..(k - 1) /\ 1..k # {}
  BY <1>1, LastOfFirst
<1> QED
  BY <1>1, <1>2

-------------------------------------------------------------------------------
\* What a call of resolve returns.

Trees == [failed : BOOLEAN, found : Seq(Known)]

\* The calls from below a chain return trees.
Answers(calls, chain) ==
    \A reference \in Known : \A packages \in Seq(Known) : calls[Call(reference, packages, chain)] \in Trees

NextTree(calls, tree, reference, chain) ==
    IF tree.failed THEN tree ELSE calls[Call(reference, tree.found, chain)]

TreeIterates(calls, references, packages, chain, it) ==
    it = [s \in SUBSET DOMAIN references |->
             IF s = {} THEN Found(packages)
             ELSE NextTree(calls, it[s \ {Max(s)}], references[Max(s)], chain)]

\* The trees after each of the references.
Resolving(calls, references, packages, chain, r) ==
    /\ r \in [0..Len(references) -> Trees]
    /\ r[0] = Found(packages) /\ resolveAll(calls, references, packages, chain) = r[Len(references)]
    /\ \A k \in 1..Len(references) : r[k] = NextTree(calls, r[k - 1], references[k], chain)

LEMMA TreeUnfold ==
    ASSUME NEW calls, NEW references, NEW packages, NEW chain
    PROVE  resolveAll(calls, references, packages, chain) =
               (CHOOSE it : TreeIterates(calls, references, packages, chain, it))[DOMAIN references]
  BY DEF resolveAll, FoldLeft, MapThenFoldSet, TreeIterates, NextTree

LEMMA ResolveAllRuns ==
    ASSUME NEW calls, NEW chain, Answers(calls, chain),
           NEW references \in Seq(Known), NEW packages \in Seq(Known)
    PROVE  \E r : Resolving(calls, references, packages, chain, r)
<1>1. PICK n : n = Len(references)
  OBVIOUS
<1>2. n \in Nat /\ DOMAIN references = 1..n /\ \A i \in 1..n : references[i] \in Known
  BY <1>1
<1>3. PICK step : step = [p \in (1..n) \X Trees |-> NextTree(calls, p[2], references[p[1]], chain)]
  OBVIOUS
<1>4. Stepping(n, Trees, Found(packages), step)
  <2>1. \A t \in Trees : \A d \in Known : NextTree(calls, t, d, chain) \in Trees
    BY DEF NextTree, Trees, Answers
  <2>2. \A p \in (1..n) \X Trees : p[2] \in Trees /\ references[p[1]] \in Known
    BY <1>2
  <2>3. \A p \in (1..n) \X Trees : step[p] \in Trees
    BY <1>3, <2>1, <2>2
  <2>4. step \in [(1..n) \X Trees -> Trees]
    BY <1>3, <2>3
  <2>5. Found(packages) \in Trees
    BY DEF Found, Trees
  <2> QED
    BY <1>2, <2>4, <2>5 DEF Stepping
<1>5. PICK it : FoldedLeft(n, Trees, Found(packages), step, it)
  BY <1>4, LeftIterates
<1>6. ASSUME NEW s \in SUBSET (1..n), s # {}
      PROVE  step[<<Max(s), it[s \ {Max(s)}]>>] = NextTree(calls, it[s \ {Max(s)}], references[Max(s)], chain)
  <2>1. Max(s) \in 1..n /\ s \ {Max(s)} \in SUBSET (1..n)
    BY <1>2, <1>6, MaxIsMember
  <2>2. it[s \ {Max(s)}] \in Trees
    BY <1>5, <2>1 DEF FoldedLeft
  <2> QED
    BY <1>3, <2>1, <2>2
<1>7. TreeIterates(calls, references, packages, chain, it)
  BY <1>2, <1>5, <1>6 DEF TreeIterates, FoldedLeft
<1>8. PICK iter : iter = CHOOSE i : TreeIterates(calls, references, packages, chain, i)
  OBVIOUS
<1>9. TreeIterates(calls, references, packages, chain, iter)
  BY <1>7, <1>8
<1>10. PICK r : r = [k \in 0..n |-> iter[1..k]]
  OBVIOUS
<1>11. r[0] = Found(packages)
  <2>1. 1..0 = {}
    OBVIOUS
  <2> QED
    BY <1>2, <1>9, <1>10, <2>1 DEF TreeIterates
<1>12. ASSUME NEW k \in 1..n PROVE r[k] = NextTree(calls, r[k - 1], references[k], chain)
  <2>1. Max(1..k) = k /\ (1..k) \ {Max(1..k)} = 1..(k - 1) /\ 1..k # {} /\ 1..k \in SUBSET (1..n)
    BY <1>2, FirstNumbers
  <2>2. iter[1..k] = NextTree(calls, iter[1..(k - 1)], references[k], chain)
    BY <1>2, <1>9, <2>1 DEF TreeIterates
  <2> QED
    BY <1>2, <1>10, <2>2
<1>13. resolveAll(calls, references, packages, chain) = r[n]
  BY <1>2, <1>8, <1>10, TreeUnfold
<1>14. r \in [0..n -> Trees]
  <2>1. PICK P : P = {k \in Nat : k <= n => r[k] \in Trees}
    OBVIOUS
  <2>2. 0 \in P
    BY <1>4, <1>11, <2>1 DEF Stepping
  <2>3. ASSUME NEW k \in Nat, k \in P PROVE k + 1 \in P
    <3>1. CASE k + 1 <= n
      <4>1. k + 1 \in 1..n /\ k <= n /\ (k + 1) - 1 = k
        BY <1>2, <3>1
      <4>2. r[k] \in Trees /\ references[k + 1] \in Known
        BY <1>2, <2>1, <2>3, <4>1
      <4>3. r[k + 1] = NextTree(calls, r[k], references[k + 1], chain)
        BY <1>12, <4>1
      <4> QED
        BY <2>1, <4>2, <4>3 DEF NextTree, Trees, Answers
    <3> QED
      BY <1>2, <2>1, <2>3, <3>1
  <2>4. \A k \in 0..n : k \in P
    BY <2>2, <2>3, CountingUp
  <2> QED
    BY <1>2, <1>10, <2>1, <2>4
<1> QED
  BY <1>1, <1>11, <1>12, <1>13, <1>14 DEF Resolving

\* What two functions answer to the calls from below a chain is the same.
Agree(f, g, chain) ==
    /\ Answers(f, chain) /\ Answers(g, chain)
    /\ \A reference \in Known : \A packages \in Seq(Known) :
           f[Call(reference, packages, chain)] = g[Call(reference, packages, chain)]

\* A list of references is resolved by what the calls from below its chain return.
LEMMA ResolveAllAgrees ==
    ASSUME NEW f, NEW g, NEW chain, Agree(f, g, chain),
           NEW references \in Seq(Known), NEW packages \in Seq(Known)
    PROVE  resolveAll(f, references, packages, chain) = resolveAll(g, references, packages, chain)
<1>1. PICK n : n = Len(references)
  OBVIOUS
<1>2. n \in Nat /\ \A i \in 1..n : references[i] \in Known
  BY <1>1
<1>3. PICK r : Resolving(f, references, packages, chain, r)
  BY ResolveAllRuns DEF Agree
<1>4. PICK s : Resolving(g, references, packages, chain, s)
  BY ResolveAllRuns DEF Agree
<1>5. PICK P : P = {k \in Nat : k <= n => r[k] = s[k]}
  OBVIOUS
<1>6. 0 \in P
  BY <1>3, <1>4, <1>5 DEF Resolving
<1>7. ASSUME NEW k \in Nat, k \in P PROVE k + 1 \in P
  <2>1. CASE k + 1 <= n
    <3>1. k + 1 \in 1..n /\ k \in 0..n /\ (k + 1) - 1 = k
      BY <1>2, <2>1
    <3>2. r[k] = s[k] /\ r[k] \in Trees /\ references[k + 1] \in Known
      BY <1>1, <1>2, <1>3, <1>5, <1>7, <3>1 DEF Resolving
    <3>3. /\ r[k + 1] = NextTree(f, r[k], references[k + 1], chain)
          /\ s[k + 1] = NextTree(g, s[k], references[k + 1], chain)
      BY <1>1, <1>3, <1>4, <3>1 DEF Resolving
    <3>4. r[k].found \in Seq(Known)
      BY <3>2 DEF Trees
    <3>5. NextTree(f, r[k], references[k + 1], chain) = NextTree(g, r[k], references[k + 1], chain)
      BY <3>2, <3>4 DEF NextTree, Agree
    <3> QED
      BY <1>5, <3>2, <3>3, <3>5
  <2> QED
    BY <1>2, <1>5, <1>7, <2>1
<1>8. n \in P
  BY <1>2, <1>6, <1>7, CountingUp
<1> QED
  BY <1>1, <1>2, <1>3, <1>4, <1>5, <1>8 DEF Resolving

LEMMA ResolveOneAgrees ==
    ASSUME NEW f, NEW g, NEW reference \in Known, NEW packages \in Seq(Known), NEW chain, NEW below,
           below = chain \cup {reference.name},
           reference.name \notin chain => Agree(f, g, below)
    PROVE  /\ ResolveOne(f, reference, packages, chain) = ResolveOne(g, reference, packages, chain)
           /\ ResolveOne(f, reference, packages, chain) \in Trees
<1>1. PICK source : source = reference.source
  OBVIOUS
<1>2. CASE reference.name \notin chain /\ source \in DOMAIN Manifest
  <2>1. PICK dependencies : dependencies = Manifest[source].dependencies
    OBVIOUS
  <2>2. PICK appended : appended = Append(packages, reference)
    OBVIOUS
  <2>3. dependencies \in Seq(Known) /\ appended \in Seq(Known)
    BY <1>2, <2>1, <2>2, PackagesAssumption
  <2>3a. Agree(f, g, below)
    BY <1>2
  <2>4. resolveAll(f, dependencies, appended, below) = resolveAll(g, dependencies, appended, below)
    BY <2>3, <2>3a, ResolveAllAgrees
  <2>5. PICK r : Resolving(f, dependencies, appended, below, r)
    BY <2>3, <2>3a, ResolveAllRuns DEF Agree
  <2>6. resolveAll(f, dependencies, appended, below) \in Trees
    BY <2>3, <2>5 DEF Resolving
  <2>7. Failure \in Trees /\ Found(packages) \in Trees
    BY DEF Failure, Found, Trees
  <2> QED
    BY <1>1, <2>1, <2>2, <2>4, <2>6, <2>7 DEF ResolveOne
<1>3. CASE reference.name \in chain \/ source \notin DOMAIN Manifest
  <2>1. Failure \in Trees /\ Found(packages) \in Trees
    BY DEF Failure, Found, Trees
  <2> QED
    BY <1>1, <1>3, <2>1 DEF ResolveOne
<1> QED
  BY <1>2, <1>3

\* The names that a chain may still go to.
Left(chain) == Cardinality(Names \ chain)

LEMMA LeftBelow ==
    /\ \A chain \in SUBSET Names : Left(chain) \in Nat
    /\ \A chain \in SUBSET Names : \A n \in Names \ chain :
           chain \cup {n} \in SUBSET Names /\ Left(chain) = Left(chain \cup {n}) + 1
<1>1. \A chain \in SUBSET Names : IsFiniteSet(Names \ chain) /\ Left(chain) \in Nat
  <2>1. \A chain \in SUBSET Names : Names \ chain \in SUBSET Names
    OBVIOUS
  <2> QED
    BY <2>1, PackagesAssumption, FS_Subset, FS_CardinalityType DEF Left
<1>2. ASSUME NEW chain \in SUBSET Names, NEW n \in Names \ chain
      PROVE  chain \cup {n} \in SUBSET Names /\ Left(chain) = Left(chain \cup {n}) + 1
  <2>1. PICK rest : rest = Names \ chain
    OBVIOUS
  <2>2. IsFiniteSet(rest) /\ n \in rest /\ rest \ {n} = Names \ (chain \cup {n})
    BY <1>1, <2>1
  <2>3. Cardinality(rest \ {n}) = Cardinality(rest) - 1
    BY <2>2, FS_RemoveElement
  <2>4. chain \cup {n} \in SUBSET Names
    OBVIOUS
  <2>5. Left(chain) = Cardinality(rest) /\ Left(chain \cup {n}) = Cardinality(rest \ {n})
    BY <2>1, <2>2 DEF Left
  <2>6. Cardinality(rest) \in Nat
    BY <1>1, <2>5
  <2> QED
    BY <2>3, <2>4, <2>5, <2>6
<1> QED
  BY <1>1, <1>2

LEMMA CallFacts ==
    /\ \A reference \in Known : \A packages \in Seq(Known) : \A chain \in SUBSET Names :
           LET call == Call(reference, packages, chain)
           IN /\ call \in Calls /\ call.reference = reference /\ call.packages = packages
              /\ call.chain = chain
    /\ \A call \in Calls : /\ call.reference \in Known /\ call.packages \in Seq(Known)
                           /\ call.chain \in SUBSET Names /\ call.reference.name \in Names
  BY PackagesAssumption DEF Call, Calls

ResolvesCalls(calls) ==
    /\ calls \in [Calls -> Trees]
    /\ \A call \in Calls : calls[call] = ResolveOne(calls, call.reference, call.packages, call.chain)

LEMMA AnswersOf ==
    ASSUME NEW calls \in [Calls -> Trees], NEW chain \in SUBSET Names
    PROVE  Answers(calls, chain)
  BY CallFacts DEF Answers

\* The definition of resolve is one: below a call, there are fewer names left.
LEMMA ResolvesExist == \E calls : ResolvesCalls(calls)
<1>1. PICK B : B = [Calls -> Trees]
  OBVIOUS
<1>2. ASSUME NEW b \in B, NEW call \in Calls
      PROVE  ResolveOne(b, call.reference, call.packages, call.chain) \in Trees
  <2>1. PICK reference, packages, chain : reference = call.reference /\ packages = call.packages /\ chain = call.chain
    OBVIOUS
  <2>2. reference \in Known /\ packages \in Seq(Known) /\ chain \in SUBSET Names /\ reference.name \in Names
    BY <2>1, CallFacts
  <2>3. PICK below \in SUBSET Names : below = chain \cup {reference.name}
    BY <2>2
  <2>4. Answers(b, below)
    BY <1>1, AnswersOf
  <2> QED
    BY <2>1, <2>2, <2>3, <2>4, ResolveOneAgrees DEF Agree
<1>3. PICK next : next = [p \in Nat \X B |-> [call \in Calls |->
                    ResolveOne(p[2], call.reference, call.packages, call.chain)]]
  OBVIOUS
<1>4. next \in [Nat \X B -> B]
  <2>1. ASSUME NEW p \in Nat \X B PROVE next[p] \in B
    <3>1. p[2] \in B
      OBVIOUS
    <3> QED
      BY <1>1, <1>2, <1>3, <3>1
  <2> QED
    BY <1>3, <2>1
<1>5. PICK first : first = [call \in Calls |-> Failure]
  OBVIOUS
<1>6. first \in B
  BY <1>1, <1>5 DEF Failure, Trees
<1>7. Steps(B, first, next)
  BY <1>4, <1>6 DEF Steps
<1>8. PICK r \in [Nat -> B] : r[0] = first /\ \A n \in Nat : r[n + 1] = next[<<n, r[n]>>]
  BY <1>7, RunsExist
<1>9. \A n \in Nat : \A call \in Calls :
          r[n + 1][call] = ResolveOne(r[n], call.reference, call.packages, call.chain)
  <2>1. ASSUME NEW n \in Nat, NEW call \in Calls
        PROVE  r[n + 1][call] = ResolveOne(r[n], call.reference, call.packages, call.chain)
    <3>1. r[n] \in B /\ r[n + 1] = next[<<n, r[n]>>]
      BY <1>8
    <3>2. next[<<n, r[n]>>] = [c \in Calls |-> ResolveOne(r[n], c.reference, c.packages, c.chain)]
      BY <1>3, <3>1
    <3> QED
      BY <3>1, <3>2
  <2> QED
    BY <2>1
<1>10. PICK calls : calls = [call \in Calls |-> r[Left(call.chain) + 1][call]]
  OBVIOUS
<1>11. \A call \in Calls : Left(call.chain) \in Nat
  BY CallFacts, LeftBelow
<1>12. calls \in B
  <2>1. \A call \in Calls : r[Left(call.chain) + 1] \in B
    BY <1>8, <1>11
  <2> QED
    BY <1>1, <1>10, <2>1
<1>13. ASSUME NEW call \in Calls
       PROVE  calls[call] = ResolveOne(calls, call.reference, call.packages, call.chain)
  <2>1. PICK reference, packages, chain : reference = call.reference /\ packages = call.packages /\ chain = call.chain
    OBVIOUS
  <2>2. reference \in Known /\ packages \in Seq(Known) /\ chain \in SUBSET Names /\ reference.name \in Names
    BY <2>1, CallFacts
  <2>3. PICK below \in SUBSET Names : below = chain \cup {reference.name}
    BY <2>2
  <2>4. PICK n \in Nat : n = Left(chain)
    BY <2>2, LeftBelow
  <2>5. r[n] \in B
    BY <1>8
  <2>6. Answers(r[n], below) /\ Answers(calls, below)
    BY <1>1, <1>12, <2>5, AnswersOf
  <2>7. reference.name \notin chain =>
            \A other \in Known : \A given \in Seq(Known) :
                r[n][Call(other, given, below)] = calls[Call(other, given, below)]
    <3>0. SUFFICES ASSUME reference.name \notin chain, NEW other \in Known, NEW given \in Seq(Known)
                   PROVE  r[n][Call(other, given, below)] = calls[Call(other, given, below)]
      OBVIOUS
    <3>1. Left(below) + 1 = n
      BY <2>2, <2>3, <2>4, <3>0, LeftBelow
    <3>2. Call(other, given, below) \in Calls /\ Call(other, given, below).chain = below
      BY CallFacts
    <3> QED
      BY <1>10, <3>1, <3>2
  <2>7a. reference.name \notin chain => Agree(r[n], calls, below)
    BY <2>6, <2>7 DEF Agree
  <2>8. ResolveOne(r[n], reference, packages, chain) = ResolveOne(calls, reference, packages, chain)
    BY <2>2, <2>3, <2>7a, ResolveOneAgrees
  <2>9. calls[call] = ResolveOne(r[n], reference, packages, chain)
    BY <1>9, <1>10, <2>1, <2>4
  <2> QED
    BY <2>1, <2>8, <2>9
<1> QED
  BY <1>1, <1>12, <1>13 DEF ResolvesCalls

LEMMA ResolveResolves == ResolvesCalls(resolve)
<1>1. PICK calls : ResolvesCalls(calls)
  BY ResolvesExist
<1>2. calls = [call \in Calls |-> ResolveOne(calls, call.reference, call.packages, call.chain)]
  BY <1>1 DEF ResolvesCalls
<1>3. resolve = [call \in Calls |-> ResolveOne(resolve, call.reference, call.packages, call.chain)]
  BY <1>2 DEF resolve
<1>4. PICK P : P = {n \in Nat : \A call \in Calls : Left(call.chain) = n => resolve[call] = calls[call]}
  OBVIOUS
<1>5. ASSUME NEW n \in Nat, n = 0 \/ n - 1 \in P
      PROVE  n \in P
  <2>1. SUFFICES ASSUME NEW call \in Calls, Left(call.chain) = n PROVE resolve[call] = calls[call]
    BY <1>4
  <2>2. PICK reference, packages, chain : reference = call.reference /\ packages = call.packages /\ chain = call.chain
    OBVIOUS
  <2>3. reference \in Known /\ packages \in Seq(Known) /\ chain \in SUBSET Names /\ reference.name \in Names
    BY <2>2, CallFacts
  <2>4. PICK below \in SUBSET Names : below = chain \cup {reference.name}
    BY <2>3
  <2>5. Answers(calls, below)
    BY <1>1, AnswersOf DEF ResolvesCalls
  <2>6. reference.name \notin chain =>
            \A other \in Known : \A given \in Seq(Known) :
                resolve[Call(other, given, below)] = calls[Call(other, given, below)]
    <3>0. SUFFICES ASSUME reference.name \notin chain, NEW other \in Known, NEW given \in Seq(Known)
                   PROVE  resolve[Call(other, given, below)] = calls[Call(other, given, below)]
      OBVIOUS
    <3>1. Left(below) + 1 = n /\ Left(below) \in Nat
      BY <2>1, <2>2, <2>3, <2>4, <3>0, LeftBelow
    <3>2. Call(other, given, below) \in Calls /\ Call(other, given, below).chain = below
      BY CallFacts
    <3>3. n - 1 \in P /\ Left(below) = n - 1
      BY <1>5, <3>1
    <3> QED
      BY <1>4, <3>2, <3>3
  <2>7. reference.name \notin chain => Agree(resolve, calls, below)
    BY <2>5, <2>6 DEF Answers, Agree
  <2>8. ResolveOne(resolve, reference, packages, chain) = ResolveOne(calls, reference, packages, chain)
    BY <2>3, <2>4, <2>7, ResolveOneAgrees
  <2> QED
    BY <1>2, <1>3, <2>2, <2>8
<1>6. 0 \in P /\ \A n \in Nat : n \in P => n + 1 \in P
  BY <1>5
<1>7. ASSUME NEW call \in Calls PROVE resolve[call] = calls[call]
  <2>1. PICK n : n = Left(call.chain)
    OBVIOUS
  <2>2. n \in Nat
    BY <2>1, CallFacts, LeftBelow
  <2>3. n \in P
    BY <1>6, <2>2, CountingUp
  <2> QED
    BY <1>4, <2>1, <2>3
<1>8. resolve = calls
  BY <1>2, <1>3, <1>7
<1> QED
  BY <1>1, <1>8

-------------------------------------------------------------------------------
\* What is resolved is a whole tree.

DependenciesOf(source) == Range(Manifest[source].dependencies)

\* A tree that can be used, but for the names on the chain, whose dependencies are
\* still to come: each manifest has its name, each dependency is there, and there
\* is no cycle.
Whole(tree, chain) ==
    /\ \A d \in tree : /\ d.name \in Names /\ d.source \in DOMAIN Manifest
                       /\ Manifest[d.source].name = d.name
    /\ \A n \in chain : \E d \in tree : d.name = n
    /\ \A d \in tree : d.name \notin chain =>
           \A e \in DependenciesOf(d.source) : e.name \notin chain /\ \E o \in tree : o.name = e.name
    /\ \A group \in SUBSET (Names \ chain) : (\E d \in tree : d.name \in group) =>
           \E d \in tree : d.name \in group /\ \A e \in DependenciesOf(d.source) : e.name \notin group

\* One tree has grown out of another, below a chain.
Grown(before, after, chain) ==
    /\ Whole(after, chain) /\ before \subseteq after
    /\ \A d \in after : d \in before \/ d.name \notin chain

InTree(reference, tree, chain) == reference.name \notin chain /\ \E d \in tree : d.name = reference.name

\* Calls from below this chain are right.
Sound(chain) ==
    \A reference \in Known : \A packages \in Seq(Known) :
        Whole(Range(packages), chain) =>
            LET tree == resolve[Call(reference, packages, chain)]
            IN ~tree.failed => /\ Grown(Range(packages), Range(tree.found), chain)
                               /\ InTree(reference, Range(tree.found), chain)

\* A package is added below its own name.
LEMMA WholeBelow ==
    ASSUME NEW tree, NEW chain, Whole(tree, chain), NEW reference, reference.name \in Names,
           reference.name \notin chain, \A d \in tree : d.name # reference.name,
           reference.source \in DOMAIN Manifest, Manifest[reference.source].name = reference.name
    PROVE  Whole(tree \cup {reference}, chain \cup {reference.name})
<1>1. PICK n : n = reference.name
  OBVIOUS
<1>2. PICK more : more = tree \cup {reference}
  OBVIOUS
<1>3. PICK below : below = chain \cup {n}
  OBVIOUS
<1>4. \A d \in more : /\ d.name \in Names /\ d.source \in DOMAIN Manifest
                      /\ Manifest[d.source].name = d.name
  BY <1>2 DEF Whole
<1>5. \A m \in below : \E d \in more : d.name = m
  BY <1>1, <1>2, <1>3 DEF Whole
<1>6. \A d \in more : d.name \notin below => d \in tree /\ d.name \notin chain
  BY <1>1, <1>2, <1>3
<1>7. ASSUME NEW d \in more, d.name \notin below, NEW e \in DependenciesOf(d.source)
      PROVE  e.name \notin below /\ \E o \in more : o.name = e.name
  <2>1. e.name \notin chain /\ \E o \in tree : o.name = e.name
    BY <1>6, <1>7 DEF Whole
  <2> QED
    BY <1>1, <1>2, <1>3, <2>1
<1>8. ASSUME NEW group \in SUBSET (Names \ below), \E d \in more : d.name \in group
      PROVE  \E d \in more : d.name \in group /\ \A e \in DependenciesOf(d.source) : e.name \notin group
  <2>1. group \in SUBSET (Names \ chain)
    BY <1>3
  <2>2. \E d \in tree : d.name \in group
    BY <1>6, <1>8
  <2>3. PICK d \in tree : d.name \in group /\ \A e \in DependenciesOf(d.source) : e.name \notin group
    BY <2>1, <2>2 DEF Whole
  <2> QED
    BY <1>2, <2>3
<1>9. Whole(more, below)
  BY <1>4, <1>5, <1>7, <1>8 DEF Whole
<1> QED
  BY <1>1, <1>2, <1>3, <1>9

\* Once its dependencies are there, a package is as good as the others.
LEMMA WholeAbove ==
    ASSUME NEW tree, NEW chain, Whole(tree, chain), NEW reference,
           reference.name \notin chain, \A d \in tree : d.name # reference.name,
           NEW after, Grown(tree \cup {reference}, after, chain \cup {reference.name}),
           \A e \in DependenciesOf(reference.source) : InTree(e, after, chain \cup {reference.name})
    PROVE  Grown(tree, after, chain) /\ InTree(reference, after, chain)
<1>1. PICK n : n = reference.name
  OBVIOUS
<1>2. PICK below : below = chain \cup {n}
  OBVIOUS
<1>3. Whole(after, below) /\ tree \cup {reference} \subseteq after
      /\ \A d \in after : d \in tree \/ d = reference \/ d.name \notin below
  BY <1>1, <1>2 DEF Grown
<1>4. \A d \in after : d.name = n => d = reference
  BY <1>1, <1>2, <1>3
<1>5. \A e \in DependenciesOf(reference.source) : e.name \notin below /\ \E o \in after : o.name = e.name
  BY <1>1, <1>2 DEF InTree
<1>6. ASSUME NEW d \in after, d.name \notin chain, NEW e \in DependenciesOf(d.source)
      PROVE  e.name \notin below /\ \E o \in after : o.name = e.name
  <2>1. CASE d.name = n
    BY <1>4, <1>5, <1>6, <2>1
  <2>2. CASE d.name # n
    <3>1. d.name \notin below
      BY <1>2, <1>6, <2>2
    <3> QED
      BY <1>3, <1>6, <3>1 DEF Whole
  <2> QED
    BY <2>1, <2>2
<1>7. ASSUME NEW group \in SUBSET (Names \ chain), \E d \in after : d.name \in group
      PROVE  \E d \in after : d.name \in group /\ \A e \in DependenciesOf(d.source) : e.name \notin group
  <2>1. PICK rest : rest = group \ {n}
    OBVIOUS
  <2>2. CASE \E d \in after : d.name \in rest
    <3>1. rest \in SUBSET (Names \ below)
      BY <1>2, <2>1
    <3>2. PICK d \in after : d.name \in rest /\ \A e \in DependenciesOf(d.source) : e.name \notin rest
      BY <1>3, <2>2, <3>1 DEF Whole
    <3>3. d.name \notin chain /\ d.name \in group
      BY <2>1, <3>2
    <3>4. \A e \in DependenciesOf(d.source) : e.name # n
      BY <1>2, <1>6, <3>3
    <3> QED
      BY <2>1, <3>2, <3>3, <3>4
  <2>3. CASE \A d \in after : d.name \notin rest
    <3>1. PICK d \in after : d.name \in group
      BY <1>7
    <3>2. d.name = n /\ d = reference
      BY <1>4, <2>1, <2>3, <3>1
    <3>3. ASSUME NEW e \in DependenciesOf(d.source) PROVE e.name \notin group
      <4>1. e.name \notin below /\ \E o \in after : o.name = e.name
        BY <1>5, <3>2, <3>3
      <4>2. e.name \notin rest /\ e.name # n
        BY <1>2, <2>3, <4>1
      <4> QED
        BY <2>1, <4>2
    <3> QED
      BY <3>1, <3>3
  <2> QED
    BY <2>2, <2>3
<1>8. \A d \in after : /\ d.name \in Names /\ d.source \in DOMAIN Manifest
                       /\ Manifest[d.source].name = d.name
  BY <1>3 DEF Whole
<1>9. \A m \in chain : \E d \in after : d.name = m
  BY <1>2, <1>3 DEF Whole
<1>10. Whole(after, chain)
  BY <1>2, <1>6, <1>7, <1>8, <1>9 DEF Whole
<1>11. \A d \in after : d \in tree \/ d.name \notin chain
  BY <1>1, <1>2, <1>3
<1>12. InTree(reference, after, chain)
  BY <1>1, <1>3 DEF InTree
<1> QED
  BY <1>3, <1>10, <1>11, <1>12 DEF Grown

LEMMA ResolveAllSound ==
    ASSUME NEW chain \in SUBSET Names, Sound(chain),
           NEW references \in Seq(Known), NEW packages \in Seq(Known), Whole(Range(packages), chain),
           NEW tree, tree = resolveAll(resolve, references, packages, chain)
    PROVE  /\ tree \in Trees
           /\ ~tree.failed => /\ Grown(Range(packages), Range(tree.found), chain)
                              /\ \A d \in Range(references) : InTree(d, Range(tree.found), chain)
<1>1. PICK n : n = Len(references)
  OBVIOUS
<1>2. n \in Nat /\ DOMAIN references = 1..n /\ \A i \in 1..n : references[i] \in Known
  BY <1>1
<1>3. Answers(resolve, chain)
  BY AnswersOf, ResolveResolves DEF ResolvesCalls
<1>4. PICK r : Resolving(resolve, references, packages, chain, r)
  BY <1>3, ResolveAllRuns
<1>5. r \in [0..n -> Trees] /\ r[0] = Found(packages) /\ tree = r[n]
      /\ \A k \in 1..n : r[k] = NextTree(resolve, r[k - 1], references[k], chain)
  BY <1>1, <1>4 DEF Resolving
<1>6. PICK P : P = {k \in Nat : k <= n /\ ~r[k].failed =>
                      /\ Grown(Range(packages), Range(r[k].found), chain)
                      /\ \A i \in 1..k : InTree(references[i], Range(r[k].found), chain)}
  OBVIOUS
<1>7. 0 \in P
  <2>1. r[0].found = packages
    BY <1>5 DEF Found
  <2>2. Grown(Range(packages), Range(packages), chain)
    BY DEF Grown
  <2> QED
    BY <1>6, <2>1, <2>2
<1>8. ASSUME NEW k \in Nat, k \in P PROVE k + 1 \in P
  <2>1. SUFFICES ASSUME k + 1 <= n, ~r[k + 1].failed
                 PROVE  /\ Grown(Range(packages), Range(r[k + 1].found), chain)
                        /\ \A i \in 1..(k + 1) : InTree(references[i], Range(r[k + 1].found), chain)
    BY <1>6
  <2>2. k + 1 \in 1..n /\ k \in 0..n /\ (k + 1) - 1 = k /\ k <= n
    BY <1>2, <2>1
  <2>3. r[k + 1] = NextTree(resolve, r[k], references[k + 1], chain) /\ r[k] \in Trees
        /\ references[k + 1] \in Known
    BY <1>2, <1>5, <2>2
  <2>4. PICK found, reference, more : /\ found = r[k].found /\ reference = references[k + 1]
                                      /\ more = r[k + 1].found
    OBVIOUS
  <2>5. ~r[k].failed /\ r[k + 1] = resolve[Call(reference, found, chain)] /\ found \in Seq(Known)
    BY <2>1, <2>3, <2>4 DEF NextTree, Trees
  <2>6. /\ Grown(Range(packages), Range(found), chain)
        /\ \A i \in 1..k : InTree(references[i], Range(found), chain)
    BY <1>6, <1>8, <2>2, <2>4, <2>5
  <2>7. Whole(Range(found), chain)
    BY <2>6 DEF Grown
  <2>8. Grown(Range(found), Range(more), chain) /\ InTree(reference, Range(more), chain)
    BY <2>1, <2>3, <2>4, <2>5, <2>7 DEF Sound
  <2>9. Grown(Range(packages), Range(more), chain)
    BY <2>6, <2>8 DEF Grown
  <2>10. ASSUME NEW i \in 1..(k + 1) PROVE InTree(references[i], Range(more), chain)
    <3>1. CASE i = k + 1
      BY <2>4, <2>8, <3>1
    <3>2. CASE i # k + 1
      <4>1. i \in 1..k
        BY <3>2
      <4>2. InTree(references[i], Range(found), chain) /\ Range(found) \subseteq Range(more)
        BY <2>6, <2>8, <4>1 DEF Grown
      <4> QED
        BY <4>2 DEF InTree
    <3> QED
      BY <3>1, <3>2
  <2> QED
    BY <2>4, <2>9, <2>10
<1>9. n \in P
  BY <1>2, <1>7, <1>8, CountingUp
<1>10. \A d \in Range(references) : \E i \in 1..n : d = references[i]
  BY <1>2 DEF Range
<1>11. tree \in Trees
  BY <1>2, <1>5
<1>12. ~tree.failed => /\ Grown(Range(packages), Range(tree.found), chain)
                       /\ \A i \in 1..n : InTree(references[i], Range(tree.found), chain)
  BY <1>2, <1>5, <1>6, <1>9
<1> QED
  BY <1>10, <1>11, <1>12

LEMMA SoundBelow ==
    ASSUME NEW chain \in SUBSET Names,
           \A n \in Names \ chain : Sound(chain \cup {n})
    PROVE  Sound(chain)
<1>1. SUFFICES ASSUME NEW reference \in Known, NEW packages \in Seq(Known), Whole(Range(packages), chain),
                      NEW tree, tree = resolve[Call(reference, packages, chain)], ~tree.failed
               PROVE  /\ Grown(Range(packages), Range(tree.found), chain)
                      /\ InTree(reference, Range(tree.found), chain)
  BY DEF Sound
<1>2. tree = ResolveOne(resolve, reference, packages, chain)
  BY <1>1, ResolveResolves, CallFacts DEF ResolvesCalls
<1>3. PICK n : n = reference.name
  OBVIOUS
<1>4. n \in Names
  BY <1>3, PackagesAssumption
<1>5. Failure.failed
  BY DEF Failure
<1>6. n \notin chain
  BY <1>1, <1>2, <1>3, <1>5 DEF ResolveOne
<1>7. CASE n \in NamesOf(packages)
  <2>1. tree.found = packages
    BY <1>2, <1>3, <1>6, <1>7 DEF ResolveOne, Found
  <2>2. Grown(Range(packages), Range(packages), chain)
    BY <1>1 DEF Grown
  <2>3. InTree(reference, Range(packages), chain)
    BY <1>3, <1>6, <1>7 DEF InTree, NamesOf
  <2> QED
    BY <2>1, <2>2, <2>3
<1>8. CASE n \notin NamesOf(packages)
  <2>1. PICK source, below : source = reference.source /\ below = chain \cup {n}
    OBVIOUS
  <2>2. source \in DOMAIN Manifest /\ Manifest[source].name = n
    BY <1>1, <1>2, <1>3, <1>5, <1>6, <1>8, <2>1 DEF ResolveOne
  <2>3. PICK dependencies, appended : dependencies = Manifest[source].dependencies /\ appended = Append(packages, reference)
    OBVIOUS
  <2>4. tree = resolveAll(resolve, dependencies, appended, below)
    BY <1>2, <1>3, <1>6, <1>8, <2>1, <2>2, <2>3 DEF ResolveOne
  <2>5. dependencies \in Seq(Known) /\ appended \in Seq(Known)
    BY <2>2, <2>3, PackagesAssumption
  <2>6. Range(appended) = Range(packages) \cup {reference}
    BY <2>3, AppendProperties DEF Range
  <2>7. \A d \in Range(packages) : d.name # n
    BY <1>8 DEF NamesOf
  <2>8. Whole(Range(appended), below)
    BY <1>1, <1>3, <1>4, <1>6, <2>1, <2>2, <2>6, <2>7, WholeBelow
  <2>9. Sound(below) /\ below \in SUBSET Names
    BY <1>4, <1>6, <2>1
  <2>10. /\ Grown(Range(appended), Range(tree.found), below)
         /\ \A d \in Range(dependencies) : InTree(d, Range(tree.found), below)
    BY <1>1, <2>4, <2>5, <2>8, <2>9, ResolveAllSound
  <2>11. Range(dependencies) = DependenciesOf(reference.source)
    BY <2>1, <2>3 DEF DependenciesOf
  <2> QED
    BY <1>1, <1>3, <1>6, <2>1, <2>6, <2>7, <2>10, <2>11, WholeAbove
<1> QED
  BY <1>7, <1>8

LEMMA ResolveIsSound == \A chain \in SUBSET Names : Sound(chain)
<1>1. PICK P : P = {n \in Nat : \A chain \in SUBSET Names : Left(chain) = n => Sound(chain)}
  OBVIOUS
<1>2. ASSUME NEW n \in Nat, n = 0 \/ n - 1 \in P
      PROVE  n \in P
  <2>1. SUFFICES ASSUME NEW chain \in SUBSET Names, Left(chain) = n PROVE Sound(chain)
    BY <1>1
  <2>2. ASSUME NEW m \in Names \ chain PROVE Sound(chain \cup {m})
    <3>1. chain \cup {m} \in SUBSET Names /\ Left(chain \cup {m}) + 1 = n /\ Left(chain \cup {m}) \in Nat
      BY <2>1, LeftBelow
    <3>2. n - 1 \in P /\ Left(chain \cup {m}) = n - 1
      BY <1>2, <3>1
    <3> QED
      BY <1>1, <3>1, <3>2
  <2> QED
    BY <2>2, SoundBelow
<1>3. 0 \in P /\ \A n \in Nat : n \in P => n + 1 \in P
  BY <1>2
<1>4. ASSUME NEW chain \in SUBSET Names PROVE Sound(chain)
  <2>1. Left(chain) \in Nat
    BY LeftBelow
  <2>2. Left(chain) \in P
    BY <1>3, <2>1, CountingUp
  <2> QED
    BY <1>1, <2>2
<1> QED
  BY <1>4

\* What "pkg install" goes on with, for the manifest and for a single reference.
LEMMA InstalledTreesAreWhole ==
    ASSUME NEW references \in Seq(Known), references # <<>>,
           NEW tree, tree = resolveAll(resolve, references, <<>>, {}), ~tree.failed
    PROVE  tree.found \in Seq(Known) /\ tree.found # <<>> /\ Whole(Range(tree.found), {})
<1>1. PICK none \in Seq(Known) : none = <<>> /\ Range(none) = {}
  <2>1. PICK none : none = <<>>
    OBVIOUS
  <2>2. none \in Seq(Known) /\ Len(none) = 0
    BY <2>1, EmptySeq
  <2>3. DOMAIN none = 1..0 /\ 1..0 = {}
    BY <2>2
  <2>4. Range(none) = {}
    BY <2>3 DEF Range
  <2> QED
    BY <2>1, <2>2, <2>4
<1>2. Whole(Range(none), {})
  BY <1>1 DEF Whole
<1>3. Sound({}) /\ {} \in SUBSET Names
  BY ResolveIsSound
<1>4. tree \in Trees /\ Grown(Range(none), Range(tree.found), {})
      /\ \A d \in Range(references) : InTree(d, Range(tree.found), {})
  BY <1>1, <1>2, <1>3, ResolveAllSound
<1>5. PICK d : d \in Range(references)
  <2>1. 1 \in DOMAIN references
    BY EmptySeq
  <2> QED
    BY <2>1 DEF Range
<1>6. Range(tree.found) # {}
  BY <1>4, <1>5 DEF InTree
<1>7. tree.found # <<>>
  BY <1>1, <1>6
<1> QED
  BY <1>4, <1>7 DEF Trees, Grown

-------------------------------------------------------------------------------
\* Packages, from the command to modules/.

\* A command of any kind, with the fields it has.
IsShaped(c) ==
    \/ c = Idle
    \/ IsPackageCommand(c)
    \/ /\ c.pc \in Stages
       /\ c = [pc |-> c.pc, todo |-> c.todo, refresh |-> c.refresh, pinned |-> c.pinned,
               archive |-> c.archive, entries |-> c.entries]

\* The tree that a command installs, of which a part is there.
TreeOf(c, there) ==
    {[name |-> n, source |-> there[n]] : n \in c.placed}
        \cup {[name |-> d.name, source |-> d.source] : d \in Range(c.todo)}

Underway(c, there) ==
    /\ c.todo \in Seq(Known) /\ c.placed \in SUBSET Names
    /\ c.pc = "record" <=> c.todo = <<>>
    /\ \A n \in c.placed : there[n] # Missing
    /\ Whole(TreeOf(c, there), {})

Places(c) == c.pc \in {"place", "record"}

Placed(c) == IF Places(c) THEN c.placed ELSE {}

\* What is in modules/ and is no command's any more.
Settled == {n \in Names : modules[n] # Missing} \ Placing

\* What is installed has its dependencies among what is settled, and no cycle.
Complete(there, settled, installed) ==
    /\ \A n \in installed :
          /\ there[n] \in DOMAIN Manifest /\ Manifest[there[n]].name = n
          /\ \A d \in DependenciesOf(there[n]) : d.name \in settled
    /\ \A group \in (SUBSET installed) \ {{}} :
          \E n \in group : \A d \in DependenciesOf(there[n]) : d.name \notin group

\* Commands install whole trees, and none the names of another. What is installed
\* depends on nothing that a command may still take back.
PackageInv ==
    /\ command = [p \in Processes |-> command[p]]
    /\ \A p \in Processes : IsShaped(command[p])
    /\ manifest \in Seq(Known)
    /\ modules = [n \in Names |-> modules[n]]
    /\ \A p \in Processes : Places(command[p]) => Underway(command[p], modules)
    /\ \A p, q \in Processes : p # q => Placed(command[p]) \cap Placed(command[q]) = {}
    /\ Complete(modules, Settled, Installed)

LEMMA PlacingIs ==
    /\ Placing = UNION {Placed(command[p]) : p \in Processes}
    /\ Placing' = UNION {Placed(command'[p]) : p \in Processes}
<1>1. Placing = UNION {Placed(command[p]) : p \in Processes}
  BY DEF Placing, Placed, Places
<1>2. Placing' = UNION {Placed(command'[p]) : p \in Processes}
  BY DEF Placing, Placed, Places
<1> QED
  BY <1>1, <1>2

\* More may be settled, and less installed.
LEMMA CompleteWeakens ==
    ASSUME NEW there, NEW settled, NEW installed, Complete(there, settled, installed),
           NEW after, NEW more, NEW less, settled \subseteq more, less \subseteq installed,
           \A n \in less : after[n] = there[n]
    PROVE  Complete(after, more, less)
<1>1. ASSUME NEW n \in less
      PROVE  /\ after[n] \in DOMAIN Manifest /\ Manifest[after[n]].name = n
             /\ \A d \in DependenciesOf(after[n]) : d.name \in more
  BY DEF Complete
<1>2. ASSUME NEW group \in (SUBSET less) \ {{}}
      PROVE  \E n \in group : \A d \in DependenciesOf(after[n]) : d.name \notin group
  <2>1. group \in (SUBSET installed) \ {{}}
    OBVIOUS
  <2>2. PICK n \in group : \A d \in DependenciesOf(there[n]) : d.name \notin group
    BY <2>1 DEF Complete
  <2>3. after[n] = there[n]
    OBVIOUS
  <2> QED
    BY <2>2, <2>3
<1> QED
  BY <1>1, <1>2 DEF Complete

LEMMA InitPackages == Init => PackageInv
<1> SUFFICES ASSUME Init PROVE PackageInv
  OBVIOUS
<1>1. /\ command = [p \in Processes |-> Idle] /\ manifest = <<>>
      /\ modules = [n \in Names |-> Missing]
  BY DEF Init, PackagesInit
<1>2. ~Places(Idle) /\ Placed(Idle) = {}
  BY DEF Places, Placed, Idle
<1>3. manifest \in Seq(Known)
  BY <1>1, EmptySeq
<1>4. Installed = {}
  BY <1>1 DEF Installed
<1>5. Complete(modules, Settled, {})
  BY DEF Complete
<1> QED
  BY <1>1, <1>2, <1>3, <1>4, <1>5 DEF PackageInv, IsShaped

\* A step of one command that places nothing.
LEMMA PlacesNothing ==
    ASSUME PackageInv, NEW p \in Processes, UNCHANGED packagevars,
           NEW c, command' = [command EXCEPT ![p] = c], IsShaped(c),
           Placed(c) = Placed(command[p]), Places(c) => Underway(c, modules)
    PROVE  PackageInv'
<1>1. manifest' = manifest /\ modules' = modules /\ fragments' = fragments
  BY DEF packagevars
<1>2. command' = [q \in Processes |-> IF q = p THEN c ELSE command[q]]
  BY DEF PackageInv
<1>3. \A q \in Processes : Placed(command'[q]) = Placed(command[q])
  BY <1>2
<1>4. Placing' = Placing
  BY <1>3, PlacingIs
<1>5. Settled' = Settled /\ Installed' = Installed
  BY <1>1, <1>4 DEF Settled, Installed
<1>6. \A q \in Processes : IsShaped(command'[q])
  BY <1>2 DEF PackageInv
<1>7. \A q \in Processes : Places(command'[q]) => Underway(command'[q], modules')
  BY <1>1, <1>2 DEF PackageInv
<1>8. \A x : (IsShaped(x)' <=> IsShaped(x))
  BY DEF IsShaped, IsPackageCommand
<1>9. command' = [q \in Processes |-> command'[q]]
  BY <1>2
<1> QED
  BY <1>1, <1>3, <1>5, <1>6, <1>7, <1>8, <1>9 DEF PackageInv

\* The user edits the manifest.
LEMMA ManifestEdited ==
    ASSUME PackageInv, UNCHANGED <<command, modules, fragments>>, manifest' \in Seq(Known)
    PROVE  PackageInv'
<1>1. command' = command /\ modules' = modules /\ fragments' = fragments
  OBVIOUS
<1>2. Placing' = Placing
  BY <1>1 DEF Placing
<1>3. Settled' = Settled /\ Installed' = Installed
  BY <1>1, <1>2 DEF Settled, Installed
<1> QED
  BY <1>1, <1>3 DEF PackageInv

LEMMA ToolchainsKeepPackages ==
    ASSUME PackageInv, NEW p \in Processes, ToolchainStep(p), UNCHANGED packagevars
    PROVE  PackageInv'
<1>1. PICK k : k = command[p]
  OBVIOUS
<1>2. IsShaped(k)
  BY <1>1 DEF PackageInv
<1>3. k.pc \in Stages =>
        k = [pc |-> k.pc, todo |-> k.todo, refresh |-> k.refresh, pinned |-> k.pinned,
             archive |-> k.archive, entries |-> k.entries]
  BY <1>2 DEF IsShaped, IsPackageCommand, Idle, Stages
<1>4. \A c : c = Idle \/ c.pc \in Stages => ~Places(c) /\ Placed(c) = {}
  BY DEF Places, Placed, Idle, Stages
<1>5. IsShaped(Idle) /\ \A todo, refresh : IsShaped(Begin(todo, refresh)) /\ Begin(todo, refresh).pc \in Stages
  BY DEF IsShaped, Begin, Stages
<1>6. (k = Idle \/ k.pc \in Stages) /\
      \E c : command' = [command EXCEPT ![p] = c] /\ IsShaped(c) /\ (c = Idle \/ c.pc \in Stages)
  <2>1. CASE Toolchain(p)
    BY <1>1, <1>5, <2>1 DEF Toolchain, Becomes
  <2>2. CASE Download(p)
    <3>1. PICK pinned, archive :
            command' = [command EXCEPT ![p] = [k EXCEPT !.pc = "validate", !.pinned = pinned,
                                                        !.archive = archive]]
      BY <1>1, <2>2, Zenon DEF Download, Becomes
    <3>2. k.pc = "download"
      BY <1>1, <2>2 DEF Download, At
    <3>3. PICK c : c = [k EXCEPT !.pc = "validate", !.pinned = pinned, !.archive = archive]
      OBVIOUS
    <3>4. c = [pc |-> "validate", todo |-> k.todo, refresh |-> k.refresh, pinned |-> pinned,
               archive |-> archive, entries |-> k.entries]
      BY <1>3, <3>2, <3>3 DEF Stages
    <3>5. IsShaped(c) /\ c.pc \in Stages
      BY <3>4 DEF IsShaped, Stages
    <3> QED
      BY <3>1, <3>2, <3>3, <3>5 DEF Stages
  <2>3. CASE Validate(p) \/ Inspect(p) \/ Replace(p) \/ Move(p)
    <3>1. PICK stage : stage \in Stages /\ command' = [command EXCEPT ![p] = [k EXCEPT !.pc = stage]]
      BY <1>1, <2>3 DEF Validate, Inspect, Replace, Move, Go, Becomes, Stages
    <3>2. k.pc \in Stages
      BY <1>1, <2>3 DEF Validate, Inspect, Replace, Move, At, Stages
    <3>3. PICK c : c = [k EXCEPT !.pc = stage]
      OBVIOUS
    <3>4. c = [pc |-> stage, todo |-> k.todo, refresh |-> k.refresh, pinned |-> k.pinned,
               archive |-> k.archive, entries |-> k.entries]
      BY <1>3, <3>2, <3>3
    <3>5. IsShaped(c) /\ c.pc \in Stages
      BY <3>1, <3>4 DEF IsShaped
    <3> QED
      BY <3>1, <3>2, <3>3, <3>5
  <2>4. CASE ReadEntries(p)
    <3>1. k.pc = "read" /\ command' = [command EXCEPT ![p] = [k EXCEPT !.pc = "write", !.entries = lock]]
      BY <1>1, <2>4 DEF ReadEntries, At, Becomes
    <3>3. PICK c : c = [k EXCEPT !.pc = "write", !.entries = lock]
      OBVIOUS
    <3>4. c = [pc |-> "write", todo |-> k.todo, refresh |-> k.refresh, pinned |-> k.pinned,
               archive |-> k.archive, entries |-> lock]
      BY <1>3, <3>1, <3>3 DEF Stages
    <3>5. IsShaped(c) /\ c.pc \in Stages
      BY <3>4 DEF IsShaped, Stages
    <3> QED
      BY <3>1, <3>3, <3>5 DEF Stages
  <2>5. CASE Record(p)
    <3>1. k.pc = "write" /\ command' = [command EXCEPT ![p] =
              IF Len(k.todo) = 1 THEN Idle ELSE Begin(Tail(k.todo), k.refresh)]
      BY <1>1, <2>5 DEF Record, At, Becomes
    <3>2. PICK c : c = IF Len(k.todo) = 1 THEN Idle ELSE Begin(Tail(k.todo), k.refresh)
      OBVIOUS
    <3>3. IsShaped(c) /\ (c = Idle \/ c.pc \in Stages)
      BY <1>5, <3>2
    <3> QED
      BY <3>1, <3>2, <3>3 DEF Stages
  <2>6. CASE Reject(p) \/ BreakReplacing(p) \/ BreakRecording(p)
    <3>1. k.pc \in Stages
      BY <1>1, <2>6 DEF Reject, BreakReplacing, BreakRecording, At, Stages
    <3>2. command' = [command EXCEPT ![p] = Idle]
      BY <2>6 DEF Reject, BreakReplacing, BreakRecording, Becomes
    <3> QED
      BY <1>5, <3>1, <3>2
  <2> QED
    BY <2>1, <2>2, <2>3, <2>4, <2>5, <2>6 DEF ToolchainStep
<1>7. PICK c : command' = [command EXCEPT ![p] = c] /\ IsShaped(c) /\ (c = Idle \/ c.pc \in Stages)
  BY <1>6
<1>8. Placed(c) = Placed(command[p]) /\ ~Places(c)
  BY <1>1, <1>4, <1>6, <1>7
<1> QED
  BY <1>7, <1>8, PlacesNothing

LEMMA InstallKeepsPackages ==
    ASSUME PackageInv, NEW p \in Processes, InstallPackages(p)
    PROVE  PackageInv'
<1>1. PICK given : given = {manifest} \cup SeqOf(Offered, MaxRequested)
  OBVIOUS
<1>2. \E references \in given :
         /\ references # <<>> /\ ~resolveAll(resolve, references, <<>>, {}).failed
         /\ command' = [command EXCEPT ![p] =
               [pc |-> "place", todo |-> resolveAll(resolve, references, <<>>, {}).found, placed |-> {}]]
  BY <1>1, Zenon DEF InstallPackages, Becomes
<1>3. PICK references \in given :
         /\ references # <<>> /\ ~resolveAll(resolve, references, <<>>, {}).failed
         /\ command' = [command EXCEPT ![p] =
               [pc |-> "place", todo |-> resolveAll(resolve, references, <<>>, {}).found, placed |-> {}]]
  BY <1>2, Zenon
<1>4. PICK tree : tree = resolveAll(resolve, references, <<>>, {})
  OBVIOUS
<1>5. PICK c : c = [pc |-> "place", todo |-> tree.found, placed |-> {}]
  OBVIOUS
<1>6. references \in Seq(Known)
  <2>1. manifest \in Seq(Known)
    BY DEF PackageInv
  <2>2. ASSUME NEW request \in SeqOf(Offered, MaxRequested) PROVE request \in Seq(Known)
    <3>1. PICK n \in 0..MaxRequested : request \in [1..n -> Offered]
      BY <2>2 DEF SeqOf
    <3>2. n \in Nat /\ request \in [1..n -> Known]
      BY <3>1, PackagesAssumption DEF Known
    <3> QED
      BY <3>2
  <2> QED
    BY <1>1, <2>1, <2>2
<1>7. tree.found \in Seq(Known) /\ tree.found # <<>> /\ Whole(Range(tree.found), {})
  BY <1>3, <1>4, <1>6, InstalledTreesAreWhole
<1>8. Whole(TreeOf(c, modules), {})
  <2>1. PICK tree1, tree2 : tree1 = Range(tree.found) /\ tree2 = TreeOf(c, modules)
    OBVIOUS
  <2>2. tree2 = {[name |-> d.name, source |-> d.source] : d \in tree1}
    BY <1>5, <2>1 DEF TreeOf
  <2>3. (\A d \in tree1 : \E e \in tree2 : e.name = d.name /\ e.source = d.source)
        /\ (\A e \in tree2 : \E d \in tree1 : e.name = d.name /\ e.source = d.source)
    <3>1. ASSUME NEW d \in tree1 PROVE \E e \in tree2 : e.name = d.name /\ e.source = d.source
      <4>1. PICK e : e = [name |-> d.name, source |-> d.source]
        OBVIOUS
      <4>2. e \in tree2 /\ e.name = d.name /\ e.source = d.source
        BY <2>2, <4>1
      <4> QED
        BY <4>2
    <3>2. ASSUME NEW e \in tree2 PROVE \E d \in tree1 : e.name = d.name /\ e.source = d.source
      <4>1. PICK d \in tree1 : e = [name |-> d.name, source |-> d.source]
        BY <2>2
      <4> QED
        BY <4>1
    <3> QED
      BY <3>1, <3>2
  <2>4. Whole(tree1, {})
    BY <1>7, <2>1
  <2>5. Whole(tree2, {})
    <3>1. \A d \in tree2 : /\ d.name \in Names /\ d.source \in DOMAIN Manifest
                           /\ Manifest[d.source].name = d.name
      BY <2>3, <2>4 DEF Whole
    <3>2. ASSUME NEW d \in tree2, NEW e \in DependenciesOf(d.source)
          PROVE  \E o \in tree2 : o.name = e.name
      <4>1. PICK x \in tree1 : d.name = x.name /\ d.source = x.source
        BY <2>3
      <4>2. \E o \in tree1 : o.name = e.name
        BY <2>4, <3>2, <4>1 DEF Whole
      <4> QED
        BY <2>3, <4>2
    <3>3. ASSUME NEW group \in SUBSET (Names \ {}), \E d \in tree2 : d.name \in group
          PROVE  \E d \in tree2 : d.name \in group /\ \A e \in DependenciesOf(d.source) : e.name \notin group
      <4>1. \E d \in tree1 : d.name \in group
        BY <2>3, <3>3
      <4>2. PICK x \in tree1 : x.name \in group /\ \A e \in DependenciesOf(x.source) : e.name \notin group
        BY <2>4, <3>3, <4>1 DEF Whole
      <4>3. PICK d \in tree2 : d.name = x.name /\ d.source = x.source
        BY <2>3
      <4> QED
        BY <4>2, <4>3
    <3> QED
      BY <3>1, <3>2, <3>3 DEF Whole
  <2> QED
    BY <2>1, <2>5
<1>9. IsShaped(c) /\ Placed(c) = {} /\ Underway(c, modules)
  BY <1>5, <1>7, <1>8 DEF IsShaped, IsPackageCommand, Placed, Underway
<1>10. Placed(command[p]) = {}
  BY DEF InstallPackages, Placed, Places, Idle
<1>11. UNCHANGED packagevars
  BY DEF InstallPackages
<1>12. command' = [command EXCEPT ![p] = c]
  BY <1>3, <1>4, <1>5
<1> QED
  BY <1>9, <1>10, <1>11, <1>12, PlacesNothing

Advances(k, next, c) ==
    c = [k EXCEPT !.todo = Tail(@), !.placed = @ \cup {next.name},
                  !.pc = IF Len(k.todo) = 1 THEN "record" ELSE @]

\* What a command knows of its own next package.
LEMMA NextPackage ==
    ASSUME NEW k, IsPackageCommand(k), NEW there, Underway(k, there), k.pc = "place",
           NEW next, next = Head(k.todo), NEW after,
           there = [n \in Names |-> there[n]], there[next.name] = Missing,
           after = [there EXCEPT ![next.name] = next.source],
           NEW c, Advances(k, next, c)
    PROVE  /\ next.name \in Names /\ next.name \notin k.placed /\ after[next.name] # Missing
           /\ \A n \in Names : n # next.name => after[n] = there[n]
           /\ IsPackageCommand(c) /\ Places(c) /\ Underway(c, after)
           /\ c.placed = k.placed \cup {next.name}
<1>1. k = [pc |-> k.pc, todo |-> k.todo, placed |-> k.placed]
  BY DEF IsPackageCommand
<1>2. PICK todo, rest, n : todo = k.todo /\ rest = Tail(todo) /\ n = next.name
  OBVIOUS
<1>3. todo \in Seq(Known) /\ todo # <<>>
  BY <1>2 DEF Underway
<1>4. next \in Known /\ rest \in Seq(Known) /\ Len(rest) = Len(todo) - 1 /\ Len(todo) \in Nat
      /\ Range(todo) = {next} \cup Range(rest)
  <2>1. next \in Known /\ rest \in Seq(Known) /\ Len(rest) = Len(todo) - 1 /\ Len(todo) \in Nat \ {0}
    BY <1>2, <1>3, HeadTailProperties, EmptySeq
  <2>2. \A i \in 1..Len(rest) : rest[i] = todo[i + 1]
    BY <1>2, <1>3, HeadTailProperties
  <2>3. next = todo[1]
    BY <1>2, <1>3
  <2>4. DOMAIN rest = 1..Len(rest) /\ DOMAIN todo = 1..Len(todo)
    BY <1>3, <2>1
  <2>5. \A i \in 1..Len(todo) : i = 1 \/ (i - 1 \in 1..Len(rest) /\ (i - 1) + 1 = i)
    BY <2>1
  <2>6. \A i \in 1..Len(rest) : i + 1 \in 1..Len(todo)
    BY <2>1
  <2>7. 1 \in 1..Len(todo)
    BY <2>1
  <2>8. Range(todo) \subseteq {next} \cup Range(rest)
    BY <2>2, <2>3, <2>4, <2>5 DEF Range
  <2>9. {next} \cup Range(rest) \subseteq Range(todo)
    BY <2>2, <2>3, <2>4, <2>6, <2>7 DEF Range
  <2> QED
    BY <2>1, <2>8, <2>9
<1>5a. PICK pc, placed : pc = (IF Len(todo) = 1 THEN "record" ELSE "place") /\ placed = k.placed \cup {n}
  OBVIOUS
<1>5. c = [pc |-> pc, todo |-> rest, placed |-> placed]
  BY <1>1, <1>2, <1>5a DEF Advances
<1>6. IsPackageCommand(c) /\ Places(c) /\ c.placed = k.placed \cup {n} /\ c.todo = rest
      /\ c.pc = IF Len(todo) = 1 THEN "record" ELSE "place"
  <2>1. c.pc = pc /\ c.todo = rest /\ c.placed = placed
    BY <1>5
  <2> QED
    BY <1>5, <1>5a, <2>1 DEF IsPackageCommand, Places
<1>7. [name |-> n, source |-> next.source] \in TreeOf(k, there)
  BY <1>2, <1>4 DEF TreeOf
<1>8. n \in Names /\ next.source \in DOMAIN Manifest
  BY <1>7 DEF Underway, Whole
<1>9. next.source # Missing
  BY <1>8, PackagesAssumption
<1>10. after[n] = next.source /\ \A m \in Names : m # n => after[m] = there[m]
  BY <1>2, <1>8
<1>11. n \notin k.placed
  BY <1>2 DEF Underway
<1>12. k.placed \in SUBSET Names /\ \A m \in k.placed : there[m] # Missing
  BY DEF Underway
<1>13. TreeOf(c, after) = TreeOf(k, there)
  <2>1. \A m \in k.placed : after[m] = there[m]
    BY <1>10, <1>11, <1>12
  <2>2. {[name |-> m, source |-> after[m]] : m \in k.placed \cup {n}} =
            {[name |-> m, source |-> there[m]] : m \in k.placed} \cup {[name |-> n, source |-> next.source]}
    BY <1>10, <2>1
  <2>3. {[name |-> d.name, source |-> d.source] : d \in Range(todo)} =
            {[name |-> d.name, source |-> d.source] : d \in Range(rest)} \cup {[name |-> n, source |-> next.source]}
    BY <1>2, <1>4
  <2>4. PICK A, B, C, e :
           /\ A = {[name |-> m, source |-> there[m]] : m \in k.placed}
           /\ B = {[name |-> d.name, source |-> d.source] : d \in Range(rest)}
           /\ C = {[name |-> d.name, source |-> d.source] : d \in Range(todo)}
           /\ e = [name |-> n, source |-> next.source]
    OBVIOUS
  <2>5. TreeOf(c, after) = (A \cup {e}) \cup B
    BY <1>6, <2>2, <2>4 DEF TreeOf
  <2>6. TreeOf(k, there) = A \cup C
    BY <1>2, <2>4 DEF TreeOf
  <2>7. C = B \cup {e}
    BY <2>3, <2>4
  <2> QED
    BY <2>5, <2>6, <2>7
<1>14. c.pc = "record" <=> c.todo = <<>>
  <2>1. Len(todo) = 1 <=> Len(rest) = 0
    BY <1>4
  <2>2. rest = <<>> <=> Len(rest) = 0
    BY <1>4, EmptySeq
  <2> QED
    BY <1>6, <2>1, <2>2
<1>15. \A m \in c.placed : after[m] # Missing
  BY <1>6, <1>8, <1>9, <1>10, <1>12
<1>16. Whole(TreeOf(c, after), {})
  BY <1>13 DEF Underway
<1>17. Underway(c, after)
  BY <1>4, <1>6, <1>8, <1>12, <1>14, <1>15, <1>16 DEF Underway
<1> QED
  BY <1>2, <1>6, <1>8, <1>9, <1>10, <1>11, <1>17

LEMMA PlaceKeepsPackages ==
    ASSUME PackageInv, NEW p \in Processes, Place(p)
    PROVE  PackageInv'
<1>1. PICK k, next, c : k = command[p] /\ next = Head(k.todo) /\ Advances(k, next, c)
  BY DEF Advances
<1>2. /\ k.pc = "place" /\ modules[next.name] = Missing
      /\ modules' = [modules EXCEPT ![next.name] = next.source]
      /\ command' = [command EXCEPT ![p] = c]
      /\ manifest' = manifest /\ fragments' = fragments
  BY <1>1 DEF Place, At, Becomes, Advances
<1>3. IsShaped(k) /\ Underway(k, modules) /\ Places(k)
  BY <1>1, <1>2 DEF PackageInv, Places
<1>4. IsPackageCommand(k)
  BY <1>2, <1>3 DEF IsShaped, Idle, Stages
<1>5. modules = [n \in Names |-> modules[n]]
  BY DEF PackageInv
<1>6. PICK n : n = next.name
  OBVIOUS
<1>7. /\ n \in Names /\ n \notin k.placed /\ modules'[n] # Missing
      /\ \A m \in Names : m # n => modules'[m] = modules[m]
      /\ IsPackageCommand(c) /\ Places(c) /\ Underway(c, modules')
      /\ c.placed = k.placed \cup {n}
  BY <1>1, <1>2, <1>3, <1>4, <1>5, <1>6, NextPackage
<1>8. command' = [q \in Processes |-> IF q = p THEN c ELSE command[q]]
  BY <1>2 DEF PackageInv
<1>9. ASSUME NEW q \in Processes, Places(command[q])
      PROVE  /\ Underway(command[q], modules) /\ n \notin command[q].placed
             /\ command[q].placed \in SUBSET Names
  <2>1. Underway(command[q], modules)
    BY <1>9 DEF PackageInv
  <2> QED
    BY <1>2, <1>6, <2>1 DEF Underway
<1>10. ASSUME NEW q \in Processes, q # p, Places(command[q])
       PROVE  Underway(command[q], modules')
  <2>1. \A m \in command[q].placed : modules'[m] = modules[m]
    BY <1>7, <1>9, <1>10
  <2>2. TreeOf(command[q], modules') = TreeOf(command[q], modules)
    BY <2>1 DEF TreeOf
  <2> QED
    BY <1>9, <1>10, <2>1, <2>2 DEF Underway
<1>11. Placed(c) = Placed(k) \cup {n}
  BY <1>3, <1>7 DEF Placed
<1>12. \A q \in Processes : n \notin Placed(command[q])
  BY <1>9 DEF Placed
<1>13. Placing' = Placing \cup {n} /\ n \notin Placing
  <2>1. \A q \in Processes : Placed(command'[q]) = IF q = p THEN Placed(command[q]) \cup {n} ELSE Placed(command[q])
    BY <1>1, <1>8, <1>11
  <2> QED
    BY <1>12, <2>1, PlacingIs
<1>14. Settled' = Settled /\ Installed' = Installed /\ n \notin Installed /\ Installed \subseteq Names
  BY <1>2, <1>6, <1>7, <1>13 DEF Settled, Installed
<1>15. Complete(modules', Settled', Installed')
  <2>1. \A m \in Installed : modules'[m] = modules[m]
    BY <1>7, <1>14
  <2>2. Complete(modules, Settled, Installed)
    BY DEF PackageInv
  <2>3. Complete(modules', Settled, Installed)
    BY <2>1, <2>2, CompleteWeakens
  <2> QED
    BY <1>14, <2>3
<1>16. \A q, r \in Processes : q # r => Placed(command'[q]) \cap Placed(command'[r]) = {}
  <2>1. ASSUME NEW q \in Processes, NEW r \in Processes, q # r
        PROVE  Placed(command'[q]) \cap Placed(command'[r]) = {}
    <3>1. Placed(command[q]) \cap Placed(command[r]) = {}
      BY <2>1 DEF PackageInv
    <3>2. Placed(command'[q]) \subseteq Placed(command[q]) \cup (IF q = p THEN {n} ELSE {})
      BY <1>1, <1>8, <1>11
    <3>3. Placed(command'[r]) \subseteq Placed(command[r]) \cup (IF r = p THEN {n} ELSE {})
      BY <1>1, <1>8, <1>11
    <3> QED
      BY <1>12, <2>1, <3>1, <3>2, <3>3
  <2> QED
    BY <2>1
<1>17. \A q \in Processes : Places(command'[q]) => Underway(command'[q], modules')
  BY <1>7, <1>8, <1>10
<1>18. \A q \in Processes : IsShaped(command'[q])
  BY <1>7, <1>8 DEF PackageInv, IsShaped
<1>19. command' = [q \in Processes |-> command'[q]] /\ manifest' \in Seq(Known)
       /\ modules' = [m \in Names |-> modules'[m]]
  <2>1. command' = [q \in Processes |-> command'[q]]
    BY <1>8
  <2>2. modules' = [m \in Names |-> modules'[m]]
    BY <1>2, <1>5
  <2> QED
    BY <1>2, <2>1, <2>2 DEF PackageInv
<1>20. \A x : IsShaped(x)' <=> IsShaped(x)
  BY DEF IsShaped, IsPackageCommand
<1> QED
  BY <1>15, <1>16, <1>17, <1>18, <1>19, <1>20 DEF PackageInv

\* A whole tree joins what is installed.
LEMMA CompleteGrows ==
    ASSUME NEW there, NEW settled, NEW installed, Complete(there, settled, installed),
           NEW placed, Whole({[name |-> n, source |-> there[n]] : n \in placed}, {}),
           installed \in SUBSET Names, placed \in SUBSET Names
    PROVE  Complete(there, settled \cup placed, installed \cup placed)
<1>1. PICK tree : tree = {[name |-> n, source |-> there[n]] : n \in placed}
  OBVIOUS
<1>2. Whole(tree, {})
  BY <1>1
<1>3. ASSUME NEW n \in placed
      PROVE  \E d \in tree : d.name = n /\ d.source = there[n]
  <2>1. PICK d : d = [name |-> n, source |-> there[n]]
    OBVIOUS
  <2>2. d \in tree /\ d.name = n /\ d.source = there[n]
    BY <1>1, <2>1
  <2> QED
    BY <2>2
<1>4. ASSUME NEW d \in tree PROVE d.name \in placed /\ d.source = there[d.name]
  <2>1. PICK n \in placed : d = [name |-> n, source |-> there[n]]
    BY <1>1
  <2> QED
    BY <2>1
<1>5. ASSUME NEW n \in installed \cup placed
      PROVE  /\ there[n] \in DOMAIN Manifest /\ Manifest[there[n]].name = n
             /\ \A e \in DependenciesOf(there[n]) : e.name \in settled \cup placed
  <2>1. CASE n \in installed
    BY <2>1 DEF Complete
  <2>2. CASE n \in placed
    <3>1. PICK d \in tree : d.name = n /\ d.source = there[n]
      BY <1>3, <2>2
    <3>2. there[n] \in DOMAIN Manifest /\ Manifest[there[n]].name = n
      BY <1>2, <3>1 DEF Whole
    <3>3. ASSUME NEW e \in DependenciesOf(there[n]) PROVE e.name \in placed
      <4>1. PICK o \in tree : o.name = e.name
        BY <1>2, <3>1, <3>3 DEF Whole
      <4> QED
        BY <1>4, <4>1
    <3> QED
      BY <3>2, <3>3
  <2> QED
    BY <2>1, <2>2
<1>6. ASSUME NEW group \in (SUBSET (installed \cup placed)) \ {{}}
      PROVE  \E n \in group : \A e \in DependenciesOf(there[n]) : e.name \notin group
  <2>1. CASE group \cap placed = {}
    <3>1. group \in (SUBSET installed) \ {{}}
      BY <2>1
    <3> QED
      BY <3>1 DEF Complete
  <2>2. CASE group \cap placed # {}
    <3>1. PICK m : m \in group /\ m \in placed
      BY <2>2
    <3>2. \E d \in tree : d.name \in group
      BY <1>3, <3>1
    <3>3. group \in SUBSET (Names \ {})
      OBVIOUS
    <3>4. PICK d \in tree : d.name \in group /\ \A e \in DependenciesOf(d.source) : e.name \notin group
      BY <1>2, <3>2, <3>3 DEF Whole
    <3> QED
      BY <1>4, <3>4
  <2> QED
    BY <2>1, <2>2
<1> QED
  BY <1>5, <1>6 DEF Complete

\* A command ends: with its whole tree in place, or with what it placed given up.
LEMMA EndKeepsPackages ==
    ASSUME PackageInv, NEW p \in Processes, RecordDependencies(p) \/ BreakPackages(p)
    PROVE  PackageInv'
<1>1. PICK k, placed : k = command[p] /\ placed = k.placed
  OBVIOUS
<1>2. /\ command' = [command EXCEPT ![p] = Idle]
      /\ manifest' = manifest /\ modules' = modules /\ Places(k) /\ fragments \subseteq fragments'
      /\ k.pc # "record" => placed \subseteq fragments'
  <2>1. CASE RecordDependencies(p)
    BY <1>1, <2>1 DEF RecordDependencies, At, Becomes, packagevars, Places
  <2>2. CASE BreakPackages(p)
    BY <1>1, <2>2 DEF BreakPackages, At, Becomes, Places
  <2> QED
    BY <2>1, <2>2
<1>3. Underway(k, modules)
  BY <1>1, <1>2 DEF PackageInv
<1>4. placed \in SUBSET Names /\ (\A n \in placed : modules[n] # Missing) /\ Placed(k) = placed
  BY <1>1, <1>2, <1>3 DEF Underway, Placed
<1>5. command' = [q \in Processes |-> IF q = p THEN Idle ELSE command[q]]
  BY <1>2 DEF PackageInv
<1>6. Placed(Idle) = {} /\ ~Places(Idle) /\ IsShaped(Idle)
  BY DEF Placed, Places, Idle, IsShaped
<1>7. Placing' = Placing \ placed
  <2>1. \A q \in Processes : Placed(command'[q]) = IF q = p THEN {} ELSE Placed(command[q])
    BY <1>5, <1>6
  <2>2. \A q \in Processes : q # p => Placed(command[q]) \cap placed = {}
    BY <1>1, <1>4 DEF PackageInv
  <2>3. Placed(command[p]) = placed
    BY <1>1, <1>4
  <2> QED
    BY <2>1, <2>2, <2>3, PlacingIs
<1>8. Settled' = Settled \cup placed /\ Installed \in SUBSET Names
      /\ Installed' \subseteq Installed \cup placed
  BY <1>2, <1>4, <1>7 DEF Settled, Installed
<1>9. Complete(modules, Settled, Installed)
  BY DEF PackageInv
<1>10. Complete(modules', Settled', Installed')
  <2>1. CASE k.pc = "record"
    <3>1. k.todo = <<>>
      BY <1>3, <2>1 DEF Underway
    <3>2. Range(k.todo) = {}
      <4>1. PICK todo : todo = k.todo
        OBVIOUS
      <4>2. Len(todo) = 0 /\ todo \in Seq(Known)
        BY <3>1, <4>1, EmptySeq
      <4>3. DOMAIN todo = 1..0 /\ 1..0 = {}
        BY <4>2
      <4> QED
        BY <4>1, <4>3 DEF Range
    <3>3. Whole(TreeOf(k, modules), {})
      BY <1>3 DEF Underway
    <3>4. TreeOf(k, modules) = {[name |-> n, source |-> modules[n]] : n \in placed}
      BY <1>1, <3>2 DEF TreeOf
    <3>5. Whole({[name |-> n, source |-> modules[n]] : n \in placed}, {})
      BY <3>3, <3>4
    <3>6. Complete(modules, Settled \cup placed, Installed \cup placed)
      BY <1>4, <1>8, <1>9, <3>5, CompleteGrows
    <3>7. Complete(modules, Settled', Installed')
      BY <1>8, <3>6, CompleteWeakens
    <3> QED
      BY <1>2, <3>7
  <2>2. CASE k.pc # "record"
    <3>1. Installed' \subseteq Installed
      BY <1>2, <1>7, <2>2 DEF Installed
    <3>2. Complete(modules, Settled', Installed')
      BY <1>8, <1>9, <3>1, CompleteWeakens
    <3> QED
      BY <1>2, <3>2
  <2> QED
    BY <2>1, <2>2
<1>11. \A q \in Processes : IsShaped(command'[q]) /\ (Places(command'[q]) => Underway(command'[q], modules'))
  BY <1>2, <1>5, <1>6 DEF PackageInv
<1>12. \A q, r \in Processes : q # r => Placed(command'[q]) \cap Placed(command'[r]) = {}
  BY <1>5, <1>6 DEF PackageInv
<1>13. command' = [q \in Processes |-> command'[q]]
  BY <1>5
<1>14. \A x : IsShaped(x)' <=> IsShaped(x)
  BY DEF IsShaped, IsPackageCommand
<1> QED
  BY <1>2, <1>10, <1>11, <1>12, <1>13, <1>14 DEF PackageInv

LEMMA RemovalKeepsPackages ==
    ASSUME PackageInv, RemoveModule
    PROVE  PackageInv'
<1>1. command' = command /\ manifest' = manifest /\ \A p \in Processes : command[p] = Idle
  BY DEF RemoveModule
<1>2. PICK n \in Names :
        /\ modules' = [modules EXCEPT ![n] = Missing]
        /\ fragments' = (fragments \cup {k \in Names : \E d \in Dependencies(k) : d.name = n}) \ {n}
  BY DEF RemoveModule
<1>3. Placed(Idle) = {} /\ ~Places(Idle)
  BY DEF Placed, Places, Idle
<1>4. Placing = {} /\ Placing' = {}
  BY <1>1, <1>3, PlacingIs
<1>5. modules' = [m \in Names |-> IF m = n THEN Missing ELSE modules[m]]
  BY <1>2 DEF PackageInv
<1>6. Settled' = Settled \ {n}
  BY <1>4, <1>5 DEF Settled
<1>7. Installed' \subseteq Installed /\ n \notin Installed' /\ Installed' \subseteq Names
      /\ \A k \in Installed' : \A d \in Dependencies(k) : d.name # n
  BY <1>2, <1>4, <1>5 DEF Installed
<1>8. \A k \in Installed' : modules'[k] = modules[k] /\ modules[k] # Missing
  BY <1>5, <1>7 DEF Installed
<1>9. Complete(modules, Settled, Installed)
  BY DEF PackageInv
<1>10. Complete(modules', Settled, Installed')
  BY <1>7, <1>8, <1>9, CompleteWeakens
<1>11. ASSUME NEW k \in Installed', NEW d \in DependenciesOf(modules'[k])
       PROVE  d.name \in Settled'
  <2>1. d.name \in Settled
    BY <1>10, <1>11 DEF Complete
  <2>2. d \in Dependencies(k)
    BY <1>8, <1>11 DEF Dependencies, DependenciesOf
  <2> QED
    BY <1>6, <1>7, <1>11, <2>1, <2>2
<1>12. Complete(modules', Settled', Installed')
  BY <1>10, <1>11 DEF Complete
<1>13. \A q \in Processes : ~Places(command'[q])
  BY <1>1, <1>3
<1>14. \A x : IsShaped(x)' <=> IsShaped(x)
  BY DEF IsShaped, IsPackageCommand
<1>15. modules' = [m \in Names |-> modules'[m]]
  BY <1>5
<1> QED
  BY <1>1, <1>12, <1>13, <1>14, <1>15 DEF PackageInv

LEMMA PackageInvStep == PackageInv /\ [Next]_vars => PackageInv'
<1> SUFFICES ASSUME PackageInv, [Next]_vars PROVE PackageInv'
  OBVIOUS
<1>1. ASSUME NEW p \in Processes, ToolchainCommand(p) PROVE PackageInv'
  BY <1>1, ToolchainsKeepPackages DEF ToolchainCommand
<1>2. ASSUME NEW p \in Processes, PackageStep(p) PROVE PackageInv'
  <2>1. CASE AddPackage(p)
    <3>1. PICK reference \in Offered : manifest' = Append(manifest, reference)
      BY <2>1 DEF AddPackage
    <3>2. manifest' \in Seq(Known)
      BY <3>1, AppendProperties DEF PackageInv, Known
    <3> QED
      BY <2>1, <3>2, ManifestEdited DEF AddPackage
  <2>2. CASE InstallPackages(p)
    BY <2>2, InstallKeepsPackages
  <2>3. CASE Place(p)
    BY <2>3, PlaceKeepsPackages
  <2>4. CASE RecordDependencies(p) \/ BreakPackages(p)
    BY <2>4, EndKeepsPackages
  <2> QED
    BY <1>2, <2>1, <2>2, <2>3, <2>4 DEF PackageStep
<1>3. CASE Upstream \/ UNCHANGED vars
  <2>1. UNCHANGED <<command, modules, fragments>> /\ manifest' = manifest
    BY <1>3 DEF Upstream, Publish, Republish, vars, packagevars
  <2> QED
    BY <2>1, ManifestEdited DEF PackageInv
<1>4. CASE RemoveModule
  BY <1>4, RemovalKeepsPackages
<1>5. CASE RemoveDependency
  <2>1. PICK i \in DOMAIN manifest : manifest' = RemoveAt(manifest, i)
    BY <1>5 DEF RemoveDependency
  <2>2. PICK old, n : old = manifest /\ n = Len(manifest)
    OBVIOUS
  <2>3. old \in Seq(Known) /\ n \in Nat /\ DOMAIN old = 1..n /\ i \in 1..n /\ Len(old) = n
    BY <2>1, <2>2 DEF PackageInv
  <2>4. PICK front, back : front = SubSeq(old, 1, i - 1) /\ back = SubSeq(old, i + 1, n)
    OBVIOUS
  <2>5. front \in Seq(Known) /\ back \in Seq(Known)
    BY <2>3, <2>4, SubSeqProperties
  <2>6. manifest' = front \o back
    BY <2>1, <2>2, <2>4 DEF RemoveAt
  <2>7. manifest' \in Seq(Known)
    BY <2>5, <2>6, ConcatProperties
  <2> QED
    BY <1>5, <2>7, ManifestEdited DEF RemoveDependency
<1> QED
  BY <1>1, <1>2, <1>3, <1>4, <1>5 DEF Next, PackageCommand, User

\* Whatever packages, sources and manifests there are, and however many commands
\* run at a time and end early: what a command that ended left in modules/ is
\* closed under dependencies, has the names its manifests declare, and has no
\* cycle. The recursion of resolve, which stops at the names on its chain, is what
\* makes a tree whole; that a command moves its packages only to places where
\* nothing is, and that no other command's tree is relied on before it ended, keeps
\* it so.
THEOREM TreesAreComplete == Spec => []PackagesAreComplete
<1>1. PackageInv => PackagesAreComplete
  <2> SUFFICES ASSUME PackageInv PROVE PackagesAreComplete
    OBVIOUS
  <2>1. Complete(modules, Settled, Installed)
    BY DEF PackageInv
  <2>2. ASSUME NEW n \in Installed
        PROVE  /\ Manifest[modules[n]].name = n
               /\ \A d \in Dependencies(n) : modules[d.name] # Missing
    BY <2>1 DEF Complete, Installed, Dependencies, DependenciesOf, Settled
  <2>3. ASSUME NEW group \in (SUBSET Installed) \ {{}}
        PROVE  \E n \in group : \A d \in Dependencies(n) : d.name \notin group
    <3>1. PICK n \in group : \A d \in DependenciesOf(modules[n]) : d.name \notin group
      BY <2>1 DEF Complete
    <3> QED
      BY <3>1 DEF Dependencies, DependenciesOf
  <2> QED
    BY <2>2, <2>3 DEF PackagesAreComplete
<1> QED
  BY <1>1, InitPackages, PackageInvStep, PTL DEF Spec
===============================================================================
