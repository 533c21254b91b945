-------------------------- MODULE AtomicWriteProofs --------------------------
(***************************************************************************)
(* Proofs about AtomicWrite, for any number of calls, processes, pids and  *)
(* power losses and any set of faults, clocks that go back included.       *)
(* The last part, about temp files, needs a clock that does not.           *)
(***************************************************************************)
EXTENDS AtomicWrite, TLAPS

------------------------------------------------------------------------------
(***************************************************************************)
(* Types.                                                                  *)
(***************************************************************************)

\* A temp name is a name, and never the target's.
LEMMA TempIsName ==
    ASSUME TypeOK, NEW c \in Call
    PROVE  Temp(c) \in TempName /\ Temp(c) \in Name /\ Temp(c) # Target
  <1>1. Temp(c) \in TempName
    BY DEF TypeOK, Temp, TempName
  <1>2. TempName \subseteq Pid \X Nat \X Nat
    BY BoundsAreNat DEF TempName, Nanos, Counter
  <1>3. QED
    BY <1>1, <1>2, NamesDiffer DEF Name

\* The steps of one call keep the types (each action of atomic_write).
LEMMA StepType ==
    ASSUME TypeOK, NEW c \in Call, Step(c)
    PROVE  TypeOK'
  <1> USE TempIsName DEF TypeOK, Advance, procVars, callVars, dirVars, dataVars, histVars
  <1>1. CASE TakeCounter(c)
    BY <1>1, BoundsAreNat
    DEF TakeCounter, Counter, PC, InFlight, Returned, Failed
  <1>2. CASE Create(c)
    BY <1>2 DEF Create, Link, Entry, PC, InFlight
  <1>3. CASE CreateFails(c) \/ WriteFails(c) \/ Panic(c) \/ SyncFails(c)
             \/ RenameFails(c) \/ DirSyncSkipped(c) \/ CleanupFails(c)
    BY <1>3 DEF CreateFails, WriteFails, Panic, SyncFails, RenameFails, DirSyncSkipped,
                CleanupFails, PC, InFlight, Returned, Failed, Succeeded, Lost
  <1>4. CASE Write(c)
    BY <1>4, ChunksPositive DEF Write, PC, InFlight
  <1>5. CASE Sync(c)
    BY <1>5 DEF Sync, PC, InFlight
  <1>6. CASE Rename(c)
    <2>1. dir[Temp(c)] \in Call
      BY <1>6 DEF Rename, Entry
    <2>2. dir' \in [Name -> Entry] /\ disk' \in [Name -> SUBSET Entry]
      BY <1>6, <2>1 DEF Rename, Entry, Name
    <2>3. QED
      BY <1>6, <2>1, <2>2 DEF Rename, PC, InFlight
  <1>7. CASE DirSync(c)
    BY <1>7 DEF DirSync, PC, InFlight, Returned, Failed, Succeeded
  <1>8. CASE Cleanup(c)
    BY <1>8 DEF Cleanup, Link, Entry, PC, InFlight, Returned, Failed
  <1>9. QED
    BY <1>1, <1>2, <1>3, <1>4, <1>5, <1>6, <1>7, <1>8 DEF Step

\* A power loss keeps the types.
LEMMA CrashType ==
    ASSUME TypeOK, Crash
    PROVE  TypeOK'
  <1>1. dir' \in [Name -> Entry]
    BY DEF TypeOK, Crash, Unflushed
  <1>2. disk' \in [Name -> SUBSET Entry]
    BY <1>1 DEF Crash
  <1>3. crashes' \in 0 .. MaxCrashes
    BY BoundsAreNat DEF TypeOK, Crash
  <1>4. proc' \in [Proc -> {"new", "live", "dead"}] /\ pc' \in [Call -> PC]
    BY DEF TypeOK, Crash, PC, Lost
  <1>5. QED
    BY <1>1, <1>2, <1>3, <1>4 DEF TypeOK, Crash, callVars, histVars

\* Every step keeps the types.
LEMMA NextType == TypeOK /\ [Next]_vars => TypeOK'
  <1> SUFFICES ASSUME TypeOK, [Next]_vars PROVE TypeOK'
    OBVIOUS
  <1> USE DEF procVars, callVars, dirVars, dataVars, histVars
  <1>1. ASSUME NEW p \in Proc, Start(p) PROVE TypeOK'
    BY <1>1, BoundsAreNat DEF TypeOK, Start, Nanos
  <1>2. ASSUME NEW p \in Proc, Kill(p) PROVE TypeOK'
    BY <1>2 DEF TypeOK, Kill, PC, Lost
  <1>3. CASE Tick
    BY <1>3, BoundsAreNat DEF TypeOK, Tick, Nanos
  <1>4. CASE Crash
    BY <1>4, CrashType
  <1>5. ASSUME NEW c \in Call, Begin(c) PROVE TypeOK'
    BY <1>5 DEF TypeOK, Begin, PC, InFlight, Returned, Failed
  <1>6. ASSUME NEW c \in Call, Step(c) PROVE TypeOK'
    BY <1>6, StepType
  <1>7. CASE UNCHANGED vars
    BY <1>7 DEF TypeOK, vars
  <1>8. QED
    BY <1>1, <1>2, <1>3, <1>4, <1>5, <1>6, <1>7 DEF Next

\* atomic_write's state always has its types.
THEOREM TypeCorrect == Spec => []TypeOK
  <1>1. Init => TypeOK
    BY BoundsAreNat, ChunksPositive
    DEF Init, TypeOK, Counter, Nanos, PC, Entry
  <1>2. QED
    BY <1>1, NextType, PTL DEF Spec

------------------------------------------------------------------------------
(***************************************************************************)
(* The inductive invariant.                                                *)
(***************************************************************************)

\* The statements at which a call has its temp name.
Named == InFlight \ {"count"}

\* A call in flight runs in a live process.
OwnersLive == \A c \in Call : pc[c] \in InFlight => proc[owner[c]] = "live"

\* No two live processes have one pid.
PidsDiffer ==
    \A p, q \in Proc : proc[p] = "live" /\ proc[q] = "live" /\ pid[p] = pid[q] => p = q

\* A process gives no counter value to two calls, and will give none again.
SeqsDiffer ==
    \A c, d \in Call : pc[c] \in Named /\ pc[d] \in Named /\ owner[c] = owner[d] =>
        seq[c] < counter[owner[c]] /\ (seq[c] = seq[d] => c = d)

NamesInv == OwnersLive /\ PidsDiffer /\ SeqsDiffer

\* What is durable was written; what is about to be synced was written
\* entirely, what is about to be renamed was synced entirely.
DataInv ==
    \A c \in Call : /\ durable[c] <= len[c]
                    /\ pc[c] = "sync" => len[c] = Chunks
                    /\ pc[c] = "rename" => durable[c] = Chunks

\* What a name leads to now is among what a power loss may leave there.
DirOnDisk == \A n \in Name : dir[n] \in disk[n]

FileInv == OwnsTemp /\ DataInv /\ DirOnDisk /\ TargetWhole

IInv == TypeOK /\ NamesInv /\ FileInv

\* Two calls in flight have different temp names: the pid tells processes
\* apart, the counter the threads of one.  The clock is not needed.
LEMMA TempsDiffer ==
    ASSUME TypeOK, NamesInv, NEW c \in Call, NEW d \in Call, c # d,
           pc[c] \in Named, pc[d] \in Named
    PROVE  Temp(c) # Temp(d)
  <1>1. CASE owner[c] = owner[d]
    BY <1>1 DEF NamesInv, SeqsDiffer, Temp
  <1>2. CASE owner[c] # owner[d]
    <2>1. pid[owner[c]] # pid[owner[d]]
      BY <1>2 DEF TypeOK, NamesInv, OwnersLive, PidsDiffer, Named
    <2>2. QED
      BY <2>1 DEF Temp
  <1>3. QED
    BY <1>1, <1>2

\* The names stay apart, whatever happens.
LEMMA NextNames == TypeOK /\ NamesInv /\ [Next]_vars => NamesInv'
  <1> SUFFICES ASSUME TypeOK, NamesInv, [Next]_vars PROVE NamesInv'
    OBVIOUS
  <1> USE DEF NamesInv, OwnersLive, PidsDiffer, SeqsDiffer, Named, InFlight,
              procVars, callVars
  <1>1. ASSUME NEW p \in Proc, Start(p) PROVE NamesInv'
    BY <1>1 DEF TypeOK, Start
  <1>2. ASSUME NEW p \in Proc, Kill(p) PROVE NamesInv'
    BY <1>2 DEF TypeOK, Kill
  <1>3. CASE Tick
    BY <1>3 DEF Tick
  <1>4. CASE Crash
    BY <1>4 DEF TypeOK, Crash
  <1>5. ASSUME NEW c \in Call, Begin(c) PROVE NamesInv'
    BY <1>5 DEF TypeOK, Begin
  <1>6. ASSUME NEW c \in Call, TakeCounter(c) PROVE NamesInv'
    <2>1. OwnersLive' /\ PidsDiffer'
      BY <1>6 DEF TypeOK, TakeCounter
    <2>2. ASSUME NEW a \in Call, NEW b \in Call, (pc[a] \in Named)', (pc[b] \in Named)',
                 (owner[a] = owner[b])'
          PROVE  (seq[a] < counter[owner[a]] /\ (seq[a] = seq[b] => a = b))'
      BY <1>6, <2>2, BoundsAreNat DEF TypeOK, TakeCounter, Counter
    <2>3. QED
      BY <2>1, <2>2
  <1>7. ASSUME NEW c \in Call, Step(c), ~TakeCounter(c) PROVE NamesInv'
    <2>1. /\ UNCHANGED <<proc, pid, counter, owner, seq>>
          /\ pc[c] \in Named
          /\ \A d \in Call \ {c} : pc'[d] = pc[d]
      BY <1>7
      DEF TypeOK, Step, Create, CreateFails, Write, WriteFails, Panic, Sync, SyncFails,
          Rename, RenameFails, DirSync, DirSyncSkipped, Cleanup, CleanupFails, Advance
    <2>2. \A d \in Call : pc'[d] \in Named => pc[d] \in Named
      BY <2>1
    <2>3. QED
      BY <2>1, <2>2
  <1>8. CASE UNCHANGED vars
    BY <1>8 DEF vars
  <1>9. QED
    BY <1>1, <1>2, <1>3, <1>4, <1>5, <1>6, <1>7, <1>8 DEF Next

\* No step of the host or of a call that touches neither file nor directory
\* disturbs the files.
LEMMA QuietStep ==
    ASSUME FileInv, UNCHANGED <<owner, pid, dirVars, dataVars>>,
           \A c \in Call : pc'[c] \in {"write", "sync", "rename"} =>
               pc'[c] = pc[c] /\ UNCHANGED <<nanos[c], seq[c]>>
    PROVE  FileInv'
  BY DEF FileInv, OwnsTemp, DataInv, DirOnDisk, TargetWhole, Temp, dirVars, dataVars

\* A power loss leaves whole files whole: what it can bring back at the target
\* was whole before, and no file that is durable to its last chunk shrinks.
LEMMA CrashFiles ==
    ASSUME TypeOK, FileInv, Crash
    PROVE  FileInv'
  <1>1. \A n \in Name : dir'[n] \in disk[n] /\ disk'[n] = {dir'[n]}
    BY DEF FileInv, DirOnDisk, Crash, Unflushed
  <1>2. \A c \in Call : pc'[c] \notin {"write", "sync", "rename"}
    BY DEF TypeOK, Crash, InFlight
  <1>3. \A c \in Call : durable'[c] = len'[c] /\ (durable[c] = Chunks => durable'[c] = Chunks)
    BY ChunksPositive DEF TypeOK, Crash
  <1>4. \A c \in Call : len'[c] \in 0 .. Chunks
    BY DEF Crash
  <1>5. TargetWhole'
    <2>1. Target \in Name
      BY DEF Name
    <2>2. dir'[Target] \in disk[Target] /\ disk'[Target] = {dir'[Target]}
      BY <1>1, <2>1
    <2>3. disk[Target] \subseteq Entry
      BY <2>1 DEF TypeOK
    <2>4. QED
      BY <1>3, <2>2, <2>3 DEF FileInv, TargetWhole, Entry
  <1>6. DataInv'
    BY <1>2, <1>3, <1>4 DEF DataInv
  <1>7. QED
    BY <1>1, <1>2, <1>5, <1>6 DEF FileInv, OwnsTemp, DirOnDisk

\* A call that writes or syncs touches no file the target may lead to.
LEMMA DataStep ==
    ASSUME TypeOK, FileInv, NEW c \in Call, Write(c) \/ Sync(c)
    PROVE  FileInv'
  <1> USE DEF FileInv, Advance, callVars, procVars, dirVars
  <1>1. OwnsTemp' /\ DirOnDisk'
    BY DEF TypeOK, OwnsTemp, DirOnDisk, Write, Sync, Temp
  <1>2. DataInv'
    BY ChunksPositive DEF TypeOK, DataInv, Write, Sync
  <1>3. \A i \in Call : durable[i] = Chunks => durable'[i] = Chunks
    BY DEF TypeOK, DataInv, Write, Sync
  <1>4. ({dir[Target]} \cup disk[Target]) \ {None} \subseteq Call
    BY DEF TypeOK, Name, Entry
  <1>5. TargetWhole'
    BY <1>3, <1>4 DEF TargetWhole, Write, Sync
  <1>6. QED
    BY <1>1, <1>2, <1>5

\* Creating or removing a temp file disturbs no other call's, for no two calls
\* in flight share a name.
LEMMA LinkStep ==
    ASSUME TypeOK, NamesInv, FileInv, NEW c \in Call, Create(c) \/ Cleanup(c)
    PROVE  FileInv'
  <1> USE TempIsName DEF FileInv, Advance, Link, callVars, procVars, dataVars
  <1>1. \A d \in Call : d # c /\ pc[d] \in {"write", "sync", "rename"} =>
            Temp(d) # Temp(c)
    BY TempsDiffer DEF Create, Cleanup, Named, InFlight
  <1>2. OwnsTemp'
    BY <1>1 DEF TypeOK, OwnsTemp, Create, Cleanup, Temp
  <1>3. DataInv'
    BY DEF TypeOK, DataInv, Create, Cleanup
  <1>4. DirOnDisk'
    BY DEF TypeOK, DirOnDisk, Create, Cleanup
  <1>5. TargetWhole'
    BY DEF TypeOK, TargetWhole, Create, Cleanup, Name
  <1>6. QED
    BY <1>2, <1>3, <1>4, <1>5

\* rename makes the caller's own, fully synced file the target.
LEMMA RenameStep ==
    ASSUME TypeOK, NamesInv, FileInv, NEW c \in Call, Rename(c)
    PROVE  FileInv'
  <1> USE TempIsName DEF FileInv, Advance, callVars, procVars, dataVars
  <1>1. dir[Temp(c)] = c /\ durable[c] = Chunks
    BY DEF Rename, OwnsTemp, DataInv
  <1>2. \A d \in Call : d # c /\ pc[d] \in {"write", "sync", "rename"} =>
            Temp(d) # Temp(c)
    BY TempsDiffer DEF Rename, Named, InFlight
  <1>3. OwnsTemp'
    BY <1>2 DEF TypeOK, OwnsTemp, Rename, Temp
  <1>4. DataInv'
    BY DEF TypeOK, DataInv, Rename
  <1>5. DirOnDisk'
    BY DEF TypeOK, DirOnDisk, Rename, Name
  <1>6. TargetWhole'
    BY <1>1 DEF TypeOK, TargetWhole, Rename, Name
  <1>7. QED
    BY <1>3, <1>4, <1>5, <1>6

\* Every step keeps the files' invariant.
LEMMA NextFiles == TypeOK /\ NamesInv /\ FileInv /\ [Next]_vars => FileInv'
  <1> SUFFICES ASSUME TypeOK, NamesInv, FileInv, [Next]_vars PROVE FileInv'
    OBVIOUS
  <1> USE DEF callVars, procVars
  <1>1. ASSUME NEW p \in Proc, Start(p) PROVE FileInv'
    BY <1>1, QuietStep DEF Start
  <1>2. ASSUME NEW p \in Proc, Kill(p) PROVE FileInv'
    BY <1>2, QuietStep DEF TypeOK, Kill
  <1>3. CASE Tick
    BY <1>3, QuietStep DEF Tick
  <1>4. CASE Crash
    BY <1>4, CrashFiles
  <1>5. ASSUME NEW c \in Call, Begin(c) PROVE FileInv'
    BY <1>5, QuietStep DEF TypeOK, Begin
  <1>6. ASSUME NEW c \in Call, Step(c) PROVE FileInv'
    <2>1. CASE TakeCounter(c)
      BY <2>1, QuietStep DEF TypeOK, TakeCounter
    <2>2. CASE Create(c) \/ Cleanup(c)
      BY <2>2, LinkStep
    <2>3. CASE CreateFails(c) \/ WriteFails(c) \/ Panic(c) \/ SyncFails(c)
               \/ RenameFails(c) \/ DirSyncSkipped(c) \/ CleanupFails(c)
      BY <2>3, QuietStep
      DEF TypeOK, CreateFails, WriteFails, Panic, SyncFails, RenameFails,
          DirSyncSkipped, CleanupFails, Advance
    <2>4. CASE Write(c) \/ Sync(c)
      BY <2>4, DataStep
    <2>5. CASE Rename(c)
      BY <2>5, RenameStep
    <2>6. CASE DirSync(c)
      <3>1. OwnsTemp' /\ DataInv' /\ DirOnDisk'
        BY <2>6 DEF TypeOK, FileInv, OwnsTemp, DataInv, DirOnDisk, DirSync, Advance, Temp,
                    dataVars
      <3>2. TargetWhole'
        BY <2>6 DEF TypeOK, FileInv, TargetWhole, DirSync, Advance, Name, dataVars
      <3>3. QED
        BY <3>1, <3>2 DEF FileInv
    <2>7. QED
      BY <1>6, <2>1, <2>2, <2>3, <2>4, <2>5, <2>6 DEF Step
  <1>7. CASE UNCHANGED vars
    BY <1>7, QuietStep DEF vars
  <1>8. QED
    BY <1>1, <1>2, <1>3, <1>4, <1>5, <1>6, <1>7 DEF Next

\* The inductive invariant holds in every state.
LEMMA Inductive == Spec => []IInv
  <1>1. Init => IInv
    <2>1. Init => TypeOK
      BY BoundsAreNat, ChunksPositive DEF Init, TypeOK, Counter, Nanos, PC, Entry
    <2>2. Init => NamesInv
      BY DEF Init, NamesInv, OwnersLive, PidsDiffer, SeqsDiffer, InFlight, Named
    <2>3. Init => FileInv
      BY ChunksPositive
      DEF Init, FileInv, OwnsTemp, DataInv, DirOnDisk, TargetWhole, Name
    <2>4. QED
      BY <2>1, <2>2, <2>3 DEF IInv
  <1>2. IInv /\ [Next]_vars => IInv'
    BY NextType, NextNames, NextFiles DEF IInv
  <1>3. QED
    BY <1>1, <1>2, PTL DEF Spec

\* No call's temp file is taken, removed or replaced by another's while the
\* call works on it, in any interleaving of threads and processes.
THEOREM TempNeverStolen == Spec => []OwnsTemp
  <1>1. IInv => OwnsTemp
    BY DEF IInv, FileInv
  <1>2. QED
    BY <1>1, Inductive, PTL

\* Readers see the old file or the new file, never a partial one, and so does
\* whoever looks after a power loss.
THEOREM TargetAlwaysWhole == Spec => []TargetWhole
  <1>1. IInv => TargetWhole
    BY DEF IInv, FileInv
  <1>2. QED
    BY <1>1, Inductive, PTL

------------------------------------------------------------------------------
(***************************************************************************)
(* Durability.                                                             *)
(***************************************************************************)

\* Replacements are numbered in their order; a call past its rename finds its
\* own or a later one at the target.
StampInv ==
    /\ \A i \in Call : stamp[i] <= renames
    /\ \A c \in Call : pc[c] \in {"dirsync", "ok"} =>
           dir[Target] # None /\ stamp[dir[Target]] >= stamp[c]
    /\ AckedSurvives

\* A step that leaves the directory's target and the stamps alone, and brings
\* no call to "dirsync" or "ok".
LEMMA StampQuiet ==
    ASSUME StampInv, UNCHANGED <<dir[Target], disk[Target], stamp, renames>>,
           \A c \in Call : pc'[c] \in {"dirsync", "ok"} => pc'[c] = pc[c]
    PROVE  StampInv'
  BY DEF StampInv, AckedSurvives

\* The target after a rename is the newest replacement of all.
LEMMA StampRename ==
    ASSUME IInv, StampInv, NEW c \in Call, Rename(c)
    PROVE  StampInv'
  <1> USE TempIsName DEF IInv, Advance
  <1>1. dir[Temp(c)] = c
    BY DEF Rename, FileInv, OwnsTemp
  <1>2. /\ dir'[Target] = c
        /\ disk'[Target] = disk[Target] \cup {c}
        /\ renames' = renames + 1 /\ renames \in Nat
        /\ stamp' = [stamp EXCEPT ![c] = renames + 1]
        /\ pc' = [pc EXCEPT ![c] = "dirsync"]
    BY <1>1 DEF TypeOK, Rename, Name
  <1>3. stamp \in [Call -> Nat] /\ pc \in [Call -> PC] /\ c # None
    BY NamesDiffer DEF TypeOK
  <1>4. \A i \in Call : stamp'[i] <= renames + 1 /\ stamp[i] <= stamp'[i]
    BY <1>2, <1>3 DEF StampInv
  <1>5. disk[Target] \subseteq Call \cup {None}
    BY DEF TypeOK, Name, Entry
  <1>6. \A d \in Call : pc'[d] = "ok" => pc[d] = "ok" /\ d # c
    BY <1>2, <1>3
  <1>7. AckedSurvives'
    <2> SUFFICES ASSUME NEW d \in Call, pc[d] = "ok", d # c,
                        NEW i \in {c} \cup disk[Target]
                 PROVE  i # None /\ stamp'[i] >= stamp'[d]
      BY <1>2, <1>6 DEF AckedSurvives
    <2>1. stamp'[d] = stamp[d] /\ stamp[d] <= renames
      BY <1>2, <1>3 DEF StampInv
    <2>2. CASE i = c
      BY <2>1, <2>2, <1>2, <1>3
    <2>3. CASE i # c
      <3>1. i \in disk[Target] /\ i # None /\ stamp[i] >= stamp[d]
        BY <2>3 DEF StampInv, AckedSurvives
      <3>2. QED
        BY <2>1, <2>3, <3>1, <1>2, <1>3, <1>5
    <2>4. QED
      BY <2>2, <2>3
  <1>8. \A d \in Call : pc'[d] \in {"dirsync", "ok"} =>
            dir'[Target] # None /\ stamp'[dir'[Target]] >= stamp'[d]
    BY <1>2, <1>3, <1>4
  <1>9. QED
    BY <1>2, <1>4, <1>7, <1>8 DEF StampInv

\* The directory fsync leaves nothing older than the target to come back.
LEMMA StampSync ==
    ASSUME IInv, StampInv, NEW c \in Call, DirSync(c)
    PROVE  StampInv'
  <1>1. /\ dir' = dir /\ stamp' = stamp /\ renames' = renames
        /\ disk'[Target] = {dir[Target]}
        /\ pc' = [pc EXCEPT ![c] = "ok"] /\ pc[c] = "dirsync"
    BY DEF DirSync, Advance, histVars, Name
  <1>2. pc \in [Call -> PC]
    BY DEF IInv, TypeOK
  <1>3. QED
    BY <1>1, <1>2 DEF StampInv, AckedSurvives

\* A power loss leaves at the target one of what AckedSurvives speaks of.
LEMMA StampCrash ==
    ASSUME IInv, StampInv, Crash
    PROVE  StampInv'
  <1>1. dir'[Target] \in {dir[Target]} \cup disk[Target] /\ disk'[Target] = {dir'[Target]}
    BY DEF Crash, Unflushed, Name
  <1>2. \A c \in Call : pc'[c] \in {"dirsync", "ok"} => pc[c] = "ok" /\ pc'[c] = "ok"
    BY DEF IInv, TypeOK, Crash, InFlight
  <1>3. UNCHANGED <<stamp, renames>>
    BY DEF Crash, histVars
  <1>4. QED
    BY <1>1, <1>2, <1>3 DEF StampInv, AckedSurvives

\* Every step keeps the order of replacements.
LEMMA NextStamp == IInv /\ StampInv /\ [Next]_vars => StampInv'
  <1> SUFFICES ASSUME IInv, StampInv, [Next]_vars PROVE StampInv'
    OBVIOUS
  <1> USE DEF dirVars, histVars
  <1>1. ASSUME NEW p \in Proc, Start(p) \/ Kill(p) PROVE StampInv'
    BY <1>1, StampQuiet DEF IInv, TypeOK, Start, Kill
  <1>2. CASE Tick
    BY <1>2, StampQuiet DEF Tick
  <1>3. CASE Crash
    BY <1>3, StampCrash
  <1>4. ASSUME NEW c \in Call, Begin(c) PROVE StampInv'
    BY <1>4, StampQuiet DEF IInv, TypeOK, Begin
  <1>5. ASSUME NEW c \in Call, Step(c) PROVE StampInv'
    <2>1. CASE Rename(c)
      BY <2>1, StampRename
    <2>2. CASE DirSync(c)
      BY <2>2, StampSync
    <2>3. CASE Create(c) \/ Cleanup(c)
      <3>1. UNCHANGED <<dir[Target], disk[Target], stamp, renames>>
        BY <2>3, TempIsName DEF IInv, TypeOK, Create, Cleanup, Link, Name
      <3>2. \A d \in Call : pc'[d] \in {"dirsync", "ok"} => pc'[d] = pc[d]
        BY <2>3 DEF IInv, TypeOK, Create, Cleanup, Advance
      <3>3. QED
        BY <3>1, <3>2, StampQuiet
    <2>4. CASE ~(Rename(c) \/ DirSync(c) \/ Create(c) \/ Cleanup(c))
      <3>1. UNCHANGED <<dir, disk, stamp, renames>>
        BY <1>5, <2>4
        DEF Step, TakeCounter, CreateFails, Write, WriteFails, Panic, Sync, SyncFails,
            RenameFails, DirSyncSkipped, CleanupFails
      <3>2. \A d \in Call : pc'[d] \in {"dirsync", "ok"} => pc'[d] = pc[d]
        BY <1>5, <2>4
        DEF IInv, TypeOK, Step, TakeCounter, CreateFails, Write, WriteFails, Panic, Sync,
            SyncFails, RenameFails, DirSyncSkipped, CleanupFails, Advance
      <3>3. QED
        BY <3>1, <3>2, StampQuiet
    <2>5. QED
      BY <2>1, <2>2, <2>3, <2>4
  <1>6. CASE UNCHANGED vars
    BY <1>6, StampQuiet DEF vars
  <1>7. QED
    BY <1>1, <1>2, <1>3, <1>4, <1>5, <1>6 DEF Next

\* Replacements stay in their order in every state.
LEMMA StampAlways == Spec => []StampInv
  <1>1. Init => StampInv
    BY DEF Init, StampInv, AckedSurvives
  <1>2. IInv /\ StampInv /\ [Next]_vars => StampInv'
    BY NextStamp
  <1>3. QED
    BY <1>1, <1>2, Inductive, PTL DEF Spec

\* After an Ok with the directory fsynced, no power loss brings back what the
\* call replaced.
THEOREM AckedAlwaysSurvives == Spec => []AckedSurvives
  <1>1. StampInv => AckedSurvives
    BY DEF StampInv
  <1>2. QED
    BY <1>1, StampAlways, PTL

------------------------------------------------------------------------------
(***************************************************************************)
(* What the writers do to the target between two power losses.             *)
(***************************************************************************)

\* c will rename no file any more.
Settled(c) == pc[c] \notin {"idle", "count", "create", "write", "sync", "rename"}

\* A call that is settled stays so and keeps its stamp; the target changes by
\* a rename alone, and then to the newest file of all.
LEMMA TargetMoves ==
    ASSUME IInv, [Next]_vars, crashes' = crashes
    PROVE  /\ \A c \in Call : Settled(c) => Settled(c)' /\ stamp'[c] = stamp[c]
           /\ \/ dir'[Target] = dir[Target]
              \/ \E d \in Call : /\ dir'[Target] = d /\ ~Settled(d) /\ Settled(d)'
                                 /\ stamp'[d] = renames + 1
           /\ disk'[Target] \subseteq disk[Target] \cup {dir'[Target]}
           /\ \A c \in Call : /\ pc[c] \in Succeeded => pc'[c] \in Succeeded
                              /\ pc'[c] \in Succeeded => pc[c] \in Succeeded \cup {"dirsync"}
  <1> USE DEF IInv, dirVars, histVars
  <1> DEFINE Goal == /\ \A c \in Call : Settled(c) => Settled(c)' /\ stamp'[c] = stamp[c]
                     /\ \/ dir'[Target] = dir[Target]
                        \/ \E d \in Call : /\ dir'[Target] = d /\ ~Settled(d) /\ Settled(d)'
                                           /\ stamp'[d] = renames + 1
                     /\ disk'[Target] \subseteq disk[Target] \cup {dir'[Target]}
                     /\ \A c \in Call :
                            /\ pc[c] \in Succeeded => pc'[c] \in Succeeded
                            /\ pc'[c] \in Succeeded => pc[c] \in Succeeded \cup {"dirsync"}
  <1>1. ASSUME NEW p \in Proc, Start(p) \/ Kill(p) PROVE Goal
    BY <1>1 DEF TypeOK, Start, Kill, Settled, InFlight, Succeeded
  <1>2. CASE Tick
    BY <1>2 DEF Tick, Settled
  <1>3. CASE Crash
    BY <1>3 DEF TypeOK, Crash
  <1>4. ASSUME NEW c \in Call, Begin(c) PROVE Goal
    BY <1>4 DEF TypeOK, Begin, Settled, Succeeded
  <1>5. ASSUME NEW c \in Call, Step(c) PROVE Goal
    <2> USE DEF Settled, Succeeded, Advance
    <2>1. CASE Rename(c)
      <3>1. dir[Temp(c)] = c /\ Temp(c) # Target /\ Temp(c) \in Name /\ Target \in Name
        BY <2>1, TempIsName DEF Rename, FileInv, OwnsTemp, Name
      <3>2. /\ dir'[Target] = c /\ disk'[Target] = disk[Target] \cup {c}
            /\ stamp' = [stamp EXCEPT ![c] = renames + 1]
        BY <2>1, <3>1 DEF TypeOK, Rename
      <3>3. pc[c] = "rename" /\ pc' = [pc EXCEPT ![c] = "dirsync"]
        BY <2>1 DEF Rename
      <3>4. QED
        BY <3>2, <3>3 DEF TypeOK
    <2>2. CASE Create(c) \/ Cleanup(c)
      <3>1. UNCHANGED <<dir[Target], disk[Target], stamp>>
        BY <2>2, TempIsName DEF TypeOK, Create, Cleanup, Link, Name
      <3>2. QED
        BY <2>2, <3>1 DEF TypeOK, Create, Cleanup
    <2>3. CASE ~Rename(c) /\ ~Create(c) /\ ~Cleanup(c)
      <3>1. UNCHANGED <<dir, stamp>> /\ disk'[Target] \subseteq disk[Target] \cup {dir[Target]}
        BY <1>5, <2>3
        DEF TypeOK, Name, Step, TakeCounter, CreateFails, Write, WriteFails, Panic, Sync, SyncFails,
            RenameFails, DirSync, DirSyncSkipped, CleanupFails
      <3>2. /\ Settled(c) => Settled(c)'
            /\ pc[c] \notin Succeeded
            /\ pc'[c] \in Succeeded => pc[c] = "dirsync"
            /\ \A d \in Call \ {c} : pc'[d] = pc[d]
        BY <1>5, <2>3
        DEF TypeOK, Step, TakeCounter, CreateFails, Write, WriteFails, Panic, Sync,
            SyncFails, RenameFails, DirSync, DirSyncSkipped, CleanupFails
      <3>3. QED
        BY <3>1, <3>2
    <2>4. QED
      BY <2>1, <2>2, <2>3
  <1>6. CASE UNCHANGED vars
    BY <1>6 DEF vars, Settled
  <1>7. QED
    BY <1>1, <1>2, <1>3, <1>4, <1>5, <1>6 DEF Next

\* A file that is complete stays so.
LEMMA LenStays ==
    ASSUME TypeOK, [Next]_vars, crashes' = crashes, NEW i \in Call, len[i] = Chunks
    PROVE  len'[i] = Chunks
  <1>1. ASSUME NEW p \in Proc, Start(p) \/ Kill(p) PROVE len' = len
    BY <1>1 DEF Start, Kill, dataVars
  <1>2. CASE Crash
    BY <1>2 DEF TypeOK, Crash
  <1>3. ASSUME NEW c \in Call, Begin(c) PROVE len' = len
    BY <1>3 DEF Begin, dataVars
  <1>4. ASSUME NEW c \in Call, Write(c) PROVE len'[i] = Chunks
    BY <1>4, ChunksPositive DEF TypeOK, Write
  <1>5. ASSUME NEW c \in Call, Step(c), ~Write(c) PROVE len' = len
    BY <1>5
    DEF Step, TakeCounter, Create, CreateFails, WriteFails, Panic, Sync, SyncFails, Rename,
        RenameFails, DirSync, DirSyncSkipped, Cleanup, CleanupFails, dataVars
  <1>6. CASE Tick \/ UNCHANGED vars
    BY <1>6 DEF Tick, vars, dataVars
  <1>7. QED
    BY <1>1, <1>2, <1>3, <1>4, <1>5, <1>6 DEF Next

\* What rename makes visible is complete.
LEMMA OpensWhole == IInv /\ dir[Target] # None => len[dir[Target]] = Chunks
  <1> SUFFICES ASSUME IInv, dir[Target] # None PROVE len[dir[Target]] = Chunks
    OBVIOUS
  <1>1. dir[Target] \in Call
    BY DEF IInv, TypeOK, Name, Entry
  <1>2. durable[dir[Target]] = Chunks /\ durable[dir[Target]] <= len[dir[Target]]
    BY <1>1 DEF IInv, FileInv, TargetWhole, DataInv
  <1>3. QED
    BY <1>1, <1>2, ChunksPositive DEF IInv, TypeOK

------------------------------------------------------------------------------
(***************************************************************************)
(* Refinement: every step is one of AtomicFile or changes nothing there.   *)
(***************************************************************************)

\* The status mapping as a function.
StatusFn == [c \in Call |-> Status(c)]

\* One call changes location and its status with it, or not at all.
LEMMA StatusMoves ==
    ASSUME TypeOK, NEW c \in Call, NEW to, pc' = [pc EXCEPT ![c] = to]
    PROVE  StatusFn' = [StatusFn EXCEPT ![c] = Status(c)'] /\ pc'[c] = to
  <1>1. pc'[c] = to /\ \A d \in Call \ {c} : pc'[d] = pc[d]
    BY DEF TypeOK
  <1>2. \A d \in Call \ {c} : Status(d)' = Status(d)
    BY <1>1 DEF Status
  <1>3. QED
    BY <1>1, <1>2 DEF StatusFn

\* A step of one call that is neither rename nor the directory fsync.
LEMMA RefineQuiet ==
    ASSUME TypeOK, NEW c \in Call, NEW to,
           pc' = [pc EXCEPT ![c] = to],
           UNCHANGED <<dir[Target], disk[Target]>>,
           \/ pc[c] = "idle" /\ to \in {"count", "rejected"}
           \/ /\ pc[c] \in InFlight \ {"dirsync"}
              /\ to \in (InFlight \ {"dirsync"}) \cup Failed \cup {"rejected", "panicked"}
           \/ pc[c] = "dirsync" /\ to = "okUnflushed"
    PROVE  [File!Next]_(File!vars)
  <1>1. StatusFn' = [StatusFn EXCEPT ![c] = Status(c)'] /\ pc'[c] = to
    BY StatusMoves
  <1>2. StatusFn[c] = Status(c)
    BY DEF StatusFn
  <1> USE DEF InFlight, Returned, Failed, Succeeded, Lost
  <1>3. CASE pc[c] = "idle"
    <2>1. Status(c) = "idle" /\ Status(c)' \in {"running", "rejected"}
      BY <1>1, <1>3 DEF Status
    <2>2. File!Invoke(c)
      BY <1>1, <1>2, <2>1 DEF File!Invoke, StatusFn
    <2>3. QED
      BY <2>2 DEF File!Next
  <1>4. CASE pc[c] \in InFlight \ {"dirsync"} /\ to \in InFlight
    <2>1. Status(c)' = Status(c)
      BY <1>1, <1>4 DEF Status
    <2>2. StatusFn' = StatusFn
      BY <1>1, <1>2, <2>1 DEF StatusFn
    <2>3. QED
      BY <2>2 DEF File!vars, StatusFn
  <1>5. CASE pc[c] \in InFlight \ {"dirsync"} /\ to \in Failed \cup {"rejected"}
    <2>1. Status(c) = "running" /\ Status(c)' \in {"err", "rejected"}
      BY <1>1, <1>5 DEF Status
    <2>2. File!Fail(c)
      BY <1>1, <1>2, <2>1 DEF File!Fail, StatusFn
    <2>3. QED
      BY <2>2 DEF File!Next
  <1>6. CASE pc[c] \in InFlight \ {"dirsync"} /\ to = "panicked"
    <2>1. Status(c) = "running" /\ Status(c)' = "lost"
      BY <1>1, <1>6 DEF Status
    <2>2. {c} \in SUBSET {d \in Call : StatusFn[d] \in {"running", "replaced"}}
      BY <1>2, <2>1
    <2>3. StatusFn' = [d \in Call |-> IF d \in {c} THEN "lost" ELSE StatusFn[d]]
      BY <1>1, <2>1 DEF StatusFn
    <2>4. File!Lose
      BY <2>2, <2>3 DEF File!Lose, StatusFn
    <2>5. QED
      BY <2>4 DEF File!Next
  <1>7. CASE pc[c] = "dirsync"
    <2>1. Status(c) = "replaced" /\ Status(c)' = "okUnflushed"
      BY <1>1, <1>7 DEF Status
    <2>2. File!Finish(c)
      BY <1>1, <1>2, <2>1 DEF File!Finish, StatusFn
    <2>3. QED
      BY <2>2 DEF File!Next
  <1>8. QED
    BY <1>3, <1>4, <1>5, <1>6, <1>7

\* rename is the one step in which the new payload appears.
LEMMA RefineRename ==
    ASSUME IInv, NEW c \in Call, Rename(c)
    PROVE  File!Next
  <1> USE TempIsName DEF IInv
  <1>1. StatusFn' = [StatusFn EXCEPT ![c] = Status(c)'] /\ pc'[c] = "dirsync"
    BY StatusMoves DEF Rename, Advance
  <1>2. Status(c) = "running" /\ Status(c)' = "replaced"
    BY <1>1 DEF Rename, Status, InFlight, Returned, Failed, Succeeded, Lost
  <1>3. dir'[Target] = c /\ disk'[Target] = disk[Target] \cup {c}
    BY DEF TypeOK, FileInv, OwnsTemp, Rename, Name
  <1>4. File!Replace(c)
    BY <1>1, <1>2, <1>3 DEF File!Replace, StatusFn
  <1>5. QED
    BY <1>4 DEF File!Next

\* The directory fsync is the abstract flush.
LEMMA RefineSync ==
    ASSUME IInv, NEW c \in Call, DirSync(c)
    PROVE  File!Next
  <1>1. StatusFn' = [StatusFn EXCEPT ![c] = Status(c)'] /\ pc'[c] = "ok"
    BY StatusMoves DEF IInv, DirSync, Advance
  <1>2. Status(c) = "replaced" /\ Status(c)' = "ok"
    BY <1>1 DEF DirSync, Status, InFlight, Returned, Failed, Succeeded, Lost
  <1>3. dir'[Target] = dir[Target] /\ disk'[Target] = {dir[Target]}
    BY DEF DirSync, Name
  <1>4. File!Flush(c)
    BY <1>1, <1>2, <1>3 DEF File!Flush, StatusFn
  <1>5. QED
    BY <1>4 DEF File!Next

\* A process's death loses the calls that ran in it.
LEMMA RefineKill ==
    ASSUME TypeOK, NEW p \in Proc, Kill(p)
    PROVE  File!Next
  <1> DEFINE gone == {c \in Call : owner[c] = p /\ pc[c] \in InFlight}
  <1>1. \A c \in gone : Status(c) \in {"running", "replaced"} /\ Status(c)' = "lost"
    BY DEF TypeOK, Kill, Status, InFlight, Returned, Failed, Succeeded, Lost
  <1>2. \A c \in Call \ gone : Status(c)' = Status(c)
    BY DEF TypeOK, Kill, Status
  <1>3. gone \in SUBSET {c \in Call : StatusFn[c] \in {"running", "replaced"}}
    BY <1>1 DEF StatusFn
  <1>4. StatusFn' = [c \in Call |-> IF c \in gone THEN "lost" ELSE StatusFn[c]]
    BY <1>1, <1>2 DEF StatusFn
  <1>5. UNCHANGED <<dir[Target], disk[Target]>>
    BY DEF Kill, dirVars
  <1>6. File!Lose
    BY <1>3, <1>4, <1>5 DEF File!Lose, StatusFn
  <1>7. QED
    BY <1>6 DEF File!Next

\* A power loss is the abstract one.
LEMMA RefineCrash ==
    ASSUME IInv, Crash
    PROVE  File!Next
  <1>1. dir'[Target] \in disk[Target] /\ disk'[Target] = {dir'[Target]}
    BY DEF IInv, FileInv, DirOnDisk, Crash, Unflushed, Name
  <1>2. \A c \in Call : Status(c)' = IF Status(c) \in {"running", "replaced"} THEN "lost"
                                                                              ELSE Status(c)
    <2> TAKE c \in Call
    <2>1. pc[c] \in PC /\ pc'[c] = IF pc[c] \in InFlight THEN "dead" ELSE pc[c]
      BY DEF IInv, TypeOK, Crash
    <2>2. CASE pc[c] \in InFlight
      BY <2>1, <2>2 DEF Status, InFlight, Returned, Failed, Succeeded, Lost
    <2>3. CASE pc[c] \notin InFlight
      BY <2>1, <2>3 DEF Status, PC, InFlight, Returned, Failed, Succeeded, Lost
    <2>4. QED
      BY <2>2, <2>3
  <1>3. StatusFn' = [c \in Call |-> IF StatusFn[c] \in {"running", "replaced"}
                                      THEN "lost" ELSE StatusFn[c]]
    BY <1>2 DEF StatusFn
  <1>4. File!PowerLoss
    BY <1>1, <1>3 DEF File!PowerLoss, StatusFn
  <1>5. QED
    BY <1>4 DEF File!Next

\* A step that leaves locations and target alone is no step of AtomicFile.
LEMMA RefineStutter ==
    ASSUME UNCHANGED <<pc, dir[Target], disk[Target]>>
    PROVE  UNCHANGED File!vars
  BY DEF File!vars, Status

\* Every step refines.
LEMMA NextRefines == IInv /\ [Next]_vars => [File!Next]_(File!vars)
  <1> SUFFICES ASSUME IInv, [Next]_vars PROVE [File!Next]_(File!vars)
    OBVIOUS
  <1> USE DEF dirVars
  <1>1. TypeOK
    BY DEF IInv
  <1>2. ASSUME NEW p \in Proc, Start(p) PROVE [File!Next]_(File!vars)
    BY <1>2, RefineStutter DEF Start
  <1>3. ASSUME NEW p \in Proc, Kill(p) PROVE [File!Next]_(File!vars)
    BY <1>1, <1>3, RefineKill
  <1>4. CASE Tick
    BY <1>4, RefineStutter DEF Tick
  <1>5. CASE Crash
    BY <1>5, RefineCrash
  <1>6. ASSUME NEW c \in Call, Begin(c) PROVE [File!Next]_(File!vars)
    <2>1. PICK to \in {"count", "rejected"} : pc' = [pc EXCEPT ![c] = to]
      BY <1>6 DEF Begin
    <2>2. QED
      BY <1>1, <1>6, <2>1, RefineQuiet DEF Begin
  <1>7. ASSUME NEW c \in Call, Step(c) PROVE [File!Next]_(File!vars)
    <2>1. CASE Rename(c)
      BY <2>1, RefineRename
    <2>2. CASE DirSync(c)
      BY <2>2, RefineSync
    <2>3. CASE Create(c) \/ Cleanup(c)
      <3>1. UNCHANGED <<dir[Target], disk[Target]>>
        BY <1>1, <2>3, TempIsName DEF TypeOK, Create, Cleanup, Link, Name
      <3>2. PICK to \in {"write", "err"} : pc' = [pc EXCEPT ![c] = to]
        BY <2>3 DEF Create, Cleanup, Advance
      <3>3. pc[c] \in InFlight \ {"dirsync"}
        BY <2>3 DEF Create, Cleanup, InFlight
      <3>4. QED
        BY <1>1, <3>1, <3>2, <3>3, RefineQuiet DEF InFlight, Failed
    <2>4. CASE TakeCounter(c)
      <3>1. PICK to \in {"create", "rejected"} : pc' = [pc EXCEPT ![c] = to]
        BY <2>4 DEF TakeCounter
      <3>2. QED
        BY <1>1, <2>4, <3>1, RefineQuiet DEF TakeCounter, InFlight
    <2>5. CASE CreateFails(c) \/ WriteFails(c) \/ Panic(c) \/ SyncFails(c)
               \/ RenameFails(c) \/ CleanupFails(c) \/ Write(c) \/ Sync(c)
      <3>1. PICK to \in {"cleanup", "panicked", "errUncleaned", "sync", "write", "rename"} :
                pc' = [pc EXCEPT ![c] = to]
        BY <2>5 DEF CreateFails, WriteFails, Panic, SyncFails, RenameFails, CleanupFails,
                    Write, Sync, Advance
      <3>2. pc[c] \in InFlight \ {"dirsync"} /\ UNCHANGED <<dir[Target], disk[Target]>>
        BY <2>5 DEF CreateFails, WriteFails, Panic, SyncFails, RenameFails, CleanupFails,
                    Write, Sync, InFlight
      <3>3. QED
        BY <1>1, <3>1, <3>2, RefineQuiet DEF InFlight, Failed
    <2>6. CASE DirSyncSkipped(c)
      BY <1>1, <2>6, RefineQuiet DEF DirSyncSkipped, Advance
    <2>7. QED
      BY <1>7, <2>1, <2>2, <2>3, <2>4, <2>5, <2>6 DEF Step
  <1>8. CASE UNCHANGED vars
    BY <1>8, RefineStutter DEF vars
  <1>9. QED
    BY <1>2, <1>3, <1>4, <1>5, <1>6, <1>7, <1>8 DEF Next

\* atomic_write implements the replaceable file of AtomicFile.
THEOREM ImplementsFile == Spec => Refines
  <1>1. Init => File!Init
    <2> SUFFICES ASSUME Init PROVE File!Init
      OBVIOUS
    <2>1. \A c \in Call : Status(c) = "idle"
      BY DEF Init, Status, InFlight, Returned, Failed, Succeeded, Lost
    <2>2. QED
      BY <2>1 DEF Init, File!Init, Name
  <1>2. IInv /\ [Next]_vars => [File!Next]_(File!vars)
    BY NextRefines
  <1>3. QED
    BY <1>1, <1>2, Inductive, PTL DEF Spec, Refines, File!Spec

------------------------------------------------------------------------------
(***************************************************************************)
(* What one step does to a call and to a temp name.                        *)
(***************************************************************************)

\* The locations of a call that has created no file.
Fileless == {"idle", "count", "create", "rejected"}

\* A call's numbers are taken by its first two statements only; after its
\* create they stand.
LEMMA CallMoves ==
    ASSUME TypeOK, [Next]_vars, NEW c \in Call
    PROVE  /\ UNCHANGED <<owner, pid>>
           /\ pc[c] \notin Fileless => pc'[c] \notin Fileless
           /\ \/ Begin(c) /\ seq' = seq
              \/ TakeCounter(c) /\ nanos' = nanos
              \/ /\ UNCHANGED <<nanos[c], seq[c]>>
                 /\ pc'[c] \in InFlight => pc[c] \in InFlight
                 /\ pc'[c] \in Named => pc[c] \in Named
                 /\ pc[c] \notin Fileless \/ pc'[c] = pc[c] \/ pc'[c] = "dead"
                        \/ Create(c) \/ CreateFails(c)
  <1> DEFINE Goal == /\ UNCHANGED <<owner, pid>>
                     /\ pc[c] \notin Fileless => pc'[c] \notin Fileless
                     /\ \/ Begin(c) /\ seq' = seq
                        \/ TakeCounter(c) /\ nanos' = nanos
                        \/ /\ UNCHANGED <<nanos[c], seq[c]>>
                           /\ pc'[c] \in InFlight => pc[c] \in InFlight
                           /\ pc'[c] \in Named => pc[c] \in Named
                           /\ pc[c] \notin Fileless \/ pc'[c] = pc[c] \/ pc'[c] = "dead"
                                  \/ Create(c) \/ CreateFails(c)
  <1> USE DEF Fileless, Named, InFlight, callVars, procVars
  <1>1. ASSUME NEW p \in Proc, Start(p) \/ Kill(p) PROVE Goal
    BY <1>1 DEF TypeOK, Start, Kill
  <1>2. CASE Tick \/ Crash
    BY <1>2 DEF TypeOK, Tick, Crash
  <1>3. ASSUME NEW d \in Call, Begin(d) PROVE Goal
    BY <1>3 DEF TypeOK, Begin
  <1>4. ASSUME NEW d \in Call, TakeCounter(d) PROVE Goal
    BY <1>4 DEF TypeOK, TakeCounter
  <1>5. ASSUME NEW d \in Call, Step(d), ~TakeCounter(d) PROVE Goal
    <2>1. UNCHANGED <<owner, pid, nanos, seq>> /\ \A e \in Call \ {d} : pc'[e] = pc[e]
      BY <1>5
      DEF TypeOK, Step, Create, CreateFails, Write, WriteFails, Panic, Sync, SyncFails,
          Rename, RenameFails, DirSync, DirSyncSkipped, Cleanup, CleanupFails, Advance
    <2>2. CASE Create(d) \/ CreateFails(d)
      BY <2>1, <2>2 DEF TypeOK, Create, CreateFails, Advance
    <2>3. CASE ~Create(d) /\ ~CreateFails(d)
      <3>1. pc[d] \in Named \ {"create"} /\ pc'[d] \notin Fileless
        BY <1>5, <2>3
        DEF TypeOK, Step, Write, WriteFails, Panic, Sync, SyncFails, Rename, RenameFails,
            DirSync, DirSyncSkipped, Cleanup, CleanupFails, Advance
      <3>2. QED
        BY <2>1, <3>1
    <2>4. QED
      BY <2>2, <2>3
  <1>6. CASE UNCHANGED vars
    BY <1>6 DEF vars
  <1>7. QED
    BY <1>1, <1>2, <1>3, <1>4, <1>5, <1>6 DEF Next

\* An inode appears at a temp name, in memory or on the disk, only where its
\* own call creates it; a power loss shows what was on the disk.
LEMMA TempMoves ==
    ASSUME IInv, [Next]_vars, NEW n \in TempName, NEW i \in Call
    PROVE  /\ i \in disk'[n] => i \in disk[n] \/ (Create(i) /\ n = Temp(i))
           /\ dir'[n] = i /\ crashes' = crashes => dir[n] = i \/ (Create(i) /\ n = Temp(i))
  <1> DEFINE Goal ==
        /\ i \in disk'[n] => i \in disk[n] \/ (Create(i) /\ n = Temp(i))
        /\ dir'[n] = i /\ crashes' = crashes => dir[n] = i \/ (Create(i) /\ n = Temp(i))
  <1>1. n \in Name /\ n # Target /\ i # None
    <2>1. TempName \subseteq Pid \X Nat \X Nat
      BY BoundsAreNat DEF TempName, Nanos, Counter
    <2>2. QED
      BY <2>1, NamesDiffer DEF Name
  <1>2. dir \in [Name -> Entry] /\ disk \in [Name -> SUBSET Entry] /\ dir[n] \in disk[n]
    BY <1>1 DEF IInv, TypeOK, FileInv, DirOnDisk
  <1>3. ASSUME NEW c \in Call, Create(c) PROVE Goal
    <2>1. /\ dir' = [dir EXCEPT ![Temp(c)] = c]
          /\ disk' = [disk EXCEPT ![Temp(c)] = @ \cup {c}]
      BY <1>3 DEF Create, Link
    <2>2. CASE i = c /\ n = Temp(c)
      BY <1>3, <2>2
    <2>3. CASE ~(i = c /\ n = Temp(c))
      BY <1>1, <1>2, <2>1, <2>3
    <2>4. QED
      BY <2>2, <2>3
  <1>4. ASSUME NEW c \in Call, Cleanup(c) PROVE Goal
    <2>1. /\ dir' = [dir EXCEPT ![Temp(c)] = None]
          /\ disk' = [disk EXCEPT ![Temp(c)] = @ \cup {None}]
      BY <1>4 DEF Cleanup, Link
    <2>2. QED
      BY <1>1, <1>2, <2>1
  <1>5. ASSUME NEW c \in Call, Rename(c) PROVE Goal
    <2>1. /\ dir' = [dir EXCEPT ![Target] = dir[Temp(c)], ![Temp(c)] = None]
          /\ disk' = [disk EXCEPT ![Target] = @ \cup {dir[Temp(c)]},
                                  ![Temp(c)] = @ \cup {None}]
      BY <1>5 DEF Rename
    <2>2. Temp(c) # Target
      BY TempIsName DEF IInv
    <2>3. QED
      BY <1>1, <1>2, <2>1, <2>2
  <1>6. ASSUME NEW c \in Call, DirSync(c) PROVE Goal
    BY <1>1, <1>2, <1>6 DEF DirSync
  <1>7. CASE Crash
    <2>1. dir'[n] \in disk[n] /\ disk'[n] = {dir'[n]} /\ crashes' # crashes
      BY <1>1, <1>2, <1>7 DEF IInv, TypeOK, Crash, Unflushed
    <2>2. QED
      BY <2>1
  <1>8. CASE UNCHANGED <<dir, disk>>
    BY <1>8
  <1>9. QED
    BY <1>3, <1>4, <1>5, <1>6, <1>7, <1>8
    DEF Next, Start, Kill, Tick, Begin, Step, TakeCounter, CreateFails, Write, WriteFails,
        Panic, Sync, SyncFails, RenameFails, DirSyncSkipped, CleanupFails, dirVars, vars

------------------------------------------------------------------------------
(***************************************************************************)
(* Temp files that are left behind.                                        *)
(***************************************************************************)

\* The file of call i is at a temp name, or a power loss may put it there.
Left(i) == \E n \in TempName : i \in disk[n]

\* What is left at a temp name bears the name of the call that created it,
\* and that call's number is given to no other call of its process.
LeftInv ==
    /\ \A n \in TempName, i \in Call : i \in disk[n] => n = Temp(i) /\ pc[i] \notin Fileless
    /\ \A i \in Call : Left(i) => seq[i] < counter[owner[i]]
    /\ \A i, c \in Call :
          Left(i) /\ c # i /\ owner[c] = owner[i] /\ pc[c] \in Named => seq[c] # seq[i]

\* Every step keeps the names of what is left.
LEMMA NextLeft == IInv /\ LeftInv /\ [Next]_vars => LeftInv'
  <1> SUFFICES ASSUME IInv, LeftInv, [Next]_vars PROVE LeftInv'
    OBVIOUS
  <1> USE DEF LeftInv
  <1>1. ASSUME NEW n \in TempName, NEW i \in Call, i \in disk'[n]
        PROVE  n = Temp(i)' /\ pc'[i] \notin Fileless
    <2>1. CASE i \in disk[n]
      <3>1. n = Temp(i) /\ pc[i] \notin Fileless
        BY <2>1
      <3>2. UNCHANGED <<owner, pid, nanos[i], seq[i]>> /\ pc'[i] \notin Fileless
        BY <3>1, CallMoves DEF IInv, Begin, TakeCounter, Fileless
      <3>3. QED
        BY <3>1, <3>2 DEF Temp
    <2>2. CASE Create(i) /\ n = Temp(i)
      BY <2>2 DEF IInv, TypeOK, Create, Advance, Fileless, Temp, procVars, callVars
    <2>3. QED
      BY <1>1, <2>1, <2>2, TempMoves
  <1>2. \A i \in Call : Left(i)' => Left(i) \/ Create(i)
    BY TempMoves DEF Left
  <1>3. \A i \in Call : Left(i) => pc[i] \notin Fileless
    BY DEF Left
  <1>4. \A i \in Call : Left(i)' => UNCHANGED <<owner, pid, nanos[i], seq[i]>>
    BY <1>2, <1>3, CallMoves
    DEF IInv, Begin, TakeCounter, Create, Advance, Fileless, procVars, callVars
  <1>5. \A p \in Proc : counter[p] \in Nat /\ counter'[p] \in Nat /\ counter[p] <= counter'[p]
    <2>1. counter \in [Proc -> Nat] /\ owner \in [Call -> Proc]
      BY BoundsAreNat DEF IInv, TypeOK, Counter
    <2>2. counter' = counter \/ \E c \in Call : counter' = [counter EXCEPT ![owner[c]] = @ + 1]
      BY DEF Next, Start, Kill, Tick, Crash, Begin, Step, TakeCounter, Create, CreateFails,
             Write, WriteFails, Panic, Sync, SyncFails, Rename, RenameFails, DirSync,
             DirSyncSkipped, Cleanup, CleanupFails, Advance, procVars, vars
    <2>3. QED
      BY <2>1, <2>2
  <1>6. \A c \in Call : seq[c] \in Nat /\ owner[c] \in Proc
    BY BoundsAreNat DEF IInv, TypeOK, Counter
  <1>7. \A i \in Call : Create(i) => seq[i] < counter[owner[i]]
    BY DEF IInv, NamesInv, SeqsDiffer, Create, Named, InFlight
  <1>8. \A i \in Call : Left(i)' => seq'[i] < counter'[owner'[i]]
    BY <1>2, <1>4, <1>5, <1>6, <1>7
  <1>9. ASSUME NEW i \in Call, NEW c \in Call, Left(i)', c # i, owner'[c] = owner'[i],
               pc'[c] \in Named
        PROVE  seq'[c] # seq'[i]
    <2>1. seq'[i] = seq[i] /\ owner' = owner
      BY <1>4, <1>9
    <2>2. CASE TakeCounter(c)
      <3>1. Left(i)
        BY <1>2, <1>9, <2>2 DEF IInv, TypeOK, TakeCounter, Create, Advance, procVars
      <3>2. seq'[c] = counter[owner[c]]
        BY <2>2 DEF IInv, TypeOK, TakeCounter
      <3>3. QED
        BY <1>5, <1>6, <1>9, <2>1, <3>1, <3>2
    <2>3. CASE pc[c] \in Named /\ seq'[c] = seq[c]
      <3>1. CASE Left(i)
        BY <1>9, <2>1, <2>3, <3>1
      <3>2. CASE Create(i)
        BY <1>9, <2>1, <2>3, <3>2 DEF IInv, NamesInv, SeqsDiffer, Create, Named, InFlight
      <3>3. QED
        BY <1>2, <1>9, <3>1, <3>2
    <2>4. CASE Begin(c)
      BY <1>9, <2>4 DEF IInv, TypeOK, Begin, Named, InFlight
    <2>5. QED
      BY <1>9, <2>2, <2>3, <2>4, CallMoves DEF IInv
  <1>10. QED
    BY <1>1, <1>8, <1>9

\* The names of what is left stand in every state.
LEMMA LeftAlways == Spec => []LeftInv
  <1>1. Init => LeftInv
    <2>1. Init => \A n \in TempName : disk[n] = {None}
      BY DEF Init, Name
    <2>2. QED
      BY <2>1, NamesDiffer DEF LeftInv, Left
  <1>2. QED
    BY <1>1, NextLeft, Inductive, PTL DEF Spec

------------------------------------------------------------------------------
(***************************************************************************)
(* No call fails for another's sake.                                       *)
(***************************************************************************)

\* A file that is left was named before any later process of its pid numbered
\* a call: starting that process took time.
TimeInv ==
    /\ \A c \in Call : nanos[c] <= clock
    /\ \A i \in Call, q \in Proc :
          Left(i) /\ q # owner[i] /\ pid[q] = pid[owner[i]] /\ proc[q] = "live" =>
              nanos[i] < clock
    /\ \A i, c \in Call :
          /\ Left(i) /\ owner[c] # owner[i] /\ pid[owner[c]] = pid[owner[i]]
          /\ pc[c] \in InFlight
          => nanos[i] < nanos[c]

\* The clock and the processes.
LEMMA HostMoves ==
    ASSUME TypeOK, [Next]_vars
    PROVE  /\ clock \in Nat /\ clock' \in Nat /\ clock <= clock'
           /\ \A q \in Proc : proc'[q] = "live" =>
                 proc[q] = "live" \/ (Start(q) /\ clock' = clock + 1)
  <1>1. clock \in Nat
    BY BoundsAreNat DEF TypeOK, Nanos
  <1>2. \/ \E p \in Proc : Start(p)
        \/ clock' = clock + 1 /\ proc' = proc
        \/ clock' = clock /\ \A q \in Proc : proc'[q] = "live" => proc[q] = "live"
    BY DEF TypeOK, Next, Kill, Tick, Crash, Begin, Step, TakeCounter, Create, CreateFails,
           Write, WriteFails, Panic, Sync, SyncFails, Rename, RenameFails, DirSync,
           DirSyncSkipped, Cleanup, CleanupFails, Advance, procVars, vars
  <1>3. ASSUME NEW p \in Proc, Start(p)
        PROVE  /\ clock' = clock + 1
               /\ \A q \in Proc : proc'[q] = "live" => proc[q] = "live" \/ q = p
    BY <1>3 DEF TypeOK, Start
  <1>4. QED
    BY <1>1, <1>2, <1>3

\* Every step keeps the order in time, as long as the clock does.
LEMMA NextTime ==
    "clock" \notin Faults /\ IInv /\ LeftInv /\ TimeInv /\ [Next]_vars => TimeInv'
  <1> SUFFICES ASSUME "clock" \notin Faults, IInv, LeftInv, TimeInv, [Next]_vars
               PROVE  TimeInv'
    OBVIOUS
  <1> USE DEF TimeInv
  <1>1. /\ clock \in Nat /\ clock' \in Nat /\ clock <= clock'
        /\ \A q \in Proc : proc'[q] = "live" =>
              proc[q] = "live" \/ (Start(q) /\ clock' = clock + 1)
    BY HostMoves DEF IInv
  <1>2. \A c \in Call : nanos[c] \in Nat /\ owner[c] \in Proc
    BY BoundsAreNat DEF IInv, TypeOK, Nanos
  <1>3. \A i \in Call : Left(i)' =>
            (Left(i) \/ Create(i)) /\ UNCHANGED <<owner, pid, nanos[i]>>
    <2>1. \A i \in Call : Left(i)' => Left(i) \/ Create(i)
      BY TempMoves DEF Left
    <2>2. \A i \in Call : Left(i) => pc[i] \notin Fileless
      BY DEF LeftInv, Left
    <2>3. QED
      BY <2>1, <2>2, CallMoves
      DEF IInv, Begin, TakeCounter, Create, Advance, Fileless, procVars, callVars
  <1>4. \A c \in Call : Begin(c) =>
            /\ nanos'[c] = nanos[c] \/ nanos'[c] = clock
            /\ pc'[c] \in InFlight => nanos'[c] = clock /\ proc[owner[c]] = "live"
            /\ owner' = owner /\ pid' = pid /\ clock' = clock
            /\ UNCHANGED <<dir, disk>>
    BY DEF IInv, TypeOK, Begin, InFlight, procVars, dirVars
  <1>5. \A c \in Call : nanos'[c] <= clock'
    BY <1>1, <1>2, <1>4, CallMoves DEF IInv
  <1>6. \A i \in Call : Create(i) => proc[owner[i]] = "live" /\ pc[i] \in InFlight
    BY DEF IInv, NamesInv, OwnersLive, Create, InFlight
  <1>7. ASSUME NEW i \in Call, NEW q \in Proc, Left(i)', q # owner'[i],
               pid'[q] = pid'[owner'[i]], proc'[q] = "live"
        PROVE  nanos'[i] < clock'
    <2>1. CASE proc[q] = "live"
      <3>1. Left(i)
        BY <1>3, <1>6, <1>7, <1>2, <2>1 DEF IInv, NamesInv, PidsDiffer
      <3>2. QED
        BY <1>1, <1>2, <1>3, <1>7, <2>1, <3>1
    <2>2. CASE Start(q) /\ clock' = clock + 1
      BY <1>1, <1>2, <1>3, <1>7, <2>2
    <2>3. QED
      BY <1>1, <1>7, <2>1, <2>2
  <1>8. ASSUME NEW i \in Call, NEW c \in Call, Left(i)', owner'[c] # owner'[i],
               pid'[owner'[c]] = pid'[owner'[i]], pc'[c] \in InFlight
        PROVE  nanos'[i] < nanos'[c]
    <2>1. UNCHANGED <<owner, pid, nanos[i]>>
      BY <1>3, <1>8
    <2>2. CASE Begin(c)
      <3>1. nanos'[c] = clock /\ proc[owner[c]] = "live" /\ Left(i)
        BY <1>4, <1>8, <2>2 DEF Left
      <3>2. QED
        BY <1>2, <1>8, <2>1, <3>1
    <2>3. CASE pc[c] \in InFlight /\ nanos'[c] = nanos[c]
      <3>1. proc[owner[c]] = "live"
        BY <2>3 DEF IInv, NamesInv, OwnersLive
      <3>2. Left(i)
        BY <1>2, <1>3, <1>6, <1>8, <2>1, <3>1 DEF IInv, NamesInv, PidsDiffer
      <3>3. QED
        BY <1>8, <2>1, <2>3, <3>2
    <2>4. TakeCounter(c) => pc[c] \in InFlight
      BY DEF TakeCounter, InFlight
    <2>5. QED
      BY <1>8, <2>2, <2>3, <2>4, CallMoves DEF IInv
  <1>9. QED
    BY <1>5, <1>7, <1>8

\* A call that is about to create its temp file finds the name free.
LEMMA NameIsFree ==
    ASSUME IInv, LeftInv, TimeInv, NEW c \in Call, pc[c] = "create"
    PROVE  dir[Temp(c)] = None
  <1> SUFFICES ASSUME dir[Temp(c)] # None PROVE FALSE
    OBVIOUS
  <1>1. PICK i \in Call : dir[Temp(c)] = i
    BY TempIsName DEF IInv, TypeOK, Entry
  <1>2. Temp(c) \in TempName /\ i \in disk[Temp(c)]
    BY <1>1, TempIsName DEF IInv, FileInv, DirOnDisk
  <1>3. Temp(c) = Temp(i) /\ pc[i] \notin Fileless /\ Left(i)
    BY <1>2 DEF LeftInv, Left
  <1>4. pid[owner[c]] = pid[owner[i]] /\ nanos[c] = nanos[i] /\ seq[c] = seq[i]
    BY <1>3 DEF Temp
  <1>5. i # c /\ pc[c] \in Named /\ pc[c] \in InFlight
    BY <1>3 DEF Fileless, Named, InFlight
  <1>6. owner[c] # owner[i]
    BY <1>3, <1>4, <1>5 DEF LeftInv
  <1>7. nanos[i] < nanos[c] /\ nanos[i] \in Nat
    BY <1>3, <1>4, <1>5, <1>6, BoundsAreNat DEF TimeInv, IInv, TypeOK, Nanos
  <1>8. QED
    BY <1>4, <1>7

\* With nothing failing, no call is on its way to an error, in whatever order
\* threads and processes run and whatever those that panicked, were killed or
\* lost power left behind.
THEOREM NeverFailsAlone == Spec => []NoSpuriousFailure
  <1>1. CASE ~(Faults \subseteq {"kill", "panic"})
    <2>1. NoSpuriousFailure
      BY <1>1 DEF NoSpuriousFailure
    <2>2. QED
      BY <2>1, PTL
  <1>2. CASE Faults \subseteq {"kill", "panic"}
    <2>1. Init => TimeInv
      <3>1. Init => \A n \in TempName : disk[n] = {None}
        BY DEF Init, Name
      <3>2. Init => \A i \in Call : ~Left(i)
        BY <3>1, NamesDiffer DEF Left
      <3>3. Init => clock = 0 /\ nanos = [c \in Call |-> 0]
        BY DEF Init
      <3>4. QED
        BY <3>2, <3>3 DEF TimeInv
    <2>2. "clock" \notin Faults
      BY <1>2
    <2>3. Init => NoSpuriousFailure
      BY DEF Init, NoSpuriousFailure, Failed
    <2>4. IInv /\ LeftInv /\ TimeInv /\ NoSpuriousFailure /\ [Next]_vars => NoSpuriousFailure'
      <3> SUFFICES ASSUME IInv, LeftInv, TimeInv, [Next]_vars, NEW c \in Call,
                          pc[c] \notin {"cleanup"} \cup Failed
                   PROVE  pc'[c] \notin {"cleanup"} \cup Failed
        BY <1>2 DEF NoSpuriousFailure
      <3>1. ~CreateFails(c)
        BY <1>2, NameIsFree DEF CreateFails
      <3>2. ~RenameFails(c)
        BY <1>2, NamesDiffer DEF RenameFails, IInv, FileInv, OwnsTemp
      <3>3. ~WriteFails(c) /\ ~SyncFails(c) /\ ~Cleanup(c) /\ ~CleanupFails(c)
        BY <1>2 DEF WriteFails, SyncFails, Cleanup, CleanupFails
      <3>4. ASSUME NEW d \in Call, Step(d) PROVE pc'[c] \notin {"cleanup"} \cup Failed
        BY <3>1, <3>2, <3>3, <3>4
        DEF IInv, TypeOK, Step, TakeCounter, Create, CreateFails, Write, WriteFails, Panic,
            Sync, SyncFails, Rename, RenameFails, DirSync, DirSyncSkipped, Cleanup,
            CleanupFails, Advance, Failed
      <3>5. QED
        BY <3>4 DEF IInv, TypeOK, Failed, Next, Start, Kill, Tick, Crash, Begin, vars
    <2>5. QED
      BY <2>1, <2>2, <2>3, <2>4, NextTime, LeftAlways, Inductive, PTL DEF Spec
  <1>3. QED
    BY <1>1, <1>2

------------------------------------------------------------------------------
(***************************************************************************)
(* No call that returns leaves its temp file.                              *)
(***************************************************************************)

\* Between its rename and its return a call's file is no longer at its temp
\* name; a directory fsync takes it from the disk, too.
GoneInv ==
    \A c \in Call :
        /\ pc[c] = "dirsync" => dir[Temp(c)] # c
        /\ pc[c] = "ok" => c \notin disk[Temp(c)]
        /\ pc[c] \in {"okUnflushed", "err"} /\ crashes = 0 => dir[Temp(c)] # c

\* The last statements of a call leave its file at no temp name.
LEMMA StepGone ==
    ASSUME IInv, LeftInv, GoneInv, NEW c \in Call, Step(c)
    PROVE  /\ pc'[c] = "dirsync" => dir'[Temp(c)] # c
           /\ pc'[c] = "ok" => c \notin disk'[Temp(c)]
           /\ pc'[c] \in {"okUnflushed", "err"} /\ crashes = 0 => dir'[Temp(c)] # c
  <1>1. /\ Temp(c) \in Name /\ Temp(c) # Target /\ c # None
        /\ pc \in [Call -> PC] /\ dir \in [Name -> Entry] /\ disk \in [Name -> SUBSET Entry]
    BY TempIsName, NamesDiffer DEF IInv, TypeOK
  <1>2. CASE Rename(c)
    BY <1>1, <1>2 DEF Rename, Advance
  <1>3. CASE DirSync(c) \/ DirSyncSkipped(c)
    BY <1>1, <1>3 DEF DirSync, DirSyncSkipped, Advance, GoneInv, dirVars
  <1>4. CASE Cleanup(c)
    BY <1>1, <1>4 DEF Cleanup, Link, Advance
  <1>5. CASE ~(Rename(c) \/ DirSync(c) \/ DirSyncSkipped(c) \/ Cleanup(c))
    <2>1. pc'[c] \notin {"dirsync", "ok", "okUnflushed", "err"}
      BY <1>1, <1>5
      DEF Step, TakeCounter, Create, CreateFails, Write, WriteFails, Panic, Sync, SyncFails,
          RenameFails, CleanupFails, Advance
    <2>2. QED
      BY <2>1
  <1>6. QED
    BY <1>2, <1>3, <1>4, <1>5

\* Every step keeps gone what is gone.
LEMMA NextGone ==
    IInv /\ LeftInv /\ GoneInv /\ [Next]_vars => GoneInv'
  <1> SUFFICES ASSUME IInv, LeftInv, GoneInv, [Next]_vars,
                      NEW c \in Call,
                      pc'[c] \in {"dirsync", "ok", "okUnflushed", "err"}
               PROVE  /\ pc'[c] = "dirsync" => dir'[Temp(c)'] # c
                      /\ pc'[c] = "ok" => c \notin disk'[Temp(c)']
                      /\ pc'[c] \in {"okUnflushed", "err"} /\ crashes' = 0 =>
                            dir'[Temp(c)'] # c
    BY DEF GoneInv, Temp
  <1>1. Temp(c) \in TempName /\ pc \in [Call -> PC] /\ crashes \in Nat
    BY TempIsName, BoundsAreNat DEF IInv, TypeOK
  <1>2. Temp(c)' = Temp(c)
    <2>1. ~Begin(c)
      BY <1>1 DEF Begin
    <2>2. ~TakeCounter(c)
      BY <1>1 DEF TakeCounter
    <2>3. QED
      BY <2>1, <2>2, CallMoves DEF IInv, Temp
  <1>3. CASE Step(c)
    <2>1. crashes' = crashes
      BY <1>3
      DEF Step, TakeCounter, Create, CreateFails, Write, WriteFails, Panic, Sync, SyncFails,
          Rename, RenameFails, DirSync, DirSyncSkipped, Cleanup, CleanupFails, Advance
    <2>2. QED
      BY <1>2, <1>3, <2>1, StepGone
  <1>4. CASE ~Step(c)
    <2>1. /\ pc'[c] = pc[c]
          /\ crashes' = crashes \/ (crashes' = crashes + 1 /\ pc[c] # "dirsync")
      BY <1>1, <1>4
      DEF Next, Start, Kill, Tick, Crash, Begin, Step, TakeCounter, Create, CreateFails,
          Write, WriteFails, Panic, Sync, SyncFails, Rename, RenameFails, DirSync,
          DirSyncSkipped, Cleanup, CleanupFails, Advance, InFlight, vars
    <2>2. ~Create(c)
      BY <1>4 DEF Step
    <2>3. QED
      BY <1>1, <1>2, <2>1, <2>2, TempMoves DEF GoneInv
  <1>5. QED
    BY <1>3, <1>4

\* A call that has returned leaves no temp file behind unless its own removal
\* failed; one that returned Ok, not even after a power loss.
THEOREM TempsAlwaysGo == Spec => []NoTempLeft
  <1>1. Init => GoneInv
    BY DEF Init, GoneInv
  <1>2. IInv /\ LeftInv /\ GoneInv => NoTempLeft
    <2> SUFFICES ASSUME IInv, LeftInv, GoneInv, NEW c \in Call, NEW n \in TempName,
                        dir[n] = c,
                        pc[c] = "ok" \/ (pc[c] \in Returned \ {"errUncleaned"} /\ crashes = 0)
                 PROVE  FALSE
      BY DEF NoTempLeft
    <2>1. c \in disk[n]
      BY DEF IInv, FileInv, DirOnDisk, Name
    <2>2. n = Temp(c) /\ pc[c] # "rejected"
      BY <2>1 DEF LeftInv, Fileless
    <2>3. QED
      BY <2>1, <2>2 DEF GoneInv, Returned, Failed, Succeeded
  <1>3. QED
    BY <1>1, <1>2, NextGone, LeftAlways, Inductive, PTL DEF Spec
==============================================================================
