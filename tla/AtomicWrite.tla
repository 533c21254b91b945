----------------------------- MODULE AtomicWrite -----------------------------
(***************************************************************************)
(* atomic_write of atomic.rs: any number of calls, made by threads of any  *)
(* number of processes of one host, replace one target file of a directory *)
(* which survives process death and power loss.  A call creates at most    *)
(* one file (inode), so the call's identity also names that inode and the  *)
(* payload the call's closure writes into it.                              *)
(***************************************************************************)
EXTENDS Naturals, FiniteSets

CONSTANTS
    Call,          \* calls of atomic_write, each with its own payload
    Proc,          \* process incarnations
    Pid,           \* process ids the host hands out and reuses
    Chunks,        \* number of writes that make up a payload
    MaxNanos,      \* bound: the last reading of the host's clock
    MaxCounter,    \* bound: calls numbered by one process
    MaxCrashes,    \* bound: power losses
    Paths,         \* the kinds of target path callers pass
    Faults,        \* the operations that may fail, see FaultKinds
    Target,        \* the directory entry the calls replace
    None           \* no inode

FaultKinds == {"create", "write", "panic", "sync", "rename", "dirsync",
               "remove", "clock", "kill"}

\* "file": a path with a directory part.  "bare": a file name alone, whose
\* parent() is the empty path.  "root": a path without parent().
\* "dotdot": a path without file_name().
PathKinds == {"file", "bare", "root", "dotdot"}

ASSUME NamesDiffer == /\ None \notin Call
                      /\ Target \notin Pid \X Nat \X Nat
ASSUME ChunksPositive == Chunks \in Nat \ {0}
ASSUME BoundsAreNat == /\ MaxNanos \in Nat
                       /\ MaxCounter \in Nat
                       /\ MaxCrashes \in Nat
ASSUME FaultsKnown == Faults \subseteq FaultKinds
ASSUME PathsKnown == Paths \subseteq PathKinds

Nanos == 0 .. MaxNanos
Counter == 0 .. MaxCounter
TempName == Pid \X Nanos \X Counter
Name == TempName \cup {Target}
Entry == Call \cup {None}

VARIABLES
    \* processes
    proc,      \* proc[p]: "new", "live" or "dead"
    pid,       \* pid[p]: the process id of p
    counter,   \* counter[p]: TMP_COUNTER of p
    clock,     \* the host's clock
    \* calls
    pc,        \* pc[c]: the statement c is about to execute, or its outcome
    owner,     \* owner[c]: the process c runs in
    path,      \* path[c]: the kind of target path c was given
    nanos,     \* nanos[c]: the clock reading in c's temp name
    seq,       \* seq[c]: the counter value in c's temp name
    \* the file system
    dir,       \* dir[n]: the inode linked at name n
    disk,      \* disk[n]: the inodes a power loss may leave at name n
    len,       \* len[i]: chunks of its payload written to inode i
    durable,   \* durable[i]: how many of them a power loss cannot take
    crashes,   \* power losses so far
    \* history
    stamp,     \* stamp[i]: when inode i was renamed onto the target, or 0
    renames    \* renames onto the target so far

procVars == <<proc, pid, counter, clock>>
callVars == <<owner, path, nanos, seq>>
dirVars  == <<dir, disk>>
dataVars == <<len, durable>>
histVars == <<stamp, renames>>
vars == <<procVars, pc, callVars, dirVars, dataVars, crashes, histVars>>

InFlight  == {"count", "create", "write", "sync", "rename", "dirsync", "cleanup"}
Succeeded == {"ok", "okUnflushed"}   \* Ok(()); "ok": the directory was fsynced
Failed    == {"err", "errUncleaned"} \* Err(e), which hides that remove_file failed
Returned  == Succeeded \cup Failed \cup {"rejected"}
Lost      == {"panicked", "dead"}
PC == {"idle"} \cup InFlight \cup Returned \cup Lost

\* Mutants of Temp: one component of the name forgotten.
Temp_NoCounter(c) == <<pid[owner[c]], nanos[c], 0>>
Temp_NoPid(c) == <<CHOOSE i \in Pid : TRUE, nanos[c], seq[c]>>
Temp_NoNanos(c) == <<pid[owner[c]], 0, seq[c]>>

\* <target>.tmp.<pid>.<nanos>.<counter>
Temp(c) == <<pid[owner[c]], nanos[c], seq[c]>>

\* File::open(dir) succeeds: the parent of a bare file name is the empty
\* path, which no system call accepts.
DirOpens(c) == path[c] = "file"

Init ==
    /\ proc = [p \in Proc |-> "new"]
    /\ pid \in [Proc -> Pid]
    /\ counter = [p \in Proc |-> 0]
    /\ clock = 0
    /\ pc = [c \in Call |-> "idle"]
    /\ owner \in [Call -> Proc]
    /\ path \in [Call -> Paths]
    /\ nanos = [c \in Call |-> 0]
    /\ seq = [c \in Call |-> 0]
    /\ dir = [n \in Name |-> None]
    /\ disk = [n \in Name |-> {None}]
    /\ len = [c \in Call |-> 0]
    /\ durable = [c \in Call |-> 0]
    /\ crashes = 0
    /\ stamp = [c \in Call |-> 0]
    /\ renames = 0

------------------------------------------------------------------------------
(***************************************************************************)
(* The host: processes, the clock and power.                               *)
(***************************************************************************)

\* A process starts with TMP_COUNTER = 0 and a pid no live process holds;
\* starting it takes at least one nanosecond.
Start(p) ==
    /\ proc[p] = "new"
    /\ \A q \in Proc : proc[q] = "live" => pid[q] # pid[p]
    /\ clock < MaxNanos
    /\ clock' = clock + 1
    /\ proc' = [proc EXCEPT ![p] = "live"]
    /\ UNCHANGED <<pid, counter, pc, callVars, dirVars, dataVars, crashes, histVars>>

Tick ==
    /\ clock < MaxNanos
    /\ clock' = clock + 1
    /\ UNCHANGED <<proc, pid, counter, pc, callVars, dirVars, dataVars, crashes, histVars>>

\* A process dies: its calls stop where they are, the file system stays.
Kill(p) ==
    /\ "kill" \in Faults
    /\ proc[p] = "live"
    /\ proc' = [proc EXCEPT ![p] = "dead"]
    /\ pc' = [c \in Call |->
                IF owner[c] = p /\ pc[c] \in InFlight THEN "dead" ELSE pc[c]]
    /\ UNCHANGED <<pid, counter, clock, callVars, dirVars, dataVars, crashes, histVars>>

Unflushed == {n \in Name : disk[n] # {dir[n]}}

\* Power is lost: every process dies, every name not fsynced falls back to
\* some entry it had since its last fsync, every inode keeps at least what
\* was fsynced of it.
Crash ==
    /\ crashes < MaxCrashes
    /\ crashes' = crashes + 1
    /\ proc' = [p \in Proc |-> IF proc[p] = "live" THEN "dead" ELSE proc[p]]
    /\ pc' = [c \in Call |-> IF pc[c] \in InFlight THEN "dead" ELSE pc[c]]
    /\ \E left \in [Unflushed -> Entry] :
         /\ \A n \in Unflushed : left[n] \in disk[n]
         /\ dir' = [n \in Name |-> IF n \in Unflushed THEN left[n] ELSE dir[n]]
    /\ disk' = [n \in Name |-> {dir'[n]}]
    /\ len' \in [Call -> 0 .. Chunks]
    /\ \A c \in Call : durable[c] <= len'[c] /\ len'[c] <= len[c]
    /\ durable' = len'
    /\ UNCHANGED <<pid, counter, clock, callVars, histVars>>

------------------------------------------------------------------------------
(***************************************************************************)
(* atomic_write, statement by statement.                                   *)
(***************************************************************************)

\* parent()?, process::id(), SystemTime::now().  A clock that was set back,
\* or is before the epoch and read as 0, gives any reading.
Begin(c) ==
    /\ pc[c] = "idle"
    /\ proc[owner[c]] = "live"
    /\ IF path[c] = "root"
         THEN pc' = [pc EXCEPT ![c] = "rejected"] /\ UNCHANGED nanos
         ELSE /\ pc' = [pc EXCEPT ![c] = "count"]
              /\ \E t \in IF "clock" \in Faults THEN Nanos ELSE {clock} :
                   nanos' = [nanos EXCEPT ![c] = t]
    /\ UNCHANGED <<procVars, owner, path, seq, dirVars, dataVars, crashes, histVars>>

\* Mutant of TakeCounter: the counter is read but not advanced.
TakeCounter_NotAdvanced(c) ==
    /\ pc[c] = "count"
    /\ seq' = [seq EXCEPT ![c] = counter[owner[c]]]
    /\ pc' = [pc EXCEPT ![c] = IF path[c] = "dotdot" THEN "rejected" ELSE "create"]
    /\ UNCHANGED <<procVars, owner, path, nanos, dirVars, dataVars, crashes, histVars>>

\* TMP_COUNTER.fetch_add(1), then file_name()?.
TakeCounter(c) ==
    /\ pc[c] = "count"
    /\ counter[owner[c]] < MaxCounter
    /\ seq' = [seq EXCEPT ![c] = counter[owner[c]]]
    /\ counter' = [counter EXCEPT ![owner[c]] = @ + 1]
    /\ pc' = [pc EXCEPT ![c] = IF path[c] = "dotdot" THEN "rejected" ELSE "create"]
    /\ UNCHANGED <<proc, pid, clock, owner, path, nanos, dirVars, dataVars, crashes, histVars>>

\* A directory update reaches memory now and the disk at some later time.
Link(n, i) ==
    /\ dir' = [dir EXCEPT ![n] = i]
    /\ disk' = [disk EXCEPT ![n] = @ \cup {i}]

Advance(c, to) ==
    /\ pc' = [pc EXCEPT ![c] = to]
    /\ UNCHANGED <<procVars, callVars, crashes>>

\* open with create_new(true)
Create(c) ==
    /\ pc[c] = "create"
    /\ dir[Temp(c)] = None
    /\ Link(Temp(c), c)
    /\ Advance(c, "write")
    /\ UNCHANGED <<dataVars, histVars>>

\* Mutant of CreateFails: EEXIST is waited for instead of reported.
CreateFails_Waits(c) ==
    /\ pc[c] = "create"
    /\ dir[Temp(c)] = None /\ "create" \in Faults
    /\ Advance(c, "cleanup")
    /\ UNCHANGED <<dirVars, dataVars, histVars>>

\* EEXIST, or the open failed for another reason.
CreateFails(c) ==
    /\ pc[c] = "create"
    /\ dir[Temp(c)] # None \/ "create" \in Faults
    /\ Advance(c, "cleanup")
    /\ UNCHANGED <<dirVars, dataVars, histVars>>

\* Mutant of Write: one write too many before f is taken to be done.
Write_PastEnd(c) ==
    /\ pc[c] = "write"
    /\ len' = [len EXCEPT ![c] = @ + 1]
    /\ Advance(c, IF len[c] = Chunks THEN "sync" ELSE "write")
    /\ UNCHANGED <<durable, dirVars, histVars>>

\* One write of f(&mut tmp); after the last one f returns Ok.
Write(c) ==
    /\ pc[c] = "write"
    /\ len[c] < Chunks
    /\ len' = [len EXCEPT ![c] = @ + 1]
    /\ Advance(c, IF len[c] + 1 = Chunks THEN "sync" ELSE "write")
    /\ UNCHANGED <<durable, dirVars, histVars>>

\* Mutant of WriteFails: the result of f is not looked at.
WriteFails_Ignored(c) ==
    /\ pc[c] = "write"
    /\ "write" \in Faults
    /\ Advance(c, "sync")
    /\ UNCHANGED <<dirVars, dataVars, histVars>>

\* f returns Err, before or after some of its writes.
WriteFails(c) ==
    /\ pc[c] = "write"
    /\ "write" \in Faults
    /\ Advance(c, "cleanup")
    /\ UNCHANGED <<dirVars, dataVars, histVars>>

\* f panics and unwinds through atomic_write: no cleanup runs.
Panic(c) ==
    /\ pc[c] = "write"
    /\ "panic" \in Faults
    /\ Advance(c, "panicked")
    /\ UNCHANGED <<dirVars, dataVars, histVars>>

\* Mutant of Sync: flush only, no fsync of the temp file.
Sync_NoFsync(c) ==
    /\ pc[c] = "sync"
    /\ Advance(c, "rename")
    /\ UNCHANGED <<dirVars, dataVars, histVars>>

\* tmp.flush()?; tmp.sync_all()?
Sync(c) ==
    /\ pc[c] = "sync"
    /\ durable' = [durable EXCEPT ![c] = len[c]]
    /\ Advance(c, "rename")
    /\ UNCHANGED <<len, dirVars, histVars>>

SyncFails(c) ==
    /\ pc[c] = "sync"
    /\ "sync" \in Faults
    /\ Advance(c, "cleanup")
    /\ UNCHANGED <<dirVars, dataVars, histVars>>

\* Mutant of Rename: the target is removed first, then the temp file renamed.
Rename_UnlinkFirst(c) ==
    /\ pc[c] = "rename"
    /\ dir[Temp(c)] # None
    /\ IF dir[Target] # None
         THEN /\ Link(Target, None)
              /\ Advance(c, "rename")
              /\ UNCHANGED histVars
         ELSE /\ dir' = [dir EXCEPT ![Target] = dir[Temp(c)], ![Temp(c)] = None]
              /\ disk' = [disk EXCEPT ![Target] = @ \cup {dir[Temp(c)]},
                                      ![Temp(c)] = @ \cup {None}]
              /\ renames' = renames + 1
              /\ stamp' = [stamp EXCEPT ![dir[Temp(c)]] = renames + 1]
              /\ Advance(c, "dirsync")
    /\ UNCHANGED dataVars

\* Mutant of Rename: a target that exists is emptied and rewritten in place.
Rename_InPlace(c) ==
    /\ pc[c] = "rename"
    /\ dir[Temp(c)] # None
    /\ IF dir[Target] = None
         THEN dir' = [dir EXCEPT ![Target] = c, ![Temp(c)] = None] /\ UNCHANGED len
         ELSE dir' = [dir EXCEPT ![Temp(c)] = None] /\ len' = [len EXCEPT ![dir[Target]] = 0]
    /\ Advance(c, "dirsync")
    /\ UNCHANGED <<disk, durable, histVars>>

\* rename(tmp_path, target): whatever is linked at the temp name becomes the
\* target, and the temp name goes.
Rename(c) ==
    /\ pc[c] = "rename"
    /\ dir[Temp(c)] # None
    /\ dir' = [dir EXCEPT ![Target] = dir[Temp(c)], ![Temp(c)] = None]
    /\ disk' = [disk EXCEPT ![Target] = @ \cup {dir[Temp(c)]},
                            ![Temp(c)] = @ \cup {None}]
    /\ renames' = renames + 1
    /\ stamp' = [stamp EXCEPT ![dir[Temp(c)]] = renames + 1]
    /\ Advance(c, "dirsync")
    /\ UNCHANGED dataVars

\* ENOENT because the temp file is gone, or another failure.
RenameFails(c) ==
    /\ pc[c] = "rename"
    /\ dir[Temp(c)] = None \/ "rename" \in Faults
    /\ Advance(c, "cleanup")
    /\ UNCHANGED <<dirVars, dataVars, histVars>>

\* Mutant of DirSync: the directory is opened but not fsynced.
DirSync_NoFsync(c) ==
    /\ pc[c] = "dirsync"
    /\ DirOpens(c)
    /\ Advance(c, "ok")
    /\ UNCHANGED <<dirVars, dataVars, histVars>>

\* File::open(dir) and sync_all: every entry of the directory is now durable.
DirSync(c) ==
    /\ pc[c] = "dirsync"
    /\ DirOpens(c)
    /\ disk' = [n \in Name |-> {dir[n]}]
    /\ Advance(c, "ok")
    /\ UNCHANGED <<dir, dataVars, histVars>>

\* Mutant of DirSyncSkipped: the failure is returned like the others.
DirSyncSkipped_Fails(c) ==
    /\ pc[c] = "dirsync"
    /\ ~DirOpens(c) \/ "dirsync" \in Faults
    /\ Advance(c, "cleanup")
    /\ UNCHANGED <<dirVars, dataVars, histVars>>

\* The directory does not open, or its fsync fails: Ok(()) all the same.
DirSyncSkipped(c) ==
    /\ pc[c] = "dirsync"
    /\ ~DirOpens(c) \/ "dirsync" \in Faults
    /\ Advance(c, "okUnflushed")
    /\ UNCHANGED <<dirVars, dataVars, histVars>>

\* Mutant of Cleanup: the temp file is forgotten.
Cleanup_Forgotten(c) ==
    /\ pc[c] = "cleanup"
    /\ Advance(c, "err")
    /\ UNCHANGED <<dirVars, dataVars, histVars>>

\* let _ = remove_file(&tmp_path), whoever's file is linked there.
Cleanup(c) ==
    /\ pc[c] = "cleanup"
    /\ Link(Temp(c), None)
    /\ Advance(c, "err")
    /\ UNCHANGED <<dataVars, histVars>>

CleanupFails(c) ==
    /\ pc[c] = "cleanup"
    /\ "remove" \in Faults
    /\ Advance(c, "errUncleaned")
    /\ UNCHANGED <<dirVars, dataVars, histVars>>

Step(c) ==
    \/ TakeCounter(c)
    \/ Create(c) \/ CreateFails(c)
    \/ Write(c) \/ WriteFails(c) \/ Panic(c)
    \/ Sync(c) \/ SyncFails(c)
    \/ Rename(c) \/ RenameFails(c)
    \/ DirSync(c) \/ DirSyncSkipped(c)
    \/ Cleanup(c) \/ CleanupFails(c)

Next ==
    \/ \E p \in Proc : Start(p) \/ Kill(p)
    \/ Tick \/ Crash
    \/ \E c \in Call : Begin(c) \/ Step(c)

Spec == Init /\ [][Next]_vars

------------------------------------------------------------------------------
(***************************************************************************)
(* What the code must keep.                                                *)
(***************************************************************************)

\* Every variable has its type (all of atomic_write's state).
TypeOK ==
    /\ proc \in [Proc -> {"new", "live", "dead"}]
    /\ pid \in [Proc -> Pid]
    /\ counter \in [Proc -> Counter]
    /\ clock \in Nanos
    /\ pc \in [Call -> PC]
    /\ owner \in [Call -> Proc]
    /\ path \in [Call -> Paths]
    /\ nanos \in [Call -> Nanos]
    /\ seq \in [Call -> Counter]
    /\ dir \in [Name -> Entry]
    /\ disk \in [Name -> SUBSET Entry]
    /\ len \in [Call -> 0 .. Chunks]
    /\ durable \in [Call -> 0 .. Chunks]
    /\ crashes \in 0 .. MaxCrashes
    /\ stamp \in [Call -> Nat]
    /\ renames \in Nat

\* While a call fills, syncs or renames its temp file, the temp name leads
\* to the file it created: no other call takes the name, and no loser's
\* cleanup deletes a winner's file (the bug of 2026-05-27 that the temp
\* names of atomic.rs:26-30 are there to prevent).
OwnsTemp ==
    \A c \in Call : pc[c] \in {"write", "sync", "rename"} => dir[Temp(c)] = c

\* Whatever the target leads to, now or after a power loss at this instant,
\* is a complete payload no power loss can shorten: readers see the old file
\* or the new file, never a partial one (atomic.rs:4-5).
TargetWhole ==
    \A i \in ({dir[Target]} \cup disk[Target]) \ {None} : durable[i] = Chunks

\* Once a call whose directory fsync succeeded has returned Ok, no power loss
\* brings back what it replaced: only it or a later replacement can be found
\* at the target (fsync of the directory, atomic.rs:76-81).
AckedSurvives ==
    \A c \in Call : pc[c] = "ok" =>
        \A i \in {dir[Target]} \cup disk[Target] :
            i # None /\ stamp[i] >= stamp[c]

\* What the doc of atomic_write says of every Ok (atomic.rs:23-24: "The
\* containing directory is fsynced too so the rename is durable"): after a
\* power loss the target is what the call put there, or newer.
RenameDurable ==
    \A c \in Call : pc[c] \in Succeeded =>
        dir[Target] # None /\ stamp[dir[Target]] >= stamp[c]

\* A call that has returned leaves no temp file behind, one that failed
\* because its cleanup ran (atomic.rs:32-33, 85-87) and one that succeeded
\* because rename moved it, unless its own removal failed.  A power loss may
\* undo the unsynced removal of a failed call; a success's rename comes back
\* whole or not at all.
NoTempLeft ==
    \A c \in Call, n \in TempName :
        /\ pc[c] = "ok" => dir[n] # c
        /\ pc[c] \in Returned \ {"errUncleaned"} /\ crashes = 0 => dir[n] # c

\* When nothing fails and the clock does not go back, every call succeeds
\* unless its path is unusable, whatever the other threads and processes do
\* and whatever temp files dead processes with the same pid left behind.
NoSpuriousFailure ==
    Faults \subseteq {"kill", "panic"} =>
        \A c \in Call : pc[c] \notin {"cleanup"} \cup Failed

\* atomic_write waits for nobody: a call that has begun returns, panics or
\* dies even when every other call stops for ever.
WaitFree(c) == pc[c] \in InFlight ~> pc[c] \in Returned \cup Lost

\* The promise of atomic_write, without temp files, names or clocks.
Status(c) ==
    CASE pc[c] \in {"idle"}                  -> "idle"
      [] pc[c] \in InFlight \ {"dirsync"}    -> "running"
      [] pc[c] = "dirsync"                   -> "replaced"
      [] pc[c] \in Failed                    -> "err"
      [] pc[c] \in Returned \ Failed         -> pc[c]
      [] pc[c] \in Lost                      -> "lost"

File == INSTANCE AtomicFile
    WITH file <- dir[Target],
         after <- disk[Target],
         status <- [c \in Call |-> Status(c)]

\* Every behaviour of atomic_write is one of the abstract replaceable file.
Refines == File!Spec
==============================================================================
