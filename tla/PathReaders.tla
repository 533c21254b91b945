----------------------------- MODULE PathReaders -----------------------------
(***************************************************************************)
(* read_from_path of saga/mod.rs and kv_cache/mod.rs and the mmap readers  *)
(* of the latter, run by a process of its own while the calls of           *)
(* AtomicWrite replace the file it reads: lib.rs:16-18, "Concurrent        *)
(* multi-process reads are safe when writers replace files via             *)
(* atomic_write".  A file is read in Chunks pieces, one at a time.         *)
(***************************************************************************)
EXTENDS AtomicWrite

VARIABLES
    rpc,       \* the statement the reader is about to execute, or its outcome
    fd,        \* the inode it has open, also after the read
    size,      \* chunks of it that were mapped
    at,        \* chunks read
    promised,  \* history: calls whose Ok a later reader may count on
    floor      \* history: calls the file at hand must not be older than

readVars == <<rpc, fd, size, at, promised, floor>>
allVars  == <<vars, readVars>>

\* "whole": every byte came; "short": end of file before the last one;
\* "missing": nothing at the target; "killed": SIGBUS on a mapped page that
\* the file no longer has.
Outcome == {"whole", "short", "missing", "killed"}
Reading == {"opened", "reading", "mapped"}

ReadInit ==
    /\ rpc = "idle"
    /\ fd = None
    /\ size = 0
    /\ at = 0
    /\ promised = {}
    /\ floor = {}

\* Mutant of Open: the file opened for the last read is still at hand.
Open_Cached ==
    /\ rpc \in {"idle", "whole", "short", "missing"}
    /\ fd' = IF fd # None THEN fd ELSE dir[Target]
    /\ rpc' = IF fd' = None THEN "missing" ELSE "opened"
    /\ at' = 0
    /\ floor' = promised \cup ({fd} \ {None})
    /\ UNCHANGED <<size, promised>>

\* Mutant of Open: a missing file goes unnoticed.
Open_Unchecked ==
    /\ rpc \in {"idle", "whole", "short", "missing"}
    /\ fd' = dir[Target]
    /\ rpc' = "opened"
    /\ at' = 0
    /\ floor' = promised \cup ({fd} \ {None})
    /\ UNCHANGED <<size, promised>>

\* File::open(path)?, once per read: everything else goes through this inode.
Open ==
    /\ rpc \in {"idle", "whole", "short", "missing"}
    /\ fd' = dir[Target]
    /\ rpc' = IF dir[Target] = None THEN "missing" ELSE "opened"
    /\ at' = 0
    /\ floor' = promised \cup ({fd} \ {None})
    /\ UNCHANGED <<size, promised>>

\* Self::read_from(&mut f): ordinary reads of the file as it is then.
ReadFrom ==
    /\ rpc = "opened"
    /\ rpc' = "reading"
    /\ UNCHANGED <<fd, size, at, promised, floor>>

\* read_mmap_impl: the length is fixed when the file is mapped.
Map ==
    /\ rpc = "opened"
    /\ rpc' = "mapped"
    /\ size' = len[fd]
    /\ UNCHANGED <<fd, at, promised, floor>>

\* What reading the next chunk comes to.
Read(n) ==
    IF n < len[fd] /\ (rpc = "mapped" => n < size)
      THEN IF n + 1 = Chunks THEN "whole" ELSE rpc
      ELSE IF rpc = "mapped" /\ n < size THEN "killed" ELSE "short"

ReadChunk ==
    /\ rpc \in {"reading", "mapped"}
    /\ rpc' = Read(at)
    /\ at' = at + 1
    /\ UNCHANGED <<fd, size, promised, floor>>

Reader == Open \/ ReadFrom \/ Map \/ ReadChunk

\* A power loss takes the reader along, and the promise of every call whose
\* directory fsync failed.
WriterStep ==
    /\ Next
    /\ IF crashes' = crashes
         THEN /\ promised' = promised \cup {c \in Call : pc[c] \notin Succeeded /\ pc'[c] \in Succeeded}
              /\ UNCHANGED <<rpc, fd, size, at, floor>>
         ELSE /\ promised' = {c \in Call : pc[c] = "ok"}
              /\ rpc' = "idle" /\ fd' = None /\ size' = 0 /\ at' = 0 /\ floor' = {}

ReadNext == WriterStep \/ (Reader /\ UNCHANGED vars)

ReadSpec == Init /\ ReadInit /\ [][ReadNext]_allVars

------------------------------------------------------------------------------
\* The reader's variables have their types, and it reads what it has open.
ReadTypeOK ==
    /\ rpc \in {"idle"} \cup Reading \cup Outcome
    /\ fd \in Entry
    /\ rpc \in Reading \cup {"whole", "short"} => fd # None
    /\ size \in 0 .. Chunks
    /\ at \in 0 .. Chunks
    /\ promised \subseteq Call
    /\ floor \subseteq Call

\* A reader that opens the file gets all of it, however often it is replaced
\* between its open and its last read, by whichever threads and processes, and
\* whatever power losses came before (lib.rs:16-18, atomic.rs:4-5).
ReadsWhole == rpc # "short"

\* No page of a mapped file goes away under the reader: the trade the unsafe
\* block of kv_cache/mod.rs:155-157 makes ("atomic_write ensures consumers see
\* fully-written files").
MappingHolds == rpc # "killed"

\* A read is never older than any call that had returned Ok when it began, nor
\* than the reader's previous read; after a power loss, than any call whose
\* directory fsync had succeeded (atomic.rs:23-24).
ReadsFresh ==
    \A c \in floor : fd # None /\ stamp[fd] >= stamp[c]
==============================================================================
