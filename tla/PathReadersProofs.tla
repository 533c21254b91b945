-------------------------- MODULE PathReadersProofs --------------------------
(***************************************************************************)
(* Proofs about PathReaders, for any number of calls, processes, pids,     *)
(* power losses and chunks and any set of faults.                          *)
(***************************************************************************)
EXTENDS PathReaders, AtomicWriteProofs

\* With the reader beside them, the writers still behave as AtomicWrite says.
LEMMA WritersUndisturbed == ReadSpec => Spec
  <1>1. Init /\ ReadInit => Init
    OBVIOUS
  <1>2. [ReadNext]_allVars => [Next]_vars
    BY DEF ReadNext, WriterStep, allVars
  <1>3. QED
    BY <1>1, <1>2, PTL DEF ReadSpec, Spec

------------------------------------------------------------------------------
(***************************************************************************)
(* Reads are whole.                                                        *)
(***************************************************************************)

\* The file at hand is complete from the moment it is opened.
WholeInv ==
    /\ ReadTypeOK
    /\ rpc \in Reading => len[fd] = Chunks /\ at < Chunks
    /\ rpc = "mapped" => size = Chunks
    /\ rpc \notin {"short", "killed"}

\* Every step keeps the reader's file complete.
LEMMA NextWhole == IInv /\ WholeInv /\ [ReadNext]_allVars => WholeInv'
  <1> SUFFICES ASSUME IInv, WholeInv, [ReadNext]_allVars PROVE WholeInv'
    OBVIOUS
  <1> USE DEF WholeInv, ReadTypeOK, Reading, Outcome
  <1>1. CASE WriterStep /\ crashes' = crashes
    <2>1. UNCHANGED <<rpc, fd, size, at, floor>> /\ promised' \subseteq Call
      BY <1>1 DEF WriterStep
    <2>2. fd # None => fd \in Call
      BY DEF Entry
    <2>3. rpc \in Reading => len'[fd] = Chunks
      BY <1>1, <2>2, LenStays DEF IInv, WriterStep
    <2>4. QED
      BY <2>1, <2>3
  <1>2. CASE WriterStep /\ crashes' # crashes
    BY <1>2, ChunksPositive DEF WriterStep, Entry
  <1>3. CASE Open /\ UNCHANGED vars
    <2>1. dir[Target] \in Entry /\ len' = len
      BY <1>3 DEF IInv, TypeOK, Name, vars, dataVars
    <2>2. QED
      BY <1>3, <2>1, OpensWhole, ChunksPositive DEF Open, Entry
  <1>4. CASE (ReadFrom \/ Map) /\ UNCHANGED vars
    BY <1>4, ChunksPositive DEF ReadFrom, Map, vars, dataVars
  <1>5. CASE ReadChunk /\ UNCHANGED vars
    <2>1. len' = len /\ rpc' = Read(at) /\ at' = at + 1 /\ UNCHANGED <<fd, size, promised, floor>>
      BY <1>5 DEF ReadChunk, vars, dataVars
    <2>2. at < len[fd] /\ at < Chunks /\ at \in Nat /\ rpc \in {"reading", "mapped"}
      BY <1>5, ChunksPositive DEF ReadChunk
    <2>3. rpc' = IF at + 1 = Chunks THEN "whole" ELSE rpc
      BY <2>1, <2>2 DEF Read
    <2>4. QED
      BY <2>1, <2>2, <2>3, ChunksPositive
  <1>6. CASE UNCHANGED allVars
    BY <1>6 DEF allVars, readVars, vars, dataVars
  <1>7. QED
    BY <1>1, <1>2, <1>3, <1>4, <1>5, <1>6 DEF ReadNext, Reader

\* The reader's invariant holds in every state.
LEMMA WholeInductive == ReadSpec => []WholeInv
  <1>1. Init /\ ReadInit => WholeInv
    BY ChunksPositive
    DEF ReadInit, WholeInv, ReadTypeOK, Reading, Outcome, Entry
  <1>2. QED
    BY <1>1, NextWhole, Inductive, WritersUndisturbed, PTL DEF ReadSpec

\* The reader always has open what it reads from.
THEOREM ReadTypeCorrect == ReadSpec => []ReadTypeOK
  <1>1. WholeInv => ReadTypeOK
    BY DEF WholeInv
  <1>2. QED
    BY <1>1, WholeInductive, PTL

\* Every read of an opened target delivers all of it, by read or by mmap,
\* under any number of concurrent replacements.
THEOREM ReadsAlwaysWhole == ReadSpec => []ReadsWhole
  <1>1. WholeInv => ReadsWhole
    BY DEF WholeInv, ReadsWhole
  <1>2. QED
    BY <1>1, WholeInductive, PTL

\* No mapped page goes away while the reader reads it.
THEOREM MappingAlwaysHolds == ReadSpec => []MappingHolds
  <1>1. WholeInv => MappingHolds
    BY DEF WholeInv, MappingHolds
  <1>2. QED
    BY <1>1, WholeInductive, PTL

------------------------------------------------------------------------------
(***************************************************************************)
(* Reads are fresh.                                                        *)
(***************************************************************************)

\* Inode i is at least as new as call c's.
AsNew(i, c) == i # None /\ stamp[i] >= stamp[c]

\* The target is as new as every promise and as the file at hand, that file as
\* new as its floor; none of them, nor what a power loss may bring back,
\* changes its stamp any more.
FreshInv ==
    /\ \A i \in disk[Target] \ {None} : Settled(i)
    /\ \A c \in promised : pc[c] \in Succeeded /\ AsNew(dir[Target], c)
    /\ fd # None => Settled(fd) /\ AsNew(dir[Target], fd)
    /\ \A c \in floor : Settled(c) /\ AsNew(fd, c)

\* The writers keep the order of what the reader was promised and has seen.
LEMMA WritersFresh ==
    ASSUME IInv, StampInv, ReadTypeOK, FreshInv, WriterStep, crashes' = crashes
    PROVE  FreshInv'
  <1> USE DEF FreshInv, AsNew
  <1>1. /\ \A c \in Call : Settled(c) => Settled(c)' /\ stamp'[c] = stamp[c]
        /\ \A c \in Call : /\ pc[c] \in Succeeded => pc'[c] \in Succeeded
                           /\ pc'[c] \in Succeeded => pc[c] \in Succeeded \cup {"dirsync"}
    BY TargetMoves DEF WriterStep
  <1>2. \/ dir'[Target] = dir[Target]
        \/ \E d \in Call : /\ dir'[Target] = d /\ ~Settled(d) /\ Settled(d)'
                           /\ stamp'[d] = renames + 1
    BY TargetMoves DEF WriterStep
  <1>3. /\ UNCHANGED <<fd, floor>>
        /\ promised' = promised \cup {c \in Call : pc[c] \notin Succeeded /\ pc'[c] \in Succeeded}
        /\ promised \subseteq Call /\ floor \subseteq Call /\ fd \in Entry
    BY DEF WriterStep, ReadTypeOK
  <1>4. /\ dir[Target] \in Entry /\ None \notin Call
        /\ dir[Target] # None => Settled(dir[Target])
    BY NamesDiffer DEF IInv, TypeOK, FileInv, DirOnDisk, Name
  <1>5. \A c \in Call : stamp[c] \in Nat /\ stamp[c] <= renames /\ renames \in Nat
    BY DEF IInv, TypeOK, StampInv
  <1>6. \A c \in Call : Settled(c) /\ AsNew(dir[Target], c) => AsNew(dir[Target], c)'
    <2> SUFFICES ASSUME NEW c \in Call, Settled(c), AsNew(dir[Target], c)
                 PROVE  AsNew(dir[Target], c)'
      OBVIOUS
    <2>1. CASE dir'[Target] = dir[Target]
      BY <1>1, <1>4, <2>1 DEF Entry
    <2>2. CASE dir'[Target] # dir[Target]
      BY <1>1, <1>2, <1>4, <1>5, <2>2
    <2>3. QED
      BY <2>1, <2>2
  <1>7. \A i \in disk'[Target] \ {None} : Settled(i)'
    <2>1. disk'[Target] \subseteq disk[Target] \cup {dir'[Target]} /\ disk[Target] \subseteq Entry
      BY TargetMoves DEF WriterStep, IInv, TypeOK, Name
    <2>2. dir[Target] \in disk[Target]
      BY DEF IInv, FileInv, DirOnDisk, Name
    <2>3. QED
      BY <1>1, <1>2, <2>1, <2>2 DEF Entry
  <1>8. \A c \in promised' : (pc[c] \in Succeeded)' /\ AsNew(dir[Target], c) /\ Settled(c)
    <2> SUFFICES ASSUME NEW c \in promised'
                 PROVE  (pc[c] \in Succeeded)' /\ AsNew(dir[Target], c) /\ Settled(c)
      OBVIOUS
    <2>1. CASE c \in promised
      <3>1. Settled(c)
        BY <2>1 DEF Settled, Succeeded
      <3>2. pc'[c] \in Succeeded
        BY <1>1, <1>3, <2>1
      <3>3. QED
        BY <2>1, <3>1, <3>2
    <2>2. CASE c \notin promised
      <3>1. c \in Call /\ pc[c] = "dirsync" /\ pc'[c] \in Succeeded
        BY <1>1, <1>3, <2>2
      <3>2. QED
        BY <3>1 DEF StampInv, Settled
    <2>3. QED
      BY <2>1, <2>2
  <1>9. (fd # None => Settled(fd) /\ AsNew(dir[Target], fd))'
    BY <1>1, <1>3, <1>6 DEF Entry
  <1>10. \A c \in floor' : (Settled(c) /\ AsNew(fd, c))'
    BY <1>1, <1>3 DEF Entry
  <1>11. QED
    BY <1>3, <1>6, <1>7, <1>8, <1>9, <1>10

\* A power loss leaves no reader and, of the promises, those it cannot take.
LEMMA CrashFresh ==
    ASSUME IInv, IInv', StampInv', FreshInv, WriterStep, crashes' # crashes
    PROVE  FreshInv'
  <1>1. Crash
    BY DEF WriterStep, Next, Start, Kill, Tick, Begin, Step, TakeCounter, Create, CreateFails,
           Write, WriteFails, Panic, Sync, SyncFails, Rename, RenameFails, DirSync,
           DirSyncSkipped, Cleanup, CleanupFails, Advance
  <1>2. promised' = {c \in Call : pc[c] = "ok"} /\ fd' = None /\ floor' = {}
    BY DEF WriterStep
  <1>3. \A c \in Call : pc[c] = "ok" => pc'[c] = "ok"
    BY <1>1 DEF IInv, TypeOK, Crash, InFlight
  <1>4. \A c \in promised' : (pc[c] \in Succeeded)' /\ AsNew(dir[Target], c)'
    BY <1>2, <1>3 DEF StampInv, AsNew, Succeeded
  <1>5. \A i \in disk'[Target] \ {None} : Settled(i)'
    <2>1. disk'[Target] \subseteq disk[Target] /\ disk[Target] \subseteq Entry
      BY <1>1 DEF Crash, Unflushed, IInv, TypeOK, FileInv, DirOnDisk, Name
    <2>2. \A c \in Call : Settled(c) => Settled(c)'
      BY <1>1 DEF IInv, TypeOK, Crash, Settled
    <2>3. QED
      BY <2>1, <2>2 DEF FreshInv, Entry
  <1>6. QED
    BY <1>2, <1>4, <1>5 DEF FreshInv

\* Every step keeps reads fresh.
LEMMA NextFresh ==
    /\ IInv /\ IInv' /\ StampInv /\ StampInv' /\ ReadTypeOK /\ FreshInv
    /\ [ReadNext]_allVars
    => FreshInv'
  <1> SUFFICES ASSUME IInv, IInv', StampInv, StampInv', ReadTypeOK, FreshInv,
                      [ReadNext]_allVars
               PROVE  FreshInv'
    OBVIOUS
  <1>1. CASE WriterStep /\ crashes' = crashes
    BY <1>1, WritersFresh
  <1>2. CASE WriterStep /\ crashes' # crashes
    BY <1>2, CrashFresh
  <1>3. CASE Open /\ UNCHANGED vars
    <2>1. UNCHANGED <<pc, dir, disk, stamp, promised>> /\ fd' = dir[Target]
          /\ floor' = promised \cup ({fd} \ {None})
      BY <1>3 DEF Open, vars, dirVars, histVars
    <2>2. dir[Target] # None => dir[Target] \in disk[Target] /\ stamp[dir[Target]] \in Nat
      BY DEF IInv, TypeOK, FileInv, DirOnDisk, Name, Entry
    <2>3. \A c \in promised : Settled(c)
      BY DEF FreshInv, Settled, Succeeded
    <2>4. QED
      BY <2>1, <2>2, <2>3 DEF FreshInv, AsNew, Settled
  <1>4. CASE (ReadFrom \/ Map \/ ReadChunk) /\ UNCHANGED vars
    BY <1>4
    DEF ReadFrom, Map, ReadChunk, vars, dirVars, histVars, FreshInv, AsNew, Settled
  <1>5. CASE UNCHANGED allVars
    BY <1>5 DEF allVars, readVars, vars, dirVars, histVars, FreshInv, AsNew, Settled
  <1>6. QED
    BY <1>1, <1>2, <1>3, <1>4, <1>5 DEF ReadNext, Reader

\* No reader, however it interleaves with writers and power losses, gets a
\* file older than one it was promised or has seen.
THEOREM ReadsAlwaysFresh == ReadSpec => []ReadsFresh
  <1>1. Init /\ ReadInit => FreshInv
    BY DEF Init, ReadInit, FreshInv, Name
  <1>2. WholeInv => ReadTypeOK
    BY DEF WholeInv
  <1>3. FreshInv => ReadsFresh
    BY DEF FreshInv, AsNew, ReadsFresh
  <1>4. ReadSpec => []StampInv
    BY WritersUndisturbed, StampAlways, PTL
  <1>5. QED
    BY <1>1, <1>2, <1>3, <1>4, NextFresh, WholeInductive, Inductive, WritersUndisturbed, PTL
    DEF ReadSpec
==============================================================================
