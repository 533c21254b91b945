---------------------------- MODULE ScrubDirProofs ----------------------------
(***************************************************************************)
(* Proofs about ScrubDir, for any number of calls, processes, pids, power  *)
(* losses and chunks, any image layout and any set of faults.              *)
(***************************************************************************)
EXTENDS ScrubDir, AtomicWriteProofs, FiniteSetTheorems

\* With the scrubber beside them, the writers still behave as AtomicWrite says.
LEMMA WritersUnwatched == LiveSpec => Spec
  <1>1. Init /\ ScrubInit => Init
    OBVIOUS
  <1>2. [LiveNext]_<<vars, scrubVars>> => [Next]_vars
    BY DEF LiveNext, Writers
  <1>3. QED
    BY <1>1, <1>2, PTL DEF LiveSpec, Spec

\* The statements at which scrub_dir has an entry at hand, and those at which
\* it has the entry's file open.
Visiting == {"magic", "open", "header", "sections"}
Reading  == {"magic", "header", "sections"}

OfTarget == {k \in 1 .. Len(reports) : reports[k].name = Target}

\* Whether the target is at hand.
AtTarget == cur = Target /\ spc \in Visiting

\* A target that was returned is there and complete from then on, and every
\* return of it has been reported but the one being visited.
VisitInv ==
    /\ ScrubTypeOK
    /\ Target \in due \cup loose => dir[Target] # None
    /\ AtTarget => dir[Target] # None
    /\ cur = Target /\ spc \in Reading => len[fd] = Chunks
    /\ TargetReportsClean
    /\ IsFiniteSet(OfTarget)
    /\ seen = Cardinality(OfTarget) + (IF AtTarget THEN 1 ELSE 0)

\* Writers that lose no power leave the scrubber's view of the target alone.
LEMMA WritersVisit ==
    ASSUME IInv, VisitInv, [Next]_vars, crashes' = crashes,
           ListingFollows \/ UNCHANGED <<dir, due, loose>>,
           UNCHANGED <<spc, cur, fd, reports, seen>>
    PROVE  VisitInv'
  <1> USE DEF VisitInv
  <1>1. dir[Target] # None => dir'[Target] # None
    BY TargetMoves, NamesDiffer
  <1>2. Target \in due' \cup loose' => dir'[Target] # None
    <2>1. CASE dir'[Target] = dir[Target]
      BY <1>1, <2>1 DEF ListingFollows
    <2>2. CASE dir'[Target] # dir[Target]
      BY <2>2, TargetMoves, NamesDiffer
    <2>3. QED
      BY <2>1, <2>2
  <1>3. ASSUME cur = Target, spc \in Reading PROVE len'[fd] = Chunks
    <2>1. fd \in Call
      BY <1>3 DEF Reading, ScrubTypeOK, Entry
    <2>2. QED
      BY <1>3, <2>1, LenStays DEF IInv
  <1>4. due' \subseteq Name /\ loose' \subseteq Name
    BY DEF ListingFollows, ScrubTypeOK
  <1>5. ScrubTypeOK' /\ TargetReportsClean' /\ OfTarget' = OfTarget /\ AtTarget' = AtTarget
    BY <1>4 DEF ScrubTypeOK, TargetReportsClean, OfTarget, AtTarget
  <1>6. AtTarget => dir'[Target] # None
    BY <1>1
  <1>7. QED
    BY <1>2, <1>3, <1>5, <1>6

\* A report of the entry at hand.
LEMMA ReportVisit ==
    ASSUME VisitInv, spc \in Visiting, NEW o \in Outcome, Reported(o),
           fd' \in Entry, UNCHANGED <<dir, len>>,
           cur = Target => o = "clean"
    PROVE  VisitInv'
  <1> DEFINE r == [name |-> cur, outcome |-> o]
             n == Len(reports)
  <1>1. reports' = Append(reports, r) /\ spc' = "next" /\ UNCHANGED <<due, loose, cur, seen>>
    BY DEF Reported
  <1>2. r \in Reports /\ reports \in Seq(Reports)
    BY DEF VisitInv, ScrubTypeOK, Reports
  <1>3. /\ n \in Nat /\ Len(reports') = n + 1 /\ reports' \in Seq(Reports)
        /\ \A k \in 1 .. n : reports'[k] = reports[k]
        /\ reports'[n + 1] = r
    BY <1>1, <1>2
  <1>4. ScrubTypeOK'
    BY <1>1, <1>3 DEF VisitInv, ScrubTypeOK
  <1> HIDE DEF n
  <1>5. TargetReportsClean'
    <2> SUFFICES ASSUME NEW k \in 1 .. n + 1, reports'[k].name = Target
                 PROVE  reports'[k].outcome = "clean"
      BY <1>3 DEF TargetReportsClean
    <2>1. CASE k = n + 1
      BY <1>3, <2>1
    <2>2. CASE k # n + 1
      <3>1. k \in 1 .. n /\ reports'[k] = reports[k]
        BY <1>3, <2>2
      <3>2. QED
        BY <3>1 DEF VisitInv, TargetReportsClean, n
    <2>3. QED
      BY <2>1, <2>2
  <1>6. OfTarget' = IF cur = Target THEN OfTarget \cup {n + 1} ELSE OfTarget
    <2>1. OfTarget = {k \in 1 .. n : reports[k].name = Target}
      BY DEF OfTarget, n
    <2>2. OfTarget' = {k \in 1 .. n + 1 : reports'[k].name = Target}
      BY <1>3 DEF OfTarget
    <2>3. reports'[n + 1].name = cur
      BY <1>3
    <2>4. QED
      BY <1>3, <2>1, <2>2, <2>3
  <1>7. n + 1 \notin OfTarget /\ IsFiniteSet(OfTarget)
    BY <1>3 DEF OfTarget, VisitInv, n
  <1>8. /\ IsFiniteSet(OfTarget')
        /\ Cardinality(OfTarget') = Cardinality(OfTarget) + (IF cur = Target THEN 1 ELSE 0)
    <2>1. Cardinality(OfTarget) \in Nat
      BY <1>7, FS_CardinalityType
    <2>2. CASE cur = Target
      BY <1>6, <1>7, <2>2, FS_AddElement
    <2>3. CASE cur # Target
      BY <1>6, <1>7, <2>1, <2>3
    <2>4. QED
      BY <2>2, <2>3
  <1>9. (AtTarget <=> cur = Target) /\ ~AtTarget'
    BY <1>1 DEF AtTarget, Visiting
  <1>10. seen' = Cardinality(OfTarget') + (IF AtTarget' THEN 1 ELSE 0)
    <2> DEFINE c == Cardinality(OfTarget)
    <2>1. c \in Nat
      BY <1>7, FS_CardinalityType
    <2>2. Cardinality(OfTarget') = c + (IF cur = Target THEN 1 ELSE 0)
      BY <1>8
    <2>3. seen' = c + (IF AtTarget THEN 1 ELSE 0)
      BY <1>1 DEF VisitInv
    <2> HIDE DEF c
    <2>4. (IF AtTarget' THEN 1 ELSE 0) = 0
      BY <1>9
    <2>5. CASE cur = Target
      <3>1. seen' = c + 1
        BY <1>9, <2>3, <2>5
      <3>2. Cardinality(OfTarget') = c + 1
        BY <2>2, <2>5
      <3>3. QED
        BY <2>1, <2>4, <3>1, <3>2
    <2>6. CASE cur # Target
      <3>1. seen' = c + 0
        BY <1>9, <2>3, <2>6
      <3>2. Cardinality(OfTarget') = c + 0
        BY <2>2, <2>6
      <3>3. QED
        BY <2>1, <2>4, <3>1, <3>2
    <2>7. QED
      BY <2>5, <2>6
  <1>11. ~(spc' \in Reading)
    BY <1>1 DEF Reading
  <1>12. QED
    BY <1>1, <1>4, <1>5, <1>8, <1>9, <1>10, <1>11 DEF VisitInv

\* The scrubber's own steps.
LEMMA ScrubVisit ==
    ASSUME IInv, VisitInv, Scrub, UNCHANGED vars
    PROVE  VisitInv'
  <1> USE DEF VisitInv
  <1>1. UNCHANGED <<dir, len>>
    BY DEF vars, dirVars, dataVars
  <1>2. dir \in [Name -> Entry] /\ Target \in Name /\ \A c \in Call : len[c] \in 0 .. Chunks
    BY DEF IInv, TypeOK, Name
  <1>3. Chunks \in Nat /\ MagicAt \in 1 .. Chunks /\ HeaderAt \in 1 .. Chunks
        /\ SectionsAt \in 1 .. Chunks
    BY ImageLayout, ChunksPositive
  <1>4. ASSUME ReadDir \/ ReadDirFails PROVE VisitInv'
    <2>1. reports' = <<>> /\ seen' = 0 /\ spc' \in {"idle", "next"} /\ UNCHANGED <<cur, fd>>
      BY <1>4 DEF ReadDir, ReadDirFails
    <2>2. OfTarget' = {} /\ TargetReportsClean'
      BY <2>1 DEF OfTarget, TargetReportsClean
    <2>3. due' \subseteq Name /\ loose' \subseteq Name
          /\ (Target \in due' \cup loose' => dir[Target] # None)
      BY <1>4 DEF ReadDir, ReadDirFails, ScrubTypeOK
    <2>4. ScrubTypeOK'
      BY <2>1, <2>3 DEF ScrubTypeOK
    <2>5. ~AtTarget' /\ ~(spc' \in Reading)
      BY <2>1 DEF AtTarget, Visiting, Reading
    <2>6. IsFiniteSet(OfTarget') /\ Cardinality(OfTarget') = 0
      BY <2>2, FS_EmptySet
    <2>7. QED
      BY <1>1, <2>1, <2>2, <2>3, <2>4, <2>5, <2>6
  <1>5. ASSUME NEW n \in Name, Peek(n) PROVE VisitInv'
    <2>1. /\ spc = "next" /\ n \in due \cup loose
          /\ due' = due \ {n} /\ cur' = n /\ fd' = dir[n]
          /\ seen' = (IF n = Target THEN seen + 1 ELSE seen)
          /\ spc' = (IF dir[n] = None THEN "next" ELSE "magic")
          /\ UNCHANGED <<loose, reports>>
      BY <1>5 DEF Peek, NextEntry
    <2>2. OfTarget' = OfTarget /\ TargetReportsClean'
      BY <2>1 DEF OfTarget, TargetReportsClean
    <2>3. ScrubTypeOK'
      BY <1>2, <2>1 DEF ScrubTypeOK
    <2>4. dir[Target] # None => len[dir[Target]] = Chunks
      BY OpensWhole
    <2>5. n = Target => dir[Target] # None
      BY <2>1
    <2>6. ~AtTarget /\ (AtTarget' <=> n = Target)
      BY <2>1, <2>5 DEF AtTarget, Visiting
    <2> DEFINE c == Cardinality(OfTarget)
    <2>7. c \in Nat /\ Cardinality(OfTarget') = c /\ seen = c + 0
      BY <2>2, <2>6, FS_CardinalityType
    <2>8. seen' = Cardinality(OfTarget') + (IF AtTarget' THEN 1 ELSE 0)
      <3> HIDE DEF c
      <3>1. CASE n = Target
        <4>1. seen' = c + 1 /\ AtTarget'
          BY <2>1, <2>6, <2>7, <3>1
        <4>2. QED
          BY <2>7, <4>1
      <3>2. CASE n # Target
        <4>1. seen' = c /\ ~AtTarget'
          BY <2>1, <2>6, <2>7, <3>2
        <4>2. QED
          BY <2>7, <4>1
      <3>3. QED
        BY <3>1, <3>2
    <2>9. cur' = Target /\ spc' \in Reading => len[fd'] = Chunks
      BY <2>1, <2>4, <2>5
    <2>10. QED
      BY <1>1, <2>1, <2>2, <2>3, <2>5, <2>6, <2>8, <2>9
  <1>6. CASE ReadMagic
    <2>1. OfTarget' = OfTarget /\ TargetReportsClean'
      BY <1>6 DEF ReadMagic, OfTarget, TargetReportsClean
    <2>2. ScrubTypeOK'
      BY <1>6 DEF ReadMagic, ScrubTypeOK
    <2>3. cur = Target => spc' = "open"
      BY <1>3, <1>6 DEF ReadMagic, Reading
    <2>4. spc = "magic" /\ spc' \in {"open", "next"} /\ UNCHANGED <<due, loose, cur, fd, seen>>
      BY <1>6 DEF ReadMagic
    <2>5. QED
      BY <1>1, <2>1, <2>2, <2>3, <2>4 DEF AtTarget, Visiting, Reading
  <1>7. CASE ScrubOpen
    <2>1. cur \in Name /\ dir[cur] \in Entry /\ spc = "open"
      BY <1>2, <1>7 DEF ScrubOpen, ScrubTypeOK
    <2>2. CASE dir[cur] = None
      <3>1. Reported("open") /\ fd' \in Entry /\ spc \in Visiting
        BY <1>7, <2>1, <2>2 DEF ScrubOpen, Visiting
      <3>2. cur # Target
        BY <2>2, <3>1 DEF AtTarget
      <3>3. QED
        BY <1>1, <3>1, <3>2, ReportVisit DEF Outcome
    <2>3. CASE dir[cur] # None
      <3>1. spc' = "header" /\ fd' = dir[cur] /\ UNCHANGED <<due, loose, cur, reports, seen>>
        BY <1>7, <2>3 DEF ScrubOpen
      <3>2. OfTarget' = OfTarget /\ TargetReportsClean'
        BY <3>1 DEF OfTarget, TargetReportsClean
      <3>3. ScrubTypeOK'
        BY <2>1, <2>3, <3>1 DEF ScrubTypeOK
      <3>4. cur = Target => len[fd'] = Chunks
        BY <2>3, <3>1, OpensWhole
      <3>5. QED
        BY <1>1, <2>1, <3>1, <3>2, <3>3, <3>4 DEF AtTarget, Visiting, Reading
    <2>4. QED
      BY <2>2, <2>3
  <1>8. CASE ReadHeader
    <2>1. spc = "header" /\ fd \in Entry /\ fd' = fd
      BY <1>8 DEF ReadHeader, ScrubTypeOK
    <2>2. CASE len[fd] < HeaderAt
      <3>1. cur # Target
        BY <1>3, <2>1, <2>2 DEF Reading
      <3>2. QED
        BY <1>1, <1>8, <2>1, <2>2, <3>1, ReportVisit DEF ReadHeader, Visiting, Outcome
    <2>3. CASE ~(len[fd] < HeaderAt)
      <3>1. spc' = "sections" /\ UNCHANGED <<due, loose, cur, reports, seen>>
        BY <1>8, <2>3 DEF ReadHeader
      <3>2. OfTarget' = OfTarget /\ TargetReportsClean'
        BY <3>1 DEF OfTarget, TargetReportsClean
      <3>3. ScrubTypeOK'
        BY <2>1, <3>1 DEF ScrubTypeOK
      <3>4. QED
        BY <1>1, <2>1, <3>1, <3>2, <3>3 DEF AtTarget, Visiting, Reading
    <2>4. QED
      BY <2>2, <2>3
  <1>9. CASE VerifySections
    <2>1. spc = "sections" /\ fd \in Entry /\ fd' = fd
      BY <1>9 DEF VerifySections, ScrubTypeOK
    <2>2. cur = Target => ~(len[fd] < SectionsAt)
      BY <1>3, <2>1 DEF Reading
    <2>3. PICK o \in Outcome : Reported(o) /\ (cur = Target => o = "clean")
      BY <1>9, <2>2 DEF VerifySections, Outcome
    <2>4. QED
      BY <1>1, <2>1, <2>3, ReportVisit DEF Visiting
  <1>10. CASE PassDone
    <2>1. OfTarget' = OfTarget /\ TargetReportsClean'
      BY <1>10 DEF PassDone, OfTarget, TargetReportsClean
    <2>2. ScrubTypeOK'
      BY <1>10 DEF PassDone, ScrubTypeOK
    <2>3. QED
      BY <1>1, <1>10, <2>1, <2>2 DEF PassDone, AtTarget, Visiting, Reading
  <1>11. QED
    BY <1>4, <1>5, <1>6, <1>7, <1>8, <1>9, <1>10 DEF Scrub

\* Every step keeps the returns of the target in step with its reports.
LEMMA NextVisit == IInv /\ VisitInv /\ [LiveNext]_<<vars, scrubVars>> => VisitInv'
  <1> SUFFICES ASSUME IInv, VisitInv, [LiveNext]_<<vars, scrubVars>> PROVE VisitInv'
    OBVIOUS
  <1>1. CASE Writers /\ crashes' = crashes
    BY <1>1, WritersVisit DEF Writers
  <1>2. CASE Writers /\ crashes' # crashes
    <2>1. /\ spc' = "idle" /\ due' = {} /\ loose' = {} /\ cur' = Target
          /\ fd' = None /\ reports' = <<>> /\ seen' = 0
      BY <1>2 DEF Writers
    <2>2. ScrubTypeOK' /\ TargetReportsClean' /\ OfTarget' = {}
      BY <2>1 DEF ScrubTypeOK, TargetReportsClean, OfTarget, Entry, Name
    <2>3. QED
      BY <2>1, <2>2, FS_EmptySet DEF VisitInv, AtTarget, Visiting, Reading
  <1>3. CASE Scrub /\ UNCHANGED vars
    BY <1>3, ScrubVisit
  <1>4. CASE UNCHANGED <<vars, scrubVars>>
    <2>1. UNCHANGED <<vars, crashes, dir, spc, due, loose, cur, fd, reports, seen>>
      BY <1>4 DEF vars, dirVars, scrubVars
    <2>2. QED
      BY <2>1, WritersVisit
  <1>5. QED
    BY <1>1, <1>2, <1>3, <1>4 DEF LiveNext

\* So it holds in every state of the scrubber beside the writers.
LEMMA VisitAlways == LiveSpec => []VisitInv
  <1>1. ASSUME ScrubInit PROVE VisitInv
    <2>1. ScrubTypeOK /\ TargetReportsClean /\ OfTarget = {}
      BY <1>1 DEF ScrubInit, ScrubTypeOK, TargetReportsClean, OfTarget, Entry, Name
    <2>2. QED
      BY <1>1, <2>1, FS_EmptySet DEF ScrubInit, VisitInv, AtTarget, Visiting, Reading
  <1>2. QED
    BY <1>1, NextVisit, Inductive, WritersUnwatched, PTL DEF LiveSpec

\* The scrubber's state always has its types.
THEOREM ScrubTypeCorrect == LiveSpec => []ScrubTypeOK
  <1>1. VisitInv => ScrubTypeOK
    BY DEF VisitInv
  <1>2. QED
    BY <1>1, VisitAlways, PTL

\* No scrub calls the target bad while writers replace it, die or lose power.
THEOREM TargetAlwaysClean == LiveSpec => []TargetReportsClean
  <1>1. VisitInv => TargetReportsClean
    BY DEF VisitInv
  <1>2. QED
    BY <1>1, VisitAlways, PTL

\* Every return of the target by read_dir ends in one report: no replacement
\* makes it vanish between the two opens or ends a visit early.
THEOREM TargetAlwaysVisited == LiveSpec => []TargetNeverSkipped
  <1>1. VisitInv => TargetNeverSkipped
    <2> SUFFICES ASSUME VisitInv, spc = "idle" PROVE Cardinality(OfTarget) = seen
      BY DEF TargetNeverSkipped, OfTarget
    <2>1. ~AtTarget
      BY DEF AtTarget, Visiting
    <2>2. Cardinality(OfTarget) \in Nat
      BY FS_CardinalityType DEF VisitInv
    <2>3. QED
      BY <2>1, <2>2 DEF VisitInv
  <1>2. QED
    BY <1>1, VisitAlways, PTL
==============================================================================
