--------------------------- MODULE ScrubLoopProofs ---------------------------
(***************************************************************************)
(* Proofs about ScrubLoop and ScrubSystem, for any set of files, any slice *)
(* and any intervals.                                                      *)
(***************************************************************************)
EXTENDS ScrubSystem, FiniteSetTheorems, TLAPS

------------------------------------------------------------------------------
(***************************************************************************)
(* The loop.                                                               *)
(***************************************************************************)

LateKeys == {"passes", "files", "reports", "pause"}

\* The counters of what happened after the stop are counters.
LEMMA LateType ==
    /\ MaxLate \in Nat /\ MaxLate >= 1 /\ Slice <= MaxLate
    /\ NothingLate \in [LateKeys -> 0 .. MaxLate]
    /\ \A k \in LateKeys : NothingLate[k] = 0
  BY MaxFilesIsNat, SlicePositive DEF MaxLate, NothingLate, LateKeys

\* Counting keeps them so, adds to one of them and only once stop is set.
LEMMA Counts ==
    ASSUME late \in [LateKeys -> 0 .. MaxLate], NEW k \in LateKeys, NEW n \in Nat,
           Count(k, n)
    PROVE  /\ late' \in [LateKeys -> 0 .. MaxLate]
           /\ \A j \in LateKeys \ {k} : late'[j] = late[j]
           /\ late'[k] <= late[k] + n
           /\ ~stop => late' = late
  <1>1. MaxLate \in Nat
    BY LateType
  <1>2. Shorter(late[k] + n, MaxLate) \in 0 .. MaxLate
        /\ Shorter(late[k] + n, MaxLate) <= late[k] + n
    BY <1>1 DEF Shorter
  <1>3. QED
    BY <1>2 DEF Count

\* A pass has no more reports than entries, and a nap begins only where some
\* of the pause is left.
LoopInv ==
    /\ TypeOK
    /\ pc = "scrub" => queue <= visited
    /\ pc = "sleep" => slept < interval

\* Every step of the loop and of the owner keeps it.
LEMMA NextLoop == LoopInv /\ [Next]_vars => LoopInv'
  <1> SUFFICES ASSUME LoopInv, [Next]_vars PROVE LoopInv'
    OBVIOUS
  <1> USE MaxFilesIsNat, SlicePositive, IntervalsAreNat DEF LoopInv, TypeOK
  <1>1. late \in [LateKeys -> 0 .. MaxLate]
    BY DEF LateKeys
  <1>2. CASE ListDir
    <2>1. late' \in [LateKeys -> 0 .. MaxLate]
      BY <1>1, <1>2, Counts DEF ListDir, LateKeys
    <2>2. /\ pc' = "scrub" /\ visited' = 0 /\ queue' = 0
          /\ UNCHANGED <<interval, slept, stop, held, paused>>
      BY <1>2 DEF ListDir
    <2>3. QED
      BY <2>1, <2>2 DEF LateKeys
  <1>3. CASE SkipNext
    BY <1>3 DEF SkipNext
  <1>4. CASE ScrubNext
    BY <1>1, <1>4, Counts DEF ScrubNext, LateKeys
  <1>5. CASE Report
    BY <1>1, <1>5, Counts DEF Report, LateKeys
  <1>6. CASE Sleep
    <2>1. Shorter(Slice, interval - slept) \in Nat
      BY <1>6 DEF Sleep, Shorter
    <2>2. late' \in [LateKeys -> 0 .. MaxLate]
      BY <1>1, <1>6, <2>1, Counts DEF Sleep, LateKeys
    <2>3. QED
      BY <1>6, <2>1, <2>2 DEF Sleep, LateKeys
  <1>7. CASE CheckTop \/ ScrubDone \/ CheckReported \/ ReportsDone \/ CheckPause \/ PauseDone
    BY <1>7 DEF CheckTop, ScrubDone, CheckReported, ReportsDone, CheckPause, PauseDone
  <1>8. CASE SetStop \/ DropHandle
    BY <1>8 DEF SetStop, DropHandle
  <1>9. CASE UNCHANGED vars
    BY <1>9 DEF vars
  <1>10. QED
    BY <1>2, <1>3, <1>4, <1>5, <1>6, <1>7, <1>8, <1>9 DEF Next, Loop

\* So it holds in every state.
LEMMA LoopAlways == Spec => []LoopInv
  <1>1. Init => LoopInv
    <2>1. NothingLate \in [LateKeys -> 0 .. MaxLate]
      BY LateType
    <2>2. Init => late \in [{"passes", "files", "reports", "pause"} -> 0 .. MaxLate]
      BY <2>1 DEF Init, LateKeys
    <2>3. Init => stop \in BOOLEAN /\ held \in BOOLEAN
      BY DEF Init
    <2>4. Init => /\ visited \in 0 .. MaxFiles /\ queue \in 0 .. MaxFiles
                  /\ slept \in Nat /\ paused \in Nat
      BY MaxFilesIsNat DEF Init
    <2>5. QED
      BY <2>2, <2>3, <2>4 DEF Init, LoopInv, TypeOK
  <1>2. QED
    BY <1>1, NextLoop, PTL DEF Spec

\* The loop's state always has its types.
THEOREM LoopTypeCorrect == Spec => []TypeOK
  <1>1. LoopInv => TypeOK
    BY DEF LoopInv
  <1>2. QED
    BY <1>1, LoopAlways, PTL

\* What has been slept counts whole slices, but the time slept stops at the
\* interval.
PauseInv ==
    /\ pc \in {"pause", "sleep"} => paused = Shorter(slept, interval)
    /\ PauseIsInterval

\* Every pause between two passes lasts the interval, whatever it is.
THEOREM PauseAlwaysInterval == Spec => []PauseIsInterval
  <1>1. Init => PauseInv
    BY DEF Init, PauseInv, PauseIsInterval
  <1>2. LoopInv /\ PauseInv /\ [Next]_vars => PauseInv'
    <2> SUFFICES ASSUME LoopInv, PauseInv, [Next]_vars PROVE PauseInv'
      OBVIOUS
    <2> USE SlicePositive, IntervalsAreNat DEF LoopInv, TypeOK, PauseInv, PauseIsInterval, Shorter
    <2>1. CASE Sleep
      BY <2>1 DEF Sleep
    <2>2. CASE PauseDone \/ ReportsDone \/ CheckPause
      BY <2>2 DEF PauseDone, ReportsDone, CheckPause
    <2>3. CASE CheckTop \/ ListDir \/ SkipNext \/ ScrubNext \/ ScrubDone \/ Report \/ CheckReported
      BY <2>3 DEF CheckTop, ListDir, SkipNext, ScrubNext, ScrubDone, Report, CheckReported
    <2>4. CASE SetStop \/ DropHandle \/ UNCHANGED vars
      BY <2>4 DEF SetStop, DropHandle, vars
    <2>5. QED
      BY <2>1, <2>2, <2>3, <2>4 DEF Next, Loop
  <1>3. PauseInv => PauseIsInterval
    BY DEF PauseInv
  <1>4. QED
    BY <1>1, <1>2, <1>3, LoopAlways, PTL DEF Spec

\* What the loop can have done since the flag was set, by the statement it is
\* at: nothing where it goes on only with the flag unset.
LateInv ==
    /\ ~stop \/ pc \in {"list", "sleep"} => \A k \in {"passes", "reports", "pause"} : late[k] = 0
    /\ pc \in {"scrub", "report"} => late["reports"] = 0
    /\ pc \in {"scrub", "report", "reported"} => late["pause"] = 0
    /\ late["passes"] <= 1 /\ late["reports"] <= 1 /\ late["pause"] <= Slice
    /\ late["pause"] > 0 => late["passes"] = 0 /\ late["reports"] = 0

\* Every step keeps what is left to do after the stop in these bounds.
LEMMA NextLate == LoopInv /\ LateInv /\ [Next]_vars => LateInv'
  <1> SUFFICES ASSUME LoopInv, LateInv, [Next]_vars PROVE LateInv'
    OBVIOUS
  <1> USE SlicePositive, IntervalsAreNat DEF LateInv
  <1>1. late \in [LateKeys -> 0 .. MaxLate]
    BY DEF LoopInv, TypeOK, LateKeys
  <1>2. \A k \in LateKeys : late[k] \in Nat
    BY <1>1, LateType
  <1>3. LateKeys = {"passes", "files", "reports", "pause"}
    BY DEF LateKeys
  <1>4. ASSUME NEW k \in LateKeys, NEW n \in Nat, Count(k, n)
        PROVE  /\ \A j \in LateKeys \ {k} : late'[j] = late[j]
               /\ late'[k] <= late[k] + n /\ late'[k] \in Nat
               /\ ~stop => late' = late
    BY <1>1, <1>4, Counts, LateType
  <1>5. CASE ListDir
    BY <1>2, <1>3, <1>4, <1>5 DEF ListDir
  <1>6. CASE ScrubNext
    BY <1>2, <1>3, <1>4, <1>6 DEF ScrubNext
  <1>7. CASE Report
    BY <1>2, <1>3, <1>4, <1>7 DEF Report
  <1>8. CASE Sleep
    <2>1. Shorter(Slice, interval - slept) \in Nat /\ Shorter(Slice, interval - slept) <= Slice
      BY <1>8 DEF LoopInv, TypeOK, Sleep, Shorter
    <2>2. /\ \A j \in LateKeys \ {"pause"} : late'[j] = late[j]
          /\ late'["pause"] <= late["pause"] + Shorter(Slice, interval - slept)
          /\ late'["pause"] \in Nat
          /\ ~stop => late' = late
      BY <1>3, <1>4, <1>8, <2>1 DEF Sleep
    <2>3. QED
      BY <1>2, <1>3, <1>8, <2>1, <2>2 DEF Sleep
  <1>9. CASE CheckTop \/ SkipNext \/ ScrubDone \/ CheckReported \/ ReportsDone \/ CheckPause
             \/ PauseDone
    BY <1>9 DEF CheckTop, SkipNext, ScrubDone, CheckReported, ReportsDone, CheckPause, PauseDone
  <1>10. CASE SetStop \/ DropHandle \/ UNCHANGED vars
    BY <1>10 DEF SetStop, DropHandle, vars
  <1>11. QED
    BY <1>5, <1>6, <1>7, <1>8, <1>9, <1>10 DEF Next, Loop

\* Once stop is set at most one report, one nap and one pass are to come.
THEOREM StopAlwaysPrompt == Spec => []PromptStop
  <1>1. Init => LateInv
    BY LateType, SlicePositive DEF Init, LateInv, LateKeys
  <1>2. LateInv => PromptStop
    BY DEF LateInv, PromptStop
  <1>3. QED
    BY <1>1, <1>2, NextLate, LoopAlways, PTL DEF Spec

------------------------------------------------------------------------------
(***************************************************************************)
(* The loop among its files.                                               *)
(***************************************************************************)

\* Whatever happens to the files, the loop runs as ScrubLoop says: what is
\* proved of it above holds beside any writer.
THEOREM SystemRunsTheLoop == SystemSpec => Spec
  <1>1. SystemInit => Init
    BY DEF SystemInit
  <1>2. [SystemNext]_allVars => [Next]_vars
    <2> SUFFICES ASSUME SystemNext PROVE Next \/ UNCHANGED vars
      BY DEF allVars
    <2>1. CASE ListFiles \/ ScrubFile \/ EndPass \/ Tell \/ Handed \/ Other
      BY <2>1 DEF ListFiles, ScrubFile, EndPass, Tell, Handed, Other, Next, Loop
    <2>2. CASE \E n \in File : Skip(n) \/ Look(n)
      BY <2>2 DEF Skip, Look, Next, Loop
    <2>3. CASE SetStop \/ DropHandle
      BY <2>3 DEF Next
    <2>4. CASE \E n \in File : Replace(n) \/ Remove(n) \/ Rot(n)
      BY <2>4 DEF Replace, Remove, Rot, Change
    <2>5. QED
      BY <2>1, <2>2, <2>3, <2>4 DEF SystemNext, Scrubber
  <1>3. QED
    BY <1>1, <1>2, PTL DEF SystemSpec, Spec

\* What the loop works on while it is at a statement: names are left only
\* inside a pass, and the reports are reports.
SystemInv ==
    /\ SystemTypeOK
    /\ out \in Seq(Reports)
    /\ pc # "scrub" => cur = NoFile

\* Every step of the loop over files keeps the counters and the lists together.
LEMMA NextSystem == LoopInv /\ SystemInv /\ [SystemNext]_allVars => SystemInv'
  <1> SUFFICES ASSUME LoopInv, SystemInv, [SystemNext]_allVars PROVE SystemInv'
    OBVIOUS
  <1> USE NoFileIsNone DEF SystemInv, SystemTypeOK
  <1>1. IsFiniteSet(due) /\ Cardinality(due) \in Nat
    BY FilesFit, FS_Subset, FS_CardinalityType
  <1>2. \A n \in due : Cardinality(due \ {n}) = Cardinality(due) - 1
    BY <1>1, FS_RemoveElement
  <1>3. \A n : n \notin due => due \ {n} = due
    OBVIOUS
  <1>4. \A n : Cardinality(due \ {n}) \in Nat /\ Cardinality(due \ {n}) <= Cardinality(due)
    <2> TAKE n
    <2>1. due \ {n} \in SUBSET due
      OBVIOUS
    <2>2. IsFiniteSet(due \ {n}) /\ Cardinality(due \ {n}) <= Cardinality(due)
      BY <1>1, <2>1, FS_Subset
    <2>3. QED
      BY <2>2, FS_CardinalityType
  <1>5. visited \in 0 .. MaxFiles /\ MaxFiles \in Nat
    BY MaxFilesIsNat DEF LoopInv, TypeOK
  <1>6. ASSUME NEW n \in File, NextEntry(n)
        PROVE  /\ pc = "scrub" /\ cur = NoFile
               /\ due' \subseteq File /\ loose' = loose
               /\ visited + Cardinality(due') + 1 <= MaxFiles
    <2>1. pc = "scrub" /\ cur = NoFile /\ due' = due \ {n} /\ loose' = loose
      BY <1>6 DEF NextEntry
    <2>2. visited + Cardinality(due) <= MaxFiles
      BY <1>1, <1>5, <2>1
    <2>3. CASE n \in due
      BY <1>1, <1>2, <1>5, <2>1, <2>2, <2>3
    <2>4. CASE n \notin due
      <3>1. due' = due /\ visited + Cardinality(due) < MaxFiles
        BY <1>3, <1>6, <2>1, <2>4 DEF NextEntry
      <3>2. visited + Cardinality(due') < MaxFiles
        BY <3>1
      <3>3. due' \subseteq File /\ Cardinality(due') \in Nat
        BY <1>1, <3>1
      <3>4. visited + Cardinality(due') + 1 <= MaxFiles
        BY <1>5, <3>2, <3>3
      <3>5. QED
        BY <2>1, <3>3, <3>4
    <2>5. QED
      BY <2>3, <2>4
  <1>7. CASE ListFiles
    <2>1. out' = <<>> /\ cur' = NoFile
      BY <1>7 DEF ListFiles, ListDir
    <2>2. queue' = 0 /\ visited' = 0 /\ due' \subseteq File
      BY <1>7 DEF ListFiles, ListDir
    <2>3. UNCHANGED <<file, loose, told>> /\ unsound' \subseteq File
      BY <1>7 DEF ListFiles
    <2>4. Cardinality(due') \in Nat /\ Cardinality(due') <= Cardinality(File)
      BY <2>2, FilesFit, FS_Subset, FS_CardinalityType
    <2>5. Cardinality(File) \in Nat /\ Cardinality(File) <= MaxFiles
      BY FilesFit, FS_CardinalityType
    <2>6. visited' + Cardinality(due') + (IF cur' = NoFile THEN 0 ELSE 1) <= MaxFiles
      BY <1>5, <2>1, <2>2, <2>4, <2>5
    <2>7. QED
      BY <2>1, <2>2, <2>3, <2>6
  <1>8. ASSUME NEW n \in File, Skip(n) PROVE SystemInv'
    <2>1. visited' = visited + 1 /\ UNCHANGED <<pc, queue, file, cur, out, told, unsound>>
      BY <1>8 DEF Skip, SkipNext
    <2>2. NextEntry(n)
      BY <1>8 DEF Skip
    <2>3. Cardinality(due') \in Nat
      BY <1>4, <2>2 DEF NextEntry
    <2>4. visited + Cardinality(due') + 1 <= MaxFiles /\ cur' = NoFile
      BY <1>6, <2>1, <2>2
    <2>5. visited' + Cardinality(due') + (IF cur' = NoFile THEN 0 ELSE 1) <= MaxFiles
      BY <1>5, <2>1, <2>3, <2>4
    <2>6. QED
      BY <1>6, <2>1, <2>2, <2>5
  <1>9. ASSUME NEW n \in File, Look(n) PROVE SystemInv'
    <2>1. cur' = n /\ UNCHANGED <<pc, queue, visited, file, out, told, unsound>>
      BY <1>9 DEF Look, vars
    <2>2. NextEntry(n)
      BY <1>9 DEF Look
    <2>3. QED
      BY <1>6, <2>1, <2>2
  <1>10. CASE ScrubFile
    <2>1. Verdict(cur) \in {"clean", "bad", "gone"}
      BY DEF Verdict
    <2>2. [name |-> cur, outcome |-> Verdict(cur)] \in Reports
      BY <1>10, <2>1 DEF ScrubFile, Reports
    <2>3. out' \in Seq(Reports) /\ Len(out') = Len(out) + 1
      BY <1>10, <2>2 DEF ScrubFile
    <2>4. queue' = queue + 1 /\ visited' = visited + 1
      BY <1>10 DEF ScrubFile, ScrubNext
    <2>5. /\ pc' = "scrub" /\ cur # NoFile /\ cur' = NoFile
          /\ UNCHANGED <<file, due, loose, told, unsound>>
      BY <1>10 DEF ScrubFile, ScrubNext
    <2>6. visited' + Cardinality(due') + (IF cur' = NoFile THEN 0 ELSE 1) <= MaxFiles
      BY <1>1, <1>5, <2>4, <2>5
    <2>7. QED
      BY <2>3, <2>4, <2>5, <2>6
  <1>11. CASE EndPass
    <2>1. /\ visited' = 0 /\ pc' = "report" /\ loose' = {} /\ cur = NoFile
          /\ UNCHANGED <<queue, file, due, cur, out, told, unsound>>
      BY <1>11 DEF EndPass, ScrubDone
    <2>2. visited' + Cardinality(due') + (IF cur' = NoFile THEN 0 ELSE 1) <= MaxFiles
      BY <1>1, <1>5, <2>1
    <2>3. QED
      BY <2>1, <2>2
  <1>12. CASE Tell
    <2>1. out # <<>>
      BY <1>12 DEF Tell, Report
    <2>2. Head(out) \in Reports /\ Tail(out) \in Seq(Reports) /\ Len(Tail(out)) = Len(out) - 1
      BY <2>1
    <2>3. QED
      BY <1>12, <2>2 DEF Tell, Report
  <1>13. CASE Handed
    <2>1. pc' # "scrub" /\ pc # "scrub" /\ told' = NoReport
          /\ UNCHANGED <<visited, queue, file, due, loose, cur, out, unsound>>
      BY <1>13 DEF Handed, CheckReported
    <2>2. QED
      BY <2>1
  <1>14. CASE Other
    BY <1>14 DEF Other, systemVars, CheckTop, ReportsDone, CheckPause, Sleep, PauseDone
  <1>15. CASE (SetStop \/ DropHandle) /\ UNCHANGED systemVars
    BY <1>15 DEF SetStop, DropHandle, systemVars
  <1>16. ASSUME NEW n \in File, NEW to \in Content, Change(n, to),
                Touch(n) \/ UNCHANGED <<due, loose>>
         PROVE  SystemInv'
    <2>1. UNCHANGED <<pc, queue, visited, cur, out, told>>
      BY <1>16 DEF Change, vars
    <2>2. file' \in [File -> Content] /\ unsound' \subseteq File
      BY <1>16 DEF Change
    <2>3. due' \subseteq File /\ loose' \subseteq File
      BY <1>16 DEF Touch
    <2>4. due' = due \/ due' = due \ {n}
      BY <1>16 DEF Touch
    <2>5. Cardinality(due') \in Nat /\ Cardinality(due') <= Cardinality(due)
      <3>1. CASE due' = due
        BY <1>1, <3>1
      <3>2. CASE due' = due \ {n}
        BY <1>4, <3>2
      <3>3. QED
        BY <2>4, <3>1, <3>2
    <2>6. visited' + Cardinality(due') + (IF cur' = NoFile THEN 0 ELSE 1) <= MaxFiles
      BY <1>1, <1>5, <2>1, <2>5
    <2>7. QED
      BY <2>1, <2>2, <2>3, <2>6
  <1>17. CASE UNCHANGED allVars
    BY <1>17 DEF allVars, vars, systemVars
  <1>18. QED
    BY <1>7, <1>8, <1>9, <1>10, <1>11, <1>12, <1>13, <1>14, <1>15, <1>16, <1>17
       DEF SystemNext, Scrubber, Replace, Remove, Rot, Content, Damage

\* So they agree in every state.
LEMMA SystemAlways == SystemSpec => [](LoopInv /\ SystemInv)
  <1>1. SystemInit => SystemInv
    <2> SUFFICES ASSUME SystemInit PROVE SystemInv
      OBVIOUS
    <2>1. Cardinality({}) = 0
      BY FS_EmptySet
    <2>2. file \in [File -> Content]
      BY DEF SystemInit, Content
    <2>3. visited = 0 /\ queue = 0 /\ due = {} /\ loose = {} /\ cur = NoFile /\ out = <<>>
          /\ told = NoReport /\ unsound = {}
      BY DEF SystemInit, Init
    <2>4. visited + Cardinality(due) + (IF cur = NoFile THEN 0 ELSE 1) <= MaxFiles
      BY <2>1, <2>3, MaxFilesIsNat
    <2>5. QED
      BY <2>2, <2>3, <2>4 DEF SystemInv, SystemTypeOK
  <1>2. QED
    BY <1>1, NextSystem, SystemRunsTheLoop, LoopAlways, PTL DEF SystemSpec

\* The counters of the loop are the numbers of entries and of reports it has.
THEOREM SystemTypeCorrect == SystemSpec => []SystemTypeOK
  <1>1. SystemInv => SystemTypeOK
    BY DEF SystemInv
  <1>2. QED
    BY <1>1, SystemAlways, PTL

\* From the listing on, a name that is not intact now is one that has not been
\* intact throughout, and so is every name that a report of the pass accuses.
AlarmInv ==
    /\ pc \in {"scrub", "report", "reported"} =>
          /\ \A n \in File : file[n] # "intact" => n \in unsound
          /\ \A k \in 1 .. Len(out) : out[k].outcome # "clean" => out[k].name \in unsound
    /\ AlarmJustified

\* Every step keeps a bad report about a file that was not intact all the time.
LEMMA NextAlarm == SystemInv /\ AlarmInv /\ [SystemNext]_allVars => AlarmInv'
  <1> SUFFICES ASSUME SystemInv, AlarmInv, [SystemNext]_allVars PROVE AlarmInv'
    OBVIOUS
  <1> USE DEF SystemInv, SystemTypeOK, AlarmInv, AlarmJustified
  <1>1. CASE ListFiles
    BY <1>1 DEF ListFiles, ListDir
  <1>2. ASSUME NEW n \in File, Skip(n) \/ Look(n) PROVE AlarmInv'
    BY <1>2 DEF Skip, Look, SkipNext, NextEntry, vars
  <1>3. CASE ScrubFile
    <2>1. pc = "scrub" /\ pc' = "scrub" /\ UNCHANGED <<file, unsound>> /\ cur \in File
      BY <1>3 DEF ScrubFile, ScrubNext
    <2>2. Verdict(cur) # "clean" => cur \in unsound
      BY <2>1 DEF Verdict
    <2>3. \A k \in 1 .. Len(out') :
            \/ k \in 1 .. Len(out) /\ out'[k] = out[k]
            \/ out'[k] = [name |-> cur, outcome |-> Verdict(cur)]
      BY <1>3 DEF ScrubFile
    <2>4. \A k \in 1 .. Len(out') : out'[k].outcome # "clean" => out'[k].name \in unsound
      BY <2>1, <2>2, <2>3
    <2>5. QED
      BY <2>1, <2>4
  <1>4. CASE EndPass
    BY <1>4 DEF EndPass, ScrubDone
  <1>5. CASE Tell
    <2>1. out # <<>> /\ pc = "report" /\ pc' = "reported" /\ UNCHANGED <<file, unsound>>
      BY <1>5 DEF Tell, Report
    <2>2. told' = out[1] /\ 1 \in 1 .. Len(out)
      BY <1>5, <2>1 DEF Tell
    <2>3. \A k \in 1 .. Len(out') : k + 1 \in 1 .. Len(out) /\ out'[k] = out[k + 1]
      BY <1>5, <2>1 DEF Tell
    <2>4. QED
      BY <2>1, <2>2, <2>3
  <1>6. CASE Handed
    BY <1>6 DEF Handed, CheckReported
  <1>7. CASE Other
    BY <1>7 DEF Other, systemVars, CheckTop, ReportsDone, CheckPause, Sleep, PauseDone
  <1>8. CASE (SetStop \/ DropHandle) /\ UNCHANGED systemVars
    BY <1>8 DEF SetStop, DropHandle, systemVars
  <1>9. ASSUME NEW n \in File, NEW to \in Content, Change(n, to) PROVE AlarmInv'
    BY <1>9 DEF Change, vars
  <1>10. CASE UNCHANGED allVars
    BY <1>10 DEF allVars, vars, systemVars
  <1>11. QED
    BY <1>1, <1>2, <1>3, <1>4, <1>5, <1>6, <1>7, <1>8, <1>9, <1>10
       DEF SystemNext, Scrubber, Replace, Remove, Rot, Content, Damage

\* No file that was intact throughout a pass is told to be damaged or gone.
THEOREM AlarmAlwaysJustified == SystemSpec => []AlarmJustified
  <1>1. SystemInit => AlarmInv
    BY DEF SystemInit, Init, AlarmInv, AlarmJustified
  <1>2. AlarmInv => AlarmJustified
    BY DEF AlarmInv
  <1>3. QED
    BY <1>1, <1>2, NextAlarm, SystemAlways, PTL DEF SystemSpec
==============================================================================
