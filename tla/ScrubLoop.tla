------------------------------- MODULE ScrubLoop -------------------------------
(***************************************************************************)
(* scrub_loop of scrub.rs: one thread scrubs a directory, reports, pauses  *)
(* and begins again until the stop flag it shares with its owner is set.   *)
(* Directory entries are counted, not told apart; ScrubSystem gives them   *)
(* names and contents, ScrubDir follows the scrub of one pass.             *)
(***************************************************************************)
EXTENDS Naturals

CONSTANTS
    MaxFiles,    \* bound: entries read_dir returns in one pass
    Slice,       \* the 100 ms of one sleep, in the units of the model
    Intervals    \* the values of the parameter interval

ASSUME MaxFilesIsNat == MaxFiles \in Nat
ASSUME SlicePositive == Slice \in Nat \ {0}
ASSUME IntervalsAreNat == Intervals \subseteq Nat

VARIABLES
    pc,         \* the statement the loop is about to execute
    interval,   \* the parameter
    visited,    \* entries scrub_dir has visited in this pass
    queue,      \* reports of this pass not yet handed to on_report
    slept,      \* the local of that name
    stop,       \* the AtomicBool
    held,       \* the owner still holds its Arc of it
    paused,     \* history: time really slept since the pass ended
    late        \* history: what the loop did after stop was set

vars == <<pc, interval, visited, queue, slept, stop, held, paused, late>>

NothingLate == [passes |-> 0, files |-> 0, reports |-> 0, pause |-> 0]

Init ==
    /\ pc = "top"
    /\ interval \in Intervals
    /\ visited = 0
    /\ queue = 0
    /\ slept = 0
    /\ stop = FALSE
    /\ held = TRUE
    /\ paused = 0
    /\ late = NothingLate

\* The owner's two moves.
SetStop ==
    /\ held
    /\ ~stop
    /\ stop' = TRUE
    /\ UNCHANGED <<pc, interval, visited, queue, slept, held, paused, late>>

DropHandle ==
    /\ held
    /\ held' = FALSE
    /\ UNCHANGED <<pc, interval, visited, queue, slept, stop, paused, late>>

Shorter(a, b) == IF a < b THEN a ELSE b

\* One more of what happened after the flag was set, counted up to MaxLate,
\* which is more than any property allows.
MaxLate == MaxFiles + Slice + 1
Count(what, n) ==
    late' = IF stop THEN [late EXCEPT ![what] = Shorter(@ + n, MaxLate)] ELSE late

\* Mutant of CheckTop: the flag is only looked at inside the inner loops.
CheckTop_Unchecked ==
    /\ pc = "top"
    /\ pc' = "list"
    /\ UNCHANGED <<interval, visited, queue, slept, stop, held, paused, late>>

\* if stop.load() { return }, at the top of the loop
CheckTop ==
    /\ pc = "top"
    /\ pc' = IF stop THEN "returned" ELSE "list"
    /\ UNCHANGED <<interval, visited, queue, slept, stop, held, paused, late>>

\* scrub_dir opens the directory; its entries come while it works, as many as
\* there are by then.
ListDir ==
    /\ pc = "list"
    /\ visited' = 0
    /\ queue' = 0
    /\ pc' = "scrub"
    /\ Count("passes", 1)
    /\ UNCHANGED <<interval, slept, stop, held, paused>>

\* scrub_dir visits an entry that is no regular file, is gone or does not begin
\* with the magic.
SkipNext ==
    /\ pc = "scrub"
    /\ visited < MaxFiles
    /\ visited' = visited + 1
    /\ UNCHANGED <<pc, interval, queue, slept, stop, held, paused, late>>

\* scrub_dir scrubs one file and keeps its report.
ScrubNext ==
    /\ pc = "scrub"
    /\ visited < MaxFiles
    /\ visited' = visited + 1
    /\ queue' = queue + 1
    /\ Count("files", 1)
    /\ UNCHANGED <<pc, interval, slept, stop, held, paused>>

\* The listing ends.
ScrubDone ==
    /\ pc = "scrub"
    /\ visited' = 0
    /\ pc' = "report"
    /\ UNCHANGED <<interval, queue, slept, stop, held, paused, late>>

\* for report in scrub_dir(&dir) { on_report(&report); ...
Report ==
    /\ pc = "report"
    /\ queue > 0
    /\ queue' = queue - 1
    /\ pc' = "reported"
    /\ Count("reports", 1)
    /\ UNCHANGED <<interval, visited, slept, stop, held, paused>>

\* Mutant of CheckReported: all reports are handed out before the flag counts.
CheckReported_Skipped ==
    /\ pc = "reported"
    /\ pc' = "report"
    /\ UNCHANGED <<interval, visited, queue, slept, stop, held, paused, late>>

\* ... if stop.load() { return } }
CheckReported ==
    /\ pc = "reported"
    /\ pc' = IF stop THEN "returned" ELSE "report"
    /\ UNCHANGED <<interval, visited, queue, slept, stop, held, paused, late>>

ReportsDone ==
    /\ pc = "report"
    /\ queue = 0
    /\ slept' = 0
    /\ paused' = 0
    /\ pc' = "pause"
    /\ UNCHANGED <<interval, visited, queue, stop, held, late>>

\* Mutant of CheckPause: the pause ends by the flag alone.
CheckPause_Unbounded ==
    /\ pc = "pause"
    /\ pc' = IF stop THEN "returned" ELSE "sleep"
    /\ UNCHANGED <<interval, visited, queue, slept, stop, held, paused, late>>

\* while slept < interval { if stop.load() { return } ...
CheckPause ==
    /\ pc = "pause"
    /\ slept < interval
    /\ pc' = IF stop THEN "returned" ELSE "sleep"
    /\ UNCHANGED <<interval, visited, queue, slept, stop, held, paused, late>>

\* Mutant of Sleep: always a whole slice.
Sleep_WholeSlice ==
    /\ pc = "sleep"
    /\ paused' = paused + Slice
    /\ Count("pause", Slice)
    /\ slept' = slept + Slice
    /\ pc' = "pause"
    /\ UNCHANGED <<interval, visited, queue, stop, held>>

\* ... sleep(slice.min(interval - slept)); slept += slice }
Sleep ==
    /\ pc = "sleep"
    /\ LET nap == Shorter(Slice, interval - slept)
       IN paused' = paused + nap /\ Count("pause", nap)
    /\ slept' = slept + Slice
    /\ pc' = "pause"
    /\ UNCHANGED <<interval, visited, queue, stop, held>>

PauseDone ==
    /\ pc = "pause"
    /\ slept >= interval
    /\ pc' = "top"
    /\ UNCHANGED <<interval, visited, queue, slept, stop, held, paused, late>>

Loop ==
    \/ CheckTop
    \/ ListDir \/ SkipNext \/ ScrubNext \/ ScrubDone
    \/ Report \/ CheckReported \/ ReportsDone
    \/ CheckPause \/ Sleep \/ PauseDone

Next == Loop \/ SetStop \/ DropHandle

Spec == Init /\ [][Next]_vars

\* The thread is scheduled; the owner need never do anything.
FairSpec == Spec /\ WF_vars(Loop)

------------------------------------------------------------------------------
\* Every variable has its type (scrub_loop's locals and parameters).
TypeOK ==
    /\ pc \in {"top", "list", "scrub", "report", "reported", "pause", "sleep",
               "returned"}
    /\ interval \in Intervals
    /\ visited \in 0 .. MaxFiles
    /\ queue \in 0 .. MaxFiles
    /\ slept \in Nat
    /\ stop \in BOOLEAN
    /\ held \in BOOLEAN
    /\ paused \in Nat
    /\ late \in [{"passes", "files", "reports", "pause"} -> 0 .. MaxLate]

\* Once stop is set, at most one on_report, one nap of 100 ms and one pass
\* that was past its check are still to come: the checks of scrub.rs:328, 333
\* and 341 are placed so that none of them lets a second one through.
PromptStop ==
    /\ late.passes <= 1
    /\ late.reports <= 1
    /\ late.pause <= Slice
    /\ late.pause > 0 => late.passes = 0 /\ late.reports = 0

\* Between two passes the thread sleeps the whole interval and no more, also
\* when it is not a multiple of 100 ms, although slept overshoots.
PauseIsInterval == pc = "top" /\ slept > 0 => paused = interval

\* Every set of the flag ends the loop (scrub.rs:291: "Returns when stop is
\* set"), from whichever statement it overtakes.
StopReturns == stop ~> pc = "returned"

\* Setting the flag overtakes a pass at the next file (scrub.rs:319-321: "a
\* stop signal mid-pass aborts at the next file boundary").
StopsAtNextFile == late.files <= 1

\* Dropping the owner's Arc ends the loop (scrub.rs:294-295: "Drop the
\* Arc<AtomicBool> to signal stop").
DropReturns == ~held ~> pc = "returned"
==============================================================================
