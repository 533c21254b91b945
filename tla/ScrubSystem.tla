----------------------------- MODULE ScrubSystem -----------------------------
(***************************************************************************)
(* scrub_loop beside a directory that lives: files are created and         *)
(* replaced by atomic_write (whole at once, as AtomicFile promises),       *)
(* removed, and rot where they lie.  Every step of the loop is one of      *)
(* ScrubLoop that knows which files it is about.                           *)
(***************************************************************************)
EXTENDS ScrubLoop, FiniteSets, Sequences

CONSTANTS
    File,    \* the names of the directory
    NoFile   \* no name

ASSUME FilesFit == IsFiniteSet(File) /\ Cardinality(File) <= MaxFiles
ASSUME NoFileIsNone == NoFile \notin File

VARIABLES
    file,     \* file[n]: what is at name n
    due,      \* names the listing has still to return
    loose,    \* names the listing is free to return or not
    cur,      \* the name that looked like a hull and is to be scrubbed, or NoFile
    out,      \* the reports scrub_dir collects and the loop hands on, in order
    told,     \* the report on_report has been given, or NoReport
    unsound   \* history: names not always intact since this pass began

systemVars == <<file, due, loose, cur, out, told, unsound>>
allVars == <<vars, systemVars>>

\* What damage comes to for the scrubber (header.rs:96-144, scrub.rs:143-168).
\* "unseen": only where scrub_file does not look: version, flags, times, body
\* length and reserved bytes, the type of a section, the trailing CRC.
\* "rotten": a section that does not have the CRC, or a header that is not of
\* the form, that scrub_file asks for.  "masked": the magic is gone.
Damage == {"unseen", "rotten", "masked"}
Content == {"none", "intact"} \cup Damage
NoReport == [name |-> NoFile, outcome |-> "clean"]
Reports == [name : File, outcome : {"clean", "bad", "gone"}]

SystemInit ==
    /\ Init
    /\ file \in [File -> {"none", "intact"}]
    /\ due = {} /\ loose = {} /\ cur = NoFile /\ out = <<>> /\ told = NoReport
    /\ unsound = {}

\* Writers, the operator and the medium.
Change(n, to) ==
    /\ file' = [file EXCEPT ![n] = to]
    /\ unsound' = IF to = "intact" THEN unsound ELSE unsound \cup {n}
    /\ UNCHANGED <<vars, cur, out, told>>

\* A directory entry that is added, removed or replaced while read_dir is open
\* may be returned, several times even, or not.
Touch(n) ==
    /\ due' = due \ {n}
    /\ loose' = IF pc = "scrub" THEN loose \cup {n} ELSE loose

Replace(n) == Change(n, "intact") /\ Touch(n)
Remove(n) == file[n] # "none" /\ Change(n, "none") /\ Touch(n)
Rot(n) ==
    /\ \E damage \in Damage :
          /\ file[n] \in {"intact", "unseen"} \/ (file[n] = "rotten" /\ damage = "masked")
          /\ Change(n, damage)
    /\ UNCHANGED <<due, loose>>

\* scrub_dir opens the directory.
ListFiles ==
    /\ ListDir
    /\ due' = {n \in File : file[n] # "none"}
    /\ out' = <<>>
    /\ unsound' = {n \in File : file[n] # "intact"}
    /\ UNCHANGED <<file, loose, cur, told>>

\* The next entry.  The bound MaxFiles is kept by the loose names alone.
NextEntry(n) ==
    /\ pc = "scrub" /\ cur = NoFile
    /\ n \in due \/ (n \in loose /\ visited + Cardinality(due) < MaxFiles)
    /\ due' = due \ {n}
    /\ UNCHANGED loose

\* Mutant of Skip: an entry that is no hull file ends the pass.
Skip_EndsPass(n) ==
    /\ NextEntry(n)
    /\ file[n] \in {"none", "masked"}
    /\ ScrubDone
    /\ UNCHANGED <<file, cur, out, told, unsound>>

\* looks_like_hull says no: the file is gone or its first bytes are not MAGIC.
Skip(n) ==
    /\ NextEntry(n)
    /\ file[n] \in {"none", "masked"}
    /\ SkipNext
    /\ UNCHANGED <<file, cur, out, told, unsound>>

\* looks_like_hull says yes, and closes the file again.
Look(n) ==
    /\ NextEntry(n)
    /\ file[n] \in {"intact", "unseen", "rotten"}
    /\ cur' = n
    /\ UNCHANGED <<vars, file, out, told, unsound>>

\* Mutant of Verdict: the checksum goes on where the last file's ended.
Verdict_Carried(n) ==
    IF \E k \in 1 .. Len(out) : out[k].outcome = "bad" THEN "bad"
    ELSE CASE file[n] = "none" -> "gone"
           [] file[n] \in {"intact", "unseen"} -> "clean"
           [] OTHER -> "bad"

\* scrub_file opens the path anew; damaged magic is a header_error here.
Verdict(n) ==
    CASE file[n] = "none" -> "gone"
      [] file[n] \in {"intact", "unseen"} -> "clean"
      [] OTHER -> "bad"

ScrubFile ==
    /\ cur # NoFile
    /\ ScrubNext
    /\ out' = Append(out, [name |-> cur, outcome |-> Verdict(cur)])
    /\ cur' = NoFile
    /\ UNCHANGED <<file, due, loose, told, unsound>>

\* Mutant of Tell: the reports outlive the pass.
Tell_Kept ==
    /\ Report
    /\ told' = out[Len(out) - queue + 1]
    /\ UNCHANGED <<file, due, loose, cur, out, unsound>>

\* for report in ...: each report is handed over once, in the order of the scrub.
Tell ==
    /\ Report
    /\ told' = Head(out)
    /\ out' = Tail(out)
    /\ UNCHANGED <<file, due, loose, cur, unsound>>

\* The listing ends.
EndPass ==
    /\ cur = NoFile /\ due = {}
    /\ ScrubDone
    /\ loose' = {}
    /\ UNCHANGED <<file, due, cur, out, told, unsound>>

\* on_report is done with it.
Handed ==
    /\ CheckReported
    /\ told' = NoReport
    /\ UNCHANGED <<file, due, loose, cur, out, unsound>>

\* The other statements of the loop look at no file.
Other ==
    /\ CheckTop \/ ReportsDone \/ CheckPause \/ Sleep \/ PauseDone
    /\ UNCHANGED systemVars

Scrubber ==
    \/ ListFiles \/ ScrubFile \/ EndPass \/ Tell \/ Handed \/ Other
    \/ \E n \in File : Skip(n) \/ Look(n)

SystemNext ==
    \/ Scrubber
    \/ (SetStop \/ DropHandle) /\ UNCHANGED systemVars
    \/ \E n \in File : Replace(n) \/ Remove(n) \/ Rot(n)

SystemSpec == SystemInit /\ [][SystemNext]_allVars

\* The thread is scheduled; nobody else need ever do anything.
FairSystemSpec == SystemSpec /\ WF_allVars(Scrubber)

------------------------------------------------------------------------------
\* The loop's counters agree with what it works on: the entries still due
\* fit, and each report is counted.
SystemTypeOK ==
    /\ file \in [File -> Content]
    /\ due \subseteq File /\ loose \subseteq File
    /\ cur \in File \cup {NoFile}
    /\ told \in Reports \cup {NoReport}
    /\ unsound \subseteq File
    /\ \A k \in 1 .. Len(out) : out[k] \in Reports
    /\ queue = Len(out)
    /\ visited + Cardinality(due) + (IF cur = NoFile THEN 0 ELSE 1) <= MaxFiles

\* Rot that scrub_file can see is told to on_report, unless the file is
\* replaced, removed or damaged further first or the loop is stopped: no order
\* in which files come, go and rot between and during passes hides it, although
\* read_dir may miss what is touched while it is open (scrub.rs:10-11, "Bit rot:
\* silent sector flips on disk; the per-section CRC32C diverges").
RotSurfaces ==
    \A n \in File :
        file[n] = "rotten" ~>
            \/ pc = "reported" /\ told = [name |-> n, outcome |-> "bad"]
            \/ file[n] # "rotten" \/ stop

\* on_report is told nothing bad of a file that has been intact for the whole
\* pass, whatever happened to other files and in passes before.
AlarmJustified ==
    pc = "reported" /\ told.outcome # "clean" => told.name \in unsound
==============================================================================
