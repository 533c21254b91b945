------------------------------- MODULE ScrubDir -------------------------------
(***************************************************************************)
(* scrub_dir and scrub_file of scrub.rs, run by one thread over the        *)
(* directory in which the calls of AtomicWrite replace their target.  The  *)
(* payloads are undamaged hull images of at most Chunks writes, so what a  *)
(* scrub finds depends on how much of the image is in the inode it opened. *)
(***************************************************************************)
EXTENDS AtomicWrite, Sequences

CONSTANTS
    MagicAt,     \* chunks needed to find the magic
    HeaderAt,    \* chunks needed to parse the header and section table
    SectionsAt,  \* chunks that hold every section (the trailer follows)
    MaxReports   \* bound: reports of a pass that may be followed by a name
                 \* read_dir is free to return

ASSUME ImageLayout ==
    /\ {MagicAt, HeaderAt, SectionsAt} \subseteq 1 .. Chunks
    /\ MagicAt <= HeaderAt /\ HeaderAt <= SectionsAt

VARIABLES
    spc,       \* the statement the scrubber is about to execute
    due,       \* names the listing has still to return
    loose,     \* names the listing is free to return or not
    cur,       \* the name being scrubbed
    fd,        \* the inode it has open there
    reports,   \* out: the reports collected, in order
    seen       \* history: how often read_dir returned the target

scrubVars == <<spc, due, loose, cur, fd, reports, seen>>

\* The outcome of a scrub: clean, or the step that found the file bad.
Outcome == {"clean", "open", "header", "section"}
Reports == [name : Name, outcome : Outcome]

ScrubInit ==
    /\ spc = "idle"
    /\ due = {}
    /\ loose = {}
    /\ cur = Target
    /\ fd = None
    /\ reports = <<>>
    /\ seen = 0

\* read_dir opens the directory; its entries come one by one, while the loop
\* works.  What is linked now comes once, as long as nobody touches the entry.
ReadDir ==
    /\ spc = "idle"
    /\ due' = {n \in Name : dir[n] # None}
    /\ loose' = {}
    /\ reports' = <<>>
    /\ seen' = 0
    /\ spc' = "next"
    /\ UNCHANGED <<cur, fd>>

\* It may not be open to us: then nothing is reported.
ReadDirFails ==
    /\ spc = "idle"
    /\ reports' = <<>>
    /\ seen' = 0
    /\ UNCHANGED <<spc, due, loose, cur, fd>>

\* Entries added, removed or replaced since may come, several times even, or
\* not (POSIX leaves it open); a name may come when it is gone.
ListingFollows ==
    LET touched == {n \in Name : dir'[n] # dir[n]}
    IN /\ due' = due \ touched
       /\ loose' = IF spc = "idle" THEN {} ELSE loose \cup touched

\* The iterator's next entry.
NextEntry(n) ==
    /\ spc = "next"
    /\ n \in due \/ (n \in loose /\ Len(reports) < MaxReports)
    /\ due' = due \ {n}
    /\ cur' = n
    /\ seen' = IF n = Target THEN seen + 1 ELSE seen
    /\ UNCHANGED <<loose, reports>>

\* Mutant of Peek: a name that is gone is read all the same.
Peek_Unchecked(n) ==
    /\ NextEntry(n)
    /\ fd' = dir[n]
    /\ spc' = "magic"

\* looks_like_hull opens the entry, or skips a name that is gone.
Peek(n) ==
    /\ NextEntry(n)
    /\ fd' = dir[n]
    /\ spc' = IF dir[n] = None THEN "next" ELSE "magic"

\* read_exact of the magic: a shorter file is skipped without a report.
ReadMagic ==
    /\ spc = "magic"
    /\ spc' = IF len[fd] >= MagicAt THEN "open" ELSE "next"
    /\ UNCHANGED <<due, loose, cur, fd, reports, seen>>

\* out.push(...)
Reported(outcome) ==
    /\ reports' = Append(reports, [name |-> cur, outcome |-> outcome])
    /\ spc' = "next"
    /\ UNCHANGED <<due, loose, cur, seen>>

\* scrub_file opens the path again: the name may be gone or lead elsewhere.
ScrubOpen ==
    /\ spc = "open"
    /\ fd' = dir[cur]
    /\ IF dir[cur] = None
         THEN Reported("open")
         ELSE spc' = "header" /\ UNCHANGED <<due, loose, cur, reports, seen>>

\* Header::read; UnexpectedEof is Truncated and becomes header_error.
ReadHeader ==
    /\ spc = "header"
    /\ UNCHANGED fd
    /\ IF len[fd] < HeaderAt
         THEN Reported("header")
         ELSE spc' = "sections" /\ UNCHANGED <<due, loose, cur, reports, seen>>

\* verify_section of each section: end of file before its last byte is a
\* ReadError.  The trailing file CRC is not read.
VerifySections ==
    /\ spc = "sections"
    /\ UNCHANGED fd
    /\ Reported(IF len[fd] < SectionsAt THEN "section" ELSE "clean")

\* The listing ends.
PassDone ==
    /\ spc = "next"
    /\ due = {}
    /\ loose' = {}
    /\ spc' = "idle"
    /\ UNCHANGED <<due, cur, fd, reports, seen>>

Scrub ==
    \/ ReadDir \/ ReadDirFails
    \/ \E n \in Name : Peek(n)
    \/ ReadMagic \/ ScrubOpen \/ ReadHeader \/ VerifySections
    \/ PassDone

\* A power loss takes the scrubber too, and what it had collected.
Writers ==
    /\ Next
    /\ IF crashes' = crashes
         THEN ListingFollows /\ UNCHANGED <<spc, cur, fd, reports, seen>>
         ELSE /\ spc' = "idle" /\ due' = {} /\ loose' = {} /\ cur' = Target
              /\ fd' = None /\ reports' = <<>> /\ seen' = 0

LiveNext == Writers \/ (Scrub /\ UNCHANGED vars)

LiveSpec == Init /\ ScrubInit /\ [][LiveNext]_<<vars, scrubVars>>

------------------------------------------------------------------------------
\* The scrubber's variables have their types, and whenever it reads it has a
\* file open.
ScrubTypeOK ==
    /\ spc \in {"idle", "next", "magic", "open", "header", "sections"}
    /\ due \subseteq Name
    /\ loose \subseteq Name
    /\ cur \in Name
    /\ fd \in Entry
    /\ spc \in {"magic", "header", "sections"} => fd # None
    /\ reports \in Seq(Reports)
    /\ seen \in Nat

\* The scrubber never calls the target bad while writers replace it, die or
\* lose power: it observes whichever complete inode rename made visible when
\* it opened the file (scrub.rs:25-27).
TargetReportsClean ==
    \A k \in 1 .. Len(reports) : reports[k].name = Target => reports[k].outcome = "clean"

\* Every time read_dir returns the target, it is reported, once: no replacement
\* makes it vanish between the listing, the open of looks_like_hull and that of
\* scrub_file, nor end a visit of it early.
TargetNeverSkipped ==
    spc = "idle" => Cardinality({k \in 1 .. Len(reports) : reports[k].name = Target}) = seen

\* With every writer using atomic_write and none dying, nothing the scrubber
\* reports is bad (scrub.rs:23-27: "if a writer is rotating the file while the
\* scrubber walks it, results are undefined.  Hull's contract assumes writers use
\* atomic_write (temp + rename); the scrubber observes whichever inode rename
\* made visible at the moment it opened the file").
NoFalseAlarm ==
    \A k \in 1 .. Len(reports) : reports[k].outcome = "clean"
==============================================================================
