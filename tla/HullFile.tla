------------------------------- MODULE HullFile -------------------------------
(***************************************************************************)
(* A hull file under its writers (write_saga, write_kv_cache), its readers *)
(* (read_saga, read_kv_cache), scrub_file and damage.  The file is a       *)
(* sequence of cells: the header, one cell per section table entry, the    *)
(* cells of the payloads, the trailer.  Offsets and lengths count cells.   *)
(* The writer overwrites an open file in place, as a caller of the public  *)
(* writers may, and can be killed between any two cells; a reader copies   *)
(* the file cell by cell meanwhile.                                        *)
(***************************************************************************)
EXTENDS Naturals, Sequences, SequencesExt, FiniteSets

CONSTANTS
    Values,       \* what the writers are given: records, see below
    MaxEvents     \* bound: writes begun, cells damaged and truncations

Formats == {"saga", "kv"}
Entries == {"right", "wrong", "outside"}

\* sections: the payload types in file order with their lengths in cells, and
\* what the table says of each: "right", a "wrong" checksum, or a place
\* "outside" the file.  The writers of this crate make right entries only.
\* encodes: the encoders accept the value (dimensions and string lengths).
\* declares: what one section says of another's length, the centroid count
\* in "meta" and expected_blob_bytes of "shape".  write_saga counts the
\* centroids itself; write_kv_cache takes shape and blob as they come.
\* Version 2, sections of other types, missing sections and entries that are
\* not right are what other writers of the format may produce.
\* meta and shape have a fixed size, which is not 0.
ASSUME ValuesAreRecords ==
    \A v \in Values :
        /\ v \in [id : STRING, format : Formats, version : Nat, encodes : BOOLEAN,
                  declares : Nat,
                  sections : Seq([type : STRING, cells : Nat, entry : Entries])]
        /\ \A j \in DOMAIN v.sections :
              v.sections[j].type \in {"meta", "shape"} => v.sections[j].cells > 0
ASSUME BoundIsNat == MaxEvents \in Nat

VARIABLES
    file,       \* the cells on disk
    writing,    \* the value being written in place, or NoValue
    wrote,      \* cells of its image written so far
    begun,      \* history: the values whose write has begun
    events,     \* calls of the writers and damage so far
    reading,    \* the format the reader expects, or "none"
    buf,        \* the reader's copy so far
    result      \* what the last finished read returned

diskVars == <<file, writing, wrote, begun, events>>
readVars == <<reading, buf, result>>
vars == <<diskVars, readVars>>

NoValue == [id |-> "none"]

------------------------------------------------------------------------------
(***************************************************************************)
(* The image: crc32c, Header::write, write_saga and write_kv_cache.        *)
(***************************************************************************)

\* Different contents have different checksums (no CRC32C collision).
Crc(cells) == <<"crc32c", cells>>
WrongCrc == <<"wrong">>

HeaderCells == 1
TrailerCells == 1

Payload(v, j) ==
    [k \in 1 .. v.sections[j].cells |->
        [kind |-> "data", of |-> v.id, part |-> j, at |-> k, declares |-> v.declares]]

\* Where the sections begin: after the header, the table and the payloads
\* before.
Offsets(v) ==
    LET at[j \in 1 .. Len(v.sections)] ==
            IF j = 1 THEN HeaderCells + Len(v.sections)
                     ELSE at[j - 1] + v.sections[j - 1].cells
    IN at

HeaderOf(v) == [kind |-> "header", magic |-> TRUE, format |-> v.format,
                version |-> v.version, table |-> TRUE, count |-> Len(v.sections), rest |-> "intact"]

\* The first byte behind the file.
Outside(v) == LET n == Len(v.sections)
              IN Offsets(v)[n] + v.sections[n].cells + TrailerCells

EntryOf(v, j) ==
    LET section == v.sections[j]
    IN [kind |-> "entry", type |-> section.type, cells |-> section.cells,
        offset |-> IF section.entry = "outside" THEN Outside(v) ELSE Offsets(v)[j],
        checksum |-> IF section.entry = "wrong" THEN WrongCrc ELSE Crc(Payload(v, j))]

\* Header, table and payloads, assembled in memory.
Body(v) ==
    LET n == Len(v.sections)
    IN <<HeaderOf(v)>> \o [j \in 1 .. n |-> EntryOf(v, j)]
                      \o FlattenSeq([j \in 1 .. n |-> Payload(v, j)])

\* The CRC of all that comes before it.
Trailer(cells) == [kind |-> "trailer", crc |-> Crc(cells)]

Image(v) == Append(Body(v), Trailer(Body(v)))

------------------------------------------------------------------------------
(***************************************************************************)
(* The readers.                                                            *)
(***************************************************************************)
Error(e) == [ok |-> FALSE, error |-> e]

\* Table entries are 28 bytes of whatever is at their place; bytes that are
\* not an entry give one whose checksum does not fit.
AsEntry(cell) ==
    IF cell.kind = "entry" THEN cell
    ELSE [kind |-> "entry", type |-> "garbage", offset |-> 0, cells |-> 1,
          checksum |-> Crc(<<>>)]

\* Header::read: the version is carried along, not judged.
ReadHeader(cells) ==
    IF Len(cells) < HeaderCells THEN Error("Truncated")
    ELSE LET h == cells[1] IN
         IF ~h.magic THEN Error("MagicMismatch")
         ELSE IF h.format = "unknown" THEN Error("UnknownFormat")
         ELSE IF ~h.table THEN Error("Malformed")
         ELSE IF Len(cells) < HeaderCells + h.count THEN Error("Truncated")
         ELSE [ok |-> TRUE, format |-> h.format, version |-> h.version,
               sections |-> [j \in 1 .. h.count |-> AsEntry(cells[HeaderCells + j])]]

\* check_compatibility: version 1 is the highest supported of each format.
Compatible(version) == version # 0 /\ version <= 1

Required(format) == IF format = "saga" THEN <<"meta", "centroids", "tags">>
                                       ELSE <<"identity", "shape", "blob">>

\* Mutant of Locate: the first entry wins.
Locate_First(sections, type) == SelectInSeq(sections, LAMBDA e : e.type = type)

\* The entry of a type: the last one wins, other types are ignored.
Locate(sections, type) == SelectLastInSeq(sections, LAMBDA e : e.type = type)

Cells(all, e) == SubSeq(all, e.offset + 1, e.offset + e.cells)

\* read_section and the CRC of one located section.
SectionError(all, e) ==
    IF e.offset + e.cells > Len(all) - TrailerCells THEN "Truncated"
    ELSE IF Crc(Cells(all, e)) # e.checksum THEN "SectionChecksumFailed"
    ELSE "none"

\* Decoding what the CRCs vouch for fails only where two sections disagree:
\* centroid::decode against the count in "meta", and read_kv_cache's size
\* check of the blob against the shape.  The place of the section so checked:
Sized(format) == IF format = "saga" THEN 2 ELSE 3

\* The required sections in turn: each is located in the copy, compared with
\* its CRC and decoded before the next is looked at.
Sections(all, format, entry) ==
    LET bad == SelectInSeq(entry, LAMBDA e : SectionError(all, e) # "none")
        sized == Sized(format)
    IN IF bad \in 1 .. sized THEN Error(SectionError(all, entry[bad]))
       ELSE IF Cells(all, entry[sized - 1])[1].declares # entry[sized].cells
              THEN Error("Malformed")
       ELSE IF bad # 0 THEN Error(SectionError(all, entry[bad]))
       ELSE [ok |-> TRUE, payloads |-> [k \in DOMAIN entry |-> Cells(all, entry[k])]]

\* Mutant of TrailerFits: the trailing CRC is stripped unread.
TrailerFits_Unread(all) == Len(all) > 0

\* The last four bytes are the CRC of all before them.
TrailerFits(all) == Last(all) = Trailer(Front(all))

\* read_saga and read_kv_cache on a copy of the file, check by check.
Read(all, format) ==
    IF Len(all) < HeaderCells + TrailerCells THEN Error("Truncated")
    ELSE LET body == Front(all)
             header == ReadHeader(body)
             req == Required(format)
             at == [j \in DOMAIN req |-> Locate(header.sections, req[j])]
             entry == [j \in DOMAIN req |-> header.sections[at[j]]]
         IN IF ~TrailerFits(all) THEN Error("FileChecksumFailed")
            ELSE IF ~header.ok THEN header
            ELSE IF header.format # format THEN Error("FormatMismatch")
            ELSE IF ~Compatible(header.version) THEN Error("UnsupportedVersion")
            ELSE IF \E j \in DOMAIN req : at[j] = 0 THEN Error("MissingSection")
            ELSE Sections(all, format, entry)

------------------------------------------------------------------------------
(***************************************************************************)
(* scrub_file.                                                             *)
(***************************************************************************)

\* Mutants of Verify: the section next to the trailer counts as cut off; the
\* checksum is not compared.
Verify_EndsEarly(cells, e) ==
    IF e.cells > 0 /\ e.offset + e.cells >= Len(cells) - TrailerCells THEN "ReadError"
    ELSE IF Crc(Cells(cells, e)) # e.checksum THEN "ChecksumMismatch"
    ELSE "Ok"
Verify_LengthOnly(cells, e) ==
    IF e.cells > 0 /\ e.offset + e.cells > Len(cells) THEN "ReadError" ELSE "Ok"

\* verify_section: it reads up to the end of the file, trailer included, and
\* nothing for an empty section.
Verify(cells, e) ==
    IF e.cells > 0 /\ e.offset + e.cells > Len(cells) THEN "ReadError"
    ELSE IF Crc(Cells(cells, e)) # e.checksum THEN "ChecksumMismatch"
    ELSE "Ok"

\* Neither the version nor the trailing CRC is looked at.
ScrubFile(cells) ==
    LET h == ReadHeader(cells)
    IN IF ~h.ok THEN [header |-> h.error, findings |-> <<>>]
       ELSE [header |-> "none",
             findings |-> [j \in DOMAIN h.sections |->
                 [type |-> h.sections[j].type, outcome |-> Verify(cells, h.sections[j])]]]

Bad(finding) == finding.outcome # "Ok"
IsClean(report) == report.header = "none" /\ \A j \in DOMAIN report.findings : ~Bad(report.findings[j])
BadCount(report) == Cardinality({j \in DOMAIN report.findings : Bad(report.findings[j])})

\* report_to_result: the header's error, or that of the first bad section.
ReportToResult(report) ==
    LET bad == SelectInSeq(report.findings, Bad)
    IN IF report.header # "none" THEN Error("Malformed")
       ELSE IF bad = 0 THEN [ok |-> TRUE]
       ELSE IF report.findings[bad].outcome = "ChecksumMismatch"
              THEN Error(<<"SectionChecksumFailed", report.findings[bad].type>>)
       ELSE Error("Malformed")

------------------------------------------------------------------------------
Init ==
    /\ file = <<>>
    /\ writing = NoValue
    /\ wrote = 0
    /\ begun = {}
    /\ events = 0
    /\ reading = "none"
    /\ buf = <<>>
    /\ result = Error("none")

\* The encoders refuse the value before the writer is touched.
WriteRefused(v) ==
    /\ writing = NoValue
    /\ events < MaxEvents
    /\ ~v.encodes
    /\ events' = events + 1
    /\ UNCHANGED <<file, writing, wrote, begun, readVars>>

\* seek(0) and the start of write_all, into an empty file or over what is
\* there: the writer does not truncate.
WriteBegin(v) ==
    /\ writing = NoValue
    /\ events < MaxEvents
    /\ v.encodes
    /\ events' = events + 1
    /\ writing' = v
    /\ wrote' = 0
    /\ begun' = begun \cup {v}
    /\ file' \in {file, <<>>}
    /\ UNCHANGED readVars

\* Mutant of WriteCell: no seek(0), the image goes behind what is there.
WriteCell_Appends ==
    /\ writing # NoValue
    /\ wrote < Len(Image(writing))
    /\ file' = Append(file, Image(writing)[wrote + 1])
    /\ wrote' = wrote + 1
    /\ UNCHANGED <<writing, begun, events, readVars>>

WriteCell ==
    /\ writing # NoValue
    /\ wrote < Len(Image(writing))
    /\ LET cell == Image(writing)[wrote + 1]
       IN file' = IF wrote < Len(file) THEN ReplaceAt(file, wrote + 1, cell)
                                       ELSE Append(file, cell)
    /\ wrote' = wrote + 1
    /\ UNCHANGED <<writing, begun, events, readVars>>

\* write_all is done, or the process is killed in the middle of it.
WriteEnds ==
    /\ writing # NoValue
    /\ writing' = NoValue
    /\ UNCHANGED <<file, wrote, begun, events, readVars>>

\* Damage befalls a file nobody is writing: bit rot, or a tail cut off.
\* What a flipped cell may have become:
Flipped(cell) ==
    CASE cell.kind = "header" ->
           {[cell EXCEPT !.magic = FALSE], [cell EXCEPT !.format = "unknown"],
            [cell EXCEPT !.version = 0], [cell EXCEPT !.table = FALSE],
            [cell EXCEPT !.count = @ + 1], [cell EXCEPT !.rest = "flipped"]}
             \cup {[cell EXCEPT !.format = f] : f \in Formats \ {cell.format}}
      [] cell.kind = "entry" ->
           {[cell EXCEPT !.type = "flipped"], [cell EXCEPT !.offset = @ + 1],
            [cell EXCEPT !.cells = @ + 1], [cell EXCEPT !.checksum = Crc(<<>>)]}
      [] OTHER -> {[kind |-> "flipped"]}

Flip(i) ==
    /\ events < MaxEvents
    /\ events' = events + 1
    /\ writing = NoValue
    /\ \E cell \in Flipped(file[i]) : file' = ReplaceAt(file, i, cell)
    /\ UNCHANGED <<writing, wrote, begun, readVars>>

Truncate(n) ==
    /\ events < MaxEvents
    /\ events' = events + 1
    /\ writing = NoValue
    /\ file' = SubSeq(file, 1, n)
    /\ UNCHANGED <<writing, wrote, begun, readVars>>

ReadBegin(format) ==
    /\ reading = "none"
    /\ reading' = format
    /\ buf' = <<>>
    /\ result' = Error("none")
    /\ UNCHANGED diskVars

\* read_to_end, one read of it.
ReadMore ==
    /\ reading # "none"
    /\ Len(buf) < Len(file)
    /\ buf' = Append(buf, file[Len(buf) + 1])
    /\ UNCHANGED <<reading, result, diskVars>>

\* End of file: the copy is judged.
ReadEnd ==
    /\ reading # "none"
    /\ Len(buf) >= Len(file)
    /\ result' = Read(buf, reading)
    /\ reading' = "none"
    /\ buf' = <<>>
    /\ UNCHANGED diskVars

Next ==
    \/ \E v \in Values : WriteRefused(v) \/ WriteBegin(v)
    \/ WriteCell \/ WriteEnds
    \/ \E i \in DOMAIN file : Flip(i) \/ Truncate(i - 1)
    \/ \E format \in Formats : ReadBegin(format)
    \/ ReadMore \/ ReadEnd

Spec == Init /\ [][Next]_vars

------------------------------------------------------------------------------
\* The variables have their types: a file that is not empty begins with a
\* header cell and is no longer than the longest image begun, whatever is
\* written over it, flipped and cut off.
TypeOK ==
    /\ writing \in Values \cup {NoValue}
    /\ begun \subseteq Values
    /\ events \in 0 .. MaxEvents
    /\ reading \in Formats \cup {"none"}
    /\ file # <<>> => /\ file[1].kind = "header"
                      /\ \E v \in begun : Len(file) <= Len(Image(v))

\* The payloads a reader of v's format is to return.
PayloadsOf(v) ==
    LET req == Required(v.format)
    IN [j \in DOMAIN req |->
          Payload(v, SelectLastInSeq(v.sections, LAMBDA s : s.type = req[j]))]

Types(v) == {v.sections[j].type : j \in DOMAIN v.sections}

\* Whatever the reader overtakes, is overtaken by, or finds damaged, a value
\* it returns is one that was written, entire: never the sections of two
\* writes together, never a damaged one (the trailing CRC of read_saga and
\* read_kv_cache, which the section CRCs cannot replace).
ReadNeverMixed ==
    result.ok => \E v \in begun : /\ ToSet(Required(v.format)) \subseteq Types(v)
                                  /\ result.payloads = PayloadsOf(v)

\* The length another section's payload must have, by what is declared.
Fits(v) == LET big == IF v.format = "saga" THEN "centroids" ELSE "blob"
               j == SelectLastInSeq(v.sections, LAMBDA s : s.type = big)
           IN v.sections[j].cells = v.declares

EntryError(section) ==
    CASE section.entry = "right" -> "none"
      [] section.entry = "wrong" -> "SectionChecksumFailed"
      [] section.entry = "outside" -> "Truncated"

\* Of a value of the right format and version that has the sections: the first
\* whose entry is not right, or the size that does not fit, whichever is met
\* first.
SectionsOutcome(v) ==
    LET req == Required(v.format)
        errors == [j \in DOMAIN req |->
            EntryError(v.sections[SelectLastInSeq(v.sections, LAMBDA s : s.type = req[j])])]
        bad == SelectInSeq(errors, LAMBDA e : e # "none")
    IN CASE bad \in 1 .. Sized(v.format) -> Error(errors[bad])
         [] bad \notin 1 .. Sized(v.format) /\ ~Fits(v) -> Error("Malformed")
         [] bad > Sized(v.format) /\ Fits(v) -> Error(errors[bad])
         [] OTHER -> [ok |-> TRUE, payloads |-> PayloadsOf(v)]

Outcome(v, format) ==
    CASE v.format # format -> Error("FormatMismatch")
      [] v.format = format /\ v.version # 1 -> Error("UnsupportedVersion")
      [] OTHER -> IF ToSet(Required(format)) \subseteq Types(v) THEN SectionsOutcome(v)
                                                              ELSE Error("MissingSection")

\* A complete file is read as the format's contract says: foreign sections are
\* skipped, their checksums unread (tests/kv_cache_forward_compat.rs:182-185),
\* the last of two sections of one type is taken; later versions, other
\* formats, missing sections, a blob that does not fit its shape and required
\* sections with a wrong checksum or outside the file are refused, the first
\* of these faults first.
ReadOutcome ==
    \A v \in begun, format \in Formats :
        file = Image(v) => Read(file, format) = Outcome(v, format)

\* The three ways a caller may ask for the verdict agree, whatever the file,
\* and what the scrubber calls bad in a file that a reader accepts is never a
\* section it read: only one of another type or one that a later section of
\* its type hides, which the readers skip unread (saga/read.rs:64-69).
ReadSectionsOk ==
    LET report == ScrubFile(file)
        findings == report.findings
    IN /\ IsClean(report) <=> ReportToResult(report).ok
       /\ IsClean(report) <=> report.header = "none" /\ BadCount(report) = 0
       /\ \A format \in Formats : Read(file, format).ok =>
             /\ report.header = "none"
             /\ \A j \in DOMAIN findings : Bad(findings[j]) =>
                   \/ findings[j].type \notin ToSet(Required(format))
                   \/ \E i \in DOMAIN findings : i > j /\ findings[i].type = findings[j].type

\* Bit rot in the payload of a section whose entry is right changes the finding
\* of exactly that section, also if the entries of others are wrong; unless one
\* of those comes first, report_to_result names it; and the readers refuse the
\* file.
ScrubLocates ==
    \A v \in begun : \A j \in DOMAIN v.sections : \A k \in 1 .. v.sections[j].cells :
        /\ v.sections[j].entry = "right"
        /\ file = ReplaceAt(Image(v), Offsets(v)[j] + k, [kind |-> "flipped"])
        => /\ ScrubFile(file) =
                 [ScrubFile(Image(v)) EXCEPT !.findings[j].outcome = "ChecksumMismatch"]
           /\ (\A i \in 1 .. j - 1 : v.sections[i].entry = "right") =>
                 ReportToResult(ScrubFile(file)) =
                    Error(<<"SectionChecksumFailed", v.sections[j].type>>)
           /\ Read(file, v.format) = Error("FileChecksumFailed")

\* A wrong version shows in the report's header_error (scrub.rs:14-16: "Wrong
\* format / wrong version: ... Surfaced as ScrubReport::header_error").
VersionSurfaced ==
    \A v \in begun :
        file = Image(v) /\ ~Compatible(v.version) =>
            ScrubFile(file).header # "none"
==============================================================================
