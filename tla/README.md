# A TLA+ verification of skeg-hull

skeg-hull is the on-disk format of skeg: a header, a table of sections, their
payloads, a CRC32C of each section and one of the whole file. Beside the format it
has two pieces that live among other threads and processes: `atomic_write`, with
which every file is replaced, and a scrubber that walks a directory and looks
for bit rot. The modules here model all three, check them with TLC, and prove with
TLAPS, for every number of calls, processes, files and power losses, every
safety property the runs check: of `atomic_write`, the processes that read its files,
the scrubber, the file under writers and damage, and the codecs of all its sections.

All paths below are relative to `src/crates/skeg-hull/src/` of the repository.

| module | what it is | configurations |
|---|---|---|
| `AtomicWrite` | `atomic_write` statement by statement, over a file system, processes, a clock and power loss | through `MCAtomicWrite`: `AtomicWriteCrash`, `AtomicWriteNames`, `AtomicWriteBareName` |
| `AtomicFile` | what `atomic_write` promises, without temp files | checked as `Refines` |
| `PathReaders` | a process that reads the file, by `read` or `mmap`, while `AtomicWrite` replaces it | through `MCPathReaders`: `PathReaders` |
| `ScrubLoop` | the background thread of the scrubber and its stop flag; files are counted | with `ScrubSystem`; `ScrubLoopMidPass`, `ScrubLoopDrop` |
| `ScrubSystem` | the same thread over files that come, go, are replaced and rot | `ScrubSystem` |
| `ScrubDir` | one scrubber over the directory in which `AtomicWrite`'s calls run | `ScrubDir`, `ScrubDirInFlight` |
| `HullFile` | one hull file: writers, readers, `scrub_file`, damage | through `MCHullFile`: `HullFile`, `HullFileVersion` |
| `KvShape` | the size arithmetic of the KV cache format and its blob section | with `SectionCodecs` |
| `SectionCodecs` | the other parts of a file, field by field: header and table, meta block, centroids, tags, identity, shape | through `MCSectionCodecs`: `SectionCodecs` |
| `AtomicWriteProofs` | theorems about `AtomicWrite` | |
| `PathReadersProofs`, `ScrubDirProofs` | theorems about the two modules that extend `AtomicWrite` | |
| `ScrubLoopProofs` | theorems about `ScrubLoop` and `ScrubSystem` | |
| `DataInduction` | lemmas on sequences and recursive functions, by induction; nothing of skeg-hull | |
| `HullFileProofs` | theorems about `HullFile` | |
| `KvShapeProofs` | theorems about `KvShape` | |
| `SectionCodecsProofs` | theorems about `SectionCodecs`, the blobs of `KvShape` included | |

To check a configuration: `tlc -workers 2 -config AtomicWriteCrash.cfg
MCAtomicWrite.tla`. To check proofs: `tlapm AtomicWriteProofs.tla`.

## 1. Inventory

### Components

| component | code | state it keeps | operations |
|---|---|---|---|
| atomic replacement | `atomic.rs` | `TMP_COUNTER` (one per process); per call the temp name and the open temp file; on disk the directory and the inodes | `atomic_write` |
| scrub loop | `scrub.rs:296-348` | the `AtomicBool` shared with the owner; `slept`; the reports of the current pass | `scrub_loop`, set of the flag by the owner |
| directory and file scrub | `scrub.rs:126-290` | none between calls; within a pass the directory listing, the open file, the reports | `scrub_dir`, `looks_like_hull`, `scrub_file`, `verify_section`, `report_to_result` |
| header and section table | `header.rs`, `format.rs`, `compat.rs` | the values themselves | `Header::read`, `Header::write`, `SectionEntry::{read_from,write_into}`, `FormatId::from_u16`, `check_compatibility` |
| readers by path | `saga/mod.rs:113-121`, `kv_cache/mod.rs:97-162` | the open file, its mapping | `read_from_path`, the three `read_from_path_mmap*` |
| saga format | `saga/*` | none | `read_saga`, `write_saga`, the codecs of `meta`, `centroids`, `tags` |
| KV cache format | `kv_cache/*` | none | `read_kv_cache`, `write_kv_cache`, the codecs of `identity`, `shape`, `blob`, `expected_blob_bytes` |
| checksums | `checksum.rs` | the streaming builder | `crc32c`, `Crc32cBuilder` |
| errors, crate root | `error.rs`, `lib.rs` | none | conversions and re-exports |

### How they interact

`write_to_path` of both formats hands `write_saga` / `write_kv_cache` to
`atomic_write` as its closure. The readers and the scrubber never lock:
`lib.rs:16-18` bases everything on writers that replace files with
`atomic_write`, and says that files written in place lose the guarantee. The writers
and readers are public and generic over `Read + Write + Seek`, so a caller can
also use them on an open file. `scrub_loop` calls `scrub_dir`, which calls
`looks_like_hull` and `scrub_file` on each regular file; `scrub_file` uses
`Header::read` and checks the section CRCs with the streaming builder, but not the
trailing CRC or the version. `on_report` is a callback into the owner, who
shares only the stop flag with the loop.

### What is hard here

- Calls of `atomic_write` from threads of one process and from several processes
  interleave at every system call. They meet in the directory: in the temp names and
  in the target. A pid is used again after its process died.
- Every system call of `atomic_write` can fail, its closure can fail or panic,
  the process can be killed between any two, and power can be lost: then
  data and directory entries that were not fsynced may be gone, in any mixture.
- A reader holds no lock: between its open and its last read the file may be
  replaced any number of times, and with `mmap` a file that shrank would kill it.
- The scrubber's directory listing is lazy: entries that change while it is open may come,
  be missed or come twice. It opens each path twice, and in between the file may be
  renamed away. Its reports are handed out after the pass, when they may no longer be true.
- The stop flag can be set at any statement of the loop.
- Readers and scrubber judge a file by different checks, and a file may be any
  mixture of two writes when somebody writes in place.

`PROJECT.json` lists each hazard at its line with the properties that speak of
it. Those without a property say why.

### What makes each component correct

- atomic replacement: no call touches another's temp file; the target is
  always whole, also after a power loss; an acknowledged replacement stays; an error
  means nothing was replaced and nothing is left behind; nobody waits for anybody.
- readers by path: a read delivers all of one payload, and never an older one
  than the reader has seen or been promised.
- scrub loop: it stops, and promptly; it pauses as long as it was told; rot that
  `scrub_file` can see reaches `on_report`, and nothing bad is said of a file that was intact.
- directory scrub: a file under replacement is never called bad, and is reported
  each time the listing returns it.
- formats: a reader returns a value only if exactly that value was written; what was written
  comes back; the readers accept one encoding of a value; the sections they read the
  scrubber calls `Ok`; rot is reported for the section it is in; files of other formats,
  versions or later writers are treated as the tests say.

## 2. The models

### AtomicWrite

One action per statement of `atomic_write` that can interleave or fail.

| `atomic.rs` | action |
|---|---|
| 40-45 `parent()?`, 46 pid, 47-50 clock | `Begin` |
| 51 `fetch_add`, 53-59 `file_name()?` | `TakeCounter` |
| 65-68 `create_new` | `Create`, `CreateFails` |
| 69 `f(&mut tmp)?` | `Write` (one chunk), `WriteFails`, `Panic` |
| 70-71 `flush`, `sync_all` | `Sync`, `SyncFails` |
| 74 `rename` | `Rename`, `RenameFails` |
| 79-81 fsync of the directory | `DirSync`, `DirSyncSkipped` |
| 85-87 `remove_file` on error | `Cleanup`, `CleanupFails` |

A call creates at most one inode, so the call's identity stands for its payload
and for its inode. `dir` is the directory as processes see it; `disk[n]` is the
set of entries a power loss may leave at name `n` (each update adds to it, a
fsync of the directory reduces it to the current one); `len` and `durable` are
the chunks of the payload written and fsynced. `Crash` chooses for every name
and every inode independently, which is weaker than what journaling file systems
give. It kills every process. `Kill` kills one process and leaves the file
system alone. `Start` gives a process its pid, which no *live* process has, and
a counter at 0. A temp name is `<<pid, nanos, counter>>`. `"err"` and `"errUncleaned"`
are the same `Err(e)` to the caller, who is not told that `remove_file` failed.

`path` is the kind of path the call was given: an ordinary one (`"file"`), a
bare file name (`"bare"`, whose `parent()` is `""`), one with no parent
(`"root"`), one with no file name (`"dotdot"`).

`AtomicFile` is the specification for callers. Its state is the content of the
file, the contents possible after a power loss, and the status of each call. Its
one `Replace` step makes the new payload visible; `Flush` leaves only the current
content possible; an error can come only from a call that has replaced nothing.
`Refines` says that every behaviour of `AtomicWrite` is one of `AtomicFile`,
with `file <- dir[Target]`, `after <- disk[Target]`.

Assumptions about the world: all processes are on one host and one pid name
space; starting a process takes at least a nanosecond (used only by
`NoSpuriousFailure`); rename is atomic for observers; fsync does what it says.

### PathReaders

Extends `AtomicWrite` with one reader. `Open` is `File::open(path)?`; then either
`ReadFrom` (`read_from_path`) or `Map` (`read_mmap_impl`, where the length is fixed)
and `Chunks` steps of `ReadChunk`, with any of the writers' steps between. What a read
of a page comes to is in `Read`: the bytes, end of file, or, on a mapped
page the file does not have any more, the death of the process. `promised` and `floor`
are history: the calls whose `Ok` the reader may count on (after a power loss only
those whose directory fsync succeeded), and those the file at hand must not be older
than. `stamp`, `AtomicWrite`'s number of each rename, says which of two
payloads is older. A power loss takes the reader along.

### ScrubLoop

The loop's statements, one action each, and the owner's two moves (`SetStop`,
`DropHandle`). Files are counted. `interval` takes values below, at and above
a slice, and zero. The sleeps of 100 ms are `Slice` units. `paused` and `late`
are history: the time really slept in this pause, and what the loop still did
after the flag was set. `visited` counts the entries of this pass: `ScrubNext` is one that is
scrubbed, `SkipNext` one that `scrub_dir` or `looks_like_hull` passes over. How many
come is not fixed when the listing begins; a `read_dir` that fails is an empty listing.

### ScrubSystem

Extends `ScrubLoop`: each of its steps is one of the loop's with the names and reports it is
about, so that what is proved of `ScrubLoop` holds here (`SystemRunsTheLoop`). A name holds
nothing, an intact file, or one damaged in one of three ways, told apart by what the
scrubber makes of them (`Verdict`):

- `"unseen"`: where `scrub_file` does not look, which is version, flags, times, body length,
  reserved bytes, section types and the trailing CRC. Such a file is reported clean.
- `"rotten"`: a section that lacks its CRC, or a header that is not of the form.
- `"masked"`: the magic itself. Such a file is skipped without a word, as
  `scrub.rs:231-232` says.

Contents change at any moment: `Replace` is a whole `atomic_write` at once, as `AtomicFile`
promises, `Remove` and `Rot` are the operator and the medium. The listing is lazy: `due` are
the names it has still to return, and a name that is replaced, created or removed while it
is open (`Touch`) becomes `loose`: it may come, several times, or not. `NextEntry` is the
iterator's step, and `EndPass` its end, free to leave loose names out. `Skip` and `Look` are
the two answers of `looks_like_hull`, which opens the file and closes it; `ScrubFile` opens
it again and may find it gone or damaged by then; `Tell` hands the reports on in order and
`Handed` is the return of `on_report`. `unsound` is history: the names that were not intact
all through this pass. Opening the directory succeeds here. `RotSurfaces` is about
`"rotten"` files only: of the others nothing bad need be
reported.

### ScrubDir

Extends `AtomicWrite`. Its `Writers` are all of `AtomicWrite`'s actions, its `Scrub` the
scrubber's. The payloads are undamaged hull images of `Chunks` writes; `MagicAt`, `HeaderAt`
and `SectionsAt` say how many are needed to find the magic, parse header and table, and
verify every section. `read_dir` is the same lazy iterator as in `ScrubSystem`: `ReadDir`
opens it (`ReadDirFails` does not), `ListingFollows` keeps `due` and `loose` in step with
the writers, `NextEntry` takes a name. `reports` is a sequence, so a name that comes twice
is reported twice, and `seen` is history: how often the target came. An entry whose own
`readdir` failed is not modelled. `Peek` is the first open (of `looks_like_hull`),
`ReadMagic` its read, `ScrubOpen` the second open (of `scrub_file`). An open file keeps its
inode whatever happens to its name.

### HullFile

A file is a sequence of cells: header, table entries, payload cells, trailer. `Image(v)` is
what the writers assemble, `Body(v)` in memory and a `Trailer` over it; `Offsets(v)` are the
places of its sections, summed up as the writers do; `WriteBegin` and `WriteCell` put it
into the file from offset 0 without truncating, as `seek(0)` and `write_all` do; `WriteEnds`
is the end of the write, or the death of its process after any cell. `ReadBegin`, `ReadMore`
and `ReadEnd` copy the file cell by cell and judge the copy with `Read`, which has every
check of `read_saga` and `read_kv_cache` in order. `Flip` and `Truncate` are damage at rest:
`Flipped(cell)` names a flip of every field of header and entry that the code looks at, and
of those it does not. `ScrubFile` is `scrub_file`; `IsClean`, `BadCount` and
`ReportToResult` are the three ways a caller may ask its report. What other writers of the
format produce is in the values: each section says of its table entry whether it is
`"right"`, carries a `"wrong"` checksum (`WrongCrc`) or points `"outside"` the file
(`Outside`). Readers skip such a section if they do not look it up, as
`tests/kv_cache_forward_compat.rs:182-185` documents, and refuse the file if they do; the
scrubber verifies every entry.

Assumptions: no two different contents have one CRC32C; bytes that are not a
table entry parse as one whose checksum does not fit; a cell is written and read
whole; the only disagreement between two sections that the CRCs let
through is a declared length (centroid count, blob size); meta and shape sections are not
empty (`ValuesAreRecords`: their encoders have a fixed size).

### KvShape

The pure part of the KV cache format: `expected_blob_bytes` (`kv_cache/shape.rs:113-132`),
`blob::encode` and `blob::decode`, and the size check of `read_kv_cache`. A behaviour picks
a shape, then `Write` puts in a blob as `write_kv_cache` does, unjudged, or `Foreign` a
section some other writer made, and `Read` decodes and checks it. Words have `WordSize`
values instead of 2^64, so that small shapes overflow; where a release build wraps, a debug
build panics, and both are explored. The sums and products run in the order the code has
them, since which of them leaves the word decides who panics: `Running` is a chain of
multiplications, `Intermediates` all that is computed on the way. `TensorBytes` is the
reference: the K and V elements, and the scale and bias of each group, are counted as
elements of a set. `Even` and `Overflows` say which shapes `AcceptedFits` and
`WrittenIsRead` leave out: groups that do not divide the head dimension, packed elements
that do not fill bytes, and sizes beyond the word. For a group size that leaves a rest,
`LeftoversShareGroups` bounds what the code does by the formula of its doc
(`shape.rs:107-112`): the code divides all elements of a layer at once, the doc those of
each head and token.

### SectionCodecs

Extends `KvShape` with the header and the other sections, one of which a behaviour
picks as `codec`. Each is a sequence of cells: a fixed-width field is one cell of `CellValues`
values, a string a cell for each byte, of which there are four kinds: a character, the two
halves of one, and what no UTF-8 string contains. `EncodeSection` encodes a value
as the writers do, `ForeignSection` puts in any cells at all, or a section cut off
anywhere or followed by more; `DecodeSection` decodes it. For centroids the
dimension and the count come from the meta section, where `write_saga` has cut the
count to `u32`; the product of the two is computed in `CellWord` cells, which a debug build
panics at and a release build wraps. `Unread` names the cells no decoder looks at:
reserved bytes, and the filler of an absent adapter. `ValuesOf` and `ForeignOf` are small
sets for TLC; the operators that encode and decode are not tied to them. Assumed: a
`String` is UTF-8 (`StringsAreUtf8`), the word has at least one cell and a field more than
two values (`CellsAreFields`).

## 3. What the runs show

Bounds are constants named `Max...`; symmetry is used only where no liveness
is checked and no formula names a call. Deadlock is not checked, because calls
return, bounds are reached and the loop returns: a state without a step is a
normal end.

| run | instance | states | shows |
|---|---|---|---|
| `atomic_crash` | 2 calls, 2 processes sharing a pid, 2 chunks, every fault except a clock set back, 1 power loss, paths of all four kinds | 494,368 | `TypeOK`, `OwnsTemp`, `TargetWhole`, `AckedSurvives`, `NoTempLeft`, and the refinement `Refines` |
| `atomic_names` | 3 calls, 3 processes, 2 pids, kills and panics, no other fault | 2,179,106 | `OwnsTemp`; `NoSpuriousFailure`: temp files of dead processes, panicked calls and running siblings never make a call fail |
| `path_readers` | 2 calls in 2 processes with 1 pid, a reader, 2 chunks, any clock reading, failing directory fsyncs, 1 power loss | 733,984 | `ReadsWhole`, `MappingHolds`, `ReadsFresh`, `ReadTypeOK`; `OwnsTemp`, `TargetWhole` without help from the clock; `WatchedReturns` |
| `scrub_loop` | module `ScrubSystem`: 2 files, at most 2 entries in a pass, a slice of 2, intervals 0, 1, 3 | 309,518 | `PromptStop`, `PauseIsInterval`, `StopReturns`, `AlarmJustified`, `RotSurfaces`, `TypeOK`, `SystemTypeOK` |
| `scrub_dir` | 2 calls of 4 chunks, panics, failing writes and removals, 1 power loss, changed names come until a pass has 2 reports | 881,950 | `TargetReportsClean`, `TargetNeverSkipped`, `ScrubTypeOK` |
| `hull_file` | 9 values of both formats, 2 events (writes, flips, truncations) | 972,424 | `TypeOK`, `ReadNeverMixed`, `ReadOutcome`, `ReadSectionsOk`, `ScrubLocates` |
| `section_codecs` | blob: dimensions 0, 1, 4, group sizes 0, 2, 3, both element sizes, words of 8 bits, lengths 0 to 8 and one next to the top of the word. Others: fields of 4 values, words of 8 cells, strings of 0 to 4 bytes, foreign sections of up to 5 cells (header 22, meta 7, centroids 7, identity 10, shape 9) | 1,925,720 | `AcceptedFits`, `LeftoversShareGroups`, `WrittenIsRead`, `AcceptedIsCanonical`; `WrittenComesBack`, `AcceptedIsEncoding`, `PanicsAtOverflow` |
| `atomic_bare_name`, `scrub_loop_mid_pass`, `scrub_loop_drop`, `scrub_dir_in_flight`, `hull_version` | | | the findings of section 6 |

Why the bounds are enough. Two calls make every conflict over a name or the target; the
third in `atomic_names` lets a dead process, its successor with the same pid and a sibling
thread meet. Two chunks make a file that is partly written, partly fsynced or whole; one
power loss is followed by new processes that work on what it left. Four chunks in
`scrub_dir` separate the four outcomes of a scrub. `MaxReports` and, in `scrub_loop`,
`MaxFiles` bound only how often a name that changed comes again: in one pass the target of
`scrub_dir` can be reported twice, and a file of `scrub_loop` when it is the only one. Two
events in `hull_file` are two writes that overlap one reader, or a write and a damage; the
values are of equal layout (cells of two writes fit together), of different lengths (a short
image over a long one), of both formats, with unknown and with repeated sections, and with
table entries that are wrong or point outside: of sections that are read, of unknown ones
and of repeated ones. In `path_readers` two replacements fall into one read, or between two,
and both processes have the pid a dead one had. In `scrub_loop` one file rots while the
other is scrubbed, reported or gone; the intervals are none, less than a slice and one and a
half. In `section_codecs` shapes fit a word, overflow it and wrap to zero, groups divide the
head dimension and do not, and each length of the blob section is too short, right and too
long; counts and string lengths are below, at and above what their field can tell,
characters are whole and cut in half, and products of dimension and count fit a word, reach
it and wrap to a length that fits.

### Fairness

- `WatchedReturns`: weak fairness of the steps of *one* call. Its thread is
  scheduled, the system calls it makes return; every other call and process may
  stop for ever at any statement. `atomic_write` has no lock and no retry, so no
  more is needed.
- `RotSurfaces`, `StopReturns`: weak fairness of the loop's own steps. The thread is
  scheduled, `sleep` and `on_report` return, a listing ends,
  also of a directory that changes (`MaxFiles` bounds it).
  The owner, the writers and the medium need never act: the properties speak of a flag
  that has been set and of rot that is there and stays.

## 4. What is proved

All theorems hold for every value of the constants that satisfies the modules'
assumptions: any calls, processes, pids, chunks, bounds, kinds of path and sets of
faults of `AtomicWrite` (`None` is no call, the target's name is not a temp name, the
counts are naturals); any layout of an image for `ScrubDir`; any slice, intervals
and finite set of files for the loop; any set of values for `HullFile`, with any number of
sections of any length, and any number of events; any word size and lengths for
`KvShape`; any field width, word, strings and vectors for `SectionCodecs`.

| module | theorem | statement |
|---|---|---|
| `AtomicWriteProofs` | `TypeCorrect` | `Spec => []TypeOK` |
| | `TempNeverStolen` | `Spec => []OwnsTemp` |
| | `TargetAlwaysWhole` | `Spec => []TargetWhole` |
| | `AckedAlwaysSurvives` | `Spec => []AckedSurvives` |
| | `ImplementsFile` | `Spec => Refines` |
| | `NeverFailsAlone` | `Spec => []NoSpuriousFailure` |
| | `TempsAlwaysGo` | `Spec => []NoTempLeft` |
| `PathReadersProofs` | `ReadTypeCorrect` | `ReadSpec => []ReadTypeOK` |
| | `ReadsAlwaysWhole` | `ReadSpec => []ReadsWhole` |
| | `MappingAlwaysHolds` | `ReadSpec => []MappingHolds` |
| | `ReadsAlwaysFresh` | `ReadSpec => []ReadsFresh` |
| `ScrubDirProofs` | `ScrubTypeCorrect` | `LiveSpec => []ScrubTypeOK` |
| | `TargetAlwaysClean` | `LiveSpec => []TargetReportsClean` |
| | `TargetAlwaysVisited` | `LiveSpec => []TargetNeverSkipped` |
| `ScrubLoopProofs` | `LoopTypeCorrect` | `Spec => []TypeOK` (of `ScrubLoop`) |
| | `PauseAlwaysInterval` | `Spec => []PauseIsInterval` |
| | `StopAlwaysPrompt` | `Spec => []PromptStop` |
| | `SystemRunsTheLoop` | `SystemSpec => Spec` |
| | `SystemTypeCorrect` | `SystemSpec => []SystemTypeOK` |
| | `AlarmAlwaysJustified` | `SystemSpec => []AlarmJustified` |
| `KvShapeProofs` | `AcceptedAlwaysCanonical` | `Spec => []AcceptedIsCanonical` |
| | `AcceptedAlwaysFits` | `Spec => []AcceptedFits` |
| | `LeftoversAlwaysShare` | `Spec => []LeftoversShareGroups` |
| | `WrittenAlwaysRead` | `Spec => []WrittenIsRead` |
| `HullFileProofs` | `FileTypeCorrect` | `Spec => []TypeOK` (of `HullFile`) |
| | `ReadsNeverMixed` | `Spec => []ReadNeverMixed` |
| | `ReadsKeepContract` | `Spec => []ReadOutcome` |
| | `ReadSectionsAlwaysOk` | `Spec => []ReadSectionsOk` |
| | `RotAlwaysLocated` | `Spec => []ScrubLocates` |
| `SectionCodecsProofs` | `WrittenAlwaysComesBack` | `CodecSpec => []WrittenComesBack` |
| | `AcceptedAlwaysEncoding` | `CodecSpec => []AcceptedIsEncoding` |
| | `CodecsPanicOnlyAtOverflow` | `CodecSpec => []PanicsAtOverflow` |
| | `BlobsAreKvShape` | `CodecSpec => (codec = "blob" => Spec)` |
| | `BlobsAlwaysKept` | `CodecSpec => []` of the four properties of `KvShape` |
| | `EveryValueComesBack` | each `Encode...` and `Decode...`, for all values |
| | `EverySectionCanonical` | each `Decode...`, for all sequences of cells |

### atomic_write

None of `OwnsTemp`, `TargetWhole` and `AckedSurvives` is inductive. The argument:

1. *Names* (`NamesInv`). A call in flight runs in a live process (`OwnersLive`);
   live processes have different pids (`PidsDiffer`); a process never gives a
   counter value out twice (`SeqsDiffer`). So two calls in flight have different
   temp names (`TempsDiffer`). The clock is not needed, so the theorems also
   hold of hosts whose clock goes back: it is needed only against files dead
   processes left behind, which `create_new` turns into an error.
2. *Files* (`FileInv`). A call that writes, syncs or renames owns its temp name
   (`OwnsTemp`); its data are as far as its statement says (`DataInv`: durable
   to the last chunk from the rename on); the visible entry is among the entries a
   power loss may leave (`DirOnDisk`); the target is whole (`TargetWhole`). These
   carry each other: without `OwnsTemp`, `Rename` could bring somebody else's
   unfinished file to the target; without `DirOnDisk`, `Crash` could bring back
   what `TargetWhole` does not speak of.
3. `IInv == TypeOK /\ NamesInv /\ FileInv` is inductive (`Inductive`). The lemmas
   group the actions by what they touch: `QuietStep`, `DataStep`, `LinkStep`,
   `RenameStep`, `CrashFiles`.
4. *Order* (`StampInv`, relative to `IInv`). Renames are numbered, the target
   has the newest number, and an entry that may come back after an acknowledged
   call is no older than that call.
5. *Refinement*. Each action is one step of `AtomicFile` or a stutter
   (`RefineQuiet`, `RefineRename`, `RefineSync`, `RefineKill`, `RefineCrash`,
   `RefineStutter`). `Rename` maps to `Replace` because `OwnsTemp` says that
   what is linked at the caller's temp name is the caller's file; `Crash` maps to
   `PowerLoss` because of `DirOnDisk`.
6. *Leftovers* (last part of `AtomicWriteProofs`). `LeftInv`: what is linked, or may come
   back, at a temp name was created by a call with that name, whose counter value its
   process does not use again. `TimeInv`: what a dead process left behind carries an earlier
   clock reading than the calls of every later process with its pid. So the name a call is
   about to create is free (`NameIsFree`): the pid tells it from living processes, the
   counter from siblings, the clock from the dead. This is the one proof that needs a clock
   that does not go back, and the premise of `NoSpuriousFailure` says so. `GoneInv`: from
   its rename or removal on a call's file is not linked at its temp name; after the
   directory fsync it cannot come back there either (`TempsAlwaysGo`).

### Readers, scrubber, loop

- *Readers.* Beside the reader the writers still behave as `AtomicWrite`
  (`WritersUndisturbed`), so `IInv` and `StampInv` hold. An inode that the target
  leads to is complete (`OpensWhole`) and nobody writes to it any more
  (`LenStays`), which makes `WholeInv` inductive: the file at hand has all
  its chunks. `FreshInv` adds that the target is as new as every promise and the file at
  hand, and that none of them gets another number (`Settled`, `TargetMoves`); a
  power loss keeps it because every entry that can come back is as new as every
  flushed `Ok` (`StampInv`).
- *Scrubber* (`VisitInv`). The target was returned `seen` times (`OfTarget` are the reports
  of it): each time it is reported, clean, or being visited. A name the listing may still
  return leads to a file if it is the target's, and so does the target at the second open:
  that needs `IInv`, by which no step of a writer takes the target away. How often the
  listing returns it is left open: the theorem says that no return of it ends without a
  report.
- *Loop.* `LoopInv` gives the bounds of the counters, `PauseInv` says that the time slept
  is `min(slept, interval)`, `LateInv` what can have happened since the flag was set
  at each statement. `SystemInv` ties counters to lists. `AlarmInv`: from the listing
  on, whatever is not intact now, and whatever a report accuses, is in `unsound`.

### Induction over data

What a recursive function or a fold computes for every input needs induction. The
library's induction theorems take a predicate as a parameter, which no installed prover
can instantiate. `DataInduction` says the same of sets: every set of numbers has a least
element (`LeastElement`), so a set with 1 that has `k + 1` whenever it has `k` has every
number up to `n` (`UpTo`). Each use is then first order: the set of the numbers for
which the fact holds. From it follow what a recursive function is (`Recursion`), and
where in `FlattenSeq` each cell of each part ends up, and that the result is no longer than
the parts together (`Joined`, `Flattened`, `Covered`, `Unflattened`, `PlacesExist`).

### HullFile

None of the properties is inductive. `IInv` is, and consists of

1. `WriterInv`: a write has put at most as many cells as the file has, so it never leaves a
   gap: that is why the file begins with a header cell and is no longer than the
   longest image (`TypeOK`);
2. `Vouched(file)` and `Vouched(buf)`: wherever a trailer stands, it is one that a writer
   computed over the whole `Body(v)` of a value it has begun. Cells of any number
   of writes may be around it. The copy only takes cells over from the file.

`ReadNeverMixed` follows at `ReadEnd`: if the last cell of the copy is the CRC of all cells
before, it is the trailer of some `Body(v)`, equal CRCs mean equal contents, so the copy
*is* `Image(v)` (`AcceptedIsImage`), however it came together. What reading an image gives
is then a fact about operators: `OffsetsAre` and `ImageIs` find each section at its offset,
`CellsAre` cuts it out again, `SectionsAre` says what the reader's and the scrubber's check
(`Verdict`) come to for a section by what its table entry says, and `ImageIsRead` goes
through the checks of `Read` in their order (`SectionsAreRead`, `ReadOutcome`).
`ReadSectionsOk` needs the same: a file that a reader accepts is an image, in which the last
section of each required type is right (`AcceptedSections`), and the scrubber's table is
that of the image (`ImageReport`); that the three verdicts agree holds of any report
(`VerdictsAgree`). For `ScrubLocates` sections do not overlap (`OffsetsGrow`), so a cell
flipped in one leaves the others as they were (`RotIsLocal`).

### KvShape

`BlobInv` (sections are words) and `GivenInv` (what was written is the encoding of what was
given). `Decode` compares lengths after sums that may wrap; `Wraps` says that a sum of two
words is off by one word at most, so a comparison that holds is one of the true lengths
(`DecodeIsCanonical`). For the sizes,
`TensorBytes` is a cardinality of products of intervals (`TimesInterval`, `Counted`) and
`ExpectedBlobBytes` a chain of products; where no intermediate leaves the word no `%` does
anything (`FitsWord`), and a division of a multiple is a multiple of the
division and what the remainders come to (`DivRest`, `DivTimes`): `PlainBytes`, and
`QuantizedBytes` for any group size but zero, of which `LeftoversShareGroups` is the
consequence, and `ExactBytes` for shapes that are `Even`.

### SectionCodecs

For each codec two lemmas: `...ComesBack`, that the decoder returns what was encoded, and
`...IsEncoding` (`...AreEncoding`), that a section which is accepted is the encoding of the
result in every cell but the unread ones. Fixed fields are compared one by one. Header table
and centroids have rows of equal width, at multiples of it (`TableCells`, `CentroidCells`);
tags have rows of any length, whose places are what the decoder's loop has in `cur` before
each entry (`LoopIs`, `TagsTaken`; `SoFar` says what has been taken in by then). The counts
that `as u32` cuts leave rows nobody asks for, and the length check refuses them
(`CutCountIsRefused`, `CutTagCountIsRefused`). `CodecInv` ties `section` to the value or the
foreign section it is from and `decoded` to `section`. The values of `CodecSpec` are from
small sets; `EveryValueComesBack` and `EverySectionCanonical` state the same of all values
and all sequences of cells. `BlobsAreKvShape` is a refinement: with the blob picked, the
behaviours are `KvShape`'s.

## 5. What is only model-checked, and what is not modelled

Every invariant of the passing runs, and the refinement `Refines`, is a theorem. Only
checked, on the instances above, is all liveness (`WatchedReturns`, `StopReturns`,
`RotSurfaces`): liveness under fairness is outside what the proof system does.

One half of `PanicsAtOverflow` rests on TLC. A decoder that indexes past the end of its
buffer panics in the code; here the model has no such outcome, TLC stops with an error at
such an index, and none occurs on the instances above. In a proof such an application is
just a value of which nothing is known. For the centroids the model has the
check, and the theorem says that it panics only at the overflow.

The theorems say nothing of an instance that the assumptions exclude: CRCs that collide,
in particular.

Not modelled, or modelled without a property about it:
- endianness and the width of each field; characters of more than two bytes; a table of
  2^32 sections, whose count `Header::write` would cut (`header.rs:175`);
- in `HullFile`, the meaning of a size: it is a declared length there, and
  arithmetic in `KvShape`; offsets and lengths of a table entry so large that their sum leaves
  the word (`read_section`'s `checked_add`, then `Malformed`) or that no file can be sought to;
- no property is about shapes whose size leaves the word (`shape.rs:120`, `126-130`: a debug
  build panics, a release build accepts any blob of the wrapped size, an empty one for a
  shape of 2^64 bytes for instance), nor about a group size of zero, at which the reader
  panics;
- in the directory scrubs, entries whose own `readdir` fails (`entries.flatten()` drops
  them) and entries that are no regular files;
- memory: `Header::read` and the tag decoder allocate what the file says;
- reads that are interrupted, which `verify_section` (`scrub.rs:208`) takes for errors
  and `read_exact` retries;
- the time a scrub takes (`elapsed`), the advice given to the kernel;
- `error.rs`, `lib.rs`, `Display` implementations;
- changes of the directory itself (removed, or another file system mounted).

## 6. Where code and documentation differ

Five runs check what the documentation says and find a behaviour of the code that
contradicts it.

1. `RenameDurable` (`atomic_bare_name`). `atomic.rs:23-24` says the directory is
   fsynced so the rename is durable. For a bare file name, which the
   repository's `README.md:37` uses, `parent()` is the empty path, opening it fails
   (`atomic.rs:79`), the fsync is silently skipped and the call returns `Ok`.
   After a power loss the old file can be back.
2. `StopsAtNextFile` (`scrub_loop_mid_pass`). `scrub.rs:319-321` says a stop in
   mid-pass aborts at the next file. `scrub_dir` scrubs the whole directory before the
   flag is looked at again. What does hold is `PromptStop`.
3. `DropReturns` (`scrub_loop_drop`). `scrub.rs:294-295` says to drop the
   `Arc<AtomicBool>` to signal stop. The loop has an `Arc` of its own and
   never looks at the count: only setting the flag ends it.
4. `NoFalseAlarm` (`scrub_dir_in_flight`). `scrub.rs:23-27` says that results are undefined
   when a writer rotates the file during the walk, then that with writers that rename the
   scrubber observes whichever inode was visible when it opened the file. Their temp files
   are regular files with the magic in the same directory, and the scrubber reports them: as
   truncated, as having a bad section, or as failing to open once they are renamed. What
   does hold is `TargetReportsClean`, also with dead writers.
5. `VersionSurfaced` (`hull_version`). `scrub.rs:14-16` says a wrong version
   surfaces as `header_error`. `scrub_file` never judges the version: it calls
   a file clean that every reader refuses.

## 7. Plan

Done, in this order: `AtomicWrite` with `AtomicFile` and its proofs, `ScrubLoop`,
`ScrubDir`, `HullFile`, `KvShape`; then `PathReaders`, `ScrubSystem`, `SectionCodecs`
and the proofs about temp files, readers, scrubber, loop and blob; then the proofs about
`HullFile`, the sizes of `KvShape` and all codecs.

Left:
1. `HullFile` with an abstract specification of its own (a register that readers see
   entire or not at all), shown to be implemented.
2. Indices in `SectionCodecs` that every decoder keeps to, as a lemma: that would
   close what `PanicsAtOverflow` leaves to TLC.
3. `Interrupted` reads in `HullFile`'s scrubber and readers.
