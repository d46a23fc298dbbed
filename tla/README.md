# A TLA+ model of rdc-tools

rdc-tools reads RenderDoc captures two ways. A Python side (`src/py`) parses a
`.rdc` file and analyses its chunk stream without a GPU. A C++ side (`src/cpp`),
the replay driver, links RenderDoc and answers questions about a frame it
replays, as an executable or as a library (`rdc_replay_api.dll`) that the Python
side loads. Both keep files between runs: decompressed streams, derived answers,
probe and sweep caches, bundles and the index of a sweep over a folder.

The hard part of the system is in those files and in the state a process carries
from one question to the next. No lock protects anything; processes are killed
in the middle of a write as a matter of course (a lost device takes its process
with it); one replay process serves many captures; and a wrong answer looks like
a right one. That is what is modelled here. Paths below are relative to the
repository.

## 1. The system

### Offline side (`src/py`)

| component | state it keeps | operations | what makes it correct |
|---|---|---|---|
| Stream cache (`rdc_cache.py`) | the cache directory: one file per capture, identity and section (header and decompressed stream), and `.tmp<pid>` files | `load_stream`, `stream_stats`, `cache clear` | a caller gets the section of the file it parsed, in full, hit or miss; entries are whole; nobody waits; one entry per section survives a prune |
| Sidecars (`rdc_cache.py`, `rdc_commands.py`, `rdc_resources.py`, `rdc_psos.py`) | `.strings.json`, `.names.json`, `.bindnames.json`, `.psos.json` beside an entry, one shared `.tmp` | read, judge, scan, store | a document answers only the question it was made for, over the stream it was made from |
| Worker scans (`rdc_scan.py`) | none between calls | `scan_runs`, `find_all`, `find_all_many` over a pool of processes | the result does not depend on the number of workers |
| Container and stream (`rdc_stream.py`) | none | `parse_container`, LZ4 pages, `iter_chunks`, `check_stream` | a walk over a damaged stream stops with a report |
| Chunk map and names (`rdc_chunkmap.py`, `rdc_chunknames.py`) | none | lookups in the engine's source | a chunk number gets the name of the right version |
| Engine source (`rdc_renderdoc_src.py`, `rdc_engine_schema.py`) | an extracted source tree | `ensure`: find, download, extract, mark | a tree taken for complete is complete and of that version |
| Driver staleness (`rdc_driver.py`) | none; reads times of sources and targets | `verdicts`, `verdict_code`, `build` | a driver older than its sources is said to be |
| Goldens (`rdc_goldens.py`) | transcripts and known differences | write, compare | a difference is reported once and explained or not |
| Hazards, uses, passes, pipelines, payloads, resources, memory (`rdc_hazards.py`, `rdc_uses.py`, ...) | none; folds over one stream | pure analyses | each agrees with what the recorded commands mean |
| Comparison, report, detectors (`rdc_ab.py`, `rdc_filediff.py`, `rdc_report.py`, `rdc_detect_*.py`, ...) | none | pure analyses of bundles | alignment, ranking and thresholds |

### Replay side (`src/cpp`, `rdc_replay.py`, `rdc_sweep.py`)

| component | state it keeps | operations | what makes it correct |
|---|---|---|---|
| Replay library (`api.cpp`, `capture.cpp`, `actions.cpp`, `rdc_replay.py`) | of the process: the replay system, the marker table, `g_bReplayed`, document buffering; of a session: its capture and engine | open, close, run a command | nothing a session left behind shows in another one's answers |
| Probe cache (`commands_frame.cpp`) | `probe-<key>.txt` | `probe` | only a first run's answer is kept |
| Bundle producer (`bundle.cpp`) | a bundle directory; `sweep-<key>.txt` | `dump`, `bundle-verify` | a bundle with a manifest is whole and of one frame |
| Sweep (`rdc_sweep.py`) | a folder of bundles, transcripts, `sweep.json` | `sweep`, by library or by executable | a row says what is on the disk; an interrupted run can be resumed |
| Command sequences (`replay_dump.cpp`) | the session of the process | `batch`, `multi`, `repl` | go on after a failing line, keep the worst exit code |
| Interactive commands (`commands_*.cpp`) | a patched shader, a watched file | about sixty queries, `patch`, `watch` | what is replaced is restored |
| Schemas, output, image and self test | none | tables and formatting | - |

### How they interact

- Commands of the offline side call `load_stream`, which shares the cache
  directory with every other process; a sidecar hangs off the name of the entry
  the stream came from.
- `sweep` opens one `Session` after another in its own process, or starts one
  `multi` process per capture, and sends each a `dump` line and the lines of
  `--commands`. It then judges by exit codes and by the manifest on disk.
- `dump` asks the engine for the ids that are events (or takes the cached
  list), walks them, and writes `events.json` and its tables, then
  `resources.json` and the rest, then `manifest.json`. `report`, `ab` and the
  detectors read bundles and never the engine.
- Engine state is path dependent: what the engine shows at an event depends on
  how the replay reached it. `g_bReplayed` is the process's memory of that.

### Hard behaviours

Of the replay side and the caches: two stores, a prune and a clear at once (stream
cache); one temporary name for all writers (sidecars); process globals that outlive a session (marker table,
buffering, replayed bit); a kill between any two documents of a bundle, and an
`--overwrite` killed half way; resuming a sweep over what an earlier one left;
a caller and an executable that disagree about line ends.

Of the offline side, which runs one command at a time over one stream: state that
several command lists keep while they record in turn into it; heap slots that are
overwritten after the draw that read them; a walk backwards that must agree with
flags computed forwards; windows and byte ranges that meet at an edge; scopes that
do not balance; a comparison that must account for both sides and not mistake what
it did not look at for what is equal; slices of a scan that end inside a match; a
tree extracted in place under kills; times read one after another while files
change; a corpus half rewritten.

PROJECT.json lists each of them under `hazards`, at its line and with the
properties that watch it.

## 2. The modules

| module | models | source |
|---|---|---|
| `StreamService` | what `load_stream` and `stream_stats` promise, with no cache: `Ask`, `Answer`, `Leave`, `Recapture` | `rdc_cache.py` |
| `StreamCache` | the cache directory, one file-system call a step, any number of processes | `rdc_cache.py` |
| `Sidecar` | the four sidecars: read, judge, scan, store through a shared temporary name | `rdc_cache.py`, `rdc_commands.py`, `rdc_resources.py`, `rdc_psos.py` |
| `ReplaySession` | one replay process: its globals, sessions, engine and `probe` | `api.cpp`, `capture.cpp`, `actions.cpp`, `commands_frame.cpp`, `rdc_replay.py` |
| `Bundle` | extends it with `dump`, the sweep cache, bundle directories, `bundle-verify`; its client is free | `bundle.cpp`, `common.cpp` |
| `Sweep` | extends that with the client that exists, `sweep` | `rdc_sweep.py`, `replay_dump.cpp`, `rdc_replay.py` |
| `Frame` | one chunk stream and what every reader keeps while it walks it: bound state per list, heaps, creations | `rdc_payloads.py`, `rdc_resources.py` |
| `Ledger` | every use of a resource; flags and provenance | `rdc_uses.py` |
| `Placement` | windows, peak memory, overlaps, clobbers, candidates to share | `rdc_uses.py` |
| `StateTrack` | the state each list leaves a subresource in, findings, draws that sample their own target | `rdc_hazards.py` |
| `MarkerTree` | marker scopes as passes | `rdc_passdiff.py` |
| `FrameWalk` | one step reads one chunk in all of those walks; `IsChunk` is what a chunk may be | `rdc_payloads.py`, `rdc_resources.py` |
| `Alignment` | two lists of passes paired | `rdc_passdiff.py` |
| `CallDiff` | two streams compared call by call | `rdc_filediff.py` |
| `BundlePasses` | a bundle read back, and its events as passes | `rdc_bundle.py`, `rdc_passes.py` |
| `PassPairs` | two bundles compared pass by pass | `rdc_ab.py` |
| `Detectors`, `PipelineDetectors` | the 23 detectors of a report | `rdc_detect_bundle.py`, `_usage`, `_binding`, `_state`, `_stream` |
| `Report` | which of them ran, known causes, notable rows, recommendations | `rdc_report.py`, `rdc_notable.py`, `rdc_recommend.py` |
| `Slices` | a scan in slices by workers against one pass | `rdc_scan.py` |
| `Framing` | the walk over framed chunks of a stream that may be cut | `rdc_stream.py` |
| `Goldens` | runs of `goldens` over a corpus, checking or writing | `rdc_goldens.py` |
| `EngineTree` | the engine's source tree fetched by several commands, and the names read from it | `rdc_renderdoc_src.py`, `rdc_chunkmap.py` |
| `BuildState` | the verdict on an artefact's age, and `build` | `rdc_driver.py` |
| `MCStreamCache`, `MCSidecar`, `MCBundle`, `MCSweep`, `MCOffline` | instances for TLC: values, bounds, views, symmetry | |
| `StreamCacheProofs`, `SharedFileProofs` (`Sidecar`, `EngineTree`, `BuildState`), `BundleProofs` (with `Sweep`), `LedgerProofs` (with `Frame`, `Placement`, `StateTrack`), `OfflineProofs`, `ComparisonProofs`, `PairProofs`, `ReportProofs` | theorems | |

`StreamService <- StreamCache` by refinement; `Sidecar` stands alone, the name of
its stream's entry being a constant function (`Where`); `ReplaySession <- Bundle
<- Sweep` by EXTENDS, and every step of `Sweep` is proved to be a step of `Bundle`
or to leave its variables alone. On the offline side `Frame <- Ledger <- Placement`
and `StateTrack`, joined with `MarkerTree` in `FrameWalk`; `BundlePasses <-
PassPairs`; and `Report <- PipelineDetectors <- Detectors`, which extends both
`BundlePasses` and `FrameWalk`, as a report reads a bundle and the capture it was
dumped from. The others stand alone.

A definition followed by a comment "If ... / ... where ..." comes in two forms.
The first is a plausible slip in the code (a dropped guard, a missing reset) and
is used by no specification; it is there to show that the properties notice.

### StreamCache

Names are bound to inodes (`entry`, `tmp`), because the design rests on that
difference: a rename moves an inode, a reader's map keeps it. A key is a capture
path, an identity and a section: the code hashes them into the file name, and the
model takes the hash to be injective. The identity (size and time) *is* the
version of the file: two contents with one size and time are outside the model,
as they are outside what the code claims. A file holds a header (key, length) and
a stream (the version it was decoded from), and is empty, headed or whole.

`load_stream` is `Begin`, `StatForLookup`, the three outcomes of the header check
(`HeaderMissing`, `HeaderRefused`, `HeaderAccepted`), `MapEntry` or `MapFails`,
`Evict`, `Decode`, `StatForStore`, `OpenTmp`, `WriteHead`, `WriteStream`,
`Publish`, `PruneList`, `PruneRead` (one header a step), `PruneOne`, `PruneDone`, with `StoreFails` and `Discard`
for each system call that can fail, and then a second lookup for the warmed map.
`stream_stats` leaves after the header or after the store. `cache clear` is
`BeginClear`, `ClearOne`. `Crash` is possible between any two steps and leaves
the files; `Recapture` puts another version, or nothing, under a capture path.
`Finish` closes the command and frees its map.

Constants choose the environment: `Calm` (nobody replaces a capture under a
running command), `MapLocks` (Windows: an open or mapped file cannot be
removed or replaced, and a removal may fail because somebody reads the header just then), `NoCache` (processes under `$RDC_NO_CACHE`, which is also how a cache
directory that cannot be written behaves), `Raw` (sections stored uncompressed,
served without the cache), `Leftover` (files an earlier run may have left).

### Sidecar

A document is stamped with the stream's digest, the minimum length and how many
rows it holds; it takes `Size` blocks on disk, and reads and writes land block by
block (`ReadBlock`, `WriteBlock`), because writers that share `<sidecar>.tmp`
can be in one inode together. A file parses (`Parsed`) when it has no hole and
nothing after its end, and wherever blocks of two documents meet they fit, which
`Seams` says of any two texts and any place: the runs let every pair fit
everywhere, the theorem speaks of every set of seams. What comes of a splice has
the first block's stamp and any number of rows. `Judge` is the checks of the four
loaders, which look at the stamp and the counts only; `Scan` the answer
recomputed, `Publish` the rename, `Clear` another process's `cache clear`.
`Alike` restricts which commands run at once: those at work on one sidecar ask
for one minimum length (the rows they ask for may differ).

### ReplaySession and Bundle

Process state: `up` (the replay system), `markersOf` (whose action tree
`MarkerPaths` has walked), `replayed` (`g_bReplayed`), `buffering`. Session
state: the capture, and what has been done to its engine: `still`, `stirred` by a
call that re-executes the log by itself (`FetchCounters`), or `moved` by
`MoveToEvent`. That is all that is said of RenderDoc. `Look` stands for every
command that moves the replay and names markers (`state`, `shaders`, `cb`, ...),
`Find` for one that only reads the marker table, `Counters` for `counters`.
`probe` is `ProbeCached` or `ProbeBegin`, `ProbeStep` for each id (storing at
every `Flush`), `ProbeEnd`. A host is the executable (one open for the life of
the process) or the library (any number), makes one call at a time, and may end
or be killed at any step (`Restart`); one replay at a time is the documented rule
("One replay at a time", `REFERENCE.md`), so there is one host.

`dump` goes through `ids`, `events`, `listing`, `resources`, `describing`,
`manifest`, `hashing`; opening a document makes it `Torn` and closing it
completes it, and `DumpFails` leaves things as they are at any stage. A bundle
is three documents, `events` standing for all whose content depends on the
process's past and `resources` for those that are functions of the capture. A
sheet records what can be wrong with it: the frame it lists, whose marker paths it
names, whether its ids came from a cold engine, whether stdout was buffered
meanwhile, which host wrote it. `replacing` is a history variable: an
`--overwrite` began on this directory and has not finished.

### Sweep

A run goes through `Folders` in order. By the library: `Opened`, `Dumps` ..., then
`LineAnswers` for each of `run.lines`, `Closes`, stopping at a failing line. By the
executable: `Spawn` first, going on after a failing line, `Splits` for the transcripts.
`keyOf` is where a capture's bundle goes (any function: `key_for` maps `a-b.rdc` and
`a/b.rdc` to one), `NameOf` the file a line's answer goes to (any function: `draws 12`
and `draws 12 --json` share one), `texts[b][n]` what is in that file: the answer of which
line about which capture. `Judge` files
the row; `IndexOpened`, `IndexWritten` write `sweep.json`. `AnswerLost`,
`ChildDies`, `Refused`, `DumpBreaks`, `DumpRefused`, `LineFails` are the failures;
`Killed` ends a run anywhere and `Recapture` changes a capture between runs.

### Frame, Ledger, Placement, StateTrack, MarkerTree

A chunk is a record with an `op` and the fields the walks read of its payload; its
event id is its position in `stream`. Adding a chunk is the only step there is, and
everything the code derives while it walks changes in that step (`ReadChunk`): the
walks of the commands are separate loops over one file, so composing them this way
loses no interleaving. What the code computes after its loop (`Used`,
`WalkProvenance`, `PeakLive`, `Findings`, `MarkerPasses`) is an operator on the
state, and since every prefix of a stream is a stream, it is judged after each chunk.

`Frame` holds what `_apply_state_chunk` and `apply_descriptor_chunk` keep: per list
the signatures, root arguments, targets, buffers and pipeline; per heap slot the
descriptor. `Ledger` charges a draw with the root views and tables in force, its
targets and buffers; a table's use is recorded by slot and resolved in the heaps as
the stream leaves them, which is what the code does. `Contents`, the reference for
provenance, carries what each resource holds forwards, while the code walks
backwards. `StateTrack` keeps per list and resource the barriers of three forms
(legacy, split in two flags, enhanced groups) and judges a use with the barriers of
its own list only; a state word is the set of its bits. `MarkerTree` is the stack.

### Alignment, CallDiff, PassPairs

States are pairs of inputs: pass lists, streams, bundles, grown one element at a
time on either side, so TLC visits each pair once. The pairing rules, the keys they
compare by and the order they are tried in are operators. In `PassPairs` a picture
is its bytes, its size and whether it decodes; the budget `ImageDetail` is handed
from row to row in the order of the document.

### BundlePasses, Detectors, PipelineDetectors, Report

A bundle's events bring what the dump wrote of them: targets, marker, state document,
pictures, counters, usage rows. Each detector is an operator from a bundle (or the
stream) to its findings, `WhyNot` says of each why it did not run, and `ApplyKnown` adds
what the corpus knows of this file. Numbers are kept where a rule compares them
(viewports, vertices, block values, sizes, samples) and are small. A count in a
finding's sentence is its `key`. The lines that name the draws outside every marker are
cut: `CutLine` knows of each number how many digits it has (`Radix`) and how many
characters a call's name leaves it (`LineRoom`), so the last number may be the first
digits of another. A cause's words match by substring: an entry is the set of sentences
and of named things its words are in.

### Slices, Framing

`Slices` grows a stream byte by byte; cuts, slices, per-slice results and the merge
are operators, for each worker count, run length and needle, and for a pool that
fails after any number of slices. `Framing` lays a sequence of chunks out in bytes
(the first byte of a field stands for its value) and cuts the end off anywhere, inside a
field too; `Walk` walks the bytes knowing nothing of the layout.

### Goldens, EngineTree, BuildState

These three have time in them. `Goldens` is a run as the list of its tasks, one step
a task, with the pair compared by a thread beside them, a kill anywhere and another
machine afterwards; a text is the record of what it depends on. `EngineTree` is
`ensure` in steps (find, ask for the tag, extract or copy entry by entry, verify)
for any number of processes on one tree, with kills, archives that end early and a
tag that moves on. `BuildState` reads one time a step (`Readings`) while an editor, a
checkout and another build act between any two.

## 3. What TLC checks

| run | instance | shows |
|---|---|---|
| `stream_cache_calm` | 2 processes, 1 capture, 1 section, 2 versions with streams of different length, 4 inodes, a truncated and a short leftover, `Calm` | `EntryHonest`, `ServedIsParsed`, `PruneLeavesOne`, and `ImplementsService` |
| `stream_cache_sections` | 2 sections of one capture, 2 versions, 2 inodes, at most one orphaned temporary file, `Calm` (the theorems below drop that) | `TypeOK`, `PublishedIsWhole`, `MappedBytesFixed`, `RemovesOwnSlotOnly` |
| `stream_cache_live` | `LiveSpec`, `MapLocks`, not `Calm`, one process with the cache off | `EveryCallReturns` |
| `stream_cache_stale` | not `Calm`, no locks | finds `EntryHonest` violated |
| `sidecar_shared` | 2 processes, 2 minimum lengths, documents of 1 and 2 blocks, every seam fits, `Alike` | `TypeOK`, `AnswerRight` |
| `sidecar_spliced` | the same, not `Alike` | finds `AnswerRight` violated |
| `bundle_free` | 2 session objects, 2 captures, 1 directory, 3 ids flushed every 2, 6 calls | `TypeOK`, `ProbeCacheFresh`, `ProbeKnowsItsPlace`, `ManifestMeansWhole`, `OneFramePerBundle`, `ExeMarkersOwn` |
| `bundle_markers` | the same | finds `MarkersOwn` violated |
| `bundle_probe` | the same | finds `ProbeCacheFirst` violated |
| `sweep_runs` | 2 paths with a directory each or one for both, 2 captures, no further line, one, or three of which two share a name; 2 runs, the first without `--overwrite` | `SweepTypeOK`, `RowsMatchDisk`, `SweptHasTranscripts`, `SweptIdsCold`, `ExeSheetsTrue`, `OneDevice` |
| `sweep_resume` | the same | finds `FailedForCause` violated |
| `offline` | ten machines of the offline side, one after another (below) | the seventeen properties of the offline modules |

`MCOffline` holds one instance of every offline machine. Its variable `part` picks
the machine that moves and the rest stand still, so the state space is the sum of
the parts (about 250,000 states, two to three minutes), and a run answers one question: does
what the toolkit concludes without a GPU agree with what happened?

| part | instance |
|---|---|
| `frame` | six scripts of 4 to 7 chunks, a script being the set of chunks that may come at each position: bindings, loops, origins, sharing, states, scopes; 2 lists, 3 resources, 2 heap slots and more |
| `align` | up to 4 passes against up to 3, of 5 kinds that share paths and innermost names |
| `diff` | up to 6 chunks with 3 draws against up to 4 with 2, from 7 snippets |
| `pairs` | up to 3 events against up to 2, of 6 kinds; one decoding in the budget |
| `report` | 4 situations (with and without usage, mesh, capture, chunk map); up to 3 events of 6 kinds, or 2 after a stream of chunks; a corpus with a cause of each shape, two that fit one finding and one that fits two; lines with room for one or two numbers in base 2, one line listed of those with a limit |
| `slices` | 7 bytes, three of which differ; 1 to 3 workers, runs of 1 and 2, three needles, cuts pushed by 2 |
| `framing` | 3 chunks of 4 shapes at an alignment of 8 bytes, cut at any byte of the last |
| `goldens` | 2 captures, one with driver commands, and their pair; 8 machines before and after, 3 with a corpus that is refused, and one script of three runs |
| `engine` | 2 commands, 2 tags of which one refuses an entry and lacks a file, the documented folder and another |
| `build` | 2 targets with one source each and a list both share, a clock of 4 ticks, one file touched in a reading |

**Why these bounds are enough.** Two processes give each pair of steps every
order, and a process starts another command when it has finished one, so a third
party is played by the same process later. Two versions are what a stale entry
needs; their streams differ in length so that a wrong stream and a short one are
told apart. Four inodes are an entry for each version and a file for each
process. Two-block documents are the smallest that can be torn. Six calls let a
host open, dump, close, open the other capture and dump over the first, with a
call to spare; three ids with a flush every two give a flush in the middle, one
that is not at the end, and a tail. Two runs of `sweep` are the interrupted one
and the one that resumes; an `--overwrite` of an empty folder changes nothing, so
the first run goes without. The counters of calls and runs live in the MC
modules, bound the state space and stop the model, which is why those cfgs turn
the deadlock check off. `OneOrphan` bounds the temporary files that crashes leave,
which nothing else limits.

For the offline parts: a script puts at each position only what the question turns on
there, which buys length. Seven chunks hold set, draw, replace, draw on two lists;
six hold a chain of two moves with a write before and a use after, or two scopes one
inside the other with a stray close; six cover two placements and four touches, the
shortest sequence with a write between a use and a later read. Three against four
passes is the least with a repeated path, a moved one and a leftover on both sides.
Two draws against three give a repeated name with one over. Seven bytes in three
slices have an inner slice shorter than the longest needle, with runs and matches
across both cuts; a cut search of 2 runs out. A frame of every optional field, a
64-bit length and a payload of 0 to 3 bytes cover what the length and padding
arithmetic distinguishes. Two machines are a write and a check. One touched file
between two readings is an edit or a build that a verdict may straddle; with more,
every verdict can be excused. Engine tables are written from the one full tree first
(a bound of the instance), as what they hold later is a function of the tree.

**Views and symmetry.** In `MCStreamCache` and `MCSidecar` states are compared up
to the numbers of inodes and what a process has no more use for. Processes, and
session objects and captures together, are interchangeable: no definition names
one. In `MCOffline` the commands that fetch are. The liveness run uses neither.

**Fairness.** `LiveSpec` assumes weak fairness of each process's own steps: a
process that is not killed keeps executing, which is the operating system's
scheduling. Nobody is obliged to start a command, to be killed or to replace a
capture. `EveryCallReturns` then says that no entry removed, refused or locked by
others can keep a call going round.

**What the properties say**, beyond the types:

- `ServedIsParsed`, `ImplementsService`: the cache "cannot change what a command
  prints" (`REFERENCE.md` 4.8), when captures keep still under running commands.
- `MappedBytesFixed`: no write or truncation hits bytes somebody mapped or a name
  offers. `RemovesOwnSlotOnly`, `PruneLeavesOne`: what removing by name may cost,
  and what is left of a slot when a prune has finished.
- `AnswerRight`: among commands `Alike`, though sidecars may be torn, no torn,
  foreign, shorter or spliced document reaches the output.
- `ProbeCacheFresh`, `ProbeKnowsItsPlace`: what is cached as a first run was walked
  by an engine that no `MoveToEvent` had moved, across sessions, captures and kills.
- `ManifestMeansWhole`: a readable manifest describes the documents on disk, or an
  unfinished `--overwrite` is to blame. `OneFramePerBundle`: a bundle that
  verifies is of one capture, whatever was written over what.
- `RowsMatchDisk`, `SweptHasTranscripts`: the rows of a sweep against the disk and
  the transcripts. `SweptIdsCold`: no sweep lists or caches ids of an engine
  already moved. `ExeSheetsTrue`: the executable's bundles do not depend on the
  process globals. `OneDevice`: a sweep never holds two sessions.

- `ArgumentsAreInForce`: a draw is charged with the root arguments last set on its own
  list since the signature that keeps them, and no others.
- `ProvenanceFindsOrigin`, `FlagsAgreeWithProvenance`: the backward walk ends where the
  contents came from, and the flags of `deps` tell the same story.
- `PeakIsTheMaximum`, `NoClobberMissed`: the sweep over windows against the sum at each
  event; every write into bytes somebody reads afterwards is in the list.
- `FindingsHaveNoExcuse`: a hazard that is reported is one under any subresource the
  view may be of. `LoopsAreAsOfTheDraw`: decided by the slots as they were at the draw.
- `PassesAreTheScopes`, `AlignmentIsAMatching`, `DiffAccountsForEveryCall`,
  `PairVerdictsHaveEvidence`: nothing lost, nothing counted twice, symmetric where the
  code means to be, equal only to what was looked at.
- `ReportClaimsWhatItChecked`: a rule with nothing to read says why it did not run (all but
  `mismatched-msaa`); findings, causes and rules over the same rows do not contradict each
  other; every draw outside the markers is counted, and named up to where its line is cut.
- `SlicesEqualOnePass`, `WalkIsTheLayout`: the parallel and the framed reading against
  the plain ones.
- `VerdictSpeaksForTheCorpus`: exit 0 means every text this machine can produce was
  compared and is this tool's, of this file.
- `FetchHeals`: a fetch that was alone and succeeded leaves nothing of an earlier one.
- `VerdictsAreOfNow` (an action property): the last artefact's verdict is true at the
  end of its reading.

## 4. What is proved

TLAPS checks every theorem for all values of the constants, under the named
assumptions of the modules: the constants have their types, sentinels are not
values, leftovers do not lie about their own key (`LeftoverAssumption`), the files of a folder
are listed once each (`SweepAssumption`), the first tag exists and an
archive is a sequence of entries (`EngineAssumption`), resource ids are numbers and 0 is
one (`FrameAssumption`), each kind of chunk has the fields its walks read, of their types
(`FrameChunksAssumption`), no command of a corpus is named like another task
(`GoldensAssumption`), and a chunk's id is not 0, the terminator's, with an alignment of at
least one byte (`FramingAssumption`), there is at least one worker and no pattern
is empty, `find_all` answering an empty one before it searches (`SlicesAssumption`), and
the pictures of an event are in finitely many numbered slots (`PairAssumption`). An
inventory is finite, with ids and sizes that are numbers, and the limits of the rules are
at least one (`DetectorsAssumption`); a report starts before its first event, and the
vertices and viewports of an event, the captures of a corpus and the causes of each are
lists, coordinates whole numbers (`ReportAssumption`); the first of a list is at least one
line and a line's room a number (`StreamDetectorsAssumption`). All are
safety results.

**`StreamCacheProofs`.** `TypeCorrect` carries, besides the types, what each
control point has at hand (a process that stores has a decoded version).
`PublishedIsWhole` is not inductive: nothing in it forbids a writer under a final
name. `Ownership` says who may refer to an inode. Names do not share one
(`NamesApart`), a map never shares one with a temporary name (`MapsApart`), a
writer's inode is known to its own temporary name and nobody else (`WriterAlone`),
what a process is about to rename is its own whole file (`TmpIsMine`), and final
names hold whole files or leftovers (`EntryWhole`). With it follow
`PublishedFilesWhole` and, as every step that writes a file writes one nobody
else knows, `ReadersNeverDisturbed`. Neither assumes anything about captures.
Under `Calm \/ MapLocks`, `Truthful` adds that everything a process parsed,
stat'ed and decoded is one version (`Agrees`), that a name whose header was
accepted still offers something as good, or nothing, when it is mapped
(`AcceptedStays`), and that entries are honest. That gives `CacheNeverLies`, and
`CacheIsTransparent`: each step that answers is an `Answer` of `StreamService` and
the rest stutter. `EntriesAreHonest` is the part of `Truthful` about names.

The second half of the module is what removing by name costs and leaves. `RemovesOwnSlotOnly` needs
`Filed`, that a readable file is under the name its header gives: `Publish` keeps it, so
`RemovalsStayInTheirSlot` assumes it of the directory at the start only (a file somebody
renamed to another slot's name would be pruned there, as the code matches headers).
`PruneLeavesAtMostItsOwn` needs no such assumption, but captures that keep still and files
that can be removed while they are open. What could leave an old entry then is a store that
adds a name behind the listing. `Swept` says that what is readable of the slot is the spared
entry, or still to be read or removed; and by `Agrees` any two commands on one slot have one
name (`OneNamePerSlot`), so what another store adds is the entry the prune spares. On Windows
the statement is false: a removal that meets a header read leaves the old entry there.

**`SharedFileProofs`, of the sidecars.** `SidecarTypeCorrect`, and `SidecarNeverLies` assuming the
digest tells streams apart and `Alike`. The loaders do not notice a splice, so the proof
must show there is none: `PlaceInv` that a file in use belongs to one sidecar and that what
is read is never what a temporary name points to, so `OpenTmp` truncates under no reader;
`TextInv` that the blocks of a file, and what a reader has of them, are of one text, because
whoever writes a file and whoever still reads it ask for that text; then `AcceptedIsRight`.

**`BundleProofs`.** `BundleTypeCorrect` with `DumpInv`, the state of a dump in
progress (at which stages which documents are this capture's; the directory it
writes into has no readable manifest, or is being replaced). `DirInv` strengthens
`ManifestMeansWhole` with what a manifest lists; `ManifestsAreEvidence` follows.
`ProbeInv` ties `replayed` to the engines (while it is false, none was moved),
without which a probe that believes itself first need not be: `ProbeCacheIsFresh`.
`HostInv` says that the executable has at most one session, the one whose tree is
in the marker table, or none: `ExeSheetsNameTheirOwn`. `ProbesKnowTheirPlace` and
`VerifiedBundlesAreOfOneFrame` are read off `ProbeInv` and `DirInv`.

**`BundleProofs`, of a sweep.** `SweepInv` (types, one dump at a time and only in the step that
waits for it, a capture to work on between look and row) gives `SweepTypeCorrect`
and `SweepIsAClient`: a sweep's behaviours are behaviours of `Bundle`.
`SweptBundlesAreWhole` is then a corollary.

Then what a sweep's own rows say, each with the invariant that carries it. `OneSession`: only a working run has a session, and that one is its own; hence
`SweepsHoldOneDevice`. `ColdIds`: a dump starts on an engine nothing has moved, and the ids it goes on with
are a cold engine's, listed or cached; `SweepsListColdIds`. `Unbuffered`:
an executable's process is fresh until its one dump is over; `ExeSheetsAreDumps`.
`RowsInv`: no row is filed ahead of its turn, a dump writes into the bundle of the
capture whose turn it is, which ends what was known of earlier captures of the same key
(`Latest`), and that bundle is whole from the end of the dump to the row;
`SweepsReportTheDisk`. `TextsInv` adds `WrittenTo`: of the lines so far, each that no
later one has written over has its answer about the capture the run is at;
`SweptRowsHaveTheirTranscripts`. Neither assumes anything of keys or names.

**`SharedFileProofs`, of the driver.** Of the engine's tree, `HealInv` has three parts: types, what control points have at
hand; `Exclusive`, that a command which takes itself to be alone is the only one
working on the tree; and `Extracted`, that of such a command every entry up to its
position is whole and of its tag, but for one it is writing again. `FetchesHeal` follows for any commands, archives,
tags and any tree found at the start. Without `Exclusive` a second writer could change
an entry behind the first one's position, and `alone` is what the property asks for.

Of an artefact's age, `QueueOK` says that what is left to read is the end of one artefact's
list and the whole lists of those after it; `NewestOK` that the newest time found bounds
every source read and since left alone, and is reached or passed by a source, unless one
was removed. Edits, removals and other builds keep both, as a change has the time of the
change or none and an artefact is nobody's source (`WellFormed`, what `TARGETS` gives);
`VerdictsHoldWhenGiven` is read off them when the artefact's own time is read, last.

The next three are about analyses of data: streams of any length over any lists,
resources and signatures, corpora of any size. Their reference definitions fold or recurse
over that data, and no installed prover takes an induction theorem with an operator
parameter, so two lemmas stand in for induction. `NatLeast`: a set of numbers that is not
empty has a least, so what fails somewhere fails somewhere first (`Climbs` is the form with
a step from k - 1 to k). `FoldExists`: a function with the defining equation of a fold over
a finite set exists, and `ChainExists` the same along 0..n, so that the CHOOSE by which
TLA+ defines a recursive function, or the library a fold, has what it asks for, and what is
chosen may be unfolded. Lemmas speak of two plain sequences of which one is the other with a
chunk more (`Grows`), the reference read in both.

**`LedgerProofs`.** `FrameInv`: what a list has bound is, key by key, the argument of the last
setter in force (`BindingsFollow`), in force being what no later signature, reset or setter
of the same key ended. The property reads a set of positions, the code a state carried
along; one lemma per operation says what a chunk does to that set. `LoopInv` adds the targets
(`TargetsFollow`) and the slots: `HeapsFollow` says that a slot holds what the recursive
history `SlotAt` says it holds at the end of the stream, and `LoopsFollow` that the loops
found so far are those of the draws so far, of which later chunks change nothing.

**`LedgerProofs`, of uses.** `LedgerInv`: every use is of a chunk of its own event that makes such a
use (`UseRight`). `TrackInv`: the rows of a list and resource are the barriers the stream has
of them, in order, or the resource is ambiguous. `PlacementInv` and `OriginInv` tie
creations and copies to their chunks. `OriginsAreTrue` compares a walk backwards with a
history forwards; the first event at which they differ is neither a creation, a write nor a
copy, and before it they agree. It has a hypothesis, `BornBeforeUse`: the code resolves a
descriptor table in the heaps as the whole stream leaves them, so a draw can be charged
with a resource made after it, and such a chain starts at a creation that had not
happened. TLC found those streams when the property was first stated without it.
`PeakIsOfOneEvent` shows that the sweep's running sum is the bytes live at each event, from
which the peak is one of them and bounds them.

**`OfflineProofs`.** `GoldensInv`: which tasks are left and which are judged make up what is
due, and each verdict filed is the one the machine and the corpus give, which nothing
changes while a run is under way. `VerdictsSpeak` holds for machines that are in a state
a machine can be in (`MachineOK`: a bundle is missing, broken or whole, and so on), which
covers every machine of the run. `ScopesInv`: an open marker is a push nothing has closed,
one at each depth, with the calls since (`StackFollows`); what has closed with a call
inside is in `passes` as the scope it was (`PassesFollow`); and a scope has one marker
around it at each smaller depth (`Ringed`), so that its path, which the property
reads off a CHOOSE, is the stack's. `MarkerPassesAre` unfolds the fold that adds the markers
still open where a stream is cut off.

`WalksAreTheLayout` sets a fold against a recursion. `LaidIs` unfolds the writer's fold: each
frame stands where the padding of the one before ends (`Starts`), its header, stack count
and length where a reader looks for them (`FrameAt`). `DownwardExists` gives the walk its
function of positions, since a frame only hands on to a later one (`ReadIs`: whatever the
bytes are). Over the bytes that are there, `FrameRead` makes a whole frame the chunk it was
and one cut after its header "bad", or "crash" where its stack count is cut; `WalksOver`
strings the whole ones together, and a header that is not all there ends the walk clean.

`SlicesAreOnePass` needs no history either. `SplitIs` says of the cuts what the argument uses:
they meet from the first byte to the last, and each is at a byte no run has (`MeetSafely`). So
the runs of two slices that meet are those of the whole and no run is in both (`RunsMeet`),
their tallies add up (`TalliesMerge`), and `ScanIs` goes along the fold of the merges. For
patterns, a slice finds the offsets inside it that the whole has (`FoundIs`, where the two
bounds off by the length less one cancel), and ascending lists of ranges that meet string
together (`AscendingMeet`).

**`ComparisonProofs`.** `AlignmentMatches` needs no history, since the rows are a function of the two lists; its
argument is about `PairBy`. `Pairing` is the invariant of its fold: no position is in two
pairs, a new pair takes the first left of its key, and a position passed over had all of
its key taken before it. Over two whole lists that makes the rule `FirstCome` (served in
order on either side, nothing of one key left on both), of which there is one only
(`FirstComeOnly`, by the first difference there would be); turned round it is the same
rule, so the full paths pair alike from either side.

`DiffsAccountForCalls` is of two streams of any chunks; its inductive invariant, `DiffInv`, says
only that each side is a list, as `DiffAssumption` says of the pieces, and the rest is true
of any two lists. `SoFar` is the invariant of the walk: the records so far are the calls so
far, in order, each with its number among the calls of its path and name, and what a list
has gathered is what it set since its last call (`SinceGrows` says what one chunk does to
that set, `SoFarOn` that the walk does the same); hence `RecordsAre`. The paths of a stream
are each listed once (`FirstsAre`), and both rules that pair them are `FirstCome`, the second over what the
first left (`RestFirstCome`), so turned round they pair the same (`AlignTurned`) and of a list
with itself each path with itself (`AlignSelf`). A call is told by its path, name and number
(`NthApart`); so it is paired once at most (`PairedOnce`) and has one row, and `Mirror` takes the rows
of one comparison to those of the other.

**`PairProofs`.** `PairVerdictsRestOnEvidence` needs of the history only that the events of a
bundle are a list and its names and counter are as they were (`PairInv`); the rest is true of any two such
bundles. The passes of a bundle cut its events into runs (`PassesSpan`), so an event is in
one pass (`OnePassEach`). `Matching` is the invariant of one rule over what the rules before
left: nobody in two pairs, a new pair of one key that is not empty; through the four rules
it gives `AlignedAre`, where a pair made by call order has both passes unmarked, as marked
ones have the empty key there (`OrderKeyIs`). The rows are the left passes and then the
new ones, each pass in one (`LaidPairs`). `ImagesHold` goes along the slots of a pair and
`DocHolds` along the rows: what was decoded so far and what is left of the budget make up
`ImageDetail`, so that what is left undecoded was met with nothing left. Of a bundle
with itself each rule can only pair a pass with itself (`SelfStep`), and between them the
rules take every pass: a marked one by its path, an unmarked one by its place (`AlignedSelf`);
no row then has a difference (`SelfDocument`).

**`ReportProofs`.** `ReportsClaimWhatTheyChecked` needs of the history that the events read are
a list (`ReportInv`) and that the scopes of the stream are its own (`ScopesInv`): a report is
a function of both, and what it claims is true of any bundle and any stream. Its lists are
put in order by `Ranked`, from a set of pairs: `RankedIs` says that every element comes
once and none after one it comes before, `Measured` that an order by a natural rank allows
such a list. A flag of the document is then followed back: `Follows` and `Carries` say what
the verdicts of provenance and the known causes leave of the flag its rule made, so
`DocumentCarries` finds in each rule's part of the document the flags that rule found, and
`NamesAre` which resources they name. On that rest the six parts:

- `GapsTold`: a rule that could not run finds nothing, and its gap is a row of the advice,
  or the advice is full (`AdviceIs`); the worst come first, by `Measured` again.
- `BlindTold`: a rule with nothing to read gives its reason (`BlindSay`); `mismatched-msaa`
  gives none, and without usage lists has no resource to judge.
- `CausesSpent`: a finding is proven exactly when a cause of the corpus fits it, by what it
  says and a line it lists, and has the words of the last that does; a cause is stale
  exactly when it fits none.
- `UsagesAgree`: no resource is both never touched and misused, what a compute pass wrote
  for nobody is listed as never read or is read again by such a pass, and a target loaded
  for an earlier reader is listed as read before written, in a full list perhaps only as
  one of those left out. The uses in a resource's chain are its rows (`ChainIs`), and flags
  made by grouping name just what they grouped (`GroupsName`).
- `BeyondCertain`: a box is the least and the greatest of the coordinates (`BoxIs`), so a box
  outside a clip plane or an edge of every viewport has every vertex outside
  (`PlaneBeyond`, `TargetBeyond`).
- `BareNamed`: by `ScopesInv` a draw is bare exactly when no pass of the stream has it
  (`OutsideIsBare`), which ties this rule to the marker walk; its finding is in the document
  as it was found (`FoundAsIs`), a line for each call (`UnattributedAre`), and a line names
  draws of its call, those it has room for in full (`CutLineIs`).

**Only model-checked.** `EveryCallReturns`, a liveness property under fairness: neither it nor
ENABLED is in the prover's reach. Every other property of a passing run is stated by a
theorem. What the sentences of section 5 claim is false of the code, so there is nothing
to prove of them. No module uses a RECURSIVE operator.

## 5. What the checks found

Each of these runs ends in a counterexample against a sentence of the
repository; PROJECT.json quotes it.

1. `stream_cache_stale`: `cache_store` stats the capture again after it was parsed
   and decompressed. Replaced in between (where the platform allows it), the old
   stream is filed under the new identity.
2. `sidecar_spliced`: the four sidecar stores share one `.tmp`. Two that ask for
   different minimum lengths at once can leave a file that begins as one document and
   ends as the other; where the cut happens to parse (inside a string of both), the
   loader takes it for the first one's answer. A file another writer has just
   truncated can be renamed too, but is refused, and costs a scan.
3. `bundle_markers`: `MarkerPaths` is a function static. Right for the executable
   (`ExeMarkersOwn`), wrong for a library host that opens another capture, which
   `sweep` does by default: its second bundle names the first capture's markers.
4. `bundle_probe`: `counters` re-executes the log without `MoveToEvent`, so a
   `probe` after it counts as a first run, and is cached.
5. `sweep_resume`: an interrupted dump leaves a directory that is neither empty nor
   a bundle; the next sweep sends `dump` without `--overwrite`, which is refused, and
   so does every later one.

Met on the way, and recorded here because a model of the code has to take a side:

- Buffering of documents is turned on by a dump and never off, so the second bundle
  of a library process is written buffered from its first line.
- `dump` caches the id list without asking whether the engine was cold. `sweep`
  always dumps first (`SweptIdsCold`); a client that asked something else before
  does not.
- A bundle killed in an `--overwrite` keeps the old manifest over new documents
  until `manifest.json` is opened, and `sweep` takes it for `present`. The properties
  name that state (`replacing`).
- `present` does not compare the capture with the bundle's hash, and `key_for` maps
  `a-b.rdc` and `a/b.rdc` to one bundle: the row of the first then describes a bundle
  that the second has replaced (`RowsMatchDisk` ends at that point). `transcript_name`
  likewise: of two lines that differ in options the last one's answer is left
  (`Survives`). A transcript of an earlier run whose line is not asked for again stays.
- A line of `--commands` that fails makes the row `failed`, though the bundle is
  there; the next run calls it `present`.
- The executable's stdout is in text mode, so the `#=== ...\n` markers that the
  transcript splitter looks for arrive as CR LF (`Splits`).
- Strings and names with different minimum lengths share a sidecar path and evict
  each other (one after the other the cache only thrashes; at once, finding 2).
- `_cache_prune_stale` removes any other version's entry, a newer one too, and on Windows
  leaves one whose header is being read.

Of the offline side, where the code and its own words part (the models take the code):

- `rdc_uses`: a read in the event that first writes clears `read_before_write` (344),
  against 336-338, and `rdc_detect_usage` repeats it; `_pair_conflicts` counts reads
  after the write, its docstring has the write included; the note "creates it later" of
  a provenance chain cannot be reached, as an end at a creation is not compared with
  the read.
- `rdc_hazards`: 0 is taken for the whole of a resource "for a buffer" (227-229) and of
  a texture as well (`NamedApart` in `FindingsHaveNoExcuse` excepts those); an enhanced
  barrier never names a subresource; a reset of a list forgets nothing it recorded.
- `walk_uses` and `call_bindings` resolve a table in the heaps as the stream leaves
  them, which `rdc_hazards` and `rdc_sigcheck` call wrong; a diff reads a table's first
  slot only. Passes of `passdiff` come in the order they close.
- `rdc_stream.check_stream` promises every fault and stops at the first (470-473); a
  call-stack count cut off by the end of the stream raises `struct.error`, not
  `FrameError` (347); and one to three bytes of a header left at the end read as clean,
  without a note (467, 503). `WalkIsTheLayout` states all three as they are.
- `rdc_driver.verdict_code`: 2 when any verdict has a note, where 24-26 say "nothing
  could be compared at all"; `build` returns 0 after a build even if what it reads
  afterwards is stale again. A failed build is reported with "the artefacts are
  unchanged" (256), which nothing checks: `Rebuild` lets it have rewritten some.
- `rdc_renderdoc_src`: a file half written counts as present, so the tree of a killed
  fetch may pass for populated until another fetch runs (38-42 say it is recognised).
  `chunknames --write` asks only for the populated tree, so the table can lose the
  formats enum; `FetchHeals` speaks of the enums the archive held. Two fetches share
  the tree.
- `goldens --write` exits 0 although texts differ, pins what a crashing command printed,
  and its runs share their scratch folders.
- `rdc_ab`: a side without a state document has no rows, and each row of the other is
  called added; `align` lists four rules under "Three rules"; pictures left undecoded
  count as compared; heat maps of two passes can take one file name (869).
- `rdc_report`: with `--no-usage` the resolve rule ran and is clean with nothing to judge
  (160-163 against 120-123), which `OneRuleIsBlind` states; known causes match by substring
  and only against the lines a finding lists, and the last that matches writes over the
  others (70-80). `rdc_detect_stream` cuts a line that names draws outside the markers at
  160 characters, inside a number if it falls there (151-152), and a reader takes it for
  another chunk's. `rdc_notable` compares `res5` with `5` (387 against 159), so its rule for
  a pass's target never fires (`ResourceSpecials`), and sorts the ids it lists as texts. It calls every pass with targets dead in such a bundle
  (261-264 against 84-89). `geometry-offscreen` is "certain" by a viewport its own
  docstring says may be stale.

## 6. What is not modelled

The content of an answer is the engine's and RenderDoc is outside the repository;
formatting, layout and option parsing are pure functions without ordering. A hash (cache
key, probe key, manifest hash) is its argument: collisions are outside the model, and so
is `stream_digest`'s sampling. A full disk whose `fprintf` goes unchecked is outside it
too, as the rows of a list are one value here. The power-cut file of an unsynced rename
is a `Leftover` of `StreamCache`, not an event.

Of the offline side: schemas and their validation, image, shader and format bytes, LZ4
and the bytes of the container header and page window are decoding without state or
order. The tables of pipelines, samplers, permutations and video memory, `rdc_sigcheck`
and `rdc_engine_schema` read what `Frame` keeps, or the tree, and print it; the renderers
(`rdc_ab_render`, `rdc_report_render`) lay a document out. `patch`, `trace` and `watch`
have a state of their own, but it is the engine's. PROJECT.json says of every component
whether it is modelled, partly, or not, and why.

## 7. Plan

1. **`PatchWatch`**: replace and restore of a shader in the sessions of `ReplaySession`,
   and the loop that watches a file.
2. `rdc_sigcheck` as another reader of `Frame`: the signature a call meets against the one
   its pipeline was built with; the window of pages behind `Framing`.
3. An abstract installer that swaps a whole tree in one step, which `EngineTree` should
   implement while one command fetches at a time.

Modules to be proved about use recursive functions and folds, never RECURSIVE operators.

## 8. Running it

    tlc -config StreamCacheCalm.cfg MCStreamCache      one run (see PROJECT.json "runs")
    tlapm StreamCacheProofs.tla                        one module of proofs

The largest run is `offline`, at two to three minutes with two workers; `sweep_runs` and
`stream_cache_calm` take about one each.
PROJECT.json also gives, for each property, a mutant of a definition under which
TLC finds the property violated, and, for each definition, the lines it models.
