# RokkDoxx in TLA+

RokkDoxx finds where in a Minecraft world a pattern of bedrock was seen: it
regenerates the bedrock of one plane from the seed, tile by tile, and reports
every origin at which the pattern fits. These modules model the part of it that
is hard to test: jobs that run for hours on their own threads, are paused,
cancelled, killed and resumed from checkpoints, and must neither lose nor repeat
a match.

## The system

| part | state | operations | talks to |
|---|---|---|---|
| search job (`SearchService::run`, search_service.cpp:411-660) | request, cancel and pause flags, status, results, checkpoint text; locals of the pump: tiles in flight, matches kept, stop, clocks | restore, configure, admit, collect, pause, save, finish, fail | worker (begin/end), scheduler, files, front-end |
| `TileScheduler` (search_service.cpp:71-300) | grid, spiral order, cursor, done and busy flags, per map cell counters | `next`, `mark_done`, `mark_hit`, `map`, read/write of checkpoints | the job that owns it |
| `SearchService` registry (search_service.cpp:325-396) | jobs by id, next id | `submit`, `poll`, `results`, `cancel`, `pause`, `checkpoint`, destructor | job threads |
| workers (workers.cpp, opencl_worker.cpp) | plan, a queue of results; CPU: threads and a match counter; GPU: two slots, events, buffers | `configure`, `begin_tile`, `end_tile`, `truncated` | job |
| search plan, backend selection (workers.cpp) | none | `build_search_plan`, `resolve_backend` | job, device |
| match kernels (search_tile.cl, bedrock_core.h, bedrock.cpp) | bit planes | fill, remap, match | GPU worker, CPU worker |
| pattern files (pattern_io.cpp) | a file | load, save | front-ends |
| rokktui (tools/tui, rokktui.cpp) | screen, job id, session, cursor | one handler per key and per tick | service, files |
| frame and terminal (frame.cpp, term_posix.cpp) | rows of two frames, terminal modes, bytes not read yet | `begin`, `flush`, `enter`, `leave`, `read_key`, signal handler | rokktui, the terminal |
| rokksearch (rokksearch.cpp) | command line | run, benchmark, demo | service, worker, files |
| dump_bedrock | none | print | |

A front-end submits a request; the service starts a thread that runs `run()`.
The thread asks a factory for a worker, builds the scheduler, restores a
checkpoint (the front-end's text first, then the file), and pumps: up to two
tiles are begun, the oldest is collected, its matches are kept, its tile is
marked done, status and saves are refreshed. Front-end and job share two atomic
flags and, under the job's mutex, the status, the results and the checkpoint text.

What is hard: the flags are read at several places of the pump; saves happen at
times the clock chooses and are neither atomic nor the only copy; a process can
die anywhere and its successor may be another build of the request (another cap,
another backend, hence another tile grid); caps drop matches in three places;
tiles come back one later than they were handed out. `PROJECT.json` lists each
hazard at its line with the properties that watch it.

Correctness, by part:
- job: a checkpoint never lists a tile without its matches; a resumed job neither
  loses nor repeats a match; done means the region was covered; a pause and an
  end leave exact copies; cancel, pause and resume take effect;
- scheduler: the spiral is a permutation of the grid, nearest ring first; tiles
  partition the region; map cells partition the tiles and their counters agree;
- checkpoint: a file cut anywhere is rejected, a whole one reads back as written;
- workers: end_tile answers begin_tile in order, slots are never overwritten
  before they are read, no match is lost unless `truncated` says so;
- registry: an id keeps answering after its job has ended, also for the text a new
  job goes on from; a service that goes first ends every job;
- rokktui: it never shows or saves one job's data under another's name; the screen
  is the frame drawn last, keys arrive as typed, the terminal is given back;
- pattern files: what is read back asks for the search that was saved;
- rokksearch: exit code 0 means the matches printed are those asked for, whatever
  was killed and resumed before; a demo's promise holds; the long benchmark accuses
  a device only if it is wrong.

## Modules

- `SearchJob` - one job at a time, the front-end around it, its files, and the
  process that runs it. `pc` is the program counter of the job thread, with one
  place per step another actor can observe:
  `restore` and `configure` (477-515), `admit` (the loop at 615), `drain` (624-635),
  `open`/`write`/`text` (the three effects of `save_progress`, 525-541),
  `paused` (595), `remove` (644), `publish` (646-654), `ended`. `off` is a process
  that is not running. A tile is its rank in the spiral, so `next()` hands out the
  lowest one not done. A match is a member of `Origins`; `Hits[s][t]` are those of
  tile `t` of search `s`. A fingerprint is a member of `Searches` and stands for
  the hashed request fields and the grid really used, so one request on the CPU and
  on the GPU is two of them. A checkpoint is a record of what `write_checkpoint`
  writes; a file is `Absent`, `Cut` or one of those. `Kill` and `Submit` make the
  process die and start again with the files left as they were, so a kill during a
  save leaves a cut file. `Firsts(m, room)` is any selection of the size the
  cap allows: which matches come first depends on threads.
- `JobLifecycle` - what `poll` and `results` promise of a job; `SearchJob`
  implements it (`LifecycleSpec`).
- `MCSearchJob` - the instances: three origins, a CPU grid of four tiles and a GPU
  grid of two, an autosave and a named file.
- `SearchJobProofs` - the theorems about `SearchJob`.
- `TileGrid` - the geometry of a `TileScheduler`, fixed when it is built: the
  doubled tile side, the grid, clipped tiles, the centre, sort keys and spiral, map
  cells. `Stride` is the `1 << 25` of the key, `MaxTiles` and `MaxSide` the limits
  of the doubling. `MCTileScheduler` checks it for a set of regions.
- `TileScheduler` - the scheduler's state over such a grid: `cursor`, flags and
  counters, one action per call. `hit` is the set of cells with `cell_hit_ > 0`.
  Restored tiles come before the first `next()`, as in `run()`; after that tiles
  are marked in any order. `taken` is a history of what `next()` returned.
- `TileSchedulerProofs` - the theorems about the geometry and about `TileScheduler`.
- `Checkpoint` - the text format. A file is its complete lines and at most one
  line without its newline (`tail`); a line is a record of its numbers, and `Torn`
  is what of it may be left when a write is cut off: fewer runs, fewer digits.
  Jobs of several requests begin, work, save and die around one file. `whole` is
  a history: the progress of the last save, if it was completed.
- `ProgressStore` - what such a file promises: the whole progress of one job or
  nothing. `Checkpoint` implements it (`StoreSpec`), and it is how `SearchJob` sees
  a file.
- `CheckpointProofs` - the theorems about `Checkpoint`.
- `Pattern` - known cells, the eight turns, the anchor, and `TrueMask`, the reference: turn
  every cell and look at the world. `SearchPlan` - `build_search_plan`: known cells rare
  first, variants that look at the same blocks collapsed into one with a mask of
  orientations. Distances to the centroid are exact (the code's doubles compare the
  same on patterns of this size); the bedrock a cell asks for is `block[x, z]`.
- `SearchPlanProofs` - the anchor is a cell of the pattern, the plan can be run and finds what
  `TrueMask` finds; lemmas about `FlattenSeq`.
- `BitPlane` - the plane the kernels work on: its layout and halo, the pieces of a
  tile, buffer sizes, `rk_be_coord` (past `FloatLimit`, the 2^24 of the code, an odd
  coordinate is a float that rounds to a neighbour) and the shuffle of the drawn
  rows that stands for it on the GPU.
- `WorkerJob` - what a `configure` and the tiles of one job are, and the matches a
  tile has by definition. `Worker` - the contract of workers.hpp: answers come in
  the order of the tiles, with every match of a tile or, under a cap, that many of
  them and `truncated`.
- `OpenclWorker` - `configure` with its specialised program kept, rebuilt or given
  up for the generic one; two slots, each with a queue of commands (`Zero`, `Fill`
  or `Draw` and `Remap`, `MatchPlane`) that the device takes in order while the
  other slot goes on; buffers that keep what the last tile left; the read-back.
- `CpuWorker` - chunks drawn in advance around a row, threads that take rows and
  race for places under the cap, the join and the queue of results.
- `WorkerProofs` - the theorems about `BitPlane`, `OpenclWorker`, `CpuWorker` and the pair, with
  the arithmetic of pieces, halos and rounded coordinates.
- `WorkerPair` runs each job on the first and then on the second (they share
  nothing, so the order is no restriction), to compare the two.
- `SearchService` - the registry, what a front-end calls, and the threads of any
  number of jobs. Here a job's progress is a number of tiles and a save is one
  step: `SearchJob` has the pump in detail, this module has several jobs, of
  several requests, around the same files. A pattern stands for all the fields that
  are hashed. A job that has returned forgets its locals and its flags.
- `Tui` - rokktui over that service: `App` (`screen`, `prompt`, `m`, `job`,
  `job_running`, `jst`, `matches`, `want_pause`), the loop (`tick`: poll, then one
  key; a save in progress; joining the threads of the service), the keys of each
  screen, prompts, sessions, and processes that are quit, killed and started again,
  also with `--resume`. `sessions` and `disk` outlive them. Keys that move a cursor
  or scroll, files that cannot be read and an empty name are `NoKey` or leaving the
  prompt. `Blank` stands for a model `build_request` refuses. Of a
  status that is not final only that is kept: the rest is only drawn.
- `TuiProofs` - the theorems about `Tui` over `SearchService`.
- `PatternFile` - `save_pattern_file` and `load_pattern_file` over lines of words.
  An empty text leaves a keyword without a word, which the reader takes as the
  default; `Number` is what a text is read as, so "" and "0" are the same seed.
- `BackendChoice` - `list_backends` and `resolve_backend` over the devices a machine has.
- `Benchmark` - `run_long` and the pump of `sweep`: two tiles in flight, a digest of
  the matches per sweep, the verdict. The worker is seen through its contract
  (`Worker`); a device that is not `healthy` may add a match that is none.
- `Rokksearch` - one command after the other, composed of `SearchService` with one
  job, the three modules above and `SearchPlan` with its `Pattern`. `at` is where `main()` is:
  `poll` (744-759), `results` (761-762), `bench`, `told` (the exit), `gone`. `Asked`
  and `Path` are flags over file over defaults. Matches are not assumed: `TrueMatches`
  asks `Pattern` for every origin of a small `World`, and `Hits` of the service is
  which tiles have any (`RokksearchAssumption`). `SaveSession` is rokktui between two
  commands. Histories: `wrote` and `expected` are what was meant by a file, `due` the
  progress there was for a search when it began.
- `RokksearchProofs` - the theorems about `Benchmark`, `PatternFile` and `Rokksearch`.
- `Frame` - `clip_visible` and `Frame`: a row is characters and colour codes. Its
  second half is the terminal that gets the bytes; `Picture` is what was meant.
- `Keys` - `read_key` and `decode_escape` over the bytes that have arrived.
- `Terminal` - rokktui between `enter()` and the end of the process: the loop that
  draws, writes and reads, a user who types and resizes, and signals at every step,
  also while `leave()` of another signal is under way. `leave()` is three steps.
  Histories: `drawn` is what was drawn last, `resized` and `missed` what the code does not
  know of its window, `typed` and `meant` the keys behind the bytes.
- `TerminalProofs` - the theorems about `Terminal` and `Frame`.

Abstractions of the workers: the random generators are a constant plane `Drawn`;
the order of matches in a buffer is abstracted to a set, because `run()` sorts
them; `RK_HI_NONZERO`, which only drops a guard of the
random state, is left out; fresh buffers hold arbitrary contents, modelled
by a count of one and a match that is none.

A definition whose comment starts with `mutant:` is no part of the model: it
replaces the definition after it, to show that the properties notice.

History variable: `lossy` records that a cap dropped a match of a done tile; it is
carried in checkpoints, where the code records nothing, so that properties can tell
a capped search from one that lost matches. No action reads it.

## Runs

`CHECK_DEADLOCK FALSE` in the job and scheduler runs: a job may end, the bound on
submissions is reached, a scheduler runs out of tiles.

| run | question | bounds |
|---|---|---|
| SearchJobFiles | one named file shared by a plain job, a capped job that stops at its first match, and a GPU job on another grid; autosave, in-memory copy and session file of a rokktui job: are tiles, matches, files and states consistent after cancels, pauses, kills, exceptions | 3 submissions |
| SearchJobCaps | with a disk that may fail: done means every tile was searched, if no pause is withdrawn; `truncated` is exact in a job that starts from zero | 2 submissions, caps 1-3 |
| SearchJobLive | cancel, pause, resume and the end are reached | 1 submission |
| TileScheduler | do tiles partition the region, keys make a spiral, cells partition the tiles; do flags, counters, order and map agree, and is the region covered | geometry: 1728 regions up to 14 x 11, at most 24 tiles; state: 4 grids of 1 to 6 tiles, 5 restored runs |
| Checkpoint | is a file, cut anywhere, restored whole or not at all | grids of 12 and 4 tiles, 5 batches of work |
| Workers | do both workers keep the contract, fit their buffers, pair tiles with answers, stop at the cap, and find the same matches | 7 jobs, 2 slots, 2 threads |
| Rokksearch | is what was printed true and complete, do sessions go on, do files read back, is the demo's match found, is the benchmark's verdict just, does the loop end | 3 commands or saves in all, 8 x 8 blocks in two tiles, one pattern file, 2 machines, 3 sweeps of 2 tiles |
| Terminal | is the screen the frame, are keys read as typed, is the terminal given back | windows of 2 sizes, 4 drawings, 12 keys, 2 of them ahead, resizes at every step |
| Tui | is one search alive at a time, is what is shown and saved of the search that ran, does leaving end none, does `r` lose nothing | 3 processes and searches in all, 2 patterns, 2 tiles, one in flight |

Three submissions are enough for a job that resumes from a file that was itself
written by a resumed job. Four tiles with a pipeline of two give tiles before,
in and behind the pipeline. The GPU's per-tile cap is 1, so that it bites on the
tile with two matches. `MaxRuns` bounds submissions; nothing else is bounded
beyond the instance.

The regions of the geometry lie on both sides of zero, have odd and even sides, are a
single block, a strip, or so large that the side doubles up to `MaxSide`; their
maps are empty, smaller and larger than the grid. Each is an initial state; the
scheduler is then used only for the four regions `Driven`, whose grids have
clipped edges, two tiles to a cell, and one tile. The numbers of `Checkpoint` have
one and two digits, and one fingerprint is the other with its last digit cut off.

In `Workers` a word has 4 bits instead of 32, a chunk 2 blocks instead of 16, a
kernel takes 3 rows, cells are inlined up to 2, floats are exact up to 8 and a cap
is at most 3; so pieces, words, chunks and both caps are crossed within a few
blocks. The jobs are of both editions, near and beyond the float limit on both
sides of zero, with one and with all orientations, with matches below, at and above
the cap, and with odd numbers of tiles, so that the slots start a job either way.

In `Tui` the `Budget` of three allows a search and its continuation, a search after
loading a session, a quit or kill with a search alive in a later process, and a
resume of what an earlier one left; the first tile has a match of the first pattern,
so a search that stops at it ends early with its autosave removed. The user edits
and asks for files only while some budget is left, for nothing could come of it.
One tile in flight is enough because the pipeline is the subject of `SearchJob`.

In `Rokksearch` the budget of three allows a session, a search of it that is killed or
stops early, and a rerun with other flags or on another device; or a demo, a search
that is killed, and its rerun. Numbers are scaled: `Margin` 2 for 40 and patterns of
up to 4 for 32, so that half a pattern fits the margin as it does in the code, and a
world of +/-4. One radius is the least one, the other exceeds the world. The
benchmark touches no file, so it is looked at as the first command only.

In `Terminal` drawings are empty, shorter and longer than a window, too wide, or end
within a colour; one window is narrow and high, the other wide and low. The window is
resized at every step of the loop and without a limit, so also to another size and back
between two draws. The code compares sizes only, and does not notice that: `missed`
records it until the next full repaint, and `ScreenIsFrame` says nothing of the screen
in between (nor if the two resizes fell between the draw and the write of a frame that
did repaint everything, when the screen happens to be right).

Fairness: `FairSpec` has weak fairness of the job thread only. The operating
system runs it, its loops poll flags every 20 ms, and a worker answers every
tile. Nothing is assumed of the user: no fairness of cancel, pause, resume or
submit. In `TileScheduler` the owner goes on taking tiles and collecting them, which
is the pump while it is neither paused nor cancelled. `Rokksearch` assumes that both
of its threads run: the loop polls every 100 ms and nobody pauses the job.

### What the code does that its documents do not say

Each has a run with `expect: violation` and an entry under `findings`.

1. `SearchJobLateCancel` - a cancel between lines 642 and 650 removes the autosave
   of a job that ends as cancelled.
2. `SearchJobPauseRace` - a pause withdrawn between lines 615 and 625, with nothing
   in flight, ends the job as done with tiles unsearched.
3. `TuiSessionLost` - loading a session puts its `.ckpt` into the checkpoint field for
   good, so a later search of another pattern writes over the session's progress.

Without a run:

- `poll` says `paused` (line 592) before the save that makes the copy exact (594),
  while search_service.hpp:177-178 promises "exactly when paused". `SavesAreExact`
  says how far this goes: nothing is in flight by then, the file is exact once it is
  written, the copy in memory once the save is over.
- A window resized and back between two draws is not repainted, and keeps what the
  terminal made of it until a row changes or a resize is noticed, while
  frame.hpp:29-30 says that a size change repaints everything and rokktui.cpp:93 that
  resizes are caught. The model has these resizes; without `~missed` TLC finds
  `ScreenIsFrame` violated after seven steps of the loop.
- A resumed job forgets that a cap dropped matches: `capped` starts false (line 463)
  and checkpoints do not record it, so `truncated` (575) ends false although
  matches are missing. `FreshTruncation` therefore speaks of a job that starts from zero.
- `candidates_done` of a job whose tiles were all restored stays 0 (line 563 is
  reached per tile of this run), while service_types.hpp:236 says that it includes
  restored tiles.
- `rokksearch --pattern F --radius R` ignores R unless `--center` is given too
  (rokksearch.cpp:719-731), while 589-591 says that explicit flags come before the file.
- `save_pattern_file` reports success before the stream is flushed
  (pattern_io.cpp:118), so a disk that is full is not noticed; and a file without a
  size line whose first row begins with `#` loses that row as a comment (line 33).
- In a window one column wide `flush()` writes the last column all the same (line 57), and
  the `ESC [ K` after it erases that character on common terminals. `Show` models such a
  terminal, and `Faithful` asks for more than one column.
- A missing word shifts the rest of its line: with an empty `center_x` the reader
  takes `center_z` for it.
- An escape sequence that is none of those known ends at its first final byte, so F1
  of a Linux console (`ESC [ [ A`) leaves an `A` behind; a key typed within 30 ms
  of a lone Esc goes with it (term_posix.cpp:69-101).
- A signal between `tcsetattr` and the hooks of the first `enter()`, a crash
  (SIGSEGV, SIGABRT) and Ctrl+Z leave the terminal as it is; `TerminalRestored`
  speaks of the ends after the hooks are set.

A search stopped by its first match also removes its autosave, with most tiles
unsearched: line 644 calls it finished, so it is not counted as a disagreement.

## Proofs

TLC checks small instances; the theorems below hold for every value of the constants.
Each of these modules begins with its inductive invariant. The properties alone are
not inductive; what follows says what has to be added to each, and why.

`SearchJobProofs`, for every set of origins and searches, every request, cap and
pipeline depth, every event enabled. Assumptions: `HitsAssumption` (the origins of
different tiles of one grid are disjoint - tiles partition the region - and finite),
`RequestAssumption` and `BoundAssumption` (types).

- `TypeCorrect`: one step per action over the five groups of `TypeOK`.
- `InvariantHolds`: `IInv` is `TypeOK`, `CheckpointsSound` and `JobInv`. `JobSound`
  after a collect needs the answer
  at the head of the pipeline to be part of its tile's matches and the tile not
  done (`FlightSound`); that needs every tile in flight to lie behind the cursor,
  in spiral order; and `NearestFirst` at a collect needs every nearer tile to be
  done, which is `NoneSkipped` with the head being the nearest in flight. A
  restore sets `done` wholesale, hence `FreshSound`: it happens before the pump,
  with nothing in flight. `CheckpointsSound` and `JobSound` support each other: a
  save copies the job, a restore copies a checkpoint.
- From it: `CheckpointsAreSound`, `JobIsSound`, `NoTileSkipped`,
  `NearestMatchFirst`, `NoOriginTwice`.
- `LifecycleKept`: the refinement of `JobLifecycle`, one step per action. It needs
  `PlaceInv`: which state is shown at which place of the thread, also while a save is
  on, whose way back is in `ret`.
- `SavesExact`: `CopiesInv` adds what holds between the three effects of a save. The
  assumption is `"disk" \notin Events`: a save that fails leaves the old file, and the
  code does not look.
- `FileIsNotAhead`: a file that the job accepted when it began holds only done tiles
  from then on (`FileInv`): it restored all of them, and later writes copy `done`.
- `ProgressOnlyGrows` (`ShownInv`): what is shown is done already.
- `DoneIsCovered` (`CoverInv`): the pump ends only if nothing may be admitted. The
  assumption `NoRace` says that pauses are not withdrawn, or there are none; without it
  the theorem is false, which is what the run `SearchJobPauseRace` shows.
- `FreshTruncationExact` (`TruncInv`): the first job of a store that holds nothing
  starts from zero; from then on the flags of the job, of the worker and `lossy` agree.

`TileSchedulerProofs`, for every region, tile side and map size, and every grid within
the tile cap. Assumptions: `GridAssumption`, the `8 * kMaxTiles < 2^25` of the
code's comment; `RegionAssumption`, that the doubling of the side ends below its limit.
Integer arithmetic, built on facts about quotients (`DivBounds`, `DivUnique`, `RowMajor`).

- `TilesArePartition`: one axis at a time (`AxisHome`, `AxisOnly`, `AxisTile`): a
  coordinate is in the tile of its quotient and no other, also in the clipped last one.
- `KeysSpiral`: a place along a ring is below `8 * ring` and so below `Stride`;
  ring and place determine the offset, offsets determine the tile.
- `SplitIsInverted`: `cell_of_tile` finds the cell whose range, by `split`, holds the tile.
- `GeometryIsSound`: the three together, and that the doubling of the side ends.
- `TakenInTurn`, `HandsOutInOrder` (`TakeInv`): everything the cursor has passed is done
  or was handed out, so a tile that is found neither done nor busy is a new one; nearer
  rings come earlier in the sorted order.
- `CountsExact` (`CountInv`): each counter is the cardinality of what it counts, though
  the code adds and takes away one. `MapTellsTheTruth` and `MapStays` follow, with
  `SplitIsInverted` for the tiles of a cell.

`CheckpointProofs`, for every set of requests, grids, masks and batches of work.
Assumptions: `RequestAssumption` (fingerprints tell requests apart - a hash is
trusted to), `BatchAssumption` (types), `NothingAssumption` (no progress is `Nothing`).

- `CheckpointTyped`, `CutIsRejected`: while a save is on, the lines in the file
  followed by those to come are the text (`SaveOK`); so as long as one is missing
  there are fewer than the matches line asks for (`Short`), and the reader, which
  counts only lines with their newline, rejects it.
- `WholeIsRestored`: a completed file is the text of what was saved (`WholeOK`), and
  `RunsRead`: the runs of a set, read back, are that set - each tile is in the
  run from the last gap before it to the next one.
- `StoreImplemented`: every step of the text is a step of `ProgressStore` or a stutter;
  that is why `SearchJob` may take a file for whole-or-nothing progress.

`SearchPlanProofs` and `WorkerProofs`, for every number of slots and threads, size of a word,
chunk and piece, pattern, job and order of the queues and threads. Assumptions: `SlotAssumption` (as many
slots as tiles in flight), `JobAssumption` (jobs are what `configure` is called with; no two
tiles of one share a block), `ThreadsAssumption` (a thread at least), `LimitAssumption`, `PlaneAssumption` (a word is two chunks and divides the float
limit), `InlineAssumption` (the anchor is compiled into the kernel).

- `PlaneShows`: wherever a candidate of a piece looks, in either edition and out to
  twice the float limit, the plane shows the block of the game: its origin is aligned
  to words and chunks, its halo reaches as far as the plan, and the shuffle of rows
  is the rounding of their coordinates.
- `OpenclInvariant`: the tiles in flight take the slots from `next_end` on in turn
  (`InTurn`); in every queue a match follows the fill or the remap of its own plane
  (`Chained`) and goes on from what the buffers of its slot hold (`QueueOK`). From it
  `SlotsStayInTurn`, and `PlanesAlwaysFit`, for the buffers are sized for
  `KChunk` and the largest halo before any tile is known.
- `GpuKeepsContract` (`GpuInv`): each tile in flight has run the first `d` commands of
  its tile, for some `d`, and the rest is what its queue holds (`RanTo`); from the first
  command on, which zeroes the counter, the counter and the buffer of its slot hold the
  matches that these `d` commands tested (`Tested`), as many as fit the cap. `OpenclInv`
  is part of it: a match command looks at the plane of its own piece
  (`PlaneMatches`), so it adds the matches of that piece, and the pieces
  part those of the tile (`PiecesPart`), so none is counted twice. What is
  compiled into a kernel and what it reads from the buffers make up the plan of this
  job (`KernelRunsPlan`). When the queue is empty `d` is all of them (`Drained`) and
  `read_results` answers with the matches of the tile. An invariant without `Tested` is
  not inductive: it says nothing of a buffer between two commands.
- `PlanAgrees`: an orientation that the plan left out looks at the same cells as the one
  whose mask it joined, and the cells are those of the pattern, the anchor first; so the
  plan's mask is `TrueMask`.
- `ChunksShow`: the chunks drawn for a tile reach from the rounded least to the rounded
  largest coordinate that its candidates look at, and rounding keeps the order.
- `CpuKeepsContract` (`CpuInv`): the rows of the threads part the matches of a tile
  (`RowsPart`); what a thread kept is its rows without those ahead of it, unless one was
  turned away. The counter is the cardinality of the matches come to (`Seen`), which
  grow by one with each `Emit`, and as many are kept as fit the cap (`CpuCounts`); so
  `truncated()` goes up at the first match past the cap, and `CpuCapIsExact` is what
  `CpuCounts` says at the end of a sweep. `CapIsExact` alone says nothing of a sweep under
  way. `PairHasCpu` lets a property of `CpuWorker` hold of the pair, `PairHasGpu` one
  of `OpenclWorker`.
- `WorkersAgree` (`SweptAlike`): each worker's invariant says at the end of a sweep how many
  of the matches by definition it kept, and of which tile; nothing is compared step by step.

`TuiProofs`, for every set of patterns, sessions, files and any number of jobs.
Assumptions: `ServiceAssumption` and `TuiAssumption` (types; a blank field is no file).

- `TuiInvariant`: a thread stands where its job's state says (`JobsOK`); the screen and
  the prompts agree with the job that is followed (`PromptInv`, `RunInv`): there is a
  prompt between a key and the search it starts, and during it no search is alive. That
  is what makes `OneAtATime` inductive.
- `ShownSearched`, `ContinueKept`: the matches shown are those of the last poll of
  the job followed, and the checkpoint text handed to a continued search is at least
  what was shown (`ShownInv`, `ContinueInv`).

`RokksearchProofs`, for every command line, file, world and machine. Assumptions:
`ServiceAssumption`, `RokksearchAssumption` (`Hits` are the tiles of the true matches),
`PatternFileAssumption` (an empty text is read as 0), `BenchmarkAssumption` (tiles have
different matches), `RequestAssumption` (numbers written have a text, and a request is
one of the service's), `DemoAssumption` (the world has a block at every place of a region
that is searched; half a pattern fits the margin, and the margin the least radius: 16, 40
and 64 in the code).

- `VerdictIsTruthful` (`BenchInv`): what a sweep has counted and digested is the matches
  of the tiles taken less those in flight; tiles are disjoint, so a count per sweep
  tells whether the cap was reached.
- `LoadsSaved`: every keyword is in the header once (`KeysOnce`), the size line ends it
  (`SavedHeader`), and the rows after it are the grid (`GridLoaded`), also those
  that begin with `#`. `FilesRoundTrip` (`FileInv`) follows: what is in a file is the
  `Save` of what was meant by it.
- `PrintedMatchesAreTrue`, `SessionsGoOn` (`SearchInv`): the one job of the command is
  asked for what was meant (`MeantIsAsked`, by `FilesRoundTrip`), stands in a phase
  whose progress, results and state agree (`JobFits`), and has at least the progress
  `due`; `Over` lets through only jobs that are done, and those have results. That
  `told` is true is part of the invariant, because the job is gone after it.
- `DemosAreFound` (`DemoInv`): what is announced of a file is what a demo wrote there last
  (`Promised`). Every cell of the pattern comes from a place in the region (`CopyFits`),
  the anchor is one of them (`AnchorExists`), so the spot is a candidate, and unturned
  every cell has the block it was copied from (`SpotMatches`).

`TerminalProofs`, for every set of windows, drawings and keystrokes. Assumptions:
`FrameAssumption` (the default colour is a colour), `TerminalAssumption` (types),
`KeystrokeAssumption` (a key is sent as one byte, a lone Esc, Esc before another byte, or a
whole sequence no longer than is looked at, and means what the table of its final byte
says, for `~` that of its first number, which has one digit or two (`Begins`); the function
keys of the Linux console, `ESC [ [ A`, are not of this form, and the code leaves their
last letter behind).

- `TerminalIsRestored`: `leave()` undoes one thing a step and takes `g_raw` down last
  (`Undone`, by the steps still to come), so a signal that finds the flag down may
  exit at once, and one that finds it up starts over and undoes all of it again.
  `TerminalRestored` alone is not inductive: nothing in it says that the terminal is
  back when the flag is down.
- `ScreenShowsFrame`: the screen is the picture of the frame before, if nothing was
  resized since and no resize was missed (`Trusted`, `ScreenInv`); a resize that was
  missed stays so until the size differs and all is repainted; so a row that `flush()` leaves out because it is equal
  shows already what it should, and a clipped row fills or clears its line (`ClipKeeps`).
- `KeysReadAsTyped` (`KeyInv`): what waits in the input is a burst of whole keystrokes, one
  for each key typed and not read, in order, a lone Esc at its end if anywhere (`Burst`).
  `read_key()` takes exactly the first one, whatever follows it (`ReadsOne`), reads its
  number without the modifiers after the semicolon (`FirstNumIs`), and typing appends one. `KeysAreTyped` alone says nothing of the bytes that are still unread.

The library's induction theorems take an operator as a parameter, which the provers
here cannot instantiate. Where a proof goes over data of any length (runs of tiles,
lines of a file, folds that add up) it uses the least number principle instead: of the
numbers at which a claim fails there is a least one (`Least`, from `WFMin`), and the
step before it gives the contradiction (`NatInd`).

Only model-checked: the liveness properties (fairness is out of the prover's
reach). Every invariant of a passing run, and every refinement, is proved.

## Plan

In this order; each with its MC module, runs and mutants.

1. Done: `SearchJob`, its life cycle and proofs; `TileGrid`, `TileScheduler`;
   `Checkpoint`; the workers and the plan; `SearchService` and `Tui`; `Rokksearch`
   with pattern files, backends and benchmark; `Terminal`.
2. Done: the proofs described above.
3. Left: liveness of `Tui`: a cancelled search gives the screen back.

## Not modelled

The drawing of screens, the Windows console, the bedrock hash functions (pure
arithmetic of one position) and dump_bedrock: there is no state for a model
checker to explore. Of rokksearch the timed phases of `--benchmark`, the rates that
size a region (any radius and pattern size may come out), `--json` and `--cap`, whose
value is the subject of `SearchJob`. Rates,
elapsed times and estimates are left out of the
status: nothing depends on them but the times of saves, which are arbitrary here.
