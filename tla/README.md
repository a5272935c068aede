# Verification of haproxy-spoa-firehol-mmdb

TLA+ models of the SPOA agent that answers HAProxy with the reputation of
client addresses, taken from a MaxMind database (MMDB) that it compiles from
the FireHOL blocklists and reloads while it serves. The models are checked by
TLC on small instances; the theorems are checked by TLAPS for every instance.
Paths below are relative to the repository (`src/...` is its source directory).

## The system

| Component | State | Operations | Interacts with |
|---|---|---|---|
| Hot reload, `src/mmdb/mmdb_reload.cpp` | `current_`, `reload_count_`, inotify and eventfd descriptors, watcher thread | `open`, `close`, `snapshot`, `watch`, `reload` | the file at `MMDB_PATH`, every shard |
| Connection, `src/spoa/spoa_server.cpp:28-92` | read loop, pipeline of futures | `process_one_frame`, drain, close | agent, HAProxy |
| Server, `src/spoa/spoa_server.cpp:94-160` | listener, accept loop, gate | `start`, `stop` | connections, life cycle |
| Agent, `src/spoa/spoa_agent.cpp`, `drop_categories.cpp` | drop categories, counters | `handle_frame`, `handle_notify`, `evaluate_argument` | hot reload (one snapshot per frame) |
| Refresh job, `src/main.cpp:53-116` | the MMDB file | `job_fetch_and_create_mmdb`, `ensure_mmdb_available` | Git checkout, compiler, hot reload (through the file) |
| Git checkout, `git_repository.cpp` | HEAD, tracking branch, working tree | `open_or_clone`, `fetch_and_reset` | libgit2, the remote |
| Compiler, `compiler.cpp` | workers, temporary file | `compile_to_mmdb`, `process_file` | builder, metrics |
| Builder, `builder.cpp` | search tree, pool of records, memo of offsets | `insert_*`, `build` | compiler |
| Scheduler, `job_scheduler.cpp` | thread, stop token, statistics | constructor, `run`, destructor | refresh job, metrics |
| Codec, `frame.cpp`, `varint.h`, `typed_data.cpp` | none | `parse`, `encode_*` | agent |
| Reader, `src/mmdb/mmdb.cpp` | the mapped file | `lookup_*`, `get_categories`, `format_entry` | agent, libmaxminddb |
| Blocklist metrics, `firehol_metrics.cpp` | counters, series, `alien_` | `set_blocklists`, `register_metrics` | scheduler's thread, reactor |
| Life cycle, `src/main.cpp:120-337` | start-up and shutdown order, the promise of the signal handlers | `main`, `run_spoa_agent` | all of the above |
| Other metrics, configuration, utilities | counters | registration, reading of the environment | all of the above |

What is hard in it: the watcher thread races the programs that replace or
rewrite the file, the kernel's bounded event queue and its own shutdown; a
connection reads on while answers are in flight and must neither exceed its
pipeline nor forget a future; the refresh job is a sequence of steps each of
which may fail, in a process that may die between any two of them; the workers
of a compilation take files and insert networks in any order into a tree whose
file must not depend on that order; start-up may fail at any step, and a signal
may arrive at any step, with other shards serving already. The complete list is
`hazards` in `PROJECT.json`.

## Modules

| Module | Models | Used by |
|---|---|---|
| SnapshotRegister | what `ReloadableMmdb` promises (abstract specification) | MmdbReload |
| MmdbReload | `ReloadableMmdb`, inotify, the file, the frames that read | MCMmdbReload, MmdbReloadProofs |
| SpoaConnection | one connection of `SpoaServer` | MCSpoaConnection, SpoaConnectionProofs |
| RefreshJob | `job_fetch_and_create_mmdb`, `GitRepository` | MCRefreshJob, MCScheduledRefresh, RefreshJobProofs |
| JobScheduler | `JobScheduler::Impl` | MCScheduledRefresh, JobSchedulerProofs |
| FireholCompiler | `compile_to_mmdb`, `process_file`, `CompileRun` | MCFireholCompiler, FireholCompilerProofs |
| MmdbTrie | `Builder`: insertion, merge, pruning, numbering, tree records | MCBuilder |
| DataPool | `DataPool`: interning, order, merge of records | MCBuilder |
| MmdbEncoding | `Builder`: control bytes, pointers, tree records; a reader of them | MmdbFormat, MmdbFile |
| MmdbFormat | `Builder`: bytes of records and metadata; `Mmdb::format_entry` | MCBuilder |
| MmdbFile | `Builder::build`: the file, its write buffer, `BuildStats` | MCBuilder, MmdbFileProofs |
| SpopVarint, SpopStream | `varint.h`, the readers and writers of `protocol_io.h` | SpopFrame, MCAgent |
| SpopTypes | `FrameType`, `TypedType`, names of values | SpopFrame, MCAgent |
| SpopFrame | `frame.cpp`, `typed_data.cpp`, `SpoaAgent::handle_frame` | MCAgent |
| SpoaEvaluation | `handle_notify`, `evaluate_argument`, `DropCategories`, lookups of `Mmdb` | MCAgent, SpoaEvaluationProofs |
| Application | `main`, `run_spoa_agent`, accept loops and gates, publication of series | MCApplication, ApplicationProofs |

**MmdbReload.** Contents of a file are sets of version numbers: a singleton is
an intact version, a larger set a torn mixture, so that a copy made while
another program rewrites the inode in place is distinguishable from both. The
processes are the owner (the phases of `open`, the servers and `close` as
`run_spoa_agent` orders them), the watcher (one action per blocking call or
shared access of `watch` and `reload`), the readers (one per shard, a NOTIFY
frame being begin, evaluations, end) and the outside world. The event queue
follows inotify: identical consecutive events merge, a full queue gets one
overflow event. A rename is visible before its event is queued, an in-place
rewrite queues its event when the file is closed. The directory watch reports
neither the deletion of the file nor its contents. `MMDB_PATH` is assumed to be
set; with an empty path there is no database by configuration.

**SnapshotRegister** knows neither files nor threads: a register is filled,
replaced by contents that are not older, and closed when nobody reads; a reader
consults only the snapshot it began with. MmdbReload maps `phase` to
`RegisterPhase`, `value` to `current`, `reading`, `snapshot` and `consulted` to
`busy`, `held` and `used`; every step of the code is then a step of the
register or a stutter (`ImplementsRegister`).

**SpoaConnection**: the read loop, the circular buffer of futures with its
limit, the output stream (first in, first out, external) and the drain. A
future on which `then()` was called is marked awaited, because Seastar moves
its value out; waiting for it again ends in the phase `undefined`.

**RefreshJob**: a run of the refresh job with the Git checkout and the
publication of the file, at start-up and on schedule, with failures of every
step and deaths of the process. A working tree and a database are sets of the
commits they mix. That libgit2 sets HEAD before a clone's checkout and after a
hard reset's is external behaviour the model relies on.

**JobScheduler**: the scheduler's thread (plan, wait, test of the stop token,
job, counters) and the destructor that stops and joins it. Time is the wall
clock, which the model never sets back; cron_next is external and answers with
a later second. Its definitions have names of their own (`SchedulerNext`, `now`,
`at`), so that a module can extend it beside RefreshJob.

**FireholCompiler**: a checkout is a set of directory entries, a file a
sequence of lines, a line what `process_file` does with it (network, metadata
key, a date or a network it throws on, anything else). Workers take files from
the shared counter in the order of their sizes, parse line by line, insert full
batches, and leave their statistics in the slot of the file and an error in
their own slot. The caller's part includes a thread that cannot be created, the
join, the temporary file, the rename and the counters that `CompileRun` keeps
on every way out. An insertion carries, as history that no step reads, the file
and the line it comes from: "exactly once" is about lines, and two files may
declare the same network. `list_blocklists` is the set of the sequences that
`std::sort` may return, which has one member because paths differ.

**MmdbTrie**: addresses have a few bits instead of 128 and the IPv4 subtree
hangs below `V4Depth` of them instead of 96. The data of a node is the set of
the lists that name it; the merge of real records is DataPool's subject.
`build()` prunes with one task per node in any order in which children precede
their parent. The reference is stated on networks: an address has the data of
the networks that cover it.

**DataPool**: values as in `InternalData` (strings, numbers, arrays, maps), a
pool in which equal values have one id, the content order of `less_data`, and
`deep_merge` with its table form, in which columns of equal length are rows to
be united and sorted. Its reference works on plain values without ids.

**MmdbEncoding**: control bytes with sizes, pointers and pairs of tree records
at their real widths, and a decoder that follows the file format (external):
it takes an extended type from the byte behind the control byte, before the
bytes of the size, where the builder writes it behind them.

**MmdbFormat**: integers, values and the memo of `serialize_data`, a decoder of
whole values, and the cursor of `dump_node` over the flat list the library
returns.

**MmdbFile**: how the file comes about. `serialize_data` appends encodings and
payloads to the data section; the nodes pass through a buffer that is written
out when another node might not fit; the rest of the buffer, the separator, the
data section and the metadata follow; opening and every write may fail. Which
numbers are encoded is decided in MmdbFormat and MmdbTrie; here they are any of
type `uint32_t`, those included that the code does not refuse and the format
cannot express. `items` and `nodes` are histories of what was encoded, which no
step reads.

**SpopVarint, SpopStream, SpopFrame**: `uint64_t` has 22 bits, the narrowest
width at which integers of one to four bytes occur and the last byte carries
four bits as at 64; `uint32_t` has 11. Frames are built by HAProxy's encoder
(external), may be cut anywhere, are parsed, dispatched and answered on the
stack or on the heap.

**SpoaEvaluation**: an address has an entry in a database: none, an error,
something that is not an array, or a sequence of categories of which some are
corrupt. `for_each_category` and its visitor are one action per category, so
that the watcher may publish another database between any two of them; whether
the log is enabled is chosen for each lookup. `evaluated` and `answers` are
histories, which no step reads.

**Application**: the phases of the reactor from `main` to the last `finally`,
the start of each shard, its accept loop (waiting, resolved but not continued,
ended), its gate, signals before and after somebody waits, accept errors, the
scheduler's thread that publishes statistics while the metrics are being
registered. The details of its parts are in the modules above; it takes from
them what they check (open fails or succeeds, a job ends, a connection ends).

MCBuilder and MCAgent check the parts of one component side by side, and
MCScheduledRefresh the refresh job and its scheduler: `part` says which of them
a behaviour is of. They share no state: the tree takes merged data as sets, the
file any values and nodes, the frames the verdict from outside, the scheduler a
job that returns or throws. Each EXTENDS the modules with theorems (MmdbFile,
SpoaEvaluation, RefreshJob, JobScheduler) and has instances of the others; the
assumptions on the constants of these are stated in MCBuilder and MCAgent.

Operators that are named in a module's header as plausible mistakes are not
part of the specifications.

## Runs

| Run | Instance | Shows |
|---|---|---|
| `reload` | 2 readers, 2 operations of the world, queue of 1, fair | NoLostUpdate, OnlyDatabases, OneDatabasePerFrame, FramesHaveDatabase, CountFollowsStore, NeverOlder, ImplementsRegister, EventuallyFresh, CloseTerminates |
| `connection` | limit 3, 8 frames, write errors, fair | Backpressure, ClosedAfterAnswers, EndsUnlessAwaitedTwice |
| `connection_reuse` | the same | violation of ConnectionEnds |
| `refresh` | job: 5 seconds, 3 commits dated up to 2 seconds before their push, 2 deaths after the first clone; scheduler: occurrences at 1, 2 and 4, 5 seconds, fair | PublishedIsWhole, DiskSuitsProcess, CheckoutIsLatest, AlwaysUsable, NeverEarly, OncePerOccurrence, DestructionEnds, ScheduleContinues |
| `refresh_clone`, `refresh_skip` | commits dated when they are pushed; deaths in the clone too; the skip property | violations of PublishedIsWhole and SkipsOnlyCurrent |
| `compiler` | 2 workers, batches of 2, five checkouts, 2 calls, fair | EveryNetworkOnce, CallsAreBalanced, OnlyWholeCheckouts, CallsEnd |
| `builder` | tree: 3 bits, 3 networks in 2 batches; pool: a row and any 2 of 5 other values, 3 merges; bytes: 3 of 10 records; file: up to 2 values and 3 nodes, a buffer of 21 bytes, 9 sizes, 8 offsets and 2 records around the boundaries | TreeIsSound, ReaderAgrees, OutputIsDetermined, PoolAgrees, MergeIsDetermined, SectionIsRead, FileIsRead |
| `mmdb_array` | the file alone | violation of LongArraysAreRead |
| `mmdb_metadata` | the bytes alone | violation of MetadataHolds |
| `agent` | words of 22 bits, buffers of 6 bytes; frames of up to two messages; evaluation: two databases and two frames of up to two arguments, the log enabled or not | IntegersAgree, FramesAgree, AnswersAgree, VerdictIsRight, CountersAgree |
| `application` | 2 shards, 2 peers, 1 job, 2 signals, fair | ServedWhileAlive, EverythingReleased, ShutdownEnds, SeriesCatchUp |

The types of a module are part of one of its run's properties where the run has
another invariant about the same state; those of MmdbReload are a theorem.

Bounds. A queue of one event overflows as soon as an event of another file is
unread; with two operations one event can fill it and the change of the file
overflow it, and a change can fall anywhere in a load. Two readers let one
begin with the new snapshot while the other still holds the old one. The
safety properties of this run are theorems, so that larger numbers of
operations and readers are covered by proof. A limit of 3 with 8 frames fills
the pipeline several times over. Three commits and two deaths give a clone, two
updates and a restart in the middle of each; with dates up to two seconds early
a commit may be dated before, with or after the one it follows, so that both
outcomes of the test of the dates occur with a new commit. Occurrences in consecutive seconds
let a job overrun the next one. The checkouts of `compiler` have metadata
before, between and after networks, values that change back, a network of two
files, empty and bad files; five networks in batches of two leave rests. Three
bits are enough for networks above, at and below the IPv4 root, for splits, for
siblings that prune and for prefixes that are missing or too long; all pairs of
such networks meet in every order, against a third. The limit on tree records
lies among the sizes that occur, so that both outcomes of the size check
happen. Sizes lie around 29, 285, 65821 and the largest, offsets around 2048,
526336 and 134744064, a record has all of its four high bits and another more;
a buffer of 21 bytes is written out after two nodes, so that a third is left.
Two shards let one fail or stop while the other serves.

Fairness. `reload` assumes that the kernel finishes a rename, that the watcher
thread runs and that the caller of `close` does; not that loads fail or
succeed, and nothing of signals or frames. The connection runs assume that the
reactor runs continuations that are ready and that every write is eventually
acknowledged or fails; nothing of what the peer sends. `refresh` assumes that
the scheduler's thread runs, that a job ends and that the destructor's caller waits; time
may stand still. `compiler` assumes that the caller and each worker are run.
`application` assumes that reactors run what is ready, that a job, `open()` and
`close()` end; nothing makes a peer connect or leave, a signal arrive or a job
start. Shutdown waits for every connection and the code closes none that is
idle, hence the exception for a connection that is served for ever in
ShutdownEnds.

Deadlock is checked in `reload`, the connection and the refresh runs, whose
final states stutter explicitly. The others may stop: a
process that has exited, a compilation that is over, a frame that is answered,
a file that is written.

## What the violations mean

Each is described in `findings` of `PROJECT.json` with the line that says
otherwise.

1. `connection_reuse`: a write that fails while the read loop waits for it at
   the limit is awaited a second time by the drain (`spoa_server.cpp:63`, `:86`).
   `connection` shows that this is the only way for a connection not to end.
2. `refresh_clone`: after a death in the first clone the next run compiles a
   partial checkout (`git_repository.cpp:101`, `:173`).
3. `refresh_skip`: a commit pushed between the fetch and the compilation may be
   skipped by the next run (`main.cpp:69`).
4. `mmdb_array`: the builder writes the type of an array behind the bytes of
   its size (`builder.cpp:541`), a reader expects it before them. Arrays of up
   to 28 elements have no such bytes and are read; a network that 29 or more
   lists contain has longer columns, which a reader takes for something else, so
   that its categories are not found. FileIsRead, SectionIsRead and the theorem
   about the former except these arrays and no others. The tests' fixtures stay
   below 29 elements (`tests/test_mmdb.cpp:25`).
5. `mmdb_metadata`: the pointer to the repeated string "en" of the metadata is
   relative to a buffer that begins with the marker, readers resolve it from
   the start of the section (`builder.cpp:679`). Lookups do not use it; what
   prints the languages does.

Two more behaviours are visible in the models and have no run of their own. The
disconnect for an unsupported argument is forgotten when its answer is not
written at once (`spoa_server.cpp:56`; `HandleAnswered` drops the stop). And a
fetched commit that is not dated after HEAD is not checked out: the interface
promises "hard resetting to the latest commit" (`git_repository.hpp:28-29`), the
code resets only if the commit "is strictly greater" in date
(`git_repository.cpp:218-219`). The latter matters twice, and each property says
so. The checkout may stay behind the remote: CheckoutIsLatest names this case as
its only exception (without it TLC finds a violation in 11 steps of `refresh`).
And after a reset that failed half way the next run may compile the mixed tree,
because the commit it fetches is dated before HEAD: PublishedIsWhole has
`DatedInOrder` as its hypothesis (without it, 18 steps).

## Proofs

A theorem holds for every value of the constants that the named assumption of
its module allows, which TLC evaluates on every run:

* MmdbReload: every set of readers, `MaxOps \in Nat`, `MaxQueue \in Nat \ {0}`;
* JobScheduler: every set of occurrences (`Occurrences \subseteq Nat`);
* SpoaConnection: every limit of the pipeline and number of frames;
* RefreshJob: every number of commits, deaths and places to die;
* Application: every finite set of shards and of peers, every number of jobs
  and signals;
* SpoaEvaluation: every alphabet, every configured list, every set of databases
  and of frames whose entries and arguments have their types;
* MmdbFile: every set of types, of sizes, offsets and records of type
  `uint32_t`, of payloads, and every size of the buffer;
* FireholCompiler: every number of cores and size of a batch above zero, every
  family of finite directories whose entries and lines have their types.

One theorem about RefreshJob has a hypothesis of its own, stated in the theorem:
see below.

* `MmdbReloadProofs`: `TypeCorrect` needs, besides `TypeOK`, that a queue above
  its limit holds the overflow event (`QueueInv`). `NothingLost` rests on four
  more parts: `PhaseInv` (events are queued whenever a loader or the watcher is
  at work), `IntactInv` (only an in-place rewrite tears the file), `LoadInv` (a
  copy in progress is the file's content, or a change is noticed: queued, or
  its writer is not done) and `FreshInv` (a stale snapshot is noticed, about to
  be loaded, or being loaded). `NoLostUpdate` alone is not inductive: it says
  nothing until the watcher sleeps. The step that carries the argument is
  `WatchRead`: what a read removes from the queue it leaves in `changed`.
  Further on in the module: `DatabasesOnly` (a checked copy stays good because
  it is private), `NeverWithoutDatabase` and `OneSnapshotPerFrame` (a snapshot
  exists from the end of `open` to `close`, frames run only in between),
  `CountedAfterStore`, and `NeverGoesBack`, an action property: the file always
  covers what was published and what is being copied (`VersionInv`). `Refinement`
  says that MmdbReload implements SnapshotRegister: under these invariants a
  store of either publishing thread is `Publish` (it is never older and never
  after the release), `JoinAndRelease` is `Close` (the watcher is joined and no
  frame is left), the three steps of a frame are the reader's steps, and every
  other step leaves the register alone.
* `JobSchedulerProofs`: `StartsOnTime` and `NoRepetition`, action properties. A
  thread past its wait was woken by the time or finds the stop request
  (`WaitInv`); the last occurrence is never in the future and a planned one is
  always later than it (`OrderInv`).
* `SpoaConnectionProofs`: `PipelineIsBounded`, `AnswersBeforeClose`, and
  `UndefinedOnlyAtLimit`, which says that the only way to await a future twice
  is the one that `connection_reuse` shows. The invariant adds to the two
  properties that a failed write has broken the stream (`FailedInv`) and that an
  awaited future outlives the loop only in front of a full pipeline whose oldest
  write has failed (`AwaitedInv`).
* `RefreshJobProofs`: `ServersHaveDatabase` and `DatabaseStays` need no
  hypothesis: `DiskInv` says that only a rename touches the database and that
  what is renamed was built completely. `PreparedIsLatest` needs none either:
  `RemoteInv` carries the remote's commit at the start of the run from step to
  step, up to the test of the dates, whose outcome the property tells apart.
  `PublishedFromOneCommit` supposes that no process dies in a clone. The property
  is about commits dated in order, so the invariant is an implication with
  `DatedInOrder` in front: commits are never taken back, hence dates that are in
  order after a step were so before it, and comparing HEAD with the fetched
  commit by date compares them by age. A tree that is not HEAD's then belongs to
  a HEAD behind the remote (`TreeInv`), so that the next run resets it before it
  compiles. Without the hypothesis the statement is false: `refresh_clone`.
* `ApplicationProofs`: `NobodyServedAfterStop` and `ExitReleasesAll`. The
  properties speak of one moment; the invariant says where each resource is in
  every phase: a promise and its signals (`SignalInv`), a shard's start, accept
  loop and gate (`ShardInv`), an accepted connection and the loop that accepted
  it (`PeerInv`), quiet after the stop (`QuietInv`), the database (`DatabaseInv`)
  and the scheduler (`JobInv`).
* `FireholCompilerProofs`: `EveryCallAccounted`, `BuilderIsComplete` and
  `PublishedIsWholeCheckout`. The properties say nothing before the join, so all
  that the workers do is in the invariant. `CounterInv`: the shared counter gives
  a file to one worker, and a worker stops without an error only when no file is
  left. `ParseInv`: at every line of its file a worker's metadata is the one in
  force at that line, its record is the one of that metadata, its count is the
  number of network lines before it, and each of those lines is in its batch or
  in the builder, never in both. `InsertedInv`: the builder holds no line twice,
  and each with its record, which later records never renumber. `Ledger`: there
  is an assignment of finished files to workers such that what a running worker
  has counted is the number of lines of its files, and `total_networks` that of
  the files of the workers that stopped; no file that was taken is forgotten
  unless a worker failed. The assignment is not a variable of the program: it is
  the existential that makes the sums inductive. At the join without errors
  every file has an owner that stopped, which gives all three theorems.

* `SpoaEvaluationProofs`: `Verdicts` and `Counters`. The properties compare the
  answers and the counters with a reference that names, for each argument, the
  position of its first configured category; the code finds it by a loop that
  stops early or not. `NamesInv`: the names loaded are the trimmed texts of the
  list, for which the lemmas about `trim` and `load` show that what `trim` cuts
  out is the one stretch with only whitespace around it. `VisitInv`: within a
  visit, `matched` is empty exactly if none of the categories seen is
  configured, and otherwise the first that is; a visit that ended early has seen
  it. `FrameInv`: `ip_bad` and `not_implemented` are those of the arguments
  evaluated so far, all in the database the frame began with, whatever is
  published. `CountInv`: the three kinds of counters are cardinalities of sets
  of evaluated arguments, the lookup and the match of the visit in progress
  added.
* `MmdbFileProofs`: `FilesAreRead`. The lemmas say that what a buffer holds at
  an offset is read there, encoding by encoding: the four forms of a size without
  a byte for the type and the one form with such a byte that the format shares,
  the four forms of a pointer, the pair of
  records with its shared middle byte. `SectionInv`: every encoding stays where
  it was appended. `NodesInv`: file and buffer together are the nodes in order,
  seven bytes each, wherever the buffer was written out. `ClosedInv`: behind
  them are the separator and the section, and the length is the one of
  `BuildStats`. FileIsRead alone says nothing before the file is closed. The
  theorem has no assumption that numbers fit: a record is read modulo 2^28, and
  sizes above 16843036, which the format cannot express and the code does not
  refuse, are excepted in the property, and so are arrays of 29 or more elements,
  for which the statement is false (`mmdb_array`).

Only model-checked: the liveness properties (EventuallyFresh, CloseTerminates,
EndsUnlessAwaitedTwice, DestructionEnds, ScheduleContinues, CallsEnd,
ShutdownEnds, SeriesCatchUp), because fairness is outside the prover's reach;
and the other properties of `builder` and `agent`, whose definitions (tree, pool,
values in bytes, integers, frames) are recursive, and what a recursive
definition computes for every input needs an induction that the prover cannot
do. Every other invariant and action property that a passing run checks is a
theorem.

## Not modelled, and the plan

Not modelled: `croncpp.h` (vendored; JobScheduler relies on `cron_next`
answering with a later second), libgit2, libmaxminddb and Seastar (as far as
their use shows), `app_config` and `environment.h` (read once, no state),
`UniqueFd` and `Mmdb`'s constructors (ownership only), the formatting of
numbers, `metadata_string`, logging, the histograms and counters of the
scheduler's and the servers' metrics, which only read what the modules above
count. Memory order is sequentially consistent throughout; the plain pointer
`alien_` (`firehol_metrics.cpp:42`) is read by another thread without
synchronisation and is modelled as an atomic.

Next, in this order:

1. Facts about MmdbTrie that need no induction (one step of an insertion or of
   the pruning), once they are separated from the recursive definitions around
   them.
2. That the compiler of FireholCompiler implements the single step `Compile` to
   `Rename` that RefreshJob takes of it, as a refinement.
