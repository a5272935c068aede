---------------------------- MODULE FireholCompiler ----------------------------
(***************************************************************************)
(* compile_to_mmdb (src/firehol_blocklist_ipsets/compiler.cpp): the        *)
(* blocklists of the checkout are parsed by worker threads that take the   *)
(* next file from a shared counter and insert its networks, in batches,    *)
(* into one builder; the database is written to a temporary file and       *)
(* renamed.  Failures: a file that cannot be read, a line that cannot be   *)
(* parsed, a thread that cannot be created, a build or rename that fails.  *)
(*                                                                         *)
(* A file is a sequence of lines: [kind |-> "network", net |-> n], [kind   *)
(* |-> "key", key |-> k, value |-> v] for a comment that sets metadata,    *)
(* "invalid" for a line that makes process_file throw, "other" for what it *)
(* skips.  The builder is the pool of its records and the networks         *)
(* inserted, each with the number of its record (module DataPool and       *)
(* module MmdbTrie have the details) and, as history, the file and the     *)
(* line it comes from.                                                     *)
(*                                                                         *)
(* The definitions NeverReported, SameRecordKept, FirstWorkerOnly and      *)
(* LeftInProgress are not part of the specification: each is a plausible   *)
(* mistake in the definition that follows it.                              *)
(***************************************************************************)
EXTENDS Naturals, Sequences, FiniteSets

CONSTANTS
  Checkouts,    \* what the directory may hold: sets of directory entries
  Keys,         \* the metadata a comment may set
  Category,     \* the member of Keys that names the category
  Cores,        \* hardware_concurrency()
  BatchSize,    \* kInsertBatchSize
  MaxRuns       \* bound: calls of compile_to_mmdb

\* A line of a file and an entry of the directory; order is the place of its path.
Line == [kind : {"network"}, net : Nat]
          \cup [kind : {"key"}, key : Keys, value : STRING]
          \cup [kind : {"date", "invalid", "other"}]
DirEntry == [order : Nat, name : STRING, ext : STRING, size : Nat,
             lines : Seq(Line), regular : BOOLEAN]

ASSUME CompilerAssumption ==
  /\ Category \in Keys
  /\ \A entries \in Checkouts : IsFiniteSet(entries) /\ entries \subseteq DirEntry
  /\ Cores \in Nat \ {0} /\ BatchSize \in Nat \ {0} /\ MaxRuns \in Nat

VARIABLES
  phase,        \* where compile_to_mmdb is; "idle" between calls
  checkout,     \* the directory of this call
  files,        \* the blocklists of this call, largest first
  created,      \* workers created so far
  next_file,    \* the shared counter
  worker,       \* the state of each worker
  pool,         \* records of the builder: the number of a record is its place
  inserted,     \* networks of the builder, in the order of their insertion
  total_networks,
  slots,        \* blocklist_stats of this call
  temporary,    \* temporary files beside the database
  target,       \* the database at MMDB_PATH: the set of its networks
  stats,        \* blocklists_ of the metrics
  networks,     \* compile_networks
  runs, failures, in_progress,
  renames       \* history: calls that replaced the database

builder == <<pool, inserted>>
metrics == <<stats, networks, runs, failures, in_progress>>
call    == <<checkout, files>>
vars    == <<phase, checkout, files, created, next_file, worker, pool, inserted,
             total_networks, slots, temporary, target, metrics, renames>>

NoText == ""      \* an empty std::string
NoStat == [file |-> NoText, category |-> NoText, networks |-> 0]
Nothing == [k \in Keys |-> NoText]
Workers == 1..Cores

\* The state of a worker before it takes a file.
Fresh == [pc |-> "none", file |-> 0, line |-> 1, metadata |-> Nothing, did |-> 0,
          network_count |-> 0, total |-> 0, batch |-> <<>>, parsed |-> 0,
          error |-> FALSE]

Init ==
  /\ phase = "idle" /\ checkout = {} /\ files = <<>>
  /\ created = 0 /\ next_file = 1
  /\ worker = [t \in Workers |-> Fresh]
  /\ pool = <<>> /\ inserted = <<>> /\ total_networks = 0 /\ slots = <<>>
  /\ temporary = 0 /\ target = {}
  /\ stats = <<>> /\ networks = 0 /\ runs = 0 /\ failures = 0 /\ in_progress = 0
  /\ renames = 0
-----------------------------------------------------------------------------
(***************************************************************************)
(* The beginning of a call: CompileRun, list_blocklists, the builder.      *)
(***************************************************************************)
Blocklists(entries) == {e \in entries : e.regular /\ e.ext \in {".ipset", ".netset"}}

\* The sequences of all blocklists in the order of std::sort.
list_blocklists(entries) ==
  LET listed == Blocklists(entries)
  IN  {f \in [1..Cardinality(listed) -> listed] :
         /\ \A e \in listed : \E i \in DOMAIN f : f[i] = e
         /\ \A i, j \in DOMAIN f :
              i < j => \/ f[i].size > f[j].size
                       \/ f[i].size = f[j].size /\ f[i].order < f[j].order}

num_threads == IF Len(files) < Cores THEN Len(files) ELSE Cores

Start(entries) ==
  /\ phase = "idle" /\ runs < MaxRuns
  /\ phase' = "spawn" /\ checkout' = entries
  /\ \E list \in list_blocklists(entries) :
       files' = list /\ slots' = [i \in 1..Len(list) |-> NoStat]
  /\ created' = 0 /\ next_file' = 1 /\ worker' = [t \in Workers |-> Fresh]
  /\ pool' = <<>> /\ inserted' = <<>> /\ total_networks' = 0
  /\ runs' = runs + 1 /\ in_progress' = 1
  /\ UNCHANGED <<temporary, target, stats, networks, failures, renames>>

\* The directory cannot be read.
ListFails ==
  /\ phase = "idle" /\ runs < MaxRuns
  /\ runs' = runs + 1 /\ failures' = failures + 1
  /\ UNCHANGED <<phase, call, created, next_file, worker, builder, total_networks,
                 slots, temporary, target, stats, networks, in_progress, renames>>

Spawn ==
  /\ phase = "spawn" /\ created < num_threads
  /\ created' = created + 1
  /\ worker' = [worker EXCEPT ![created + 1].pc = "take"]
  /\ UNCHANGED <<phase, call, next_file, builder, total_networks, slots,
                 temporary, target, metrics, renames>>

\* The workers that were created are joined, then the exception goes on.
SpawnFails ==
  /\ phase = "spawn" /\ created < num_threads /\ phase' = "unwind"
  /\ UNCHANGED <<call, created, next_file, worker, builder, total_networks, slots,
                 temporary, target, metrics, renames>>

SpawnDone ==
  /\ phase = "spawn" /\ created = num_threads /\ phase' = "join"
  /\ UNCHANGED <<call, created, next_file, worker, builder, total_networks, slots,
                 temporary, target, metrics, renames>>
-----------------------------------------------------------------------------
(***************************************************************************)
(* A worker: next_file.fetch_add, then process_file line by line.          *)
(***************************************************************************)
TakeFile(t) ==
  /\ worker[t].pc = "take" /\ next_file' = next_file + 1
  /\ IF next_file <= Len(files)
     THEN /\ worker' = [worker EXCEPT ![t] = [Fresh EXCEPT !.pc = "read",
                          !.file = next_file, !.parsed = worker[t].parsed]]
          /\ UNCHANGED total_networks
     ELSE /\ worker' = [worker EXCEPT ![t].pc = "done"]
          /\ total_networks' = total_networks + worker[t].parsed
  /\ UNCHANGED <<phase, call, created, builder, slots, temporary, target, metrics, renames>>

\* The catch of the worker: the exception goes to the worker's slot.
NeverReported(t) ==
  /\ worker' = [worker EXCEPT ![t].pc = "none", ![t].error = TRUE]
  /\ UNCHANGED total_networks

WorkerFails(t) ==
  /\ worker' = [worker EXCEPT ![t].pc = "done", ![t].error = TRUE]
  /\ total_networks' = total_networks + worker[t].parsed

\* read_file; a file without contents is done.
ReadFile(t) ==
  /\ worker[t].pc = "read"
  /\ worker' = [worker EXCEPT ![t].pc =
                  IF files[worker[t].file].lines = <<>> THEN "record" ELSE "line",
                  ![t].line = 1]
  /\ UNCHANGED <<phase, call, created, next_file, builder, total_networks, slots,
                 temporary, target, metrics, renames>>

ReadFails(t) ==
  /\ worker[t].pc = "read" /\ WorkerFails(t)
  /\ UNCHANGED <<phase, call, created, next_file, builder, slots, temporary,
                 target, metrics, renames>>

\* A comment that sets metadata: a change after networks ends the record.
SameRecordKept(w, line) ==
  [w EXCEPT !.metadata = [@ EXCEPT ![line.key] = line.value]]

SetKey(w, line) ==
  IF w.metadata[line.key] = line.value THEN w
  ELSE [w EXCEPT !.metadata = [@ EXCEPT ![line.key] = line.value],
                 !.did = IF w.network_count > 0 THEN 0 ELSE @]

\* Builder::store_data: the number of the record, new or known.
store_data(record) ==
  IF \E i \in DOMAIN pool : pool[i] = record
  THEN [pool |-> pool, id |-> CHOOSE i \in DOMAIN pool : pool[i] = record]
  ELSE [pool |-> Append(pool, record), id |-> Len(pool) + 1]

\* update_did, if there is no record yet.
update_did(w) ==
  IF w.did # 0 THEN [pool |-> pool, w |-> w]
  ELSE LET stored == store_data([file |-> files[w.file].name,
                                 metadata |-> w.metadata])
       IN  [pool |-> stored.pool,
            w    |-> [w EXCEPT !.did = stored.id, !.network_count = 0]]

\* A network joins the batch; a full batch is inserted.
AddNetwork(w, net) ==
  LET batch == Append(w.batch, [net |-> net, did |-> w.did,
                                file |-> w.file, line |-> w.line - 1])
      full  == Len(batch) = BatchSize
  IN  [w |-> [w EXCEPT !.batch = IF full THEN <<>> ELSE batch,
                       !.network_count = @ + 1, !.total = @ + 1],
       flushed |-> IF full THEN batch ELSE <<>>]

ParseLine(t) ==
  LET w    == worker[t]
      line == files[w.file].lines[w.line]
      next == [w EXCEPT !.line = @ + 1]
  IN  /\ w.pc = "line" /\ w.line <= Len(files[w.file].lines)
      /\ \/ /\ line.kind = "other" /\ worker' = [worker EXCEPT ![t] = next]
            /\ UNCHANGED <<builder, total_networks>>
         \/ /\ line.kind = "key" /\ worker' = [worker EXCEPT ![t] = SetKey(next, line)]
            /\ UNCHANGED <<builder, total_networks>>
         \/ /\ line.kind = "network"
            /\ LET known == update_did(next)
                   added == AddNetwork(known.w, line.net)
               IN  /\ pool' = known.pool
                   /\ worker' = [worker EXCEPT ![t] = added.w]
                   /\ inserted' = inserted \o added.flushed
            /\ UNCHANGED total_networks
         \/ /\ line.kind = "date" /\ WorkerFails(t) /\ UNCHANGED builder
         \/ /\ line.kind = "invalid" /\ WorkerFails(t)
            /\ pool' = update_did(next).pool /\ UNCHANGED inserted
      /\ UNCHANGED <<phase, call, created, next_file, slots, temporary, target, metrics, renames>>

\* The last flush of process_file.
Flush(t) ==
  /\ worker[t].pc = "line" /\ worker[t].line > Len(files[worker[t].file].lines)
  /\ inserted' = inserted \o worker[t].batch
  /\ worker' = [worker EXCEPT ![t].pc = "record", ![t].batch = <<>>]
  /\ UNCHANGED <<phase, call, created, next_file, pool, total_networks, slots,
                 temporary, target, metrics, renames>>

\* The slot of the file in blocklist_stats.
SlotOf(t) == worker[t].file

\* The end of an iteration: the statistics of the file.
RecordFile(t) ==
  LET w == worker[t]
  IN  /\ w.pc = "record"
      /\ slots' = [slots EXCEPT ![SlotOf(t)] =
           [file |-> files[w.file].name, category |-> w.metadata[Category],
            networks |-> w.total]]
      /\ worker' = [worker EXCEPT ![t].pc = "take", ![t].parsed = @ + w.total]
      /\ UNCHANGED <<phase, call, created, next_file, builder, total_networks,
                     temporary, target, metrics, renames>>
-----------------------------------------------------------------------------
(***************************************************************************)
(* After the workers: the error slots, the build, the rename, the metrics. *)
(***************************************************************************)
Joined == \A t \in 1..created : worker[t].pc = "done"

FirstWorkerOnly == created > 0 /\ worker[1].error

SomeError == \E t \in 1..created : worker[t].error

LeftInProgress ==
  /\ phase' = "idle" /\ failures' = failures + 1 /\ temporary' = 0
  /\ UNCHANGED <<stats, networks, runs, in_progress>>

\* An exception leaves compile_to_mmdb: ~TemporaryMmdb and ~CompileRun.
Abandon ==
  /\ phase' = "idle" /\ failures' = failures + 1 /\ in_progress' = 0
  /\ temporary' = 0
  /\ UNCHANGED <<stats, networks, runs>>

Join ==
  /\ Joined
  /\ \/ phase = "unwind" /\ Abandon
     \/ phase = "join" /\ SomeError /\ Abandon
     \/ /\ phase = "join" /\ ~SomeError /\ phase' = "build"
        /\ UNCHANGED <<temporary, metrics>>
  /\ UNCHANGED <<call, created, next_file, worker, builder, total_networks, slots, target,
                 renames>>

\* TemporaryMmdb and build.
Build ==
  /\ phase = "build" /\ temporary = 0 /\ temporary' = 1 /\ phase' = "rename"
  /\ UNCHANGED <<call, created, next_file, worker, builder, total_networks, slots,
                 target, metrics, renames>>

\* mkstemp, build or rename throws.
BuildFails ==
  /\ phase \in {"build", "rename"} /\ Abandon
  /\ UNCHANGED <<call, created, next_file, worker, builder, total_networks, slots, target,
                 renames>>

\* What the database at MMDB_PATH holds.
Contents == {[net |-> inserted[i].net, record |-> pool[inserted[i].did]] :
               i \in DOMAIN inserted}

Rename ==
  /\ phase = "rename" /\ target' = Contents /\ temporary' = 0 /\ phase' = "publish"
  /\ renames' = renames + 1
  /\ UNCHANGED <<call, created, next_file, worker, builder, total_networks, slots, metrics>>

\* The gauges, set_blocklists, run.succeeded() and the destructors.  These
\* are several stores; the workers have ended and no property depends on
\* the states between them, so that they are one step here.
PublishMetrics ==
  /\ phase = "publish" /\ phase' = "idle"
  /\ stats' = slots /\ networks' = total_networks /\ in_progress' = 0
  /\ UNCHANGED <<call, created, next_file, worker, builder, total_networks, slots,
                 temporary, target, runs, failures, renames>>

WorkerStep(t) ==
  TakeFile(t) \/ ReadFile(t) \/ ReadFails(t) \/ ParseLine(t) \/ Flush(t) \/ RecordFile(t)

CallerStep ==
  Spawn \/ SpawnFails \/ SpawnDone \/ Join \/ Build \/ BuildFails \/ Rename \/ PublishMetrics

Next ==
  \/ \E entries \in Checkouts : Start(entries)
  \/ ListFails
  \/ CallerStep
  \/ \E t \in Workers : WorkerStep(t)

(***************************************************************************)
(* The caller and every worker are threads that the system runs.           *)
(***************************************************************************)
Spec == /\ Init /\ [][Next]_vars
        /\ WF_vars(CallerStep)
        /\ \A t \in Workers : WF_vars(WorkerStep(t))
-----------------------------------------------------------------------------
(***************************************************************************)
(* The reference: what the blocklists of a checkout say.                   *)
(***************************************************************************)
\* The metadata in force at line n: the last value set before it.
MetadataAt(e, n) ==
  [k \in Keys |->
     LET set == {i \in 1..(n - 1) : e.lines[i].kind = "key" /\ e.lines[i].key = k}
     IN  IF set = {} THEN NoText ELSE e.lines[CHOOSE i \in set : \A j \in set : j <= i].value]

NetworkLines(e) == {n \in DOMAIN e.lines : e.lines[n].kind = "network"}

Declared(entries) ==
  UNION {{[net |-> e.lines[n].net,
           record |-> [file |-> e.name, metadata |-> MetadataAt(e, n)]] :
          n \in NetworkLines(e)} : e \in Blocklists(entries)}

\* The network lines of the files of this call.
Positions == UNION {{<<i, n>> : n \in NetworkLines(files[i])} : i \in DOMAIN files}

Bad(e) == \E n \in DOMAIN e.lines : e.lines[n].kind \in {"date", "invalid"}

\* The three gauges of a file that set_blocklists publishes.
StatOf(e) == [file |-> e.name, networks |-> Cardinality(NetworkLines(e)),
              category |-> MetadataAt(e, Len(e.lines) + 1)[Category]]
-----------------------------------------------------------------------------
(***************************************************************************)
(* The types; a batch never reaches BatchSize between two lines, the       *)
(* counter is taken at most once too often by each worker, and numbers of  *)
(* records are known to the builder.                                       *)
(***************************************************************************)
TypeOK ==
  /\ phase \in {"idle", "spawn", "unwind", "join", "build", "rename", "publish"}
  /\ next_file <= Len(files) + created + 1
  /\ \A t \in Workers :
       /\ worker[t].pc \in {"none", "take", "read", "line", "record", "done"}
       /\ Len(worker[t].batch) < BatchSize /\ worker[t].did <= Len(pool)
  /\ \A i \in DOMAIN inserted : inserted[i].did \in DOMAIN pool
  /\ in_progress \in {0, 1} /\ temporary \in {0, 1}

(***************************************************************************)
(* When the workers of a call without errors have been joined, the builder *)
(* holds every network line of every blocklist exactly once, each with the *)
(* metadata that its file had set before that line and no other: whatever  *)
(* worker took the file, wherever a batch ended, and however records of    *)
(* two files were numbered (compiler.cpp:111-224 and 358-380).             *)
(***************************************************************************)
EveryNetworkOnce ==
  phase \in {"build", "rename", "publish"} =>
    /\ Contents = Declared(checkout)
    /\ \A e \in Blocklists(checkout) : \A n \in NetworkLines(e) :
         \E k \in DOMAIN inserted : \A j \in DOMAIN inserted :
           (files[inserted[j].file] = e /\ inserted[j].line = n) <=> j = k
    /\ Len(inserted) = Cardinality(Positions)

(***************************************************************************)
(* What a call publishes is what the checkout says.  The database is       *)
(* replaced only by a call whose blocklists are all valid, whichever       *)
(* worker met a bad one (compiler.cpp:382-397).  The statistics "reflect   *)
(* exactly the last generated database" (firehol_metrics.hpp:17-18): each  *)
(* file in its own slot, and compile_networks counts them all.             *)
(***************************************************************************)
OnlyWholeCheckouts ==
  [][/\ target' # target =>
          /\ \A e \in Blocklists(checkout) : ~Bad(e)
          /\ target' = Declared(checkout)
     /\ stats' # stats =>
          /\ \A i \in DOMAIN files : stats'[i] = StatOf(files[i])
          /\ networks' = Cardinality(Positions)]_vars

(***************************************************************************)
(* "1 while a compilation is running": the gauge is up exactly during a    *)
(* call, on every way out, no temporary file stays behind, and every call  *)
(* that did not replace the database is counted as a failure, once         *)
(* (compiler.cpp:229-285 and 419-437).                                     *)
(***************************************************************************)
CallsAreBalanced ==
  /\ TypeOK
  /\ in_progress = IF phase = "idle" THEN 0 ELSE 1
  /\ phase = "idle" => temporary = 0 /\ runs = failures + renames

(***************************************************************************)
(* Every call ends: the workers that remain finish the files and are       *)
(* joined, also after an error of another worker or a failed creation      *)
(* (compiler.cpp:358-380).                                                 *)
(***************************************************************************)
CallsEnd == []<>(phase = "idle")
=============================================================================
