----------------------------- MODULE Application -----------------------------
(***************************************************************************)
(* The life of the process (src/main.cpp): the first refresh, the start of *)
(* the scheduler, the metrics, the database, one SPOA server per shard     *)
(* (src/spoa/spoa_server.cpp) and the metrics endpoint; the signals; the   *)
(* chain of finally() that stops them in the opposite order.  With it the  *)
(* accept loop and the gate of connections of each shard, and the          *)
(* publication of the blocklists' series by the scheduler's thread         *)
(* (src/metrics/firehol_metrics.cpp).                                      *)
(*                                                                         *)
(* The phase is where the reactor of the first shard is.  Threads beside   *)
(* it: the scheduler's, and the helper of run_blocking, whose result is    *)
(* the step that ends a phase.  The modules MmdbReload, JobScheduler,      *)
(* RefreshJob and SpoaConnection have the details of the parts.            *)
(*                                                                         *)
(* The definitions NotRegistered, LostBeforeWait, LoopNotAwaited and       *)
(* OnlyOnSuccess are not part of the specification: each is a plausible    *)
(* mistake in the definition that follows it.                              *)
(***************************************************************************)
EXTENDS Naturals, Sequences, FiniteSets

CONSTANTS
  Shards, Peers,
  MaxJobs,     \* bound: jobs of the scheduler
  MaxSignals   \* bound: signals

ASSUME ApplicationAssumption ==
  /\ IsFiniteSet(Shards) /\ Shards # {} /\ IsFiniteSet(Peers)
  /\ MaxJobs \in Nat /\ MaxSignals \in Nat

VARIABLES
  mode,        \* RunMode
  path,        \* MMDB_PATH is set
  phase, failed,
  signals, promised,      \* signals so far; times shutdown.set_value() ran
  mmdb,                   \* shared_mmdb: closed or open
  started,                \* shards whose start() returned
  accept,                 \* accepting_ of each shard
  aborted,                \* shards whose listener was aborted
  gate,                   \* connections_ of each shard
  peer,                   \* where each peer is
  at,                     \* the shard of each peer
  rejected,               \* history: a connection met a closed gate
  job, jobs,              \* the scheduler's thread, and jobs so far
  blocklists,             \* blocklists_ (a version)
  alien, tasks, series    \* alien_ is set; tasks for the reactor; the gauges

life    == <<mode, path>>
servers == <<started, accept, aborted, gate>>
clients == <<peer, at, rejected>>
sched   == <<job, jobs>>
gauges  == <<blocklists, alien, tasks, series>>
vars    == <<mode, path, phase, failed, signals, promised, mmdb, servers, clients,
             sched, gauges>>

Init ==
  /\ mode \in {"Serve", "FetchOnly"} /\ path \in BOOLEAN
  /\ phase = "prepare" /\ failed = FALSE /\ signals = 0 /\ promised = 0
  /\ mmdb = "closed"
  /\ started = {} /\ aborted = {}
  /\ accept = [s \in Shards |-> "ready"] /\ gate = [s \in Shards |-> "open"]
  /\ peer = [p \in Peers |-> "away"] /\ at \in [Peers -> Shards]
  /\ rejected = FALSE
  /\ job = "none" /\ jobs = 0
  /\ blocklists = 0 /\ alien = FALSE /\ tasks = 0 /\ series = 0

To(p) == phase' = p /\ UNCHANGED failed
\* An exception in the chain: the rest of it is skipped up to the finallys.
Throw == phase' = "stop_http" /\ failed' = TRUE
-----------------------------------------------------------------------------
(***************************************************************************)
(* main: ensure_mmdb_available on a helper thread, then run_spoa_agent.    *)
(***************************************************************************)
Prepared(compiled) ==
  /\ phase = "prepare" /\ To(IF mode = "Serve" THEN "scheduler" ELSE "exit")
  /\ (path \/ mode = "Serve") /\ (compiled => path)
  /\ blocklists' = IF compiled THEN blocklists + 1 ELSE blocklists
  /\ UNCHANGED <<life, signals, promised, mmdb, servers, clients, sched, alien, tasks, series>>

NotAvailable ==
  /\ phase = "prepare" /\ (path \/ mode = "FetchOnly")
  /\ phase' = "exit" /\ failed' = TRUE
  /\ UNCHANGED <<life, signals, promised, mmdb, servers, clients, sched, gauges>>

\* The scheduler's thread starts before the metrics are registered.
StartScheduler ==
  /\ phase = "scheduler" /\ To("register")
  /\ job' = IF path THEN "waiting" ELSE job
  /\ UNCHANGED <<life, signals, promised, mmdb, servers, clients, jobs, gauges>>

\* register_metrics: alien_ is written, then publish_blocklists() runs.
RegisterAlien ==
  /\ phase = "register" /\ To("registered") /\ alien' = TRUE
  /\ UNCHANGED <<life, signals, promised, mmdb, servers, clients, sched,
                 blocklists, tasks, series>>

\* What publish_blocklists() queues when register_metrics() calls it.
NotRegistered == UNCHANGED tasks
PublishAtRegistration == tasks' = tasks + 1

RegisterDone ==
  /\ phase = "registered" /\ To(IF path THEN "open" ELSE "servers")
  /\ PublishAtRegistration
  /\ UNCHANGED <<life, signals, promised, mmdb, servers, clients, sched,
                 blocklists, alien, series>>

\* The helper thread of open() returns.
Opened ==
  /\ phase = "open" /\ To("servers") /\ mmdb' = "open"
  /\ UNCHANGED <<life, signals, promised, servers, clients, sched, gauges>>

\* SpoaServer::start on a shard: listen, then the accept loop.
StartShard(s) ==
  /\ phase = "servers" /\ s \notin started
  /\ started' = started \cup {s} /\ accept' = [accept EXCEPT ![s] = "waiting"]
  /\ UNCHANGED <<life, phase, failed, signals, promised, mmdb, aborted, gate,
                 clients, sched, gauges>>

ShardFails(s) ==
  /\ phase = "servers" /\ s \notin started
  /\ started' = started \cup {s} /\ failed' = TRUE
  /\ UNCHANGED <<life, phase, signals, promised, mmdb, accept, aborted, gate,
                 clients, sched, gauges>>

\* invoke_on_all waits for every shard.
ServersStarted ==
  /\ phase = "servers" /\ started = Shards
  /\ phase' = IF failed THEN "stop_http" ELSE "http"
  /\ UNCHANGED <<life, failed, signals, promised, mmdb, servers, clients, sched, gauges>>

HttpListens ==
  /\ phase = "http" /\ To("serve")
  /\ UNCHANGED <<life, signals, promised, mmdb, servers, clients, sched, gauges>>

\* open(), http.start() or http.listen() throws.
StartFails ==
  /\ phase \in {"open", "http"} /\ Throw
  /\ UNCHANGED <<life, signals, promised, mmdb, servers, clients, sched, gauges>>
-----------------------------------------------------------------------------
(***************************************************************************)
(* The signals and the promise they fulfil.                                *)
(***************************************************************************)
HandlersInstalled == phase \notin {"prepare", "scheduler", "register", "registered"}

LostBeforeWait ==
  promised' = IF signals = 0 /\ phase = "serve" THEN promised + 1 ELSE promised

OnSignal == promised' = IF signals = 0 THEN promised + 1 ELSE promised

Signal ==
  /\ HandlersInstalled /\ phase # "exit" /\ signals < MaxSignals
  /\ OnSignal /\ signals' = signals + 1
  /\ UNCHANGED <<life, phase, failed, mmdb, servers, clients, sched, gauges>>

ShutdownSignalled ==
  /\ phase = "serve" /\ promised > 0 /\ To("stop_http")
  /\ UNCHANGED <<life, signals, promised, mmdb, servers, clients, sched, gauges>>
-----------------------------------------------------------------------------
(***************************************************************************)
(* The accept loop of a shard and its connections.                         *)
(***************************************************************************)
Listening(s) == accept[s] # "ready" /\ s \notin aborted

Connect(p) ==
  /\ peer[p] = "away" /\ Listening(at[p]) /\ peer' = [peer EXCEPT ![p] = "queued"]
  /\ UNCHANGED <<life, phase, failed, signals, promised, mmdb, servers, at,
                 rejected, sched, gauges>>

\* accept() resolves; its continuation is queued.
Accept(s) ==
  /\ accept[s] = "waiting" /\ s \notin aborted
  /\ \E p \in Peers : /\ peer[p] = "queued" /\ at[p] = s
                      /\ peer' = [peer EXCEPT ![p] = "accepted"]
  /\ accept' = [accept EXCEPT ![s] = "accepted"]
  /\ UNCHANGED <<life, phase, failed, signals, promised, mmdb, started, aborted,
                 gate, at, rejected, sched, gauges>>

\* connections.enter(), handle_connection, and accept() again.
Enter(s) ==
  /\ accept[s] = "accepted"
  /\ \E p \in Peers :
       /\ peer[p] = "accepted" /\ at[p] = s
       /\ IF gate[s] = "open"
          THEN /\ peer' = [peer EXCEPT ![p] = "served"]
               /\ accept' = [accept EXCEPT ![s] = "waiting"] /\ UNCHANGED rejected
          ELSE /\ peer' = [peer EXCEPT ![p] = "gone"]
               /\ accept' = [accept EXCEPT ![s] = "ended"] /\ rejected' = TRUE
  /\ UNCHANGED <<life, phase, failed, signals, promised, mmdb, started, aborted,
                 gate, at, sched, gauges>>

\* Any error of accept() ends the loop: ECONNABORTED after abort_accept(),
\* another one, such as EMFILE, at any time.
AcceptError(s) ==
  /\ accept[s] = "waiting" /\ accept' = [accept EXCEPT ![s] = "ended"]
  /\ UNCHANGED <<life, phase, failed, signals, promised, mmdb, started, aborted,
                 gate, clients, sched, gauges>>

\* handle_connection finishes and leaves the gate.
ConnectionEnds(p) ==
  /\ peer[p] = "served" /\ peer' = [peer EXCEPT ![p] = "gone"]
  /\ UNCHANGED <<life, phase, failed, signals, promised, mmdb, servers, at,
                 rejected, sched, gauges>>
-----------------------------------------------------------------------------
(***************************************************************************)
(* The finallys.                                                           *)
(***************************************************************************)
StopHttp ==
  /\ phase = "stop_http" /\ To("stop_servers")
  /\ UNCHANGED <<life, signals, promised, mmdb, servers, clients, sched, gauges>>

\* SpoaServer::stop: abort_accept(), await accepting_, close the gate.
AbortAccept(s) ==
  /\ phase = "stop_servers" /\ s \notin aborted /\ aborted' = aborted \cup {s}
  /\ UNCHANGED <<life, phase, failed, signals, promised, mmdb, started, accept,
                 gate, clients, sched, gauges>>

\* accepting_ is ready.
LoopNotAwaited(s) == TRUE
LoopEnded(s) == accept[s] \in {"ready", "ended"}

CloseGate(s) ==
  /\ s \in aborted /\ LoopEnded(s) /\ gate[s] = "open"
  /\ gate' = [gate EXCEPT ![s] = "closed"]
  /\ UNCHANGED <<life, phase, failed, signals, promised, mmdb, started, accept,
                 aborted, clients, sched, gauges>>

\* gate::close() is ready.
GateClosed(s) == gate[s] = "closed" /\ \A p \in Peers : at[p] = s => peer[p] # "served"

ServersStopped ==
  /\ phase = "stop_servers" /\ \A s \in Shards : GateClosed(s)
  /\ To("stop_scheduler")
  /\ UNCHANGED <<life, signals, promised, mmdb, servers, clients, sched, gauges>>

\* scheduler.reset() blocks the reactor until the thread is joined.
SchedulerStopped ==
  /\ phase = "stop_scheduler" /\ job \in {"none", "waiting"}
  /\ job' = "none" /\ To("close")
  /\ UNCHANGED <<life, signals, promised, mmdb, servers, clients, jobs, gauges>>

\* The last finally, on a helper thread; an exception ends in EXIT_FAILURE.
OnlyOnSuccess == IF failed THEN mmdb ELSE "closed"
AfterClose == "closed"

CloseDatabase ==
  /\ phase = "close" /\ To("exit") /\ mmdb' = AfterClose
  /\ UNCHANGED <<life, signals, promised, servers, clients, sched, gauges>>
-----------------------------------------------------------------------------
(***************************************************************************)
(* The scheduler's thread: the job compiles and calls set_blocklists().    *)
(***************************************************************************)
JobStarts ==
  /\ job = "waiting" /\ jobs < MaxJobs /\ phase # "stop_scheduler"
  /\ job' = "compiling" /\ jobs' = jobs + 1
  /\ UNCHANGED <<life, phase, failed, signals, promised, mmdb, servers, clients, gauges>>

SetBlocklists ==
  /\ job = "compiling" /\ job' = "publishing" /\ blocklists' = blocklists + 1
  /\ UNCHANGED <<life, phase, failed, signals, promised, mmdb, servers, clients,
                 jobs, alien, tasks, series>>

\* publish_blocklists: a no-op before register_metrics().
PublishBlocklists ==
  /\ job = "publishing" /\ job' = "waiting"
  /\ tasks' = IF alien THEN tasks + 1 ELSE tasks
  /\ UNCHANGED <<life, phase, failed, signals, promised, mmdb, servers, clients,
                 jobs, blocklists, alien, series>>

\* The job finds nothing to do or throws.
JobEnds ==
  /\ job = "compiling" /\ job' = "waiting"
  /\ UNCHANGED <<life, phase, failed, signals, promised, mmdb, servers, clients, jobs, gauges>>

\* The reactor runs the task: the series are built from blocklists() anew.
RebuildSeries ==
  /\ HandlersInstalled /\ phase \notin {"stop_scheduler", "exit"} /\ tasks > 0
  /\ tasks' = tasks - 1 /\ series' = blocklists
  /\ UNCHANGED <<life, phase, failed, signals, promised, mmdb, servers, clients,
                 sched, blocklists, alien>>
-----------------------------------------------------------------------------
Reactor ==
  \/ \E compiled \in BOOLEAN : Prepared(compiled)
  \/ NotAvailable \/ StartScheduler \/ RegisterAlien \/ RegisterDone
  \/ Opened \/ ServersStarted \/ HttpListens \/ StartFails
  \/ ShutdownSignalled \/ StopHttp \/ ServersStopped \/ SchedulerStopped \/ CloseDatabase

Shard(s) ==
  StartShard(s) \/ ShardFails(s) \/ AbortAccept(s) \/ CloseGate(s)

\* Steps of a shard that accept() and its continuations make.
Loop(s) == Accept(s) \/ Enter(s) \/ (s \in aborted /\ AcceptError(s))

Job == SetBlocklists \/ PublishBlocklists \/ JobEnds

Next ==
  \/ Reactor \/ Signal \/ JobStarts \/ Job \/ RebuildSeries
  \/ \E s \in Shards : Shard(s) \/ Accept(s) \/ Enter(s) \/ AcceptError(s)
  \/ \E p \in Peers : Connect(p) \/ ConnectionEnds(p)

(***************************************************************************)
(* The reactors run what is ready, a job ends, and so does open(); nothing *)
(* makes a peer connect or leave, a signal arrive or a job start.          *)
(***************************************************************************)
Spec ==
  /\ Init /\ [][Next]_vars
  /\ WF_vars(Reactor) /\ WF_vars(Job) /\ WF_vars(RebuildSeries)
  /\ \A s \in Shards : WF_vars(Shard(s)) /\ WF_vars(Loop(s))
-----------------------------------------------------------------------------
(***************************************************************************)
(* The types; the promise is fulfilled at most once, whatever signals come *)
(* (a second set_value() is undefined).                                    *)
(***************************************************************************)
TypeOK ==
  /\ promised \in {0, 1} /\ signals \in 0..MaxSignals /\ jobs \in 0..MaxJobs
  /\ failed \in BOOLEAN /\ mmdb \in {"closed", "open"}
  /\ started \subseteq Shards /\ aborted \subseteq Shards
  /\ accept \in [Shards -> {"ready", "waiting", "accepted", "ended"}]
  /\ gate \in [Shards -> {"open", "closed"}]
  /\ peer \in [Peers -> {"away", "queued", "accepted", "served", "gone"}]
  /\ job \in {"none", "waiting", "compiling", "publishing"}
  /\ tasks \in Nat /\ series <= blocklists

(***************************************************************************)
(* Nobody is served by what has been released.  "Stop accepting before     *)
(* closing the gate; keep the agent alive until every in-flight connection *)
(* has finished" (spoa_server.cpp:153-154): no connection that was         *)
(* accepted finds the gate closed, also if accept() had resolved when the  *)
(* listener was aborted, and while one is served its server has not been   *)
(* destroyed and the database, if there is one, is open.                   *)
(***************************************************************************)
ServedWhileAlive ==
  /\ TypeOK
  /\ ~rejected
  /\ \A p \in Peers : peer[p] \in {"accepted", "served"} =>
       phase \notin {"stop_scheduler", "close", "exit"} /\ (path => mmdb = "open")

(***************************************************************************)
(* Every way out of run_spoa_agent releases everything: no accept loop, no *)
(* job and no watcher are left when the process exits, whichever step of   *)
(* the start failed or whenever the signal came (main.cpp:195-212).        *)
(***************************************************************************)
EverythingReleased ==
  phase = "exit" =>
    /\ \A s \in Shards : accept[s] \in {"ready", "ended"}
    /\ job = "none" /\ mmdb = "closed"

(***************************************************************************)
(* A signal that arrives after the handlers were installed, during the     *)
(* start too, ends the process (main.cpp:144-151), unless a connection is  *)
(* served for ever: a peer is served once, so that the state in which one  *)
(* is served recurs for ever only if it stays.                             *)
(***************************************************************************)
ShutdownEnds ==
  []<>(signals = 0 \/ phase = "exit" \/ \E p \in Peers : peer[p] = "served")

(***************************************************************************)
(* "Series published before registration (fetch-and-create at startup)":   *)
(* every compilation's statistics reach the gauges, also those of the      *)
(* start and of a job that races the registration, unless the process is   *)
(* stopping (firehol_metrics.cpp:35-72 and 143).                           *)
(***************************************************************************)
SeriesCatchUp ==
  (phase = "serve" /\ job \in {"none", "waiting"})
    ~> (series = blocklists \/ job \notin {"none", "waiting"} \/ phase # "serve")
=============================================================================
