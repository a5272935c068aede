-------------------------- MODULE ApplicationProofs --------------------------
(***************************************************************************)
(* Proofs about Application, for every set of shards and of peers and any  *)
(* number of jobs and signals.                                             *)
(***************************************************************************)
EXTENDS Application, TLAPS

Starting == {"prepare", "scheduler", "register", "registered", "open"}
Running  == {"servers", "http", "serve"}
Stopping == {"stop_http", "stop_servers"}
Stopped  == {"stop_scheduler", "close", "exit"}

\* What TypeOK leaves out.
Types ==
  /\ TypeOK
  /\ mode \in {"Serve", "FetchOnly"} /\ path \in BOOLEAN
  /\ phase \in Starting \cup Running \cup Stopping \cup Stopped
  /\ at \in [Peers -> Shards]
  /\ blocklists \in Nat /\ series \in Nat /\ promised \in Nat
  /\ alien \in BOOLEAN

\* A signal before the first one cannot have fulfilled the promise.
SignalInv == signals = 0 => promised = 0

\* A shard serves after start() and until its gate is closed.
ShardInv ==
  /\ phase \in Starting => started = {}
  /\ \A s \in Shards : s \notin started => accept[s] = "ready"
  /\ aborted # {} => phase \in {"stop_servers"} \cup Stopped
  /\ \A s \in Shards : gate[s] = "closed" => s \in aborted /\ LoopEnded(s)

\* A connection that has been accepted is the one its loop is about to enter.
PeerInv ==
  /\ \A p \in Peers : peer[p] # "away" => accept[at[p]] # "ready"
  /\ \A p \in Peers : peer[p] = "accepted" => accept[at[p]] = "accepted"
  /\ \A p, q \in Peers : peer[p] = "accepted" /\ peer[q] = "accepted" /\ at[p] = at[q]
                           => p = q
  /\ ~rejected

\* No loop runs and nobody is served.
Quiet ==
  /\ \A s \in Shards : LoopEnded(s)
  /\ \A p \in Peers : peer[p] \notin {"accepted", "served"}

QuietInv == phase \in Stopped => Quiet

\* The database is open from open() to the last finally.
DatabaseInv ==
  /\ phase \in Starting \cup {"exit"} => mmdb = "closed"
  /\ path /\ (phase \in Running \/ started # {}) /\ phase # "exit" => mmdb = "open"

\* The scheduler's thread exists from its start to scheduler.reset().
JobInv == phase \in {"prepare", "scheduler", "close", "exit"} => job = "none"

IInv ==
  Types /\ SignalInv /\ ShardInv /\ PeerInv /\ QuietInv /\ DatabaseInv /\ JobInv
-----------------------------------------------------------------------------
\* The initial states.
LEMMA InitInv == Init => IInv
<1> SUFFICES ASSUME Init PROVE IInv
  OBVIOUS
<1> USE ApplicationAssumption
<1>1. Types
  <2>1. /\ failed \in BOOLEAN /\ alien \in BOOLEAN /\ path \in BOOLEAN
    BY DEF Init
  <2>2. TypeOK
    BY <2>1 DEF Init, TypeOK
  <2> QED BY <2>1, <2>2 DEF Init, Types, Starting
<1>2. SignalInv /\ ShardInv /\ PeerInv /\ QuietInv /\ DatabaseInv /\ JobInv
  BY DEF Init, SignalInv, ShardInv, PeerInv, QuietInv, DatabaseInv, JobInv, Starting,
         Running, Stopped
<1> QED BY <1>1, <1>2 DEF IInv

\* A step of the main reactor.
LEMMA ReactorInv == ASSUME IInv, Reactor PROVE IInv'
<1> USE ApplicationAssumption
    DEF To, Throw, life, servers, clients, sched, gauges, Starting, Running, Stopping, Stopped
<1>1. Types /\ TypeOK /\ SignalInv /\ ShardInv /\ PeerInv /\ QuietInv /\ DatabaseInv /\ JobInv
  BY DEF IInv, Types
<1>2. ASSUME NEW compiled \in BOOLEAN, Prepared(compiled) PROVE IInv'
  BY <1>1, <1>2 DEF Prepared, IInv, Types, TypeOK, SignalInv, ShardInv, PeerInv, QuietInv, Quiet, DatabaseInv, JobInv, LoopEnded
<1>3. CASE NotAvailable
  BY <1>1, <1>3 DEF NotAvailable, IInv, Types, TypeOK, SignalInv, ShardInv, PeerInv, QuietInv, Quiet, DatabaseInv, JobInv, LoopEnded
<1>4. CASE StartScheduler
  BY <1>1, <1>4 DEF StartScheduler, IInv, Types, TypeOK, SignalInv, ShardInv, PeerInv, QuietInv, Quiet, DatabaseInv, JobInv, LoopEnded
<1>5. CASE RegisterAlien
  BY <1>1, <1>5 DEF RegisterAlien, IInv, Types, TypeOK, SignalInv, ShardInv, PeerInv, QuietInv, Quiet, DatabaseInv, JobInv, LoopEnded
<1>6. CASE RegisterDone
  BY <1>1, <1>6 DEF RegisterDone, PublishAtRegistration, IInv, Types, TypeOK, SignalInv, ShardInv, PeerInv, QuietInv, Quiet, DatabaseInv, JobInv, LoopEnded
<1>7. CASE Opened
  BY <1>1, <1>7 DEF Opened, IInv, Types, TypeOK, SignalInv, ShardInv, PeerInv, QuietInv, Quiet, DatabaseInv, JobInv, LoopEnded
<1>8. CASE ServersStarted
  BY <1>1, <1>8 DEF ServersStarted, IInv, Types, TypeOK, SignalInv, ShardInv, PeerInv, QuietInv, Quiet, DatabaseInv, JobInv, LoopEnded
<1>9. CASE HttpListens
  BY <1>1, <1>9 DEF HttpListens, IInv, Types, TypeOK, SignalInv, ShardInv, PeerInv, QuietInv, Quiet, DatabaseInv, JobInv, LoopEnded
<1>10. CASE StartFails
  BY <1>1, <1>10 DEF StartFails, IInv, Types, TypeOK, SignalInv, ShardInv, PeerInv, QuietInv, Quiet, DatabaseInv, JobInv, LoopEnded
<1>11. CASE ShutdownSignalled
  BY <1>1, <1>11 DEF ShutdownSignalled, IInv, Types, TypeOK, SignalInv, ShardInv, PeerInv, QuietInv, Quiet, DatabaseInv, JobInv, LoopEnded
<1>12. CASE StopHttp
  BY <1>1, <1>12 DEF StopHttp, IInv, Types, TypeOK, SignalInv, ShardInv, PeerInv, QuietInv, Quiet, DatabaseInv, JobInv, LoopEnded
<1>13. CASE ServersStopped
  <2>1. /\ phase = "stop_servers" /\ phase' = "stop_scheduler"
        /\ UNCHANGED <<life, failed, signals, promised, mmdb, servers, clients, sched, gauges>>
        /\ \A s \in Shards : GateClosed(s)
    BY <1>13 DEF ServersStopped
  <2>2. \A s \in Shards : LoopEnded(s)
    BY <1>1, <2>1 DEF ShardInv, GateClosed
  <2>3. \A p \in Peers : at[p] \in Shards
    BY <1>1 DEF Types
  <2>4. \A p \in Peers : peer[p] # "accepted"
    BY <1>1, <2>2, <2>3 DEF PeerInv, LoopEnded
  <2>5. \A p \in Peers : peer[p] # "served"
    BY <2>1, <2>3 DEF GateClosed
  <2>6. QuietInv'
    BY <2>1, <2>2, <2>4, <2>5 DEF QuietInv, Quiet, LoopEnded
  <2> QED BY <1>1, <2>1, <2>6 DEF IInv, Types, TypeOK, SignalInv, ShardInv, PeerInv,
                                  DatabaseInv, JobInv, LoopEnded
<1>14. CASE SchedulerStopped
  BY <1>1, <1>14 DEF SchedulerStopped, IInv, Types, TypeOK, SignalInv, ShardInv, PeerInv, QuietInv, Quiet, DatabaseInv, JobInv, LoopEnded
<1>15. CASE CloseDatabase
  BY <1>1, <1>15 DEF CloseDatabase, AfterClose, IInv, Types, TypeOK, SignalInv, ShardInv, PeerInv, QuietInv, Quiet, DatabaseInv, JobInv, LoopEnded
<1> QED BY <1>2, <1>3, <1>4, <1>5, <1>6, <1>7, <1>8, <1>9, <1>10, <1>11, <1>12, <1>13, <1>14, <1>15 DEF Reactor

\* The scheduler's thread, the signals and the gauges touch no connection.
LEMMA ThreadsInv ==
  ASSUME IInv, Signal \/ JobStarts \/ Job \/ RebuildSeries
  PROVE  IInv'
<1> USE ApplicationAssumption
    DEF life, servers, clients, sched, gauges, Starting, Running, Stopping, Stopped
<1>1. Types /\ TypeOK /\ SignalInv /\ ShardInv /\ PeerInv /\ QuietInv /\ DatabaseInv /\ JobInv
  BY DEF IInv, Types
<1>2. UNCHANGED <<life, phase, failed, mmdb, servers, clients>>
  BY DEF Signal, JobStarts, Job, SetBlocklists, PublishBlocklists, JobEnds, RebuildSeries
<1>3. ShardInv' /\ PeerInv' /\ QuietInv' /\ DatabaseInv'
  BY <1>1, <1>2 DEF ShardInv, PeerInv, QuietInv, Quiet, DatabaseInv, LoopEnded
<1>4. CASE Signal
  BY <1>1, <1>3, <1>4 DEF Signal, OnSignal, IInv, Types, TypeOK, SignalInv, JobInv
<1>5. CASE JobStarts
  BY <1>1, <1>3, <1>5 DEF JobStarts, IInv, Types, TypeOK, SignalInv, JobInv
<1>6. CASE SetBlocklists
  BY <1>1, <1>3, <1>6 DEF SetBlocklists, IInv, Types, TypeOK, SignalInv, JobInv
<1>7. CASE PublishBlocklists
  BY <1>1, <1>3, <1>7 DEF PublishBlocklists, IInv, Types, TypeOK, SignalInv, JobInv
<1>8. CASE JobEnds
  BY <1>1, <1>3, <1>8 DEF JobEnds, IInv, Types, TypeOK, SignalInv, JobInv
<1>9. CASE RebuildSeries
  BY <1>1, <1>3, <1>9 DEF RebuildSeries, IInv, Types, TypeOK, SignalInv, JobInv
<1> QED BY <1>4, <1>5, <1>6, <1>7, <1>8, <1>9 DEF Job

\* start() and stop() of a shard.
LEMMA ShardStepInv == ASSUME IInv, NEW s \in Shards, Shard(s) PROVE IInv'
<1> USE ApplicationAssumption
    DEF life, servers, clients, sched, gauges, Starting, Running, Stopping, Stopped
<1>1. Types /\ TypeOK /\ SignalInv /\ ShardInv /\ PeerInv /\ QuietInv /\ DatabaseInv /\ JobInv
  BY DEF IInv, Types
<1>2. UNCHANGED <<life, phase, signals, promised, mmdb, clients, sched, gauges>>
  BY DEF Shard, StartShard, ShardFails, AbortAccept, CloseGate
<1>3. SignalInv' /\ JobInv'
  BY <1>1, <1>2 DEF SignalInv, JobInv
<1>4. CASE StartShard(s)
  <2>1. /\ phase = "servers" /\ s \notin started /\ started' = started \cup {s}
        /\ accept' = [accept EXCEPT ![s] = "waiting"]
        /\ UNCHANGED <<failed, aborted, gate>>
    BY <1>4 DEF StartShard
  <2>2. Types'
    BY <1>1, <1>2, <2>1 DEF Types, TypeOK
  <2>3. aborted = {} /\ accept[s] = "ready"
    BY <1>1, <2>1 DEF ShardInv
  <2>4. \A r \in Shards : accept'[r] = IF r = s THEN "waiting" ELSE accept[r]
    BY <1>1, <2>1 DEF Types, TypeOK
  <2>5. ShardInv'
    BY <1>1, <1>2, <2>1, <2>3, <2>4 DEF ShardInv, LoopEnded
  <2>6. PeerInv'
    <3>1. \A p \in Peers : at[p] \in Shards
      BY <1>1 DEF Types
    <3> QED BY <1>1, <1>2, <2>3, <2>4, <3>1 DEF PeerInv
  <2>7. QuietInv' /\ DatabaseInv'
    BY <1>1, <1>2, <2>1 DEF QuietInv, DatabaseInv
  <2> QED BY <1>3, <2>2, <2>5, <2>6, <2>7 DEF IInv
<1>5. CASE ShardFails(s)
  BY <1>1, <1>2, <1>3, <1>5
     DEF ShardFails, IInv, Types, TypeOK, ShardInv, PeerInv, QuietInv, DatabaseInv, LoopEnded
<1>6. CASE AbortAccept(s)
  BY <1>1, <1>2, <1>3, <1>6
     DEF AbortAccept, IInv, Types, TypeOK, ShardInv, PeerInv, QuietInv, DatabaseInv, LoopEnded
<1>7. CASE CloseGate(s)
  <2>1. /\ s \in aborted /\ LoopEnded(s)
        /\ gate' = [gate EXCEPT ![s] = "closed"]
        /\ UNCHANGED <<failed, started, accept, aborted>>
    BY <1>7 DEF CloseGate
  <2>2. \A r \in Shards : gate'[r] = IF r = s THEN "closed" ELSE gate[r]
    BY <1>1, <2>1 DEF Types, TypeOK
  <2>3. Types'
    BY <1>1, <1>2, <2>1 DEF Types, TypeOK
  <2>4. ShardInv'
    BY <1>1, <1>2, <2>1, <2>2 DEF ShardInv, LoopEnded
  <2>5. PeerInv' /\ QuietInv' /\ DatabaseInv'
    BY <1>1, <1>2, <2>1 DEF PeerInv, QuietInv, Quiet, DatabaseInv, LoopEnded
  <2> QED BY <1>3, <2>3, <2>4, <2>5 DEF IInv
<1> QED BY <1>4, <1>5, <1>6, <1>7 DEF Shard

\* While a peer is being accepted or served, its shard's loop is not the
\* last thing that runs: the servers have not been stopped.
LEMMA LoopRuns ==
  ASSUME IInv, NEW s \in Shards, accept[s] \in {"waiting", "accepted"}
  PROVE  phase \notin Stopped /\ gate[s] = "open"
BY DEF IInv, Types, TypeOK, ShardInv, QuietInv, Quiet, LoopEnded

\* What the accept loop and its connections leave alone.
Elsewhere == <<life, phase, failed, signals, promised, mmdb, started, aborted, gate, at,
               sched, gauges>>

\* A step of an accept loop or of a connection keeps the rest.
LEMMA ElsewhereInv ==
  ASSUME IInv, UNCHANGED Elsewhere,
         accept' \in [Shards -> {"ready", "waiting", "accepted", "ended"}],
         peer' \in [Peers -> {"away", "queued", "accepted", "served", "gone"}],
         \A s \in Shards : (accept'[s] = "ready") <=> (accept[s] = "ready"),
         \A s \in Shards : LoopEnded(s) => LoopEnded(s)'
  PROVE  Types' /\ SignalInv' /\ ShardInv' /\ DatabaseInv' /\ JobInv'
<1> USE DEF Elsewhere, life, sched, gauges
<1>1. Types'
  BY DEF IInv, Types, TypeOK
<1>2. ShardInv'
  BY DEF IInv, ShardInv
<1>3. SignalInv' /\ DatabaseInv' /\ JobInv'
  BY DEF IInv, SignalInv, DatabaseInv, JobInv
<1> QED BY <1>1, <1>2, <1>3

\* The accept loop of a shard.
LEMMA LoopInv ==
  ASSUME IInv, NEW s \in Shards, Accept(s) \/ Enter(s) \/ AcceptError(s)
  PROVE  IInv'
<1> USE DEF servers, clients
<1>1. Types /\ TypeOK /\ ShardInv /\ PeerInv /\ QuietInv
  BY DEF IInv, Types
<1>2. /\ accept[s] \in {"waiting", "accepted"} /\ ~LoopEnded(s)
      /\ accept \in [Shards -> {"ready", "waiting", "accepted", "ended"}]
      /\ peer \in [Peers -> {"away", "queued", "accepted", "served", "gone"}]
      /\ at \in [Peers -> Shards]
  BY <1>1 DEF Accept, Enter, AcceptError, Types, TypeOK, LoopEnded
<1>3. phase \notin Stopped /\ gate[s] = "open"
  BY <1>2, LoopRuns
<1>4. UNCHANGED Elsewhere
  BY DEF Accept, Enter, AcceptError, Elsewhere
<1>5. QuietInv'
  BY <1>3, <1>4 DEF QuietInv, Elsewhere
<1>6. CASE Accept(s)
  <2>1. PICK p \in Peers : /\ peer[p] = "queued" /\ at[p] = s
                           /\ peer' = [peer EXCEPT ![p] = "accepted"]
    BY <1>6 DEF Accept
  <2>2. /\ accept[s] = "waiting" /\ accept' = [accept EXCEPT ![s] = "accepted"]
        /\ rejected' = rejected /\ at' = at
    BY <1>6 DEF Accept
  <2>3. /\ accept' \in [Shards -> {"ready", "waiting", "accepted", "ended"}]
        /\ peer' \in [Peers -> {"away", "queued", "accepted", "served", "gone"}]
        /\ \A r \in Shards : accept'[r] = IF r = s THEN "accepted" ELSE accept[r]
        /\ \A q \in Peers : peer'[q] = IF q = p THEN "accepted" ELSE peer[q]
    BY <1>2, <2>1, <2>2
  <2>4. Types' /\ SignalInv' /\ ShardInv' /\ DatabaseInv' /\ JobInv'
    BY <1>2, <1>4, <2>2, <2>3, ElsewhereInv DEF LoopEnded
  <2>5. \A q \in Peers : at[q] = s => peer[q] # "accepted"
    BY <1>1, <2>2 DEF PeerInv
  <2>6. PeerInv'
    BY <1>1, <1>2, <2>1, <2>2, <2>3, <2>5 DEF PeerInv
  <2> QED BY <1>5, <2>4, <2>6 DEF IInv
<1>7. CASE Enter(s)
  <2>1. PICK p \in Peers : /\ peer[p] = "accepted" /\ at[p] = s
                           /\ peer' = [peer EXCEPT ![p] = "served"]
                           /\ accept' = [accept EXCEPT ![s] = "waiting"]
                           /\ rejected' = rejected
    BY <1>3, <1>7 DEF Enter
  <2>2. accept[s] = "accepted" /\ at' = at
    BY <1>7 DEF Enter
  <2>3. /\ accept' \in [Shards -> {"ready", "waiting", "accepted", "ended"}]
        /\ peer' \in [Peers -> {"away", "queued", "accepted", "served", "gone"}]
        /\ \A r \in Shards : accept'[r] = IF r = s THEN "waiting" ELSE accept[r]
        /\ \A q \in Peers : peer'[q] = IF q = p THEN "served" ELSE peer[q]
    BY <1>2, <2>1, <2>2
  <2>4. Types' /\ SignalInv' /\ ShardInv' /\ DatabaseInv' /\ JobInv'
    BY <1>2, <1>4, <2>2, <2>3, ElsewhereInv DEF LoopEnded
  <2>5. \A q \in Peers : at[q] = s /\ peer[q] = "accepted" => q = p
    BY <1>1, <2>1 DEF PeerInv
  <2>6. PeerInv'
    BY <1>1, <1>2, <2>1, <2>2, <2>3, <2>5 DEF PeerInv
  <2> QED BY <1>5, <2>4, <2>6 DEF IInv
<1>8. CASE AcceptError(s)
  <2>1. /\ accept[s] = "waiting" /\ accept' = [accept EXCEPT ![s] = "ended"]
        /\ UNCHANGED <<peer, at, rejected>>
    BY <1>8 DEF AcceptError
  <2>2. /\ accept' \in [Shards -> {"ready", "waiting", "accepted", "ended"}]
        /\ \A r \in Shards : accept'[r] = IF r = s THEN "ended" ELSE accept[r]
    BY <1>2, <2>1
  <2>3. Types' /\ SignalInv' /\ ShardInv' /\ DatabaseInv' /\ JobInv'
    BY <1>2, <1>4, <2>1, <2>2, ElsewhereInv DEF LoopEnded
  <2>4. PeerInv'
    BY <1>1, <1>2, <2>1, <2>2 DEF PeerInv
  <2> QED BY <1>5, <2>3, <2>4 DEF IInv
<1> QED BY <1>6, <1>7, <1>8

\* A peer connects or leaves.
LEMMA PeerStepInv ==
  ASSUME IInv, NEW p \in Peers, Connect(p) \/ ConnectionEnds(p)
  PROVE  IInv'
<1> USE DEF servers, clients
<1>1. Types /\ TypeOK /\ PeerInv /\ QuietInv
  BY DEF IInv, Types
<1>2. PICK x \in {"queued", "gone"} : peer' = [peer EXCEPT ![p] = x]
  BY DEF Connect, ConnectionEnds
<1>3. UNCHANGED Elsewhere /\ UNCHANGED <<accept, rejected>>
  BY DEF Connect, ConnectionEnds, Elsewhere
<1>4. /\ accept \in [Shards -> {"ready", "waiting", "accepted", "ended"}]
      /\ peer' \in [Peers -> {"away", "queued", "accepted", "served", "gone"}]
      /\ \A q \in Peers : peer'[q] = IF q = p THEN x ELSE peer[q]
  BY <1>1, <1>2 DEF TypeOK
<1>5. Types' /\ SignalInv' /\ ShardInv' /\ DatabaseInv' /\ JobInv'
  BY <1>3, <1>4, ElsewhereInv DEF LoopEnded
<1>6. accept[at[p]] # "ready"
  BY <1>1 DEF Connect, ConnectionEnds, Listening, PeerInv
<1>7. PeerInv'
  BY <1>1, <1>3, <1>4, <1>6 DEF PeerInv, Elsewhere
<1>8. QuietInv'
  BY <1>1, <1>3, <1>4 DEF QuietInv, Quiet, LoopEnded, Elsewhere
<1> QED BY <1>5, <1>7, <1>8 DEF IInv

\* Every step.
LEMMA NextInv == ASSUME IInv, [Next]_vars PROVE IInv'
<1>1. CASE Reactor
  BY <1>1, ReactorInv
<1>2. CASE Signal \/ JobStarts \/ Job \/ RebuildSeries
  BY <1>2, ThreadsInv
<1>3. ASSUME NEW s \in Shards, Shard(s) PROVE IInv'
  BY <1>3, ShardStepInv
<1>4. ASSUME NEW s \in Shards, Accept(s) \/ Enter(s) \/ AcceptError(s) PROVE IInv'
  BY <1>4, LoopInv
<1>5. ASSUME NEW p \in Peers, Connect(p) \/ ConnectionEnds(p) PROVE IInv'
  BY <1>5, PeerStepInv
<1>6. CASE UNCHANGED vars
  BY <1>6 DEF vars, life, servers, clients, sched, gauges, IInv, Types, TypeOK,
              SignalInv, ShardInv, PeerInv, QuietInv, Quiet, DatabaseInv, JobInv, LoopEnded
<1> QED BY <1>1, <1>2, <1>3, <1>4, <1>5, <1>6 DEF Next

\* It holds of every behaviour.
LEMMA Invariance == Spec => []IInv
BY InitInv, NextInv, PTL DEF Spec
-----------------------------------------------------------------------------
(***************************************************************************)
(* Whatever the number of shards and of connections, and whenever the stop *)
(* begins: a connection that was accepted never finds its gate closed, and *)
(* while it is served its server exists and the database is open           *)
(* (spoa_server.cpp:96-158, main.cpp:195-212).                             *)
(***************************************************************************)
THEOREM NobodyServedAfterStop == Spec => []ServedWhileAlive
<1>1. IInv => ServedWhileAlive
  <2> SUFFICES ASSUME IInv PROVE ServedWhileAlive
    OBVIOUS
  <2>1. TypeOK /\ ~rejected
    BY DEF IInv, Types, PeerInv
  <2>2. ASSUME NEW p \in Peers, peer[p] \in {"accepted", "served"}
        PROVE  phase \notin Stopped /\ (path => mmdb = "open")
    <3>1. phase \notin Stopped
      BY <2>2 DEF IInv, QuietInv, Quiet
    <3>2. at[p] \in Shards /\ accept[at[p]] # "ready"
      BY <2>2 DEF IInv, Types, PeerInv
    <3>3. started # {}
      BY <3>2 DEF IInv, ShardInv
    <3> QED BY <3>1, <3>3 DEF IInv, DatabaseInv, Stopped
  <2> QED BY <2>1, <2>2 DEF ServedWhileAlive, Stopped
<1> QED BY <1>1, Invariance, PTL

(***************************************************************************)
(* Every way out of run_spoa_agent leaves no accept loop, no scheduler and *)
(* no open database (main.cpp:195-212).                                    *)
(***************************************************************************)
THEOREM ExitReleasesAll == Spec => []EverythingReleased
<1>1. IInv => EverythingReleased
  BY DEF IInv, QuietInv, Quiet, LoopEnded, DatabaseInv, JobInv, EverythingReleased,
         Stopped, Starting
<1> QED BY <1>1, Invariance, PTL
=============================================================================
