------------------------------ MODULE MmdbReload ------------------------------
(***************************************************************************)
(* ReloadableMmdb (src/mmdb/mmdb_reload.cpp): a private copy of the MMDB   *)
(* file is published to the reactor shards and replaced by a watcher       *)
(* thread when inotify reports a change of the file.                       *)
(*                                                                         *)
(* Processes: the owner (run_spoa_agent, which opens and closes the        *)
(* holder), the watcher thread, the readers (one per shard, handling one   *)
(* NOTIFY frame at a time) and the outside world, which changes the file.  *)
(*                                                                         *)
(* Every change of the file's bytes is a new version, a natural number.    *)
(* The bytes of a file or of a copy are the set of the versions they may   *)
(* mix: {v} is version v intact, {v, w} a torn mixture, {} no snapshot.    *)
(*                                                                         *)
(* The definitions OverflowIgnored, NotValidated, WatcherStartedFirst,     *)
(* GateLeftOpen, StopEventForgotten, WatcherNotJoined, FailureCounted,     *)
(* ChangedOverwritten and SnapshotPerArgument are not part of the          *)
(* specification: each is a plausible mistake in the definition that       *)
(* follows it, and some property below must fail with it.                  *)
(***************************************************************************)
EXTENDS Naturals, Sequences, FiniteSets

CONSTANTS
  Readers,   \* the reactor shards
  MaxOps,    \* bound: operations of the outside world on the directory
  MaxQueue   \* fs.inotify.max_queued_events

ASSUME MmdbReloadAssumption ==
  /\ MaxOps \in Nat
  /\ MaxQueue \in Nat \ {0}

VARIABLES
  file,         \* the directory entry MMDB_PATH: there?, its inode, its bytes
  valid,        \* the versions that are well-formed databases
  ops,          \* operations of the outside world so far; the last version
  writer,       \* what the outside world is in the middle of
  dir,          \* the watched directory is still at its path
  watching,     \* the inotify watch is installed
  queue,        \* the inotify event queue
  owner,        \* progress of open(), of the servers and of close()
  serving,      \* the SPOA servers handle frames
  stop,         \* the watcher's stop token
  stopEvent,    \* stop_event_ is readable
  watcher,      \* program counter of watch()
  changed,      \* watch()'s local of that name
  load,         \* the copy each loader is making: inode read, bytes so far
  missed,       \* the last reload failed for a reason other than the file
  current,      \* current_: the published bytes
  published,    \* number of stores of a snapshot into current_
  reload_count, \* reload_count_
  busy,         \* the readers in handle_notify()
  held,         \* the snapshot each reader holds
  used          \* the snapshots each reader looked addresses up in

world    == <<file, valid, ops, writer, dir>>
shutdown == <<stop, stopEvent>>
watch    == <<watcher, changed, missed, reload_count>>
register == <<current, published>>
frames   == <<busy, held, used>>

vars == <<world, watching, queue, owner, serving, shutdown, watch, load,
          register, frames>>

Loaders  == {"owner", "watcher"}
Event    == {"db", "other", "dir", "overflow"}
OverflowIgnored == {"db"}
Relevant == {"db", "overflow"}
Bytes    == SUBSET (0..MaxOps)

Init ==
  /\ \E exists \in BOOLEAN, v \in SUBSET {0} :
       /\ file = [there |-> exists, ino |-> 0, data |-> {0}]
       /\ valid = v
  /\ ops = 0 /\ writer = "idle" /\ dir = TRUE
  /\ watching = FALSE /\ queue = <<>>
  /\ owner = "new" /\ serving = FALSE
  /\ stop = FALSE /\ stopEvent = FALSE
  /\ watcher = "none" /\ changed = FALSE /\ missed = FALSE
  /\ load = [l \in Loaders |-> [ino |-> 0, data |-> {}]]
  /\ current = {} /\ published = 0 /\ reload_count = 0
  /\ busy = {}
  /\ held = [r \in Readers |-> {}]
  /\ used = [r \in Readers |-> {}]
-----------------------------------------------------------------------------
(***************************************************************************)
(* The kernel's event queue.  An event equal to the last one queued is     *)
(* merged with it; a full queue gets one overflow event and drops the rest.*)
(***************************************************************************)
Queued(e) == \E i \in 1..Len(queue) : queue[i] = e

Enqueue(e) ==
  IF ~watching THEN queue
  ELSE IF Len(queue) >= MaxQueue
    THEN IF Queued("overflow") THEN queue ELSE Append(queue, "overflow")
  ELSE IF queue # <<>> /\ queue[Len(queue)] = e THEN queue
  ELSE Append(queue, e)

(***************************************************************************)
(* The outside world: the refresh job or an operator replaces the file by  *)
(* rename(2), rewrites it in place, touches or deletes it, changes another *)
(* file of the directory, or moves the directory away.  One such operation *)
(* is in progress at a time.  A rename is visible before its event is      *)
(* queued; an in-place rewrite queues IN_CLOSE_WRITE when it is done.      *)
(***************************************************************************)
NewOp == writer = "idle" /\ dir /\ ops < MaxOps /\ ops' = ops + 1

RestOfWorld == <<watching, owner, serving, shutdown, watch, register, frames>>

Replace ==
  /\ NewOp
  /\ file' = [there |-> TRUE, ino |-> ops + 1, data |-> {ops + 1}]
  /\ valid' \in {valid, valid \cup {ops + 1}}
  /\ writer' = "renamed"
  /\ UNCHANGED <<dir, queue, load, RestOfWorld>>

NotifyReplace ==
  /\ writer = "renamed"
  /\ writer' = "idle"
  /\ queue' = Enqueue("db")
  /\ UNCHANGED <<file, valid, ops, dir, load, RestOfWorld>>

\* open() or reload() is copying the file.
Copying(l) ==
  \/ l = "owner" /\ owner = "copy"
  \/ l = "watcher" /\ watcher = "copy"

\* A loader that is reading the rewritten inode may copy old and new bytes.
RewriteBegin ==
  /\ NewOp
  /\ file.there
  /\ file' = [file EXCEPT !.data = @ \cup {ops + 1}]
  /\ load' = [l \in Loaders |->
                IF Copying(l) /\ load[l].ino = file.ino
                THEN [load[l] EXCEPT !.data = @ \cup {ops + 1}] ELSE load[l]]
  /\ writer' = "writing"
  /\ UNCHANGED <<valid, dir, queue, RestOfWorld>>

RewriteEnd ==
  /\ writer = "writing"
  /\ file' = [file EXCEPT !.data = {ops}]
  /\ valid' \in {valid, valid \cup {ops}}
  /\ writer' = "idle"
  /\ queue' = Enqueue("db")
  /\ UNCHANGED <<ops, dir, load, RestOfWorld>>

Touch ==
  /\ NewOp
  /\ file.there
  /\ queue' = Enqueue("db")
  /\ UNCHANGED <<file, valid, writer, dir, load, RestOfWorld>>

Delete ==
  /\ NewOp
  /\ file.there
  /\ file' = [file EXCEPT !.there = FALSE]
  /\ UNCHANGED <<valid, writer, dir, queue, load, RestOfWorld>>

OtherFile ==
  /\ NewOp
  /\ queue' = Enqueue("other")
  /\ UNCHANGED <<file, valid, writer, dir, load, RestOfWorld>>

DirectoryGone ==
  /\ NewOp
  /\ dir' = FALSE
  /\ file' = [file EXCEPT !.there = FALSE]
  /\ queue' = Enqueue("dir")
  /\ UNCHANGED <<valid, writer, load, RestOfWorld>>

World ==
  \/ Replace \/ NotifyReplace \/ RewriteBegin \/ RewriteEnd
  \/ Touch \/ Delete \/ OtherFile \/ DirectoryGone
-----------------------------------------------------------------------------
(***************************************************************************)
(* load_snapshot(): open the path, copy it, open the copy as an MMDB.  An  *)
(* intact copy is accepted exactly when it is well-formed; whether a torn  *)
(* one is accepted depends on its bytes.                                   *)
(***************************************************************************)
OpenSource(l) ==
  load' = [load EXCEPT ![l] = [ino |-> file.ino, data |-> file.data]]

NotValidated(data) == {TRUE}

Accepts(data) ==
  IF \E v \in data : data = {v} THEN {data \subseteq valid} ELSE BOOLEAN

(***************************************************************************)
(* The owner: open(), then the servers, then the shutdown sequence of      *)
(* run_spoa_agent, close() last.  The watch is installed before the first  *)
(* copy, the watcher starts after the first snapshot is published.         *)
(***************************************************************************)
OwnerFails ==
  /\ owner' = "failed" /\ watching' = FALSE /\ queue' = <<>>
  /\ UNCHANGED <<world, serving, shutdown, watch, load, register, frames>>

InstallWatch ==
  /\ owner = "new" /\ dir
  /\ owner' = "watch" /\ watching' = TRUE
  /\ UNCHANGED <<world, queue, serving, shutdown, watch, load, register,
                 frames>>

WatcherStartedFirst ==
  /\ owner = "watch" /\ file.there
  /\ OpenSource("owner")
  /\ owner' = "copy" /\ watcher' = "loop"
  /\ UNCHANGED <<world, watching, queue, serving, shutdown, changed, missed,
                 reload_count, register, frames>>

OpenInitial ==
  /\ owner = "watch" /\ file.there
  /\ OpenSource("owner")
  /\ owner' = "copy"
  /\ UNCHANGED <<world, watching, queue, serving, shutdown, watch, register,
                 frames>>

PublishInitial ==
  /\ owner = "copy" /\ TRUE \in Accepts(load["owner"].data)
  /\ current' = load["owner"].data /\ published' = published + 1
  /\ watcher' = "loop" /\ owner' = "open"
  /\ UNCHANGED <<world, watching, queue, serving, shutdown, changed, missed,
                 reload_count, load, frames>>

\* open() throws: no directory, no file, not a database, or no descriptors.
OpenFails == owner \in {"new", "watch", "copy"} /\ OwnerFails

StartServers ==
  /\ owner = "open"
  /\ owner' = "serving" /\ serving' = TRUE
  /\ UNCHANGED <<world, watching, queue, shutdown, watch, load, register,
                 frames>>

\* A signal arrived, or the servers failed to start.
BeginShutdown ==
  /\ owner \in {"open", "serving"}
  /\ owner' = "draining"
  /\ UNCHANGED <<world, watching, queue, serving, shutdown, watch, load,
                 register, frames>>

GateLeftOpen ==
  /\ owner = "draining"
  /\ owner' = "drained"
  /\ UNCHANGED <<world, watching, queue, serving, shutdown, watch, load,
                 register, frames>>

\* servers.stop() completes when no connection handles a frame any more.
StopServers ==
  /\ owner = "draining" /\ busy = {}
  /\ owner' = "drained" /\ serving' = FALSE
  /\ UNCHANGED <<world, watching, queue, shutdown, watch, load, register,
                 frames>>

RequestStop ==
  /\ owner = "drained"
  /\ owner' = "stopping" /\ stop' = TRUE
  /\ UNCHANGED <<world, watching, queue, serving, stopEvent, watch, load,
                 register, frames>>

StopEventForgotten ==
  /\ owner = "stopping"
  /\ owner' = "signalled"
  /\ UNCHANGED <<world, watching, queue, serving, shutdown, watch, load,
                 register, frames>>

SignalStop ==
  /\ owner = "stopping"
  /\ owner' = "signalled" /\ stopEvent' = TRUE
  /\ UNCHANGED <<world, watching, queue, serving, stop, watch, load, register,
                 frames>>

WatcherNotJoined ==
  /\ owner = "signalled"
  /\ owner' = "closed" /\ current' = {}
  /\ watching' = FALSE /\ queue' = <<>> /\ stopEvent' = FALSE
  /\ UNCHANGED <<world, serving, stop, watch, load, published, frames>>

JoinAndRelease ==
  /\ owner = "signalled" /\ watcher = "exited"
  /\ owner' = "closed" /\ current' = {}
  /\ watching' = FALSE /\ queue' = <<>> /\ stopEvent' = FALSE
  /\ UNCHANGED <<world, serving, stop, watch, load, published, frames>>

Closing == RequestStop \/ SignalStop \/ JoinAndRelease

Owner ==
  \/ InstallWatch \/ OpenInitial \/ PublishInitial \/ OpenFails
  \/ StartServers \/ BeginShutdown \/ StopServers \/ Closing
-----------------------------------------------------------------------------
(***************************************************************************)
(* The watcher thread.                                                     *)
(***************************************************************************)
RestOfWatch == <<world, watching, owner, serving, shutdown, frames>>

WatchLoop ==
  /\ watcher = "loop"
  /\ watcher' = IF stop THEN "exited" ELSE "poll"
  /\ UNCHANGED <<queue, changed, missed, reload_count, load, register,
                 RestOfWatch>>

WatchPoll ==
  /\ watcher = "poll" /\ (queue # <<>> \/ stopEvent)
  /\ watcher' = IF stopEvent \/ stop THEN "exited" ELSE "drain"
  /\ changed' = FALSE
  /\ UNCHANGED <<queue, missed, reload_count, load, register, RestOfWatch>>

ChangedOverwritten ==
  /\ watcher = "drain" /\ queue # <<>>
  /\ \E k \in 1..Len(queue) :
       /\ queue' = SubSeq(queue, k + 1, Len(queue))
       /\ watcher' = IF stop \/ \E i \in 1..k : queue[i] = "dir"
                     THEN "exited" ELSE "drain"
       /\ changed' = \E i \in 1..k : queue[i] \in Relevant
  /\ UNCHANGED <<missed, reload_count, load, register, RestOfWatch>>

\* One read(2) returns as many events as fit the buffer.
WatchRead ==
  /\ watcher = "drain" /\ queue # <<>>
  /\ \E k \in 1..Len(queue) :
       /\ queue' = SubSeq(queue, k + 1, Len(queue))
       /\ watcher' = IF stop \/ \E i \in 1..k : queue[i] = "dir"
                     THEN "exited" ELSE "drain"
       /\ changed' = (changed \/ \E i \in 1..k : queue[i] \in Relevant)
  /\ UNCHANGED <<missed, reload_count, load, register, RestOfWatch>>

WatchDrained ==
  /\ watcher = "drain" /\ queue = <<>>
  /\ watcher' = IF changed /\ ~stop THEN "load" ELSE "loop"
  /\ UNCHANGED <<queue, changed, missed, reload_count, load, register,
                 RestOfWatch>>

WatchOpen ==
  /\ watcher = "load" /\ file.there
  /\ OpenSource("watcher")
  /\ watcher' = "copy"
  /\ UNCHANGED <<queue, changed, missed, reload_count, register, RestOfWatch>>

WatchCopied ==
  /\ watcher = "copy" /\ TRUE \in Accepts(load["watcher"].data)
  /\ watcher' = "publish"
  /\ UNCHANGED <<queue, changed, missed, reload_count, load, register,
                 RestOfWatch>>

WatchPublish ==
  /\ watcher = "publish"
  /\ current' = load["watcher"].data /\ published' = published + 1
  /\ missed' = FALSE
  /\ watcher' = "count"
  /\ UNCHANGED <<queue, changed, reload_count, load, RestOfWatch>>

WatchCount ==
  /\ watcher = "count"
  /\ reload_count' = reload_count + 1
  /\ watcher' = "loop"
  /\ UNCHANGED <<queue, changed, missed, load, register, RestOfWatch>>

FailureCounted ==
  /\ watcher' = "loop"
  /\ reload_count' = reload_count + 1
  /\ UNCHANGED <<queue, changed, load, register, RestOfWatch>>

\* reload() catches the error and keeps the previous snapshot.
KeepPrevious ==
  /\ watcher' = "loop"
  /\ UNCHANGED <<queue, changed, reload_count, load, register, RestOfWatch>>

WatchNoDatabase ==
  /\ \/ watcher = "load" /\ ~file.there
     \/ watcher = "copy" /\ FALSE \in Accepts(load["watcher"].data)
  /\ KeepPrevious /\ UNCHANGED missed

\* No descriptor, no temporary file, no space: the event is not read again.
WatchLoadError ==
  /\ watcher \in {"load", "copy"}
  /\ KeepPrevious /\ missed' = TRUE

\* poll(2) or read(2) fails: hot reload stops.
WatchError ==
  /\ watcher \in {"poll", "drain"}
  /\ watcher' = "exited"
  /\ UNCHANGED <<queue, changed, missed, reload_count, load, register,
                 RestOfWatch>>

WatcherStep ==
  \/ WatchLoop \/ WatchPoll \/ WatchRead \/ WatchDrained \/ WatchOpen
  \/ WatchCopied \/ WatchPublish \/ WatchCount \/ WatchNoDatabase

Watcher == WatcherStep \/ WatchLoadError \/ WatchError
-----------------------------------------------------------------------------
(***************************************************************************)
(* A reader takes one snapshot per NOTIFY frame and evaluates every        *)
(* argument of the frame against it.                                       *)
(***************************************************************************)
RestOfFrame ==
  <<world, watching, queue, owner, serving, shutdown, watch, load, register>>

BeginFrame(r) ==
  /\ serving /\ r \notin busy
  /\ busy' = busy \cup {r}
  /\ held' = [held EXCEPT ![r] = current]
  /\ used' = [used EXCEPT ![r] = {}]
  /\ UNCHANGED RestOfFrame

SnapshotPerArgument(r) ==
  /\ r \in busy
  /\ used' = [used EXCEPT ![r] = @ \cup {current}]
  /\ UNCHANGED <<busy, held, RestOfFrame>>

EvaluateArgument(r) ==
  /\ r \in busy
  /\ used' = [used EXCEPT ![r] = @ \cup {held[r]}]
  /\ UNCHANGED <<busy, held, RestOfFrame>>

EndFrame(r) ==
  /\ r \in busy
  /\ busy' = busy \ {r}
  /\ held' = [held EXCEPT ![r] = {}]
  /\ used' = [used EXCEPT ![r] = {}]
  /\ UNCHANGED RestOfFrame

Reader(r) == BeginFrame(r) \/ EvaluateArgument(r) \/ EndFrame(r)

\* The agent has shut down.
Done == owner \in {"closed", "failed"} /\ UNCHANGED vars

Next == World \/ Owner \/ Watcher \/ (\E r \in Readers : Reader(r)) \/ Done

Spec == Init /\ [][Next]_vars

(***************************************************************************)
(* The kernel finishes a rename it began, the watcher thread and, once     *)
(* close() has been called, its caller keep running.  Nothing is assumed   *)
(* of signals, of frames or of programs that rewrite the file.             *)
(***************************************************************************)
Fairness == WF_vars(NotifyReplace) /\ WF_vars(WatcherStep) /\ WF_vars(Closing)

FairSpec == Spec /\ Fairness
-----------------------------------------------------------------------------
Phases == {"new", "watch", "copy", "open", "serving", "draining", "drained",
           "stopping", "signalled", "closed", "failed"}

WatcherPcs == {"none", "loop", "poll", "drain", "load", "copy", "publish",
               "count", "exited"}

(***************************************************************************)
(* Type invariant.  The queue never exceeds its limit by more than the     *)
(* overflow event.                                                         *)
(***************************************************************************)
TypeOK ==
  /\ file \in [there : BOOLEAN, ino : 0..MaxOps, data : Bytes]
  /\ valid \in Bytes
  /\ ops \in 0..MaxOps
  /\ writer \in {"idle", "renamed", "writing"}
  /\ dir \in BOOLEAN /\ watching \in BOOLEAN /\ serving \in BOOLEAN
  /\ queue \in Seq(Event) /\ Len(queue) <= MaxQueue + 1
  /\ owner \in Phases
  /\ stop \in BOOLEAN /\ stopEvent \in BOOLEAN
  /\ watcher \in WatcherPcs
  /\ changed \in BOOLEAN /\ missed \in BOOLEAN
  /\ load \in [Loaders -> [ino : 0..MaxOps, data : Bytes]]
  /\ current \in Bytes /\ published \in Nat /\ reload_count \in Nat
  /\ busy \subseteq Readers
  /\ held \in [Readers -> Bytes]
  /\ used \in [Readers -> SUBSET Bytes]

(***************************************************************************)
(* No update is lost: when the watcher has gone back to sleep with nothing *)
(* left to read and no change of the file is under way, the published      *)
(* snapshot is the file's latest well-formed content, whatever changed     *)
(* during the copies of open() and reload() or while the event queue       *)
(* overflowed (mmdb_reload.cpp:95-111 and 159-197).  The exception is a    *)
(* reload that failed for want of resources, which is not retried.         *)
(***************************************************************************)
Readable == file.there /\ file.data \subseteq valid

NoLostUpdate ==
  (watcher = "poll" /\ queue = <<>> /\ writer = "idle" /\ Readable /\ ~missed)
    => current = file.data

(***************************************************************************)
(* A snapshot replaces an older one: the published content never goes back *)
(* to an earlier version, although two threads publish (open() at :106,    *)
(* reload() at :130).                                                      *)
(***************************************************************************)
NeverOlder ==
  [][current' # {} =>
       \A old \in current : \E new \in current' : old <= new]_current

(***************************************************************************)
(* A file that is not a database is never published: the copy is opened    *)
(* before it is stored, and a failure keeps the previous one (:126-139).   *)
(***************************************************************************)
OnlyDatabases == \A v \in 0..MaxOps : current = {v} => v \in valid

(***************************************************************************)
(* All arguments of a frame are evaluated against the same snapshot, even  *)
(* if the watcher publishes another meanwhile (spoa_agent.cpp:142-153).    *)
(***************************************************************************)
OneDatabasePerFrame == \A r \in Readers : Cardinality(used[r]) <= 1

(***************************************************************************)
(* No frame is evaluated without a database (which would accept every      *)
(* address, spoa_agent.cpp:78-81): the servers start after open() and the  *)
(* snapshot is released after they have drained (main.cpp:161-209).        *)
(***************************************************************************)
FramesHaveDatabase == \A r \in busy : held[r] # {}

(***************************************************************************)
(* Who sees reload_count() advance then finds the reloaded snapshot: each  *)
(* count follows its store, and failed reloads are not counted (:130-131). *)
(***************************************************************************)
CountFollowsStore ==
  published > 0 => /\ reload_count < published
                   /\ published <= reload_count + 2
                   /\ watcher # "count" => published = reload_count + 1

(***************************************************************************)
(* A readable change is eventually published, or superseded, unless the    *)
(* watcher stops or the load runs out of resources.                        *)
(***************************************************************************)
Stale == serving /\ watcher # "exited" /\ Readable /\ writer # "writing"
           /\ ~missed /\ current # file.data

EventuallyFresh == Stale ~> ~Stale

(***************************************************************************)
(* close() returns: the watcher, wherever it is, notices the stop request  *)
(* and is joined (:114-124).                                               *)
(***************************************************************************)
CloseTerminates == (owner = "stopping") ~> (owner = "closed")

(***************************************************************************)
(* ReloadableMmdb implements the register of SnapshotRegister: whatever    *)
(* the two publishing threads, the readers and the owner do, a reader sees *)
(* one snapshot per frame, the register only moves forward, is never read  *)
(* before open() or after close(), and is released only when no frame is   *)
(* being handled (mmdb_reload.cpp:75-112 and 126-139, main.cpp:161-209).   *)
(***************************************************************************)
RegisterPhase ==
  IF owner = "closed" THEN "closed"
  ELSE IF current = {} THEN "new" ELSE "open"

Register == INSTANCE SnapshotRegister WITH
  phase <- RegisterPhase, value <- current, reading <- busy,
  snapshot <- held, consulted <- used

ImplementsRegister == Register!Spec
=============================================================================
