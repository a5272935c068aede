--------------------------- MODULE MmdbReloadProofs ---------------------------
(***************************************************************************)
(* Proofs about MmdbReload, for every set of readers, every bound on the   *)
(* operations of the outside world and every length of the event queue:    *)
(* what the watcher may never lose, what the frames and the callers of     *)
(* reload_count() may rely on, and that ReloadableMmdb implements the      *)
(* register of SnapshotRegister.                                           *)
(***************************************************************************)
EXTENDS MmdbReload, FiniteSetTheorems, TLAPS

\* The watcher thread runs.
Alive == watcher \notin {"none", "exited"}

\* A change the watcher does not know of yet is in its queue or on the way.
Noticed == writer # "idle" \/ \E i \in 1..Len(queue) : queue[i] \in Relevant

\* A queue longer than its limit ends with the overflow event.
QueueInv == Len(queue) > MaxQueue => Queued("overflow")

\* Which phases of the owner have a watch and a watcher.
PhaseInv ==
  /\ owner \in {"new", "watch", "copy", "failed"} => watcher = "none"
  /\ owner = "closed" => watcher = "exited"
  /\ owner \in Phases \ {"new", "closed", "failed"} => watching

\* The file is torn only while it is rewritten in place.
IntactInv == writer # "writing" => \E v \in 0..MaxOps : file.data = {v}

\* The bytes a loader reads are the file's, or a change is noticed.
LoadInv ==
  /\ owner = "copy" => load["owner"].data = file.data \/ Noticed
  /\ watcher \in {"copy", "publish"}
       => load["watcher"].data = file.data \/ Noticed

\* A stale snapshot is about to be noticed or replaced.
FreshInv ==
  (Alive /\ (stop => watcher = "poll") /\ Readable /\ ~missed
     /\ current # file.data)
    => \/ Noticed
       \/ watcher = "drain" /\ changed
       \/ watcher \in {"load", "copy", "publish"}
-----------------------------------------------------------------------------
(***************************************************************************)
(* The event queue: queueing an event keeps the queue within its limit and *)
(* the overflow event, keeps every relevant event, and queueing a database *)
(* event leaves a relevant one.                                            *)
(***************************************************************************)
LEMMA EnqueueType ==
  ASSUME TypeOK, QueueInv, NEW e \in Event
  PROVE  /\ Enqueue(e) \in Seq(Event)
         /\ Len(Enqueue(e)) <= MaxQueue + 1
         /\ Len(Enqueue(e)) > MaxQueue
              => \E i \in 1..Len(Enqueue(e)) : Enqueue(e)[i] = "overflow"
<1> USE MmdbReloadAssumption
<1>1. queue \in Seq(Event) /\ Len(queue) \in Nat /\ Len(queue) <= MaxQueue + 1
  BY DEF TypeOK
<1>2. "overflow" \in Event
  BY DEF Event
<1>3. CASE ~watching \/ (Len(queue) >= MaxQueue /\ Queued("overflow"))
  <2>1. Enqueue(e) = queue
    BY <1>3 DEF Enqueue
  <2> QED BY <2>1, <1>1 DEF QueueInv, Queued
<1>4. CASE watching /\ Len(queue) >= MaxQueue /\ ~Queued("overflow")
  <2>1. Enqueue(e) = Append(queue, "overflow")
    BY <1>4 DEF Enqueue
  <2>2. Len(queue) <= MaxQueue
    BY <1>4, <1>1 DEF QueueInv
  <2>3. /\ Append(queue, "overflow") \in Seq(Event)
        /\ Len(Append(queue, "overflow")) = Len(queue) + 1
        /\ Append(queue, "overflow")[Len(queue) + 1] = "overflow"
    BY <1>1, <1>2
  <2> QED BY <2>1, <2>2, <2>3, <1>1
<1>5. CASE watching /\ ~(Len(queue) >= MaxQueue)
  <2>1. Enqueue(e) = queue \/ Enqueue(e) = Append(queue, e)
    BY <1>5 DEF Enqueue
  <2>2. Append(queue, e) \in Seq(Event) /\ Len(Append(queue, e)) = Len(queue) + 1
    BY <1>1
  <2> QED BY <2>1, <2>2, <1>1, <1>5
<1> QED BY <1>3, <1>4, <1>5

\* An event leaves the events before it where they are.
LEMMA EnqueueKeeps ==
  ASSUME TypeOK, NEW e \in Event
  PROVE  /\ Len(queue) <= Len(Enqueue(e))
         /\ \A i \in 1..Len(queue) : Enqueue(e)[i] = queue[i]
<1>1. queue \in Seq(Event) /\ Len(queue) \in Nat
  BY DEF TypeOK
<1>2. \/ Enqueue(e) = queue
      \/ Enqueue(e) = Append(queue, e)
      \/ Enqueue(e) = Append(queue, "overflow")
  BY DEF Enqueue
<1>3. \A x \in Event : /\ Len(Append(queue, x)) = Len(queue) + 1
                       /\ \A i \in 1..Len(queue) : Append(queue, x)[i] = queue[i]
  BY <1>1
<1>4. "overflow" \in Event
  BY DEF Event
<1> QED BY <1>1, <1>2, <1>3, <1>4

\* An event of the file is in the queue, or the overflow event is.
LEMMA EnqueueNotices ==
  ASSUME TypeOK, watching
  PROVE  \E i \in 1..Len(Enqueue("db")) : Enqueue("db")[i] \in Relevant
<1> USE MmdbReloadAssumption DEF Relevant
<1>1. queue \in Seq(Event) /\ Len(queue) \in Nat
  BY DEF TypeOK
<1>2. "db" \in Event /\ "overflow" \in Event
  BY DEF Event
<1>3. \A x \in Event : /\ Len(Append(queue, x)) = Len(queue) + 1
                       /\ Append(queue, x)[Len(queue) + 1] = x
  BY <1>1
<1>4. CASE Enqueue("db") = Append(queue, "db")
  BY <1>4, <1>1, <1>2, <1>3
<1>5. CASE Enqueue("db") = Append(queue, "overflow")
  BY <1>5, <1>1, <1>2, <1>3
<1>6. CASE Enqueue("db") = queue /\ Queued("overflow")
  BY <1>6 DEF Queued
<1>7. CASE Enqueue("db") = queue /\ queue # <<>> /\ queue[Len(queue)] = "db"
  <2>1. Len(queue) \in 1..Len(queue)
    BY <1>7, <1>1
  <2> QED BY <2>1, <1>7
<1> QED BY <1>4, <1>5, <1>6, <1>7 DEF Enqueue
-----------------------------------------------------------------------------
(***************************************************************************)
(* Every action preserves the types and the limit of the queue.            *)
(***************************************************************************)
TypeInv == TypeOK /\ QueueInv

\* The types hold at the start.
LEMMA InitType == Init => TypeInv
<1> SUFFICES ASSUME Init PROVE TypeInv
  OBVIOUS
<1> USE MmdbReloadAssumption DEF Init
<1>1. file \in [there : BOOLEAN, ino : 0..MaxOps, data : Bytes] /\ valid \in Bytes
  BY DEF Bytes
<1>2. dir \in BOOLEAN /\ watching \in BOOLEAN /\ serving \in BOOLEAN
        /\ stop \in BOOLEAN /\ stopEvent \in BOOLEAN
        /\ changed \in BOOLEAN /\ missed \in BOOLEAN
  OBVIOUS
<1>3. queue \in Seq(Event) /\ Len(queue) <= MaxQueue + 1 /\ QueueInv
  BY DEF QueueInv
<1>4. load \in [Loaders -> [ino : 0..MaxOps, data : Bytes]]
  BY DEF Bytes
<1>5. current \in Bytes /\ held \in [Readers -> Bytes]
        /\ used \in [Readers -> SUBSET Bytes]
  BY DEF Bytes
<1>6. ops \in 0..MaxOps /\ writer = "idle" /\ owner = "new" /\ watcher = "none"
        /\ published \in Nat /\ reload_count \in Nat /\ busy \subseteq Readers
  OBVIOUS
<1> HIDE DEF Init
<1> QED BY <1>1, <1>2, <1>3, <1>4, <1>5, <1>6
        DEF TypeInv, TypeOK, Phases, WatcherPcs

\* Steps of the outside world keep them.
LEMMA WorldType ==
  ASSUME TypeInv, World
  PROVE  TypeInv'
<1> USE MmdbReloadAssumption
        DEF TypeInv, NewOp, RestOfWorld, shutdown, watch, register, frames
<1>1. TypeOK /\ QueueInv
  OBVIOUS
<1>2. ASSUME NEW e \in Event, queue' = Enqueue(e)
      PROVE  queue' \in Seq(Event) /\ Len(queue') <= MaxQueue + 1 /\ QueueInv'
  BY <1>1, <1>2, EnqueueType DEF QueueInv, Queued
<1>3. {"db", "other", "dir"} \subseteq Event
  BY DEF Event
<1>4. CASE Replace
  BY <1>4, <1>1 DEF Replace, TypeOK, QueueInv, Queued, Bytes
<1>5. CASE NotifyReplace
  BY <1>5, <1>1, <1>2, <1>3 DEF NotifyReplace, TypeOK
<1>6. CASE RewriteBegin
  <2>1. load' \in [Loaders -> [ino : 0..MaxOps, data : Bytes]]
    <3>1. ops + 1 \in 0..MaxOps
      BY <1>6, <1>1 DEF RewriteBegin, TypeOK
    <3>2. \A l \in Loaders :
            /\ load[l] \in [ino : 0..MaxOps, data : Bytes]
            /\ [load[l] EXCEPT !.data = @ \cup {ops + 1}]
                 \in [ino : 0..MaxOps, data : Bytes]
      BY <1>1, <3>1 DEF TypeOK, Bytes
    <3> QED BY <1>6, <3>2 DEF RewriteBegin
  <2>2. file' \in [there : BOOLEAN, ino : 0..MaxOps, data : Bytes]
    <3>1. ops + 1 \in 0..MaxOps
      BY <1>6, <1>1 DEF RewriteBegin, TypeOK
    <3>2. file.data \cup {ops + 1} \in Bytes
      BY <1>1, <3>1 DEF TypeOK, Bytes
    <3>3. file' = [file EXCEPT !.data = file.data \cup {ops + 1}]
      BY <1>6 DEF RewriteBegin
    <3> QED BY <1>1, <3>2, <3>3 DEF TypeOK
  <2> QED BY <1>6, <1>1, <2>1, <2>2 DEF RewriteBegin, TypeOK, QueueInv, Queued
<1>7. CASE RewriteEnd
  <2>1. valid' \in Bytes /\ file' \in [there : BOOLEAN, ino : 0..MaxOps, data : Bytes]
    BY <1>7, <1>1 DEF RewriteEnd, TypeOK, Bytes
  <2> QED BY <1>7, <1>1, <1>2, <1>3, <2>1 DEF RewriteEnd, TypeOK
<1>8. CASE Touch
  BY <1>8, <1>1, <1>2, <1>3 DEF Touch, TypeOK
<1>9. CASE Delete
  <2>1. file' \in [there : BOOLEAN, ino : 0..MaxOps, data : Bytes]
    BY <1>9, <1>1 DEF Delete, TypeOK
  <2>2. QueueInv'
    BY <1>9, <1>1 DEF Delete, QueueInv, Queued
  <2> QED BY <1>9, <1>1, <2>1, <2>2 DEF Delete, TypeOK
<1>10. CASE OtherFile
  BY <1>10, <1>1, <1>2, <1>3 DEF OtherFile, TypeOK
<1>11. CASE DirectoryGone
  <2>1. file' \in [there : BOOLEAN, ino : 0..MaxOps, data : Bytes]
    BY <1>11, <1>1 DEF DirectoryGone, TypeOK
  <2>2. dir' \in BOOLEAN
    BY <1>11 DEF DirectoryGone
  <2> QED BY <1>11, <1>1, <1>2, <1>3, <2>1, <2>2 DEF DirectoryGone, TypeOK
<1> QED BY <1>4, <1>5, <1>6, <1>7, <1>8, <1>9, <1>10, <1>11 DEF World

\* Steps of open() and close() keep them.
LEMMA OwnerType ==
  ASSUME TypeInv, Owner
  PROVE  TypeInv'
<1> USE MmdbReloadAssumption
        DEF TypeInv, Phases, WatcherPcs, world, shutdown, watch, register,
            frames
<1>1. TypeOK /\ QueueInv
  OBVIOUS
<1>2. CASE InstallWatch
  BY <1>2, <1>1 DEF InstallWatch, TypeOK, QueueInv, Queued
<1>3. CASE OpenInitial
  <2>1. load' \in [Loaders -> [ino : 0..MaxOps, data : Bytes]]
    BY <1>3, <1>1 DEF OpenInitial, OpenSource, TypeOK, Loaders
  <2> QED BY <1>3, <1>1, <2>1 DEF OpenInitial, TypeOK, QueueInv, Queued
<1>4. CASE PublishInitial
  <2>1. load["owner"].data \in Bytes
    BY <1>1 DEF TypeOK, Loaders
  <2> QED BY <1>4, <1>1, <2>1 DEF PublishInitial, TypeOK, QueueInv, Queued
<1>5. CASE OpenFails
  <2>1. watching' \in BOOLEAN
    BY <1>5 DEF OpenFails, OwnerFails
  <2>2. queue' \in Seq(Event) /\ Len(queue') <= MaxQueue + 1 /\ QueueInv'
    BY <1>5 DEF OpenFails, OwnerFails, QueueInv
  <2> QED BY <1>5, <1>1, <2>1, <2>2 DEF OpenFails, OwnerFails, TypeOK
<1>6. CASE StartServers
  BY <1>6, <1>1 DEF StartServers, TypeOK, QueueInv, Queued
<1>7. CASE BeginShutdown
  BY <1>7, <1>1 DEF BeginShutdown, TypeOK, QueueInv, Queued
<1>8. CASE StopServers
  <2>1. serving' \in BOOLEAN
    BY <1>8 DEF StopServers
  <2>2. QueueInv'
    BY <1>8, <1>1 DEF StopServers, QueueInv, Queued
  <2> QED BY <1>8, <1>1, <2>1, <2>2 DEF StopServers, TypeOK
<1>9. CASE RequestStop
  BY <1>9, <1>1 DEF RequestStop, TypeOK, QueueInv, Queued
<1>10. CASE SignalStop
  BY <1>10, <1>1 DEF SignalStop, TypeOK, QueueInv, Queued
<1>11. CASE JoinAndRelease
  <2>1. watching' \in BOOLEAN /\ stopEvent' \in BOOLEAN
    BY <1>11 DEF JoinAndRelease
  <2>2. queue' \in Seq(Event) /\ Len(queue') <= MaxQueue + 1 /\ QueueInv'
    BY <1>11 DEF JoinAndRelease, QueueInv
  <2>3. current' \in Bytes
    BY <1>11 DEF JoinAndRelease, Bytes
  <2> QED BY <1>11, <1>1, <2>1, <2>2, <2>3 DEF JoinAndRelease, TypeOK
<1> QED BY <1>2, <1>3, <1>4, <1>5, <1>6, <1>7, <1>8, <1>9, <1>10, <1>11
        DEF Owner, Closing

\* Steps of the watcher keep them.
LEMMA WatcherType ==
  ASSUME TypeInv, Watcher
  PROVE  TypeInv'
<1> USE MmdbReloadAssumption
        DEF TypeInv, WatcherPcs, RestOfWatch, world, shutdown, register, frames
<1>1. TypeOK /\ QueueInv
  OBVIOUS
<1>2. CASE WatchLoop
  BY <1>2, <1>1 DEF WatchLoop, TypeOK, QueueInv, Queued
<1>3. CASE WatchPoll
  <2>1. changed' \in BOOLEAN
    BY <1>3 DEF WatchPoll
  <2>2. QueueInv'
    BY <1>3, <1>1 DEF WatchPoll, QueueInv, Queued
  <2> QED BY <1>3, <1>1, <2>1, <2>2 DEF WatchPoll, TypeOK
<1>4. CASE WatchRead
  <2>1. PICK k \in 1..Len(queue) :
          /\ queue' = SubSeq(queue, k + 1, Len(queue))
          /\ watcher' = IF stop \/ \E i \in 1..k : queue[i] = "dir"
                        THEN "exited" ELSE "drain"
          /\ changed' = (changed \/ \E i \in 1..k : queue[i] \in Relevant)
    BY <1>4 DEF WatchRead
  <2>2. queue \in Seq(Event) /\ Len(queue) \in Nat /\ Len(queue) <= MaxQueue + 1
    BY <1>1 DEF TypeOK
  <2>3. queue' \in Seq(Event) /\ Len(queue') = Len(queue) - k
    BY <2>1, <2>2
  <2>4. Len(queue') <= MaxQueue /\ QueueInv'
    BY <2>2, <2>3 DEF QueueInv
  <2>5. changed' \in BOOLEAN
    BY <2>1, <1>1 DEF TypeOK
  <2>6. watcher' \in WatcherPcs
    BY <2>1
  <2> QED BY <1>4, <1>1, <2>3, <2>4, <2>5, <2>6 DEF WatchRead, TypeOK
<1>5. CASE WatchDrained
  BY <1>5, <1>1 DEF WatchDrained, TypeOK, QueueInv, Queued
<1>6. CASE WatchOpen
  <2>1. load' \in [Loaders -> [ino : 0..MaxOps, data : Bytes]]
    BY <1>6, <1>1 DEF WatchOpen, OpenSource, TypeOK, Loaders
  <2> QED BY <1>6, <1>1, <2>1 DEF WatchOpen, TypeOK, QueueInv, Queued
<1>7. CASE WatchCopied
  BY <1>7, <1>1 DEF WatchCopied, TypeOK, QueueInv, Queued
<1>8. CASE WatchPublish
  <2>1. load["watcher"].data \in Bytes
    BY <1>1 DEF TypeOK, Loaders
  <2>2. missed' \in BOOLEAN
    BY <1>8 DEF WatchPublish
  <2>3. QueueInv'
    BY <1>8, <1>1 DEF WatchPublish, QueueInv, Queued
  <2> QED BY <1>8, <1>1, <2>1, <2>2, <2>3 DEF WatchPublish, TypeOK
<1>9. CASE WatchCount
  BY <1>9, <1>1 DEF WatchCount, TypeOK, QueueInv, Queued
<1>10. CASE WatchNoDatabase
  BY <1>10, <1>1 DEF WatchNoDatabase, KeepPrevious, TypeOK, QueueInv, Queued
<1>11. CASE WatchLoadError
  BY <1>11, <1>1 DEF WatchLoadError, KeepPrevious, TypeOK, QueueInv, Queued
<1>12. CASE WatchError
  BY <1>12, <1>1 DEF WatchError, TypeOK, QueueInv, Queued
<1> QED BY <1>2, <1>3, <1>4, <1>5, <1>6, <1>7, <1>8, <1>9, <1>10, <1>11,
           <1>12 DEF Watcher, WatcherStep

\* Steps of a frame keep them.
LEMMA ReaderType ==
  ASSUME TypeInv, NEW r \in Readers, Reader(r)
  PROVE  TypeInv'
<1> USE DEF TypeInv, RestOfFrame, world, shutdown, watch, register
<1>1. TypeOK /\ QueueInv
  OBVIOUS
<1>2. CASE BeginFrame(r)
  BY <1>2, <1>1 DEF BeginFrame, TypeOK, QueueInv, Queued
<1>3. CASE EvaluateArgument(r)
  BY <1>3, <1>1 DEF EvaluateArgument, TypeOK, QueueInv, Queued
<1>4. CASE EndFrame(r)
  <2>1. {} \in Bytes
    BY DEF Bytes
  <2> QED BY <1>4, <1>1, <2>1 DEF EndFrame, TypeOK, QueueInv, Queued
<1> QED BY <1>2, <1>3, <1>4 DEF Reader

\* Steps that change nothing keep them.
LEMMA StutterType == ASSUME TypeInv, UNCHANGED vars PROVE TypeInv'
BY DEF TypeInv, TypeOK, QueueInv, Queued, vars, world, shutdown, watch,
       register, frames

\* Every step keeps them.
LEMMA NextType == ASSUME TypeInv, [Next]_vars PROVE TypeInv'
BY WorldType, OwnerType, WatcherType, ReaderType, StutterType DEF Next, Done

(***************************************************************************)
(* Every behaviour of the holder is well-typed, and the event queue keeps  *)
(* its limit whatever the outside world does.                              *)
(***************************************************************************)
THEOREM TypeCorrect == Spec => []TypeOK
<1>1. Init => TypeInv
  BY InitType
<1>2. TypeInv /\ [Next]_vars => TypeInv'
  BY NextType
<1>3. TypeInv => TypeOK
  BY DEF TypeInv
<1> QED BY <1>1, <1>2, <1>3, PTL DEF Spec
-----------------------------------------------------------------------------
(***************************************************************************)
(* No update is lost.  NoLostUpdate is not inductive: FreshInv says for    *)
(* every step of the watcher why a stale snapshot will be replaced, and    *)
(* LoadInv that a copy in progress is the file's content unless a change   *)
(* is noticed.  PhaseInv and IntactInv supply what these rest on: events   *)
(* are queued whenever a loader or the watcher is at work, and only an     *)
(* in-place rewrite tears the file.                                        *)
(***************************************************************************)
SafeInv == PhaseInv /\ IntactInv /\ LoadInv /\ FreshInv

\* A noticed change stays noticed while nothing is read from the queue.
LEMMA NoticedKept ==
  ASSUME TypeOK, Noticed, NEW e \in Event, queue' = Enqueue(e),
         writer' = writer
  PROVE  Noticed'
<1>1. CASE writer # "idle"
  BY <1>1 DEF Noticed
<1>2. ASSUME NEW i \in 1..Len(queue), queue[i] \in Relevant
      PROVE  Noticed'
  <2>1. Len(queue) \in Nat /\ Len(queue) <= Len(queue') /\ queue'[i] = queue[i]
    BY EnqueueKeeps, <1>2 DEF TypeOK
  <2>2. Len(queue') \in Nat
    BY <2>1, EnqueueKeeps DEF Enqueue, TypeOK, Event
  <2>3. i \in 1..Len(queue')
    BY <2>1, <2>2
  <2> QED BY <1>2, <2>1, <2>3 DEF Noticed
<1> QED BY <1>1, <1>2 DEF Noticed

\* A database event is noticed if the watch is installed.
LEMMA DatabaseEventNoticed ==
  ASSUME TypeOK, watching, queue' = Enqueue("db")
  PROVE  Noticed'
BY EnqueueNotices DEF Noticed

\* A watch is installed whenever somebody relies on its events.
LEMMA WatchInstalled ==
  ASSUME TypeOK, PhaseInv, Alive \/ owner = "copy"
  PROVE  watching
BY DEF TypeOK, PhaseInv, Alive, Phases

\* Steps of the outside world: a change is in the queue before it can be missed.
LEMMA WorldSafe ==
  ASSUME TypeInv, SafeInv, World
  PROVE  SafeInv'
<1> USE DEF RestOfWorld, shutdown, watch, register, frames
<1>1. TypeOK /\ PhaseInv /\ IntactInv /\ LoadInv /\ FreshInv
  BY DEF TypeInv, SafeInv
<1>2. /\ owner' = owner /\ watcher' = watcher /\ watching' = watching
      /\ stop' = stop /\ changed' = changed /\ missed' = missed
      /\ current' = current
  BY DEF World, Replace, NotifyReplace, RewriteBegin, RewriteEnd, Touch,
         Delete, OtherFile, DirectoryGone
<1>3. PhaseInv'
  BY <1>1, <1>2 DEF PhaseInv
<1>4. ASSUME Noticed', IntactInv'
      PROVE  SafeInv'
  BY <1>3, <1>4 DEF SafeInv, LoadInv, FreshInv
\* An operation that queues an event and changes neither bytes nor copies.
<1>5. ASSUME NEW e \in Event, queue' = Enqueue(e), writer' = writer,
             load' = load, file'.data = file.data, Readable' => Readable
      PROVE  SafeInv'
  <2>1. Noticed => Noticed'
    BY <1>1, <1>5, NoticedKept
  <2>2. IntactInv'
    BY <1>1, <1>5 DEF IntactInv
  <2>3. LoadInv'
    BY <1>1, <1>2, <1>5, <2>1 DEF LoadInv
  <2>4. FreshInv'
    BY <1>1, <1>2, <1>5, <2>1 DEF FreshInv, Alive
  <2> QED BY <1>3, <2>2, <2>3, <2>4 DEF SafeInv
<1>6. {"db", "other", "dir"} \subseteq Event
  BY DEF Event
<1>7. CASE Replace
  <2>1. Noticed'
    BY <1>7 DEF Replace, Noticed
  <2>2. ops + 1 \in 0..MaxOps /\ file'.data = {ops + 1}
    BY <1>7, <1>1, MmdbReloadAssumption DEF Replace, NewOp, TypeOK
  <2> QED BY <1>4, <2>1, <2>2 DEF IntactInv
<1>8. CASE NotifyReplace
  <2>1. IntactInv'
    BY <1>8, <1>1 DEF NotifyReplace, IntactInv
  <2>2. CASE Alive \/ owner = "copy"
    <3>1. Noticed'
      BY <1>8, <1>1, <2>2, WatchInstalled, DatabaseEventNoticed
         DEF NotifyReplace
    <3> QED BY <1>4, <2>1, <3>1
  <2>3. CASE ~(Alive \/ owner = "copy")
    BY <1>2, <1>3, <2>1, <2>3 DEF SafeInv, LoadInv, FreshInv, Alive
  <2> QED BY <2>2, <2>3
<1>9. CASE RewriteBegin
  BY <1>4, <1>9 DEF RewriteBegin, Noticed, IntactInv
<1>10. CASE RewriteEnd
  <2>1. IntactInv'
    BY <1>10, <1>1 DEF RewriteEnd, IntactInv, TypeOK
  <2>2. CASE Alive \/ owner = "copy"
    <3>1. Noticed'
      BY <1>10, <1>1, <2>2, WatchInstalled, DatabaseEventNoticed
         DEF RewriteEnd
    <3> QED BY <1>4, <2>1, <3>1
  <2>3. CASE ~(Alive \/ owner = "copy")
    BY <1>2, <1>3, <2>1, <2>3 DEF SafeInv, LoadInv, FreshInv, Alive
  <2> QED BY <2>2, <2>3
<1>11. CASE Touch
  BY <1>5, <1>6, <1>11 DEF Touch, Readable
<1>12. CASE Delete
  <2>1. file'.data = file.data /\ ~file'.there
    BY <1>12, <1>1 DEF Delete, TypeOK
  <2>2. IntactInv' /\ LoadInv'
    BY <1>1, <1>2, <1>12, <2>1 DEF Delete, IntactInv, LoadInv, Noticed
  <2>3. FreshInv'
    BY <2>1 DEF FreshInv, Readable
  <2> QED BY <1>3, <2>2, <2>3 DEF SafeInv
<1>13. CASE OtherFile
  BY <1>5, <1>6, <1>13 DEF OtherFile, Readable
<1>14. CASE DirectoryGone
  <2>1. file'.data = file.data /\ ~file'.there
    BY <1>14, <1>1 DEF DirectoryGone, TypeOK
  <2> QED BY <1>5, <1>6, <1>14, <2>1 DEF DirectoryGone, Readable
<1> QED BY <1>7, <1>8, <1>9, <1>10, <1>11, <1>12, <1>13, <1>14 DEF World

\* Nothing can be missed at the start.
LEMMA InitSafe == Init => SafeInv
<1> SUFFICES ASSUME Init PROVE SafeInv
  OBVIOUS
<1>1. PhaseInv
  BY DEF Init, PhaseInv
<1>2. IntactInv
  BY MmdbReloadAssumption DEF Init, IntactInv
<1>3. LoadInv
  BY DEF Init, LoadInv
<1>4. FreshInv
  BY DEF Init, FreshInv, Alive
<1> QED BY <1>1, <1>2, <1>3, <1>4 DEF SafeInv

\* Steps of open() and close().
LEMMA OwnerSafe ==
  ASSUME TypeInv, SafeInv, Owner
  PROVE  SafeInv'
<1> USE DEF world, shutdown, watch, register, frames
<1>1. TypeOK /\ PhaseInv /\ IntactInv /\ LoadInv /\ FreshInv
  BY DEF TypeInv, SafeInv
<1>2. file' = file /\ valid' = valid /\ writer' = writer
  BY DEF Owner, Closing, InstallWatch, OpenInitial, PublishInitial, OpenFails,
         OwnerFails, StartServers, BeginShutdown, StopServers, RequestStop,
         SignalStop, JoinAndRelease
<1>3. IntactInv'
  BY <1>1, <1>2 DEF IntactInv
\* An action of the owner that leaves the queue, the copies, the snapshot
\* and the watcher alone.
<1>4. ASSUME queue' = queue, load' = load, current' = current,
             watcher' = watcher, changed' = changed, missed' = missed,
             stop => stop', owner' # "copy", PhaseInv'
      PROVE  SafeInv'
  <2>1. LoadInv'
    BY <1>1, <1>2, <1>4 DEF LoadInv, Noticed
  <2>2. FreshInv'
    BY <1>1, <1>2, <1>4 DEF FreshInv, Noticed, Alive, Readable
  <2> QED BY <1>3, <1>4, <2>1, <2>2 DEF SafeInv
\* An action after which no watcher runs and no copy is made.
<1>5. ASSUME watcher' \in {"none", "exited"}, owner' # "copy", PhaseInv'
      PROVE  SafeInv'
  BY <1>3, <1>5 DEF SafeInv, LoadInv, FreshInv, Alive
<1>6. CASE InstallWatch
  <2>1. PhaseInv'
    BY <1>1, <1>6 DEF InstallWatch, PhaseInv
  <2> QED BY <1>4, <1>6, <2>1 DEF InstallWatch
<1>7. CASE OpenInitial
  <2>1. PhaseInv' /\ watcher' = "none"
    BY <1>1, <1>7 DEF OpenInitial, PhaseInv, Phases
  <2>2. load'["owner"].data = file.data
    BY <1>1, <1>7 DEF OpenInitial, OpenSource, TypeOK, Loaders
  <2> QED BY <1>2, <1>3, <2>1, <2>2 DEF SafeInv, LoadInv, FreshInv, Alive
<1>8. CASE PublishInitial
  <2>1. PhaseInv'
    BY <1>1, <1>8 DEF PublishInitial, PhaseInv, Phases
  <2>2. LoadInv'
    BY <1>8 DEF PublishInitial, LoadInv
  <2>3. current' = file.data \/ Noticed
    BY <1>1, <1>8 DEF PublishInitial, LoadInv
  <2>4. Noticed => Noticed'
    BY <1>2, <1>8 DEF PublishInitial, Noticed
  <2>5. FreshInv'
    BY <1>2, <2>3, <2>4 DEF FreshInv
  <2> QED BY <1>3, <2>1, <2>2, <2>5 DEF SafeInv
<1>9. CASE OpenFails
  <2>1. watcher' = "none" /\ owner' = "failed"
    BY <1>1, <1>9 DEF OpenFails, OwnerFails, PhaseInv
  <2>2. PhaseInv'
    BY <2>1 DEF PhaseInv
  <2> QED BY <1>5, <2>1, <2>2
<1>10. CASE StartServers
  <2>1. PhaseInv'
    BY <1>1, <1>10 DEF StartServers, PhaseInv, Phases
  <2> QED BY <1>4, <1>10, <2>1 DEF StartServers
<1>11. CASE BeginShutdown
  <2>1. PhaseInv'
    BY <1>1, <1>11 DEF BeginShutdown, PhaseInv, Phases
  <2> QED BY <1>4, <1>11, <2>1 DEF BeginShutdown
<1>12. CASE StopServers
  <2>1. PhaseInv'
    BY <1>1, <1>12 DEF StopServers, PhaseInv, Phases
  <2> QED BY <1>4, <1>12, <2>1 DEF StopServers
<1>13. CASE RequestStop
  <2>1. PhaseInv'
    BY <1>1, <1>13 DEF RequestStop, PhaseInv, Phases
  <2> QED BY <1>4, <1>13, <2>1 DEF RequestStop
<1>14. CASE SignalStop
  <2>1. PhaseInv'
    BY <1>1, <1>14 DEF SignalStop, PhaseInv, Phases
  <2> QED BY <1>4, <1>14, <2>1 DEF SignalStop
<1>15. CASE JoinAndRelease
  <2>1. watcher' = "exited" /\ owner' = "closed"
    BY <1>15 DEF JoinAndRelease
  <2>2. PhaseInv'
    BY <2>1 DEF PhaseInv
  <2> QED BY <1>5, <2>1, <2>2
<1> QED BY <1>6, <1>7, <1>8, <1>9, <1>10, <1>11, <1>12, <1>13, <1>14, <1>15
        DEF Owner, Closing

\* The events a read leaves in the queue keep their order.
LEMMA ReadKeepsRest ==
  ASSUME TypeOK, NEW k \in 1..Len(queue),
         queue' = SubSeq(queue, k + 1, Len(queue))
  PROVE  \A i \in 1..Len(queue) :
           i > k => i - k \in 1..Len(queue') /\ queue'[i - k] = queue[i]
<1>1. queue \in Seq(Event) /\ Len(queue) \in Nat
  BY DEF TypeOK
<1>2. Len(queue') = Len(queue) - k
  BY <1>1
<1>3. \A j \in 1..(Len(queue) - k) : queue'[j] = queue[k + j]
  BY <1>1
<1> QED BY <1>1, <1>2, <1>3

\* reload() rejects an intact copy only if it is no database.
LEMMA IntactRejected ==
  ASSUME IntactInv, writer = "idle", FALSE \in Accepts(file.data)
  PROVE  ~Readable
BY DEF IntactInv, Accepts, Readable

\* Steps of the watcher: what it has not noticed is still in the queue.
LEMMA WatcherSafe ==
  ASSUME TypeInv, SafeInv, Watcher
  PROVE  SafeInv'
<1> USE DEF RestOfWatch, world, shutdown, register, frames
<1>1. TypeOK /\ PhaseInv /\ IntactInv /\ LoadInv /\ FreshInv
  BY DEF TypeInv, SafeInv
<1>2. /\ file' = file /\ valid' = valid /\ writer' = writer
      /\ owner' = owner /\ watching' = watching /\ stop' = stop
  BY DEF Watcher, WatcherStep, WatchLoop, WatchPoll, WatchRead, WatchDrained,
         WatchOpen, WatchCopied, WatchPublish, WatchCount, WatchNoDatabase,
         WatchLoadError, KeepPrevious, WatchError
<1>3. IntactInv'
  BY <1>1, <1>2 DEF IntactInv
<1>4. Alive /\ watcher' # "none"
  BY DEF Alive, Watcher, WatcherStep, WatchLoop, WatchPoll, WatchRead,
         WatchDrained, WatchOpen, WatchCopied, WatchPublish, WatchCount,
         WatchNoDatabase, WatchLoadError, KeepPrevious, WatchError
<1>5. PhaseInv'
  BY <1>1, <1>2, <1>4 DEF PhaseInv, Alive
<1>6. owner # "copy"
  BY <1>1, <1>4 DEF PhaseInv, Alive
<1>7. queue' = queue => (Noticed' <=> Noticed)
  BY <1>2 DEF Noticed
<1>8. Readable' <=> Readable
  BY <1>2 DEF Readable
\* Loading aside, only FreshInv is at stake.
<1>9. ASSUME watcher' \notin {"copy", "publish"}, FreshInv'
      PROVE  SafeInv'
  BY <1>2, <1>3, <1>5, <1>6, <1>9 DEF SafeInv, LoadInv
<1>10. CASE WatchLoop
  <2>1. FreshInv'
    BY <1>1, <1>2, <1>7, <1>8, <1>10 DEF WatchLoop, FreshInv, Alive
  <2> QED BY <1>9, <1>10, <2>1 DEF WatchLoop
<1>11. CASE WatchPoll
  <2>1. FreshInv'
    BY <1>1, <1>2, <1>7, <1>8, <1>11 DEF WatchPoll, FreshInv, Alive
  <2> QED BY <1>9, <1>11, <2>1 DEF WatchPoll
<1>12. CASE WatchRead
  <2>1. PICK k \in 1..Len(queue) :
          /\ queue' = SubSeq(queue, k + 1, Len(queue))
          /\ watcher' = IF stop \/ \E i \in 1..k : queue[i] = "dir"
                        THEN "exited" ELSE "drain"
          /\ changed' = (changed \/ \E i \in 1..k : queue[i] \in Relevant)
    BY <1>12 DEF WatchRead
  <2>2. ASSUME Noticed PROVE Noticed' \/ changed'
    <3>1. CASE writer # "idle"
      BY <1>2, <3>1 DEF Noticed
    <3>2. ASSUME NEW i \in 1..Len(queue), queue[i] \in Relevant
          PROVE  Noticed' \/ changed'
      <4>1. CASE i \in 1..k
        BY <2>1, <3>2, <4>1
      <4>2. CASE i > k
        BY <1>1, <2>1, <3>2, <4>2, ReadKeepsRest DEF Noticed
      <4>3. Len(queue) \in Nat
        BY <1>1 DEF TypeOK
      <4> QED BY <4>1, <4>2, <4>3
    <3> QED BY <2>2, <3>1, <3>2 DEF Noticed
  <2>3. changed => changed'
    BY <2>1
  <2>4. watcher = "drain" /\ missed' = missed /\ current' = current
    BY <1>12 DEF WatchRead
  <2>5. watcher' = "exited" \/ (watcher' = "drain" /\ ~stop)
    BY <2>1
  <2>6. FreshInv'
    BY <1>1, <1>2, <1>8, <2>2, <2>3, <2>4, <2>5 DEF FreshInv, Alive
  <2> QED BY <1>9, <2>5, <2>6
<1>13. CASE WatchDrained
  <2>1. FreshInv'
    BY <1>1, <1>2, <1>7, <1>8, <1>13 DEF WatchDrained, FreshInv, Alive
  <2> QED BY <1>9, <1>13, <2>1 DEF WatchDrained
<1>14. CASE WatchOpen
  <2>1. load'["watcher"].data = file'.data
    BY <1>1, <1>2, <1>14 DEF WatchOpen, OpenSource, TypeOK, Loaders
  <2>2. LoadInv'
    BY <1>2, <1>6, <2>1 DEF LoadInv
  <2>3. FreshInv'
    BY <1>14 DEF WatchOpen, FreshInv
  <2> QED BY <1>3, <1>5, <2>2, <2>3 DEF SafeInv
<1>15. CASE WatchCopied
  <2>1. LoadInv'
    BY <1>1, <1>2, <1>6, <1>7, <1>15 DEF WatchCopied, LoadInv
  <2>2. FreshInv'
    BY <1>15 DEF WatchCopied, FreshInv
  <2> QED BY <1>3, <1>5, <2>1, <2>2 DEF SafeInv
<1>16. CASE WatchPublish
  <2>1. current' = file.data \/ Noticed'
    BY <1>1, <1>7, <1>16 DEF WatchPublish, LoadInv
  <2>2. FreshInv'
    BY <1>2, <2>1 DEF FreshInv
  <2> QED BY <1>9, <1>16, <2>2 DEF WatchPublish
<1>17. CASE WatchCount
  <2>1. FreshInv'
    BY <1>1, <1>2, <1>7, <1>8, <1>17 DEF WatchCount, FreshInv, Alive
  <2> QED BY <1>9, <1>17, <2>1 DEF WatchCount
<1>18. CASE WatchNoDatabase
  <2>1. ~Readable \/ Noticed'
    <3>1. CASE watcher = "load" /\ ~file.there
      BY <3>1 DEF Readable
    <3>2. CASE watcher = "copy" /\ FALSE \in Accepts(load["watcher"].data)
      <4>1. CASE Noticed
        BY <1>7, <1>18, <4>1 DEF WatchNoDatabase, KeepPrevious
      <4>2. CASE ~Noticed
        <5>1. load["watcher"].data = file.data /\ writer = "idle"
          BY <1>1, <3>2, <4>2 DEF LoadInv, Noticed
        <5> QED BY <1>1, <3>2, <5>1, IntactRejected
      <4> QED BY <4>1, <4>2
    <3> QED BY <1>18, <3>1, <3>2 DEF WatchNoDatabase
  <2>2. FreshInv'
    BY <1>8, <2>1 DEF FreshInv
  <2> QED BY <1>9, <1>18, <2>2 DEF WatchNoDatabase, KeepPrevious
<1>19. CASE WatchLoadError
  <2>1. FreshInv'
    BY <1>19 DEF WatchLoadError, FreshInv
  <2> QED BY <1>9, <1>19, <2>1 DEF WatchLoadError, KeepPrevious
<1>20. CASE WatchError
  <2>1. FreshInv'
    BY <1>20 DEF WatchError, FreshInv, Alive
  <2> QED BY <1>9, <1>20, <2>1 DEF WatchError
<1> QED BY <1>10, <1>11, <1>12, <1>13, <1>14, <1>15, <1>16, <1>17, <1>18,
           <1>19, <1>20 DEF Watcher, WatcherStep

\* A step that changes neither the file, the copies, the queue, the snapshot
\* nor the progress of the owner and of the watcher.
LEMMA UntouchedSafe ==
  ASSUME SafeInv,
         UNCHANGED <<world, watching, queue, owner, serving, shutdown, watch,
                     load, register>>
  PROVE  SafeInv'
<1> USE DEF world, shutdown, watch, register
<1>1. PhaseInv /\ IntactInv /\ LoadInv /\ FreshInv
  BY DEF SafeInv
<1>2. PhaseInv' /\ IntactInv'
  BY <1>1 DEF PhaseInv, IntactInv
<1>3. LoadInv'
  BY <1>1 DEF LoadInv, Noticed
<1>4. FreshInv'
  BY <1>1 DEF FreshInv, Noticed, Alive, Readable
<1> QED BY <1>2, <1>3, <1>4 DEF SafeInv

\* Every step keeps the invariant.
LEMMA NextSafe == ASSUME TypeInv, SafeInv, [Next]_vars PROVE SafeInv'
<1>1. CASE World
  BY <1>1, WorldSafe
<1>2. CASE Owner
  BY <1>2, OwnerSafe
<1>3. CASE Watcher
  BY <1>3, WatcherSafe
<1>4. ASSUME NEW r \in Readers, Reader(r) PROVE SafeInv'
  BY <1>4, UntouchedSafe
     DEF Reader, BeginFrame, EvaluateArgument, EndFrame, RestOfFrame
<1>5. CASE UNCHANGED vars
  BY <1>5, UntouchedSafe DEF vars
<1> QED BY <1>1, <1>2, <1>3, <1>4, <1>5 DEF Next, Done

(***************************************************************************)
(* No update of the file is lost: once the watcher sleeps with nothing to  *)
(* read, a readable file is the published snapshot, for every interleaving *)
(* of the changes with the copies of open() and reload(), every number of  *)
(* changes and every length of the inotify queue (mmdb_reload.cpp:83-199). *)
(***************************************************************************)
THEOREM NothingLost == Spec => []NoLostUpdate
<1>1. Init => TypeInv /\ SafeInv
  BY InitType, InitSafe
<1>2. (TypeInv /\ SafeInv) /\ [Next]_vars => (TypeInv /\ SafeInv)'
  BY NextType, NextSafe
<1>3. TypeInv /\ SafeInv => NoLostUpdate
  <2> SUFFICES ASSUME SafeInv, watcher = "poll", queue = <<>>,
                      writer = "idle", Readable, ~missed
               PROVE  current = file.data
    BY DEF NoLostUpdate
  <2>1. ~Noticed
    BY DEF Noticed
  <2> QED BY <2>1 DEF SafeInv, FreshInv, Alive
<1> QED BY <1>1, <1>2, <1>3, PTL DEF Spec
-----------------------------------------------------------------------------
(***************************************************************************)
(* Only databases are published.  A copy that passed its check stays good: *)
(* it is private, and a version that is well-formed remains so.            *)
(***************************************************************************)
Sound(data) == \A v \in 0..MaxOps : data = {v} => v \in valid

SoundInv ==
  /\ Sound(current)
  /\ watcher = "publish" => Sound(load["watcher"].data)

\* load_snapshot() accepts an intact copy only if it is a database.
LEMMA AcceptedSound ==
  ASSUME NEW data, TRUE \in Accepts(data)
  PROVE  Sound(data)
BY DEF Accepts, Sound

\* Every step keeps what is published, and what will be, a database.
LEMMA NextSound == ASSUME TypeInv, SoundInv, [Next]_vars PROVE SoundInv'
<1> USE DEF vars, world, shutdown, watch, register, frames, RestOfWorld,
            RestOfWatch, RestOfFrame
<1>1. TypeOK /\ SoundInv
  BY DEF TypeInv
\* A step that publishes nothing and finishes no copy.
<1>2. ASSUME valid \subseteq valid', current' = current,
             watcher' = "publish" =>
               watcher = "publish" /\ load'["watcher"] = load["watcher"]
      PROVE  SoundInv'
  BY <1>1, <1>2 DEF SoundInv, Sound
<1>3. CASE World
  <2>1. valid \subseteq valid' /\ current' = current /\ watcher' = watcher
    BY <1>3 DEF World, Replace, NotifyReplace, RewriteBegin, RewriteEnd, Touch,
                Delete, OtherFile, DirectoryGone
  <2>2. watcher = "publish" => load'["watcher"] = load["watcher"]
    <3>1. CASE RewriteBegin
      BY <3>1 DEF RewriteBegin, Copying, Loaders
    <3>2. CASE ~RewriteBegin
      BY <1>3, <3>2 DEF World, Replace, NotifyReplace, RewriteEnd, Touch,
                        Delete, OtherFile, DirectoryGone
    <3> QED BY <3>1, <3>2
  <2> QED BY <1>2, <2>1, <2>2
<1>4. CASE PublishInitial
  <2>1. Sound(load["owner"].data)
    BY <1>4, AcceptedSound DEF PublishInitial
  <2> QED BY <1>4, <2>1 DEF PublishInitial, SoundInv, Sound
<1>5. CASE JoinAndRelease
  BY <1>5 DEF JoinAndRelease, SoundInv, Sound
<1>6. CASE OpenInitial
  <2>1. load'["watcher"] = load["watcher"]
    BY <1>1, <1>6 DEF OpenInitial, OpenSource, TypeOK, Loaders
  <2> QED BY <1>2, <1>6, <2>1 DEF OpenInitial
<1>7. CASE Owner /\ ~PublishInitial /\ ~JoinAndRelease /\ ~OpenInitial
  <2>1. /\ valid' = valid /\ current' = current /\ watcher' = watcher
        /\ load' = load
    BY <1>7 DEF Owner, Closing, InstallWatch, OpenFails, OwnerFails,
                StartServers, BeginShutdown, StopServers, RequestStop,
                SignalStop
  <2> QED BY <1>2, <2>1
<1>8. CASE WatchCopied
  <2>1. Sound(load["watcher"].data)
    BY <1>8, AcceptedSound DEF WatchCopied
  <2> QED BY <1>1, <1>8, <2>1 DEF WatchCopied, SoundInv, Sound
<1>9. CASE WatchPublish
  BY <1>1, <1>9 DEF WatchPublish, SoundInv, Sound
<1>10. CASE Watcher /\ ~WatchCopied /\ ~WatchPublish
  <2>1. valid' = valid /\ current' = current /\ watcher' # "publish"
    BY <1>10 DEF Watcher, WatcherStep, WatchLoop, WatchPoll, WatchRead,
                 WatchDrained, WatchOpen, WatchCount, WatchNoDatabase,
                 WatchLoadError, KeepPrevious, WatchError
  <2> QED BY <1>2, <2>1
<1>11. ASSUME NEW r \in Readers, Reader(r) PROVE SoundInv'
  BY <1>2, <1>11 DEF Reader, BeginFrame, EvaluateArgument, EndFrame
<1>12. CASE UNCHANGED vars
  BY <1>2, <1>12
<1> QED BY <1>3, <1>4, <1>5, <1>6, <1>7, <1>8, <1>9, <1>10, <1>11, <1>12
        DEF Next, Done

(***************************************************************************)
(* A file that is not a database is never published, by open() or by       *)
(* reload() (mmdb_reload.cpp:104-106 and 126-139).                         *)
(***************************************************************************)
THEOREM DatabasesOnly == Spec => []OnlyDatabases
<1>1. Init => TypeInv /\ SoundInv
  <2> SUFFICES ASSUME Init PROVE SoundInv
    BY InitType
  <2> QED BY DEF Init, SoundInv, Sound
<1>2. (TypeInv /\ SoundInv) /\ [Next]_vars => (TypeInv /\ SoundInv)'
  BY NextType, NextSound
<1>3. TypeInv /\ SoundInv => OnlyDatabases
  BY DEF SoundInv, Sound, OnlyDatabases
<1> QED BY <1>1, <1>2, <1>3, PTL DEF Spec
-----------------------------------------------------------------------------
(***************************************************************************)
(* Frames.  A snapshot is there from the end of open() to close(), frames  *)
(* are handled only in between, and a frame uses only what it holds.       *)
(***************************************************************************)
Opened == {"open", "serving", "draining", "drained", "stopping", "signalled"}

ThereInv ==
  /\ file.data # {}
  /\ owner = "copy" => load["owner"].data # {}
  /\ watcher \in {"copy", "publish"} => load["watcher"].data # {}
  /\ owner \in Opened => current # {}

ServeInv ==
  /\ serving => owner \in {"serving", "draining"}
  /\ busy # {} => serving

FrameInv ==
  /\ \A r \in busy : held[r] # {}
  /\ \A r \in Readers : used[r] \subseteq {held[r]}

\* Every step keeps a snapshot in the register once it was opened.
LEMMA NextThere == ASSUME TypeInv, ThereInv, [Next]_vars PROVE ThereInv'
<1> USE DEF vars, world, shutdown, watch, register, frames, RestOfWorld,
            RestOfWatch, RestOfFrame
<1>1. TypeOK /\ ThereInv
  BY DEF TypeInv
\* A step that changes no bytes.
<1>2. ASSUME file'.data = file.data, load' = load, current' = current,
             owner' = "copy" => owner = "copy",
             watcher' \in {"copy", "publish"} => watcher \in {"copy", "publish"},
             owner' \in Opened => owner \in Opened
      PROVE  ThereInv'
  BY <1>1, <1>2 DEF ThereInv
<1>3. CASE Replace
  <2>1. file'.data # {}
    BY <1>3 DEF Replace
  <2> QED BY <1>1, <1>3, <2>1 DEF Replace, ThereInv
<1>4. CASE RewriteBegin
  <2>1. file'.data = file.data \cup {ops + 1}
    BY <1>1, <1>4 DEF RewriteBegin, TypeOK
  <2>2. \A l \in Loaders : load[l].data # {} => load'[l].data # {}
    <3> SUFFICES ASSUME NEW l \in Loaders, load[l].data # {}
                 PROVE  load'[l].data # {}
      OBVIOUS
    <3>1. load[l] \in [ino : 0..MaxOps, data : Bytes]
      BY <1>1 DEF TypeOK
    <3>2. load'[l] = load[l] \/ load'[l].data = load[l].data \cup {ops + 1}
      BY <1>4, <3>1 DEF RewriteBegin
    <3> QED BY <3>2
  <2>3. "owner" \in Loaders /\ "watcher" \in Loaders
    BY DEF Loaders
  <2> QED BY <1>1, <1>4, <2>1, <2>2, <2>3 DEF RewriteBegin, ThereInv
<1>5. CASE RewriteEnd
  <2>1. file'.data = {ops}
    BY <1>1, <1>5 DEF RewriteEnd, TypeOK
  <2> QED BY <1>1, <1>5, <2>1 DEF RewriteEnd, ThereInv
<1>6. CASE NotifyReplace \/ Touch \/ Delete \/ OtherFile \/ DirectoryGone
  <2>1. file'.data = file.data
    BY <1>1, <1>6 DEF NotifyReplace, Touch, Delete, OtherFile, DirectoryGone,
                      TypeOK
  <2> QED BY <1>2, <1>6, <2>1 DEF NotifyReplace, Touch, Delete, OtherFile,
                                  DirectoryGone
<1>7. CASE OpenInitial
  <2>1. /\ load'["owner"].data = file.data
        /\ load'["watcher"] = load["watcher"]
    BY <1>1, <1>7 DEF OpenInitial, OpenSource, TypeOK, Loaders
  <2> QED BY <1>1, <1>7, <2>1 DEF OpenInitial, ThereInv, Opened
<1>8. CASE PublishInitial
  BY <1>1, <1>8 DEF PublishInitial, ThereInv
<1>9. CASE JoinAndRelease
  BY <1>1, <1>9 DEF JoinAndRelease, ThereInv, Opened
<1>10. CASE InstallWatch \/ OpenFails \/ StartServers \/ BeginShutdown
              \/ StopServers \/ RequestStop \/ SignalStop
  BY <1>2, <1>10 DEF InstallWatch, OpenFails, OwnerFails, StartServers,
                     BeginShutdown, StopServers, RequestStop, SignalStop,
                     Opened
<1>11. CASE WatchOpen
  <2>1. /\ load'["watcher"].data = file.data
        /\ load'["owner"] = load["owner"]
    BY <1>1, <1>11 DEF WatchOpen, OpenSource, TypeOK, Loaders
  <2> QED BY <1>1, <1>11, <2>1 DEF WatchOpen, ThereInv
<1>12. CASE WatchPublish
  BY <1>1, <1>12 DEF WatchPublish, ThereInv
<1>13. CASE Watcher /\ ~WatchOpen /\ ~WatchPublish
  BY <1>2, <1>13 DEF Watcher, WatcherStep, WatchLoop, WatchPoll, WatchRead,
                     WatchDrained, WatchCopied, WatchCount, WatchNoDatabase,
                     WatchLoadError, KeepPrevious, WatchError
<1>14. ASSUME NEW r \in Readers, Reader(r) PROVE ThereInv'
  BY <1>2, <1>14 DEF Reader, BeginFrame, EvaluateArgument, EndFrame
<1>15. CASE UNCHANGED vars
  BY <1>2, <1>15
<1> QED BY <1>3, <1>4, <1>5, <1>6, <1>7, <1>8, <1>9, <1>10, <1>11, <1>12,
           <1>13, <1>14, <1>15 DEF Next, World, Owner, Closing, Done

\* Every step keeps frames within the time the servers run.
LEMMA NextServe == ASSUME ServeInv, [Next]_vars PROVE ServeInv'
<1> USE DEF vars, world, shutdown, watch, register, frames, RestOfWorld,
            RestOfWatch, RestOfFrame
<1>1. ASSUME serving' = serving, owner' = owner, busy' \subseteq busy
      PROVE  ServeInv'
  BY <1>1 DEF ServeInv
<1>2. CASE World
  BY <1>1, <1>2 DEF World, Replace, NotifyReplace, RewriteBegin, RewriteEnd,
                    Touch, Delete, OtherFile, DirectoryGone
<1>3. CASE InstallWatch \/ OpenInitial \/ PublishInitial \/ OpenFails
             \/ Closing
  <2>1. ~serving /\ busy = {}
    BY <1>3 DEF InstallWatch, OpenInitial, PublishInitial, OpenFails, Closing,
                RequestStop, SignalStop, JoinAndRelease, ServeInv
  <2>2. serving' = serving /\ busy' = busy
    BY <1>3 DEF InstallWatch, OpenInitial, PublishInitial, OpenFails,
                OwnerFails, Closing, RequestStop, SignalStop, JoinAndRelease
  <2> QED BY <2>1, <2>2 DEF ServeInv
<1>4. CASE StartServers \/ BeginShutdown
  BY <1>4 DEF StartServers, BeginShutdown, ServeInv
<1>5. CASE StopServers
  <2>1. ~serving' /\ busy' = {}
    BY <1>5 DEF StopServers
  <2> QED BY <2>1 DEF ServeInv
<1>6. CASE Watcher
  BY <1>1, <1>6 DEF Watcher, WatcherStep, WatchLoop, WatchPoll, WatchRead,
                    WatchDrained, WatchOpen, WatchCopied, WatchPublish,
                    WatchCount, WatchNoDatabase, WatchLoadError, KeepPrevious,
                    WatchError
<1>7. ASSUME NEW r \in Readers, BeginFrame(r) PROVE ServeInv'
  BY <1>7 DEF BeginFrame, ServeInv
<1>8. ASSUME NEW r \in Readers, EvaluateArgument(r) \/ EndFrame(r)
      PROVE  ServeInv'
  BY <1>1, <1>8 DEF EvaluateArgument, EndFrame
<1>9. CASE UNCHANGED vars
  BY <1>1, <1>9
<1> QED BY <1>2, <1>3, <1>4, <1>5, <1>6, <1>7, <1>8, <1>9
        DEF Next, Owner, Done, Reader

\* Every step keeps the snapshot of a frame and uses no other.
LEMMA NextFrame ==
  ASSUME TypeInv, ThereInv, ServeInv, FrameInv, [Next]_vars
  PROVE  FrameInv'
<1> USE DEF vars, world, shutdown, watch, register, frames, RestOfWorld,
            RestOfWatch, RestOfFrame
<1>1. busy \subseteq Readers /\ DOMAIN held = Readers /\ DOMAIN used = Readers
  BY DEF TypeInv, TypeOK
<1>2. ASSUME UNCHANGED frames PROVE FrameInv'
  BY <1>2 DEF FrameInv
<1>3. CASE World
  BY <1>2, <1>3 DEF World, Replace, NotifyReplace, RewriteBegin, RewriteEnd,
                    Touch, Delete, OtherFile, DirectoryGone
<1>4. CASE Owner
  BY <1>2, <1>4 DEF Owner, Closing, InstallWatch, OpenInitial, PublishInitial,
                    OpenFails, OwnerFails, StartServers, BeginShutdown,
                    StopServers, RequestStop, SignalStop, JoinAndRelease
<1>5. CASE Watcher
  BY <1>2, <1>5 DEF Watcher, WatcherStep, WatchLoop, WatchPoll, WatchRead,
                    WatchDrained, WatchOpen, WatchCopied, WatchPublish,
                    WatchCount, WatchNoDatabase, WatchLoadError, KeepPrevious,
                    WatchError
<1>6. ASSUME NEW r \in Readers, BeginFrame(r) PROVE FrameInv'
  <2>1. current # {}
    BY <1>6 DEF BeginFrame, ServeInv, ThereInv, Opened
  <2> QED BY <1>1, <1>6, <2>1 DEF BeginFrame, FrameInv
<1>7. ASSUME NEW r \in Readers, EvaluateArgument(r) PROVE FrameInv'
  BY <1>1, <1>7 DEF EvaluateArgument, FrameInv
<1>8. ASSUME NEW r \in Readers, EndFrame(r) PROVE FrameInv'
  BY <1>1, <1>8 DEF EndFrame, FrameInv
<1>9. CASE UNCHANGED vars
  BY <1>2, <1>9
<1> QED BY <1>3, <1>4, <1>5, <1>6, <1>7, <1>8, <1>9 DEF Next, Done, Reader

HandledInv == TypeInv /\ ThereInv /\ ServeInv /\ FrameInv

\* What frames may rely on, as an invariant.
LEMMA Handled == Spec => []HandledInv
<1>1. Init => HandledInv
  <2> SUFFICES ASSUME Init PROVE HandledInv
    OBVIOUS
  <2>1. ThereInv
    BY DEF Init, ThereInv, Opened
  <2>2. ServeInv /\ FrameInv
    BY DEF Init, ServeInv, FrameInv
  <2> QED BY <2>1, <2>2, InitType DEF HandledInv
<1>2. HandledInv /\ [Next]_vars => HandledInv'
  BY NextType, NextThere, NextServe, NextFrame DEF HandledInv
<1> QED BY <1>1, <1>2, PTL DEF Spec

(***************************************************************************)
(* No frame is handled without a database, during start-up, reloads and    *)
(* shutdown alike (main.cpp:158-209, spoa_agent.cpp:142-153).              *)
(***************************************************************************)
THEOREM NeverWithoutDatabase == Spec => []FramesHaveDatabase
<1>1. HandledInv => FramesHaveDatabase
  BY DEF HandledInv, FrameInv, FramesHaveDatabase
<1> QED BY <1>1, Handled, PTL

(***************************************************************************)
(* All arguments of a frame are looked up in one snapshot, whatever the    *)
(* watcher publishes meanwhile (spoa_agent.cpp:142-153).                   *)
(***************************************************************************)
THEOREM OneSnapshotPerFrame == Spec => []OneDatabasePerFrame
<1>1. HandledInv => OneDatabasePerFrame
  <2> SUFFICES ASSUME HandledInv, NEW r \in Readers
               PROVE  Cardinality(used[r]) <= 1
    BY DEF OneDatabasePerFrame
  <2>1. used[r] = {} \/ used[r] = {held[r]}
    BY DEF HandledInv, FrameInv
  <2>2. Cardinality({}) = 0 /\ Cardinality({held[r]}) = 1
    BY FS_EmptySet, FS_Singleton
  <2> QED BY <2>1, <2>2
<1> QED BY <1>1, Handled, PTL
-----------------------------------------------------------------------------
(***************************************************************************)
(* The reload counter.                                                     *)
(***************************************************************************)
CountInv ==
  /\ watcher = "none" => published = 0 /\ reload_count = 0
  /\ watcher = "count" => published = reload_count + 2
  /\ watcher \notin {"none", "count"} => published = reload_count + 1

\* Every step keeps the counter behind the stores.
LEMMA NextCount ==
  ASSUME TypeInv, SafeInv, CountInv, [Next]_vars
  PROVE  CountInv'
<1> USE DEF vars, world, shutdown, watch, register, frames, RestOfWorld,
            RestOfWatch, RestOfFrame
<1>1. published \in Nat /\ reload_count \in Nat /\ PhaseInv
  BY DEF TypeInv, TypeOK, SafeInv
<1>2. ASSUME published' = published, reload_count' = reload_count,
             \/ watcher' = watcher
             \/ watcher \notin {"none", "count"} /\ watcher' \notin {"none", "count"}
      PROVE  CountInv'
  BY <1>2 DEF CountInv
<1>3. CASE World
  BY <1>2, <1>3 DEF World, Replace, NotifyReplace, RewriteBegin, RewriteEnd,
                    Touch, Delete, OtherFile, DirectoryGone
<1>4. CASE PublishInitial
  BY <1>1, <1>4 DEF PublishInitial, PhaseInv, CountInv
<1>5. CASE Owner /\ ~PublishInitial
  BY <1>2, <1>5 DEF Owner, Closing, InstallWatch, OpenInitial, OpenFails,
                    OwnerFails, StartServers, BeginShutdown, StopServers,
                    RequestStop, SignalStop, JoinAndRelease
<1>6. CASE WatchPublish
  BY <1>1, <1>6 DEF WatchPublish, CountInv
<1>7. CASE WatchCount
  BY <1>1, <1>7 DEF WatchCount, CountInv
<1>8. CASE Watcher /\ ~WatchPublish /\ ~WatchCount
  BY <1>2, <1>8 DEF Watcher, WatcherStep, WatchLoop, WatchPoll, WatchRead,
                    WatchDrained, WatchOpen, WatchCopied, WatchNoDatabase,
                    WatchLoadError, KeepPrevious, WatchError
<1>9. ASSUME NEW r \in Readers, Reader(r) PROVE CountInv'
  BY <1>2, <1>9 DEF Reader, BeginFrame, EvaluateArgument, EndFrame
<1>10. CASE UNCHANGED vars
  BY <1>2, <1>10
<1> QED BY <1>3, <1>4, <1>5, <1>6, <1>7, <1>8, <1>9, <1>10 DEF Next, Done

(***************************************************************************)
(* reload_count() never runs ahead of the stores it counts and lags by at  *)
(* most the one in progress; a failed reload leaves it alone               *)
(* (mmdb_reload.cpp:126-139).                                              *)
(***************************************************************************)
THEOREM CountedAfterStore == Spec => []CountFollowsStore
<1> DEFINE Inv == TypeInv /\ SafeInv /\ CountInv
<1>1. Init => Inv
  <2>1. Init => CountInv
    BY DEF Init, CountInv
  <2> QED BY <2>1, InitType, InitSafe
<1>2. Inv /\ [Next]_vars => Inv'
  BY NextType, NextSafe, NextCount
<1>3. Inv => CountFollowsStore
  <2> SUFFICES ASSUME TypeInv, CountInv PROVE CountFollowsStore
    OBVIOUS
  <2>1. published \in Nat /\ reload_count \in Nat
    BY DEF TypeInv, TypeOK
  <2> QED BY <2>1 DEF CountInv, CountFollowsStore
<1> QED BY <1>1, <1>2, <1>3, PTL DEF Spec
-----------------------------------------------------------------------------
(***************************************************************************)
(* Versions.  Newer content covers older content: for every version the    *)
(* old bytes mix there is one in the new bytes that is as recent.          *)
(***************************************************************************)
Covers(new, old) == \A o \in old : \E n \in new : o <= n

VersionInv ==
  /\ file.data \subseteq 0..ops /\ current \subseteq 0..ops
  /\ \A l \in Loaders : load[l].data \subseteq 0..ops
  /\ Covers(file.data, current)
  /\ owner \in {"new", "watch", "copy", "failed"} => current = {}
  /\ owner = "copy" => Covers(file.data, load["owner"].data)
  /\ watcher \in {"copy", "publish"}
       => /\ Covers(file.data, load["watcher"].data)
          /\ Covers(load["watcher"].data, current)

\* Contents are no older than themselves.
LEMMA CoversItself == ASSUME NEW s \in SUBSET Nat PROVE Covers(s, s)
BY DEF Covers

\* The newest version covers every earlier one.
LEMMA NewestCovers ==
  ASSUME NEW n \in Nat, NEW s \in SUBSET (0..n)
  PROVE  Covers({n}, s)
BY DEF Covers

\* Every step keeps the order of the versions.
LEMMA NextVersion ==
  ASSUME TypeInv, SafeInv, VersionInv, [Next]_vars
  PROVE  VersionInv'
<1> USE MmdbReloadAssumption
        DEF vars, world, shutdown, watch, register, frames, RestOfWorld,
            RestOfWatch, RestOfFrame
<1>1. TypeOK /\ PhaseInv
  BY DEF TypeInv, SafeInv
<1>2. /\ ops \in Nat /\ file.data \subseteq 0..ops /\ current \subseteq 0..ops
      /\ \A l \in Loaders : load[l].data \subseteq 0..ops
      /\ "owner" \in Loaders /\ "watcher" \in Loaders
  BY <1>1 DEF VersionInv, TypeOK, Loaders
<1>3. 0..ops \subseteq 0..(ops + 1)
  BY <1>2
\* A step that changes no bytes.
<1>4. ASSUME ops' = ops \/ ops' = ops + 1, file'.data = file.data, load' = load,
             current' = current,
             \/ owner' = owner
             \/ owner' # "copy"
                  /\ (owner' \in {"new", "watch", "failed"}
                        => owner \in {"new", "watch", "copy", "failed"}),
             watcher' \in {"copy", "publish"} => watcher \in {"copy", "publish"}
      PROVE  VersionInv'
  BY <1>3, <1>4 DEF VersionInv
<1>5. CASE Replace
  <2>1. /\ ops' = ops + 1 /\ file'.data = {ops'} /\ current' = current
        /\ load' = load /\ owner' = owner /\ watcher' = watcher
    BY <1>5 DEF Replace, NewOp
  <2>2. /\ file'.data \subseteq 0..ops' /\ current' \subseteq 0..ops'
        /\ \A l \in Loaders : load'[l].data \subseteq 0..ops'
    BY <1>2, <1>3, <2>1
  <2>3. Covers(file'.data, current') /\ \A l \in Loaders :
                                         Covers(file'.data, load'[l].data)
    BY <1>2, <2>1, <2>2, NewestCovers
  <2> QED BY <1>2, <2>1, <2>2, <2>3 DEF VersionInv
<1>6. CASE RewriteBegin
  <2>1. /\ ops' = ops + 1 /\ current' = current /\ owner' = owner
        /\ watcher' = watcher
    BY <1>6 DEF RewriteBegin, NewOp
  <2>2. file'.data = file.data \cup {ops + 1}
    BY <1>1, <1>6 DEF RewriteBegin, TypeOK
  <2>3. ASSUME NEW l \in Loaders
        PROVE  \/ load'[l].data = load[l].data
               \/ load'[l].data = load[l].data \cup {ops + 1}
    <3>1. load[l] \in [ino : 0..MaxOps, data : Bytes]
      BY <1>1 DEF TypeOK
    <3> QED BY <1>6, <3>1 DEF RewriteBegin
  <2>4. /\ file'.data \subseteq 0..ops' /\ current' \subseteq 0..ops'
        /\ \A l \in Loaders : load'[l].data \subseteq 0..ops'
    BY <1>2, <1>3, <2>1, <2>2, <2>3
  <2>5. ASSUME NEW s \in SUBSET (0..ops') PROVE Covers(file'.data, s)
    BY <1>2, <2>1, <2>2 DEF Covers
  <2>6. ASSUME watcher \in {"copy", "publish"}
        PROVE  Covers(load'["watcher"].data, current')
    BY <1>2, <2>1, <2>3, <2>6 DEF Covers, VersionInv
  <2> QED BY <1>2, <2>1, <2>4, <2>5, <2>6 DEF VersionInv
<1>7. CASE RewriteEnd
  <2>1. /\ ops' = ops /\ current' = current /\ load' = load
        /\ owner' = owner /\ watcher' = watcher
    BY <1>7 DEF RewriteEnd
  <2>2. file'.data = {ops}
    BY <1>1, <1>7 DEF RewriteEnd, TypeOK
  <2>3. Covers({ops}, current) /\ \A l \in Loaders : Covers({ops}, load[l].data)
    BY <1>2, NewestCovers
  <2> QED BY <1>2, <2>1, <2>2, <2>3 DEF VersionInv
<1>8. CASE NotifyReplace \/ Touch \/ Delete \/ OtherFile \/ DirectoryGone
  <2>1. file'.data = file.data
    BY <1>1, <1>8 DEF NotifyReplace, Touch, Delete, OtherFile, DirectoryGone,
                      TypeOK
  <2> QED BY <1>4, <1>8, <2>1 DEF NotifyReplace, Touch, Delete, OtherFile,
                                  DirectoryGone, NewOp
<1>9. CASE OpenInitial
  <2>1. /\ load'["owner"].data = file.data
        /\ load'["watcher"] = load["watcher"]
    BY <1>1, <1>9 DEF OpenInitial, OpenSource, TypeOK, Loaders
  <2>2. Covers(file.data, file.data)
    BY <1>2, CoversItself
  <2> QED BY <1>2, <1>9, <2>1, <2>2 DEF OpenInitial, VersionInv, Loaders
<1>10. CASE PublishInitial
  BY <1>2, <1>10 DEF PublishInitial, VersionInv
<1>11. CASE JoinAndRelease
  <2>1. /\ ops' = ops /\ file' = file /\ load' = load /\ current' = {}
        /\ owner' = "closed" /\ watcher' = "exited"
    BY <1>11 DEF JoinAndRelease
  <2> QED BY <1>2, <2>1 DEF VersionInv, Covers
<1>12. CASE InstallWatch \/ OpenFails \/ StartServers \/ BeginShutdown
              \/ StopServers \/ RequestStop \/ SignalStop
  BY <1>4, <1>12 DEF InstallWatch, OpenFails, OwnerFails, StartServers,
                     BeginShutdown, StopServers, RequestStop, SignalStop
<1>13. CASE WatchOpen
  <2>1. /\ load'["watcher"].data = file.data
        /\ load'["owner"] = load["owner"]
    BY <1>1, <1>13 DEF WatchOpen, OpenSource, TypeOK, Loaders
  <2>2. Covers(file.data, file.data)
    BY <1>2, CoversItself
  <2> QED BY <1>2, <1>13, <2>1, <2>2 DEF WatchOpen, VersionInv, Loaders
<1>14. CASE WatchPublish
  <2>1. owner \notin {"new", "watch", "copy", "failed"}
    BY <1>1, <1>14 DEF WatchPublish, PhaseInv
  <2> QED BY <1>2, <1>14, <2>1 DEF WatchPublish, VersionInv
<1>15. CASE Watcher /\ ~WatchOpen /\ ~WatchPublish
  BY <1>4, <1>15 DEF Watcher, WatcherStep, WatchLoop, WatchPoll, WatchRead,
                     WatchDrained, WatchCopied, WatchCount, WatchNoDatabase,
                     WatchLoadError, KeepPrevious, WatchError
<1>16. ASSUME NEW r \in Readers, Reader(r) PROVE VersionInv'
  BY <1>4, <1>16 DEF Reader, BeginFrame, EvaluateArgument, EndFrame
<1>17. CASE UNCHANGED vars
  BY <1>4, <1>17
<1> QED BY <1>5, <1>6, <1>7, <1>8, <1>9, <1>10, <1>11, <1>12, <1>13, <1>14,
           <1>15, <1>16, <1>17 DEF Next, World, Owner, Closing, Done

\* Only the two publishers and close() change the snapshot.
LEMMA OnlyPublishers ==
  ASSUME [Next]_vars, current' # current
  PROVE  PublishInitial \/ WatchPublish \/ JoinAndRelease
<1> USE DEF vars, world, shutdown, watch, register, frames, RestOfWorld,
            RestOfWatch, RestOfFrame
<1>1. ~World
  BY DEF World, Replace, NotifyReplace, RewriteBegin, RewriteEnd, Touch,
         Delete, OtherFile, DirectoryGone
<1>2. Owner => PublishInitial \/ JoinAndRelease
  BY DEF Owner, Closing, InstallWatch, OpenInitial, OpenFails, OwnerFails,
         StartServers, BeginShutdown, StopServers, RequestStop, SignalStop
<1>3. Watcher => WatchPublish
  BY DEF Watcher, WatcherStep, WatchLoop, WatchPoll, WatchRead, WatchDrained,
         WatchOpen, WatchCopied, WatchCount, WatchNoDatabase, WatchLoadError,
         KeepPrevious, WatchError
<1>4. \A r \in Readers : ~Reader(r)
  BY DEF Reader, BeginFrame, EvaluateArgument, EndFrame
<1> QED BY <1>1, <1>2, <1>3, <1>4 DEF Next, Done

(***************************************************************************)
(* The published snapshot never goes back to an earlier version of the     *)
(* file (mmdb_reload.cpp:106 and 130).                                     *)
(***************************************************************************)
THEOREM NeverGoesBack == Spec => NeverOlder
<1> DEFINE Inv == TypeInv /\ SafeInv /\ VersionInv
           Advances == current' # {} => Covers(current', current)
<1>1. Init => Inv
  <2>1. Init => VersionInv
    BY DEF Init, VersionInv, Covers
  <2> QED BY <2>1, InitType, InitSafe
<1>2. Inv /\ [Next]_vars => Inv'
  BY NextType, NextSafe, NextVersion
<1>3. Inv /\ [Next]_vars => [Advances]_current
  <2> SUFFICES ASSUME Inv, [Next]_vars, current' # current, current' # {}
               PROVE  Covers(current', current)
    OBVIOUS
  <2>1. PublishInitial \/ WatchPublish \/ JoinAndRelease
    BY OnlyPublishers
  <2>2. CASE PublishInitial
    BY <2>2 DEF PublishInitial, VersionInv, Covers
  <2>3. CASE WatchPublish
    BY <2>3 DEF WatchPublish, VersionInv
  <2>4. CASE JoinAndRelease
    BY <2>4 DEF JoinAndRelease
  <2> QED BY <2>1, <2>2, <2>3, <2>4
<1>4. [Advances]_current
        => [current' # {} => \A old \in current : \E new \in current' :
                               old <= new]_current
  BY DEF Covers
<1> QED BY <1>1, <1>2, <1>3, <1>4, PTL DEF Spec, NeverOlder
-----------------------------------------------------------------------------
(***************************************************************************)
(* ReloadableMmdb implements the register of SnapshotRegister: the         *)
(* invariants make each step of the code a step of the register or a       *)
(* stutter.                                                                *)
(***************************************************************************)
RefinementInv == HandledInv /\ SafeInv /\ VersionInv

\* The watcher and the first load publish; the register was not closed.
LEMMA PublisherPublishes ==
  ASSUME RefinementInv, PublishInitial \/ WatchPublish
  PROVE  Register!Publish
<1> USE DEF RefinementInv, HandledInv
<1>1. owner # "closed" /\ owner' # "closed" /\ UNCHANGED <<busy, held, used>>
  BY DEF SafeInv, PhaseInv, PublishInitial, WatchPublish, RestOfWatch, frames
<1>2. current' # {}
  BY DEF ThereInv, PublishInitial, WatchPublish
<1>3. Covers(current', current)
  BY DEF VersionInv, Covers, PublishInitial, WatchPublish
<1>4. RegisterPhase # "closed" /\ RegisterPhase' = "open"
  BY <1>1, <1>2 DEF RegisterPhase
<1> QED BY <1>1, <1>2, <1>3, <1>4 DEF Register!Publish, Register!NotOlder, Covers

\* close() releases a snapshot that is there and that nobody holds.
LEMMA ReleaseCloses ==
  ASSUME RefinementInv, JoinAndRelease
  PROVE  Register!Close
<1> USE DEF RefinementInv, HandledInv, JoinAndRelease
<1>1. current # {}
  BY DEF ThereInv, Opened
<1>2. busy = {}
  BY DEF ServeInv
<1>3. RegisterPhase = "open" /\ RegisterPhase' = "closed"
  BY <1>1 DEF RegisterPhase
<1> QED BY <1>2, <1>3 DEF Register!Close, frames

\* A frame begins, is evaluated and ends against the register.
LEMMA FrameReads ==
  ASSUME RefinementInv, NEW r \in Readers, Reader(r)
  PROVE  Register!Begin(r) \/ Register!Consult(r) \/ Register!End(r)
<1> USE DEF RefinementInv, HandledInv
<1>1. current' = current /\ owner' = owner
  BY DEF Reader, BeginFrame, EvaluateArgument, EndFrame, RestOfFrame, register
<1>2. RegisterPhase' = RegisterPhase
  BY <1>1 DEF RegisterPhase
<1>3. CASE BeginFrame(r)
  <2>1. owner # "closed" /\ current # {}
    BY <1>3 DEF BeginFrame, ServeInv, ThereInv, Opened
  <2>2. RegisterPhase = "open"
    BY <2>1 DEF RegisterPhase
  <2> QED BY <1>1, <1>2, <1>3, <2>2 DEF BeginFrame, Register!Begin
<1>4. CASE EvaluateArgument(r)
  <2>1. used[r] \cup {held[r]} = {held[r]}
    BY DEF FrameInv
  <2>2. used' = [used EXCEPT ![r] = {held[r]}]
    BY <1>4, <2>1 DEF EvaluateArgument
  <2> QED BY <1>1, <1>2, <1>4, <2>2 DEF EvaluateArgument, Register!Consult
<1>5. CASE EndFrame(r)
  BY <1>1, <1>2, <1>5 DEF EndFrame, Register!End
<1> QED BY <1>3, <1>4, <1>5 DEF Reader

\* Every other step leaves the register and its readers alone.
LEMMA OthersStutter ==
  ASSUME [Next]_vars, ~PublishInitial, ~WatchPublish, ~JoinAndRelease,
         \A r \in Readers : ~Reader(r)
  PROVE  UNCHANGED Register!rvars
<1> USE DEF vars, world, shutdown, watch, register, frames, RestOfWorld,
            RestOfWatch
<1>1. current' = current
  BY OnlyPublishers
<1>2. UNCHANGED <<busy, held, used>> /\ (owner' = "closed" <=> owner = "closed")
  <2>1. World => UNCHANGED <<owner, busy, held, used>>
    BY DEF World, Replace, NotifyReplace, RewriteBegin, RewriteEnd, Touch,
           Delete, OtherFile, DirectoryGone
  <2>2. Owner => UNCHANGED <<busy, held, used>> /\ owner # "closed"
                   /\ owner' # "closed"
    BY DEF Owner, Closing, InstallWatch, OpenInitial, OpenFails, OwnerFails,
           StartServers, BeginShutdown, StopServers, RequestStop, SignalStop
  <2>3. Watcher => UNCHANGED <<owner, busy, held, used>>
    BY DEF Watcher, WatcherStep, WatchLoop, WatchPoll, WatchRead, WatchDrained,
           WatchOpen, WatchCopied, WatchCount, WatchNoDatabase, WatchLoadError,
           KeepPrevious, WatchError
  <2> QED BY <2>1, <2>2, <2>3 DEF Next, Done
<1>3. RegisterPhase' = RegisterPhase
  BY <1>1, <1>2 DEF RegisterPhase
<1> QED BY <1>1, <1>2, <1>3 DEF Register!rvars

(***************************************************************************)
(* ReloadableMmdb implements the register: files, events, threads and      *)
(* failures included, a frame sees one snapshot, snapshots only move       *)
(* forward, and close() empties the register when nobody reads             *)
(* (mmdb_reload.cpp:75-139, spoa_agent.cpp:137-177, main.cpp:161-209).     *)
(***************************************************************************)
THEOREM Refinement == Spec => ImplementsRegister
<1>1. Init => Register!Init
  BY DEF Init, Register!Init, RegisterPhase
<1>2. Init => SafeInv /\ VersionInv
  <2>1. Init => VersionInv
    BY DEF Init, VersionInv, Covers
  <2> QED BY <2>1, InitSafe
<1>3. HandledInv /\ SafeInv /\ VersionInv /\ [Next]_vars => (SafeInv /\ VersionInv)'
  BY NextSafe, NextVersion DEF HandledInv
<1>4. RefinementInv /\ [Next]_vars => [Register!Next]_(Register!rvars)
  <2> SUFFICES ASSUME RefinementInv, [Next]_vars
               PROVE  Register!Next \/ UNCHANGED Register!rvars
    OBVIOUS
  <2>1. CASE PublishInitial \/ WatchPublish
    BY <2>1, PublisherPublishes DEF Register!Next
  <2>2. CASE JoinAndRelease
    BY <2>2, ReleaseCloses DEF Register!Next
  <2>3. ASSUME NEW r \in Readers, Reader(r) PROVE Register!Next
    BY <2>3, FrameReads DEF Register!Next
  <2> QED BY <2>1, <2>2, <2>3, OthersStutter
<1> QED BY <1>1, <1>2, <1>3, <1>4, Handled, PTL
           DEF Spec, ImplementsRegister, Register!Spec, RefinementInv
=============================================================================
