--------------------------- MODULE RefreshJobProofs ---------------------------
(***************************************************************************)
(* Proofs about RefreshJob, for every bound on time, commits and deaths.   *)
(***************************************************************************)
EXTENDS RefreshJob, SequenceTheorems, TLAPS

\* Only a living process runs the job.
ProcessInv ==
  /\ ~alive => pc = "idle" /\ ~up
  /\ up => mmdb.state = "ok"

\* Each temporary file is the running job's or was left by a death.
TemporaryInv ==
  /\ pc = "build" => tmps >= 1
  /\ tmps <= crashes + (IF pc = "build" THEN 1 ELSE 0)

\* What a job is about to publish is a database.
BuildInv == pc \in {"compile", "build"} => build.state = "ok"

DiskInv == TypeOK /\ ProcessInv /\ TemporaryInv /\ BuildInv
-----------------------------------------------------------------------------
\* The initial states.
LEMMA InitDisk == Init => DiskInv
<1> SUFFICES ASSUME Init PROVE DiskInv
  OBVIOUS
<1> USE RefreshJobAssumption
<1>1. /\ clock = 1 /\ head = 0 /\ tracking = 0 /\ tree = {} /\ pc = "idle"
      /\ last_commit = 0 /\ tmps = 0 /\ crashes = 0 /\ tip = 0
  BY DEF Init
<1>2. alive \in BOOLEAN /\ up \in BOOLEAN /\ ~alive /\ ~up
  BY DEF Init
<1>3. times \in Seq(Nat) /\ Remote = 1
  BY DEF Init, Remote
<1>4. build \in Database /\ mmdb \in Database
  BY DEF Init, Database, Blank
<1>5. TypeOK
  BY <1>1, <1>2, <1>3, <1>4 DEF TypeOK
<1> QED BY <1>1, <1>2, <1>5 DEF DiskInv, ProcessInv, TemporaryInv, BuildInv

\* A push appends one commit and moves nothing before it.
LEMMA Pushed ==
  ASSUME TypeOK, Push
  PROVE  /\ times' \in Seq(Nat) /\ Remote' = Remote + 1 /\ Remote \in Nat
         /\ \A i \in 1..Remote : times'[i] = times[i]
         /\ clock' = clock + 1 /\ clock' \in 1..MaxClock
         /\ Remote' \in 1..MaxCommits
<1> USE RefreshJobAssumption
<1>1. times \in Seq(Nat) /\ clock \in 1..MaxClock /\ Len(times) \in 1..MaxCommits
  BY DEF TypeOK, Remote
<1>2. PICK lag \in 0..MaxLag :
        lag <= clock /\ times' = Append(times, clock + 1 - lag)
  BY DEF Push
<1>3. clock + 1 - lag \in Nat /\ lag \in Nat
  BY <1>1, <1>2
<1>4. /\ times' \in Seq(Nat) /\ Len(times') = Len(times) + 1
      /\ \A i \in 1..Len(times) : times'[i] = times[i]
  BY <1>1, <1>2, <1>3
<1>5. clock' = clock + 1 /\ clock < MaxClock /\ Len(times) < MaxCommits
  BY DEF Push, Remote
<1> QED BY <1>1, <1>3, <1>4, <1>5 DEF Remote

\* What the steps of the job read is of its type.
LEMMA Facts ==
  ASSUME TypeOK
  PROVE  /\ Remote \in Nat \ {0} /\ clock \in Nat
         /\ Time(head) \in Nat /\ Time(tracking) \in Nat
<1>1. times \in Seq(Nat) /\ Len(times) \in Nat \ {0} /\ clock \in Nat
  BY RefreshJobAssumption DEF TypeOK, Remote
<1>2. \A c \in 0..Len(times) : Time(c) \in Nat
  BY <1>1 DEF Time
<1> QED BY <1>1, <1>2 DEF TypeOK, Remote

\* prepare_repository() touches neither the database nor temporary files.
LEMMA PrepareDisk == ASSUME DiskInv, Prepare PROVE DiskInv'
<1> USE RefreshJobAssumption DEF Goto, repo, proc
<1>1. TypeOK /\ ProcessInv /\ TemporaryInv /\ BuildInv
  BY DEF DiskInv
<1>2. /\ Remote \in Nat \ {0} /\ clock \in Nat
      /\ Time(head) \in Nat /\ Time(tracking) \in Nat
  BY <1>1, Facts
<1>3. CASE OpenCheckout
  BY <1>1, <1>2, <1>3 DEF OpenCheckout, DiskInv, TypeOK, ProcessInv, TemporaryInv, BuildInv, Remote
<1>4. CASE Clone
  BY <1>1, <1>2, <1>4 DEF Clone, DiskInv, TypeOK, ProcessInv, TemporaryInv, BuildInv, Remote
<1>5. CASE CloneDone
  BY <1>1, <1>2, <1>5 DEF CloneDone, DiskInv, TypeOK, ProcessInv, TemporaryInv, BuildInv, Remote
<1>6. CASE CompareEqual
  BY <1>1, <1>2, <1>6 DEF CompareEqual, DiskInv, TypeOK, ProcessInv, TemporaryInv, BuildInv, Remote
<1>7. CASE CompareOther
  BY <1>1, <1>2, <1>7 DEF CompareOther, DiskInv, TypeOK, ProcessInv, TemporaryInv, BuildInv, Remote
<1>8. CASE Fetch
  BY <1>1, <1>2, <1>8 DEF Fetch, DiskInv, TypeOK, ProcessInv, TemporaryInv, BuildInv, Remote
<1>9. CASE NoReset
  BY <1>1, <1>2, <1>9 DEF NoReset, DiskInv, TypeOK, ProcessInv, TemporaryInv, BuildInv, Remote
<1>10. CASE Reset
  BY <1>1, <1>2, <1>10 DEF Reset, DiskInv, TypeOK, ProcessInv, TemporaryInv, BuildInv, Remote
<1>11. CASE ResetDone
  BY <1>1, <1>2, <1>11 DEF ResetDone, DiskInv, TypeOK, ProcessInv, TemporaryInv, BuildInv, Remote
<1> QED BY <1>3, <1>4, <1>5, <1>6, <1>7, <1>8, <1>9, <1>10, <1>11 DEF Prepare

\* The end of a run: the process goes on exactly if it has a database.
LEMMA JobEndsDisk ==
  ASSUME DiskInv, JobEnds, pc # "idle",
         UNCHANGED <<last_commit, build>>,
         head' = 0 \/ head' = head, tracking' = 0 \/ tracking' = tracking,
         tree' = {} \/ tree' = tree,
         mmdb' = mmdb \/ (mmdb' = build /\ mmdb'.state = "ok"),
         tmps' = IF pc = "build" THEN tmps - 1 ELSE tmps
  PROVE  DiskInv'
<1> USE RefreshJobAssumption
<1>1. TypeOK /\ ProcessInv /\ TemporaryInv /\ BuildInv
  BY DEF DiskInv
<1>2. pc' = "idle" /\ UNCHANGED <<crashes, clock, times, tip>>
  BY DEF JobEnds
<1>3. up' = (up \/ mmdb'.state = "ok") /\ alive' = up' /\ up \in BOOLEAN
  BY <1>1 DEF JobEnds, TypeOK
<1>4. up' \in BOOLEAN /\ alive' \in BOOLEAN
  BY <1>3, Zenon
<1>5. up' => mmdb'.state = "ok"
  BY <1>1, <1>3 DEF ProcessInv
<1>6. tmps' \in Nat /\ tmps' <= crashes
  <2>1. tmps \in Nat /\ crashes \in Nat
    BY <1>1 DEF TypeOK
  <2> QED BY <1>1, <2>1 DEF TemporaryInv
<1>7. mmdb' \in Database
  BY <1>1 DEF TypeOK
<1>8. TypeOK'
  <2>1. Remote' = Remote /\ Remote \in Nat
    BY <1>1, <1>2 DEF TypeOK, Remote
  <2>2. head' \in 0..Remote /\ tracking' \in 0..Remote
    BY <1>1, <2>1 DEF TypeOK
  <2>3. tree \subseteq 0..Remote
    BY <1>1 DEF TypeOK
  <2>4. tree' \subseteq 0..Remote
    BY <2>3, Zenon
  <2> QED BY <1>1, <1>2, <1>4, <1>6, <1>7, <2>1, <2>2, <2>4 DEF TypeOK
<1>9. ProcessInv'
  BY <1>2, <1>3, <1>5, Zenon DEF ProcessInv
<1>10. TemporaryInv' /\ BuildInv'
  BY <1>2, <1>6, <1>8 DEF TemporaryInv, BuildInv, TypeOK
<1> QED BY <1>8, <1>9, <1>10 DEF DiskInv

\* Every step keeps the disk.
LEMMA NextDisk == ASSUME DiskInv, [Next]_vars PROVE DiskInv'
<1> USE RefreshJobAssumption DEF Goto, repo, proc
<1>1. TypeOK /\ ProcessInv /\ TemporaryInv /\ BuildInv
  BY DEF DiskInv
<1>2. /\ Remote \in Nat \ {0} /\ clock \in Nat
      /\ Time(head) \in Nat /\ Time(tracking) \in Nat
  BY <1>1, Facts
<1>3. CASE Tick
  BY <1>1, <1>2, <1>3 DEF Tick, DiskInv, TypeOK, ProcessInv, TemporaryInv, BuildInv, Remote
<1>4. CASE Push
  <2>1. /\ times' \in Seq(Nat) /\ Remote' = Remote + 1
        /\ clock' \in 1..MaxClock /\ Remote' \in 1..MaxCommits
    BY <1>1, <1>4, Pushed
  <2> QED BY <1>1, <1>2, <1>4, <2>1
          DEF Push, DiskInv, TypeOK, ProcessInv, TemporaryInv, BuildInv
<1>5. CASE Startup \/ Scheduled
  <2>1. Blank("absent") \in Database
    BY DEF Blank, Database
  <2>2. /\ pc = "idle" /\ pc' = "open" /\ tip' = Remote /\ last_commit' = 0
        /\ build' = Blank("absent")
        /\ UNCHANGED <<clock, times, head, tracking, tree, mmdb, tmps, crashes>>
    BY <1>1, <1>5 DEF Startup, Scheduled, Begin, ProcessInv
  <2>3. alive' \in BOOLEAN /\ up' \in BOOLEAN /\ alive' /\ (up' => up)
    <3>1. CASE Startup
      BY <3>1 DEF Startup
    <3>2. CASE Scheduled
      BY <1>1, <3>2 DEF Scheduled, TypeOK
    <3> QED BY <1>5, <3>1, <3>2
  <2>4. TypeOK'
    BY <1>1, <1>2, <2>1, <2>2, <2>3 DEF TypeOK, Remote
  <2> QED BY <1>1, <2>2, <2>3, <2>4
          DEF DiskInv, ProcessInv, TemporaryInv, BuildInv, TypeOK
<1>6. CASE Prepare
  BY <1>6, PrepareDisk
<1>7. CASE Skip
  BY <1>1, <1>2, <1>7 DEF Skip, UpToDate, JobEnds, DiskInv, TypeOK, ProcessInv,
                          TemporaryInv, BuildInv, Remote
<1>8. CASE Compile
  <2>1. build' \in Database /\ build'.state = "ok"
    BY <1>1, <1>2, <1>8 DEF Compile, Database, TypeOK
  <2> QED BY <1>1, <1>2, <1>8, <2>1
          DEF Compile, DiskInv, TypeOK, ProcessInv, TemporaryInv, BuildInv, Remote
<1>9. CASE Build
  BY <1>1, <1>2, <1>9 DEF Build, DiskInv, TypeOK, ProcessInv, TemporaryInv, BuildInv, Remote
<1>10. CASE Rename
  <2>1. /\ pc = "build" /\ mmdb' = build /\ tmps' = tmps - 1
        /\ UNCHANGED <<clock, times, head, tracking, tree, last_commit, build>>
    BY <1>10 DEF Rename, JobEnds
  <2>2. mmdb'.state = "ok" /\ tmps >= 1
    BY <1>1, <2>1 DEF BuildInv, TemporaryInv
  <2> QED BY <1>10, <2>1, <2>2, JobEndsDisk DEF Rename
<1>11. CASE Fail
  <2>1. /\ pc # "idle" /\ UNCHANGED <<clock, times, last_commit, build, mmdb>>
        /\ tmps' = IF pc = "build" THEN tmps - 1 ELSE tmps
    BY <1>11 DEF Fail, JobEnds
  <2>2. /\ head' = 0 \/ head' = head
        /\ tracking' = 0 \/ tracking' = tracking
        /\ tree' = {} \/ tree' = tree
    BY <1>11 DEF Fail
  <2> QED BY <1>1, <1>11, <2>1, <2>2, JobEndsDisk DEF Fail, ProcessInv
<1>12. CASE Crash
  <2>1. /\ alive' \in BOOLEAN /\ up' \in BOOLEAN /\ ~up' /\ pc' = "idle"
        /\ crashes' = crashes + 1 /\ crashes' \in 0..MaxCrashes
    <3>1. alive' = FALSE /\ up' = FALSE
      BY <1>12 DEF Crash
    <3>2. crashes' = crashes + 1 /\ crashes < MaxCrashes /\ pc' = "idle"
      BY <1>12 DEF Crash
    <3>3. crashes \in 0..MaxCrashes
      BY <1>1 DEF TypeOK
    <3>4. crashes' \in 0..MaxCrashes
      BY <3>2, <3>3
    <3> QED BY <3>1, <3>2, <3>4, Zenon
  <2>2. UNCHANGED <<clock, times, head, tracking, tree, last_commit, build, mmdb, tmps, tip>>
    BY <1>12 DEF Crash
  <2>3. TypeOK'
    BY <1>1, <2>1, <2>2 DEF TypeOK, Remote
  <2>4. ProcessInv' /\ BuildInv'
    BY <2>1 DEF ProcessInv, BuildInv
  <2>5. TemporaryInv'
    BY <1>1, <2>1, <2>2 DEF TemporaryInv, TypeOK
  <2> QED BY <2>3, <2>4, <2>5 DEF DiskInv
<1>13. CASE UNCHANGED vars
  BY <1>1, <1>13 DEF vars, DiskInv, TypeOK, ProcessInv, TemporaryInv, BuildInv, Remote
<1> QED BY <1>3, <1>4, <1>5, <1>6, <1>7, <1>8, <1>9, <1>10, <1>11, <1>12, <1>13
        DEF Next, Job

\* It holds of every behaviour.
LEMMA DiskInvariance == Spec => []DiskInv
BY InitDisk, NextDisk, PTL DEF Spec

(***************************************************************************)
(* The servers run only with a usable database, and temporary files that   *)
(* stay behind are those of dead processes (main.cpp:97-116,               *)
(* compiler.cpp:257-285): wherever the process dies, and whichever step of *)
(* a run fails.                                                            *)
(***************************************************************************)
THEOREM ServersHaveDatabase == Spec => []DiskSuitsProcess
<1>1. DiskInv => DiskSuitsProcess
  BY DEF DiskInv, ProcessInv, TemporaryInv, DiskSuitsProcess
<1> QED BY <1>1, DiskInvariance, PTL

(***************************************************************************)
(* Once there is a database at MMDB_PATH there is one for ever             *)
(* (compiler.cpp:409-419): only a rename changes the file, and what it     *)
(* renames is complete.                                                    *)
(***************************************************************************)
THEOREM DatabaseStays == Spec => AlwaysUsable
<1>1. ASSUME DiskInv, [Next]_vars PROVE [mmdb.state = "ok" => mmdb'.state = "ok"]_mmdb
  <2>1. CASE Rename
    BY <1>1, <2>1 DEF Rename, DiskInv, BuildInv
  <2>2. CASE ~Rename
    BY <1>1, <2>2 DEF Next, Tick, Push, Startup, Scheduled, Begin, Job, Prepare,
       OpenCheckout, Clone, CloneDone, CompareEqual, CompareOther, Fetch, NoReset,
       Reset, ResetDone, Skip, Compile, Build, Fail, Crash, vars
  <2> QED BY <2>1, <2>2
<1> QED BY <1>1, DiskInvariance, PTL DEF Spec, AlwaysUsable
-----------------------------------------------------------------------------
(***************************************************************************)
(* Where the checkout may be, and where it may be mixed.  A hard reset     *)
(* moves HEAD last, so that a working tree that is not HEAD's is behind    *)
(* the remote: the next run finds a difference, a newer commit, and resets *)
(* again.  This needs commits that are dated in the order of their pushes, *)
(* and a clone that is not interrupted.  Commits are never taken back, so  *)
(* that the dates of a step's first state are in order if those of its     *)
(* second state are.                                                       *)
(***************************************************************************)

\* What a run knows of the remote is no older than its start.
RemoteInv ==
  /\ pc \in {"clone", "compare", "fetch", "decide", "reset", "check"} => head # 0
  /\ pc \in {"decide", "reset"} => tracking # 0 /\ tracking >= tip
  /\ CheckoutIsLatest

\* A tree that is not HEAD's belongs to a HEAD that will move.
TreeInv ==
  /\ pc # "clone" /\ head # 0 => tree = {head} \/ head < Remote
  /\ pc = "decide" => tree = {head} \/ head < tracking
  /\ pc = "check" => tree = {head}

Whole(d) == \E c \in 1..Remote : d.content = {c}

ContentInv ==
  /\ pc \in {"compile", "build"} => Whole(build)
  /\ mmdb.state = "ok" => Whole(mmdb)

LatestInv == DiskInv /\ RemoteInv
WholeInv  == LatestInv /\ (DatedInOrder => TreeInv /\ ContentInv)

\* The remote only grows, and a commit keeps its date.
LEMMA RemoteGrows ==
  ASSUME TypeOK, [Next]_vars
  PROVE  /\ Remote \in Nat /\ Remote' \in Nat /\ Remote <= Remote'
         /\ \A i \in 1..Remote : times'[i] = times[i]
<1>1. Remote \in Nat
  BY Facts
<1>2. CASE Push
  BY <1>1, <1>2, Pushed
<1>3. CASE ~Push
  <2>1. times' = times
    BY <1>3 DEF Next, Tick, Startup, Scheduled, Begin, Job, Prepare, Goto, JobEnds,
       OpenCheckout, Clone, CloneDone, CompareEqual, CompareOther, Fetch, NoReset,
       Reset, ResetDone, Skip, Compile, Build, Rename, Fail, Crash, vars
  <2> QED BY <1>1, <2>1 DEF Remote
<1> QED BY <1>2, <1>3

\* Dates in order were in order before.
LEMMA DatesWereInOrder ==
  ASSUME TypeOK, [Next]_vars, DatedInOrder'
  PROVE  DatedInOrder
<1>1. /\ Remote \in Nat /\ Remote' \in Nat /\ Remote <= Remote'
      /\ \A i \in 1..Remote : times'[i] = times[i]
  BY RemoteGrows
<1> SUFFICES ASSUME NEW i \in 1..Remote, NEW j \in 1..Remote, i < j
             PROVE  times[i] < times[j]
  BY DEF DatedInOrder
<1>2. i \in 1..Remote' /\ j \in 1..Remote'
  BY <1>1
<1>3. times'[i] < times'[j]
  BY <1>2 DEF DatedInOrder
<1> QED BY <1>1, <1>3

\* With dates in order, comparing dates compares commits.
LEMMA DatesCompare ==
  ASSUME TypeOK, DatedInOrder, NEW a \in 0..Remote, NEW b \in 0..Remote
  PROVE  /\ Time(a) > Time(b) => a > b
         /\ Time(a) <= Time(b) /\ b # 0 => a <= b
<1>1. times \in Seq(Nat) /\ Remote \in Nat /\ Remote = Len(times)
  BY DEF TypeOK, Remote
<1>2. \A c \in 1..Remote : times[c] \in Nat
  BY <1>1
<1>3. a \in Nat /\ b \in Nat /\ (a # 0 => a \in 1..Remote) /\ (b # 0 => b \in 1..Remote)
  BY <1>1
<1>4. Time(a) \in Nat /\ Time(b) \in Nat
  BY <1>2, <1>3 DEF Time
<1>5. ASSUME Time(a) > Time(b) PROVE a > b
  <2>1. a # 0 /\ Time(a) = times[a]
    BY <1>4, <1>5 DEF Time
  <2>2. CASE b = 0
    BY <1>3, <2>1, <2>2
  <2>3. CASE b # 0
    BY <1>2, <1>3, <1>5, <2>1, <2>3 DEF Time, DatedInOrder
  <2> QED BY <2>2, <2>3
<1>6. ASSUME Time(a) <= Time(b), b # 0 PROVE a <= b
  <2>1. CASE a = 0
    BY <1>3, <2>1
  <2>2. CASE a # 0
    BY <1>2, <1>3, <1>6, <2>2 DEF Time, DatedInOrder
  <2> QED BY <2>1, <2>2
<1> QED BY <1>5, <1>6

\* The initial states.
LEMMA InitLatest == Init => LatestInv
<1> SUFFICES ASSUME Init PROVE LatestInv
  OBVIOUS
<1>1. DiskInv
  BY InitDisk
<1>2. RemoteInv
  BY DEF Init, RemoteInv, CheckoutIsLatest
<1> QED BY <1>1, <1>2 DEF LatestInv

\* Every step keeps it.
LEMMA NextLatest == ASSUME LatestInv, [Next]_vars PROVE LatestInv'
<1> USE DEF Goto, repo, proc
<1>1. DiskInv /\ TypeOK /\ RemoteInv
  BY DEF LatestInv, DiskInv
<1>2. DiskInv'
  BY <1>1, NextDisk
<1>3. /\ Remote \in Nat \ {0} /\ head \in Nat /\ tracking \in Nat /\ tip \in Nat
      /\ head \in 0..Remote /\ tracking \in 0..Remote /\ tip \in 0..Remote
  BY <1>1, Facts DEF TypeOK
<1> SUFFICES RemoteInv'
  BY <1>2 DEF LatestInv
<1>4. CASE Tick \/ Push \/ UNCHANGED vars
  <2>1. UNCHANGED <<pc, head, tracking, tip>>
    BY <1>4 DEF Tick, Push, vars
  <2>2. \A i \in 1..Remote : times'[i] = times[i]
    BY <1>1, RemoteGrows
  <2>3. Time(head)' = Time(head) /\ Time(tracking)' = Time(tracking)
    BY <1>3, <2>1, <2>2 DEF Time
  <2> QED BY <1>1, <2>1, <2>3 DEF RemoteInv, CheckoutIsLatest
<1>5. CASE Startup \/ Scheduled
  BY <1>5 DEF Startup, Scheduled, Begin, RemoteInv, CheckoutIsLatest
<1>6. CASE OpenCheckout \/ CloneDone \/ CompareOther
  BY <1>1, <1>6 DEF OpenCheckout, CloneDone, CompareOther, RemoteInv, CheckoutIsLatest
<1>7. CASE Clone
  BY <1>3, <1>7 DEF Clone, RemoteInv, CheckoutIsLatest
<1>8. CASE CompareEqual
  BY <1>1, <1>3, <1>8 DEF CompareEqual, RemoteInv, CheckoutIsLatest
<1>9. CASE Fetch
  BY <1>1, <1>3, <1>9 DEF Fetch, RemoteInv, CheckoutIsLatest
<1>10. CASE NoReset
  BY <1>1, <1>10 DEF NoReset, RemoteInv, CheckoutIsLatest, Time
<1>11. CASE Reset
  BY <1>1, <1>11 DEF Reset, RemoteInv, CheckoutIsLatest
<1>12. CASE ResetDone
  <2>1. tracking # 0
    BY <1>1, <1>12 DEF ResetDone, RemoteInv
  <2> QED BY <1>1, <1>3, <1>12, <2>1 DEF ResetDone, RemoteInv, CheckoutIsLatest
<1>13. CASE Skip \/ Rename \/ Fail
  BY <1>13 DEF Skip, Rename, Fail, JobEnds, RemoteInv, CheckoutIsLatest
<1>14. CASE Compile \/ Build
  BY <1>14 DEF Compile, Build, RemoteInv, CheckoutIsLatest
<1>15. CASE Crash
  BY <1>15 DEF Crash, RemoteInv, CheckoutIsLatest
<1> QED BY <1>4, <1>5, <1>6, <1>7, <1>8, <1>9, <1>10, <1>11, <1>12, <1>13, <1>14,
           <1>15 DEF Next, Job, Prepare

\* The initial states.
LEMMA InitWhole == Init => WholeInv
<1> SUFFICES ASSUME Init PROVE WholeInv
  OBVIOUS
<1>1. LatestInv
  BY InitLatest
<1>2. mmdb.state # "ok" /\ pc = "idle" /\ head = 0
  BY DEF Init, Blank
<1>3. TreeInv /\ ContentInv
  BY <1>2 DEF TreeInv, ContentInv
<1> QED BY <1>1, <1>3 DEF WholeInv

\* Every step keeps the trees of commits that are dated in order.
LEMMA NextTree ==
  ASSUME "clone" \notin CrashPoints, WholeInv, DatedInOrder, [Next]_vars
  PROVE  TreeInv'
<1> USE DEF Goto, repo, proc
<1>1. TypeOK /\ RemoteInv /\ TreeInv
  BY DEF WholeInv, LatestInv, DiskInv
<1>2. /\ Remote \in Nat \ {0} /\ head \in 0..Remote /\ tracking \in 0..Remote
      /\ head \in Nat /\ tracking \in Nat
  BY <1>1, Facts DEF TypeOK
<1>3. /\ Time(tracking) > Time(head) => tracking > head
      /\ Time(tracking) <= Time(head) /\ head # 0 => tracking <= head
  BY <1>1, <1>2, DatesCompare
<1>4. CASE Push
  <2>1. Remote' = Remote + 1
    BY <1>1, <1>4, Pushed
  <2>2. UNCHANGED <<head, tracking, tree, pc>>
    BY <1>4 DEF Push
  <2> QED BY <1>1, <1>2, <2>1, <2>2 DEF TreeInv
<1>5. CASE ~Push
  <2>1. Remote' = Remote
    BY <1>5 DEF Next, Tick, Startup, Scheduled, Begin, Job, Prepare, JobEnds,
       OpenCheckout, Clone, CloneDone, CompareEqual, CompareOther, Fetch, NoReset,
       Reset, ResetDone, Skip, Compile, Build, Rename, Fail, Crash, vars, Remote
  <2>2. CASE Tick
    BY <1>1, <2>1, <2>2 DEF Tick, TreeInv
  <2>3. CASE Startup \/ Scheduled
    <3>1. pc = "idle"
      BY <2>3 DEF Startup, Scheduled, WholeInv, LatestInv, DiskInv, ProcessInv
    <3> QED BY <1>1, <2>1, <2>3, <3>1 DEF Startup, Scheduled, Begin, TreeInv
  <2>4. CASE OpenCheckout \/ CompareOther
    BY <1>1, <2>1, <2>4 DEF OpenCheckout, CompareOther, TreeInv
  <2>5. CASE Clone
    BY <2>5 DEF Clone, TreeInv
  <2>6. CASE CloneDone
    BY <2>6 DEF CloneDone, TreeInv
  <2>7. CASE CompareEqual
    <3>1. tree = {head}
      BY <1>1, <1>2, <2>7 DEF CompareEqual, TreeInv, RemoteInv
    <3> QED BY <2>7, <3>1 DEF CompareEqual, TreeInv
  <2>8. CASE Fetch
    BY <1>1, <2>1, <2>8 DEF Fetch, TreeInv, RemoteInv
  <2>9. CASE NoReset
    <3>1. tree = {head}
      <4>1. tracking <= head /\ (tree = {head} \/ head < tracking)
        BY <1>1, <1>3, <2>9 DEF NoReset, RemoteInv, TreeInv
      <4> QED BY <1>2, <4>1
    <3> QED BY <2>9, <3>1 DEF NoReset, TreeInv
  <2>10. CASE Reset
    <3>1. head < tracking
      BY <1>2, <1>3, <2>10 DEF Reset
    <3>2. head < Remote
      BY <1>2, <3>1
    <3> QED BY <2>1, <2>10, <3>2 DEF Reset, TreeInv
  <2>11. CASE ResetDone
    BY <2>11 DEF ResetDone, TreeInv
  <2>12. CASE Skip \/ Rename \/ Compile \/ Build
    BY <1>1, <2>1, <2>12 DEF Skip, Rename, Compile, Build, JobEnds, TreeInv
  <2>13. CASE Fail
    <3>1. pc' = "idle" /\ (head' = 0 \/ (pc # "clone" /\ head' = head /\ tree' = tree))
      BY <2>13 DEF Fail, JobEnds
    <3> QED BY <1>1, <2>1, <3>1 DEF TreeInv
  <2>14. CASE Crash
    <3>1. pc # "clone" /\ pc' = "idle" /\ head' = head /\ tree' = tree
      BY <2>14 DEF Crash
    <3> QED BY <1>1, <2>1, <3>1 DEF TreeInv
  <2>15. CASE UNCHANGED vars
    BY <1>1, <2>1, <2>15 DEF vars, TreeInv
  <2> QED BY <1>5, <2>2, <2>3, <2>4, <2>5, <2>6, <2>7, <2>8, <2>9, <2>10, <2>11, <2>12,
             <2>13, <2>14, <2>15 DEF Next, Job, Prepare
<1> QED BY <1>4, <1>5

\* Every step keeps what the database was compiled from.
LEMMA NextContent ==
  ASSUME WholeInv, DatedInOrder, [Next]_vars
  PROVE  ContentInv'
<1> USE DEF Goto, repo, proc
<1>1. TypeOK /\ RemoteInv /\ TreeInv /\ ContentInv
  BY DEF WholeInv, LatestInv, DiskInv
<1>2. Remote \in Nat /\ Remote' \in Nat /\ Remote <= Remote'
  BY <1>1, RemoteGrows
<1>3. /\ build' = build /\ Whole(build) => Whole(build)'
      /\ mmdb' = mmdb /\ Whole(mmdb) => Whole(mmdb)'
      /\ mmdb' = build /\ Whole(build) => Whole(mmdb)'
  <2>1. 1..Remote \subseteq 1..Remote'
    BY <1>2
  <2> QED BY <2>1 DEF Whole
<1>4. CASE Compile
  <2>1. build'.content = {head} /\ mmdb' = mmdb
    BY <1>1, <1>4 DEF Compile, TreeInv
  <2>2. head \in 1..Remote'
    BY <1>1, <1>2, <1>4 DEF Compile, RemoteInv, TypeOK
  <2>3. Whole(build)'
    BY <2>1, <2>2 DEF Whole
  <2> QED BY <1>1, <1>3, <2>1, <2>3 DEF ContentInv
<1>5. CASE Build
  BY <1>1, <1>3, <1>5 DEF Build, ContentInv
<1>6. CASE Rename
  BY <1>1, <1>3, <1>6 DEF Rename, JobEnds, ContentInv
<1>7. CASE Tick \/ Push \/ UNCHANGED vars
  BY <1>1, <1>3, <1>7 DEF Tick, Push, vars, ContentInv
<1>8. CASE Startup \/ Scheduled \/ Prepare \/ Skip \/ Fail \/ Crash
  <2>1. pc' \notin {"compile", "build"} /\ mmdb' = mmdb
    BY <1>8 DEF Startup, Scheduled, Begin, Prepare, JobEnds,
       OpenCheckout, Clone, CloneDone, CompareEqual, CompareOther, Fetch, NoReset,
       Reset, ResetDone, Skip, Fail, Crash
  <2> QED BY <1>1, <1>3, <2>1 DEF ContentInv
<1> QED BY <1>4, <1>5, <1>6, <1>7, <1>8 DEF Next, Job
\* Every step keeps both.
LEMMA NextWhole ==
  ASSUME "clone" \notin CrashPoints, WholeInv, [Next]_vars
  PROVE  WholeInv'
<1>1. LatestInv /\ TypeOK
  BY DEF WholeInv, LatestInv, DiskInv
<1>2. LatestInv'
  BY <1>1, NextLatest
<1>3. ASSUME DatedInOrder' PROVE TreeInv' /\ ContentInv'
  <2>1. DatedInOrder
    BY <1>1, <1>3, DatesWereInOrder
  <2> QED BY <2>1, NextTree, NextContent
<1> QED BY <1>2, <1>3 DEF WholeInv
-----------------------------------------------------------------------------
(***************************************************************************)
(* A run that has prepared the checkout has it at the remote's last commit *)
(* as of its start, or at a later one, or has fetched a commit that is not *)
(* dated later than HEAD (git_repository.cpp:162-232): wherever earlier    *)
(* processes died, and whatever the dates of the commits.                  *)
(***************************************************************************)
THEOREM PreparedIsLatest == Spec => []CheckoutIsLatest
<1>1. LatestInv /\ [Next]_vars => LatestInv'
  BY NextLatest
<1>2. LatestInv => CheckoutIsLatest
  BY DEF LatestInv, RemoteInv
<1> QED BY <1>1, <1>2, InitLatest, PTL DEF Spec

(***************************************************************************)
(* When no process dies in the middle of a clone, every database that is   *)
(* published while the commits are dated in order is compiled from one     *)
(* whole commit, wherever else processes died and whichever steps failed   *)
(* (git_repository.cpp:162-232, compiler.cpp:318-437).  The hypothesis is  *)
(* needed: see the run refresh_clone.                                      *)
(***************************************************************************)
THEOREM PublishedFromOneCommit ==
  ASSUME "clone" \notin CrashPoints
  PROVE  Spec => []PublishedIsWhole
<1>1. WholeInv /\ [Next]_vars => WholeInv'
  BY NextWhole
<1>2. WholeInv => PublishedIsWhole
  BY DEF WholeInv, ContentInv, Whole, PublishedIsWhole
<1> QED BY <1>1, <1>2, InitWhole, PTL DEF Spec
=============================================================================
