------------------------------ MODULE RefreshJob ------------------------------
(***************************************************************************)
(* The refresh of the MMDB file: job_fetch_and_create_mmdb and             *)
(* ensure_mmdb_available (src/main.cpp:53-116), the Git checkout it        *)
(* prepares (git_repository.cpp) and the compilation that publishes the    *)
(* file (compiler.cpp:318-437).  The job runs at startup and then once per *)
(* schedule, never twice at a time; the process may die in the middle and  *)
(* be restarted.                                                           *)
(*                                                                         *)
(* Commits of the remote branch are numbered from 1; times[c] is the date  *)
(* of commit c in seconds.  A working tree, and a database compiled from   *)
(* it, is the set of the commits it mixes: {c} is commit c whole, and 0    *)
(* stands for files that are missing.                                      *)
(*                                                                         *)
(* The definitions HeadMovedFirst, FetchErrorIgnored, BuiltInPlace and     *)
(* StartsAnyway are not part of the specification: each is a plausible     *)
(* mistake in the definition that follows it, and some property below must *)
(* fail with it.                                                           *)
(***************************************************************************)
EXTENDS Naturals, Sequences

CONSTANTS
  MaxClock,    \* bound: seconds of wall-clock time
  MaxCommits,  \* bound: commits of the remote branch
  MaxCrashes,  \* bound: deaths of the process
  MaxLag,      \* how long before its push a commit may be dated
  CrashPoints  \* the steps of the job at which the process may die

ASSUME RefreshJobAssumption ==
  /\ MaxClock \in Nat \ {0} /\ MaxCommits \in Nat \ {0}
  /\ MaxCrashes \in Nat /\ MaxLag \in Nat

VARIABLES
  clock,       \* the wall clock
  times,       \* dates of the commits of the remote branch
  head,        \* HEAD of the checkout, 0 when there is no checkout
  tracking,    \* refs/remotes/origin/master of the checkout
  tree,        \* the commits mixed in the working tree
  pc,          \* the step of the job, "idle" when none runs
  last_commit, \* last_commit_unix of this run
  build,       \* the database this run builds
  mmdb,        \* the file at MMDB_PATH
  tmps,        \* temporary files beside it
  alive,       \* the process exists
  up,          \* it has started its servers
  crashes,     \* deaths so far
  tip          \* the remote's last commit when this run started

repo == <<head, tracking, tree>>
proc == <<alive, up, crashes>>
vars == <<clock, times, repo, pc, last_commit, build, mmdb, tmps, proc, tip>>

Remote   == Len(times)
Time(c)  == IF c = 0 THEN 0 ELSE times[c]
Database == [state : {"absent", "bad", "ok"}, epoch : Nat, content : SUBSET Nat]
Blank(s) == [state |-> s, epoch |-> 0, content |-> {}]

\* A fresh host, possibly with a file that is not a database.
Init ==
  /\ clock = 1 /\ times = <<1>>
  /\ head = 0 /\ tracking = 0 /\ tree = {}
  /\ pc = "idle" /\ last_commit = 0
  /\ build = Blank("absent")
  /\ mmdb \in {Blank("absent"), Blank("bad")}
  /\ tmps = 0
  /\ alive = FALSE /\ up = FALSE /\ crashes = 0
  /\ tip = 0
-----------------------------------------------------------------------------
(***************************************************************************)
(* Time and the remote repository.  A push is seen after everything before *)
(* it; its commit was dated at most MaxLag seconds earlier, and after 0.   *)
(***************************************************************************)
Tick ==
  /\ clock < MaxClock
  /\ clock' = clock + 1
  /\ UNCHANGED <<times, repo, pc, last_commit, build, mmdb, tmps, proc, tip>>

Push ==
  /\ clock < MaxClock /\ Remote < MaxCommits
  /\ clock' = clock + 1
  /\ \E lag \in 0..MaxLag :
       lag <= clock /\ times' = Append(times, clock + 1 - lag)
  /\ UNCHANGED <<repo, pc, last_commit, build, mmdb, tmps, proc, tip>>
-----------------------------------------------------------------------------
Begin ==
  /\ pc' = "open"
  /\ tip' = Remote
  /\ last_commit' = 0 /\ build' = Blank("absent")
  /\ UNCHANGED <<clock, times, repo, mmdb, tmps, crashes>>

\* main() runs the job before it starts the servers.
Startup == ~alive /\ Begin /\ alive' = TRUE /\ up' = FALSE

\* "0 * * * *".
Scheduled == alive /\ up /\ pc = "idle" /\ Begin /\ UNCHANGED <<alive, up>>

StartsAnyway ==
  /\ pc' = "idle"
  /\ up' = TRUE
  /\ UNCHANGED <<alive, crashes, clock, times, tip>>

(***************************************************************************)
(* The end of a run, successful or not.  At startup the process goes on if *)
(* there is a database to open, and exits otherwise: after a failed job    *)
(* without a regular file (main.cpp:108-109), and with one that is not a   *)
(* database when open() throws (main.cpp:162), before any server starts.   *)
(***************************************************************************)
JobEnds ==
  /\ pc' = "idle"
  /\ up' = (up \/ mmdb'.state = "ok")
  /\ alive' = up'
  /\ UNCHANGED <<crashes, clock, times, tip>>

Goto(step) == pc' = step /\ UNCHANGED <<clock, times, proc, tip>>

(***************************************************************************)
(* prepare_repository().  libgit2 sets HEAD before it checks a clone out,  *)
(* and moves HEAD after it has checked a hard reset out.                   *)
(***************************************************************************)
OpenCheckout ==
  /\ pc = "open" /\ head # 0
  /\ Goto("compare")
  /\ UNCHANGED <<repo, last_commit, build, mmdb, tmps>>

Clone ==
  /\ pc = "open" /\ head = 0
  /\ head' = Remote /\ tracking' = Remote /\ tree' = {0, Remote}
  /\ Goto("clone")
  /\ UNCHANGED <<last_commit, build, mmdb, tmps>>

CloneDone ==
  /\ pc = "clone"
  /\ tree' = {head}
  /\ Goto("compare")
  /\ UNCHANGED <<head, tracking, last_commit, build, mmdb, tmps>>

CompareEqual ==
  /\ pc = "compare" /\ head = Remote
  /\ last_commit' = Time(head)
  /\ Goto("check")
  /\ UNCHANGED <<repo, build, mmdb, tmps>>

\* The remote moved, or could not be asked.
CompareOther ==
  /\ pc = "compare"
  /\ Goto("fetch")
  /\ UNCHANGED <<repo, last_commit, build, mmdb, tmps>>

FetchErrorIgnored ==
  /\ pc = "fetch"
  /\ tracking' \in {tracking, Remote}
  /\ Goto("decide")
  /\ UNCHANGED <<head, tree, last_commit, build, mmdb, tmps>>

Fetch ==
  /\ pc = "fetch"
  /\ tracking' = Remote
  /\ Goto("decide")
  /\ UNCHANGED <<head, tree, last_commit, build, mmdb, tmps>>

\* "Only reset if remote commit date is strictly greater".
NoReset ==
  /\ pc = "decide" /\ Time(tracking) <= Time(head)
  /\ last_commit' = Time(head)
  /\ Goto("check")
  /\ UNCHANGED <<repo, build, mmdb, tmps>>

HeadMovedFirst ==
  /\ pc = "decide" /\ Time(tracking) > Time(head)
  /\ tree' = tree \cup {tracking} /\ head' = tracking
  /\ Goto("reset")
  /\ UNCHANGED <<tracking, last_commit, build, mmdb, tmps>>

Reset ==
  /\ pc = "decide" /\ Time(tracking) > Time(head)
  /\ tree' = tree \cup {tracking}
  /\ Goto("reset")
  /\ UNCHANGED <<head, tracking, last_commit, build, mmdb, tmps>>

ResetDone ==
  /\ pc = "reset"
  /\ tree' = {tracking} /\ head' = tracking
  /\ last_commit' = Time(tracking)
  /\ Goto("check")
  /\ UNCHANGED <<tracking, build, mmdb, tmps>>
-----------------------------------------------------------------------------
UpToDate == mmdb.state = "ok" /\ mmdb.epoch >= last_commit

Skip ==
  /\ pc = "check" /\ UpToDate
  /\ UNCHANGED <<repo, last_commit, build, mmdb, tmps>>
  /\ JobEnds

\* compile_to_mmdb(): the builder takes its epoch, the workers read the tree.
Compile ==
  /\ pc = "check" /\ ~UpToDate
  /\ build' = [state |-> "ok", epoch |-> clock, content |-> tree]
  /\ Goto("compile")
  /\ UNCHANGED <<repo, last_commit, mmdb, tmps>>

BuiltInPlace ==
  /\ pc = "compile"
  /\ tmps' = tmps + 1
  /\ mmdb' = Blank("bad")
  /\ Goto("build")
  /\ UNCHANGED <<repo, last_commit, build>>

\* TemporaryMmdb and builder.build().
Build ==
  /\ pc = "compile"
  /\ tmps' = tmps + 1
  /\ Goto("build")
  /\ UNCHANGED <<repo, last_commit, build, mmdb>>

Rename ==
  /\ pc = "build"
  /\ mmdb' = build
  /\ tmps' = tmps - 1
  /\ UNCHANGED <<repo, last_commit, build>>
  /\ JobEnds

(***************************************************************************)
(* A step fails and the job throws: another origin, no network, an error   *)
(* of a worker, no space.  A failed clone and the temporary file are       *)
(* removed; a failed reset leaves the working tree as it is.               *)
(***************************************************************************)
Fail ==
  /\ pc \in {"open", "clone", "compare", "fetch", "decide", "reset",
            "compile", "build"}
  /\ IF pc = "clone" THEN head' = 0 /\ tracking' = 0 /\ tree' = {}
                     ELSE UNCHANGED repo
  /\ tmps' = IF pc = "build" THEN tmps - 1 ELSE tmps
  /\ UNCHANGED <<last_commit, build, mmdb>>
  /\ JobEnds

\* The process dies in the middle of a step and cleans nothing up.
Crash ==
  /\ pc \in CrashPoints /\ crashes < MaxCrashes
  /\ crashes' = crashes + 1
  /\ alive' = FALSE /\ up' = FALSE /\ pc' = "idle"
  /\ UNCHANGED <<clock, times, repo, last_commit, build, mmdb, tmps, tip>>

Prepare ==
  \/ OpenCheckout \/ Clone \/ CloneDone \/ CompareEqual \/ CompareOther
  \/ Fetch \/ NoReset \/ Reset \/ ResetDone

Job == Prepare \/ Skip \/ Compile \/ Build \/ Rename \/ Fail

Next == Tick \/ Push \/ Startup \/ Scheduled \/ Job \/ Crash

Spec == Init /\ [][Next]_vars
-----------------------------------------------------------------------------
\* Type invariant.
TypeOK ==
  /\ clock \in 1..MaxClock
  /\ times \in Seq(Nat) /\ Remote \in 1..MaxCommits
  /\ head \in 0..Remote /\ tracking \in 0..Remote
  /\ tree \subseteq 0..Remote
  /\ pc \in {"idle", "open", "clone", "compare", "fetch", "decide", "reset",
             "check", "compile", "build"}
  /\ last_commit \in Nat
  /\ build \in Database /\ mmdb \in Database
  /\ tmps \in Nat /\ crashes \in 0..MaxCrashes
  /\ alive \in BOOLEAN /\ up \in BOOLEAN
  /\ tip \in 0..Remote

\* Every commit of the remote is dated after those before it.
DatedInOrder == \A i, j \in 1..Remote : i < j => times[i] < times[j]

(***************************************************************************)
(* The published database is compiled from one whole commit, although the  *)
(* process may have died in the middle of a reset or of a compilation and  *)
(* a failed reset leaves a mixed working tree (git_repository.cpp:162-232).*)
(* This is said of commits that are dated in order: the test of the dates  *)
(* (git_repository.cpp:219) keeps a mixed tree when the commit to repair   *)
(* it with is not dated later than HEAD.                                   *)
(***************************************************************************)
PublishedIsWhole ==
  DatedInOrder /\ mmdb.state = "ok" => \E c \in 1..Remote : mmdb.content = {c}

(***************************************************************************)
(* Once there is a database there is one for ever: no failure or crash     *)
(* leaves MMDB_PATH without a complete file (compiler.cpp:409-419).        *)
(***************************************************************************)
AlwaysUsable == [][mmdb.state = "ok" => mmdb'.state = "ok"]_mmdb

(***************************************************************************)
(* What is on disk suits the process: the servers run only with a          *)
(* database, so that startup goes on after a failed job only if a usable   *)
(* file is there (main.cpp:97-116, README.md:467-469), and the temporary   *)
(* files left over are those of dead processes (compiler.cpp:257-285).     *)
(***************************************************************************)
DiskSuitsProcess ==
  /\ TypeOK
  /\ up => mmdb.state = "ok"
  /\ tmps <= crashes + (IF pc = "build" THEN 1 ELSE 0)

(***************************************************************************)
(* After preparation the checkout is at the commit that was the remote's   *)
(* last when the run started, or at a later one, wherever earlier runs     *)
(* failed or died; the one exception is a commit that was fetched and is   *)
(* not dated later than HEAD.  The interface promises more, "hard          *)
(* resetting to the latest commit of default_branch"                       *)
(* (git_repository.hpp:28-29); the code says "Only reset if remote commit  *)
(* date is strictly greater" (git_repository.cpp:218-219).                 *)
(***************************************************************************)
CheckoutIsLatest ==
  pc = "check" =>
    head >= tip \/ (tracking >= tip /\ Time(tracking) <= Time(head))

(***************************************************************************)
(* A run that finds the file up to date and skips the compilation leaves a *)
(* database at least as new as the remote's last commit when it started    *)
(* (main.cpp:69-81).                                                       *)
(***************************************************************************)
SkipsOnlyCurrent ==
  (pc = "check" /\ UpToDate) => \A c \in mmdb.content : c >= tip
=============================================================================
