----------------------------- MODULE JobScheduler -----------------------------
(***************************************************************************)
(* JobScheduler (src/job_scheduler/job_scheduler.cpp): one thread waits    *)
(* for the next occurrence of a cron expression, runs the job and plans    *)
(* the following occurrence; the owner's destructor stops and joins it.    *)
(*                                                                         *)
(* Time is the wall clock in seconds, which does not go back.  cron_next   *)
(* (croncpp.h, vendored) answers with the first occurrence strictly after  *)
(* the second it is given, so that the 500 ms back-off for an occurrence   *)
(* that is not in the future (job_scheduler.cpp:84-87) is never taken.     *)
(*                                                                         *)
(* The definitions SameSecond, WaitIgnoresStop, StopNotTested and         *)
(* ExceptionEscapes are not part of the specification: each is a plausible *)
(* mistake in the definition that follows it, and some property below must *)
(* fail with it.                                                           *)
(***************************************************************************)
EXTENDS Naturals

CONSTANTS
  Occurrences,  \* the times the cron expression names
  MaxTime       \* bound: seconds of wall-clock time

ASSUME JobSchedulerAssumption ==
  /\ Occurrences \subseteq Nat
  /\ MaxTime \in Nat

VARIABLES
  now,      \* the wall clock
  at,       \* where run() is
  next,     \* next_run_unix: the occurrence planned
  stop,     \* the thread's stop token
  owner,    \* the owner of the scheduler
  runs,     \* runs_total
  failures, \* failures_total
  running,  \* the gauge of that name
  previous  \* the occurrence that started the last job

stats         == <<runs, failures, running>>
schedulerVars == <<now, at, next, stop, owner, stats, previous>>

SchedulerInit ==
  /\ now = 0 /\ at = "plan" /\ next = 0
  /\ stop = FALSE /\ owner = "alive"
  /\ runs = 0 /\ failures = 0 /\ running = 0
  /\ previous = 0

Advance ==
  /\ now < MaxTime
  /\ now' = now + 1
  /\ UNCHANGED <<at, next, stop, owner, stats, previous>>
-----------------------------------------------------------------------------
\* The times cron_next may answer with.
After(t) == t > now

SameSecond == {t \in Occurrences : t >= now}

Later == {t \in Occurrences : After(t)}

\* The loop ends on a stop request, or when no occurrence is left.
LoopEnds ==
  /\ at = "plan" /\ (stop \/ Later = {})
  /\ at' = "exited"
  /\ UNCHANGED <<now, next, stop, owner, stats, previous>>

Plan ==
  /\ at = "plan" /\ ~stop
  /\ \E t \in Later :
       /\ \A u \in Later : t <= u
       /\ next' = t
  /\ at' = "waiting"
  /\ UNCHANGED <<now, stop, owner, stats, previous>>

WaitIgnoresStop ==
  /\ at = "waiting" /\ now >= next
  /\ at' = "woken"
  /\ UNCHANGED <<now, next, stop, owner, stats, previous>>

\* cv_.wait_until with the stop token: woken by the time or by the request.
Wake ==
  /\ at = "waiting" /\ (stop \/ now >= next)
  /\ at' = "woken"
  /\ UNCHANGED <<now, next, stop, owner, stats, previous>>

StopNotTested ==
  /\ at = "woken"
  /\ at' = "start"
  /\ UNCHANGED <<now, next, stop, owner, stats, previous>>

AfterWait ==
  /\ at = "woken"
  /\ at' = IF stop THEN "exited" ELSE "start"
  /\ UNCHANGED <<now, next, stop, owner, stats, previous>>

JobStarts ==
  /\ at = "start"
  /\ at' = "job"
  /\ runs' = runs + 1 /\ running' = 1
  /\ previous' = next
  /\ UNCHANGED <<now, next, stop, owner, failures>>

JobReturns ==
  /\ at = "job"
  /\ at' = "ended"
  /\ UNCHANGED <<now, next, stop, owner, stats, previous>>

ExceptionEscapes ==
  /\ at = "job"
  /\ at' = "exited"
  /\ failures' = failures + 1
  /\ UNCHANGED <<now, next, stop, owner, runs, running, previous>>

JobThrows ==
  /\ at = "job"
  /\ at' = "ended"
  /\ failures' = failures + 1
  /\ UNCHANGED <<now, next, stop, owner, runs, running, previous>>

JobRecorded ==
  /\ at = "ended"
  /\ at' = "plan"
  /\ running' = 0
  /\ UNCHANGED <<now, next, stop, owner, runs, failures, previous>>

Thread ==
  \/ LoopEnds \/ Plan \/ Wake \/ AfterWait \/ JobStarts
  \/ JobReturns \/ JobThrows \/ JobRecorded
-----------------------------------------------------------------------------
(***************************************************************************)
(* The destructor: request_stop() wakes the wait, join() waits for a job   *)
(* that has begun.                                                         *)
(***************************************************************************)
RequestStop ==
  /\ owner = "alive"
  /\ owner' = "joining" /\ stop' = TRUE
  /\ UNCHANGED <<now, at, next, stats, previous>>

Join ==
  /\ owner = "joining" /\ at = "exited"
  /\ owner' = "destroyed"
  /\ UNCHANGED <<now, at, next, stop, stats, previous>>

Done == owner = "destroyed" /\ UNCHANGED schedulerVars

SchedulerNext == Advance \/ Thread \/ RequestStop \/ Join \/ Done

SchedulerSpec == SchedulerInit /\ [][SchedulerNext]_schedulerVars

(***************************************************************************)
(* The thread runs, a job ends, and whoever destroys the scheduler keeps   *)
(* waiting for it.  Time may stand still, and nobody has to stop.          *)
(***************************************************************************)
SchedulerFairness == WF_schedulerVars(Thread) /\ WF_schedulerVars(Join)

FairSchedulerSpec == SchedulerSpec /\ SchedulerFairness
-----------------------------------------------------------------------------
\* Type invariant; the gauge is up exactly while a job runs.
SchedulerTypeOK ==
  /\ now \in 0..MaxTime
  /\ at \in {"plan", "waiting", "woken", "start", "job", "ended", "exited"}
  /\ next \in Nat /\ previous \in Nat
  /\ stop \in BOOLEAN
  /\ owner \in {"alive", "joining", "destroyed"}
  /\ runs \in Nat /\ failures \in Nat /\ failures <= runs
  /\ running = IF at \in {"job", "ended"} THEN 1 ELSE 0

(***************************************************************************)
(* A job never starts before its time: the stop request that cuts the wait *)
(* short does not run the job on its way out (job_scheduler.cpp:93-98).    *)
(***************************************************************************)
NeverEarly == [][runs' > runs => now >= next]_schedulerVars

(***************************************************************************)
(* No occurrence runs twice, however short the job, and those that pass    *)
(* while a job runs are skipped, never made up for (:68-71, README.md:434  *)
(* "Updates do not overlap").                                              *)
(***************************************************************************)
OncePerOccurrence ==
  [][runs' > runs => next > previous]_schedulerVars

(***************************************************************************)
(* The destructor returns, whether the thread plans, waits for a distant   *)
(* occurrence or runs a job (:56-61).                                      *)
(***************************************************************************)
DestructionEnds == (owner = "joining") ~> (owner = "destroyed")

(***************************************************************************)
(* A job that has ended, by an exception too, is followed by the wait for  *)
(* the next occurrence, if there is one and nobody stops (:109-119).       *)
(***************************************************************************)
ScheduleContinues ==
  (at = "job") ~> (at = "waiting" \/ stop \/ Later = {})
=============================================================================
