-------------------------- MODULE MCScheduledRefresh --------------------------
(***************************************************************************)
(* Model checking of the refresh of the MMDB file (RefreshJob) and of the  *)
(* scheduler that runs it (JobScheduler), side by side: the scheduler      *)
(* takes its job for one that returns or throws, and the refresh takes its *)
(* schedule for any moment it is idle, so that they share no state and a   *)
(* behaviour is one of a single part.                                      *)
(*                                                                         *)
(* The schedule has two occurrences in consecutive seconds, which a job    *)
(* may overrun, and time after the last of them.                           *)
(***************************************************************************)
EXTENDS MCRefreshJob, JobScheduler

VARIABLE part  \* of this behaviour

allVars == <<part, vars, schedulerVars>>

MCOccurrences == {1, 2, 4}
MCMaxTime == 5

\* A scheduler that does nothing any more.
NoScheduler ==
  /\ now = 0 /\ at = "exited" /\ next = 0 /\ stop = TRUE /\ owner = "destroyed"
  /\ runs = 0 /\ failures = 0 /\ running = 0 /\ previous = 0

MCInit ==
  \/ part = "refresh" /\ Init /\ NoScheduler
  \/ part = "scheduler" /\ Init /\ mmdb = Blank("absent") /\ SchedulerInit

RefreshStep   == part = "refresh" /\ Next /\ UNCHANGED <<part, schedulerVars>>
SchedulerStep == part = "scheduler" /\ SchedulerNext /\ UNCHANGED <<part, vars>>

MCSpec ==
  MCInit /\ [][RefreshStep \/ SchedulerStep]_allVars /\ SchedulerFairness
=============================================================================
