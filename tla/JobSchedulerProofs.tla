-------------------------- MODULE JobSchedulerProofs --------------------------
(***************************************************************************)
(* Proofs about JobScheduler, for every set of occurrences.                *)
(***************************************************************************)
EXTENDS JobScheduler, TLAPS

\* Why a thread that is past its wait is not early.
WaitInv ==
  /\ at = "woken" => stop \/ now >= next
  /\ at = "start" => now >= next

\* The occurrence planned is new, and the last one is past.
OrderInv ==
  /\ previous <= now
  /\ at \in {"waiting", "woken", "start"} => next > previous

\* The job that runs has not been counted as a failure.
CountInv == at = "job" => failures < runs

IInv == SchedulerTypeOK /\ WaitInv /\ OrderInv /\ CountInv

\* The invariant holds at the start.
LEMMA InitInv == SchedulerInit => IInv
<1> SUFFICES ASSUME SchedulerInit PROVE IInv
  OBVIOUS
<1>1. stop \in BOOLEAN
  BY DEF SchedulerInit
<1>2. SchedulerTypeOK
  BY <1>1, JobSchedulerAssumption DEF SchedulerInit, SchedulerTypeOK
<1> QED BY <1>2 DEF SchedulerInit, IInv, WaitInv, OrderInv, CountInv

\* Every step keeps it.
LEMMA NextInv == ASSUME IInv, [SchedulerNext]_schedulerVars PROVE IInv'
<1> USE JobSchedulerAssumption DEF stats, schedulerVars
<1>1. SchedulerTypeOK /\ WaitInv /\ OrderInv /\ CountInv
  BY DEF IInv
<1>2. CASE Advance
  BY <1>1, <1>2 DEF Advance, IInv, SchedulerTypeOK, WaitInv, OrderInv, CountInv
<1>3. CASE LoopEnds
  BY <1>1, <1>3 DEF LoopEnds, IInv, SchedulerTypeOK, WaitInv, OrderInv, CountInv
<1>4. CASE Plan
  <2>1. next' \in Nat /\ next' > now
    BY <1>4 DEF Plan, Later, After
  <2>2. now \in Nat /\ previous \in Nat
    BY <1>1 DEF SchedulerTypeOK
  <2>3. SchedulerTypeOK'
    BY <1>1, <1>4, <2>1 DEF Plan, SchedulerTypeOK
  <2>4. WaitInv'
    BY <1>4 DEF Plan, WaitInv
  <2>5. OrderInv'
    BY <1>1, <1>4, <2>1, <2>2 DEF Plan, OrderInv
  <2>6. CountInv'
    BY <1>4 DEF Plan, CountInv
  <2> QED BY <2>3, <2>4, <2>5, <2>6 DEF IInv
<1>5. CASE Wake
  BY <1>1, <1>5 DEF Wake, IInv, SchedulerTypeOK, WaitInv, OrderInv, CountInv
<1>6. CASE AfterWait
  BY <1>1, <1>6 DEF AfterWait, IInv, SchedulerTypeOK, WaitInv, OrderInv, CountInv
<1>7. CASE JobStarts
  BY <1>1, <1>7 DEF JobStarts, IInv, SchedulerTypeOK, WaitInv, OrderInv, CountInv
<1>8. CASE JobReturns
  BY <1>1, <1>8 DEF JobReturns, IInv, SchedulerTypeOK, WaitInv, OrderInv, CountInv
<1>9. CASE JobThrows
  BY <1>1, <1>9 DEF JobThrows, IInv, SchedulerTypeOK, WaitInv, OrderInv, CountInv
<1>10. CASE JobRecorded
  BY <1>1, <1>10 DEF JobRecorded, IInv, SchedulerTypeOK, WaitInv, OrderInv, CountInv
<1>11. CASE RequestStop
  BY <1>1, <1>11 DEF RequestStop, IInv, SchedulerTypeOK, WaitInv, OrderInv, CountInv
<1>12. CASE Join
  BY <1>1, <1>12 DEF Join, IInv, SchedulerTypeOK, WaitInv, OrderInv, CountInv
<1>13. CASE UNCHANGED schedulerVars
  BY <1>1, <1>13 DEF IInv, SchedulerTypeOK, WaitInv, OrderInv, CountInv
<1> QED BY <1>2, <1>3, <1>4, <1>5, <1>6, <1>7, <1>8, <1>9, <1>10, <1>11,
           <1>12, <1>13 DEF SchedulerNext, Thread, Done

\* Only JobStarts counts a run.
LEMMA OnlyStartsCount ==
  ASSUME IInv, [SchedulerNext]_schedulerVars, runs' > runs
  PROVE  JobStarts
<1>1. runs \in Nat
  BY DEF IInv, SchedulerTypeOK
<1>2. runs' # runs
  BY <1>1
<1> QED BY <1>2 DEF SchedulerNext, Advance, Thread, LoopEnds, Plan, Wake, AfterWait,
           JobReturns, JobThrows, JobRecorded, RequestStop, Join, Done, stats,
           schedulerVars

(***************************************************************************)
(* A job never starts before the occurrence it was planned for, although   *)
(* a stop request cuts the wait short at any moment                        *)
(* (job_scheduler.cpp:93-98).                                              *)
(***************************************************************************)
THEOREM StartsOnTime == SchedulerSpec => NeverEarly
<1>1. IInv /\ [SchedulerNext]_schedulerVars => [runs' > runs => now >= next]_schedulerVars
  <2> SUFFICES ASSUME IInv, [SchedulerNext]_schedulerVars, runs' > runs PROVE now >= next
    OBVIOUS
  <2>1. JobStarts
    BY OnlyStartsCount
  <2> QED BY <2>1 DEF JobStarts, IInv, WaitInv
<1> QED BY <1>1, InitInv, NextInv, PTL DEF SchedulerSpec, NeverEarly

(***************************************************************************)
(* Occurrences run in order and none runs twice, for every schedule and    *)
(* every duration of the jobs (job_scheduler.cpp:68-131).                  *)
(***************************************************************************)
THEOREM NoRepetition == SchedulerSpec => OncePerOccurrence
<1>1. IInv /\ [SchedulerNext]_schedulerVars => [runs' > runs => next > previous]_schedulerVars
  <2> SUFFICES ASSUME IInv, [SchedulerNext]_schedulerVars, runs' > runs PROVE next > previous
    OBVIOUS
  <2>1. JobStarts
    BY OnlyStartsCount
  <2> QED BY <2>1 DEF JobStarts, IInv, OrderInv
<1> QED BY <1>1, InitInv, NextInv, PTL DEF SchedulerSpec, OncePerOccurrence
=============================================================================
