---------------------------- MODULE MCApplication ----------------------------
(***************************************************************************)
(* Model checking of Application: two shards, two peers, one job and two   *)
(* signals give every order of start-up failures, signals, connections,    *)
(* accept errors and a job that races the registration of the metrics.     *)
(***************************************************************************)
EXTENDS Application

MCMaxJobs == 1
MCMaxSignals == 2
=============================================================================
