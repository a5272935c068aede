---------------------------- MODULE MCMmdbReload ----------------------------
(***************************************************************************)
(* Model checking of MmdbReload.  An event queue of length 1 overflows as  *)
(* soon as an unread event of another file precedes one of the database;   *)
(* with two operations that is one of each.                                *)
(***************************************************************************)
EXTENDS MmdbReload

MCMaxQueue == 1
MCMaxOps == 2
=============================================================================
