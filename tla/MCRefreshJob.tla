---------------------------- MODULE MCRefreshJob ----------------------------
(***************************************************************************)
(* Model checking of RefreshJob: enough time, commits and deaths for a     *)
(* first clone, two later updates and a restart in the middle of each.     *)
(***************************************************************************)
EXTENDS RefreshJob

MCMaxClock == 5
MCMaxCommits == 3
MCMaxCrashes == 2
Prompt == 0
Late == 2
AfterClone == {"open", "compare", "fetch", "decide", "reset", "check",
               "compile", "build"}
Anywhere == AfterClone \cup {"clone"}
=============================================================================
