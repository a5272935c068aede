-------------------------- MODULE MCSpoaConnection --------------------------
(***************************************************************************)
(* Model checking of SpoaConnection: MCLimit is small enough for the       *)
(* pipeline to fill several times over MCMaxFrames frames, and a write may *)
(* complete at once, later or fail.                                        *)
(***************************************************************************)
EXTENDS SpoaConnection

MCLimit == 3
MCMaxFrames == 8
MCOutcomes == {"ready", "pending", "failed"}
=============================================================================
