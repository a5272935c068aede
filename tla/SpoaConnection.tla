---------------------------- MODULE SpoaConnection ----------------------------
(***************************************************************************)
(* One HAProxy connection of a shard (src/spoa/spoa_server.cpp:28-92): the *)
(* read loop handles a frame at a time, starts writing its answer and goes *)
(* on reading while the write is in flight.  The futures of the writes     *)
(* form a pipeline of bounded length, drained before the stream is closed. *)
(*                                                                         *)
(* A pipeline entry is the future of one answer.  It is awaited once       *)
(* .then() has been called on it, which moves its value out: it may not be *)
(* awaited again, even if it failed.                                       *)
(*                                                                         *)
(* The definitions LimitExceeded, PopForgotten and DrainSkipped are not    *)
(* part of the specification: each is a plausible mistake in the           *)
(* definition that follows it, and some property below must fail with it.  *)
(***************************************************************************)
EXTENDS Naturals, Sequences

CONSTANTS
  Limit,      \* the pipeline's limit, 128 in the code
  MaxFrames,  \* bound: frames the peer sends
  Outcomes    \* what a write may be when it returns

ASSUME SpoaConnectionAssumption ==
  /\ Limit \in Nat \ {0}
  /\ MaxFrames \in Nat
  /\ Outcomes \subseteq {"ready", "pending", "failed"}

VARIABLES
  phase,     \* where handle_connection() is
  pipeline,  \* the futures of the answers, oldest first
  handled,   \* frames handled
  last,      \* kind of the last frame handled
  broken     \* a write of the output stream has failed

vars == <<phase, pipeline, handled, last, broken>>

States  == {"ready", "pending", "failed"}
Entry   == [state : States, awaited : BOOLEAN]
Ending  == {"disconnect", "malformed"}
Answered == {"hello", "notify", "unsupported"}

Init ==
  /\ phase = "reading" /\ pipeline = <<>>
  /\ handled = 0 /\ last = "none" /\ broken = FALSE

Pending(p) == {i \in 1..Len(p) : p[i].state = "pending"}

\* future::then() on the front of the pipeline.
Awaiting(p) == [p EXCEPT ![1].awaited = TRUE]
-----------------------------------------------------------------------------
(***************************************************************************)
(* The read loop.                                                          *)
(***************************************************************************)

\* The peer closed, or sent a truncated or empty frame.
ReadEnds ==
  /\ phase = "reading"
  /\ phase' = "draining"
  /\ UNCHANGED <<pipeline, handled, last, broken>>

\* HAPROXY-DISCONNECT and unparseable frames end the loop without an answer.
HandleEnding(kind) ==
  /\ phase = "reading" /\ handled < MaxFrames
  /\ handled' = handled + 1 /\ last' = kind
  /\ phase' = "draining"
  /\ UNCHANGED <<pipeline, broken>>

(***************************************************************************)
(* The answer's future joins the pipeline; at the limit the loop awaits    *)
(* the oldest one before it reads on.                                      *)
(***************************************************************************)
LimitExceeded(p) ==
  IF Len(p) <= Limit
  THEN phase' = "reading" /\ pipeline' = p
  ELSE CASE p[1].state = "ready"   -> phase' = "reading" /\ pipeline' = Tail(p)
         [] p[1].state = "pending" -> phase' = "full" /\ pipeline' = Awaiting(p)
         [] OTHER -> phase' = "draining" /\ pipeline' = Awaiting(p)

AfterPush(p) ==
  IF Len(p) < Limit
  THEN phase' = "reading" /\ pipeline' = p
  ELSE CASE p[1].state = "ready"   -> phase' = "reading" /\ pipeline' = Tail(p)
         [] p[1].state = "pending" -> phase' = "full" /\ pipeline' = Awaiting(p)
         [] OTHER -> phase' = "draining" /\ pipeline' = Awaiting(p)

(***************************************************************************)
(* The output stream writes in order: a write is ready at once only if no  *)
(* earlier one is in flight, and fails once an earlier one has failed.     *)
(***************************************************************************)
WriteOutcomes ==
  IF broken THEN {"failed"}
  ELSE {o \in Outcomes : o = "ready" => Pending(pipeline) = {}}

\* An unsupported argument is answered by AGENT-DISCONNECT, with stop yes.
HandleAnswered(kind) ==
  /\ phase = "reading" /\ handled < MaxFrames
  /\ handled' = handled + 1 /\ last' = kind
  /\ \E o \in WriteOutcomes :
       /\ broken' = (broken \/ o = "failed")
       /\ IF o = "ready" /\ kind = "unsupported"
          THEN phase' = "draining" /\ UNCHANGED pipeline
          ELSE AfterPush(Append(pipeline, [state |-> o, awaited |-> FALSE]))

ReadLoop ==
  \/ ReadEnds
  \/ \E kind \in Ending : HandleEnding(kind)
  \/ \E kind \in Answered : HandleAnswered(kind)
-----------------------------------------------------------------------------
(***************************************************************************)
(* The output stream resolves the oldest write in flight.  If the front is *)
(* the one awaited, whoever awaits it continues.                           *)
(***************************************************************************)
Oldest(i) == i \in Pending(pipeline) /\ \A j \in Pending(pipeline) : i <= j

PopForgotten ==
  \E i \in 1..Len(pipeline) :
    /\ Oldest(i) /\ ~broken
    /\ pipeline' = [pipeline EXCEPT ![i].state = "ready"]
    /\ phase' = CASE pipeline[i].awaited /\ phase = "full" -> "reading"
                  [] pipeline[i].awaited /\ phase = "drainWait" -> "draining"
                  [] OTHER -> phase
    /\ UNCHANGED <<handled, last, broken>>

WriteDone ==
  \E i \in 1..Len(pipeline) :
    /\ Oldest(i) /\ ~broken
    /\ IF pipeline[i].awaited
       THEN /\ pipeline' = Tail(pipeline)
            /\ phase' = IF phase = "full" THEN "reading" ELSE "draining"
       ELSE /\ pipeline' = [pipeline EXCEPT ![i].state = "ready"]
            /\ UNCHANGED phase
    /\ UNCHANGED <<handled, last, broken>>

WriteFails ==
  \E i \in 1..Len(pipeline) :
    /\ Oldest(i) /\ (broken \/ "failed" \in Outcomes)
    /\ broken' = TRUE
    /\ pipeline' = [pipeline EXCEPT ![i].state = "failed"]
    /\ phase' = CASE pipeline[i].awaited /\ phase = "full" -> "draining"
                  [] pipeline[i].awaited /\ phase = "drainWait" -> "closing"
                  [] OTHER -> phase
    /\ UNCHANGED <<handled, last>>
-----------------------------------------------------------------------------
(***************************************************************************)
(* The end of handle_connection(): await the remaining futures in order,   *)
(* stop at one that failed, close the stream.  Awaiting a future again is  *)
(* undefined behaviour.                                                    *)
(***************************************************************************)
DrainSkipped ==
  /\ phase = "draining"
  /\ phase' = "closing"
  /\ UNCHANGED <<pipeline, handled, last, broken>>

Drain ==
  /\ phase = "draining"
  /\ IF pipeline = <<>> THEN phase' = "closing" /\ UNCHANGED pipeline
     ELSE IF pipeline[1].awaited THEN phase' = "undefined" /\ UNCHANGED pipeline
     ELSE CASE pipeline[1].state = "ready" ->
                 pipeline' = Tail(pipeline) /\ UNCHANGED phase
            [] pipeline[1].state = "pending" ->
                 pipeline' = Awaiting(pipeline) /\ phase' = "drainWait"
            [] OTHER ->
                 pipeline' = Awaiting(pipeline) /\ phase' = "closing"
  /\ UNCHANGED <<handled, last, broken>>

\* out.close(), then the connection leaves the gate.
Close ==
  /\ phase = "closing"
  /\ phase' = "closed"
  /\ UNCHANGED <<pipeline, handled, last, broken>>

Done == phase \in {"closed", "undefined"} /\ UNCHANGED vars

Next == ReadLoop \/ WriteDone \/ WriteFails \/ Drain \/ Close \/ Done

Spec == Init /\ [][Next]_vars

(***************************************************************************)
(* The reactor runs the continuations that are ready, and every write is   *)
(* eventually acknowledged or fails (HAProxy reads its answers or its      *)
(* connection breaks).  Nothing is assumed of what the peer sends.         *)
(***************************************************************************)
Fairness == WF_vars(Drain) /\ WF_vars(Close) /\ WF_vars(WriteDone \/ WriteFails)

FairSpec == Spec /\ Fairness
-----------------------------------------------------------------------------
\* Type invariant.
TypeOK ==
  /\ phase \in {"reading", "full", "draining", "drainWait", "closing",
                "closed", "undefined"}
  /\ pipeline \in Seq(Entry)
  /\ handled \in 0..MaxFrames
  /\ last \in Ending \cup Answered \cup {"none"}
  /\ broken \in BOOLEAN

(***************************************************************************)
(* Backpressure: the pipeline never exceeds its limit, the loop reads on   *)
(* exactly when there is room for another answer and stalls only while the *)
(* oldest of Limit answers is being written; a future is awaited only at   *)
(* the front, and while an awaited one is pending somebody waits for it    *)
(* (spoa_server.cpp:62-67 and :86, README.md:169 "request pipelining       *)
(* limit=128").                                                            *)
(***************************************************************************)
AwaitedInFront == pipeline # <<>> /\ pipeline[1].awaited

Backpressure ==
  /\ TypeOK /\ Len(pipeline) <= Limit
  /\ phase = "reading" => Len(pipeline) < Limit
  /\ phase = "full" => Len(pipeline) = Limit
  /\ \A i \in 2..Len(pipeline) : ~pipeline[i].awaited
  /\ phase \in {"full", "drainWait"}
       <=> AwaitedInFront /\ pipeline[1].state = "pending"

(***************************************************************************)
(* The stream is closed only after every answer has been written, unless a *)
(* write has failed (spoa_server.cpp:83-89).                               *)
(***************************************************************************)
ClosedAfterAnswers ==
  (phase \in {"closing", "closed"} /\ ~broken) => pipeline = <<>>

(***************************************************************************)
(* A connection whose read loop has ended finishes: its answers drain and  *)
(* it leaves the gate that SpoaServer::stop() closes (:153-158).  It does  *)
(* not always: see EndsUnlessAwaitedTwice.                                 *)
(***************************************************************************)
ConnectionEnds == (phase = "draining") ~> (phase = "closed")

(***************************************************************************)
(* A loop that waits at the limit resumes or ends, and a connection whose  *)
(* loop has ended finishes, whichever writes fail, but for one case: the   *)
(* write awaited at the limit failed and stayed in front (:63 and :86).    *)
(***************************************************************************)
EndsUnlessAwaitedTwice ==
  /\ (phase = "full") ~> (phase # "full")
  /\ (phase = "draining" /\ ~AwaitedInFront) ~> (phase = "closed")
=============================================================================
