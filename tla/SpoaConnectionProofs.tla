------------------------- MODULE SpoaConnectionProofs -------------------------
(***************************************************************************)
(* Proofs about SpoaConnection, for every limit of the pipeline, every     *)
(* number of frames and every set of outcomes of a write.                  *)
(***************************************************************************)
EXTENDS SpoaConnection, SequenceTheorems, TLAPS

\* A write that failed has broken the stream.
FailedInv == \A i \in 1..Len(pipeline) : pipeline[i].state = "failed" => broken

\* A future that has been awaited stays in front of a loop that has ended
\* only if its write failed while the pipeline was full.
AwaitedTwice ==
  /\ AwaitedInFront /\ pipeline[1].state = "failed"
  /\ broken /\ Len(pipeline) = Limit

AwaitedInv ==
  /\ phase = "reading" => ~AwaitedInFront
  /\ (phase = "draining" /\ AwaitedInFront) => AwaitedTwice
  /\ phase = "undefined" => AwaitedTwice

IInv == Backpressure /\ ClosedAfterAnswers /\ FailedInv /\ AwaitedInv
-----------------------------------------------------------------------------
(***************************************************************************)
(* What the operations of the pipeline do to its entries.                  *)
(***************************************************************************)

\* Entries of which none but the first may have been awaited.
FrontOnly(p) == \A i \in 2..Len(p) : ~p[i].awaited

\* pop_front() keeps the entries behind the front, in order.
LEMMA PopFront ==
  ASSUME NEW p \in Seq(Entry), p # <<>>
  PROVE  /\ Tail(p) \in Seq(Entry)
         /\ Len(Tail(p)) = Len(p) - 1
         /\ Len(p) \in Nat \ {0}
         /\ \A i \in 1..Len(Tail(p)) : i + 1 \in 2..Len(p) /\ Tail(p)[i] = p[i + 1]
OBVIOUS

\* Once the front is gone nobody has awaited any of the rest.
LEMMA PopFrontAwaited ==
  ASSUME NEW p \in Seq(Entry), p # <<>>, FrontOnly(p)
  PROVE  \A i \in 1..Len(Tail(p)) : ~Tail(p)[i].awaited
BY PopFront DEF FrontOnly

\* Awaiting the front marks it and changes nothing else.
LEMMA AwaitingFront ==
  ASSUME NEW p \in Seq(Entry), p # <<>>
  PROVE  /\ Awaiting(p) \in Seq(Entry)
         /\ Len(Awaiting(p)) = Len(p)
         /\ Awaiting(p) # <<>>
         /\ Awaiting(p)[1].awaited
         /\ \A i \in 1..Len(p) : Awaiting(p)[i].state = p[i].state
         /\ \A i \in 2..Len(p) : Awaiting(p)[i].awaited = p[i].awaited
<1>1. Len(p) \in Nat \ {0} /\ 1 \in 1..Len(p)
  OBVIOUS
<1>2. \A i \in 1..Len(p) : p[i] \in Entry
  OBVIOUS
<1> DEFINE e == [p[1] EXCEPT !.awaited = TRUE]
<1>3. e \in Entry /\ e.state = p[1].state /\ e.awaited
  BY <1>1, <1>2 DEF Entry
<1>4. Awaiting(p) = [p EXCEPT ![1] = e]
  BY Zenon DEF Awaiting
<1> HIDE DEF e
<1>5. /\ Awaiting(p) \in Seq(Entry) /\ Len(Awaiting(p)) = Len(p)
      /\ \A j \in 1..Len(p) : Awaiting(p)[j] = IF j = 1 THEN e ELSE p[j]
  BY <1>1, <1>3, <1>4, ExceptSeq
<1> QED BY <1>1, <1>3, <1>5

\* A write that resolves changes the state of its entry and nothing else.
LEMMA Resolved ==
  ASSUME NEW p \in Seq(Entry), NEW i \in 1..Len(p), NEW s \in States,
         NEW q, q = [p EXCEPT ![i].state = s]
  PROVE  /\ q \in Seq(Entry)
         /\ Len(q) = Len(p)
         /\ q # <<>>
         /\ q[i].state = s
         /\ \A j \in 1..Len(p) : q[j].awaited = p[j].awaited
         /\ \A j \in 1..Len(p) : j # i => q[j] = p[j]
<1>1. \A j \in 1..Len(p) : p[j] \in Entry
  OBVIOUS
<1> DEFINE e == [p[i] EXCEPT !.state = s]
<1>2. e \in Entry /\ e.state = s /\ e.awaited = p[i].awaited
  BY <1>1 DEF Entry
<1>3. q = [p EXCEPT ![i] = e]
  BY Zenon
<1> HIDE DEF e
<1>4. /\ q \in Seq(Entry) /\ Len(q) = Len(p)
      /\ \A j \in 1..Len(p) : q[j] = IF j = i THEN e ELSE p[j]
  BY <1>2, <1>3, ExceptSeq
<1> QED BY <1>1, <1>2, <1>4
-----------------------------------------------------------------------------
\* The initial states.
LEMMA InitInv == Init => IInv
<1> SUFFICES ASSUME Init PROVE IInv
  OBVIOUS
<1>1. pipeline \in Seq(Entry) /\ Len(pipeline) = 0 /\ ~AwaitedInFront
  <2>1. pipeline = <<>>
    BY DEF Init
  <2> QED BY <2>1 DEF AwaitedInFront
<1>2. TypeOK
  <2>1. broken \in BOOLEAN /\ handled = 0 /\ last = "none" /\ phase = "reading"
    BY DEF Init
  <2> QED BY <1>1, <2>1, SpoaConnectionAssumption DEF TypeOK
<1>3. Backpressure
  BY <1>1, <1>2, SpoaConnectionAssumption DEF Init, Backpressure
<1>4. ClosedAfterAnswers /\ FailedInv /\ AwaitedInv
  BY <1>1 DEF Init, ClosedAfterAnswers, FailedInv, AwaitedInv
<1> QED BY <1>3, <1>4 DEF IInv

\* The invariant as facts about the pipeline.
LEMMA PipelineFacts ==
  ASSUME IInv
  PROVE  /\ pipeline \in Seq(Entry) /\ FrontOnly(pipeline)
         /\ Len(pipeline) \in Nat /\ Len(pipeline) <= Limit
         /\ \A i \in 1..Len(pipeline) : pipeline[i] \in Entry
         /\ \A i \in 1..Len(pipeline) : pipeline[i].awaited => i = 1
BY DEF IInv, Backpressure, TypeOK, FrontOnly

\* The read loop ends: the futures stay as they are.
LEMMA LoopEndsInv ==
  ASSUME IInv, phase = "reading", phase' = "draining",
         UNCHANGED <<pipeline, broken>>,
         handled' \in 0..MaxFrames, last' \in Ending \cup Answered \cup {"none"}
  PROVE  IInv'
BY DEF IInv, Backpressure, TypeOK, ClosedAfterAnswers, FailedInv, AwaitedInv,
       AwaitedTwice, AwaitedInFront

\* An answer joins the pipeline, and at the limit the oldest is awaited.
LEMMA AfterPushInv ==
  ASSUME IInv, phase = "reading", NEW o \in States, NEW p,
         p = Append(pipeline, [state |-> o, awaited |-> FALSE]),
         broken' = (broken \/ o = "failed"), AfterPush(p),
         handled' \in 0..MaxFrames, last' \in Ending \cup Answered \cup {"none"}
  PROVE  IInv'
<1> USE SpoaConnectionAssumption
<1> DEFINE new == [state |-> o, awaited |-> FALSE]
<1>1. /\ pipeline \in Seq(Entry) /\ FrontOnly(pipeline)
      /\ Len(pipeline) \in Nat /\ Len(pipeline) < Limit
  BY PipelineFacts DEF IInv, Backpressure
<1>2. new \in Entry /\ new.state = o /\ ~new.awaited
  BY DEF Entry
<1> HIDE DEF new
<1>3. p = Append(pipeline, new)
  BY DEF new
<1>4. /\ p \in Seq(Entry) /\ Len(p) = Len(pipeline) + 1 /\ p # <<>>
      /\ \A i \in 1..Len(pipeline) : p[i] = pipeline[i]
      /\ p[Len(pipeline) + 1] = new
  BY <1>1, <1>2, <1>3
<1>5. \A i \in 1..Len(p) : ~p[i].awaited
  <2>1. \A i \in 1..Len(pipeline) : ~pipeline[i].awaited
    BY <1>1 DEF FrontOnly, IInv, AwaitedInv, AwaitedInFront
  <2>2. \A i \in 1..Len(p) : i \in 1..Len(pipeline) \/ i = Len(pipeline) + 1
    BY <1>1, <1>4
  <2> QED BY <1>2, <1>4, <2>1, <2>2
<1>6. \A i \in 1..Len(p) : p[i].state = "failed" => broken'
  <2>1. \A i \in 1..Len(pipeline) : pipeline[i].state = "failed" => broken
    BY DEF IInv, FailedInv
  <2>2. \A i \in 1..Len(p) : i \in 1..Len(pipeline) \/ i = Len(pipeline) + 1
    BY <1>1, <1>4
  <2> QED BY <1>2, <1>4, <2>1, <2>2
<1>7. p[1] \in Entry /\ 1 \in 1..Len(p)
  BY <1>1, <1>4
<1>8. broken \in BOOLEAN /\ broken' \in BOOLEAN
  BY DEF IInv, Backpressure, TypeOK
<1>9. CASE Len(p) < Limit
  <2>1. phase' = "reading" /\ pipeline' = p
    BY <1>9 DEF AfterPush
  <2>2. Backpressure'
    BY <1>4, <1>5, <1>7, <1>8, <1>9, <2>1 DEF Backpressure, TypeOK, AwaitedInFront
  <2>3. FailedInv'
    BY <1>6, <2>1 DEF FailedInv
  <2>4. ClosedAfterAnswers' /\ AwaitedInv'
    BY <1>5, <1>7, <2>1 DEF ClosedAfterAnswers, AwaitedInv, AwaitedInFront
  <2> QED BY <2>2, <2>3, <2>4 DEF IInv
<1>10. CASE Len(p) = Limit /\ p[1].state = "ready"
  <2>1. phase' = "reading" /\ pipeline' = Tail(p)
    <3>1. ~(Len(p) < Limit)
      BY <1>10
    <3> QED BY <1>10, <3>1, Zenon DEF AfterPush
  <2>2. /\ Tail(p) \in Seq(Entry) /\ Len(Tail(p)) = Len(p) - 1
        /\ \A i \in 1..Len(Tail(p)) : i + 1 \in 1..Len(p) /\ Tail(p)[i] = p[i + 1]
    BY <1>4, PopFront
  <2>3. \A i \in 1..Len(Tail(p)) : ~Tail(p)[i].awaited
    BY <1>5, <2>2
  <2>4. Tail(p) # <<>> => 1 \in 1..Len(Tail(p))
    BY <2>2
  <2>5. Backpressure'
    BY <1>4, <1>8, <1>10, <2>1, <2>2, <2>3, <2>4
       DEF Backpressure, TypeOK, AwaitedInFront
  <2>6. FailedInv'
    BY <1>6, <2>1, <2>2 DEF FailedInv
  <2>7. ClosedAfterAnswers' /\ AwaitedInv'
    BY <2>1, <2>3, <2>4 DEF ClosedAfterAnswers, AwaitedInv, AwaitedInFront
  <2> QED BY <2>5, <2>6, <2>7 DEF IInv
<1>11. CASE Len(p) = Limit /\ p[1].state # "ready"
  <2>1. pipeline' = Awaiting(p)
    BY <1>11 DEF AfterPush
  <2>2. phase' = IF p[1].state = "pending" THEN "full" ELSE "draining"
    BY <1>11 DEF AfterPush
  <2>3. /\ pipeline' \in Seq(Entry) /\ Len(pipeline') = Len(p)
        /\ pipeline' # <<>> /\ pipeline'[1].awaited
        /\ \A i \in 1..Len(p) : pipeline'[i].state = p[i].state
        /\ \A i \in 2..Len(p) : ~pipeline'[i].awaited
    <3>1. /\ Awaiting(p) \in Seq(Entry) /\ Len(Awaiting(p)) = Len(p)
          /\ Awaiting(p) # <<>> /\ Awaiting(p)[1].awaited
          /\ \A i \in 1..Len(p) : Awaiting(p)[i].state = p[i].state
          /\ \A i \in 2..Len(p) : Awaiting(p)[i].awaited = p[i].awaited
      BY <1>4, AwaitingFront, Zenon
    <3>2. \A i \in 2..Len(p) : i \in 1..Len(p)
      BY <1>1, <1>4
    <3> QED BY <1>5, <2>1, <3>1, <3>2, Zenon
  <2>4. p[1].state \in {"pending", "failed"}
    BY <1>7, <1>11 DEF Entry, States
  <2>5. Backpressure'
    BY <1>7, <1>8, <1>11, <2>2, <2>3, <2>4 DEF Backpressure, TypeOK, AwaitedInFront
  <2>6. FailedInv'
    BY <1>6, <2>3 DEF FailedInv
  <2>7. ClosedAfterAnswers' /\ AwaitedInv'
    BY <1>6, <1>7, <1>11, <2>2, <2>3, <2>4
       DEF ClosedAfterAnswers, AwaitedInv, AwaitedTwice, AwaitedInFront
  <2> QED BY <2>5, <2>6, <2>7 DEF IInv
<1> QED BY <1>1, <1>4, <1>9, <1>10, <1>11

\* An iteration of the read loop.
LEMMA ReadLoopInv == ASSUME IInv, ReadLoop PROVE IInv'
<1> USE SpoaConnectionAssumption
<1>1. TypeOK
  BY DEF IInv, Backpressure
<1>2. CASE ReadEnds
  <2>1. handled' \in 0..MaxFrames /\ last' \in Ending \cup Answered \cup {"none"}
    BY <1>1, <1>2 DEF ReadEnds, TypeOK
  <2> QED BY <1>2, <2>1, LoopEndsInv DEF ReadEnds
<1>3. ASSUME NEW kind \in Ending, HandleEnding(kind) PROVE IInv'
  <2>1. handled' \in 0..MaxFrames /\ last' \in Ending \cup Answered \cup {"none"}
    BY <1>1, <1>3 DEF HandleEnding, TypeOK
  <2> QED BY <1>3, <2>1, LoopEndsInv DEF HandleEnding
<1>4. ASSUME NEW kind \in Answered, HandleAnswered(kind) PROVE IInv'
  <2>1. handled' \in 0..MaxFrames /\ last' \in Ending \cup Answered \cup {"none"}
    BY <1>1, <1>4 DEF HandleAnswered, TypeOK
  <2>2. phase = "reading"
    BY <1>4 DEF HandleAnswered
  <2>3. PICK o \in WriteOutcomes :
          /\ broken' = (broken \/ o = "failed")
          /\ IF o = "ready" /\ kind = "unsupported"
             THEN phase' = "draining" /\ UNCHANGED pipeline
             ELSE AfterPush(Append(pipeline, [state |-> o, awaited |-> FALSE]))
    BY <1>4 DEF HandleAnswered
  <2>4. o \in States
    BY <2>3 DEF WriteOutcomes, States
  <2>5. CASE o = "ready" /\ kind = "unsupported"
    <3>1. broken' = broken /\ phase' = "draining" /\ pipeline' = pipeline
      BY <1>1, <2>3, <2>5 DEF TypeOK
    <3> QED BY <2>1, <2>2, <3>1, LoopEndsInv
  <2>6. CASE ~(o = "ready" /\ kind = "unsupported")
    <3>1. AfterPush(Append(pipeline, [state |-> o, awaited |-> FALSE]))
      BY <2>3, <2>6
    <3> QED BY <2>1, <2>2, <2>3, <2>4, <3>1, AfterPushInv, Zenon
  <2> QED BY <2>5, <2>6
<1> QED BY <1>2, <1>3, <1>4 DEF ReadLoop

\* The front that was awaited leaves the pipeline.
LEMMA PoppedInv ==
  ASSUME IInv, pipeline # <<>>, pipeline' = Tail(pipeline),
         UNCHANGED <<handled, last, broken>>,
         phase' \in {"reading", "draining"}
  PROVE  IInv'
<1> USE SpoaConnectionAssumption
<1>1. /\ pipeline \in Seq(Entry) /\ FrontOnly(pipeline)
      /\ Len(pipeline) \in Nat /\ Len(pipeline) <= Limit
  BY PipelineFacts
<1>2. /\ pipeline' \in Seq(Entry) /\ Len(pipeline') = Len(pipeline) - 1
      /\ \A i \in 1..Len(pipeline') :
           i + 1 \in 1..Len(pipeline) /\ pipeline'[i] = pipeline[i + 1]
  BY <1>1, PopFront
<1>3. \A i \in 1..Len(pipeline') : ~pipeline'[i].awaited
  BY <1>1, PopFrontAwaited
<1>4. ~AwaitedInFront'
  <2>1. pipeline' # <<>> => 1 \in 1..Len(pipeline')
    BY <1>1, <1>2
  <2> QED BY <1>3, <2>1, Zenon DEF AwaitedInFront
<1>5. Backpressure'
  <2>1. TypeOK'
    BY <1>2 DEF IInv, Backpressure, TypeOK
  <2>2. \A i \in 2..Len(pipeline') : ~pipeline'[i].awaited
    BY <1>1, <1>2, <1>3
  <2>3. Len(pipeline') < Limit
    BY <1>1, <1>2
  <2> QED BY <1>4, <2>1, <2>2, <2>3 DEF Backpressure
<1>6. FailedInv'
  BY <1>2 DEF IInv, FailedInv
<1>7. ClosedAfterAnswers' /\ AwaitedInv'
  BY <1>4 DEF ClosedAfterAnswers, AwaitedInv
<1> QED BY <1>5, <1>6, <1>7 DEF IInv

\* A write that succeeds.
LEMMA WriteDoneInv == ASSUME IInv, WriteDone PROVE IInv'
<1> USE SpoaConnectionAssumption
<1>1. PICK i \in 1..Len(pipeline) :
        /\ Oldest(i) /\ ~broken
        /\ IF pipeline[i].awaited
           THEN /\ pipeline' = Tail(pipeline)
                /\ phase' = IF phase = "full" THEN "reading" ELSE "draining"
           ELSE /\ pipeline' = [pipeline EXCEPT ![i].state = "ready"]
                /\ UNCHANGED phase
        /\ UNCHANGED <<handled, last, broken>>
  BY DEF WriteDone
<1>2. /\ pipeline \in Seq(Entry) /\ FrontOnly(pipeline)
      /\ Len(pipeline) \in Nat /\ Len(pipeline) <= Limit /\ pipeline # <<>>
  BY PipelineFacts
<1>3. CASE pipeline[i].awaited
  BY <1>1, <1>2, <1>3, PoppedInv
<1>4. CASE ~pipeline[i].awaited
  <2>1. /\ pipeline' \in Seq(Entry) /\ Len(pipeline') = Len(pipeline)
        /\ pipeline'[i].state = "ready"
        /\ \A j \in 1..Len(pipeline) : pipeline'[j].awaited = pipeline[j].awaited
        /\ \A j \in 1..Len(pipeline) : j # i => pipeline'[j] = pipeline[j]
    BY <1>1, <1>2, <1>4, Resolved DEF States
  <2>2. 1 \in 1..Len(pipeline) /\ pipeline' # <<>>
    BY <1>2, <2>1
  <2>3. AwaitedInFront' <=> AwaitedInFront
    BY <1>2, <2>1, <2>2 DEF AwaitedInFront
  <2>4. AwaitedInFront => pipeline'[1] = pipeline[1]
    BY <1>4, <2>1, <2>2 DEF AwaitedInFront
  <2>5. Backpressure'
    <3>1. TypeOK'
      BY <1>1, <1>4, <2>1 DEF IInv, Backpressure, TypeOK
    <3>2. \A j \in 2..Len(pipeline') : ~pipeline'[j].awaited
      BY <1>2, <2>1 DEF FrontOnly
    <3> QED BY <1>1, <1>4, <2>1, <2>3, <2>4, <3>1, <3>2 DEF IInv, Backpressure
  <2>6. FailedInv'
    BY <1>1, <2>1 DEF IInv, FailedInv
  <2>7. ClosedAfterAnswers'
    BY <1>1, <1>2, <1>4 DEF IInv, ClosedAfterAnswers
  <2>8. AwaitedInv'
    BY <1>1, <1>4, <2>1, <2>3, <2>4 DEF IInv, AwaitedInv, AwaitedTwice
  <2> QED BY <2>5, <2>6, <2>7, <2>8 DEF IInv
<1> QED BY <1>3, <1>4

\* A write that fails.
LEMMA WriteFailsInv == ASSUME IInv, WriteFails PROVE IInv'
<1> USE SpoaConnectionAssumption
<1>1. PICK i \in 1..Len(pipeline) :
        /\ Oldest(i) /\ broken' = TRUE
        /\ pipeline' = [pipeline EXCEPT ![i].state = "failed"]
        /\ phase' = CASE pipeline[i].awaited /\ phase = "full" -> "draining"
                      [] pipeline[i].awaited /\ phase = "drainWait" -> "closing"
                      [] OTHER -> phase
        /\ UNCHANGED <<handled, last>>
  BY DEF WriteFails
<1>2. /\ pipeline \in Seq(Entry) /\ FrontOnly(pipeline)
      /\ Len(pipeline) \in Nat /\ Len(pipeline) <= Limit
      /\ pipeline[i].awaited => i = 1
  BY PipelineFacts
<1>3. /\ pipeline' \in Seq(Entry) /\ Len(pipeline') = Len(pipeline)
      /\ pipeline'[i].state = "failed" /\ pipeline' # <<>>
      /\ \A j \in 1..Len(pipeline) : pipeline'[j].awaited = pipeline[j].awaited
      /\ \A j \in 1..Len(pipeline) : j # i => pipeline'[j] = pipeline[j]
  BY <1>1, <1>2, Resolved DEF States
<1>4. 1 \in 1..Len(pipeline) /\ pipeline # <<>> /\ pipeline[i].state = "pending"
  BY <1>1, <1>2 DEF Oldest, Pending
<1>5. AwaitedInFront' <=> AwaitedInFront
  BY <1>3, <1>4, Zenon DEF AwaitedInFront
<1>6. phase' \in {phase, "draining", "closing"}
  <2>1. CASE pipeline[i].awaited /\ phase = "full"
    BY <1>1, <2>1
  <2>2. CASE ~pipeline[i].awaited \/ phase # "full"
    BY <1>1, <2>2
  <2> QED BY <2>1, <2>2
<1>7. TypeOK'
  BY <1>1, <1>3, <1>6 DEF IInv, Backpressure, TypeOK
<1>8. \A j \in 2..Len(pipeline') : ~pipeline'[j].awaited
  <2>1. \A j \in 2..Len(pipeline') : j \in 1..Len(pipeline)
    BY <1>2, <1>3
  <2> QED BY <1>2, <1>3, <2>1 DEF FrontOnly
<1>9. FailedInv' /\ ClosedAfterAnswers'
  BY <1>1 DEF FailedInv, ClosedAfterAnswers
<1>10. CASE pipeline[i].awaited
  <2>1. AwaitedInFront /\ i = 1 /\ phase \in {"full", "drainWait"}
    BY <1>2, <1>4, <1>10 DEF IInv, Backpressure, AwaitedInFront
  <2>2. phase' = IF phase = "full" THEN "draining" ELSE "closing"
    BY <1>1, <1>10, <2>1
  <2>3. Backpressure'
    BY <1>2, <1>3, <1>7, <1>8, <2>1, <2>2 DEF Backpressure
  <2>4. AwaitedInv'
    <3>1. phase = "full" => Len(pipeline) = Limit
      BY DEF IInv, Backpressure
    <3> QED BY <1>1, <1>3, <1>5, <2>1, <2>2, <3>1 DEF AwaitedInv, AwaitedTwice
  <2> QED BY <1>9, <2>3, <2>4 DEF IInv
<1>11. CASE ~pipeline[i].awaited
  <2>1. phase' = phase
    BY <1>1, <1>11
  <2>2. AwaitedInFront => pipeline'[1] = pipeline[1]
    BY <1>3, <1>4, <1>11 DEF AwaitedInFront
  <2>3. Backpressure'
    BY <1>3, <1>5, <1>7, <1>8, <2>1, <2>2 DEF IInv, Backpressure
  <2>4. AwaitedInv'
    BY <1>1, <1>3, <1>5, <2>1, <2>2 DEF IInv, AwaitedInv, AwaitedTwice
  <2> QED BY <1>9, <2>3, <2>4 DEF IInv
<1> QED BY <1>10, <1>11

\* The futures are awaited after the loop.
LEMMA DrainInv == ASSUME IInv, Drain PROVE IInv'
<1> USE SpoaConnectionAssumption
<1>1. phase = "draining" /\ UNCHANGED <<handled, last, broken>>
  BY DEF Drain
<1>2. /\ pipeline \in Seq(Entry) /\ FrontOnly(pipeline)
      /\ Len(pipeline) \in Nat /\ Len(pipeline) <= Limit
  BY PipelineFacts
<1>3. CASE pipeline = <<>>
  <2>1. phase' = "closing" /\ pipeline' = pipeline
    BY <1>3 DEF Drain
  <2> QED BY <1>1, <1>3, <2>1 DEF IInv, Backpressure, TypeOK, FailedInv,
             ClosedAfterAnswers, AwaitedInv, AwaitedInFront
<1>4. CASE pipeline # <<>> /\ pipeline[1].awaited
  <2>1. phase' = "undefined" /\ pipeline' = pipeline
    BY <1>4 DEF Drain
  <2>2. AwaitedInFront
    BY <1>4 DEF AwaitedInFront
  <2>3. Backpressure' /\ FailedInv' /\ ClosedAfterAnswers'
    BY <1>1, <2>1 DEF IInv, Backpressure, TypeOK, FailedInv, ClosedAfterAnswers,
                      AwaitedInFront
  <2>4. AwaitedTwice
    BY <1>1, <2>2 DEF IInv, AwaitedInv
  <2>5. AwaitedInv'
    BY <1>1, <2>1, <2>4 DEF AwaitedInv, AwaitedTwice, AwaitedInFront
  <2> QED BY <2>3, <2>5 DEF IInv
<1>5. CASE pipeline # <<>> /\ ~pipeline[1].awaited /\ pipeline[1].state = "ready"
  <2>1. pipeline' = Tail(pipeline) /\ phase' = "draining"
    BY <1>1, <1>5 DEF Drain
  <2> QED BY <1>1, <1>5, <2>1, PoppedInv
<1>6. CASE pipeline # <<>> /\ ~pipeline[1].awaited /\ pipeline[1].state # "ready"
  <2>1. 1 \in 1..Len(pipeline) /\ pipeline[1] \in Entry
    BY <1>2, <1>6
  <2>2. pipeline[1].state \in {"pending", "failed"}
    BY <1>6, <2>1 DEF Entry, States
  <2>3. pipeline' = Awaiting(pipeline)
        /\ phase' = IF pipeline[1].state = "pending" THEN "drainWait" ELSE "closing"
    BY <1>6 DEF Drain
  <2>4. /\ pipeline' \in Seq(Entry) /\ Len(pipeline') = Len(pipeline)
        /\ pipeline' # <<>> /\ pipeline'[1].awaited
        /\ \A i \in 1..Len(pipeline) : pipeline'[i].state = pipeline[i].state
        /\ \A i \in 2..Len(pipeline) : pipeline'[i].awaited = pipeline[i].awaited
    BY <1>2, <1>6, <2>3, AwaitingFront, Zenon
  <2>5. Backpressure'
    <3>1. TypeOK'
      BY <1>1, <2>3, <2>4 DEF IInv, Backpressure, TypeOK
    <3>2. \A i \in 2..Len(pipeline') : ~pipeline'[i].awaited
      BY <1>2, <2>4 DEF FrontOnly
    <3> QED BY <1>2, <2>1, <2>2, <2>3, <2>4, <3>1, <3>2
            DEF Backpressure, AwaitedInFront
  <2>6. FailedInv'
    BY <1>1, <2>4 DEF IInv, FailedInv
  <2>7. ClosedAfterAnswers'
    BY <1>1, <2>1, <2>2, <2>3 DEF IInv, FailedInv, ClosedAfterAnswers
  <2>8. AwaitedInv'
    BY <2>3 DEF AwaitedInv
  <2> QED BY <2>5, <2>6, <2>7, <2>8 DEF IInv
<1> QED BY <1>3, <1>4, <1>5, <1>6

\* Every step.
LEMMA NextInv == ASSUME IInv, [Next]_vars PROVE IInv'
<1>1. CASE ReadLoop
  BY <1>1, ReadLoopInv
<1>2. CASE WriteDone
  BY <1>2, WriteDoneInv
<1>3. CASE WriteFails
  BY <1>3, WriteFailsInv
<1>4. CASE Drain
  BY <1>4, DrainInv
<1>5. CASE Close
  BY <1>5 DEF Close, IInv, Backpressure, TypeOK, FailedInv, ClosedAfterAnswers,
              AwaitedInv, AwaitedInFront
<1>6. CASE UNCHANGED vars
  BY <1>6 DEF vars, IInv, Backpressure, TypeOK, FailedInv, ClosedAfterAnswers,
              AwaitedInv, AwaitedTwice, AwaitedInFront
<1> QED BY <1>1, <1>2, <1>3, <1>4, <1>5, <1>6 DEF Next, Done

\* It holds of every behaviour.
LEMMA Invariance == Spec => []IInv
BY InitInv, NextInv, PTL DEF Spec
-----------------------------------------------------------------------------
(***************************************************************************)
(* The pipeline of a connection never exceeds its limit, whatever the      *)
(* limit is and however the writes behave; the loop stalls exactly while   *)
(* the oldest of a full pipeline is being written (spoa_server.cpp:62-67). *)
(***************************************************************************)
THEOREM PipelineIsBounded == Spec => []Backpressure
<1>1. IInv => Backpressure
  BY DEF IInv
<1> QED BY <1>1, Invariance, PTL

(***************************************************************************)
(* The stream is closed only when every answer has been written, or after  *)
(* a write failed (spoa_server.cpp:83-89).                                 *)
(***************************************************************************)
THEOREM AnswersBeforeClose == Spec => []ClosedAfterAnswers
<1>1. IInv => ClosedAfterAnswers
  BY DEF IInv
<1> QED BY <1>1, Invariance, PTL

(***************************************************************************)
(* The only way to await a future twice (spoa_server.cpp:63 and :86): the  *)
(* pipeline was full when the loop awaited its oldest answer and the write *)
(* of that answer failed.  Below the limit, and while no write fails, the  *)
(* drain is well defined.                                                  *)
(***************************************************************************)
THEOREM UndefinedOnlyAtLimit == Spec => [](phase = "undefined" => AwaitedTwice)
<1>1. IInv => (phase = "undefined" => AwaitedTwice)
  BY DEF IInv, AwaitedInv
<1> QED BY <1>1, Invariance, PTL
=============================================================================
