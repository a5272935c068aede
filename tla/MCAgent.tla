------------------------------- MODULE MCAgent -------------------------------
(***************************************************************************)
(* Model checking of what an SPOA agent does with a frame, part by part:   *)
(* variable-length integers in a buffer (SpopStream), whole frames and     *)
(* their answers (SpopFrame), and the verdict on the arguments of NOTIFY   *)
(* frames (SpoaEvaluation).  The parts share no state, and a behaviour is  *)
(* one of a single part: SpopFrame answers with either verdict, and        *)
(* SpoaEvaluation has arguments that were parsed.                          *)
(***************************************************************************)
EXTENDS SpoaEvaluation, SpopTypes, Integers, TLC

CONSTANTS Word, Half, StackSize  \* of SpopFrame

ASSUME WidthAssumption ==
  /\ Word \in Nat /\ Word > 8 /\ Half \in 1..Word
  /\ StackSize \in Nat

VARIABLES
  part,                                                      \* of this behaviour
  sent, payload, phase, whole, parsed, bad, answer,          \* SpopFrame
  written, refused, buffer, complete, pos, values, failed    \* SpopStream

frameVars  == <<sent, payload, phase, whole, parsed, bad, answer>>
streamVars == <<written, refused, buffer, complete, pos, values, failed>>
allVars    == <<part, vars, frameVars, streamVars>>
-----------------------------------------------------------------------------
(***************************************************************************)
(* Evaluation: two databases that disagree, entries with several           *)
(* configured categories, repeated ones, corrupt members and without an    *)
(* array, lists with whitespace, empty and repeated names, and two frames  *)
(* of up to two arguments.                                                 *)
(***************************************************************************)
X == <<"x">>
Y == <<"y", " ", "y">>
Z == <<"z">>

MCLetters == {"x", "y", "z", " "}

MCConfigs ==
  {<<X>>, <<<<" ", "x", " ">>, <<" ">>, <<>>, <<"y", " ", "y", " ">>, X>>, <<<<>>>>}

MCDatabases ==
  {(1 :> <<Z, Corrupt, Y, X, Y>> @@ 2 :> NoEntry @@ 3 :> LookupError),
   (1 :> NotArray @@ 2 :> <<X, Y, X>> @@ 3 :> <<<<>>, Z>>)}

Arg(t, f, a) == [type |-> t, form |-> f, address |-> a]

MCArguments ==
  {Arg("IPv4", "v4", 1), Arg("IPv6", "v6", 2), Arg("IPv4", "v4", 3),
   Arg("String", "v4", 2), Arg("String", "unusual", 1), Arg("String", "name", 1),
   Arg("other", "v4", 1)}

MCFrames == {<<>>} \cup {<<a>> : a \in MCArguments} \cup (MCArguments \X MCArguments)

(***************************************************************************)
(* Frames: integers of 22 and 11 bits, every type of value at the ends of  *)
(* its range, messages without arguments, with equal and with empty names, *)
(* strings whose length takes two bytes, and ids that make the answer just *)
(* fit the stack buffer or not.                                            *)
(***************************************************************************)
MCTyped ==
  {[type |-> t, v |-> v] :
     <<t, v>> \in {<<Null, 0>>, <<Boolean, TRUE>>, <<Boolean, FALSE>>,
                   <<Int32, -1>>, <<Int32, 1 - 2^(Half - 1)>>,
                   <<Int32, 2^(Half - 1) - 1>>, <<UInt32, 2^Half - 1>>,
                   <<Int64, -2>>, <<UInt64, 2^Word - 1>>, <<UInt64, 240>>,
                   <<IPv4, <<1, 0, 0, 255>>>>, <<IPv6, [i \in 1..16 |-> i]>>,
                   <<String, <<>>>>, <<String, <<240>>>>,
                   <<String, [i \in 1..240 |-> 7]>>, <<Binary, <<0, 255>>>>}}

MCArgs == {[name |-> n, value |-> v] : n \in {<<>>, <<3>>}, v \in MCTyped}

MCShort == {a \in MCArgs : a.value.type \in {Null, Boolean, Int32, IPv4}}

MCMessages ==
  {<<>>}
    \cup {<<[name |-> <<>>, args |-> a]>> :
            a \in {<<>>} \cup {<<x>> : x \in MCArgs} \cup (MCShort \X MCShort)}
    \cup {<<[name |-> <<1, 2>>, args |-> <<x>>], [name |-> <<>>, args |-> <<y>>]>> :
            x, y \in MCShort}
    \cup {<<[name |-> <<240>>, args |-> [i \in 1..n |-> CHOOSE x \in MCShort :
              x.name = <<>> /\ x.value.type = Null]]>> : n \in 1..6}

MCFields ==
  {Field(EngineId, String, <<1, 2>>), Field(SupportedVersions, String, <<>>),
   Field(MaxFrameSize, UInt32, 2^Half - 1), Field(MaxFrameSize, UInt32, 300),
   Field(MaxFrameSize, UInt64, 300), Field(Healthcheck, Boolean, TRUE),
   Field(StatusCode, UInt32, 240), Field(MessageText, String, <<2>>)}

MCFieldLists == {<<>>} \cup {<<a>> : a \in MCFields} \cup (MCFields \X MCFields)

MCIds == {<<0, 0>>, <<239, 240>>, <<2288, 2^Word - 1>>}

MCSent ==
  UNION {UNION {{[type |-> Hello, stream |-> i[1], id |-> i[2], content |-> c] :
            c \in MCFieldLists},
         {[type |-> Disconnect, stream |-> i[1], id |-> i[2], content |-> c] :
            c \in MCFieldLists},
         {[type |-> Notify, stream |-> i[1], id |-> i[2], content |-> c] :
            c \in MCMessages},
         {[type |-> AgentAck, stream |-> i[1], id |-> i[2], content |-> <<>>]}} :
    i \in MCIds}

(***************************************************************************)
(* Integers: words of 22 = 4 + 14 + 4 bits are the narrowest with integers *)
(* of one to four bytes.  The boundaries of the lengths and their          *)
(* neighbours are written one after the other, and foreign buffers run     *)
(* over the bytes at the boundaries of the first byte, of continuation and *)
(* of the last four bits.                                                  *)
(***************************************************************************)
WrittenNumbers ==
  {0, 239, 240, 256, 2287, 2288, 2304, 264431, 264432, 2^Word - 1}

ForeignBytes == {0, 1, 14, 15, 16, 127, 128, 129, 142, 143, 144, 239, 240, 241, 255}

ForeignBuffers ==
  UNION {[1..n -> ForeignBytes] : n \in 1..3}
    \cup {<<b>> \o t : b \in {239, 240, 255}, t \in [1..3 -> ForeignBytes]}
-----------------------------------------------------------------------------
Frame == INSTANCE SpopFrame WITH Frames <- MCSent, frame <- sent

Stream == INSTANCE SpopStream WITH
  Capacity <- 6, Numbers <- WrittenNumbers, Foreign <- ForeignBuffers,
  whole <- complete

NoEvaluation == Init /\ config = <<X>> /\ published = NoDatabase
NoFrame == sent = <<>> /\ payload = <<>> /\ phase = "none" /\ whole = TRUE
             /\ parsed = Frame!Failed /\ bad = FALSE /\ answer = <<>>
NoStream == written = <<>> /\ refused = 0 /\ buffer = <<>> /\ complete = TRUE
             /\ pos = 1 /\ values = <<>> /\ failed = FALSE

MCInit ==
  \/ part = "evaluation" /\ Init /\ NoFrame /\ NoStream
  \/ part = "frames" /\ NoEvaluation /\ Frame!Init /\ NoStream
  \/ part = "integers" /\ NoEvaluation /\ NoFrame /\ Stream!Init

EvaluationStep ==
  part = "evaluation" /\ Next /\ UNCHANGED <<part, frameVars, streamVars>>
FrameStep ==
  part = "frames" /\ Frame!Next /\ UNCHANGED <<part, vars, streamVars>>
StreamStep ==
  part = "integers" /\ Stream!Next /\ UNCHANGED <<part, vars, frameVars>>

MCSpec == MCInit /\ [][EvaluationStep \/ FrameStep \/ StreamStep]_allVars
-----------------------------------------------------------------------------
(***************************************************************************)
(* Integers written one after the other are read back in order, a cut      *)
(* loses the last one only, the sizes computed beforehand are those        *)
(* written, and whatever the bytes are a complete integer that fits the    *)
(* word is read and nothing else (varint.h:23-117, protocol_io.h:67-126).  *)
(***************************************************************************)
IntegersAgree ==
  part = "integers" =>
    Stream!TypeOK /\ Stream!RoundTrip /\ Stream!SizeIsExact /\ Stream!DecodeIsExact

(***************************************************************************)
(* A complete frame is parsed to what HAProxy meant, no check refuses a    *)
(* valid one and no value changes on the way; a frame that is cut inside   *)
(* an item is refused, and never read as something HAProxy did not send    *)
(* (frame.cpp:99-179, typed_data.cpp:86-124, protocol_io.h:56-84).         *)
(***************************************************************************)
FramesAgree ==
  part = "frames" => Frame!TypeOK /\ Frame!ParsedAsSent /\ Frame!CutIsNoticed

(***************************************************************************)
(* HAProxy can read every answer, on the stack or on the heap: lengths,    *)
(* ids and the verdict (frame.cpp:181-252, spoa_agent.cpp:154-177).        *)
(***************************************************************************)
AnswersAgree == part = "frames" => Frame!AnswerIsRead
=============================================================================
