------------------------------ MODULE SpopFrame ------------------------------
(***************************************************************************)
(* Frames of the SPOE protocol: HAProxy sends a frame, the agent parses it *)
(* and answers (src/spoa/frame.cpp, typed_data.cpp, protocol_io.h,         *)
(* SpoaAgent::handle_frame).  The payload may end before the frame does.   *)
(*                                                                         *)
(* Strings are short sequences of bytes.  uint32_t has Half bits, uint64_t *)
(* Word.  The answers have a bounded size, so that add_size never throws   *)
(* and is a sum here.                                                      *)
(*                                                                         *)
(* The definitions NameNotCounted and LengthClipped are not part of the    *)
(* specification: each is a plausible mistake in the definition that       *)
(* follows it.                                                             *)
(***************************************************************************)
EXTENDS SpopVarint, SpopTypes, Integers, SequencesExt

CONSTANTS
  Half,       \* bits of uint32_t
  Frames,     \* the frames HAProxy may send
  StackSize   \* size of the buffer handle_notify encodes into

VARIABLES
  frame,    \* the frame HAProxy sends
  payload,  \* the bytes after length and type
  phase,    \* "sent", "cut" or "handled"
  whole,    \* the payload is complete
  parsed,   \* the result of parse()
  bad,      \* ip_bad of a NOTIFY frame
  answer    \* the bytes of the answer

vars == <<frame, payload, phase, whole, parsed, bad, answer>>

Flags == <<0, 0, 0, 1>>
-----------------------------------------------------------------------------
(***************************************************************************)
(* Writing.                                                                *)
(***************************************************************************)
length_prefixed(s) == encode_unsafe(Len(s)) \o s

\* static_cast<uint64_t> of a signed integer
SignExtended(n) == IF n < 0 THEN n + 2^Word ELSE n

EncodeTyped(d) ==
  CASE d.type = Null    -> <<Null>>
    [] d.type = Boolean -> <<Boolean + IF d.v THEN 16 ELSE 0>>
    [] d.type \in {Int32, Int64} -> <<d.type>> \o encode_unsafe(SignExtended(d.v))
    [] d.type \in {UInt32, UInt64} -> <<d.type>> \o encode_unsafe(d.v)
    [] d.type \in {IPv4, IPv6} -> <<d.type>> \o d.v
    [] d.type \in {String, Binary} -> <<d.type>> \o length_prefixed(d.v)

typed_encoded_size(d) ==
  1 + CASE d.type \in {Null, Boolean}   -> 0
        [] d.type \in {Int32, Int64}    -> encoded_size(SignExtended(d.v))
        [] d.type \in {UInt32, UInt64}  -> encoded_size(d.v)
        [] d.type = IPv4                -> 4
        [] d.type = IPv6                -> 16
        [] d.type \in {String, Binary}  -> encoded_size(Len(d.v)) + Len(d.v)

NameNotCounted(f) == Len(f.name) + typed_encoded_size(f.value)

field_size(f) ==
  encoded_size(Len(f.name)) + Len(f.name) + typed_encoded_size(f.value)

append_field(f)  == length_prefixed(f.name) \o EncodeTyped(f.value)
Concat(op(_), s) == FlattenSeq([i \in DOMAIN s |-> op(s[i])])
Total(op(_), s)  == FoldLeft(LAMBDA n, x : n + op(x), 0, s)

write_u32_be(n) ==
  <<(n \div 2^24) % 256, (n \div 2^16) % 256, (n \div 2^8) % 256, n % 256>>

begin_frame(type, stream, id, payload_size) ==
  write_u32_be(1 + Len(Flags) + encoded_size(stream) + encoded_size(id)
                 + payload_size)
    \o <<type>> \o Flags \o encode_unsafe(stream) \o encode_unsafe(id)

encode_fields(type, stream, id, fields) ==
  begin_frame(type, stream, id, Total(field_size, fields))
    \o Concat(append_field, fields)

encode_agent_hello(stream, id, max_frame_size) ==
  encode_fields(AgentHello, stream, id,
                <<Field(Version, String, <<2, 0>>),
                  Field(MaxFrameSize, UInt32, max_frame_size),
                  Field(Capabilities, String, <<1>>)>>)

encode_agent_disconnect ==
  encode_fields(AgentDisconnect, 0, 0,
                <<Field(StatusCode, UInt32, 14),
                  Field(MessageText, String, NotImplemented)>>)

\* The actions SET-VAR of scope session; 3 is their number of arguments.
set_var(var) == <<1, 3, 1>> \o append_field(var)

ack_payload_size(vars_) == Total(LAMBDA var : 3 + field_size(var), vars_)

\* The buffer of encode_agent_ack_into has room bytes; <<>> stands for 0.
encode_agent_ack_into(room, stream, id, vars_) ==
  LET size == 5 + encoded_size(stream) + encoded_size(id)
                + ack_payload_size(vars_)
  IN  IF room < 4 + size THEN <<>>
      ELSE begin_frame(AgentAck, stream, id, ack_payload_size(vars_))
             \o Concat(set_var, vars_)

\* encode_agent_ack allocates what the size says and resizes to what is written.
encode_agent_ack(stream, id, vars_) ==
  encode_agent_ack_into(4 + 5 + encoded_size(stream) + encoded_size(id)
                          + ack_payload_size(vars_), stream, id, vars_)
-----------------------------------------------------------------------------
(***************************************************************************)
(* Reading.                                                                *)
(***************************************************************************)
Then(r, op(_, _)) == IF r.ok THEN op(r.value, r.next) ELSE Failed

read_bytes(buf, p, count) ==
  IF count > Len(buf) - p + 1 THEN Failed
  ELSE Read(SubSeq(buf, p, p + count - 1), p + count)

read_byte(buf, p) ==
  Then(read_bytes(buf, p, 1), LAMBDA bytes, q : Read(bytes[1], q))

LengthClipped(buf, p) ==
  Then(decode(buf, p), LAMBDA length, q :
    read_bytes(buf, q, IF length > Len(buf) - q + 1 THEN Len(buf) - q + 1
                       ELSE length))

read_string(buf, p) ==
  Then(decode(buf, p), LAMBDA length, q : read_bytes(buf, q, length))

\* static_cast<int32_t>, static_cast<int64_t>
Signed(n, width) ==
  LET low == n % 2^width IN IF low >= 2^(width - 1) THEN low - 2^width ELSE low

Header(header) == [type |-> header % 16, bit |-> (header \div 16) % 2 = 1]

DecodeTyped(buf, p) ==
  Then(read_byte(buf, p), LAMBDA byte, q :
    LET type == Header(byte).type
        Typed(v, next) == Read([type |-> type, v |-> v], next)
    IN  CASE type = Null    -> Typed(0, q)
          [] type = Boolean -> Typed(Header(byte).bit, q)
          [] type = Int32   -> Then(decode(buf, q),
                                    LAMBDA v, r : Typed(Signed(v, Half), r))
          [] type = UInt32  -> Then(decode(buf, q),
                                    LAMBDA v, r : Typed(v % 2^Half, r))
          [] type = Int64   -> Then(decode(buf, q),
                                    LAMBDA v, r : Typed(Signed(v, Word), r))
          [] type = UInt64  -> Then(decode(buf, q), Typed)
          [] type = IPv4    -> Then(read_bytes(buf, q, 4), Typed)
          [] type = IPv6    -> Then(read_bytes(buf, q, 16), Typed)
          [] type \in {String, Binary} -> Then(read_string(buf, q), Typed)
          [] OTHER          -> Failed)

read_arg(buf, p) ==
  Then(read_string(buf, p), LAMBDA name, q :
    Then(DecodeTyped(buf, q), LAMBDA value, r :
      Read([name |-> name, value |-> value], r)))

RECURSIVE read_args(_, _, _, _)
read_args(buf, p, count, args) ==
  IF count = 0 THEN Read(args, p)
  ELSE Then(read_arg(buf, p), LAMBDA arg, q :
         read_args(buf, q, count - 1, Append(args, arg)))

RECURSIVE for_each_field(_, _, _)
for_each_field(buf, p, fields) ==
  IF p > Len(buf) THEN Read(fields, p)
  ELSE Then(read_arg(buf, p), LAMBDA field, q :
         for_each_field(buf, q, Append(fields, field)))

\* The last field of a name counts, if it has the expected type.
Last_(fields, name, type, default) ==
  FoldLeft(LAMBDA v, f : IF f.name = name /\ f.value.type = type THEN f.value.v
                         ELSE v, default, fields)

parse_hello(fields) ==
  [engine_id          |-> Last_(fields, EngineId, String, <<>>),
   supported_versions |-> Last_(fields, SupportedVersions, String, <<>>),
   max_frame_size     |-> Last_(fields, MaxFrameSize, UInt32, 0),
   healthcheck        |-> Last_(fields, Healthcheck, Boolean, FALSE)]

parse_disconnect(fields) ==
  [status_code |-> Last_(fields, StatusCode, UInt32, 0),
   message     |-> Last_(fields, MessageText, String, <<>>)]

\* Even an empty name and a null value take two bytes.
Impossible(count, remaining) == count > remaining \div 2

RECURSIVE parse_notify(_, _, _)
parse_notify(buf, p, messages) ==
  IF p > Len(buf) THEN Read(messages, p)
  ELSE Then(read_string(buf, p), LAMBDA name, q :
         Then(read_byte(buf, q), LAMBDA count, r :
           IF Impossible(count, Len(buf) - r + 1) THEN Failed
           ELSE Then(read_args(buf, r, count, <<>>), LAMBDA args, t :
                  parse_notify(buf, t,
                    Append(messages, [name |-> name, args |-> args])))))

parse(type, buf) ==
  Then(read_bytes(buf, 1, Len(Flags)), LAMBDA flags, p :
    Then(decode(buf, p), LAMBDA stream, q :
      Then(decode(buf, q), LAMBDA id, r :
        LET Parsed(content, next) ==
              Read([stream |-> stream, id |-> id, content |-> content], next)
            Fields(op(_)) ==
              Then(for_each_field(buf, r, <<>>),
                   LAMBDA fields, next : Parsed(op(fields), next))
        IN  CASE type = Hello      -> Fields(parse_hello)
              [] type = Disconnect -> Fields(parse_disconnect)
              [] type = Notify     -> Then(parse_notify(buf, r, <<>>), Parsed)
              [] OTHER             -> Failed)))
-----------------------------------------------------------------------------
\* HAProxy's encoder.  Content is a sequence of fields or of messages.
ItemBytes(item) ==
  IF "args" \in DOMAIN item
  THEN length_prefixed(item.name) \o <<Len(item.args)>>
         \o Concat(append_field, item.args)
  ELSE append_field(item)

Payload(f) ==
  Flags \o encode_unsafe(f.stream) \o encode_unsafe(f.id)
        \o Concat(ItemBytes, f.content)

Init ==
  /\ frame \in Frames /\ payload = Payload(frame)
  /\ phase = "sent" /\ whole = TRUE
  /\ parsed = Failed /\ bad = FALSE /\ answer = <<>>

\* The length field of the frame covers only a part of it.
Cut ==
  /\ phase = "sent" /\ phase' = "cut" /\ whole' = FALSE
  /\ \E n \in 0..(Len(payload) - 1) : payload' = SubSeq(payload, 1, n)
  /\ UNCHANGED <<frame, parsed, bad, answer>>

Arguments(messages) == UNION {ToSet(m.args) : m \in ToSet(messages)}

AnswerNotify(f, ip_bad) ==
  LET var  == <<Field(IpBad, Boolean, ip_bad)>>
      fast == encode_agent_ack_into(StackSize, f.stream, f.id, var)
  IN  IF \E a \in Arguments(f.content) : a.value.type \notin {IPv4, IPv6, String}
      THEN encode_agent_disconnect
      ELSE IF fast # <<>> THEN fast ELSE encode_agent_ack(f.stream, f.id, var)

\* The evaluation of the arguments is in module SpoaEvaluation.
handle_frame(ip_bad) ==
  /\ phase \in {"sent", "cut"} /\ phase' = "handled"
  /\ LET r == parse(frame.type, payload)
     IN  /\ parsed' = r
         /\ bad' = (ip_bad /\ r.ok /\ frame.type = Notify)
         /\ answer' = CASE ~r.ok -> <<>>
                        [] frame.type = Hello ->
                             encode_agent_hello(r.value.stream, r.value.id,
                                                r.value.content.max_frame_size)
                        [] frame.type = Disconnect -> <<>>
                        [] frame.type = Notify -> AnswerNotify(r.value, ip_bad)
  /\ UNCHANGED <<frame, payload, whole>>

Next ==
  \/ Cut
  \/ \E ip_bad \in BOOLEAN : handle_frame(ip_bad)

Spec == Init /\ [][Next]_vars
-----------------------------------------------------------------------------
(***************************************************************************)
(* The reference: what the first n items of a frame mean.                  *)
(***************************************************************************)
Wins(f, n, name, type) ==
  {i \in 1..n : f.content[i].name = name /\ f.content[i].value.type = type}

FieldOf(f, n, name, type, default) ==
  LET wins == Wins(f, n, name, type)
  IN  IF wins = {} THEN default
      ELSE f.content[CHOOSE i \in wins : \A j \in wins : j <= i].value.v

Meaning(f, n) ==
  [stream |-> f.stream, id |-> f.id,
   content |->
     CASE f.type = Hello ->
            [engine_id |-> FieldOf(f, n, EngineId, String, <<>>),
             supported_versions |-> FieldOf(f, n, SupportedVersions, String, <<>>),
             max_frame_size |-> FieldOf(f, n, MaxFrameSize, UInt32, 0),
             healthcheck |-> FieldOf(f, n, Healthcheck, Boolean, FALSE)]
       [] f.type = Disconnect ->
            [status_code |-> FieldOf(f, n, StatusCode, UInt32, 0),
             message |-> FieldOf(f, n, MessageText, String, <<>>)]
       [] f.type = Notify -> SubSeq(f.content, 1, n)]

\* HAProxy's reader of an answer.
RECURSIVE ReadActions(_, _, _)
ReadActions(buf, p, acts) ==
  IF p > Len(buf) THEN Read(acts, p)
  ELSE Then(read_bytes(buf, p, 3), LAMBDA head, q :
         IF head # <<1, 3, 1>> THEN Failed
         ELSE Then(read_arg(buf, q), LAMBDA var, r :
                ReadActions(buf, r, Append(acts, var))))

ReadAnswer(bytes) ==
  IF Len(bytes) < 9 \/ SubSeq(bytes, 1, 4) # write_u32_be(Len(bytes) - 4)
  THEN Failed
  ELSE Then(decode(bytes, 10), LAMBDA stream, p :
         Then(decode(bytes, p), LAMBDA id, q :
           Then(IF bytes[5] = AgentAck THEN ReadActions(bytes, q, <<>>)
                ELSE for_each_field(bytes, q, <<>>), LAMBDA content, r :
             Read([type |-> bytes[5], stream |-> stream, id |-> id,
                   content |-> content], r))))
-----------------------------------------------------------------------------
TypeOK ==
  /\ phase \in {"sent", "cut", "handled"}
  /\ \A i \in DOMAIN payload : payload[i] \in 0..255
  /\ \A i \in DOMAIN answer : answer[i] \in 0..255
  /\ parsed.ok => parsed.next = Len(payload) + 1

(***************************************************************************)
(* A complete frame is parsed, to what HAProxy meant: no check of the      *)
(* parser (the count of arguments included) refuses a valid frame, and no  *)
(* value changes on the way, negative and empty ones included.  Frames of  *)
(* an agent are refused.                                                   *)
(***************************************************************************)
ParsedAsSent ==
  phase = "handled" /\ whole =>
    IF frame.type \in {Hello, Disconnect, Notify}
    THEN parsed.ok /\ parsed.value = Meaning(frame, Len(frame.content))
    ELSE ~parsed.ok

(***************************************************************************)
(* A frame that is cut is refused, unless the cut falls between two items; *)
(* then it means what its first items mean.  No value is ever assembled    *)
(* from bytes beyond the payload.                                          *)
(***************************************************************************)
CutIsNoticed ==
  phase = "handled" /\ ~whole /\ parsed.ok =>
    \E n \in 0..Len(frame.content) :
      /\ parsed.value = Meaning(frame, n)
      /\ payload = Payload([frame EXCEPT !.content = SubSeq(@, 1, n)])

(***************************************************************************)
(* HAProxy can read every answer: the length says how many bytes follow,   *)
(* the ids are those of the request, and the verdict arrives, whether the  *)
(* answer fits the buffer on the stack or not.                             *)
(***************************************************************************)
AnswerIsRead ==
  phase = "handled" /\ answer # <<>> =>
    LET r == ReadAnswer(answer)
    IN  /\ r.ok
        /\ r.value.type \in {AgentHello, AgentAck} =>
             r.value.stream = parsed.value.stream /\ r.value.id = parsed.value.id
        /\ CASE r.value.type = AgentHello ->
                  Field(MaxFrameSize, UInt32, parsed.value.content.max_frame_size)
                    \in ToSet(r.value.content)
             [] r.value.type = AgentAck ->
                  r.value.content = <<Field(IpBad, Boolean, bad)>>
             [] r.value.type = AgentDisconnect ->
                  \E a \in Arguments(parsed.value.content) :
                    a.value.type \notin {IPv4, IPv6, String}
             [] OTHER -> FALSE
=============================================================================
