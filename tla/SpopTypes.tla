------------------------------ MODULE SpopTypes ------------------------------
(***************************************************************************)
(* The types of frames and of values of the SPOE protocol                  *)
(* (src/spoa/frame.h, typed_data.h) and the strings that the code compares *)
(* or writes, which are one byte each.                                     *)
(***************************************************************************)
\* enum class FrameType
Hello           == 1
Disconnect      == 2
Notify          == 3
AgentHello      == 101
AgentDisconnect == 102
AgentAck        == 103

\* enum class TypedType
Null    == 0
Boolean == 1
Int32   == 2
UInt32  == 3
Int64   == 4
UInt64  == 5
IPv4    == 6
IPv6    == 7
String  == 8
Binary  == 9

\* The strings of the code.
EngineId          == <<1>>
SupportedVersions == <<2>>
MaxFrameSize      == <<3>>
Healthcheck       == <<4>>
StatusCode        == <<5>>
MessageText       == <<6>>
Version           == <<7>>
Capabilities      == <<8>>
IpBad             == <<9>>
NotImplemented    == <<10>>

\* A named value of a frame.
Field(name, type, v) == [name |-> name, value |-> [type |-> type, v |-> v]]
==============================================================================
