------------------------------ MODULE SpopStream ------------------------------
(***************************************************************************)
(* A buffer of variable-length integers: BufferWriter::write_varint and    *)
(* encode_to_vec append to it, Reader::read_varint consumes it             *)
(* (src/spoa/protocol_io.h).  A frame may end anywhere, and its bytes need *)
(* not come from this encoder.                                             *)
(***************************************************************************)
EXTENDS SpopVarint, SequencesExt

CONSTANTS
  Capacity,  \* size of the writer's buffer
  Numbers,   \* the integers that are written
  Foreign    \* buffers that another encoder has filled

VARIABLES
  written,  \* the integers that were written
  refused,  \* an integer that write_varint refused, or none
  buffer,   \* the bytes
  whole,    \* the buffer ends where an integer ends
  pos,      \* pos_ of the reader
  values,   \* the integers read
  failed    \* read_varint has thrown

vars == <<written, refused, buffer, whole, pos, values, failed>>

None == MaxWord + 1

Init ==
  /\ written = <<>> /\ refused = None
  /\ buffer \in Foreign \cup {<<>>} /\ whole = (buffer = <<>>)
  /\ pos = 1 /\ values = <<>> /\ failed = FALSE

write_varint(n) ==
  /\ whole /\ pos = 1 /\ refused = None /\ ~failed
  /\ IF encoded_size(n) > Capacity - Len(buffer)
     THEN refused' = n /\ UNCHANGED <<written, buffer>>
     ELSE /\ buffer' = buffer \o encode_unsafe(n)
          /\ written' = Append(written, n)
          /\ UNCHANGED refused
  /\ UNCHANGED <<whole, pos, values, failed>>

\* The frame ends before the last byte.
Cut ==
  /\ whole /\ pos = 1 /\ written # <<>> /\ ~failed
  /\ buffer' = Front(buffer) /\ whole' = FALSE
  /\ UNCHANGED <<written, refused, pos, values, failed>>

read_varint ==
  /\ ~failed /\ buffer # <<>>
  /\ LET r == decode(buffer, pos)
     IN  IF r.ok
         THEN pos' = r.next /\ values' = Append(values, r.value)
              /\ UNCHANGED failed
         ELSE failed' = TRUE /\ UNCHANGED <<pos, values>>
  /\ UNCHANGED <<written, refused, buffer, whole>>

Next ==
  \/ \E n \in Numbers : write_varint(n)
  \/ Cut
  \/ read_varint

Spec == Init /\ [][Next]_vars
-----------------------------------------------------------------------------
(***************************************************************************)
(* The reference, without loops: a byte string b is an integer if the      *)
(* first byte is below 240 and alone, or all bytes after the first but the *)
(* last are 128 or more.  Its value is a sum, in unbounded arithmetic.     *)
(***************************************************************************)
IsInteger(b) ==
  \/ Len(b) = 1 /\ b[1] < 240
  \/ /\ Len(b) > 1 /\ b[1] >= 240 /\ b[Len(b)] < 128
     /\ \A i \in 2..(Len(b) - 1) : b[i] >= 128

Value(b) ==
  FoldLeftDomain(LAMBDA sum, i : sum + b[i] * IF i = 1 THEN 1 ELSE 2^(7 * i - 10),
                 0, b)

\* The first integer of a buffer from p on, and whether there is one at all.
Ends(b, p) == {q \in p..Len(b) : IsInteger(SubSeq(b, p, q))}

(***************************************************************************)
(* The buffer holds what was written within its size; the indices of the   *)
(* reader stay inside.                                                     *)
(***************************************************************************)
TypeOK ==
  /\ written \in Seq(Numbers) /\ refused \in Numbers \cup {None}
  /\ pos \in 1..(Len(buffer) + 1)
  /\ whole => Len(buffer) <= Capacity
  /\ values \in Seq(0..MaxWord) /\ {whole, failed} \subseteq BOOLEAN

(***************************************************************************)
(* What is read is what was written, in order, and a cut loses the last    *)
(* integer and no other: encoded_size, encode_unsafe and decode agree at   *)
(* every boundary of the lengths.                                          *)
(***************************************************************************)
RoundTrip ==
  written # <<>> =>
    /\ IsPrefix(values, written)
    /\ failed => values = IF whole THEN written ELSE Front(written)

(***************************************************************************)
(* An integer is refused only if its shortest representation does not fit, *)
(* and the size computed beforehand is the number of bytes written.        *)
(***************************************************************************)
SizeIsExact ==
  /\ written # <<>> /\ whole =>
       Len(buffer) = FoldLeft(LAMBDA s, n : s + encoded_size(n), 0, written)
  /\ refused # None /\ whole =>
       Len(encode_unsafe(refused)) > Capacity - Len(buffer)

(***************************************************************************)
(* Whatever the bytes are, an integer is read exactly when they hold a     *)
(* complete one that fits the width ("Returns std::nullopt for truncated   *)
(* encodings or values beyond uint64_t", varint.h:43), and each integer    *)
(* has one representation.                                                 *)
(***************************************************************************)
DecodeIsExact ==
  buffer # <<>> =>
    LET r    == decode(buffer, pos)
        ends == Ends(buffer, pos)
        text == SubSeq(buffer, pos, CHOOSE q \in ends : TRUE)
    IN  IF ends = {} \/ Value(text) > MaxWord THEN ~r.ok
        ELSE /\ r.ok /\ r.value = Value(text) /\ r.next = pos + Len(text)
             /\ encode_unsafe(r.value) = text
=============================================================================
