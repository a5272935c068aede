------------------------------ MODULE SpopVarint ------------------------------
(***************************************************************************)
(* The variable-length integers of the SPOE protocol (src/spoa/varint.h).  *)
(* A byte below 240 is a value; 240 and above carry four bits, and every   *)
(* byte after it seven, until one below 128.  uint64_t has Word bits here: *)
(* 64 = 4 + 8*7 + 4, so a width of 4 + 7*k + 4 leaves the last byte the    *)
(* same four bits.                                                         *)
(*                                                                         *)
(* A buffer is a sequence of bytes, p an index of it.  What is read is a   *)
(* record: ok, and then the value and the index after it.                  *)
(*                                                                         *)
(* OverflowUnchecked is not part of the specification: it is a plausible   *)
(* mistake in the definition that follows it.                              *)
(***************************************************************************)
EXTENDS Naturals, Sequences

CONSTANT Word  \* bits of uint64_t

MaxWord == 2^Word - 1

Failed        == [ok |-> FALSE]
Read(v, next) == [ok |-> TRUE, value |-> v, next |-> next]

RECURSIVE SizeBeyond(_)
SizeBeyond(n) == IF n < 128 THEN 0 ELSE 1 + SizeBeyond((n - 128) \div 2^7)

encoded_size(n) == IF n < 240 THEN 1 ELSE 2 + SizeBeyond((n - 240) \div 2^4)

\* n | 0x80 and n | 0xF0 of the low byte.
RECURSIVE Continuation(_)
Continuation(n) ==
  IF n < 128 THEN <<n>>
  ELSE <<128 + (n % 128)>> \o Continuation((n - 128) \div 2^7)

encode_unsafe(n) ==
  IF n < 240 THEN <<n>>
  ELSE <<240 + (n % 16)>> \o Continuation((n - 240) \div 2^4)

RECURSIVE OverflowUnchecked(_, _, _, _)
OverflowUnchecked(buf, i, shift, n) ==
  IF i > Len(buf) THEN Failed
  ELSE LET sum == (n + buf[i] * 2^shift) % (MaxWord + 1)
       IN  IF buf[i] < 128 THEN Read(sum, i + 1)
           ELSE OverflowUnchecked(buf, i + 1, shift + 7, sum)

RECURSIVE DecodeRest(_, _, _, _)
DecodeRest(buf, i, shift, n) ==
  IF \/ i > Len(buf)
     \/ shift >= Word
     \/ buf[i] > (MaxWord - n) \div 2^shift
  THEN Failed
  ELSE LET sum == n + buf[i] * 2^shift
       IN  IF buf[i] < 128 THEN Read(sum, i + 1)
           ELSE DecodeRest(buf, i + 1, shift + 7, sum)

decode(buf, p) ==
  IF p > Len(buf) THEN Failed
  ELSE IF buf[p] < 240 THEN Read(buf[p], p + 1)
  ELSE DecodeRest(buf, p + 1, 4, buf[p])
=============================================================================
