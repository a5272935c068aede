----------------------------- MODULE MmdbEncoding -----------------------------
(***************************************************************************)
(* How Builder writes numbers (src/mmdb_builder/builder.cpp): control      *)
(* bytes with a size, pointers and the pairs of records of the search      *)
(* tree; and a reader that follows the format.  Offsets start from 0,      *)
(* sequences from 1.                                                       *)
(*                                                                         *)
(* The definition BaseForgotten is not part of the specification: it is a  *)
(* plausible mistake in the definition that follows it.                    *)
(***************************************************************************)
EXTENDS Integers, Sequences

\* Types of values, by their numbers in the format.
Ptr    == 1
Str    == 2
Dbl    == 3
Bytes  == 4
U16    == 5
U32    == 6
Map    == 7
I32    == 8
U64    == 9
Arr    == 11
Bool   == 14
Flt    == 15

ByteValue == 0..255

\* The byte of n at a unit: 1, 256, 65536 or 16777216.
Byte(n, unit) == (n \div unit) % 256

\* The control byte, ctrl being its type, with the bytes of the size.
EncodeSize(ctrl, size) ==
  LET mid  == size - 285
      long == size - 65821
  IN  IF size < 29 THEN <<ctrl + size>>
      ELSE IF size < 285 THEN <<ctrl + 29, size - 29>>
      ELSE IF size < 65821 THEN <<ctrl + 30, Byte(mid, 256), Byte(mid, 1)>>
      ELSE <<ctrl + 31, Byte(long, 65536), Byte(long, 256), Byte(long, 1)>>

\* A type that does not fit in the control byte has a byte of its own,
\* which is written behind the bytes of the size.
encode_ctrl_and_size(type, size) ==
  IF type < 8 THEN EncodeSize(type * 32, size)
  ELSE EncodeSize(0, size) \o <<type - 7>>

BaseForgotten(offset) ==
  IF offset < 2048 THEN <<32 + (offset \div 256), Byte(offset, 1)>>
  ELSE <<40 + ((offset \div 65536) % 8), Byte(offset, 256), Byte(offset, 1)>>

encode_pointer(offset) ==
  LET mid == offset - 2048
      far == offset - 526336
  IN  IF offset < 2048 THEN <<32 + ((offset \div 256) % 8), Byte(offset, 1)>>
      ELSE IF offset < 526336
      THEN <<40 + ((mid \div 65536) % 8), Byte(mid, 256), Byte(mid, 1)>>
      ELSE IF offset < 134744064
      THEN <<48 + ((far \div 16777216) % 8), Byte(far, 65536), Byte(far, 256), Byte(far, 1)>>
      ELSE <<56, Byte(offset, 16777216), Byte(offset, 65536), Byte(offset, 256),
             Byte(offset, 1)>>

\* Two records of 28 bits; the middle byte has the high bits of both.
WriteRecords(left, right) ==
  <<Byte(left, 65536), Byte(left, 256), Byte(left, 1),
    (Byte(left, 16777216) % 16) * 16 + (Byte(right, 16777216) % 16),
    Byte(right, 65536), Byte(right, 256), Byte(right, 1)>>
-----------------------------------------------------------------------------
(***************************************************************************)
(* The reader.                                                             *)
(***************************************************************************)
At(buf, offset)    == IF offset + 1 \in DOMAIN buf THEN buf[offset + 1] ELSE 0
Two(buf, offset)   == At(buf, offset) * 256 + At(buf, offset + 1)
Three(buf, offset) == Two(buf, offset) * 256 + At(buf, offset + 2)
Four(buf, offset)  == Three(buf, offset) * 256 + At(buf, offset + 3)

\* The size of a value by its control byte, its bytes of the size being at
\* bytes, and the offset of what follows them.
SizeOf(buf, control, bytes) ==
  LET low == At(buf, control) % 32
  IN  IF low < 29 THEN low
      ELSE IF low = 29 THEN 29 + At(buf, bytes)
      ELSE IF low = 30 THEN 285 + Two(buf, bytes)
      ELSE 65821 + Three(buf, bytes)

AfterSize(buf, control, bytes) ==
  LET low == At(buf, control) % 32
  IN  bytes + IF low < 29 THEN 0 ELSE low - 28

\* The type, the size and the offset of what follows, of a value at offset.
\* A type that is not in the control byte is in the byte behind it, before
\* the bytes of the size (the fixtures of tests/test_mmdb.cpp:26 too).
Control(buf, offset) ==
  LET high  == At(buf, offset) \div 32
      bytes == IF high # 0 THEN offset + 1 ELSE offset + 2
  IN  [type |-> IF high # 0 THEN high ELSE 7 + At(buf, offset + 1),
       size |-> SizeOf(buf, offset, bytes),
       next |-> AfterSize(buf, offset, bytes)]

IsPointer(buf, offset) == At(buf, offset) \div 32 = Ptr

\* A pointer has two bytes and these.
PointerSize(buf, offset) == (At(buf, offset) \div 8) % 4

Pointer(buf, offset) ==
  LET ss  == PointerSize(buf, offset)
      vvv == At(buf, offset) % 8
  IN  IF ss = 0 THEN vvv * 256 + At(buf, offset + 1)
      ELSE IF ss = 1 THEN vvv * 65536 + Two(buf, offset + 1) + 2048
      ELSE IF ss = 2 THEN vvv * 16777216 + Three(buf, offset + 1) + 526336
      ELSE Four(buf, offset + 1)

\* The two records of the node whose bytes begin at offset.
ReadRecords(buf, offset) ==
  <<(At(buf, offset + 3) \div 16) * 16777216 + Three(buf, offset),
    (At(buf, offset + 3) % 16) * 16777216 + Three(buf, offset + 4)>>
=============================================================================
