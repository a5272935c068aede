---------------------------- MODULE MmdbFileProofs ----------------------------
(***************************************************************************)
(* Proofs about the file of Builder::build, for every number of nodes and  *)
(* of values, every size, offset and record of type uint32_t, every        *)
(* payload and every size of the buffer.                                   *)
(***************************************************************************)
EXTENDS MmdbFile, SequenceTheorems, TLAPS

\* The bytes are in buf from an offset on.
Holds(buf, at, bytes) ==
  /\ at + Len(bytes) <= Len(buf)
  /\ \A i \in 1..Len(bytes) : buf[at + i] = bytes[i]

\* The types that fit in a control byte, and zero.
Ctrls == {0, 32, 64, 96, 128, 160, 192, 224}

AllTypes == {Str, Dbl, Bytes, U16, U32, Map, I32, U64, Arr, Bool, Flt}
-----------------------------------------------------------------------------
(***************************************************************************)
(* Numbers and their bytes.                                                *)
(***************************************************************************)
\* A byte of a number, whatever the number.
LEMMA ByteIsByte ==
  ASSUME NEW n \in Int
  PROVE  /\ Byte(n, 1) \in ByteValue /\ Byte(n, 256) \in ByteValue
         /\ Byte(n, 65536) \in ByteValue /\ Byte(n, 16777216) \in ByteValue
BY SMT DEF Byte, ByteValue

\* Two bytes are enough below 2^16.
LEMMA TwoBytes ==
  ASSUME NEW n \in Nat, n < 65536
  PROVE  Byte(n, 256) * 256 + Byte(n, 1) = n
BY SMT DEF Byte

\* Three bytes are enough below 2^24.
LEMMA ThreeBytes ==
  ASSUME NEW n \in Nat, n < 16777216
  PROVE  (Byte(n, 65536) * 256 + Byte(n, 256)) * 256 + Byte(n, 1) = n
BY SMT DEF Byte

\* With four bits above them, three bytes are what fits in a record.
LEMMA LowBits ==
  ASSUME NEW n \in Nat
  PROVE  InRecord(n) = ((n \div 16777216) % 16) * 16777216
                         + ((Byte(n, 65536) * 256 + Byte(n, 256)) * 256 + Byte(n, 1))
<1> DEFINE low == (Byte(n, 65536) * 256 + Byte(n, 256)) * 256 + Byte(n, 1)
           high == n \div 16777216
<1>1. n = high * 16777216 + low /\ low \in Nat /\ low < 16777216 /\ high \in Nat
  BY SMT DEF Byte
<1> HIDE DEF low, high
<1>2. PICK m \in Nat : high = m * 16 + (high % 16)
  <2>1. high \div 16 \in Nat /\ high = (high \div 16) * 16 + (high % 16)
    BY SMT, <1>1
  <2> QED BY SMT, <2>1
<1>3. (high % 16) \in Nat /\ high % 16 < 16
  BY SMT, <1>1
<1> DEFINE in == (high % 16) * 16777216 + low
<1>4. n = m * 268435456 + in /\ in \in Nat /\ in < 268435456
  BY SMT, <1>1, <1>2, <1>3
<1> HIDE DEF in
<1>5. n % 268435456 = in
  BY SMT, <1>4
<1> QED BY SMT, <1>5 DEF InRecord, in, low, high

\* Four bytes are enough for uint32_t.
LEMMA FourBytes ==
  ASSUME NEW n \in Nat, n \div 65536 < 65536
  PROVE  ((Byte(n, 16777216) * 256 + Byte(n, 65536)) * 256 + Byte(n, 256)) * 256
           + Byte(n, 1) = n
BY SMT DEF Byte
-----------------------------------------------------------------------------
(***************************************************************************)
(* Buffers.                                                                *)
(***************************************************************************)
\* What follows changes nothing.
LEMMA HoldsBefore ==
  ASSUME NEW buf \in Seq(ByteValue), NEW more \in Seq(ByteValue), NEW at \in Nat,
         NEW bytes \in Seq(ByteValue), Holds(buf, at, bytes)
  PROVE  Holds(buf \o more, at, bytes)
BY DEF Holds

\* What is appended begins where the buffer ended.
LEMMA HoldsAppended ==
  ASSUME NEW buf \in Seq(ByteValue), NEW bytes \in Seq(ByteValue)
  PROVE  Holds(buf \o bytes, Len(buf), bytes)
BY DEF Holds

\* The first part of what a buffer holds, and the second.
LEMMA HoldsParts ==
  ASSUME NEW buf \in Seq(ByteValue), NEW at \in Nat, NEW a \in Seq(ByteValue),
         NEW b \in Seq(ByteValue), Holds(buf, at, a \o b)
  PROVE  Holds(buf, at, a) /\ Holds(buf, at + Len(a), b)
<1>1. Len(a \o b) = Len(a) + Len(b) /\ Len(a) \in Nat /\ Len(b) \in Nat
  OBVIOUS
<1>2. Holds(buf, at, a)
  BY <1>1 DEF Holds
<1>3. ASSUME NEW i \in 1..Len(b) PROVE buf[(at + Len(a)) + i] = b[i]
  <2>1. Len(a) + i \in 1..Len(a \o b) /\ (a \o b)[Len(a) + i] = b[i]
    BY <1>1
  <2>2. buf[at + (Len(a) + i)] = b[i]
    BY <2>1 DEF Holds
  <2> QED BY <1>1, <2>2
<1> QED BY <1>1, <1>2, <1>3 DEF Holds

\* What is within something that a buffer holds.
LEMMA HoldsWithin ==
  ASSUME NEW buf \in Seq(ByteValue), NEW at \in Nat, NEW part \in Seq(ByteValue),
         NEW from \in Nat, NEW bytes \in Seq(ByteValue),
         Holds(buf, at, part), Holds(part, from, bytes)
  PROVE  Holds(buf, at + from, bytes)
<1>1. Len(part) \in Nat /\ Len(bytes) \in Nat
  OBVIOUS
<1>2. ASSUME NEW i \in 1..Len(bytes) PROVE buf[(at + from) + i] = bytes[i]
  <2>1. from + i \in 1..Len(part) /\ part[from + i] = bytes[i]
    BY <1>1 DEF Holds
  <2>2. buf[at + (from + i)] = bytes[i]
    BY <2>1 DEF Holds
  <2> QED BY <2>2
<1> QED BY <1>1, <1>2 DEF Holds

\* A reader finds the bytes that a buffer holds.
LEMMA AtHeld ==
  ASSUME NEW buf \in Seq(ByteValue), NEW at \in Nat, NEW bytes \in Seq(ByteValue),
         Holds(buf, at, bytes), NEW j \in Nat, j < Len(bytes)
  PROVE  At(buf, at + j) = bytes[j + 1]
<1>1. j + 1 \in 1..Len(bytes) /\ Len(bytes) \in Nat /\ Len(buf) \in Nat
  OBVIOUS
<1>2. buf[at + (j + 1)] = bytes[j + 1]
  BY <1>1 DEF Holds
<1>3. (at + j) + 1 \in DOMAIN buf
  BY <1>1 DEF Holds
<1> QED BY <1>2, <1>3 DEF At

\* The first bytes, one by one.
LEMMA FirstBytes ==
  ASSUME NEW buf \in Seq(ByteValue), NEW at \in Nat, NEW bytes \in Seq(ByteValue),
         Holds(buf, at, bytes)
  PROVE  /\ 0 < Len(bytes) => At(buf, at) = bytes[1]
         /\ 1 < Len(bytes) => At(buf, at + 1) = bytes[2]
         /\ 2 < Len(bytes) => At(buf, at + 2) = bytes[3]
         /\ 3 < Len(bytes) => At(buf, at + 3) = bytes[4]
         /\ 4 < Len(bytes) => At(buf, at + 4) = bytes[5]
         /\ 5 < Len(bytes) => At(buf, at + 5) = bytes[6]
         /\ 6 < Len(bytes) => At(buf, at + 6) = bytes[7]
<1>0. 0 < Len(bytes) => At(buf, at) = bytes[1]
  <2>1. at + 0 = at /\ 0 + 1 = 1 /\ 0 \in Nat
    OBVIOUS
  <2>2. 0 < Len(bytes) => At(buf, at + 0) = bytes[0 + 1]
    BY <2>1, AtHeld
  <2> QED BY <2>1, <2>2
<1>1. 1 < Len(bytes) => At(buf, at + 1) = bytes[2]
  <2>1. 1 + 1 = 2 /\ 1 \in Nat
    OBVIOUS
  <2>2. 1 < Len(bytes) => At(buf, at + 1) = bytes[1 + 1]
    BY <2>1, AtHeld
  <2> QED BY <2>1, <2>2
<1>2. 2 < Len(bytes) => At(buf, at + 2) = bytes[3]
  <2>1. 2 + 1 = 3 /\ 2 \in Nat
    OBVIOUS
  <2>2. 2 < Len(bytes) => At(buf, at + 2) = bytes[2 + 1]
    BY <2>1, AtHeld
  <2> QED BY <2>1, <2>2
<1>3. 3 < Len(bytes) => At(buf, at + 3) = bytes[4]
  <2>1. 3 + 1 = 4 /\ 3 \in Nat
    OBVIOUS
  <2>2. 3 < Len(bytes) => At(buf, at + 3) = bytes[3 + 1]
    BY <2>1, AtHeld
  <2> QED BY <2>1, <2>2
<1>4. 4 < Len(bytes) => At(buf, at + 4) = bytes[5]
  <2>1. 4 + 1 = 5 /\ 4 \in Nat
    OBVIOUS
  <2>2. 4 < Len(bytes) => At(buf, at + 4) = bytes[4 + 1]
    BY <2>1, AtHeld
  <2> QED BY <2>1, <2>2
<1>5. 5 < Len(bytes) => At(buf, at + 5) = bytes[6]
  <2>1. 5 + 1 = 6 /\ 5 \in Nat
    OBVIOUS
  <2>2. 5 < Len(bytes) => At(buf, at + 5) = bytes[5 + 1]
    BY <2>1, AtHeld
  <2> QED BY <2>1, <2>2
<1>6. 6 < Len(bytes) => At(buf, at + 6) = bytes[7]
  <2>1. 6 + 1 = 7 /\ 6 \in Nat
    OBVIOUS
  <2>2. 6 < Len(bytes) => At(buf, at + 6) = bytes[6 + 1]
    BY <2>1, AtHeld
  <2> QED BY <2>1, <2>2
<1> QED BY <1>0, <1>1, <1>2, <1>3, <1>4, <1>5, <1>6
-----------------------------------------------------------------------------
(***************************************************************************)
(* Encodings are bytes.                                                    *)
(***************************************************************************)
LEMMA SizeIsBytes ==
  ASSUME NEW ctrl \in Ctrls, NEW size \in Nat
  PROVE  EncodeSize(ctrl, size) \in Seq(ByteValue)
<1>1. ctrl + 29 \in ByteValue /\ ctrl + 30 \in ByteValue /\ ctrl + 31 \in ByteValue
  BY SMT DEF Ctrls, ByteValue
<1>2. CASE size < 29
  <2>1. ctrl + size \in ByteValue
    BY SMT, <1>2 DEF Ctrls, ByteValue
  <2> QED BY SMT, <1>2, <2>1 DEF EncodeSize
<1>3. CASE ~(size < 29) /\ size < 285
  <2>1. size - 29 \in ByteValue
    BY SMT, <1>3 DEF ByteValue
  <2> QED BY SMT, <1>1, <1>3, <2>1 DEF EncodeSize
<1>4. CASE ~(size < 285) /\ size < 65821
  <2>1. size - 285 \in Int /\ ~(size < 29)
    BY SMT, <1>4
  <2>2. Byte(size - 285, 256) \in ByteValue /\ Byte(size - 285, 1) \in ByteValue
    BY SMT, <2>1, ByteIsByte
  <2> QED BY SMT, <1>1, <1>4, <2>1, <2>2 DEF EncodeSize
<1>5. CASE ~(size < 65821)
  <2>1. size - 65821 \in Int /\ ~(size < 29) /\ ~(size < 285)
    BY SMT, <1>5
  <2>2. /\ Byte(size - 65821, 65536) \in ByteValue
        /\ Byte(size - 65821, 256) \in ByteValue
        /\ Byte(size - 65821, 1) \in ByteValue
    BY SMT, <2>1, ByteIsByte
  <2> QED BY SMT, <1>1, <1>5, <2>1, <2>2 DEF EncodeSize
<1> QED BY SMT, <1>2, <1>3, <1>4, <1>5

\* The same with the byte of the type.
LEMMA ControlIsBytes ==
  ASSUME NEW type \in AllTypes, NEW size \in Nat
  PROVE  encode_ctrl_and_size(type, size) \in Seq(ByteValue)
<1>1. CASE type < 8
  <2>1. type * 32 \in Ctrls
    BY SMT, <1>1 DEF Ctrls, AllTypes, Str, Dbl, Bytes, U16, U32, Map, I32, U64, Arr, Bool, Flt
  <2> QED BY SMT, <1>1, <2>1, SizeIsBytes DEF encode_ctrl_and_size
<1>2. CASE ~(type < 8)
  <2>1. <<type - 7>> \in Seq(ByteValue)
    BY SMT, <1>2 DEF AllTypes, Str, Dbl, Bytes, U16, U32, Map, I32, U64, Arr, Bool, Flt,
                ByteValue
  <2>2. 0 \in Ctrls
    BY SMT DEF Ctrls
  <2>3. EncodeSize(0, size) \in Seq(ByteValue)
    BY SMT, <2>2, SizeIsBytes
  <2> QED BY SMT, <1>2, <2>1, <2>3 DEF encode_ctrl_and_size
<1> QED BY SMT, <1>1, <1>2

\* Pointers of every length.
LEMMA PointerIsBytes ==
  ASSUME NEW offset \in Nat
  PROVE  encode_pointer(offset) \in Seq(ByteValue)
<1> DEFINE mid == offset - 2048
           far == offset - 526336
<1>1. /\ (offset \div 256) % 8 \in 0..7
      /\ (mid \div 65536) % 8 \in 0..7
      /\ (far \div 16777216) % 8 \in 0..7
  BY SMT
<1>2. /\ Byte(offset, 16777216) \in ByteValue /\ Byte(offset, 65536) \in ByteValue
      /\ Byte(offset, 256) \in ByteValue /\ Byte(offset, 1) \in ByteValue
  BY SMT, ByteIsByte
<1>3. Byte(mid, 256) \in ByteValue /\ Byte(mid, 1) \in ByteValue
  BY SMT, ByteIsByte
<1>4. /\ Byte(far, 65536) \in ByteValue /\ Byte(far, 256) \in ByteValue
      /\ Byte(far, 1) \in ByteValue
  BY SMT, ByteIsByte
<1>5. /\ 32 + ((offset \div 256) % 8) \in ByteValue
      /\ 40 + ((mid \div 65536) % 8) \in ByteValue
      /\ 48 + ((far \div 16777216) % 8) \in ByteValue
      /\ 56 \in ByteValue
  BY SMT, <1>1 DEF ByteValue
<1>6. CASE offset < 2048
  BY SMT, <1>2, <1>5, <1>6 DEF encode_pointer
<1>7. CASE ~(offset < 2048) /\ offset < 526336
  BY SMT, <1>3, <1>5, <1>7 DEF encode_pointer
<1>8. CASE ~(offset < 2048) /\ ~(offset < 526336) /\ offset < 134744064
  BY SMT, <1>4, <1>5, <1>8 DEF encode_pointer
<1>9. CASE ~(offset < 2048) /\ ~(offset < 526336) /\ ~(offset < 134744064)
  BY SMT, <1>2, <1>5, <1>9 DEF encode_pointer
<1> QED BY SMT, <1>6, <1>7, <1>8, <1>9

\* The records of a node are seven bytes.
LEMMA RecordsAreBytes ==
  ASSUME NEW left \in Nat, NEW right \in Nat
  PROVE  /\ WriteRecords(left, right) \in Seq(ByteValue)
         /\ Len(WriteRecords(left, right)) = 7
<1>1. /\ Byte(left, 16777216) \in ByteValue /\ Byte(left, 65536) \in ByteValue
      /\ Byte(left, 256) \in ByteValue /\ Byte(left, 1) \in ByteValue
      /\ Byte(right, 16777216) \in ByteValue /\ Byte(right, 65536) \in ByteValue
      /\ Byte(right, 256) \in ByteValue /\ Byte(right, 1) \in ByteValue
  BY SMT, ByteIsByte
<1>2. (Byte(left, 16777216) % 16) * 16 + (Byte(right, 16777216) % 16) \in ByteValue
  BY SMT, <1>1 DEF ByteValue
<1> QED BY SMT, <1>1, <1>2 DEF WriteRecords
-----------------------------------------------------------------------------
(***************************************************************************)
(* What is written is read.                                                *)
(***************************************************************************)
\* The first byte gives the type, and the size and its end are found where
\* no byte of the type comes between them.
LEMMA SizeIsRead ==
  ASSUME NEW buf \in Seq(ByteValue), NEW at \in Nat, NEW ctrl \in Ctrls,
         NEW size \in Nat, size < 16843037, Holds(buf, at, EncodeSize(ctrl, size))
  PROVE  /\ At(buf, at) \div 32 = ctrl \div 32
         /\ SizeOf(buf, at, at + 1) = size
         /\ AfterSize(buf, at, at + 1) = at + Len(EncodeSize(ctrl, size))
<1> DEFINE e == EncodeSize(ctrl, size)
<1>1. e \in Seq(ByteValue)
  BY SMT, SizeIsBytes
<1>2. /\ 0 < Len(e) => At(buf, at) = e[1]
      /\ 1 < Len(e) => At(buf, at + 1) = e[2]
      /\ 2 < Len(e) => At(buf, at + 2) = e[3]
      /\ 3 < Len(e) => At(buf, at + 3) = e[4]
      /\ 4 < Len(e) => At(buf, at + 4) = e[5]
      /\ 5 < Len(e) => At(buf, at + 5) = e[6]
      /\ 6 < Len(e) => At(buf, at + 6) = e[7]
  <2>1. Holds(buf, at, e)
    BY SMT
  <2> HIDE DEF e
  <2> QED BY SMT, <1>1, <2>1, FirstBytes
<1>3. \A d \in Nat : d < 32 =>
        (ctrl + d) \div 32 = ctrl \div 32 /\ (ctrl + d) % 32 = d
  BY SMT DEF Ctrls
<1>4. ctrl \in Nat /\ at + 0 = at
  BY SMT DEF Ctrls
<1> HIDE DEF e
<1>5. CASE size < 29
  <2>1. e = <<ctrl + size>> /\ Len(e) = 1 /\ e[1] = ctrl + size
    BY SMT, <1>5 DEF e, EncodeSize
  <2>2. At(buf, at) = ctrl + size
    BY SMT, <1>2, <1>4, <2>1
  <2>3. At(buf, at) \div 32 = ctrl \div 32 /\ At(buf, at) % 32 = size
    BY SMT, <1>3, <1>5, <2>2
  <2> QED BY SMT, <1>5, <2>1, <2>3 DEF e, SizeOf, AfterSize
<1>6. CASE ~(size < 29) /\ size < 285
  <2>1. /\ e = <<ctrl + 29, size - 29>> /\ Len(e) = 2
        /\ e[1] = ctrl + 29 /\ e[2] = size - 29
    BY SMT, <1>6 DEF e, EncodeSize
  <2>2. At(buf, at) = ctrl + 29 /\ At(buf, at + 1) = size - 29
    BY SMT, <1>2, <1>4, <2>1
  <2>3. At(buf, at) \div 32 = ctrl \div 32 /\ At(buf, at) % 32 = 29
    BY SMT, <1>3, <2>2
  <2> QED BY SMT, <1>6, <2>1, <2>2, <2>3 DEF e, SizeOf, AfterSize
<1>7. CASE ~(size < 285) /\ size < 65821
  <2> DEFINE mid == size - 285
  <2>1. mid \in Nat /\ mid < 65536 /\ ~(size < 29)
    BY SMT, <1>7
  <2>2. /\ e = <<ctrl + 30, Byte(mid, 256), Byte(mid, 1)>> /\ Len(e) = 3
        /\ e[1] = ctrl + 30 /\ e[2] = Byte(mid, 256) /\ e[3] = Byte(mid, 1)
    BY SMT, <1>7, <2>1 DEF e, EncodeSize
  <2>3. /\ At(buf, at) = ctrl + 30 /\ At(buf, at + 1) = Byte(mid, 256)
        /\ At(buf, at + 2) = Byte(mid, 1)
    BY SMT, <1>2, <1>4, <2>2
  <2>4. At(buf, at) \div 32 = ctrl \div 32 /\ At(buf, at) % 32 = 30
    BY SMT, <1>3, <2>3
  <2>5. Two(buf, at + 1) = mid
    <3>1. (at + 1) + 1 = at + 2
      BY SMT
    <3> HIDE DEF mid
    <3> QED BY SMT, <2>1, <2>3, <3>1, TwoBytes DEF Two
  <2> QED BY SMT, <2>2, <2>4, <2>5 DEF e, SizeOf, AfterSize
<1>8. CASE ~(size < 65821)
  <2> DEFINE long == size - 65821
  <2>1. long \in Nat /\ long < 16777216 /\ ~(size < 29) /\ ~(size < 285)
    BY SMT, <1>8
  <2>2. /\ e = <<ctrl + 31, Byte(long, 65536), Byte(long, 256), Byte(long, 1)>>
        /\ Len(e) = 4 /\ e[1] = ctrl + 31 /\ e[2] = Byte(long, 65536)
        /\ e[3] = Byte(long, 256) /\ e[4] = Byte(long, 1)
    BY SMT, <1>8, <2>1 DEF e, EncodeSize
  <2>3. /\ At(buf, at) = ctrl + 31 /\ At(buf, at + 1) = Byte(long, 65536)
        /\ At(buf, at + 2) = Byte(long, 256) /\ At(buf, at + 3) = Byte(long, 1)
    BY SMT, <1>2, <1>4, <2>2
  <2>4. At(buf, at) \div 32 = ctrl \div 32 /\ At(buf, at) % 32 = 31
    BY SMT, <1>3, <2>3
  <2>5. Three(buf, at + 1) = long
    <3>1. (at + 1) + 1 = at + 2 /\ (at + 1) + 2 = at + 3
      BY SMT
    <3> HIDE DEF long
    <3> QED BY SMT, <2>1, <2>3, <3>1, ThreeBytes DEF Two, Three
  <2>6. SizeOf(buf, at, at + 1) = size
    BY SMT, <2>4, <2>5 DEF SizeOf
  <2>7. AfterSize(buf, at, at + 1) = at + 4
    BY SMT, <2>4 DEF AfterSize
  <2> QED BY SMT, <2>2, <2>4, <2>6, <2>7 DEF e
<1> QED BY SMT, <1>5, <1>6, <1>7, <1>8

\* A control byte with its size, whatever follows; the byte of a type that
\* has one comes next to it as long as there are no bytes of the size.
LEMMA ControlIsRead ==
  ASSUME NEW buf \in Seq(ByteValue), NEW at \in Nat, NEW type \in AllTypes,
         NEW size \in Nat, size < 16843037, type >= 8 => size < 29,
         Holds(buf, at, encode_ctrl_and_size(type, size))
  PROVE  /\ ~IsPointer(buf, at)
         /\ Control(buf, at) = [type |-> type, size |-> size,
                                next |-> at + Len(encode_ctrl_and_size(type, size))]
<1> DEFINE e == encode_ctrl_and_size(type, size)
<1>1. CASE type < 8
  <2>1. type * 32 \in Ctrls /\ (type * 32) \div 32 = type /\ type # 0 /\ type # 1
    BY SMT, <1>1 DEF Ctrls, AllTypes, Str, Dbl, Bytes, U16, U32, Map, I32, U64, Arr,
                     Bool, Flt
  <2>2. e = EncodeSize(type * 32, size)
    BY SMT, <1>1 DEF encode_ctrl_and_size
  <2>3. /\ At(buf, at) \div 32 = type
        /\ SizeOf(buf, at, at + 1) = size
        /\ AfterSize(buf, at, at + 1) = at + Len(e)
    <3> DEFINE ctrl == type * 32
    <3>1. ctrl \in Ctrls /\ Holds(buf, at, EncodeSize(ctrl, size))
      BY SMT, <2>1, <2>2
    <3>2. ctrl \div 32 = type /\ e = EncodeSize(ctrl, size)
      BY SMT, <2>1, <2>2
    <3> HIDE DEF ctrl, e
    <3>3. /\ At(buf, at) \div 32 = ctrl \div 32
          /\ SizeOf(buf, at, at + 1) = size
          /\ AfterSize(buf, at, at + 1) = at + Len(EncodeSize(ctrl, size))
      BY SMT, <3>1, SizeIsRead
    <3> QED BY SMT, <3>2, <3>3
  <2> QED BY SMT, <2>1, <2>3 DEF Control, IsPointer, Ptr
<1>2. CASE ~(type < 8)
  <2>1. type - 7 \in ByteValue /\ 7 + (type - 7) = type /\ size < 29
    BY SMT, <1>2 DEF ByteValue, AllTypes, Str, Dbl, Bytes, U16, U32, Map, I32, U64, Arr,
                     Bool, Flt
  <2>2. e \in Seq(ByteValue)
    BY SMT, ControlIsBytes
  <2>3. Len(e) = 2 /\ e[1] = size /\ e[2] = type - 7
    <3>1. e = EncodeSize(0, size) \o <<type - 7>>
      BY SMT, <1>2 DEF encode_ctrl_and_size
    <3>2. EncodeSize(0, size) = <<size>>
      BY SMT, <2>1 DEF EncodeSize
    <3> HIDE DEF e
    <3> QED BY SMT, <3>1, <3>2
  <2>4. At(buf, at) = size /\ At(buf, at + 1) = type - 7
    <3>1. Holds(buf, at, e)
      BY SMT
    <3> HIDE DEF e
    <3> QED BY SMT, <2>2, <2>3, <3>1, FirstBytes
  <2>5. At(buf, at) \div 32 = 0 /\ At(buf, at) % 32 = size
    BY SMT, <2>1, <2>4
  <2>6. SizeOf(buf, at, at + 2) = size /\ AfterSize(buf, at, at + 2) = at + 2
    BY SMT, <2>1, <2>5 DEF SizeOf, AfterSize
  <2> HIDE DEF e
  <2>7. /\ ~IsPointer(buf, at)
        /\ Control(buf, at) = [type |-> type, size |-> size, next |-> at + Len(e)]
    BY SMT, <2>1, <2>3, <2>4, <2>5, <2>6 DEF Control, IsPointer, Ptr
  <2> QED BY <2>7 DEF e
<1> QED BY SMT, <1>1, <1>2

\* A pointer of any length, whatever follows.
LEMMA PointerIsRead ==
  ASSUME NEW buf \in Seq(ByteValue), NEW at \in Nat, NEW offset \in Nat,
         offset \div 65536 < 65536, Holds(buf, at, encode_pointer(offset))
  PROVE  /\ IsPointer(buf, at) /\ Pointer(buf, at) = offset
         /\ PointerSize(buf, at) + 2 = Len(encode_pointer(offset))
<1> DEFINE e == encode_pointer(offset)
           mid == offset - 2048
           far == offset - 526336
<1>1. e \in Seq(ByteValue)
  BY SMT, PointerIsBytes
<1>2. /\ 0 < Len(e) => At(buf, at) = e[1]
      /\ 1 < Len(e) => At(buf, at + 1) = e[2]
      /\ 2 < Len(e) => At(buf, at + 2) = e[3]
      /\ 3 < Len(e) => At(buf, at + 3) = e[4]
      /\ 4 < Len(e) => At(buf, at + 4) = e[5]
      /\ 5 < Len(e) => At(buf, at + 5) = e[6]
      /\ 6 < Len(e) => At(buf, at + 6) = e[7]
  <2>1. Holds(buf, at, e)
    BY SMT
  <2> HIDE DEF e
  <2> QED BY SMT, <1>1, <2>1, FirstBytes
<1>3. at + 0 = at /\ (at + 1) + 1 = at + 2 /\ (at + 1) + 2 = at + 3
        /\ (at + 1) + 3 = at + 4
  BY SMT
<1> HIDE DEF e
<1>4. CASE offset < 2048
  <2> DEFINE v == (offset \div 256) % 8
  <2>1. v \in Nat /\ v < 8 /\ v * 256 + Byte(offset, 1) = offset
    BY SMT, <1>4 DEF Byte
  <2>2. Len(e) = 2 /\ e[1] = 32 + v /\ e[2] = Byte(offset, 1)
    BY SMT, <1>4 DEF e, encode_pointer
  <2> HIDE DEF v
  <2>3. At(buf, at) = 32 + v /\ At(buf, at + 1) = Byte(offset, 1)
    BY SMT, <1>2, <1>3, <2>2
  <2>4. /\ At(buf, at) \div 32 = 1 /\ (At(buf, at) \div 8) % 4 = 0
        /\ At(buf, at) % 8 = v
    BY SMT, <2>1, <2>3
  <2> QED BY SMT, <2>1, <2>2, <2>3, <2>4 DEF e, IsPointer, Ptr, Pointer, PointerSize
<1>5. CASE ~(offset < 2048) /\ offset < 526336
  <2> DEFINE v == (mid \div 65536) % 8
  <2>1. /\ v \in Nat /\ v < 8
        /\ (v * 65536 + (Byte(mid, 256) * 256 + Byte(mid, 1))) + 2048 = offset
    BY SMT, <1>5 DEF Byte
  <2>2. /\ Len(e) = 3 /\ e[1] = 40 + v /\ e[2] = Byte(mid, 256)
        /\ e[3] = Byte(mid, 1)
    BY SMT, <1>5 DEF e, encode_pointer
  <2> HIDE DEF v, mid
  <2>3. /\ At(buf, at) = 40 + v /\ At(buf, at + 1) = Byte(mid, 256)
        /\ At(buf, at + 2) = Byte(mid, 1)
    BY SMT, <1>2, <1>3, <2>2
  <2>4. /\ At(buf, at) \div 32 = 1 /\ (At(buf, at) \div 8) % 4 = 1
        /\ At(buf, at) % 8 = v
    BY SMT, <2>1, <2>3
  <2>5. Two(buf, at + 1) = Byte(mid, 256) * 256 + Byte(mid, 1)
    BY SMT, <1>3, <2>3 DEF Two
  <2> QED BY SMT, <2>1, <2>2, <2>4, <2>5 DEF e, IsPointer, Ptr, Pointer, PointerSize
<1>6. CASE ~(offset < 2048) /\ ~(offset < 526336) /\ offset < 134744064
  <2> DEFINE v == (far \div 16777216) % 8
             low == (Byte(far, 65536) * 256 + Byte(far, 256)) * 256 + Byte(far, 1)
  <2>1. v \in Nat /\ v < 8 /\ (v * 16777216 + low) + 526336 = offset
    BY SMT, <1>6 DEF Byte
  <2>2. /\ Len(e) = 4 /\ e[1] = 48 + v /\ e[2] = Byte(far, 65536)
        /\ e[3] = Byte(far, 256) /\ e[4] = Byte(far, 1)
    BY SMT, <1>6 DEF e, encode_pointer
  <2> HIDE DEF v, far
  <2>3. /\ At(buf, at) = 48 + v /\ At(buf, at + 1) = Byte(far, 65536)
        /\ At(buf, at + 2) = Byte(far, 256) /\ At(buf, at + 3) = Byte(far, 1)
    BY SMT, <1>2, <1>3, <2>2
  <2>4. /\ At(buf, at) \div 32 = 1 /\ (At(buf, at) \div 8) % 4 = 2
        /\ At(buf, at) % 8 = v
    BY SMT, <2>1, <2>3
  <2>5. Three(buf, at + 1) = low
    BY SMT, <1>3, <2>3 DEF Two, Three
  <2> HIDE DEF low
  <2> QED BY SMT, <2>1, <2>2, <2>4, <2>5 DEF e, IsPointer, Ptr, Pointer, PointerSize
<1>7. CASE ~(offset < 2048) /\ ~(offset < 526336) /\ ~(offset < 134744064)
  <2>1. /\ Len(e) = 5 /\ e[1] = 56 /\ e[2] = Byte(offset, 16777216)
        /\ e[3] = Byte(offset, 65536) /\ e[4] = Byte(offset, 256)
        /\ e[5] = Byte(offset, 1)
    BY SMT, <1>7 DEF e, encode_pointer
  <2>2. /\ At(buf, at) = 56 /\ At(buf, at + 1) = Byte(offset, 16777216)
        /\ At(buf, at + 2) = Byte(offset, 65536)
        /\ At(buf, at + 3) = Byte(offset, 256) /\ At(buf, at + 4) = Byte(offset, 1)
    BY SMT, <1>2, <1>3, <2>1
  <2>3. At(buf, at) \div 32 = 1 /\ (At(buf, at) \div 8) % 4 = 3
    BY SMT, <2>2
  <2>4. Four(buf, at + 1) = offset
    BY SMT, <1>3, <2>2, FourBytes DEF Two, Three, Four
  <2> QED BY SMT, <2>1, <2>3, <2>4 DEF e, IsPointer, Ptr, Pointer, PointerSize
<1> QED BY SMT, <1>4, <1>5, <1>6, <1>7

\* The two records of a node: the middle byte has the high bits of both.
LEMMA RecordsAreRead ==
  ASSUME NEW buf \in Seq(ByteValue), NEW at \in Nat, NEW left \in Nat, NEW right \in Nat,
         Holds(buf, at, WriteRecords(left, right))
  PROVE  ReadRecords(buf, at) = <<InRecord(left), InRecord(right)>>
<1> DEFINE e == WriteRecords(left, right)
           l == (left \div 16777216) % 16
           r == (right \div 16777216) % 16
           mid == (Byte(left, 16777216) % 16) * 16 + (Byte(right, 16777216) % 16)
<1>1. e \in Seq(ByteValue) /\ Len(e) = 7
  BY SMT, RecordsAreBytes
<1>2. /\ 0 < Len(e) => At(buf, at) = e[1]
      /\ 1 < Len(e) => At(buf, at + 1) = e[2]
      /\ 2 < Len(e) => At(buf, at + 2) = e[3]
      /\ 3 < Len(e) => At(buf, at + 3) = e[4]
      /\ 4 < Len(e) => At(buf, at + 4) = e[5]
      /\ 5 < Len(e) => At(buf, at + 5) = e[6]
      /\ 6 < Len(e) => At(buf, at + 6) = e[7]
  <2>1. e \in Seq(ByteValue) /\ Holds(buf, at, e)
    BY SMT, <1>1
  <2> HIDE DEF e
  <2> QED BY SMT, <2>1, FirstBytes
<1>3. /\ at + 0 = at /\ (at + 4) + 1 = at + 5 /\ (at + 4) + 2 = at + 6
  BY SMT
<1>4. /\ l \in Nat /\ l < 16 /\ r \in Nat /\ r < 16
      /\ mid = l * 16 + r
  BY SMT DEF Byte
<1>5. mid \div 16 = l /\ mid % 16 = r
  <2> HIDE DEF l, r, mid
  <2> QED BY SMT, <1>4
<1>6. /\ e[1] = Byte(left, 65536) /\ e[2] = Byte(left, 256) /\ e[3] = Byte(left, 1)
      /\ e[4] = mid
      /\ e[5] = Byte(right, 65536) /\ e[6] = Byte(right, 256) /\ e[7] = Byte(right, 1)
  BY SMT DEF WriteRecords
<1> HIDE DEF e, mid
<1>7. /\ At(buf, at) = Byte(left, 65536) /\ At(buf, at + 1) = Byte(left, 256)
      /\ At(buf, at + 2) = Byte(left, 1) /\ At(buf, at + 3) = mid
      /\ At(buf, at + 4) = Byte(right, 65536) /\ At(buf, at + 5) = Byte(right, 256)
      /\ At(buf, at + 6) = Byte(right, 1)
  BY SMT, <1>1, <1>2, <1>3, <1>6
<1>8. l * 16777216 + Three(buf, at) = InRecord(left)
  <2>1. Three(buf, at) = (Byte(left, 65536) * 256 + Byte(left, 256)) * 256 + Byte(left, 1)
    BY SMT, <1>7 DEF Two, Three
  <2>2. InRecord(left) = l * 16777216
          + ((Byte(left, 65536) * 256 + Byte(left, 256)) * 256 + Byte(left, 1))
    BY SMT, LowBits
  <2> HIDE DEF l
  <2> QED BY SMT, <2>1, <2>2
<1>9. r * 16777216 + Three(buf, at + 4) = InRecord(right)
  <2>1. Three(buf, at + 4)
          = (Byte(right, 65536) * 256 + Byte(right, 256)) * 256 + Byte(right, 1)
    BY SMT, <1>3, <1>7 DEF Two, Three
  <2>2. InRecord(right) = r * 16777216
          + ((Byte(right, 65536) * 256 + Byte(right, 256)) * 256 + Byte(right, 1))
    BY SMT, LowBits
  <2> HIDE DEF r
  <2> QED BY SMT, <2>1, <2>2
<1>10. At(buf, at + 3) \div 16 = l /\ At(buf, at + 3) % 16 = r
  BY SMT, <1>5, <1>7
<1> HIDE DEF l, r
<1> QED BY SMT, <1>8, <1>9, <1>10 DEF ReadRecords
-----------------------------------------------------------------------------
(***************************************************************************)
(* The inductive invariant.                                                *)
(***************************************************************************)
\* The nodes, in the file or still in the buffer.
Written == file \o buffer

\* What serialize_data may encode.
Encodable(item) ==
  \/ item.type = Ptr /\ item.n \in Offsets
  \/ item.type \in Types /\ item.n \in Sizes

\* Everything encoded is where it was, however the section has grown.
SectionInv ==
  \A k \in DOMAIN items :
    /\ Encodable(items[k])
    /\ Holds(section, items[k].at, Encoded(items[k]))

\* The nodes are in their order without a gap, across the writes of the
\* buffer and whatever follows the last of them.
NodesInv ==
  /\ \A k \in DOMAIN nodes :
       Holds(Written, 7 * (k - 1), WriteRecords(nodes[k][1], nodes[k][2]))
  /\ phase # "closed" => Len(Written) = 7 * Len(nodes)

\* Behind the last node are the separator and the section, and the length is known.
ClosedInv ==
  phase = "closed" =>
    buffer = <<>> /\ total_bytes = Len(file) /\ Holds(file, DataStart, section)

FileInv == TypeOK /\ SectionInv /\ NodesInv /\ ClosedInv

\* An item that may be encoded has bytes.
LEMMA EncodedIsBytes ==
  ASSUME NEW item, Encodable(item)
  PROVE  Encoded(item) \in Seq(ByteValue)
<1>1. CASE item.type = Ptr /\ item.n \in Offsets
  <2>1. item.n \in Nat
    BY SMT, <1>1, FormatAssumption
  <2> QED BY SMT, <1>1, <2>1, PointerIsBytes DEF Encoded
<1>2. CASE item.type \in Types /\ item.n \in Sizes
  <2>1. item.n \in Nat
    BY SMT, <1>2, FormatAssumption
  <2>2. item.type \in AllTypes
    BY SMT, <1>2, FormatAssumption DEF AllTypes
  <2>3. item.type # Ptr
    BY SMT, <2>2 DEF AllTypes, Ptr, Str, Dbl, Bytes, U16, U32, Map, I32, U64, Arr,
                     Bool, Flt
  <2> QED BY SMT, <2>1, <2>2, <2>3, ControlIsBytes DEF Encoded
<1> QED BY <1>1, <1>2 DEF Encodable

\* And a reader finds it, if it is not a long array.
LEMMA EncodedIsRead ==
  ASSUME NEW buf \in Seq(ByteValue), NEW at \in Nat, NEW item, Encodable(item),
         Expressible(item), ~IsLong(item), Holds(buf, at, Encoded(item))
  PROVE  IsRead(buf, at, item)
<1>1. CASE item.type = Ptr /\ item.n \in Offsets
  <2>1. item.n \in Nat /\ item.n \div 65536 < 65536
    BY SMT, <1>1, FormatAssumption
  <2>2. Encoded(item) = encode_pointer(item.n)
    BY SMT, <1>1 DEF Encoded
  <2>3. Holds(buf, at, encode_pointer(item.n))
    BY SMT, <2>2
  <2>4. /\ IsPointer(buf, at) /\ Pointer(buf, at) = item.n
        /\ PointerSize(buf, at) + 2 = Len(encode_pointer(item.n))
    BY SMT, <2>1, <2>3, PointerIsRead
  <2> QED BY SMT, <1>1, <2>2, <2>4 DEF IsRead
<1>2. CASE item.type \in Types /\ item.n \in Sizes
  <2>1. item.type \in AllTypes
    BY SMT, <1>2, FormatAssumption DEF AllTypes
  <2>2. item.type # Ptr
    BY SMT, <2>1 DEF AllTypes, Ptr, Str, Dbl, Bytes, U16, U32, Map, I32, U64, Arr,
                     Bool, Flt
  <2>3. /\ item.n \in Nat /\ item.n < 16843037
        /\ item.type >= 8 => item.n < 29
    BY SMT, <1>2, <2>2, FormatAssumption DEF Expressible, IsLong
  <2>4. Encoded(item) = encode_ctrl_and_size(item.type, item.n)
    BY SMT, <2>2 DEF Encoded
  <2>5. Holds(buf, at, encode_ctrl_and_size(item.type, item.n))
    BY SMT, <2>4
  <2>6. /\ ~IsPointer(buf, at)
        /\ Control(buf, at)
             = [type |-> item.type, size |-> item.n,
                next |-> at + Len(encode_ctrl_and_size(item.type, item.n))]
    <3> DEFINE type == item.type
               n == item.n
    <3> HIDE DEF type, n
    <3>1. /\ type \in AllTypes /\ n \in Nat /\ n < 16843037 /\ (type >= 8 => n < 29)
          /\ Holds(buf, at, encode_ctrl_and_size(type, n))
      BY SMT, <2>1, <2>3, <2>5 DEF type, n
    <3>2. /\ ~IsPointer(buf, at)
          /\ Control(buf, at) = [type |-> type, size |-> n,
                                 next |-> at + Len(encode_ctrl_and_size(type, n))]
      BY SMT, <3>1, ControlIsRead
    <3> QED BY SMT, <3>2 DEF type, n
  <2> QED BY SMT, <2>2, <2>4, <2>6 DEF IsRead
<1> QED BY <1>1, <1>2 DEF Encodable

\* Nothing is written at the start but the byte before the first value.
LEMMA InitFile == Init => FileInv
<1> SUFFICES ASSUME Init PROVE FileInv
  OBVIOUS
<1>1. TypeOK
  BY SMT DEF Init, TypeOK, ByteValue
<1>2. SectionInv /\ ClosedInv
  BY SMT DEF Init, SectionInv, ClosedInv
<1>3. NodesInv
  BY SMT DEF Init, NodesInv, Written
<1> QED BY <1>1, <1>2, <1>3 DEF FileInv

\* serialize_data appends: what is in the section stays where it is.
LEMMA SerializeKeeps ==
  ASSUME FileInv, NEW type, NEW n, NEW rest \in Seq(ByteValue),
         Encodable([at |-> Len(section), type |-> type, n |-> n]),
         Serialize(Encoded([at |-> Len(section), type |-> type, n |-> n]) \o rest, type, n)
  PROVE  FileInv'
<1> DEFINE item == [at |-> Len(section), type |-> type, n |-> n]
<1>1. section \in Seq(ByteValue) /\ Len(section) \in Nat
  BY SMT DEF FileInv, TypeOK
<1>2. Encodable(item) /\ item.at = Len(section) /\ item.type = type /\ item.n = n
  OBVIOUS
<1>3. item \in [at : Nat, type : 1..15, n : Nat]
  <2>1. CASE item.type = Ptr /\ item.n \in Offsets
    BY SMT, <1>1, <1>2, <2>1, FormatAssumption DEF Ptr
  <2>2. CASE item.type \in Types /\ item.n \in Sizes
    <3>1. type \in AllTypes /\ n \in Nat
      BY SMT, <1>2, <2>2, FormatAssumption DEF AllTypes
    <3>2. type \in 1..15
      BY SMT, <3>1 DEF AllTypes, Str, Dbl, Bytes, U16, U32, Map, I32, U64, Arr, Bool, Flt
    <3> QED BY SMT, <1>1, <3>1, <3>2
  <2> QED BY <1>2, <2>1, <2>2 DEF Encodable
<1> HIDE DEF item
<1>4. /\ section' = section \o (Encoded(item) \o rest)
      /\ items' = Append(items, item)
      /\ UNCHANGED <<phase, buffer, file, total_bytes, nodes>> /\ phase = "data"
  BY DEF Serialize, item
<1>5. Encoded(item) \in Seq(ByteValue) /\ Encoded(item) \o rest \in Seq(ByteValue)
  BY SMT, <1>2, EncodedIsBytes, ConcatProperties
<1>6. TypeOK'
  <2>1. section' \in Seq(ByteValue)
    BY SMT, <1>1, <1>4, <1>5, ConcatProperties
  <2>2. items' \in Seq([at : Nat, type : 1..15, n : Nat])
    BY SMT, <1>3, <1>4 DEF FileInv, TypeOK
  <2> QED BY SMT, <1>4, <2>1, <2>2 DEF FileInv, TypeOK
<1>7. SectionInv'
  <2> SUFFICES ASSUME NEW k \in DOMAIN items'
               PROVE  /\ Encodable(items'[k])
                      /\ Holds(section', items'[k].at, Encoded(items'[k]))
    BY DEF SectionInv
  <2> DEFINE S == [at : Nat, type : 1..15, n : Nat]
             added == Encoded(item) \o rest
  <2>1. items \in Seq(S) /\ item \in S
    BY <1>3 DEF FileInv, TypeOK
  <2>2. added \in Seq(ByteValue) /\ section' = section \o added
    BY <1>4, <1>5
  <2>3. section' \in Seq(ByteValue)
    BY <1>6 DEF TypeOK
  <2> HIDE DEF S, added
  <2>4. CASE k \in DOMAIN items
    <3>1. items'[k] = items[k] /\ items[k] \in S
      BY SMT, <1>4, <2>1, <2>4
    <3>2. Encodable(items[k]) /\ Holds(section, items[k].at, Encoded(items[k]))
      BY <2>4 DEF FileInv, SectionInv
    <3>3. items[k].at \in Nat
      BY SMT, <3>1 DEF S
    <3>4. Encoded(items[k]) \in Seq(ByteValue)
      BY <3>2, EncodedIsBytes
    <3>5. Holds(section \o added, items[k].at, Encoded(items[k]))
      BY <1>1, <2>2, <3>2, <3>3, <3>4, HoldsBefore
    <3> QED BY <2>2, <3>1, <3>2, <3>5
  <2>5. CASE k \notin DOMAIN items
    <3>1. items'[k] = item
      BY SMT, <1>4, <2>1, <2>5
    <3>2. Holds(section \o added, Len(section), added)
      BY <1>1, <2>2, HoldsAppended
    <3>3. Holds(section', Len(section), Encoded(item) \o rest)
      BY <2>2, <3>2 DEF added
    <3>4. Holds(section', Len(section), Encoded(item))
      BY <1>1, <1>5, <2>3, <3>3, HoldsParts
    <3> QED BY <1>2, <3>1, <3>4
  <2> QED BY <2>4, <2>5
<1>8. NodesInv' /\ ClosedInv'
  BY <1>4 DEF FileInv, NodesInv, ClosedInv, Written
<1> QED BY <1>6, <1>7, <1>8 DEF FileInv

\* A node is behind the others, in the buffer or in the file.
LEMMA WriteNodeKeeps ==
  ASSUME FileInv, NEW left \in Records, NEW right \in Records, WriteNode(left, right)
  PROVE  FileInv'
<1> DEFINE w == WriteRecords(left, right)
<1>1. w \in Seq(ByteValue) /\ Len(w) = 7
  BY SMT, RecordsAreBytes, FormatAssumption
<1> HIDE DEF w
<1>2. file \in Seq(ByteValue) /\ buffer \in Seq(ByteValue)
  BY SMT DEF FileInv, TypeOK
<1>3. /\ phase = "nodes" /\ Flush(buffer \o w)
      /\ nodes' = Append(nodes, <<left, right>>) /\ UNCHANGED <<phase, section, total_bytes, items>>
  BY DEF WriteNode, w
<1>4. buffer \o w \in Seq(ByteValue) /\ (file \o buffer) \o w = file \o (buffer \o w)
  <2>1. buffer \o w \in Seq(ByteValue)
    BY <1>1, <1>2, ConcatProperties
  <2>2. (file \o buffer) \o w = file \o (buffer \o w)
    BY <1>1, <1>2, ConcatAssociative
  <2> QED BY <2>1, <2>2
<1>5. /\ file' \in Seq(ByteValue) /\ buffer' \in Seq(ByteValue)
      /\ Written' = Written \o w
  <2>1. CASE file' = file \o (buffer \o w) /\ buffer' = <<>>
    <3>1. file' \in Seq(ByteValue) /\ file' \o <<>> = file'
      BY SMT, <1>2, <1>4, <2>1, ConcatProperties, ConcatEmptySeq
    <3> QED BY SMT, <1>4, <2>1, <3>1 DEF Written
  <2>2. CASE buffer' = buffer \o w /\ file' = file
    BY SMT, <1>2, <1>4, <2>2 DEF Written
  <2> QED BY <1>3, <2>1, <2>2 DEF Flush
<1>6. nodes \in Seq(Records \X Records) /\ <<left, right>> \in Records \X Records
  BY SMT DEF FileInv, TypeOK
<1>7. TypeOK'
  <2>1. nodes' \in Seq(Records \X Records)
    BY SMT, <1>3, <1>6
  <2> QED BY SMT, <1>3, <1>5, <2>1 DEF FileInv, TypeOK
<1>8. SectionInv' /\ ClosedInv'
  <2>1. SectionInv'
    BY <1>3 DEF FileInv, SectionInv, Encodable, Encoded
  <2> QED BY <1>3, <2>1 DEF ClosedInv
<1>9. NodesInv'
  <2>1. /\ Written \in Seq(ByteValue) /\ Written' \in Seq(ByteValue)
        /\ Len(Written) = 7 * Len(nodes) /\ Len(Written') = Len(Written) + 7
    <3>1. Written \in Seq(ByteValue)
      BY <1>2, ConcatProperties DEF Written
    <3>2. Len(Written) = 7 * Len(nodes)
      BY <1>3 DEF FileInv, NodesInv
    <3>3. Written \o w \in Seq(ByteValue) /\ Len(Written \o w) = Len(Written) + Len(w)
      BY <1>1, <3>1, ConcatProperties
    <3> QED BY <1>1, <1>5, <3>1, <3>2, <3>3
  <2>2. Len(nodes) \in Nat /\ Len(nodes') = Len(nodes) + 1
    BY SMT, <1>3, <1>6
  <2>3. ASSUME NEW k \in DOMAIN nodes'
        PROVE  Holds(Written', 7 * (k - 1), WriteRecords(nodes'[k][1], nodes'[k][2]))
    <3>1. CASE k \in DOMAIN nodes
      <4>1. nodes'[k] = nodes[k] /\ nodes[k] \in Records \X Records /\ 7 * (k - 1) \in Nat
        BY SMT, <1>3, <1>6, <3>1
      <4>2. Holds(Written, 7 * (k - 1), WriteRecords(nodes[k][1], nodes[k][2]))
        BY <3>1 DEF FileInv, NodesInv
      <4>3. WriteRecords(nodes[k][1], nodes[k][2]) \in Seq(ByteValue)
        <5>1. nodes[k][1] \in Records /\ nodes[k][2] \in Records
          BY <4>1
        <5>2. nodes[k][1] \in Nat /\ nodes[k][2] \in Nat
          BY SMT, <5>1, FormatAssumption
        <5> QED BY SMT, <5>2, RecordsAreBytes
      <4>4. Holds(Written', 7 * (k - 1), WriteRecords(nodes[k][1], nodes[k][2]))
        BY SMT, <1>1, <1>5, <2>1, <4>1, <4>2, <4>3, HoldsBefore
      <4> QED BY <4>1, <4>4
    <3>2. CASE k \notin DOMAIN nodes
      <4>1. k = Len(nodes) + 1 /\ nodes'[k] = <<left, right>>
        BY SMT, <1>3, <1>6, <3>2
      <4>2. 7 * (k - 1) = Len(Written)
        BY SMT, <2>1, <2>2, <4>1
      <4>3. Holds(Written', Len(Written), w)
        BY SMT, <1>1, <1>5, <2>1, HoldsAppended
      <4>4. nodes'[k][1] = left /\ nodes'[k][2] = right
        BY SMT, <4>1
      <4> QED BY <4>2, <4>3, <4>4 DEF w
    <3> QED BY <3>1, <3>2
  <2> QED BY SMT, <2>1, <2>2, <2>3 DEF NodesInv
<1> QED BY <1>7, <1>8, <1>9 DEF FileInv

\* What is behind the nodes changes none of them.
LEMMA CloseKeeps ==
  ASSUME FileInv, NEW metadata \in Payloads, CloseFile(metadata)
  PROVE  FileInv'
<1> DEFINE tail == section \o metadata
           rest == Separator \o tail
<1>1. /\ file \in Seq(ByteValue) /\ buffer \in Seq(ByteValue)
      /\ section \in Seq(ByteValue) /\ metadata \in Seq(ByteValue)
  BY FormatAssumption DEF FileInv, TypeOK
<1>2. Separator \in Seq(ByteValue) /\ Len(Separator) = 16
  BY SMT DEF Separator, ByteValue
<1>3. Written \in Seq(ByteValue) /\ tail \in Seq(ByteValue)
  BY <1>1, ConcatProperties DEF Written
<1>4. /\ phase = "nodes" /\ phase' = "closed" /\ buffer' = <<>>
      /\ file' = Written \o rest /\ UNCHANGED <<section, items, nodes>>
      /\ total_bytes' = Len(nodes) * 7 + Len(Separator) + Len(section) + Len(metadata)
  BY DEF CloseFile, Written
<1>5. Len(Written) = 7 * Len(nodes) /\ Len(nodes) \in Nat
  <2>1. Len(nodes) \in Nat
    BY SMT DEF FileInv, TypeOK
  <2> QED BY <1>4, <2>1 DEF FileInv, NodesInv
<1>6. Len(tail) = Len(section) + Len(metadata)
  BY <1>1, ConcatProperties
<1> HIDE DEF tail
<1>7. rest \in Seq(ByteValue) /\ Len(rest) = Len(Separator) + Len(tail)
  BY <1>2, <1>3, ConcatProperties
<1> HIDE DEF rest
<1>8. file' \in Seq(ByteValue) /\ Written' = file'
  <2>1. Written \o rest \in Seq(ByteValue)
    BY <1>3, <1>7, ConcatProperties
  <2>2. file' \o <<>> = file'
    BY <1>4, <2>1, ConcatEmptySeq
  <2> QED BY <1>4, <2>1, <2>2 DEF Written
<1>9. TypeOK'
  <2>1. buffer' \in Seq(ByteValue)
    BY SMT, <1>4
  <2>2. phase' \in {"data", "nodes", "failed", "closed"}
    BY <1>4
  <2>3. total_bytes' \in Nat
    BY SMT, <1>1, <1>2, <1>4, <1>5
  <2> QED BY <1>4, <1>8, <2>1, <2>2, <2>3 DEF FileInv, TypeOK
<1>10. SectionInv'
  BY <1>4 DEF FileInv, SectionInv
<1>11. NodesInv'
  <2>1. ASSUME NEW k \in DOMAIN nodes
        PROVE  Holds(Written', 7 * (k - 1), WriteRecords(nodes[k][1], nodes[k][2]))
    <3>1. nodes[k] \in Records \X Records /\ 7 * (k - 1) \in Nat
      BY SMT DEF FileInv, TypeOK
    <3>2. WriteRecords(nodes[k][1], nodes[k][2]) \in Seq(ByteValue)
      <4>1. nodes[k][1] \in Records /\ nodes[k][2] \in Records
        BY <3>1
      <4>2. nodes[k][1] \in Nat /\ nodes[k][2] \in Nat
        BY SMT, <4>1, FormatAssumption
      <4> QED BY SMT, <4>2, RecordsAreBytes
    <3>3. Holds(Written, 7 * (k - 1), WriteRecords(nodes[k][1], nodes[k][2]))
      BY DEF FileInv, NodesInv
    <3>4. Holds(Written \o rest, 7 * (k - 1), WriteRecords(nodes[k][1], nodes[k][2]))
      BY <1>3, <1>7, <3>1, <3>2, <3>3, HoldsBefore
    <3> QED BY <1>4, <1>8, <3>4
  <2> QED BY <1>4, <2>1 DEF NodesInv
<1>12. ClosedInv'
  <2>1. Holds(file', Len(Written), rest)
    BY <1>3, <1>4, <1>7, HoldsAppended
  <2>2. Len(Written) \in Nat
    BY SMT, <1>5
  <2>3. Holds(file', Len(Written) + Len(Separator), tail)
    BY <1>2, <1>3, <1>8, <2>1, <2>2, HoldsParts DEF rest
  <2>4. Len(Written) + Len(Separator) \in Nat
        /\ Len(Written) + Len(Separator) = DataStart'
    BY SMT, <1>2, <1>4, <1>5 DEF DataStart
  <2>5. Holds(file', Len(Written) + Len(Separator), section)
    BY <1>1, <1>8, <2>3, <2>4, HoldsParts DEF tail
  <2>6. Len(file') = Len(Written) + Len(rest)
    BY <1>3, <1>4, <1>7, ConcatProperties
  <2>7. total_bytes' = Len(file')
    <3>1. Len(section) \in Nat /\ Len(metadata) \in Nat
      BY <1>1
    <3> QED BY SMT, <1>2, <1>4, <1>5, <1>6, <1>7, <2>6, <3>1
  <2> QED BY <1>4, <2>4, <2>5, <2>7 DEF ClosedInv
<1> QED BY <1>9, <1>10, <1>11, <1>12 DEF FileInv

\* Every step keeps the invariant.
LEMMA NextFile == ASSUME FileInv, [Next]_vars PROVE FileInv'
<1>1. ASSUME NEW type \in Types, NEW size \in Sizes, NEW payload \in Payloads,
             SerializeValue(type, size, payload)
      PROVE  FileInv'
  <2> DEFINE item == [at |-> Len(section), type |-> type, n |-> size]
  <2>1. Encodable(item)
    BY DEF Encodable
  <2>2. type # Ptr
    BY SMT, FormatAssumption DEF Ptr, Str, Dbl, Bytes, U16, U32, Map, I32, U64, Arr,
                                 Bool, Flt
  <2>3. Encoded(item) = encode_ctrl_and_size(type, size)
    BY <2>2 DEF Encoded
  <2>4. payload \in Seq(ByteValue)
    BY FormatAssumption
  <2>5. Serialize(Encoded(item) \o payload, type, size)
    BY <1>1, <2>3 DEF SerializeValue
  <2> QED BY <2>1, <2>4, <2>5, SerializeKeeps
<1>2. ASSUME NEW offset \in Offsets, SerializePointer(offset) PROVE FileInv'
  <2> DEFINE item == [at |-> Len(section), type |-> Ptr, n |-> offset]
  <2>1. Encodable(item)
    BY DEF Encodable
  <2>2. Encoded(item) = encode_pointer(offset)
    BY DEF Encoded
  <2>3. Encoded(item) \in Seq(ByteValue)
    BY <2>1, EncodedIsBytes
  <2>4. <<>> \in Seq(ByteValue) /\ Encoded(item) \o <<>> = Encoded(item)
    BY <2>3, ConcatEmptySeq
  <2>5. Serialize(Encoded(item) \o <<>>, Ptr, offset)
    BY <1>2, <2>2, <2>4 DEF SerializePointer
  <2> QED BY <2>1, <2>4, <2>5, SerializeKeeps
<1>3. CASE OpenFile \/ WriteFails
  <2>1. /\ phase' \in {"nodes", "failed"} /\ phase \in {"data", "nodes"}
        /\ UNCHANGED <<section, buffer, file, total_bytes, items, nodes>>
    BY <1>3 DEF OpenFile, WriteFails
  <2>2. TypeOK'
    BY <2>1 DEF FileInv, TypeOK
  <2>3. SectionInv' /\ NodesInv' /\ ClosedInv'
    BY <2>1 DEF FileInv, SectionInv, NodesInv, ClosedInv, Written
  <2> QED BY <2>2, <2>3 DEF FileInv
<1>4. CASE UNCHANGED vars
  BY <1>4 DEF vars, FileInv, TypeOK, SectionInv, NodesInv, ClosedInv, Written, DataStart
<1> QED BY <1>1, <1>2, <1>3, <1>4, WriteNodeKeeps, CloseKeeps DEF Next

\* A reader of a closed file finds everything.
LEMMA FileInvReads == ASSUME FileInv PROVE FileIsRead
<1> SUFFICES ASSUME phase = "closed"
             PROVE  /\ \A k \in DOMAIN nodes :
                         ReadRecords(file, 7 * (k - 1))
                           = <<InRecord(nodes[k][1]), InRecord(nodes[k][2])>>
                    /\ \A k \in DOMAIN items :
                         Expressible(items[k]) /\ ~IsLong(items[k]) =>
                           IsRead(file, DataStart + items[k].at, items[k])
                    /\ total_bytes = Len(file)
  BY DEF FileIsRead
<1>1. file \in Seq(ByteValue) /\ section \in Seq(ByteValue) /\ buffer = <<>>
  BY DEF FileInv, TypeOK, ClosedInv
<1>2. Written = file
  BY <1>1, ConcatEmptySeq DEF Written
<1>3. ASSUME NEW k \in DOMAIN nodes
      PROVE  ReadRecords(file, 7 * (k - 1))
               = <<InRecord(nodes[k][1]), InRecord(nodes[k][2])>>
  <2> DEFINE left == nodes[k][1]
             right == nodes[k][2]
  <2>1. left \in Records /\ right \in Records /\ 7 * (k - 1) \in Nat
    BY SMT DEF FileInv, TypeOK
  <2>2. left \in Nat /\ right \in Nat
    BY SMT, <2>1, FormatAssumption
  <2>3. Holds(file, 7 * (k - 1), WriteRecords(left, right))
    BY <1>2 DEF FileInv, NodesInv
  <2> DEFINE at == 7 * (k - 1)
  <2>4. at \in Nat /\ Holds(file, at, WriteRecords(left, right))
    BY <2>1, <2>3
  <2> HIDE DEF left, right, at
  <2>5. ReadRecords(file, at) = <<InRecord(left), InRecord(right)>>
    BY SMT, <1>1, <2>2, <2>4, RecordsAreRead
  <2> QED BY <2>5 DEF at, left, right
<1>4. ASSUME NEW k \in DOMAIN items, Expressible(items[k]), ~IsLong(items[k])
      PROVE  IsRead(file, DataStart + items[k].at, items[k])
  <2>1. items[k].at \in Nat /\ DataStart \in Nat /\ DataStart + items[k].at \in Nat
    <3> DEFINE S == [at : Nat, type : 1..15, n : Nat]
    <3>1. items \in Seq(S)
      BY DEF FileInv, TypeOK
    <3> HIDE DEF S
    <3>2. items[k] \in S
      BY <3>1
    <3>3. items[k].at \in Nat
      BY <3>2 DEF S
    <3>4. Len(nodes) \in Nat
      BY DEF FileInv, TypeOK
    <3> QED BY SMT, <3>3, <3>4 DEF DataStart
  <2>2. Encodable(items[k]) /\ Holds(section, items[k].at, Encoded(items[k]))
    BY DEF FileInv, SectionInv
  <2>3. Encoded(items[k]) \in Seq(ByteValue)
    BY <2>2, EncodedIsBytes
  <2>4. Holds(file, DataStart, section)
    BY DEF FileInv, ClosedInv
  <2>5. Holds(file, DataStart + items[k].at, Encoded(items[k]))
    BY <1>1, <2>1, <2>2, <2>3, <2>4, HoldsWithin
  <2> QED BY <1>1, <1>4, <2>1, <2>2, <2>5, EncodedIsRead
<1>5. total_bytes = Len(file)
  BY DEF FileInv, ClosedInv
<1> QED BY <1>3, <1>4, <1>5

(***************************************************************************)
(* The invariant of the file: types, the places of everything encoded, and *)
(* the nodes without a gap.                                                *)
(***************************************************************************)
THEOREM FileIsInvariant == Spec => []FileInv
<1>1. Init => FileInv
  BY InitFile
<1>2. FileInv /\ [Next]_vars => FileInv'
  BY NextFile
<1> QED BY <1>1, <1>2, PTL DEF Spec

(***************************************************************************)
(* A reader of the whole file finds every node, every pointer and every    *)
(* size that the format can express at its place, but for the sizes of     *)
(* arrays of 29 or more elements (LongArraysAreRead says what becomes of   *)
(* these), and BuildStats has the length of the file (builder.cpp:522-567, *)
(* builder.cpp:718-780), for every size of the buffer and however many     *)
(* nodes and values there are.                                             *)
(***************************************************************************)
THEOREM FilesAreRead == Spec => []FileIsRead
<1>1. FileInv => FileIsRead
  BY FileInvReads
<1> QED BY <1>1, FileIsInvariant, PTL
=============================================================================
