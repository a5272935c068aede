------------------------------ MODULE MmdbFormat ------------------------------
(***************************************************************************)
(* The bytes of an MMDB file: the data section and the metadata as         *)
(* Builder::build writes them (src/mmdb_builder/builder.cpp), a reader     *)
(* that follows the format, and Mmdb::format_entry, which prints what the  *)
(* reader found (src/mmdb/mmdb.cpp).                                       *)
(*                                                                         *)
(* A value is <<type, v>> with the type's number in the format; strings,   *)
(* bytes and floating-point numbers are sequences of bytes.  Equal values  *)
(* have one id (module DataPool), so that emitted_ is a function of values *)
(* here.  Offsets start from 0, sequences from 1.                          *)
(*                                                                         *)
(* The definition OffsetLate is not part of the specification: it is a     *)
(* plausible mistake in the definition that follows it.                    *)
(***************************************************************************)
EXTENDS MmdbEncoding, SequencesExt

CONSTANTS
  Workloads,    \* sequences of records in the order of less_data
  Metadata,     \* the map write_metadata stores
  MarkerLength  \* bytes of the marker before the metadata

VARIABLES
  todo,     \* the records that are not written yet
  section,  \* the data section
  emitted,  \* emitted_
  offsets,  \* data_offsets: where each record is
  meta      \* the metadata section, <<>> before it is written

vars == <<todo, section, emitted, offsets, meta>>
-----------------------------------------------------------------------------
RECURSIVE BigEndian(_)
BigEndian(n) == IF n = 0 THEN <<>> ELSE Append(BigEndian(n \div 256), n % 256)

encode_uint(type, n) ==
  encode_ctrl_and_size(type, Len(BigEndian(n))) \o BigEndian(n)

\* val >> k of a negative number is an arithmetic shift, as \div is.
encode_int(n) ==
  encode_ctrl_and_size(I32, 4) \o
    <<Byte(n, 16777216), Byte(n, 65536), Byte(n, 256), Byte(n, 1)>>

Remembered(v) == v[1] \in {Str, Map, Arr}

OffsetLate(w, v) ==
  IF Remembered(v) THEN (v :> Len(w.out) + 1) @@ w.emitted ELSE w.emitted

\* emitted_[id] = out.size(), before the value is written.
Remember(w, v) ==
  IF Remembered(v) THEN (v :> Len(w.out)) @@ w.emitted ELSE w.emitted

\* w is an output with its memo.
RECURSIVE serialize_data(_, _)
serialize_data(w, v) ==
  IF v \in DOMAIN w.emitted
  THEN [w EXCEPT !.out = @ \o encode_pointer(w.emitted[v])]
  ELSE LET Put(bytes)   == [out |-> w.out \o bytes, emitted |-> Remember(w, v)]
           Element(u, x) == serialize_data(u, x)
           Pair(u, kv)   == serialize_data(serialize_data(u, <<Str, kv[1]>>), kv[2])
       IN  CASE v[1] \in {Str, Bytes} ->
                  Put(encode_ctrl_and_size(v[1], Len(v[2])) \o v[2])
             [] v[1] \in {U16, U32, U64} -> Put(encode_uint(v[1], v[2]))
             [] v[1] = I32  -> Put(encode_int(v[2]))
             [] v[1] = Bool -> Put(encode_ctrl_and_size(Bool, IF v[2] THEN 1 ELSE 0))
             [] v[1] \in {Dbl, Flt} ->
                  Put(encode_ctrl_and_size(v[1], Len(v[2])) \o v[2])
             [] v[1] = Map ->
                  FoldLeft(Pair, Put(encode_ctrl_and_size(Map, Len(v[2]))), v[2])
             [] v[1] = Arr ->
                  FoldLeft(Element, Put(encode_ctrl_and_size(Arr, Len(v[2]))), v[2])

NoMemo == [v \in {} |-> 0]

Init ==
  /\ todo \in Workloads /\ section = <<0>> /\ emitted = NoMemo
  /\ offsets = NoMemo /\ meta = <<>>

\* A record may have been written as a part of an earlier one.
WriteRecord ==
  /\ todo # <<>> /\ todo' = Tail(todo)
  /\ LET v == Head(todo)
         w == serialize_data([out |-> section, emitted |-> emitted], v)
     IN  IF v \in DOMAIN emitted
         THEN /\ offsets' = (v :> emitted[v]) @@ offsets
              /\ UNCHANGED <<section, emitted>>
         ELSE /\ offsets' = (v :> Len(section)) @@ offsets
              /\ section' = w.out /\ emitted' = w.emitted
  /\ UNCHANGED meta

\* The marker is already in the buffer the metadata is appended to.
write_metadata ==
  /\ todo = <<>> /\ meta = <<>>
  /\ LET marker == [i \in 1..MarkerLength |-> 171]
         w == serialize_data([out |-> marker, emitted |-> NoMemo], Metadata)
     IN  meta' = w.out /\ emitted' = w.emitted
  /\ UNCHANGED <<todo, section, offsets>>

Next == WriteRecord \/ write_metadata

Spec == Init /\ [][Next]_vars
-----------------------------------------------------------------------------
(***************************************************************************)
(* A reader of the format.  What it cannot read is <<0, 0>>; a pointer may *)
(* not refer to a pointer.                                                 *)
(***************************************************************************)
Corrupt == [value |-> <<0, 0>>, next |-> 0]

RECURSIVE Number(_, _, _)
Number(buf, offset, count) ==
  IF count = 0 THEN 0
  ELSE Number(buf, offset, count - 1) * 256 + At(buf, offset + count - 1)

RECURSIVE ReadValue(_, _)
RECURSIVE ReadList(_, _, _)
ReadList(buf, offset, count) ==
  IF count = 0 THEN [value |-> <<>>, next |-> offset]
  ELSE LET one == ReadValue(buf, offset)
           all == ReadList(buf, one.next, count - 1)
       IN  IF one.next = 0 \/ all.next = 0 THEN Corrupt
           ELSE [value |-> <<one.value>> \o all.value, next |-> all.next]

ReadValue(buf, offset) ==
  IF offset >= Len(buf) THEN Corrupt
  ELSE IF IsPointer(buf, offset)
  THEN LET target == Pointer(buf, offset)
           at     == ReadValue(buf, target)
       IN  IF target >= Len(buf) \/ IsPointer(buf, target) \/ at.next = 0
           THEN Corrupt
           ELSE [at EXCEPT !.next = offset + 2 + PointerSize(buf, offset)]
  ELSE
    LET c == Control(buf, offset)
        Raw(n) == IF c.next + n > Len(buf) THEN Corrupt
                  ELSE [value |-> <<c.type, SubSeq(buf, c.next + 1, c.next + n)>>,
                        next |-> c.next + n]
        Whole(n) == [value |-> <<c.type, n>>, next |-> c.next + c.size]
        list == ReadList(buf, c.next, IF c.type = Map THEN 2 * c.size ELSE c.size)
    IN  CASE c.type \in {Str, Bytes, Dbl, Flt} -> Raw(c.size)
          [] c.type \in {U16, U32, U64} -> Whole(Number(buf, c.next, c.size))
          [] c.type = I32 ->
               LET high == At(buf, c.next)
               IN  Whole((IF high >= 128 THEN high - 256 ELSE high) * 16777216
                           + Three(buf, c.next + 1))
          [] c.type = Bool -> [value |-> <<Bool, c.size = 1>>, next |-> c.next]
          [] c.type \in {Map, Arr} ->
               IF list.next = 0 THEN Corrupt
               ELSE [value |-> <<c.type, IF c.type = Arr THEN list.value
                       ELSE [i \in 1..c.size |->
                              <<list.value[2 * i - 1][2], list.value[2 * i]>>]>>,
                     next |-> list.next]
          [] OTHER -> Corrupt
-----------------------------------------------------------------------------
(***************************************************************************)
(* Printing.  libmaxminddb gives an entry as a list in which the members   *)
(* of a map or array follow it; a token stands for the text of a scalar.   *)
(***************************************************************************)
RECURSIVE EntryList(_)
EntryList(v) ==
  CASE v[1] = Map -> <<[type |-> Map, size |-> Len(v[2])]>> \o
         FlattenSeq([i \in DOMAIN v[2] |->
           EntryList(<<Str, v[2][i][1]>>) \o EntryList(v[2][i][2])])
    [] v[1] = Arr -> <<[type |-> Arr, size |-> Len(v[2])]>> \o
         FlattenSeq([i \in DOMAIN v[2] |-> EntryList(v[2][i])])
    [] OTHER -> <<[type |-> v[1], text |-> v]>>

RECURSIVE dump_node(_, _)
dump_node(list, cursor) ==
  IF cursor > Len(list) THEN [out |-> <<"null">>, cursor |-> cursor]
  ELSE
    LET node == list[cursor]
        Comma(i) == IF i > 1 THEN <<",">> ELSE <<>>
        Member(acc, i) ==
          LET c == acc.cursor
              keyed == node.type = Map /\ c <= Len(list) /\ list[c].type = Str
              value == dump_node(list, IF keyed THEN c + 1 ELSE c)
          IN  [out |-> acc.out \o Comma(i)
                         \o (IF keyed THEN <<list[c].text, ":">> ELSE <<>>)
                         \o value.out,
               cursor |-> value.cursor]
        Members(open, close) ==
          LET all == FoldLeft(Member, [out |-> <<open>>, cursor |-> cursor + 1],
                              [i \in 1..node.size |-> i])
          IN  [all EXCEPT !.out = Append(@, close)]
    IN  CASE node.type = Map -> Members("{", "}")
          [] node.type = Arr -> Members("[", "]")
          [] OTHER -> [out |-> <<node.text>>, cursor |-> cursor + 1]

format_entry(v) == dump_node(EntryList(v), 1).out

\* The reference: the text of a value.
RECURSIVE Text(_)
Text(v) ==
  LET Separated(parts) == FlattenSeq([i \in DOMAIN parts |->
        (IF i > 1 THEN <<",">> ELSE <<>>) \o parts[i]])
  IN  CASE v[1] = Map -> <<"{">> \o Separated([i \in DOMAIN v[2] |->
             <<<<Str, v[2][i][1]>>, ":">> \o Text(v[2][i][2])]) \o <<"}">>
        [] v[1] = Arr -> <<"[">> \o Separated([i \in DOMAIN v[2] |->
             Text(v[2][i])]) \o <<"]">>
        [] OTHER -> <<v>>
-----------------------------------------------------------------------------
(***************************************************************************)
(* Everything written is bytes, and the memo refers to what was written.   *)
(***************************************************************************)
TypeOK ==
  /\ \A i \in DOMAIN section : section[i] \in 0..255
  /\ \A i \in DOMAIN meta : meta[i] \in 0..255
  /\ meta = <<>> => \A v \in DOMAIN emitted : emitted[v] \in 1..(Len(section) - 1)

\* An array of 29 or more elements somewhere in a value.
RECURSIVE HasLongArray(_)
HasLongArray(v) ==
  CASE v[1] = Map -> \E i \in DOMAIN v[2] : HasLongArray(v[2][i][2])
    [] v[1] = Arr -> Len(v[2]) >= 29 \/ \E i \in DOMAIN v[2] : HasLongArray(v[2][i])
    [] OTHER -> FALSE

(***************************************************************************)
(* A reader finds every record at its offset, however much of it is shared *)
(* with records before it, and no pointer refers to a pointer.  A record   *)
(* with an array of 29 or more elements is excepted, which no reader finds *)
(* (LongArraysAreRead in MmdbFile); what it shares with others is found.   *)
(***************************************************************************)
RecordsAreRead ==
  \A v \in DOMAIN offsets :
    ~HasLongArray(v) => ReadValue(section, offsets[v]).value = v

(***************************************************************************)
(* format_entry prints every member of an entry once, at its place ("Each  *)
(* call consumes one complete value, including nested array/map members",  *)
(* mmdb.cpp:77).                                                           *)
(***************************************************************************)
EntriesArePrinted ==
  \A v \in DOMAIN offsets :
    /\ format_entry(v) = Text(v)
    /\ dump_node(EntryList(v), 1).cursor = Len(EntryList(v)) + 1

(***************************************************************************)
(* A reader finds in the metadata what write_metadata stored: its pointers *)
(* count from the end of the marker.                                       *)
(***************************************************************************)
MetadataIsRead ==
  meta # <<>> =>
    ReadValue(SubSeq(meta, MarkerLength + 1, Len(meta)), 0).value = Metadata
=============================================================================
