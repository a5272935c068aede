------------------------------- MODULE MmdbFile -------------------------------
(***************************************************************************)
(* The file Builder::build writes (src/mmdb_builder/builder.cpp): the data *)
(* section is serialized in memory, the nodes of the search tree pass      *)
(* through a buffer that is written out when it is nearly full, and the    *)
(* separator, the data section and the metadata follow.                    *)
(*                                                                         *)
(* Which values are serialized and which records the nodes have is decided *)
(* in MmdbFormat and MmdbTrie; here they are any numbers.  A payload is    *)
(* what follows a control byte.                                            *)
(*                                                                         *)
(* The definition LateFlush is not part of the specification: it is a      *)
(* plausible mistake in the definition that follows it.                    *)
(***************************************************************************)
EXTENDS MmdbEncoding

CONSTANTS
  Types,       \* of values that are written
  Sizes,       \* of strings, maps and arrays
  Offsets,     \* that pointers refer to
  Records,     \* of nodes
  Payloads,    \* sequences of bytes
  BufferSize,  \* BUFFER_SIZE
  MaxItems,    \* bound: control bytes and pointers
  MaxNodes     \* bound: nodes

\* Sizes, offsets and records are of type uint32_t.
ASSUME FormatAssumption ==
  /\ Types \subseteq {Str, Dbl, Bytes, U16, U32, Map, I32, U64, Arr, Bool, Flt}
  /\ \A n \in Sizes \cup Offsets \cup Records : n \in Nat /\ n \div 65536 < 65536
  /\ Payloads \subseteq Seq(ByteValue)

ASSUME BufferAssumption == BufferSize \in Nat

VARIABLES
  phase,
  section,      \* data_section
  buffer,       \* nodes that are not in the file yet
  file,
  total_bytes,  \* BuildStats::total_bytes
  items,        \* history: what was encoded, and where in the section
  nodes         \* history: the records of the nodes, in order

vars == <<phase, section, buffer, file, total_bytes, items, nodes>>

Separator == [i \in 1..16 |-> 0]
-----------------------------------------------------------------------------
Init ==
  /\ phase = "data" /\ section = <<0>> /\ buffer = <<>> /\ file = <<>>
  /\ total_bytes = 0 /\ items = <<>> /\ nodes = <<>>

\* serialize_data
Serialize(bytes, type, n) ==
  /\ phase = "data" /\ Len(items) < MaxItems
  /\ section' = section \o bytes
  /\ items' = Append(items, [at |-> Len(section), type |-> type, n |-> n])
  /\ UNCHANGED <<phase, buffer, file, total_bytes, nodes>>

SerializeValue(type, size, payload) ==
  Serialize(encode_ctrl_and_size(type, size) \o payload, type, size)

SerializePointer(offset) == Serialize(encode_pointer(offset), Ptr, offset)

\* The file is opened for writing, or cannot be.
OpenFile ==
  /\ phase = "data" /\ phase' \in {"nodes", "failed"}
  /\ UNCHANGED <<section, buffer, file, total_bytes, items, nodes>>

LateFlush(bytes) ==
  IF Len(bytes) >= BufferSize - 7
  THEN file' = file \o buffer /\ buffer' = <<>>
  ELSE buffer' = bytes /\ UNCHANGED file

\* The buffer is written out when another node might not fit.
Flush(bytes) ==
  IF Len(bytes) >= BufferSize - 7
  THEN file' = file \o bytes /\ buffer' = <<>>
  ELSE buffer' = bytes /\ UNCHANGED file

WriteNode(left, right) ==
  /\ phase = "nodes" /\ Len(nodes) < MaxNodes
  /\ Flush(buffer \o WriteRecords(left, right))
  /\ nodes' = Append(nodes, <<left, right>>)
  /\ UNCHANGED <<phase, section, total_bytes, items>>

\* The stream throws when it cannot write.
WriteFails ==
  /\ phase = "nodes" /\ phase' = "failed"
  /\ UNCHANGED <<section, buffer, file, total_bytes, items, nodes>>

CloseFile(metadata) ==
  /\ phase = "nodes" /\ phase' = "closed" /\ buffer' = <<>>
  /\ file' = (file \o buffer) \o (Separator \o (section \o metadata))
  /\ total_bytes' = Len(nodes) * 7 + Len(Separator) + Len(section) + Len(metadata)
  /\ UNCHANGED <<section, items, nodes>>

Next ==
  \/ \E type \in Types, size \in Sizes, payload \in Payloads :
       SerializeValue(type, size, payload)
  \/ \E offset \in Offsets : SerializePointer(offset)
  \/ OpenFile
  \/ \E left, right \in Records : WriteNode(left, right)
  \/ WriteFails
  \/ \E metadata \in Payloads : CloseFile(metadata)

Spec == Init /\ [][Next]_vars
-----------------------------------------------------------------------------
(***************************************************************************)
(* What a reader must find at an offset.                                   *)
(***************************************************************************)
Encoded(item) ==
  IF item.type = Ptr THEN encode_pointer(item.n)
  ELSE encode_ctrl_and_size(item.type, item.n)

IsRead(buf, offset, item) ==
  IF item.type = Ptr
  THEN /\ IsPointer(buf, offset) /\ Pointer(buf, offset) = item.n
       /\ PointerSize(buf, offset) + 2 = Len(Encoded(item))
  ELSE /\ ~IsPointer(buf, offset)
       /\ Control(buf, offset) = [type |-> item.type, size |-> item.n,
                                  next |-> offset + Len(Encoded(item))]

\* The format has no encoding for longer strings, maps and arrays.
Expressible(item) == item.type # Ptr => item.n < 16843037

\* An array of 29 or more elements is written as no reader expects it.
IsLong(item) == item.type >= 8 /\ item.n >= 29

\* A record has 28 bits.
InRecord(n) == n % 268435456

\* Where the data section begins, by the number of nodes in the metadata.
DataStart == 7 * Len(nodes) + 16

(***************************************************************************)
(* Everything in memory and in the file is bytes.                          *)
(***************************************************************************)
TypeOK ==
  /\ phase \in {"data", "nodes", "failed", "closed"}
  /\ section \in Seq(ByteValue) /\ buffer \in Seq(ByteValue) /\ file \in Seq(ByteValue)
  /\ total_bytes \in Nat
  /\ items \in Seq([at : Nat, type : 1..15, n : Nat])
  /\ nodes \in Seq(Records \X Records)

(***************************************************************************)
(* A reader of the whole file finds the records of every node at the       *)
(* node's place, wherever the buffer was written out, and every pointer    *)
(* and every size that the format can express at its place behind the      *)
(* nodes and the separator, on both sides of the boundaries of their       *)
(* encodings and whatever bytes follow; a record too large for its bits    *)
(* loses the highest ones and spoils nothing else; and BuildStats has the  *)
(* length of the file (builder.cpp:522-567, builder.cpp:718-780).  Arrays  *)
(* of 29 or more elements are excepted: see LongArraysAreRead.             *)
(***************************************************************************)
FileIsRead ==
  phase = "closed" =>
    /\ \A k \in DOMAIN nodes :
         ReadRecords(file, 7 * (k - 1)) = <<InRecord(nodes[k][1]), InRecord(nodes[k][2])>>
    /\ \A k \in DOMAIN items :
         Expressible(items[k]) /\ ~IsLong(items[k]) =>
           IsRead(file, DataStart + items[k].at, items[k])
    /\ total_bytes = Len(file)

(***************************************************************************)
(* A reader of the whole file finds the arrays of 29 or more elements too, *)
(* the columns of a network that many lists contain ("every field is an    *)
(* array and index `i` of each array describes the `i`-th blocklist        *)
(* containing the network", README.md:450-451).  The code pushes the type  *)
(* of an array behind the bytes of its size (builder.cpp:541-542), where   *)
(* the format has it before them.                                          *)
(***************************************************************************)
LongArraysAreRead ==
  phase = "closed" =>
    \A k \in DOMAIN items :
      Expressible(items[k]) /\ IsLong(items[k]) =>
        IsRead(file, DataStart + items[k].at, items[k])
=============================================================================
