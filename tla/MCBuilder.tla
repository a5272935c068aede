------------------------------ MODULE MCBuilder ------------------------------
(***************************************************************************)
(* Model checking of the parts of mmdb_builder::Builder, side by side: its *)
(* search tree (MmdbTrie), its pool of records (DataPool), the records and *)
(* the metadata it serializes (MmdbFormat) and the file it writes          *)
(* (MmdbFile).  The tree has sets of lists for the records of the pool and *)
(* one byte for a record of the data section, and the file has any values  *)
(* and nodes, so that the parts share no state and a behaviour is one of a *)
(* single part.                                                            *)
(***************************************************************************)
EXTENDS MmdbFile, FiniteSets, TLC

CONSTANTS
  Parts,                        \* the parts to be checked
  Width, V4Depth, RecordLimit   \* of MmdbTrie

ASSUME TreeAssumption ==
  /\ Width \in Nat \ {0} /\ V4Depth \in 1..Width
  /\ RecordLimit \in Nat \ {0}

VARIABLES
  part,                                        \* the part of this behaviour
  trie, ipv4_root, pending, inserted,          \* MmdbTrie
  stage, pruned, records, layout,
  pool, made, unstored, merges,                \* DataPool
  todo, out, emitted, offsets, meta            \* MmdbFormat

treeVars   == <<trie, ipv4_root, pending, inserted, stage, pruned, records, layout>>
poolVars   == <<pool, made, unstored, merges>>
formatVars == <<todo, out, emitted, offsets, meta>>
allVars    == <<part, vars, treeVars, poolVars, formatVars>>
-----------------------------------------------------------------------------
(***************************************************************************)
(* The tree: addresses of three bits, IPv4 below the second.  One worker   *)
(* has a batch of two entries, another a batch of one: equal, nested,      *)
(* adjacent and disjoint networks, with bits set after the prefix, without *)
(* a prefix and with one that is too long.  The limit of records lies      *)
(* among the sizes that occur.                                             *)
(***************************************************************************)
MCNoPrefix == -1

MCV6 ==
  {[address |-> [i \in 1..3 |-> IF i > n THEN 1 ELSE b[i]], prefix |-> n, data |-> {s}] :
     b \in [1..3 -> {0, 1}], n \in 0..3, s \in {1, 2}}

MCV4 ==
  {[address |-> <<b>>, prefix |-> n, data |-> {s}] :
     b \in {0, 1}, n \in MCNoPrefix..2, s \in {1, 2}}

TreeWorkloads ==
  {{<<a, b>>, <<c>>} : a, b \in MCV6 \cup MCV4,
     c \in {t \in MCV6 \cup MCV4 : t.data = {1} /\ t.prefix \in {MCNoPrefix, 0, 1}}}

(***************************************************************************)
(* The pool: records of one row with two columns, the second being the     *)
(* sort key, a map with another key, a map that is not columnar, an array  *)
(* and a number; one of the rows and any two others are stored and merged  *)
(* in every order.                                                         *)
(* Types are the indices of the variant InternalData.                      *)
(***************************************************************************)
Words(a)       == <<11, <<<<1, a>>>>>>
PoolRow(a, b)  == <<10, <<<<1, Words(a)>>, <<2, Words(b)>>>>>>

PoolDocuments ==
  {PoolRow(2, 1), PoolRow(1, 2), PoolRow(1, 1),
   <<10, <<<<1, Words(2)>>, <<3, <<1, 1>>>>>>>>, Words(1), <<4, 1>>}

PoolWorkloads ==
  {w \in SUBSET PoolDocuments : Cardinality(w) = 3 /\ PoolRow(2, 1) \in w}

(***************************************************************************)
(* The bytes: records that share strings, columns and keys, a record that  *)
(* is a part of an earlier one, every type, strings of 28, 29 and 285      *)
(* bytes, an array of 29 elements, and sections that grow beyond 2048      *)
(* bytes so that pointers of two lengths occur.  Types are those of the    *)
(* file format.                                                            *)
(***************************************************************************)
S(n)          == [i \in 1..n |-> 97]
Column(s)     == <<11, <<<<2, s>>>>>>
FileRow(a, b) == <<7, <<<<<<1>>, Column(a)>>, <<<<2>>, Column(b)>>>>>>
Kinds ==
  <<7, <<<<<<1>>, <<5, 255>>>>, <<<<2>>, <<6, 65536>>>>, <<<<3>>, <<8, -2>>>>,
         <<<<4>>, <<9, 256>>>>, <<<<5>>, <<14, TRUE>>>>, <<<<6>>, <<14, FALSE>>>>,
         <<<<7>>, <<15, S(4)>>>>, <<<<8>>, <<3, S(8)>>>>, <<<<9>>, <<5, 0>>>>,
         <<<<10>>, <<4, <<0, 255>>>>>>, <<<<11>>, <<7, <<>>>>>>>>>>

\* An array of 29 elements, before columns that others share.
LongRow ==
  <<7, <<<<<<1>>, <<11, [i \in 1..29 |-> <<2, IF i < 29 THEN <<1>> ELSE <<9>>>>]>>>>,
         <<<<2>>, Column(<<2>>)>>>>>>

\* In the order of less_data: maps before arrays, then by content.
FileRecords ==
  <<Kinds, FileRow(<<1>>, <<1>>), FileRow(<<1>>, <<2>>), LongRow, FileRow(<<9>>, S(2050)),
    FileRow(S(28), S(29)), FileRow(S(285), S(285)), FileRow(S(2050), <<9>>),
    Column(<<2>>), <<11, <<FileRow(<<1>>, <<2>>), Column(<<2>>)>>>>>>

FileWorkloads ==
  {<<FileRecords[i], FileRecords[j], FileRecords[k]>> :
     <<i, j, k>> \in {t \in (1..10) \X (1..10) \X (1..10) : t[1] < t[2] /\ t[2] < t[3]}}

\* The metadata of write_metadata in the order of its keys; the values
\* that are numbers are arbitrary.  The description is "Generated Database".
Description ==
  <<71, 101, 110, 101, 114, 97, 116, 101, 100, 32, 68, 97, 116, 97, 98, 97, 115, 101>>
En == <<101, 110>>

FileMetadata ==
  <<7, <<<<<<1>>, <<5, 2>>>>, <<<<2>>, <<5, 0>>>>, <<<<3>>, <<9, 1700000000>>>>,
         <<<<4>>, <<2, S(21)>>>>,
         <<<<5>>, <<7, <<<<En, <<2, Description>>>>>>>>>>,
         <<<<6>>, <<5, 6>>>>, <<<<7>>, <<11, <<<<2, En>>>>>>>>,
         <<<<8>>, <<6, 300>>>>, <<<<9>>, <<5, 28>>>>>>>>

(***************************************************************************)
(* The file: types with and without a byte of their own, sizes, offsets    *)
(* and records on both sides of every boundary of their encodings, and a   *)
(* buffer that is written out after every second of three nodes.           *)
(***************************************************************************)
MCTypes    == {Str, Arr}
MCSizes    == {0, 28, 29, 284, 285, 65820, 65821, 16843036, 16843037}
MCOffsets  == {0, 2047, 2048, 526335, 526336, 134744063, 134744064, 268435455}
MCRecords  == {268435455 - 16777215, 268435456 + 16777215}
MCPayloads == {<<>>, <<255, 32>>}
-----------------------------------------------------------------------------
Tree == INSTANCE MmdbTrie WITH
  Workloads <- TreeWorkloads, nodes <- trie, phase <- stage

Pool == INSTANCE DataPool WITH
  Workloads <- PoolWorkloads, SortKey <- 2, MaxMerges <- 3, pending <- unstored

Format == INSTANCE MmdbFormat WITH
  Workloads <- FileWorkloads, Metadata <- FileMetadata, MarkerLength <- 14,
  section <- out

NoTree   == trie = <<>> /\ ipv4_root = 0 /\ pending = {} /\ inserted = {}
              /\ stage = "none" /\ pruned = {} /\ records = <<>> /\ layout = <<>>
NoPool   == pool = <<>> /\ made = {} /\ unstored = {} /\ merges = 0
NoFormat == todo = <<>> /\ out = <<>> /\ emitted = <<>> /\ offsets = <<>>
              /\ meta = <<>>

\* The file stays as it is at first, in the behaviours of other parts.
MCInit ==
  /\ part \in Parts /\ Init
  /\ \/ part = "tree" /\ Tree!Init /\ NoPool /\ NoFormat
     \/ part = "pool" /\ NoTree /\ Pool!Init /\ NoFormat
     \/ part = "format" /\ NoTree /\ NoPool /\ Format!Init
     \/ part = "file" /\ NoTree /\ NoPool /\ NoFormat

TreeStep ==
  part = "tree" /\ Tree!Next /\ UNCHANGED <<part, vars, poolVars, formatVars>>
PoolStep ==
  part = "pool" /\ Pool!Next /\ UNCHANGED <<part, vars, treeVars, formatVars>>
FormatStep ==
  part = "format" /\ Format!Next /\ UNCHANGED <<part, vars, treeVars, poolVars>>
FileStep ==
  part = "file" /\ Next /\ UNCHANGED <<part, treeVars, poolVars, formatVars>>

MCSpec == MCInit /\ [][TreeStep \/ PoolStep \/ FormatStep \/ FileStep]_allVars
-----------------------------------------------------------------------------
(***************************************************************************)
(* The tree during insertion and pruning: every node has one parent, inner *)
(* nodes carry no data, the cached IPv4 root stays the node of ::/96, and  *)
(* after any insertions in any order an address has the data of exactly    *)
(* the networks that cover it (builder.cpp:355-460).                       *)
(***************************************************************************)
TreeIsSound ==
  part = "tree" =>
    /\ Tree!TypeOK /\ Tree!InnerNodesCarryNoData
    /\ Tree!CachedRootIsV4 /\ Tree!TrieAgrees

(***************************************************************************)
(* A reader that walks the records written by build() finds for every      *)
(* address what the networks say (builder.cpp:682-782).                    *)
(***************************************************************************)
ReaderAgrees == part = "tree" => Tree!LookupsAgree

(***************************************************************************)
(* The tree and the data section written are a function of the networks    *)
(* alone: not of the order of the workers' batches nor of the order in     *)
(* which the pruning tasks run (tests/test_builder_determinism.cpp:1).     *)
(***************************************************************************)
OutputIsDetermined == part = "tree" => Tree!SameOutput

(***************************************************************************)
(* The pool after any stores and merges: contents are finite and have one  *)
(* id each, records have the content their history says, and less_data is  *)
(* the order of contents whatever the ids are (builder.hpp:78-100).        *)
(***************************************************************************)
PoolAgrees ==
  part = "pool" =>
    Pool!TypeOK /\ Pool!OneIdPerValue /\ Pool!ContentAgrees /\ Pool!OrderByContent

(***************************************************************************)
(* Rows of several lists merge to one record, in whatever order the lists  *)
(* are merged (builder.cpp:152-205, builder.hpp:94).                       *)
(***************************************************************************)
MergeIsDetermined == part = "pool" => Pool!OrderIndependent

(***************************************************************************)
(* A reader finds every record at its offset, shared parts and pointers    *)
(* included, but for the records with an array of 29 or more elements      *)
(* (LongArraysAreRead), and format_entry prints each member once at its    *)
(* place (builder.cpp:593-654, mmdb.cpp:78-150).                           *)
(***************************************************************************)
SectionIsRead ==
  part = "format" =>
    Format!TypeOK /\ Format!RecordsAreRead /\ Format!EntriesArePrinted

(***************************************************************************)
(* A reader finds in the metadata section what write_metadata stored       *)
(* (builder.cpp:656-680).                                                  *)
(***************************************************************************)
MetadataHolds == part = "format" => Format!MetadataIsRead
=============================================================================
