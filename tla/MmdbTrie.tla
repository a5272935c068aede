------------------------------- MODULE MmdbTrie -------------------------------
(***************************************************************************)
(* The search tree of mmdb_builder::Builder (src/mmdb_builder/builder.cpp):*)
(* worker threads insert batches of networks under one lock, build()       *)
(* prunes the tree with one task per node, numbers the nodes and writes    *)
(* one record per branch; a reader walks these records.                    *)
(*                                                                         *)
(* An address is a sequence of Width bits, an entry of a list an address   *)
(* of one family with an optional prefix length.  V4Depth stands for the   *)
(* 96 bits above IPv4.  The data of a node is the set of the lists that    *)
(* name it, {} for id 0: deep_merge of two records is the union of their   *)
(* rows (module DataPool).  A record of the data section takes one byte.   *)
(*                                                                         *)
(* The definitions MissingHalfSkipped, NeverPruned and SeparatorForgotten  *)
(* are not part of the specification: each is a plausible mistake in the   *)
(* definition that follows it, and some property below must fail with it.  *)
(***************************************************************************)
EXTENDS Integers, Sequences, FiniteSets, SequencesExt

CONSTANTS
  Width,       \* bits of an address
  V4Depth,     \* depth of ::/96 in the tree
  Workloads,   \* the sets of batches the workers may insert
  RecordLimit  \* 2^28: a record of the file has 28 bits

VARIABLES
  nodes,     \* nodes_: the trie, node 0 is the root
  ipv4_root, \* ipv4_root_, 0 before its first use
  pending,   \* the batches the workers have not inserted yet
  inserted,  \* the entries of the batches inserted
  phase,     \* "insert", "prune" or "built"
  pruned,    \* the inner nodes whose pruning task has returned
  records,   \* the search tree of the file: a pair of records per node
  layout     \* the data section: the records it holds, in order

vars == <<nodes, ipv4_root, pending, inserted, phase, pruned, records, layout>>

Bits      == [1..Width -> {0, 1}]
Separator == 16
NoPrefix  == -1  \* an entry without a prefix length
Node(d)   == [child |-> <<0, 0>>, data |-> d]

Init ==
  /\ nodes = (0 :> Node({})) /\ ipv4_root = 0
  /\ pending \in Workloads /\ inserted = {}
  /\ phase = "insert" /\ pruned = {}
  /\ records = <<>> /\ layout = <<>>
-----------------------------------------------------------------------------
(***************************************************************************)
(* Parsing.  The bits after the prefix are kept by the code and not looked *)
(* at again; here they are cut off.                                        *)
(***************************************************************************)
PrefixLength(text) ==
  IF text.prefix = NoPrefix THEN Len(text.address) ELSE text.prefix

\* The entries parse_network accepts.
Accepted(text) == PrefixLength(text) <= Len(text.address)

\* An IPv4 address is the IPv6 address ::a.b.c.d.  The databases of IPv4
\* alone, which parse_network knows too, are left out: the compiler builds
\* databases of IPv6 only (compiler.cpp:335).
parse_network(text) ==
  LET above == Width - Len(text.address)
  IN  [bits |-> SubSeq([i \in 1..above |-> 0] \o text.address, 1,
                       above + PrefixLength(text)),
       data |-> text.data]

(***************************************************************************)
(* Insertion.  The operators take a trie and return the changed one.       *)
(***************************************************************************)
alloc_node(t) == Cardinality(DOMAIN t)
IsLeaf(t, n)  == t[n].child = <<0, 0>>

\* Node n gets a new child with data d.
Grow(t, n, bit, d) ==
  [t EXCEPT ![n].child[bit + 1] = alloc_node(t)] @@ (alloc_node(t) :> Node(d))

\* A node with data hands it to two new children before it becomes inner.
Split(t, n) ==
  IF t[n].data = {} THEN t
  ELSE LET d == t[n].data
       IN  Grow(Grow([t EXCEPT ![n].data = {}], n, 0, d), n, 1, d)

RECURSIVE descend(_, _, _, _, _)
descend(t, from, depth, bits, to) ==
  IF depth = to THEN [trie |-> t, at |-> from]
  ELSE LET bit   == bits[depth + 1]
           split == Split(t, from)
           grown == IF split[from].child[bit + 1] = 0
                    THEN Grow(split, from, bit, {}) ELSE split
       IN  descend(grown, grown[from].child[bit + 1], depth + 1, bits, to)

RECURSIVE MissingHalfSkipped(_, _, _)
MissingHalfSkipped(t, n, d) ==
  IF IsLeaf(t, n) THEN [t EXCEPT ![n].data = @ \cup d]
  ELSE LET Half(u, bit) ==
             IF u[n].child[bit + 1] = 0 THEN u
             ELSE MissingHalfSkipped(u, u[n].child[bit + 1], d)
       IN  Half(Half(t, 0), 1)

RECURSIVE merge_subtree(_, _, _)
merge_subtree(t, n, d) ==
  IF IsLeaf(t, n) THEN [t EXCEPT ![n].data = @ \cup d]
  ELSE LET Half(u, bit) ==
             IF u[n].child[bit + 1] = 0 THEN Grow(u, n, bit, d)
             ELSE merge_subtree(u, u[n].child[bit + 1], d)
       IN  Half(Half(t, 0), 1)

InV4(e) == Len(e.bits) >= V4Depth /\ \A i \in 1..V4Depth : e.bits[i] = 0

\* b is a trie with its cached IPv4 root, e the network to insert.
insert_bits(b, e) ==
  LET v4    == InV4(e)
      root  == IF v4 /\ b.v4 = 0 THEN descend(b.trie, 0, 0, e.bits, V4Depth)
               ELSE [trie |-> b.trie, at |-> IF v4 THEN b.v4 ELSE 0]
      down  == descend(root.trie, root.at, IF v4 THEN V4Depth ELSE 0,
                       e.bits, Len(e.bits))
  IN  [trie |-> merge_subtree(down.trie, down.at, e.data),
       v4   |-> IF v4 THEN root.at ELSE b.v4]

\* A batch is parsed without a lock and inserted under global_mutex_.
insert_parsed(batch) ==
  /\ phase = "insert" /\ batch \in pending
  /\ LET Parsed(b, text) ==
           IF Accepted(text) THEN insert_bits(b, parse_network(text)) ELSE b
         after == FoldLeft(Parsed, [trie |-> nodes, v4 |-> ipv4_root], batch)
     IN  nodes' = after.trie /\ ipv4_root' = after.v4
  /\ pending' = pending \ {batch}
  /\ inserted' = inserted \cup ToSet(batch)
  /\ UNCHANGED <<phase, pruned, records, layout>>
-----------------------------------------------------------------------------
(***************************************************************************)
(* build().  prune_tree_parallel runs the tasks of the two halves of a     *)
(* node concurrently and the node's own step when both have returned.      *)
(***************************************************************************)
StartBuild ==
  /\ phase = "insert" /\ pending = {}
  /\ phase' = "prune"
  /\ UNCHANGED <<nodes, ipv4_root, pending, inserted, pruned, records, layout>>

\* The task of node n has returned.
Returned(n) == IsLeaf(nodes, n) \/ n \in pruned

\* What it returned; id 0 for a child that does not exist.
Result(n) == IF IsLeaf(nodes, n) THEN nodes[n].data ELSE {}
ResultOf(child) == IF child = 0 THEN {} ELSE Result(child)

NeverPruned(l, r) == FALSE
SameRecord(l, r) == l # {} /\ r # {} /\ l = r

prune_tree_parallel(n) ==
  /\ phase = "prune" /\ ~Returned(n)
  /\ \A i \in 1..2 : nodes[n].child[i] = 0 \/ Returned(nodes[n].child[i])
  /\ LET d0 == ResultOf(nodes[n].child[1])
         d1 == ResultOf(nodes[n].child[2])
     IN  nodes' = IF SameRecord(d0, d1) THEN [nodes EXCEPT ![n] = Node(d0)]
                  ELSE nodes
  /\ pruned' = pruned \cup {n}
  /\ UNCHANGED <<ipv4_root, pending, inserted, phase, records, layout>>

RECURSIVE assign_node_ids(_)
assign_node_ids(n) ==
  LET Below(child) == IF child = 0 THEN <<>> ELSE assign_node_ids(child)
  IN  IF IsLeaf(nodes, n) THEN <<>>
      ELSE <<n>> \o Below(nodes[n].child[1]) \o Below(nodes[n].child[2])

RECURSIVE collect_used_data(_)
collect_used_data(n) ==
  IF IsLeaf(nodes, n) THEN {nodes[n].data} \ {{}}
  ELSE UNION {collect_used_data(nodes[n].child[i]) :
                i \in {j \in 1..2 : nodes[n].child[j] # 0}}

\* A total order of contents (less_data).
less_data(a, b) ==
  a # b /\ LET d == (a \ b) \cup (b \ a)
           IN  (CHOOSE x \in d : \A y \in d : x <= y) \in b

DataOffset(section, d) == CHOOSE i \in 1..Len(section) : section[i] = d

SeparatorForgotten(count, section, d) ==
  IF d = {} THEN count ELSE (count + DataOffset(section, d)) % RecordLimit

DataRecord(count, section, d) ==
  IF d = {} THEN count
  ELSE (count + Separator + DataOffset(section, d)) % RecordLimit

build ==
  /\ phase = "prune" /\ Returned(0)
  /\ phase' = "built"
  /\ LET ordered == assign_node_ids(0)
         count   == Len(ordered)
         section == SetToSortSeq(collect_used_data(0), less_data)
         resolve(child) ==
           IF child = 0 THEN count
           ELSE IF IsLeaf(nodes, child)
             THEN DataRecord(count, section, nodes[child].data)
           ELSE (CHOOSE i \in 1..count : ordered[i] = child) - 1
     IN  /\ records' = [i \in 1..count |->
                          <<resolve(nodes[ordered[i]].child[1]),
                            resolve(nodes[ordered[i]].child[2])>>]
         /\ layout' = section
  /\ UNCHANGED <<nodes, ipv4_root, pending, inserted, pruned>>

Next ==
  \/ \E batch \in pending : insert_parsed(batch)
  \/ StartBuild
  \/ \E n \in DOMAIN nodes : prune_tree_parallel(n)
  \/ build

Spec == Init /\ [][Next]_vars
-----------------------------------------------------------------------------
\* MMDB_lookup_sockaddr on the written file; {0} stands for corrupt data.
RECURSIVE Walk(_, _, _)
Walk(address, record, depth) ==
  IF record < Len(records)
  THEN Walk(address, records[record + 1][address[depth + 1] + 1], depth + 1)
  ELSE IF record = Len(records) THEN {}
  ELSE LET offset == record - Len(records) - Separator
       IN  IF offset \in DOMAIN layout THEN layout[offset] ELSE {0}

Lookup(address) == Walk(address, 0, 0)

\* The leaf of the trie an address belongs to.
RECURSIVE LeafData(_, _, _)
LeafData(address, n, depth) ==
  IF IsLeaf(nodes, n) THEN nodes[n].data
  ELSE LET child == nodes[n].child[address[depth + 1] + 1]
       IN  IF child = 0 THEN {} ELSE LeafData(address, child, depth + 1)

\* The reference: an entry covers the addresses of its family that agree with
\* it in the first bits; an IPv4 address is the last bits of an IPv6 address
\* that starts with V4Depth zeros.
Covers(text, address) ==
  LET above == Width - Len(text.address)
  IN  /\ Accepted(text)
      /\ \A i \in 1..above : address[i] = 0
      /\ \A i \in 1..PrefixLength(text) : address[above + i] = text.address[i]

Covering(address) == UNION {t.data : t \in {u \in inserted : Covers(u, address)}}

Uniform(prefix) ==
  \A a, b \in {c \in Bits : IsPrefix(prefix, c)} : Covering(a) = Covering(b)

RECURSIVE Canonical(_)
Canonical(prefix) ==
  IF Uniform(prefix) THEN <<>>
  ELSE <<prefix>> \o Canonical(Append(prefix, 0)) \o Canonical(Append(prefix, 1))
-----------------------------------------------------------------------------
(***************************************************************************)
(* Shape: children exist, and every node but the root has one parent, so   *)
(* that the halves of the tree can be merged into and pruned apart.        *)
(***************************************************************************)
TypeOK ==
  /\ phase \in {"insert", "prune", "built"} /\ pruned \subseteq DOMAIN nodes
  /\ ipv4_root \in DOMAIN nodes
  /\ \A n \in DOMAIN nodes : \A i \in 1..2 : nodes[n].child[i] \in DOMAIN nodes
  /\ phase = "insert" =>
       \A n \in DOMAIN nodes \ {0} :
         Cardinality({<<m, i>> \in (DOMAIN nodes) \X (1..2) :
                        nodes[m].child[i] = n}) = 1

(***************************************************************************)
(* "Internal nodes never carry data" (builder.cpp:388): it allows          *)
(* insert_bits to skip the hops above the IPv4 root.                       *)
(***************************************************************************)
InnerNodesCarryNoData ==
  \A n \in DOMAIN nodes : nodes[n].data # {} => IsLeaf(nodes, n)

(***************************************************************************)
(* The cached IPv4 root stays the node of ::/96 whatever is inserted above *)
(* or below it: shorter networks may split its ancestors later.            *)
(***************************************************************************)
CachedRootIsV4 ==
  phase = "insert" /\ ipv4_root # 0 =>
    LET Zero(n, i) == nodes[n].child[1]
    IN  FoldLeft(Zero, 0, [i \in 1..V4Depth |-> i]) = ipv4_root

(***************************************************************************)
(* After any insertions, in any order, an address has the data of exactly  *)
(* the networks that cover it; pruning does not change that.               *)
(***************************************************************************)
TrieAgrees == \A a \in Bits : LeafData(a, 0, 0) = Covering(a)

(***************************************************************************)
(* A reader of the file finds what the networks say, as long as the        *)
(* largest record fits and the tree has a node at all: a tree pruned to    *)
(* its root is written without records.                                    *)
(***************************************************************************)
Fits == Len(records) + Separator + Len(layout) < RecordLimit

LookupsAgree ==
  phase = "built" /\ Fits /\ records # <<>> =>
    \A a \in Bits : Lookup(a) = Covering(a)

(***************************************************************************)
(* "The MMDB builder must produce the same tree and data section           *)
(* regardless of insertion order, batching and the number of parsing       *)
(* threads" (tests/test_builder_determinism.cpp:1): what is written is a   *)
(* function of the networks alone.                                         *)
(***************************************************************************)
SameOutput ==
  phase = "built" =>
    LET order   == Canonical(<<>>)
        section == SetToSortSeq({Covering(a) : a \in Bits} \ {{}}, less_data)
        Record(prefix) ==
          IF Uniform(prefix)
          THEN DataRecord(Len(order), section,
                          Covering(CHOOSE a \in Bits : IsPrefix(prefix, a)))
          ELSE (CHOOSE i \in 1..Len(order) : order[i] = prefix) - 1
    IN  /\ layout = section
        /\ records = [i \in 1..Len(order) |->
                        <<Record(Append(order[i], 0)), Record(Append(order[i], 1))>>]
=============================================================================
