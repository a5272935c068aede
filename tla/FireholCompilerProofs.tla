------------------------- MODULE FireholCompilerProofs -------------------------
(***************************************************************************)
(* Proofs about compile_to_mmdb, module FireholCompiler: for every number  *)
(* of workers, every size of a batch and every checkout, a call is         *)
(* accounted for on every way out, the builder of a call without errors    *)
(* holds every network line of the blocklists exactly once with the        *)
(* metadata in force at that line, and only such a builder replaces the    *)
(* database and its statistics.                                            *)
(*                                                                         *)
(* The invariant has six parts.  Types and CallInv: the shape of the      *)
(* state and the caller.  FilesInv: the files are the blocklists, each     *)
(* once.  CounterInv: what the shared counter says of the workers.         *)
(* ParseInv: where each worker is in its file, that is, what its metadata, *)
(* its record, its count and its batch say of the lines it has read.       *)
(* Ledger: each finished file has one worker that counted it; the workers  *)
(* and total_networks add up to the lines of the files finished.           *)
(***************************************************************************)
EXTENDS FireholCompiler, SequenceTheorems, FiniteSetTheorems, TLAPS

Text      == STRING \cup {NoText}
Metadata  == [Keys -> Text]
Record    == [file : STRING, metadata : Metadata]
Insertion == [net : Nat, did : Nat, file : Nat, line : Nat]
Slot      == [file : Text, category : Text, networks : Nat]

WorkerState ==
  [pc : {"none", "take", "read", "line", "record", "done"}, file : Nat, line : Nat,
   metadata : Metadata, did : Nat, network_count : Nat, total : Nat,
   batch : Seq(Insertion), parsed : Nat, error : BOOLEAN]

Types ==
  /\ phase \in {"idle", "spawn", "unwind", "join", "build", "rename", "publish"}
  /\ created \in Nat /\ next_file \in Nat \ {0}
  /\ worker \in [Workers -> WorkerState]
  /\ pool \in Seq(Record) /\ inserted \in Seq(Insertion)
  /\ total_networks \in Nat
  /\ files \in Seq(DirEntry)
  /\ slots \in [1..Len(files) -> Slot]
  /\ runs \in Nat /\ failures \in Nat /\ renames \in Nat

(***************************************************************************)
(* The caller: what is open during a call, and what it has waited for.     *)
(***************************************************************************)
CallInv ==
  /\ temporary = IF phase = "rename" THEN 1 ELSE 0
  /\ in_progress = IF phase = "idle" THEN 0 ELSE 1
  /\ runs = failures + renames + (IF phase \in {"idle", "publish"} THEN 0 ELSE 1)
  /\ created <= num_threads
  /\ phase \in {"join", "build", "rename", "publish"} => created = num_threads
  /\ phase \in {"build", "rename", "publish"} => Joined /\ ~SomeError

FilesInv ==
  /\ \A i \in 1..Len(files) : files[i] \in Blocklists(checkout)
  /\ \A e \in Blocklists(checkout) : \E i \in 1..Len(files) : files[i] = e
  /\ \A i, j \in 1..Len(files) : files[i] = files[j] => i = j

Active(t) == worker[t].pc \in {"read", "line", "record"}
Finished  == {t \in Workers : worker[t].pc = "done"}

(***************************************************************************)
(* No two workers are in one file, a file in work has been taken, and a    *)
(* worker stops without an error only when all files have been taken.      *)
(***************************************************************************)
CounterInv ==
  /\ \A t \in Workers :
       /\ worker[t].pc = "none" <=> t > created
       /\ worker[t].error => worker[t].pc = "done"
       /\ Active(t) => worker[t].file \in 1..Len(files) /\ worker[t].file < next_file
       /\ worker[t].pc = "done" => worker[t].error \/ next_file > Len(files)
  /\ \A t, u \in Workers :
       Active(t) /\ Active(u) /\ worker[t].file = worker[u].file => t = u
  /\ next_file <= Len(files) + 1 + Cardinality(Finished)

\* The record of line n of a file, and an insertion that agrees with its line.
RecordAt(e, n) == [file |-> e.name, metadata |-> MetadataAt(e, n)]

Right(p, f, x) ==
  /\ x.file \in 1..Len(f)
  /\ x.line \in NetworkLines(f[x.file])
  /\ x.net = f[x.file].lines[x.line].net
  /\ x.did \in 1..Len(p) /\ p[x.did] = RecordAt(f[x.file], x.line)

\* The builder holds no line twice, and nothing of a file not yet taken.
BuilderIs(p, f, ins, next) ==
  /\ \A k \in 1..Len(ins) : Right(p, f, ins[k]) /\ ins[k].file < next
  /\ \A j, k \in 1..Len(ins) :
       ins[j].file = ins[k].file /\ ins[j].line = ins[k].line => j = k

InsertedInv == BuilderIs(pool, files, inserted, next_file)

Below(e, n) == {m \in NetworkLines(e) : m < n}

\* The lines of file i before line n are in the builder or in batch b, none twice.
BatchIs(p, f, ins, i, n, b) ==
  /\ \A k \in 1..Len(b) : Right(p, f, b[k]) /\ b[k].file = i /\ b[k].line < n
  /\ \A j, k \in 1..Len(b) : b[j].line = b[k].line => j = k
  /\ \A k \in 1..Len(ins) : ins[k].file = i =>
       ins[k].line < n /\ \A j \in 1..Len(b) : b[j].line # ins[k].line
  /\ \A m \in Below(f[i], n) :
       \/ \E k \in 1..Len(b) : b[k].line = m
       \/ \E k \in 1..Len(ins) : ins[k].file = i /\ ins[k].line = m

\* The variables of process_file say of the lines before w.line what they say.
LineIs(p, e, w) ==
  /\ w.line \in 1..(Len(e.lines) + 1)
  /\ w.metadata = MetadataAt(e, w.line)
  /\ w.did # 0 => /\ w.did \in 1..Len(p) /\ w.network_count > 0
                  /\ p[w.did] = RecordAt(e, w.line)
  /\ \A n \in 1..(w.line - 1) : e.lines[n].kind \notin {"date", "invalid"}
  /\ w.total = Cardinality(Below(e, w.line))
  /\ w.pc = "read" => w.line = 1
  /\ w.pc = "record" => w.line = Len(e.lines) + 1 /\ w.batch = <<>>

LineInv(t) == LineIs(pool, files[worker[t].file], worker[t])

BatchInv(t) ==
  BatchIs(pool, files, inserted, worker[t].file, worker[t].line, worker[t].batch)

ParseInv ==
  \A t \in Workers :
    /\ Len(worker[t].batch) < BatchSize /\ worker[t].did <= Len(pool)
    /\ Active(t) => LineInv(t) /\ BatchInv(t)

\* The network lines of some of the files.
LinesOf(f, S) == {p \in S \X Nat : p[2] \in NetworkLines(f[p[1]])}

\* own[i] is the worker that finished file i, 0 if none has.
Owners == [1..Len(files) -> 0..Cores]

OwnedBy(own, T) == {i \in DOMAIN own : own[i] \in T}

IsInserted(ins, i, n) == \E k \in 1..Len(ins) : ins[k].file = i /\ ins[k].line = n

\* A finished file is valid, wholly inserted, and its statistics are in its slot.
DoneFiles(own) ==
  \A i \in 1..Len(files) : own[i] # 0 =>
    /\ i < next_file /\ worker[own[i]].pc # "none"
    /\ \A t \in Workers : Active(t) => worker[t].file # i
    /\ ~Bad(files[i]) /\ slots[i] = StatOf(files[i])
    /\ \A n \in NetworkLines(files[i]) : IsInserted(inserted, i, n)

\* No file that was taken is forgotten, unless a worker has failed.
TakenFiles(own) ==
  \A i \in 1..Len(files) : i < next_file =>
    \/ own[i] # 0
    \/ \E t \in Workers : Active(t) /\ worker[t].file = i
    \/ \E t \in Workers : worker[t].error

Sums(own) ==
  /\ \A t \in Workers : worker[t].pc # "done" =>
       worker[t].parsed = Cardinality(LinesOf(files, OwnedBy(own, {t})))
  /\ total_networks = Cardinality(LinesOf(files, OwnedBy(own, Finished)))

Ledger == \E own \in Owners : DoneFiles(own) /\ TakenFiles(own) /\ Sums(own)

IInv == Types /\ CallInv /\ FilesInv /\ CounterInv /\ InsertedInv /\ ParseInv /\ Ledger
-----------------------------------------------------------------------------
(***************************************************************************)
(* The operators of the model.                                             *)
(***************************************************************************)

\* A worker that starts a file has the type of a worker.
LEMMA FreshType == Fresh \in WorkerState
<1>1. Nothing \in Metadata
  BY DEF Nothing, Metadata, Text
<1>2. <<>> \in Seq(Insertion)
  BY EmptySeq
<1>. QED
  BY <1>1, <1>2 DEF Fresh, WorkerState

\* A line of an entry has the type of a line, and the kind decides its fields.
LEMMA LineType ==
  ASSUME NEW e \in DirEntry, NEW n \in 1..Len(e.lines)
  PROVE  /\ e.lines[n] \in Line
         /\ e.lines[n].kind = "network" => e.lines[n].net \in Nat
         /\ e.lines[n].kind = "key" => e.lines[n].key \in Keys /\ e.lines[n].value \in STRING
<1>1. e.lines \in Seq(Line)
  BY DEF DirEntry
<1>2. e.lines[n] \in Line
  BY <1>1, ElementOfSeq
<1>. QED
  BY <1>2 DEF Line

\* The lines that set key k before line n, the last of some lines, and its value.
SetBefore(e, n, k) == {i \in 1..(n - 1) : e.lines[i].kind = "key" /\ e.lines[i].key = k}
LastOf(S) == CHOOSE i \in S : \A j \in S : j <= i
ValueAt(e, n, k) ==
  IF SetBefore(e, n, k) = {} THEN NoText ELSE e.lines[LastOf(SetBefore(e, n, k))].value

\* The metadata in force by these definitions.
LEMMA MetadataIs == \A e, n : MetadataAt(e, n) = [k \in Keys |-> ValueAt(e, n, k)]
BY DEF MetadataAt, ValueAt, SetBefore, LastOf

\* A line that sets no key leaves the metadata in force as it is.
LEMMA MetadataKept ==
  ASSUME NEW e, NEW n \in Nat \ {0}, e.lines[n].kind # "key"
  PROVE  MetadataAt(e, n + 1) = MetadataAt(e, n)
<1>1. ASSUME NEW k PROVE SetBefore(e, n + 1, k) = SetBefore(e, n, k)
  BY DEF SetBefore
<1>2. ASSUME NEW k PROVE ValueAt(e, n + 1, k) = ValueAt(e, n, k)
  BY <1>1 DEF ValueAt
<1>. QED
  BY <1>2, MetadataIs

\* A line that sets a key puts its value in force.
LEMMA MetadataSet ==
  ASSUME NEW e, NEW n \in Nat \ {0}, e.lines[n].kind = "key", e.lines[n].key \in Keys
  PROVE  MetadataAt(e, n + 1) =
           [MetadataAt(e, n) EXCEPT ![e.lines[n].key] = e.lines[n].value]
<1>. DEFINE key == e.lines[n].key
<1>1. ASSUME NEW k, k # key PROVE SetBefore(e, n + 1, k) = SetBefore(e, n, k)
  BY <1>1 DEF SetBefore
<1>2. ASSUME NEW k, k # key PROVE ValueAt(e, n + 1, k) = ValueAt(e, n, k)
  BY <1>1, <1>2 DEF ValueAt
<1>3. ValueAt(e, n + 1, key) = e.lines[n].value
  <2>1. PICK S : S = SetBefore(e, n + 1, key)
    OBVIOUS
  <2>2. n \in S /\ (\A j \in S : j <= n) /\ S \subseteq Nat
    BY <2>1 DEF SetBefore
  <2>3. PICK m : m = LastOf(S)
    OBVIOUS
  <2>4. m \in S /\ \A j \in S : j <= m
    BY <2>2, <2>3 DEF LastOf
  <2>5. m = n
    BY <2>2, <2>4
  <2>. QED
    BY <2>1, <2>2, <2>3, <2>5 DEF ValueAt
<1>. HIDE DEF key
<1>. QED
  BY <1>2, <1>3, MetadataIs DEF key

\* At the first line no metadata is in force.
LEMMA MetadataFirst == ASSUME NEW e PROVE MetadataAt(e, 1) = Nothing
<1>1. \A k : SetBefore(e, 1, k) = {}
  BY DEF SetBefore
<1>2. \A k : ValueAt(e, 1, k) = NoText
  BY <1>1 DEF ValueAt
<1>. QED
  BY <1>2, MetadataIs DEF Nothing

\* Builder::store_data finds or appends the record, and keeps the others.
LEMMA StoreData ==
  ASSUME pool \in Seq(Record), NEW r \in Record
  PROVE  LET s == store_data(r)
         IN  /\ s.pool \in Seq(Record) /\ s.id \in 1..Len(s.pool) /\ s.pool[s.id] = r
             /\ Len(pool) <= Len(s.pool)
             /\ \A i \in 1..Len(pool) : s.pool[i] = pool[i]
<1>1. CASE \E i \in DOMAIN pool : pool[i] = r
  <2>1. store_data(r) = [pool |-> pool, id |-> CHOOSE i \in DOMAIN pool : pool[i] = r]
    BY <1>1 DEF store_data
  <2>2. PICK i : i = CHOOSE j \in DOMAIN pool : pool[j] = r
    OBVIOUS
  <2>3. i \in DOMAIN pool /\ pool[i] = r
    BY <1>1, <2>2
  <2>. QED
    BY <2>1, <2>2, <2>3
<1>2. CASE ~\E i \in DOMAIN pool : pool[i] = r
  BY <1>2 DEF store_data
<1>. QED
  BY <1>1, <1>2

\* update_did: the worker's record is in the pool, and is the one of its metadata.
LEMMA UpdateDid ==
  ASSUME pool \in Seq(Record), NEW w \in WorkerState, files[w.file].name \in STRING
  PROVE  LET u == update_did(w)
         IN  /\ u.pool \in Seq(Record) /\ Len(pool) <= Len(u.pool)
             /\ \A i \in 1..Len(pool) : u.pool[i] = pool[i]
             /\ u.w \in WorkerState
             /\ w.did # 0 => u.w = w /\ u.pool = pool
             /\ w.did = 0 => /\ u.w.did \in 1..Len(u.pool)
                             /\ u.pool[u.w.did] = [file |-> files[w.file].name,
                                                   metadata |-> w.metadata]
             /\ u.w.pc = w.pc /\ u.w.file = w.file /\ u.w.line = w.line
             /\ u.w.metadata = w.metadata /\ u.w.total = w.total
             /\ u.w.batch = w.batch /\ u.w.parsed = w.parsed /\ u.w.error = w.error
<1>1. CASE w.did # 0
  BY <1>1 DEF update_did
<1>2. CASE w.did = 0
  <2>1. PICK r : r = [file |-> files[w.file].name, metadata |-> w.metadata]
    OBVIOUS
  <2>2. r \in Record
    BY <2>1 DEF Record, WorkerState
  <2>3. PICK s : s = store_data(r)
    OBVIOUS
  <2>4. /\ s.pool \in Seq(Record) /\ s.id \in 1..Len(s.pool) /\ s.pool[s.id] = r
        /\ Len(pool) <= Len(s.pool)
        /\ \A i \in 1..Len(pool) : s.pool[i] = pool[i]
    BY <2>2, <2>3, StoreData
  <2>5. update_did(w) = [pool |-> s.pool, w |-> [w EXCEPT !.did = s.id, !.network_count = 0]]
    BY <1>2, <2>1, <2>3 DEF update_did
  <2>6. s.id \in Nat
    BY <2>4
  <2>7. PICK v : v = [w EXCEPT !.did = s.id, !.network_count = 0]
    OBVIOUS
  <2>8. /\ v \in WorkerState /\ v.did = s.id
        /\ v.pc = w.pc /\ v.file = w.file /\ v.line = w.line
        /\ v.metadata = w.metadata /\ v.total = w.total
        /\ v.batch = w.batch /\ v.parsed = w.parsed /\ v.error = w.error
    BY <2>6, <2>7 DEF WorkerState
  <2>9. update_did(w).pool = s.pool /\ update_did(w).w = v
    BY <2>5, <2>7
  <2>. QED
    BY <1>2, <2>1, <2>4, <2>8, <2>9
<1>. QED
  BY <1>1, <1>2

\* A network joins the batch, or the batch with it is flushed.
LEMMA AddNetworkIs ==
  ASSUME NEW w \in WorkerState, w.line # 0, NEW net \in Nat
  PROVE  LET a == AddNetwork(w, net)
             x == [net |-> net, did |-> w.did, file |-> w.file, line |-> w.line - 1]
         IN  /\ x \in Insertion
             /\ a.w \in WorkerState /\ a.flushed \in Seq(Insertion)
             /\ a.w.pc = w.pc /\ a.w.file = w.file /\ a.w.line = w.line
             /\ a.w.metadata = w.metadata /\ a.w.did = w.did
             /\ a.w.parsed = w.parsed /\ a.w.error = w.error
             /\ a.w.total = w.total + 1 /\ a.w.network_count = w.network_count + 1
             /\ \/ a.w.batch = Append(w.batch, x) /\ a.flushed = <<>>
                     /\ Len(w.batch) + 1 # BatchSize
                \/ a.w.batch = <<>> /\ a.flushed = Append(w.batch, x)
<1>. DEFINE x == [net |-> net, did |-> w.did, file |-> w.file, line |-> w.line - 1]
            b == Append(w.batch, x)
<1>1. x \in Insertion /\ w.batch \in Seq(Insertion)
  BY DEF Insertion, WorkerState
<1>2. b \in Seq(Insertion) /\ Len(b) = Len(w.batch) + 1
  BY <1>1
<1>3. <<>> \in Seq(Insertion)
  BY EmptySeq
<1>. HIDE DEF b, x
<1>4. PICK c, d : c = (IF Len(b) = BatchSize THEN <<>> ELSE b)
                    /\ d = (IF Len(b) = BatchSize THEN b ELSE <<>>)
  OBVIOUS
<1>5. AddNetwork(w, net) =
        [w |-> [w EXCEPT !.batch = c, !.network_count = w.network_count + 1,
                    !.total = w.total + 1],
         flushed |-> d]
  BY <1>4 DEF AddNetwork, b, x
<1>6. PICK v : v = [w EXCEPT !.batch = c, !.network_count = w.network_count + 1,
                    !.total = w.total + 1]
  OBVIOUS
<1>7. AddNetwork(w, net).w = v /\ AddNetwork(w, net).flushed = d
  BY <1>5, <1>6
<1>8. c \in Seq(Insertion) /\ d \in Seq(Insertion)
  BY <1>2, <1>3, <1>4
<1>9. \/ c = b /\ d = <<>> /\ Len(b) # BatchSize
      \/ c = <<>> /\ d = b
  BY <1>4
<1>10. /\ v \in WorkerState /\ v.batch = c
       /\ v.pc = w.pc /\ v.file = w.file /\ v.line = w.line
       /\ v.metadata = w.metadata /\ v.did = w.did
       /\ v.parsed = w.parsed /\ v.error = w.error
       /\ v.total = w.total + 1 /\ v.network_count = w.network_count + 1
  <2>1. w.total + 1 \in Nat /\ w.network_count + 1 \in Nat
    BY DEF WorkerState
  <2>. QED
    BY <1>6, <1>8, <2>1 DEF WorkerState
<1>11. \/ v.batch = Append(w.batch, x) /\ d = <<>> /\ Len(w.batch) + 1 # BatchSize
       \/ v.batch = <<>> /\ d = Append(w.batch, x)
  BY <1>2, <1>9, <1>10 DEF b
<1>. QED
  BY <1>1, <1>7, <1>8, <1>10, <1>11 DEF x
-----------------------------------------------------------------------------
(***************************************************************************)
(* What each step of a worker does to its state, field by field.           *)
(***************************************************************************)

\* Worker t goes to state v, and no other worker moves.
Becomes(t, v) ==
  /\ v \in WorkerState /\ worker' \in [Workers -> WorkerState]
  /\ worker'[t] = v /\ \A u \in Workers \ {t} : worker'[u] = worker[u]

\* An update of one worker is such a step.
LEMMA BecomesIs ==
  ASSUME Types, NEW t \in Workers, NEW v \in WorkerState, worker' = [worker EXCEPT ![t] = v]
  PROVE  Becomes(t, v)
BY DEF Becomes, Types

\* next_file.fetch_add: the worker begins a file, or stops.
LEMMA TakeEffect ==
  ASSUME Types, NEW t \in Workers, TakeFile(t)
  PROVE  \E v \in WorkerState :
           /\ Becomes(t, v) /\ v.parsed = worker[t].parsed
           /\ \/ /\ next_file <= Len(files) /\ total_networks' = total_networks
                 /\ ~v.error /\ v.pc = "read" /\ v.file = next_file /\ v.line = 1 /\ v.metadata = Nothing
                 /\ v.did = 0 /\ v.total = 0 /\ v.batch = <<>>
              \/ /\ next_file > Len(files)
                 /\ total_networks' = total_networks + worker[t].parsed
                 /\ v.pc = "done" /\ v.error = worker[t].error
                 /\ v.did = worker[t].did /\ v.batch = worker[t].batch
<1>. DEFINE w == worker[t]
<1>1. w \in WorkerState
  BY DEF Types
<1>2. CASE next_file <= Len(files)
  <2>1. PICK v : v = [Fresh EXCEPT !.pc = "read", !.file = next_file, !.parsed = w.parsed]
    OBVIOUS
  <2>2. /\ v \in WorkerState /\ v.parsed = w.parsed /\ v.error = FALSE
        /\ v.pc = "read" /\ v.file = next_file /\ v.line = 1 /\ v.metadata = Nothing
        /\ v.did = 0 /\ v.total = 0 /\ v.batch = <<>>
    BY <1>1, <2>1, FreshType DEF WorkerState, Fresh, Types
  <2>3. worker' = [worker EXCEPT ![t] = v] /\ total_networks' = total_networks
    BY <1>2, <2>1 DEF TakeFile
  <2>. QED
    BY <1>2, <2>2, <2>3, BecomesIs
<1>3. CASE next_file > Len(files)
  <2>1. PICK v : v = [w EXCEPT !.pc = "done"]
    OBVIOUS
  <2>2. /\ v \in WorkerState /\ v.parsed = w.parsed /\ v.error = w.error
        /\ v.pc = "done" /\ v.did = w.did /\ v.batch = w.batch
    BY <1>1, <2>1 DEF WorkerState
  <2>3. worker' = [worker EXCEPT ![t] = v] /\ total_networks' = total_networks + w.parsed
    BY <1>3, <2>1 DEF TakeFile, Types
  <2>. QED
    BY <1>3, <2>2, <2>3, BecomesIs
<1>4. Len(files) \in Nat /\ next_file \in Nat
  BY DEF Types
<1>. QED
  BY <1>2, <1>3, <1>4

\* The catch of the worker.
LEMMA FailEffect ==
  ASSUME Types, NEW t \in Workers, WorkerFails(t)
  PROVE  \E v \in WorkerState :
           /\ Becomes(t, v) /\ v.pc = "done" /\ v.error
           /\ v.did = worker[t].did /\ v.batch = worker[t].batch
           /\ total_networks' = total_networks + worker[t].parsed
<1>. DEFINE w == worker[t]
<1>1. w \in WorkerState
  BY DEF Types
<1>2. PICK v : v = [w EXCEPT !.pc = "done", !.error = TRUE]
  OBVIOUS
<1>3. v \in WorkerState /\ v.pc = "done" /\ v.did = w.did /\ v.batch = w.batch
  BY <1>1, <1>2 DEF WorkerState
<1>4. v.error
  BY <1>1, <1>2, Zenon DEF WorkerState
<1>5. worker' = [worker EXCEPT ![t] = v]
  BY <1>2 DEF WorkerFails, Types
<1>. QED
  BY <1>3, <1>4, <1>5, BecomesIs DEF WorkerFails

\* read_file.
LEMMA ReadEffect ==
  ASSUME Types, NEW t \in Workers, ReadFile(t)
  PROVE  LET w == worker[t]
         IN  \E v \in WorkerState :
               /\ Becomes(t, v) /\ v.line = 1
               /\ v.pc = (IF files[w.file].lines = <<>> THEN "record" ELSE "line")
               /\ v.file = w.file /\ v.metadata = w.metadata /\ v.did = w.did
               /\ v.network_count = w.network_count /\ v.total = w.total
               /\ v.batch = w.batch /\ v.parsed = w.parsed /\ v.error = w.error
<1>. DEFINE w == worker[t]
<1>1. w \in WorkerState
  BY DEF Types
<1>2. PICK p : p = (IF files[w.file].lines = <<>> THEN "record" ELSE "line")
  OBVIOUS
<1>3. p \in {"record", "line"}
  BY <1>2
<1>4. PICK v : v = [w EXCEPT !.pc = p, !.line = 1]
  OBVIOUS
<1>5. /\ v \in WorkerState /\ v.pc = p /\ v.line = 1
      /\ v.file = w.file /\ v.metadata = w.metadata /\ v.did = w.did
      /\ v.network_count = w.network_count /\ v.total = w.total
      /\ v.batch = w.batch /\ v.parsed = w.parsed /\ v.error = w.error
  BY <1>1, <1>3, <1>4 DEF WorkerState
<1>6. worker' = [worker EXCEPT ![t] = v]
  BY <1>2, <1>4 DEF ReadFile, Types
<1>. QED
  BY <1>2, <1>5, <1>6, BecomesIs

\* The line a worker is at, and the state after a line that process_file skips.
LineOf(t) == files[worker[t].file].lines[worker[t].line]
After(w)  == [w EXCEPT !.line = @ + 1]

\* The line has its type, and the skipped line changes w.line only.
LEMMA AfterIs ==
  ASSUME Types, NEW t \in Workers, worker[t].file \in 1..Len(files), worker[t].line # 0,
         worker[t].line <= Len(files[worker[t].file].lines)
  PROVE  LET w == worker[t]
             v == After(w)
         IN  /\ LineOf(t) \in Line /\ files[w.file] \in DirEntry
             /\ w.line \in 1..Len(files[w.file].lines)
             /\ LineOf(t).kind = "network" => LineOf(t).net \in Nat
             /\ LineOf(t).kind = "key" => LineOf(t).key \in Keys /\ LineOf(t).value \in STRING
             /\ v \in WorkerState /\ v.line = w.line + 1
             /\ v.pc = w.pc /\ v.file = w.file /\ v.metadata = w.metadata /\ v.did = w.did
             /\ v.network_count = w.network_count /\ v.total = w.total
             /\ v.batch = w.batch /\ v.parsed = w.parsed /\ v.error = w.error
<1>. DEFINE w == worker[t]
            e == files[w.file]
<1>1. w \in WorkerState
  BY DEF Types
<1>2. e \in DirEntry
  BY ElementOfSeq DEF Types
<1>3. w.line \in Nat /\ Len(e.lines) \in Nat
  BY <1>1, <1>2 DEF WorkerState, DirEntry
<1>4. w.line \in 1..Len(e.lines)
  BY <1>3
<1>5. /\ LineOf(t) \in Line
      /\ LineOf(t).kind = "network" => LineOf(t).net \in Nat
      /\ LineOf(t).kind = "key" => LineOf(t).key \in Keys /\ LineOf(t).value \in STRING
  BY <1>2, <1>4, LineType DEF LineOf
<1>6. PICK n, v : n = w.line + 1 /\ v = [w EXCEPT !.line = n]
  OBVIOUS
<1>7. /\ v \in WorkerState /\ v.line = n
      /\ v.pc = w.pc /\ v.file = w.file /\ v.metadata = w.metadata /\ v.did = w.did
      /\ v.network_count = w.network_count /\ v.total = w.total
      /\ v.batch = w.batch /\ v.parsed = w.parsed /\ v.error = w.error
  <2>1. n \in Nat
    BY <1>3, <1>6
  <2>. HIDE DEF w
  <2>. QED
    BY <1>1, <1>6, <2>1 DEF WorkerState
<1>8. After(w) = v /\ v.line = w.line + 1
  BY <1>6, <1>7 DEF After
<1>. QED
  BY <1>2, <1>4, <1>5, <1>7, <1>8

\* A comment that sets metadata: the record stays only if it is still the right one.
LEMMA KeyEffect ==
  ASSUME Types, NEW t \in Workers, worker[t].file \in 1..Len(files), worker[t].line # 0,
         worker[t].line <= Len(files[worker[t].file].lines), LineOf(t).kind = "key",
         worker' = [worker EXCEPT ![t] = SetKey(After(worker[t]), LineOf(t))]
  PROVE  LET w == worker[t]
         IN  \E v \in WorkerState :
               /\ Becomes(t, v) /\ v.line = w.line + 1
               /\ v.pc = w.pc /\ v.file = w.file
               /\ v.metadata = [w.metadata EXCEPT ![LineOf(t).key] = LineOf(t).value]
               /\ \/ v.did = 0
                  \/ v.did = w.did /\ (v.metadata = w.metadata \/ w.network_count = 0)
               /\ v.network_count = w.network_count /\ v.total = w.total
               /\ v.batch = w.batch /\ v.parsed = w.parsed /\ v.error = w.error
<1>. DEFINE w == worker[t]
            key == LineOf(t).key
            value == LineOf(t).value
<1>1. PICK a \in WorkerState :
        /\ a = After(w) /\ a.line = w.line + 1
        /\ a.pc = w.pc /\ a.file = w.file /\ a.metadata = w.metadata /\ a.did = w.did
        /\ a.network_count = w.network_count /\ a.total = w.total
        /\ a.batch = w.batch /\ a.parsed = w.parsed /\ a.error = w.error
  BY AfterIs
<1>2. key \in Keys /\ value \in Text
  BY AfterIs DEF Text
<1>3. PICK m : m = [w.metadata EXCEPT ![key] = value]
  OBVIOUS
<1>4. w.metadata \in Metadata /\ w.network_count \in Nat /\ w.did \in Nat
  BY DEF Types, WorkerState
<1>5. m \in Metadata
  BY <1>2, <1>3, <1>4 DEF Metadata
<1>6. PICK v : v = SetKey(a, LineOf(t))
  OBVIOUS
<1>7. CASE w.metadata[key] = value
  <2>1. m = w.metadata
    BY <1>2, <1>3, <1>4, <1>7 DEF Metadata
  <2>2. v = a
    BY <1>1, <1>6, <1>7 DEF SetKey
  <2>3. Becomes(t, v)
    BY <1>1, <1>6, <2>2, BecomesIs
  <2>. QED
    BY <1>1, <1>3, <2>1, <2>2, <2>3
<1>8. CASE w.metadata[key] # value
  <2>1. PICK d : d = (IF a.network_count > 0 THEN 0 ELSE a.did)
    OBVIOUS
  <2>2. d \in Nat /\ (d = 0 \/ (d = w.did /\ w.network_count = 0))
    BY <1>1, <1>4, <2>1
  <2>3. v = [a EXCEPT !.metadata = m, !.did = d]
    BY <1>1, <1>3, <1>6, <1>8, <2>1 DEF SetKey
  <2>4. /\ v \in WorkerState /\ v.metadata = m /\ v.did = d /\ v.line = a.line
        /\ v.pc = a.pc /\ v.file = a.file
        /\ v.network_count = a.network_count /\ v.total = a.total
        /\ v.batch = a.batch /\ v.parsed = a.parsed /\ v.error = a.error
    BY <1>1, <1>5, <2>2, <2>3 DEF WorkerState
  <2>5. Becomes(t, v)
    BY <1>1, <1>6, <2>4, BecomesIs
  <2>. QED
    BY <1>1, <1>3, <2>2, <2>4, <2>5
<1>. QED
  BY <1>7, <1>8

\* The pool of the builder only grows, and a record keeps its number.
PoolGrows ==
  /\ pool' \in Seq(Record) /\ Len(pool) <= Len(pool')
  /\ \A i \in 1..Len(pool) : pool'[i] = pool[i]

\* The alternatives of process_file for a line.
SkipLine(t) ==
  /\ LineOf(t).kind = "other" /\ worker' = [worker EXCEPT ![t] = After(worker[t])]
  /\ pool' = pool /\ inserted' = inserted /\ total_networks' = total_networks

KeyLine(t) ==
  /\ LineOf(t).kind = "key"
  /\ worker' = [worker EXCEPT ![t] = SetKey(After(worker[t]), LineOf(t))]
  /\ pool' = pool /\ inserted' = inserted /\ total_networks' = total_networks

NetworkLine(t) ==
  /\ LineOf(t).kind = "network" /\ total_networks' = total_networks
  /\ \E known, added :
       /\ known = update_did(After(worker[t]))
       /\ added = AddNetwork(known.w, LineOf(t).net)
       /\ pool' = known.pool /\ worker' = [worker EXCEPT ![t] = added.w]
       /\ inserted' = inserted \o added.flushed

BadLine(t) ==
  /\ LineOf(t).kind \in {"date", "invalid"} /\ WorkerFails(t) /\ inserted' = inserted
  /\ pool' = pool \/ pool' = update_did(After(worker[t])).pool

\* Worker t has read a network: v is its state, x the insertion, flushed the batch.
Networked(t, v, x, flushed) ==
  LET w == worker[t]
      e == files[w.file]
  IN  /\ PoolGrows /\ Becomes(t, v) /\ v.line = w.line + 1
      /\ v.pc = w.pc /\ v.file = w.file /\ v.metadata = w.metadata
      /\ v.network_count > 0 /\ v.total = w.total + 1
      /\ v.parsed = w.parsed /\ v.error = w.error
      /\ w.did # 0 => v.did = w.did
      /\ w.did = 0 => /\ v.did \in 1..Len(pool')
                      /\ pool'[v.did] = [file |-> e.name, metadata |-> w.metadata]
      /\ x = [net |-> LineOf(t).net, did |-> v.did, file |-> w.file, line |-> w.line]
      /\ inserted' = inserted \o flushed
      /\ \/ /\ v.batch = Append(w.batch, x) /\ flushed = <<>>
            /\ Len(w.batch) + 1 # BatchSize
         \/ v.batch = <<>> /\ flushed = Append(w.batch, x)

\* A network: the record is the one of the metadata, and the network joins the batch.
LEMMA NetworkEffect ==
  ASSUME Types, NEW t \in Workers, worker[t].file \in 1..Len(files), worker[t].line # 0,
         worker[t].line <= Len(files[worker[t].file].lines), NetworkLine(t)
  PROVE  \E v \in WorkerState, x \in Insertion, flushed \in Seq(Insertion) :
           Networked(t, v, x, flushed)
<1>. PICK known, added :
       /\ known = update_did(After(worker[t]))
       /\ added = AddNetwork(known.w, LineOf(t).net)
       /\ pool' = known.pool /\ worker' = [worker EXCEPT ![t] = added.w]
       /\ inserted' = inserted \o added.flushed
  BY DEF NetworkLine
<1>. LineOf(t).kind = "network"
  BY DEF NetworkLine
<1>. DEFINE w == worker[t]
            e == files[w.file]
<1>1. PICK a \in WorkerState :
        /\ a = After(w) /\ a.line = w.line + 1
        /\ a.pc = w.pc /\ a.file = w.file /\ a.metadata = w.metadata /\ a.did = w.did
        /\ a.network_count = w.network_count /\ a.total = w.total
        /\ a.batch = w.batch /\ a.parsed = w.parsed /\ a.error = w.error
  BY AfterIs
<1>2. LineOf(t).net \in Nat /\ e \in DirEntry /\ w.line \in Nat
  BY AfterIs
<1>3. files[a.file].name \in STRING /\ pool \in Seq(Record)
  BY <1>1, <1>2 DEF DirEntry, Types
<1>4. /\ known.pool \in Seq(Record) /\ Len(pool) <= Len(known.pool)
      /\ \A i \in 1..Len(pool) : known.pool[i] = pool[i]
      /\ known.w \in WorkerState
      /\ a.did # 0 => known.w = a /\ known.pool = pool
      /\ a.did = 0 => /\ known.w.did \in 1..Len(known.pool)
                      /\ known.pool[known.w.did] = [file |-> files[a.file].name,
                                                    metadata |-> a.metadata]
      /\ known.w.pc = a.pc /\ known.w.file = a.file /\ known.w.line = a.line
      /\ known.w.metadata = a.metadata /\ known.w.total = a.total
      /\ known.w.batch = a.batch /\ known.w.parsed = a.parsed /\ known.w.error = a.error
  BY <1>1, <1>3, UpdateDid
<1>5. PICK k \in WorkerState : k = known.w
  BY <1>4
<1>6. k.line # 0 /\ k.line - 1 = w.line
  BY <1>1, <1>2, <1>4, <1>5
<1>7. PICK x : x = [net |-> LineOf(t).net, did |-> k.did, file |-> k.file, line |-> k.line - 1]
  OBVIOUS
<1>8. /\ x \in Insertion
      /\ added.w \in WorkerState /\ added.flushed \in Seq(Insertion)
      /\ added.w.pc = k.pc /\ added.w.file = k.file /\ added.w.line = k.line
      /\ added.w.metadata = k.metadata /\ added.w.did = k.did
      /\ added.w.parsed = k.parsed /\ added.w.error = k.error
      /\ added.w.total = k.total + 1 /\ added.w.network_count = k.network_count + 1
      /\ \/ added.w.batch = Append(k.batch, x) /\ added.flushed = <<>>
              /\ Len(k.batch) + 1 # BatchSize
         \/ added.w.batch = <<>> /\ added.flushed = Append(k.batch, x)
  BY <1>2, <1>5, <1>6, <1>7, AddNetworkIs, ZenonT(30)
<1>9. PICK v \in WorkerState, flushed \in Seq(Insertion) : v = added.w /\ flushed = added.flushed
  BY <1>8
<1>10. Becomes(t, v)
  BY <1>9, BecomesIs
<1>11. PoolGrows
  BY <1>4 DEF PoolGrows
<1>12. v.network_count > 0
  <2>1. k.network_count \in Nat
    BY DEF WorkerState
  <2>2. v.network_count = k.network_count + 1
    BY <1>8, <1>9, Zenon
  <2>. QED
    BY <2>1, <2>2
<1>13. /\ v.line = w.line + 1 /\ v.pc = w.pc /\ v.file = w.file /\ v.metadata = w.metadata
       /\ v.total = w.total + 1 /\ v.parsed = w.parsed /\ v.error = w.error
  BY <1>1, <1>4, <1>5, <1>8, <1>9, ZenonT(30)
<1>14. w.did # 0 => v.did = w.did
  BY <1>1, <1>4, <1>5, <1>8, <1>9, ZenonT(30)
<1>15. w.did = 0 => /\ v.did \in 1..Len(pool')
                    /\ pool'[v.did] = [file |-> e.name, metadata |-> w.metadata]
  BY <1>1, <1>4, <1>5, <1>8, <1>9
<1>16. x = [net |-> LineOf(t).net, did |-> v.did, file |-> w.file, line |-> w.line]
  BY <1>1, <1>4, <1>5, <1>6, <1>7, <1>8, <1>9
<1>17. k.batch = w.batch
  BY <1>1, <1>4, <1>5
<1>18. \/ /\ v.batch = Append(w.batch, x) /\ flushed = <<>>
          /\ Len(w.batch) + 1 # BatchSize
       \/ v.batch = <<>> /\ flushed = Append(w.batch, x)
  BY <1>8, <1>9, <1>17
<1>19. inserted' = inserted \o flushed /\ x \in Insertion
  BY <1>8, <1>9
<1>. HIDE DEF w, e
<1>. QED
  BY <1>10, <1>11, <1>12, <1>13, <1>14, <1>15, <1>16, <1>18, <1>19 DEF w, e, Networked

\* The last flush of process_file.
LEMMA FlushEffect ==
  ASSUME Types, NEW t \in Workers, Flush(t)
  PROVE  LET w == worker[t]
         IN  \E v \in WorkerState :
               /\ Becomes(t, v) /\ v.pc = "record" /\ v.batch = <<>>
               /\ v.file = w.file /\ v.line = w.line /\ v.metadata = w.metadata
               /\ v.did = w.did /\ v.network_count = w.network_count /\ v.total = w.total
               /\ v.parsed = w.parsed /\ v.error = w.error
<1>. DEFINE w == worker[t]
<1>1. w \in WorkerState
  BY DEF Types
<1>2. PICK b : b = <<>>
  OBVIOUS
<1>3. b \in Seq(Insertion)
  BY <1>2, EmptySeq
<1>4. PICK v : v = [w EXCEPT !.pc = "record", !.batch = b]
  OBVIOUS
<1>5. /\ v \in WorkerState /\ v.pc = "record" /\ v.batch = b
      /\ v.file = w.file /\ v.line = w.line /\ v.metadata = w.metadata
      /\ v.did = w.did /\ v.network_count = w.network_count /\ v.total = w.total
      /\ v.parsed = w.parsed /\ v.error = w.error
  BY <1>1, <1>3, <1>4 DEF WorkerState
<1>6. worker' = [worker EXCEPT ![t] = v]
  BY <1>2, <1>4 DEF Flush, Types
<1>. QED
  BY <1>2, <1>5, <1>6, BecomesIs

\* The end of an iteration.
LEMMA RecordEffect ==
  ASSUME Types, NEW t \in Workers, RecordFile(t)
  PROVE  LET w == worker[t]
         IN  \E v \in WorkerState :
               /\ Becomes(t, v) /\ v.pc = "take" /\ v.parsed = w.parsed + w.total
               /\ v.did = w.did /\ v.batch = w.batch /\ v.error = w.error
<1>. DEFINE w == worker[t]
<1>1. w \in WorkerState
  BY DEF Types
<1>2. PICK n : n = w.parsed + w.total
  OBVIOUS
<1>3. n \in Nat
  BY <1>1, <1>2 DEF WorkerState
<1>4. PICK v : v = [w EXCEPT !.pc = "take", !.parsed = n]
  OBVIOUS
<1>5. /\ v \in WorkerState /\ v.pc = "take" /\ v.parsed = n
      /\ v.did = w.did /\ v.batch = w.batch /\ v.error = w.error
  BY <1>1, <1>3, <1>4 DEF WorkerState
<1>6. worker' = [worker EXCEPT ![t] = v]
  BY <1>2, <1>4 DEF RecordFile, Types
<1>. QED
  BY <1>2, <1>5, <1>6, BecomesIs

\* What a worker leaves alone.
CallKept ==
  /\ phase' = phase /\ checkout' = checkout /\ files' = files /\ created' = created
  /\ temporary' = temporary /\ target' = target /\ stats' = stats /\ networks' = networks
  /\ runs' = runs /\ failures' = failures /\ in_progress' = in_progress /\ renames' = renames

\* Every step of a worker leaves the caller and the call alone.
LEMMA WorkerKeepsCall == ASSUME NEW t, WorkerStep(t) PROVE CallKept
BY DEF WorkerStep, TakeFile, ReadFile, ReadFails, ParseLine, Flush, RecordFile, CallKept,
       call, metrics

\* A line is read by one of these alternatives.
LEMMA ParseCases ==
  ASSUME NEW t, ParseLine(t)
  PROVE  /\ worker[t].pc = "line" /\ worker[t].line <= Len(files[worker[t].file].lines)
         /\ next_file' = next_file /\ slots' = slots
         /\ SkipLine(t) \/ KeyLine(t) \/ NetworkLine(t) \/ BadLine(t)
<1>1. /\ worker[t].pc = "line" /\ worker[t].line <= Len(files[worker[t].file].lines)
      /\ next_file' = next_file /\ slots' = slots
  BY DEF ParseLine
<1>2. CASE /\ LineOf(t).kind = "other" /\ worker' = [worker EXCEPT ![t] = After(worker[t])]
           /\ UNCHANGED <<builder, total_networks>>
  BY <1>1, <1>2 DEF SkipLine, builder
<1>3. CASE /\ LineOf(t).kind = "key"
           /\ worker' = [worker EXCEPT ![t] = SetKey(After(worker[t]), LineOf(t))]
           /\ UNCHANGED <<builder, total_networks>>
  BY <1>1, <1>3 DEF KeyLine, builder
<1>4. CASE /\ LineOf(t).kind = "network"
           /\ LET known == update_did(After(worker[t]))
                  added == AddNetwork(known.w, LineOf(t).net)
              IN  /\ pool' = known.pool
                  /\ worker' = [worker EXCEPT ![t] = added.w]
                  /\ inserted' = inserted \o added.flushed
           /\ UNCHANGED total_networks
  BY <1>1, <1>4 DEF NetworkLine
<1>5. CASE LineOf(t).kind = "date" /\ WorkerFails(t) /\ UNCHANGED builder
  BY <1>1, <1>5 DEF BadLine, builder
<1>6. CASE /\ LineOf(t).kind = "invalid" /\ WorkerFails(t)
           /\ pool' = update_did(After(worker[t])).pool /\ UNCHANGED inserted
  BY <1>1, <1>6 DEF BadLine
<1>. QED
  BY <1>2, <1>3, <1>4, <1>5, <1>6, Zenon DEF ParseLine, LineOf, After

\* A worker in a file is at a line of a file of the call.
LEMMA InFile ==
  ASSUME IInv, NEW t \in Workers, Active(t)
  PROVE  /\ worker[t] \in WorkerState /\ worker[t].file \in 1..Len(files)
         /\ worker[t].file < next_file /\ files[worker[t].file] \in DirEntry
         /\ worker[t].line # 0 /\ LineInv(t) /\ BatchInv(t)
<1>1. LineInv(t) /\ BatchInv(t) /\ worker[t] \in WorkerState
  BY DEF IInv, ParseInv, Types
<1>2. worker[t].line # 0
  BY <1>1 DEF LineInv, LineIs
<1>3. worker[t].file \in 1..Len(files) /\ worker[t].file < next_file
  BY DEF IInv, CounterInv
<1>4. files[worker[t].file] \in DirEntry
  BY <1>3, ElementOfSeq DEF IInv, Types
<1>. QED
  BY <1>1, <1>2, <1>3, <1>4

\* update_did keeps the numbers of the records.
LEMMA BadLineGrows ==
  ASSUME IInv, NEW t \in Workers, Active(t), BadLine(t),
         worker[t].line <= Len(files[worker[t].file].lines)
  PROVE  PoolGrows
<1>1. CASE pool' = pool
  BY <1>1 DEF PoolGrows, IInv, Types
<1>2. CASE pool' = update_did(After(worker[t])).pool
  <2>1. Types /\ worker[t].file \in 1..Len(files) /\ worker[t].line # 0
          /\ files[worker[t].file] \in DirEntry
    BY InFile DEF IInv
  <2>2. PICK a \in WorkerState : a = After(worker[t]) /\ a.file = worker[t].file
    BY <2>1, AfterIs
  <2>3. files[a.file].name \in STRING /\ pool \in Seq(Record)
    BY <2>1, <2>2 DEF DirEntry, Types
  <2>. QED
    BY <1>2, <2>2, <2>3, UpdateDid DEF PoolGrows
<1>. QED
  BY <1>1, <1>2 DEF BadLine

\* No step of a worker takes a record or a network out of the builder.
LEMMA BuilderGrows ==
  ASSUME IInv, NEW t \in Workers, WorkerStep(t)
  PROVE  /\ PoolGrows
         /\ \E flushed \in Seq(Insertion) : inserted' = inserted \o flushed
         /\ \E v \in WorkerState : Becomes(t, v)
         /\ total_networks' \in Nat
         /\ next_file' \in Nat \ {0} /\ slots' \in [1..Len(files) -> Slot]
<1>1. /\ Types /\ next_file \in Nat \ {0} /\ total_networks \in Nat
      /\ pool \in Seq(Record) /\ inserted \in Seq(Insertion)
      /\ slots \in [1..Len(files) -> Slot] /\ worker[t] \in WorkerState
      /\ worker[t].parsed \in Nat
  BY DEF IInv, Types, WorkerState
<1>2. /\ next_file' \in Nat \ {0}
      /\ total_networks' = total_networks => total_networks' \in Nat
      /\ total_networks' = total_networks + worker[t].parsed => total_networks' \in Nat
  <2>1. next_file' = next_file \/ next_file' = next_file + 1
    BY DEF WorkerStep, TakeFile, ReadFile, ReadFails, ParseLine, Flush, RecordFile
  <2>. QED
    BY <1>1, <2>1
<1>3. ASSUME inserted' = inserted
      PROVE  \E flushed \in Seq(Insertion) : inserted' = inserted \o flushed
  BY <1>1, <1>3, ConcatEmptySeq, EmptySeq
<1>4. ASSUME pool' = pool PROVE PoolGrows
  BY <1>1, <1>4 DEF PoolGrows
<1>5. CASE TakeFile(t)
  <2>1. pool' = pool /\ inserted' = inserted /\ slots' = slots
    BY <1>5 DEF TakeFile, builder
  <2>. QED
    BY <1>1, <1>2, <1>3, <1>4, <1>5, <2>1, TakeEffect
<1>6. CASE ReadFile(t)
  <2>1. pool' = pool /\ inserted' = inserted /\ slots' = slots /\ total_networks' = total_networks
    BY <1>6 DEF ReadFile, builder
  <2>2. \E v \in WorkerState : Becomes(t, v)
    BY <1>1, <1>6, ReadEffect
  <2>. QED
    BY <1>1, <1>2, <1>3, <1>4, <2>1, <2>2
<1>7. CASE ReadFails(t)
  <2>1. pool' = pool /\ inserted' = inserted /\ slots' = slots /\ WorkerFails(t)
    BY <1>7 DEF ReadFails, builder
  <2>. QED
    BY <1>1, <1>2, <1>3, <1>4, <2>1, FailEffect
<1>8. CASE ParseLine(t)
  <2>1. /\ worker[t].pc = "line" /\ worker[t].line <= Len(files[worker[t].file].lines)
        /\ slots' = slots
        /\ SkipLine(t) \/ KeyLine(t) \/ NetworkLine(t) \/ BadLine(t)
    BY <1>8, ParseCases
  <2>2. Active(t)
    BY <2>1 DEF Active
  <2>3. worker[t].file \in 1..Len(files) /\ worker[t].line # 0
    BY <2>2, InFile
  <2>4. CASE SkipLine(t)
    <3>1. PICK v \in WorkerState : v = After(worker[t])
      BY <1>1, <2>1, <2>3, AfterIs
    <3>2. Becomes(t, v)
      BY <1>1, <2>4, <3>1, BecomesIs DEF SkipLine
    <3>. QED
      BY <1>1, <1>2, <1>3, <1>4, <2>1, <2>4, <3>2 DEF SkipLine
  <2>5. CASE KeyLine(t)
    <3>1. \E v \in WorkerState : Becomes(t, v)
      BY <1>1, <2>1, <2>3, <2>5, KeyEffect DEF KeyLine
    <3>. QED
      BY <1>1, <1>2, <1>3, <1>4, <2>1, <2>5, <3>1 DEF KeyLine
  <2>6. CASE NetworkLine(t)
    <3>1. PICK v \in WorkerState, x \in Insertion, flushed \in Seq(Insertion) :
            Networked(t, v, x, flushed)
      BY <1>1, <2>1, <2>3, <2>6, NetworkEffect
    <3>2. PoolGrows /\ Becomes(t, v) /\ inserted' = inserted \o flushed
      BY <3>1 DEF Networked
    <3>. QED
      BY <1>1, <1>2, <2>1, <2>6, <3>2 DEF NetworkLine
  <2>7. CASE BadLine(t)
    <3>1. PoolGrows
      BY <2>1, <2>2, <2>7, BadLineGrows
    <3>. QED
      BY <1>1, <1>2, <1>3, <2>1, <2>7, <3>1, FailEffect DEF BadLine
  <2>. QED
    BY <2>1, <2>4, <2>5, <2>6, <2>7
<1>9. CASE Flush(t)
  <2>1. pool' = pool /\ slots' = slots /\ total_networks' = total_networks
    BY <1>9 DEF Flush
  <2>2. \E v \in WorkerState : Becomes(t, v)
    BY <1>1, <1>9, FlushEffect
  <2>3. inserted' = inserted \o worker[t].batch /\ worker[t].batch \in Seq(Insertion)
    BY <1>1, <1>9 DEF Flush, WorkerState
  <2>. QED
    BY <1>1, <1>2, <1>4, <2>1, <2>2, <2>3
<1>10. CASE RecordFile(t)
  <2>1. pool' = pool /\ inserted' = inserted /\ total_networks' = total_networks
    BY <1>10 DEF RecordFile, builder
  <2>2. \E v \in WorkerState : Becomes(t, v)
    BY <1>1, <1>10, RecordEffect
  <2>3. Active(t)
    BY <1>10 DEF RecordFile, Active
  <2>4. files[worker[t].file].name \in Text /\ worker[t].file \in 1..Len(files)
    BY <2>3, InFile DEF DirEntry, Text
  <2>5. worker[t].metadata[Category] \in Text /\ worker[t].total \in Nat
    BY <1>1, CompilerAssumption DEF WorkerState, Metadata
  <2>6. PICK s : s = [file |-> files[worker[t].file].name,
                      category |-> worker[t].metadata[Category],
                      networks |-> worker[t].total]
    OBVIOUS
  <2>7. s \in Slot
    BY <2>4, <2>5, <2>6 DEF Slot
  <2>8. slots' = [slots EXCEPT ![worker[t].file] = s]
    BY <1>10, <2>6 DEF RecordFile, SlotOf
  <2>9. slots' \in [1..Len(files) -> Slot]
    BY <1>1, <2>7, <2>8
  <2>. QED
    BY <1>1, <1>2, <1>3, <1>4, <2>1, <2>2, <2>9
<1>. QED
  BY <1>5, <1>6, <1>7, <1>8, <1>9, <1>10 DEF WorkerStep
-----------------------------------------------------------------------------
(***************************************************************************)
(* A step of a worker keeps the types, the caller, the files and the       *)
(* counter.                                                                *)
(***************************************************************************)

\* Every step of a worker keeps the types.
LEMMA WorkerTypes ==
  ASSUME IInv, NEW t \in Workers, WorkerStep(t)
  PROVE  Types'
<1>1. CallKept
  BY WorkerKeepsCall
<1>2. PICK flushed \in Seq(Insertion) : inserted' = inserted \o flushed
  BY BuilderGrows
<1>3. inserted' \in Seq(Insertion)
  BY <1>2, ConcatProperties DEF IInv, Types
<1>4. pool' \in Seq(Record)
  BY BuilderGrows DEF PoolGrows
<1>5. worker' \in [Workers -> WorkerState]
  BY BuilderGrows DEF Becomes
<1>. QED
  BY <1>1, <1>3, <1>4, <1>5, BuilderGrows DEF IInv, Types, CallKept

\* A worker that can step has been created and has not finished.
LEMMA WorkerRuns ==
  ASSUME NEW t \in Workers, WorkerStep(t)
  PROVE  worker[t].pc \in {"take", "read", "line", "record"}
BY DEF WorkerStep, TakeFile, ReadFile, ReadFails, ParseLine, Flush, RecordFile

\* No worker runs once the caller has joined them.
LEMMA WorkerCall ==
  ASSUME IInv, NEW t \in Workers, WorkerStep(t)
  PROVE  CallInv'
<1>1. CallKept
  BY WorkerKeepsCall
<1>2. worker[t].pc \in {"take", "read", "line", "record"}
  BY WorkerRuns
<1>3. t <= created
  BY <1>2 DEF IInv, CounterInv, Types, Workers
<1>4. ~Joined
  BY <1>2, <1>3 DEF Joined, Workers
<1>5. phase \notin {"build", "rename", "publish"}
  BY <1>4 DEF IInv, CallInv
<1>. QED
  BY <1>1, <1>5 DEF IInv, CallInv, CallKept, num_threads

\* The finished workers can be counted.
LEMMA FinishedCount ==
  ASSUME NEW F \in SUBSET Workers
  PROVE  IsFiniteSet(F) /\ Cardinality(F) \in Nat
<1>1. IsFiniteSet(Workers)
  BY FS_Interval, CompilerAssumption DEF Workers
<1>. QED
  BY <1>1, FS_Subset, FS_CardinalityType

\* A worker that finishes is one more.
LEMMA FinishedGrows ==
  ASSUME NEW t \in Workers, NEW v, Becomes(t, v), worker[t].pc # "done", v.pc = "done"
  PROVE  Finished' = Finished \cup {t} /\ Cardinality(Finished') = Cardinality(Finished) + 1
<1>1. Finished' = Finished \cup {t} /\ t \notin Finished
  BY DEF Finished, Becomes
<1>2. IsFiniteSet(Finished)
  BY FinishedCount DEF Finished
<1>. QED
  BY <1>1, <1>2, FS_AddElement

\* A worker that goes on in its file, or is between two files.
LEMMA CounterKept ==
  ASSUME IInv, NEW t \in Workers, NEW v, Becomes(t, v), CallKept, next_file' = next_file,
         Active(t), v.pc \in {"line", "record"} => v.file = worker[t].file,
         v.pc \in {"line", "record", "take"}, v.error = worker[t].error
  PROVE  CounterInv'
<1>. USE DEF Active
<1>1. /\ worker' \in [Workers -> WorkerState] /\ worker'[t] = v
      /\ \A u \in Workers \ {t} : worker'[u] = worker[u]
  BY DEF Becomes
<1>2. Finished' = Finished
  BY <1>1 DEF Finished
<1>3. /\ files' = files /\ created' = created
  BY DEF CallKept
<1>4. ~worker[t].error /\ worker[t].pc # "none"
  BY DEF IInv, CounterInv
<1>5. ~v.error
  BY <1>4
<1>6. \A u \in Workers :
       /\ (worker[u].pc = "none" <=> u > created)'
       /\ (worker[u].error => worker[u].pc = "done")'
       /\ (Active(u) => worker[u].file \in 1..Len(files) /\ worker[u].file < next_file)'
       /\ (worker[u].pc = "done" => worker[u].error \/ next_file > Len(files))'
  <2>. SUFFICES ASSUME NEW u \in Workers
       PROVE  /\ (worker[u].pc = "none" <=> u > created)'
              /\ (worker[u].error => worker[u].pc = "done")'
              /\ (Active(u) => worker[u].file \in 1..Len(files) /\ worker[u].file < next_file)'
              /\ (worker[u].pc = "done" => worker[u].error \/ next_file > Len(files))'
    OBVIOUS
  <2>1. CASE u = t
    BY <1>1, <1>3, <1>4, <1>5, <2>1 DEF IInv, CounterInv
  <2>2. CASE u # t
    BY <1>1, <1>3, <2>2 DEF IInv, CounterInv
  <2>. QED
    BY <2>1, <2>2
<1>7. \A u, x \in Workers :
        Active(u)' /\ Active(x)' /\ worker'[u].file = worker'[x].file => u = x
  BY <1>1 DEF IInv, CounterInv
<1>8. (next_file <= Len(files) + 1 + Cardinality(Finished))'
  BY <1>2, <1>3 DEF IInv, CounterInv
<1>. QED
  BY <1>6, <1>7, <1>8 DEF CounterInv

\* A worker that fails.
LEMMA CounterFails ==
  ASSUME IInv, NEW t \in Workers, Active(t), WorkerFails(t), CallKept, next_file' = next_file
  PROVE  CounterInv'
<1>. USE DEF Active
<1>1. PICK v \in WorkerState : Becomes(t, v) /\ v.pc = "done" /\ v.error
  BY FailEffect DEF IInv
<1>2. /\ worker' \in [Workers -> WorkerState] /\ worker'[t] = v
      /\ \A u \in Workers \ {t} : worker'[u] = worker[u]
  BY <1>1 DEF Becomes
<1>3. /\ files' = files /\ created' = created
  BY DEF CallKept
<1>4. Cardinality(Finished') = Cardinality(Finished) + 1
  BY <1>1, FinishedGrows
<1>5. Cardinality(Finished) \in Nat /\ next_file \in Nat /\ Len(files) \in Nat
  BY FinishedCount DEF Finished, IInv, Types
<1>6. \A u \in Workers :
       /\ (worker[u].pc = "none" <=> u > created)'
       /\ (worker[u].error => worker[u].pc = "done")'
       /\ (Active(u) => worker[u].file \in 1..Len(files) /\ worker[u].file < next_file)'
       /\ (worker[u].pc = "done" => worker[u].error \/ next_file > Len(files))'
  <2>. SUFFICES ASSUME NEW u \in Workers
       PROVE  /\ (worker[u].pc = "none" <=> u > created)'
              /\ (worker[u].error => worker[u].pc = "done")'
              /\ (Active(u) => worker[u].file \in 1..Len(files) /\ worker[u].file < next_file)'
              /\ (worker[u].pc = "done" => worker[u].error \/ next_file > Len(files))'
    OBVIOUS
  <2>1. CASE u = t
    BY <1>1, <1>2, <1>3, <2>1 DEF IInv, CounterInv
  <2>2. CASE u # t
    BY <1>2, <1>3, <2>2 DEF IInv, CounterInv
  <2>. QED
    BY <2>1, <2>2
<1>7. \A u, x \in Workers :
        Active(u)' /\ Active(x)' /\ worker'[u].file = worker'[x].file => u = x
  BY <1>1, <1>2 DEF IInv, CounterInv
<1>8. (next_file <= Len(files) + 1 + Cardinality(Finished))'
  BY <1>3, <1>4, <1>5 DEF IInv, CounterInv
<1>. QED
  BY <1>6, <1>7, <1>8 DEF CounterInv

\* A worker that takes the next file, or finds none.
LEMMA CounterTakes ==
  ASSUME IInv, NEW t \in Workers, TakeFile(t), CallKept
  PROVE  CounterInv'
<1>. USE DEF Active
<1>1. worker[t].pc = "take" /\ next_file' = next_file + 1
  BY DEF TakeFile
<1>2. PICK v \in WorkerState :
        /\ Becomes(t, v)
        /\ \/ next_file <= Len(files) /\ ~v.error /\ v.pc = "read" /\ v.file = next_file
           \/ next_file > Len(files) /\ v.pc = "done" /\ v.error = worker[t].error
  BY TakeEffect DEF IInv
<1>3. /\ worker' \in [Workers -> WorkerState] /\ worker'[t] = v
      /\ \A u \in Workers \ {t} : worker'[u] = worker[u]
  BY <1>2 DEF Becomes
<1>4. /\ files' = files /\ created' = created
  BY DEF CallKept
<1>5. Cardinality(Finished) \in Nat /\ next_file \in Nat \ {0} /\ Len(files) \in Nat
  BY FinishedCount DEF Finished, IInv, Types
<1>6. \A u \in Workers :
       /\ (worker[u].pc = "none" <=> u > created)'
       /\ (worker[u].error => worker[u].pc = "done")'
       /\ (Active(u) => worker[u].file \in 1..Len(files) /\ worker[u].file < next_file)'
       /\ (worker[u].pc = "done" => worker[u].error \/ next_file > Len(files))'
  <2>. SUFFICES ASSUME NEW u \in Workers
       PROVE  /\ (worker[u].pc = "none" <=> u > created)'
              /\ (worker[u].error => worker[u].pc = "done")'
              /\ (Active(u) => worker[u].file \in 1..Len(files) /\ worker[u].file < next_file)'
              /\ (worker[u].pc = "done" => worker[u].error \/ next_file > Len(files))'
    OBVIOUS
  <2>1. CASE u = t
    BY <1>1, <1>2, <1>3, <1>4, <1>5, <2>1 DEF IInv, CounterInv
  <2>2. CASE u # t
    <3>1. worker[u].file \in Nat
      BY DEF IInv, Types, WorkerState
    <3>. QED
      BY <1>1, <1>3, <1>4, <1>5, <2>2, <3>1 DEF IInv, CounterInv
  <2>. QED
    BY <2>1, <2>2
<1>7. \A u, x \in Workers :
        Active(u)' /\ Active(x)' /\ worker'[u].file = worker'[x].file => u = x
  <2>1. \A u \in Workers : Active(u) => worker[u].file \in Nat /\ worker[u].file < next_file
    BY DEF IInv, CounterInv, Types, WorkerState
  <2>2. \A u \in Workers \ {t} : Active(u)' => Active(u) /\ worker'[u].file # next_file
    BY <1>3, <1>5, <2>1
  <2>3. Active(t)' => worker'[t].file = next_file
    BY <1>2, <1>3
  <2>4. \A u, x \in Workers \ {t} :
          Active(u)' /\ Active(x)' /\ worker'[u].file = worker'[x].file => u = x
    BY <1>3 DEF IInv, CounterInv
  <2>. QED
    BY <2>2, <2>3, <2>4
<1>8. (next_file <= Len(files) + 1 + Cardinality(Finished))'
  <2>1. CASE next_file <= Len(files)
    <3>1. v.pc = "read"
      BY <1>2, <1>5, <2>1
    <3>2. Finished' = Finished
      BY <1>1, <1>3, <3>1 DEF Finished
    <3>. QED
      BY <1>1, <1>4, <1>5, <2>1, <3>2
  <2>2. CASE next_file > Len(files)
    <3>1. v.pc = "done"
      BY <1>2, <1>5, <2>2
    <3>2. Cardinality(Finished') = Cardinality(Finished) + 1
      BY <1>1, <1>2, <3>1, FinishedGrows
    <3>. QED
      BY <1>1, <1>4, <1>5, <3>2 DEF IInv, CounterInv
  <2>. QED
    BY <1>5, <2>1, <2>2
<1>. QED
  BY <1>6, <1>7, <1>8 DEF CounterInv
-----------------------------------------------------------------------------
(***************************************************************************)
(* The builder and the batches: what a network, a flush, a new record and  *)
(* the flush of another worker do to them.                                 *)
(***************************************************************************)

\* p is q before records were added.
Grown(p, q) == Len(p) <= Len(q) /\ \A i \in 1..Len(p) : q[i] = p[i]

\* A record that is added changes nothing for the insertions.
LEMMA RightKept ==
  ASSUME NEW p \in Seq(Record), NEW q \in Seq(Record), Grown(p, q), NEW f, NEW x, Right(p, f, x)
  PROVE  Right(q, f, x)
BY DEF Right, Grown

\* Nor for a batch.
LEMMA BatchKept ==
  ASSUME NEW p \in Seq(Record), NEW q \in Seq(Record), Grown(p, q),
         NEW f, NEW ins, NEW i, NEW n, NEW b, BatchIs(p, f, ins, i, n, b)
  PROVE  BatchIs(q, f, ins, i, n, b)
BY RightKept DEF BatchIs

\* Nor for the builder.
LEMMA BuilderKept ==
  ASSUME NEW p \in Seq(Record), NEW q \in Seq(Record), Grown(p, q),
         NEW f, NEW ins, NEW next, BuilderIs(p, f, ins, next)
  PROVE  BuilderIs(q, f, ins, next)
BY RightKept DEF BuilderIs

\* The fields of the insertions of a sequence.
LEMMA InsertionAt ==
  ASSUME NEW s \in Seq(Insertion)
  PROVE  \A k \in 1..Len(s) : s[k].file \in Nat /\ s[k].line \in Nat
<1>. SUFFICES ASSUME NEW k \in 1..Len(s) PROVE s[k].file \in Nat /\ s[k].line \in Nat
  OBVIOUS
<1>1. s[k] \in Insertion
  BY ElementOfSeq
<1>. QED
  BY <1>1 DEF Insertion

\* The places of a concatenation.
LEMMA ConcatIs ==
  ASSUME NEW s \in Seq(Insertion), NEW g \in Seq(Insertion), NEW c, c = s \o g
  PROVE  /\ c \in Seq(Insertion) /\ Len(c) = Len(s) + Len(g)
         /\ \A k \in 1..Len(s) : k \in 1..Len(c) /\ c[k] = s[k]
         /\ \A k \in 1..Len(g) : Len(s) + k \in 1..Len(c) /\ c[Len(s) + k] = g[k]
         /\ \A k \in 1..Len(c) : k \notin 1..Len(s) =>
              k - Len(s) \in 1..Len(g) /\ c[k] = g[k - Len(s)]
<1>1. /\ c \in Seq(Insertion) /\ Len(c) = Len(s) + Len(g)
      /\ \A k \in 1..(Len(s) + Len(g)) :
           c[k] = IF k <= Len(s) THEN s[k] ELSE g[k - Len(s)]
  BY ConcatProperties
<1>2. Len(s) \in Nat /\ Len(g) \in Nat
  OBVIOUS
<1>3. \A k \in 1..Len(s) : k \in 1..Len(c) /\ c[k] = s[k]
  BY <1>1, <1>2
<1>4. \A k \in 1..Len(g) : Len(s) + k \in 1..Len(c) /\ c[Len(s) + k] = g[k]
  <2>. SUFFICES ASSUME NEW k \in 1..Len(g)
       PROVE  Len(s) + k \in 1..Len(c) /\ c[Len(s) + k] = g[k]
    OBVIOUS
  <2>1. /\ Len(s) + k \in 1..(Len(s) + Len(g)) /\ ~(Len(s) + k <= Len(s))
        /\ (Len(s) + k) - Len(s) = k
    BY <1>2
  <2>2. c[Len(s) + k] = g[(Len(s) + k) - Len(s)]
    BY <1>1, <2>1
  <2>. QED
    BY <1>1, <2>1, <2>2
<1>5. \A k \in 1..Len(c) : k \notin 1..Len(s) =>
        k - Len(s) \in 1..Len(g) /\ c[k] = g[k - Len(s)]
  <2>. TAKE k \in 1..Len(c)
  <2>. HAVE k \notin 1..Len(s)
  <2>1. k \in 1..(Len(s) + Len(g)) /\ ~(k <= Len(s)) /\ k - Len(s) \in 1..Len(g)
    BY <1>1, <1>2
  <2>. QED
    BY <1>1, <2>1
<1>. QED
  BY <1>1, <1>3, <1>4, <1>5

\* The next file is taken.
LEMMA BuilderNext ==
  ASSUME NEW p, NEW f, NEW ins \in Seq(Insertion), NEW next \in Nat, BuilderIs(p, f, ins, next)
  PROVE  BuilderIs(p, f, ins, next + 1)
<1>1. \A k \in 1..Len(ins) : ins[k].file \in Nat
  BY InsertionAt
<1>. QED
  BY <1>1 DEF BuilderIs

\* The lines before the next line.
LEMMA BelowNext ==
  ASSUME NEW e \in DirEntry, NEW n \in 1..Len(e.lines)
  PROVE  /\ n \in NetworkLines(e) => Below(e, n + 1) = Below(e, n) \cup {n}
         /\ n \notin NetworkLines(e) => Below(e, n + 1) = Below(e, n)
         /\ n \notin Below(e, n)
<1>1. NetworkLines(e) \subseteq Nat
  BY DEF NetworkLines, DirEntry
<1>. QED
  BY <1>1 DEF Below

\* The network lines of a file can be counted.
LEMMA LinesFinite ==
  ASSUME NEW e \in DirEntry
  PROVE  /\ NetworkLines(e) \subseteq 1..Len(e.lines) /\ IsFiniteSet(NetworkLines(e))
         /\ \A n : IsFiniteSet(Below(e, n)) /\ Cardinality(Below(e, n)) \in Nat
<1>1. NetworkLines(e) \subseteq 1..Len(e.lines) /\ Len(e.lines) \in Nat
  BY DEF NetworkLines, DirEntry
<1>2. IsFiniteSet(1..Len(e.lines))
  BY <1>1, FS_Interval
<1>3. \A n : Below(e, n) \subseteq 1..Len(e.lines)
  BY <1>1 DEF Below
<1>. QED
  BY <1>1, <1>2, <1>3, FS_Subset, FS_CardinalityType

\* A line without a network leaves the batch as it is.
LEMMA BatchSkips ==
  ASSUME NEW p, NEW f, NEW ins \in Seq(Insertion), NEW i \in 1..Len(f), NEW b \in Seq(Insertion),
         f[i] \in DirEntry, NEW n \in 1..Len(f[i].lines), n \notin NetworkLines(f[i]),
         BatchIs(p, f, ins, i, n, b)
  PROVE  BatchIs(p, f, ins, i, n + 1, b)
<1>1. /\ \A k \in 1..Len(ins) : ins[k].line \in Nat
      /\ \A k \in 1..Len(b) : b[k].line \in Nat
  BY InsertionAt
<1>2. Below(f[i], n + 1) = Below(f[i], n)
  BY BelowNext
<1>3. \A k \in 1..Len(b) : Right(p, f, b[k]) /\ b[k].file = i /\ b[k].line < n + 1
  BY <1>1 DEF BatchIs
<1>4. \A k \in 1..Len(ins) : ins[k].file = i =>
        ins[k].line < n + 1 /\ \A j \in 1..Len(b) : b[j].line # ins[k].line
  BY <1>1 DEF BatchIs
<1>. QED
  BY <1>2, <1>3, <1>4 DEF BatchIs

\* A network joins the batch.
LEMMA BatchGrows ==
  ASSUME NEW p, NEW f, NEW ins \in Seq(Insertion), NEW i \in 1..Len(f), NEW b \in Seq(Insertion),
         f[i] \in DirEntry, NEW n \in 1..Len(f[i].lines), n \in NetworkLines(f[i]),
         BatchIs(p, f, ins, i, n, b),
         NEW x \in Insertion, Right(p, f, x), x.file = i, x.line = n
  PROVE  BatchIs(p, f, ins, i, n + 1, Append(b, x))
<1>1. /\ \A k \in 1..Len(ins) : ins[k].line \in Nat
      /\ \A k \in 1..Len(b) : b[k].line \in Nat
  BY InsertionAt
<1>2. Below(f[i], n + 1) = Below(f[i], n) \cup {n}
  BY BelowNext
<1>. DEFINE c == Append(b, x)
<1>3. /\ Len(b) \in Nat /\ Len(c) = Len(b) + 1 /\ c[Len(b) + 1] = x
      /\ \A k \in 1..Len(b) : c[k] = b[k]
  OBVIOUS
<1>. HIDE DEF c
<1>4. \A k \in 1..Len(c) : k \in 1..Len(b) \/ k = Len(c)
  BY <1>3
<1>5. \A k \in 1..Len(c) : Right(p, f, c[k]) /\ c[k].file = i /\ c[k].line < n + 1
  BY <1>1, <1>3, <1>4 DEF BatchIs
<1>6. \A j, k \in 1..Len(c) : c[j].line = c[k].line => j = k
  BY <1>1, <1>3, <1>4, SMTT(30) DEF BatchIs
<1>7. \A k \in 1..Len(ins) : ins[k].file = i =>
        ins[k].line < n + 1 /\ \A j \in 1..Len(c) : c[j].line # ins[k].line
  BY <1>1, <1>3, <1>4 DEF BatchIs
<1>8. \A m \in Below(f[i], n + 1) :
        \/ \E k \in 1..Len(c) : c[k].line = m
        \/ \E k \in 1..Len(ins) : ins[k].file = i /\ ins[k].line = m
  <2>. SUFFICES ASSUME NEW m \in Below(f[i], n + 1)
       PROVE  \/ \E k \in 1..Len(c) : c[k].line = m
              \/ \E k \in 1..Len(ins) : ins[k].file = i /\ ins[k].line = m
    OBVIOUS
  <2>1. CASE m = n
    BY <1>3, <2>1
  <2>2. CASE m \in Below(f[i], n)
    <3>1. \A k \in 1..Len(b) : k \in 1..Len(c) /\ c[k] = b[k]
      BY <1>3
    <3>. QED
      BY <2>2, <3>1, SMTT(30) DEF BatchIs
  <2>. QED
    BY <1>2, <2>1, <2>2
<1>. QED
  BY <1>5, <1>6, <1>7, <1>8 DEF BatchIs, c

\* A flush: the lines of the batch are in the builder, once.
LEMMA FlushIs ==
  ASSUME NEW p, NEW f, NEW ins \in Seq(Insertion), NEW i \in 1..Len(f), NEW b \in Seq(Insertion),
         NEW n \in Nat, NEW next \in Nat, i < next,
         BatchIs(p, f, ins, i, n, b), BuilderIs(p, f, ins, next)
  PROVE  BatchIs(p, f, ins \o b, i, n, <<>>) /\ BuilderIs(p, f, ins \o b, next)
<1>0. PICK c : c = ins \o b
  OBVIOUS
<1>1. /\ c \in Seq(Insertion) /\ Len(c) = Len(ins) + Len(b)
      /\ \A k \in 1..Len(ins) : k \in 1..Len(c) /\ c[k] = ins[k]
      /\ \A k \in 1..Len(b) : Len(ins) + k \in 1..Len(c) /\ c[Len(ins) + k] = b[k]
      /\ \A k \in 1..Len(c) : \/ k \in 1..Len(ins)
                              \/ k - Len(ins) \in 1..Len(b) /\ c[k] = b[k - Len(ins)]
  BY <1>0, ConcatIs
<1>2. \A k \in 1..Len(c) : Right(p, f, c[k]) /\ c[k].file < next
  <2>1. \A k \in 1..Len(ins) : Right(p, f, ins[k]) /\ ins[k].file < next
    BY DEF BuilderIs
  <2>2. \A k \in 1..Len(b) : Right(p, f, b[k]) /\ b[k].file < next
    BY DEF BatchIs
  <2>. SUFFICES ASSUME NEW k \in 1..Len(c) PROVE Right(p, f, c[k]) /\ c[k].file < next
    OBVIOUS
  <2>3. CASE k \in 1..Len(ins)
    BY <1>1, <2>1, <2>3
  <2>4. CASE k - Len(ins) \in 1..Len(b) /\ c[k] = b[k - Len(ins)]
    BY <2>2, <2>4
  <2>. QED
    BY <1>1, <2>3, <2>4
<1>3. \A j, k \in 1..Len(c) : c[j].file = c[k].file /\ c[j].line = c[k].line => j = k
  <2>. SUFFICES ASSUME NEW j \in 1..Len(c), NEW k \in 1..Len(c),
                       c[j].file = c[k].file, c[j].line = c[k].line
       PROVE  j = k
    OBVIOUS
  <2>1. CASE j \in 1..Len(ins) /\ k \in 1..Len(ins)
    BY <1>1, <2>1 DEF BuilderIs
  <2>0. \A g \in 1..Len(ins), h \in 1..Len(b) :
          ~(ins[g].file = b[h].file /\ ins[g].line = b[h].line)
    BY DEF BatchIs
  <2>2. ~(j \in 1..Len(ins) /\ k - Len(ins) \in 1..Len(b) /\ c[k] = b[k - Len(ins)])
    <3>. SUFFICES ASSUME j \in 1..Len(ins), k - Len(ins) \in 1..Len(b),
                         c[k] = b[k - Len(ins)]
         PROVE  FALSE
      OBVIOUS
    <3>1. c[j] = ins[j]
      BY <1>1
    <3>. QED
      BY <2>0, <3>1
  <2>3. ~(k \in 1..Len(ins) /\ j - Len(ins) \in 1..Len(b) /\ c[j] = b[j - Len(ins)])
    <3>. SUFFICES ASSUME k \in 1..Len(ins), j - Len(ins) \in 1..Len(b),
                         c[j] = b[j - Len(ins)]
         PROVE  FALSE
      OBVIOUS
    <3>1. c[k] = ins[k]
      BY <1>1
    <3>. QED
      BY <2>0, <3>1
  <2>4. CASE /\ j - Len(ins) \in 1..Len(b) /\ c[j] = b[j - Len(ins)]
             /\ k - Len(ins) \in 1..Len(b) /\ c[k] = b[k - Len(ins)]
    <3>1. j - Len(ins) = k - Len(ins)
      BY <2>4, SMTT(30) DEF BatchIs
    <3>. QED
      BY <1>1, <3>1
  <2>. QED
    BY <1>1, <2>1, <2>2, <2>3, <2>4
<1>4. BuilderIs(p, f, c, next)
  BY <1>2, <1>3 DEF BuilderIs
<1>5. \A k \in 1..Len(c) : c[k].file = i => c[k].line < n
  BY <1>1 DEF BatchIs
<1>6. \A m \in Below(f[i], n) : \E k \in 1..Len(c) : c[k].file = i /\ c[k].line = m
  <2>. SUFFICES ASSUME NEW m \in Below(f[i], n)
       PROVE  \E k \in 1..Len(c) : c[k].file = i /\ c[k].line = m
    OBVIOUS
  <2>1. CASE \E k \in 1..Len(b) : b[k].line = m
    <3>1. PICK k \in 1..Len(b) : b[k].line = m
      BY <2>1
    <3>2. Len(ins) + k \in 1..Len(c) /\ b[k].file = i
      BY <1>1 DEF BatchIs
    <3>. QED
      BY <1>1, <3>1, <3>2
  <2>2. CASE \E k \in 1..Len(ins) : ins[k].file = i /\ ins[k].line = m
    BY <1>1, <2>2
  <2>. QED
    BY <2>1, <2>2 DEF BatchIs
<1>7. BatchIs(p, f, c, i, n, <<>>)
  <2>1. PICK z : z = <<>>
    OBVIOUS
  <2>2. 1..Len(z) = {}
    BY <2>1
  <2>3. BatchIs(p, f, c, i, n, z)
    BY <1>5, <1>6, <2>2 DEF BatchIs
  <2>. QED
    BY <2>1, <2>3
<1>. QED
  BY <1>0, <1>4, <1>7

\* The flush of another worker, which is in another file.
LEMMA OtherFlush ==
  ASSUME NEW p, NEW f, NEW ins \in Seq(Insertion), NEW i, NEW n, NEW b,
         NEW g \in Seq(Insertion), \A k \in 1..Len(g) : g[k].file # i,
         BatchIs(p, f, ins, i, n, b)
  PROVE  BatchIs(p, f, ins \o g, i, n, b)
<1>0. PICK c : c = ins \o g
  OBVIOUS
<1>1. /\ \A k \in 1..Len(ins) : k \in 1..Len(c) /\ c[k] = ins[k]
      /\ \A k \in 1..Len(c) : k \in 1..Len(ins) \/ c[k].file # i
  BY <1>0, ConcatIs
<1>2. /\ \A k \in 1..Len(b) : Right(p, f, b[k]) /\ b[k].file = i /\ b[k].line < n
      /\ \A j, k \in 1..Len(b) : b[j].line = b[k].line => j = k
  BY DEF BatchIs
<1>3. \A k \in 1..Len(c) : c[k].file = i =>
        c[k].line < n /\ \A j \in 1..Len(b) : b[j].line # c[k].line
  BY <1>1 DEF BatchIs
<1>4. \A m \in Below(f[i], n) :
        \/ \E k \in 1..Len(b) : b[k].line = m
        \/ \E k \in 1..Len(c) : c[k].file = i /\ c[k].line = m
  BY <1>1 DEF BatchIs
<1>. QED
  BY <1>0, <1>2, <1>3, <1>4 DEF BatchIs

\* A record that is added changes nothing for the variables of a worker.
LEMMA LineKept ==
  ASSUME NEW p \in Seq(Record), NEW q \in Seq(Record), Grown(p, q), NEW e, NEW w, LineIs(p, e, w)
  PROVE  LineIs(q, e, w)
BY DEF LineIs, Grown

\* Steps of worker t that keep its own invariant keep those of the others.
LEMMA ParseStep ==
  ASSUME IInv, NEW t \in Workers, NEW v \in WorkerState, Becomes(t, v), CallKept, PoolGrows,
         NEW g \in Seq(Insertion), inserted' = inserted \o g,
         \A k \in 1..Len(g) : Active(t) /\ g[k].file = worker[t].file,
         Len(v.batch) < BatchSize, v.did <= Len(pool'),
         v.pc \in {"read", "line", "record"} =>
           /\ LineIs(pool', files[v.file], v)
           /\ BatchIs(pool', files, inserted', v.file, v.line, v.batch)
  PROVE  ParseInv'
<1>. SUFFICES ASSUME NEW u \in Workers
     PROVE  /\ Len(worker'[u].batch) < BatchSize /\ worker'[u].did <= Len(pool')
            /\ Active(u)' => LineInv(u)' /\ BatchInv(u)'
  BY DEF ParseInv
<1>1. files' = files /\ worker'[t] = v /\ (u # t => worker'[u] = worker[u])
  BY DEF CallKept, Becomes
<1>2. CASE u = t
  BY <1>1, <1>2 DEF Active, LineInv, BatchInv
<1>3. CASE u # t
  <2>1. worker'[u] = worker[u] /\ worker[u] \in WorkerState
    BY <1>1, <1>3 DEF IInv, Types
  <2>2. /\ Len(worker[u].batch) < BatchSize /\ worker[u].did <= Len(pool)
        /\ Active(u) => LineInv(u) /\ BatchInv(u)
    BY DEF IInv, ParseInv
  <2>3. /\ pool \in Seq(Record) /\ pool' \in Seq(Record) /\ Grown(pool, pool')
        /\ inserted \in Seq(Insertion)
    BY DEF IInv, Types, PoolGrows, Grown
  <2>4. worker'[u].did <= Len(pool')
    <3>1. worker[u].did \in Nat
      BY <2>1 DEF WorkerState
    <3>2. Len(pool) \in Nat /\ Len(pool') \in Nat /\ Len(pool) <= Len(pool')
      BY <2>3 DEF Grown
    <3>. QED
      BY <2>1, <2>2, <3>1, <3>2
  <2>5. ASSUME Active(u) PROVE LineInv(u)' /\ BatchInv(u)'
    <3>1. LineIs(pool', files[worker[u].file], worker[u])
      BY <2>2, <2>3, <2>5, LineKept DEF LineInv
    <3>2. BatchIs(pool', files, inserted, worker[u].file, worker[u].line, worker[u].batch)
      BY <2>2, <2>3, <2>5, BatchKept DEF BatchInv
    <3>3. \A k \in 1..Len(g) : g[k].file # worker[u].file
      BY <1>3, <2>5 DEF IInv, CounterInv
    <3>4. BatchIs(pool', files, inserted', worker[u].file, worker[u].line, worker[u].batch)
      BY <2>3, <3>2, <3>3, OtherFlush
    <3>. QED
      BY <1>1, <2>1, <3>1, <3>4 DEF LineInv, BatchInv
  <2>6. Active(u)' => Active(u)
    BY <2>1 DEF Active
  <2>. QED
    BY <2>1, <2>2, <2>4, <2>5, <2>6
<1>. QED
  BY <1>2, <1>3

\* A step that inserts nothing is one that flushes the empty batch.
LEMMA NothingFlushed ==
  ASSUME IInv, inserted' = inserted
  PROVE  /\ <<>> \in Seq(Insertion) /\ inserted' = inserted \o <<>>
         /\ \A k \in 1..Len(<<>>) : FALSE
<1>1. inserted \in Seq(Insertion)
  BY DEF IInv, Types
<1>2. <<>> \in Seq(Insertion) /\ Len(<<>>) = 0
  BY EmptySeq
<1>3. inserted \o <<>> = inserted
  BY <1>1, ConcatEmptySeq
<1>. QED
  BY <1>2, <1>3

\* A worker that has stopped.
LEMMA StoppedParse ==
  ASSUME IInv, NEW t \in Workers, NEW v \in WorkerState, Becomes(t, v), CallKept, PoolGrows,
         inserted' = inserted, v.pc \in {"done", "take"},
         v.did = worker[t].did, v.batch = worker[t].batch
  PROVE  ParseInv'
<1>1. PICK g \in Seq(Insertion) : inserted' = inserted \o g /\ \A k \in 1..Len(g) : FALSE
  BY NothingFlushed
<1>2. Len(v.batch) < BatchSize /\ worker[t].did <= Len(pool)
  BY DEF IInv, ParseInv
<1>3. v.did \in Nat /\ v.did <= Len(pool)
  BY <1>2 DEF WorkerState
<1>4. v.did <= Len(pool')
  <2>1. Len(pool) \in Nat /\ Len(pool') \in Nat /\ Len(pool) <= Len(pool')
    BY DEF IInv, Types, PoolGrows
  <2>. QED
    BY <1>3, <2>1
<1>5. v.pc \notin {"read", "line", "record"}
  OBVIOUS
<1>. QED
  BY <1>1, <1>2, <1>4, <1>5, ParseStep

\* The builder after a step that inserts nothing.
LEMMA BuilderStays ==
  ASSUME IInv, CallKept, PoolGrows, inserted' = inserted, next_file' = next_file
  PROVE  InsertedInv'
<1>1. /\ pool \in Seq(Record) /\ pool' \in Seq(Record) /\ Grown(pool, pool')
  BY DEF IInv, Types, PoolGrows, Grown
<1>2. BuilderIs(pool', files, inserted, next_file)
  BY <1>1, BuilderKept DEF IInv, InsertedInv
<1>. QED
  BY <1>2 DEF InsertedInv, CallKept

\* A file is taken: its metadata are empty, nothing of it is in the builder.
LEMMA TakeParse ==
  ASSUME IInv, NEW t \in Workers, TakeFile(t), CallKept
  PROVE  ParseInv' /\ InsertedInv'
<1>1. /\ Types /\ pool \in Seq(Record) /\ inserted \in Seq(Insertion)
      /\ next_file \in Nat \ {0} /\ Len(files) \in Nat
  BY DEF IInv, Types
<1>2. next_file' = next_file + 1 /\ pool' = pool /\ inserted' = inserted
  BY DEF TakeFile, builder
<1>3. PoolGrows
  BY <1>1, <1>2 DEF PoolGrows
<1>4. InsertedInv'
  BY <1>1, <1>2, BuilderNext DEF IInv, InsertedInv, CallKept
<1>5. PICK v \in WorkerState :
        /\ Becomes(t, v)
        /\ \/ /\ next_file <= Len(files)
              /\ v.pc = "read" /\ v.file = next_file /\ v.line = 1 /\ v.metadata = Nothing
              /\ v.did = 0 /\ v.total = 0 /\ v.batch = <<>>
           \/ v.pc = "done" /\ v.did = worker[t].did /\ v.batch = worker[t].batch
  BY <1>1, TakeEffect
<1>6. CASE v.pc = "done" /\ v.did = worker[t].did /\ v.batch = worker[t].batch
  BY <1>2, <1>3, <1>4, <1>5, <1>6, StoppedParse
<1>7. CASE /\ next_file <= Len(files)
           /\ v.pc = "read" /\ v.file = next_file /\ v.line = 1 /\ v.metadata = Nothing
           /\ v.did = 0 /\ v.total = 0 /\ v.batch = <<>>
  <2>1. PICK e : e = files[next_file]
    OBVIOUS
  <2>2. next_file \in 1..Len(files) /\ e \in DirEntry
    BY <1>1, <1>7, <2>1, ElementOfSeq DEF Types
  <2>3. Below(e, 1) = {}
    BY <2>2, LinesFinite DEF Below
  <2>4. LineIs(pool', e, v)
    <3>1. Len(e.lines) \in Nat
      BY <2>2 DEF DirEntry
    <3>2. v.total = Cardinality(Below(e, 1))
      BY <1>7, <2>3, FS_EmptySet
    <3>3. v.metadata = MetadataAt(e, v.line)
      BY <1>7, MetadataFirst
    <3>. QED
      BY <1>7, <3>1, <3>2, <3>3 DEF LineIs
  <2>5. 1..Len(v.batch) = {} /\ Len(v.batch) = 0
    BY <1>7
  <2>6. \A k \in 1..Len(inserted) : inserted[k].file # next_file
    <3>1. \A k \in 1..Len(inserted) : inserted[k].file \in Nat
      BY <1>1, InsertionAt
    <3>. QED
      BY <1>1, <3>1 DEF IInv, InsertedInv, BuilderIs
  <2>7. BatchIs(pool', files, inserted', v.file, v.line, v.batch)
    BY <1>2, <1>7, <2>1, <2>3, <2>5, <2>6 DEF BatchIs
  <2>8. PICK g \in Seq(Insertion) : inserted' = inserted \o g /\ \A k \in 1..Len(g) : FALSE
    BY <1>2, NothingFlushed
  <2>9. Len(v.batch) < BatchSize /\ v.did <= Len(pool')
    BY <1>1, <1>2, <1>7, <2>5, CompilerAssumption
  <2>10. LineIs(pool', files[v.file], v)
    BY <1>7, <2>1, <2>4
  <2>11. ParseInv'
    BY <1>3, <1>5, <2>7, <2>8, <2>9, <2>10, ParseStep
  <2>. QED
    BY <1>4, <2>11
<1>. QED
  BY <1>5, <1>6, <1>7

\* The exception of a file that cannot be read or of a bad line.
LEMMA FailParse ==
  ASSUME IInv, NEW t \in Workers, WorkerFails(t), CallKept, PoolGrows,
         inserted' = inserted, next_file' = next_file
  PROVE  ParseInv' /\ InsertedInv'
<1>1. PICK v \in WorkerState : /\ Becomes(t, v) /\ v.pc = "done"
                               /\ v.did = worker[t].did /\ v.batch = worker[t].batch
  BY FailEffect DEF IInv
<1>. QED
  BY <1>1, StoppedParse, BuilderStays

\* The statistics of a file.
LEMMA RecordParse ==
  ASSUME IInv, NEW t \in Workers, RecordFile(t), CallKept
  PROVE  ParseInv' /\ InsertedInv'
<1>1. pool' = pool /\ inserted' = inserted /\ next_file' = next_file
  BY DEF RecordFile, builder
<1>2. PoolGrows
  BY <1>1 DEF PoolGrows, IInv, Types
<1>3. PICK v \in WorkerState : /\ Becomes(t, v) /\ v.pc = "take"
                               /\ v.did = worker[t].did /\ v.batch = worker[t].batch
  BY RecordEffect DEF IInv
<1>. QED
  BY <1>1, <1>2, <1>3, StoppedParse, BuilderStays

\* read_file.
LEMMA ReadParse ==
  ASSUME IInv, NEW t \in Workers, ReadFile(t), CallKept
  PROVE  ParseInv' /\ InsertedInv'
<1>. DEFINE w == worker[t]
<1>1. pool' = pool /\ inserted' = inserted /\ next_file' = next_file /\ w.pc = "read"
  BY DEF ReadFile, builder
<1>2. PoolGrows
  BY <1>1 DEF PoolGrows, IInv, Types
<1>3. Active(t)
  BY <1>1 DEF Active
<1>4. LineIs(pool, files[w.file], w) /\ files[w.file] \in DirEntry
        /\ BatchIs(pool, files, inserted, w.file, w.line, w.batch)
  BY <1>3, InFile DEF LineInv, BatchInv
<1>5. w.line = 1
  BY <1>1, <1>4 DEF LineIs
<1>6. PICK v \in WorkerState :
        /\ Becomes(t, v) /\ v.line = 1
        /\ v.pc = (IF files[w.file].lines = <<>> THEN "record" ELSE "line")
        /\ v.file = w.file /\ v.metadata = w.metadata /\ v.did = w.did
        /\ v.network_count = w.network_count /\ v.total = w.total /\ v.batch = w.batch
  BY ReadEffect DEF IInv
<1>7. /\ Len(w.batch) < BatchSize /\ w.did <= Len(pool)
  BY DEF IInv, ParseInv
<1>8. v.pc = "record" => v.line = Len(files[w.file].lines) + 1 /\ v.batch = <<>>
  <2>1. ASSUME v.pc = "record" PROVE files[w.file].lines = <<>>
    BY <1>6, <2>1
  <2>2. ASSUME files[w.file].lines = <<>> PROVE Len(files[w.file].lines) = 0
    BY <2>2
  <2>3. v.batch = <<>>
    <3>1. w.batch \in Seq(Insertion)
      BY DEF IInv, Types, WorkerState
    <3>2. \A k \in 1..Len(w.batch) : FALSE
      <4>. SUFFICES ASSUME NEW k \in 1..Len(w.batch) PROVE FALSE
        OBVIOUS
      <4>1. w.batch[k].line \in NetworkLines(files[w.file]) /\ w.batch[k].line < 1
        BY <1>4, <1>5 DEF BatchIs, Right
      <4>2. NetworkLines(files[w.file]) \subseteq 1..Len(files[w.file].lines)
        BY <1>4, LinesFinite
      <4>. QED
        BY <4>1, <4>2
    <3>3. Len(w.batch) = 0
      BY <3>1, <3>2
    <3>. QED
      BY <1>6, <3>1, <3>3, EmptySeq
  <2>. QED
    BY <1>6, <2>1, <2>2, <2>3
<1>9. v.pc # "read"
  BY <1>6
<1>10. LineIs(pool', files[v.file], v)
  BY <1>1, <1>4, <1>5, <1>6, <1>8, <1>9 DEF LineIs
<1>11. BatchIs(pool', files, inserted', v.file, v.line, v.batch)
  BY <1>1, <1>4, <1>5, <1>6
<1>12. PICK g \in Seq(Insertion) : inserted' = inserted \o g /\ \A k \in 1..Len(g) : FALSE
  BY <1>1, NothingFlushed
<1>13. Len(v.batch) < BatchSize /\ v.did <= Len(pool')
  BY <1>1, <1>6, <1>7
<1>14. ParseInv'
  BY <1>2, <1>6, <1>10, <1>11, <1>12, <1>13, ParseStep
<1>. QED
  BY <1>1, <1>2, <1>14, BuilderStays

\* The last flush of process_file.
LEMMA FlushParse ==
  ASSUME IInv, NEW t \in Workers, Flush(t), CallKept
  PROVE  ParseInv' /\ InsertedInv'
<1>. DEFINE w == worker[t]
<1>1. /\ pool' = pool /\ inserted' = inserted \o w.batch /\ next_file' = next_file
      /\ w.pc = "line" /\ w.line > Len(files[w.file].lines)
  BY DEF Flush
<1>2. PoolGrows
  BY <1>1 DEF PoolGrows, IInv, Types
<1>3. Active(t)
  BY <1>1 DEF Active
<1>4. /\ LineIs(pool, files[w.file], w) /\ files[w.file] \in DirEntry
      /\ BatchIs(pool, files, inserted, w.file, w.line, w.batch)
      /\ w \in WorkerState /\ w.file \in 1..Len(files) /\ w.file < next_file
  BY <1>3, InFile DEF LineInv, BatchInv
<1>5. w.batch \in Seq(Insertion) /\ w.line \in Nat /\ Len(files[w.file].lines) \in Nat
  BY <1>4 DEF WorkerState, DirEntry
<1>6. w.line = Len(files[w.file].lines) + 1
  <2>1. w.line \in 1..(Len(files[w.file].lines) + 1)
    BY <1>4 DEF LineIs
  <2>. HIDE DEF w
  <2>. QED
    BY <1>1, <1>5, <2>1
<1>7. PICK v \in WorkerState :
        /\ Becomes(t, v) /\ v.pc = "record" /\ v.batch = <<>>
        /\ v.file = w.file /\ v.line = w.line /\ v.metadata = w.metadata
        /\ v.did = w.did /\ v.network_count = w.network_count /\ v.total = w.total
  BY FlushEffect DEF IInv
<1>8. w.did <= Len(pool) /\ Len(v.batch) < BatchSize
  <2>1. Len(v.batch) = 0
    BY <1>7
  <2>. QED
    BY <2>1, CompilerAssumption DEF IInv, ParseInv
<1>9. LineIs(pool', files[v.file], v)
  BY <1>1, <1>4, <1>6, <1>7 DEF LineIs
<1>10. /\ inserted \in Seq(Insertion) /\ next_file \in Nat
       /\ BuilderIs(pool, files, inserted, next_file) /\ files' = files
  BY DEF IInv, Types, InsertedInv, CallKept
<1>11. /\ BatchIs(pool, files, inserted', w.file, w.line, <<>>)
       /\ BuilderIs(pool, files, inserted', next_file)
  BY <1>1, <1>4, <1>5, <1>10, FlushIs
<1>12. \A k \in 1..Len(w.batch) : w.batch[k].file = w.file
  BY <1>4 DEF BatchIs
<1>13. ParseInv'
  BY <1>1, <1>2, <1>3, <1>5, <1>7, <1>8, <1>9, <1>11, <1>12, ParseStep
<1>. QED
  BY <1>1, <1>10, <1>11, <1>13 DEF InsertedInv

\* The worker is at a line of its file, and that line has its type.
LEMMA AtLine ==
  ASSUME IInv, NEW t \in Workers, Active(t),
         worker[t].line <= Len(files[worker[t].file].lines)
  PROVE  LET w == worker[t]
             e == files[w.file]
         IN  /\ Types /\ w \in WorkerState /\ e \in DirEntry
             /\ w.file \in 1..Len(files) /\ w.file < next_file
             /\ w.line # 0 /\ w.line \in 1..Len(e.lines) /\ LineOf(t) = e.lines[w.line]
             /\ w.line \in NetworkLines(e) <=> LineOf(t).kind = "network"
             /\ LineIs(pool, e, w)
             /\ BatchIs(pool, files, inserted, w.file, w.line, w.batch)
             /\ w.batch \in Seq(Insertion) /\ inserted \in Seq(Insertion)
             /\ Len(w.batch) < BatchSize /\ w.did <= Len(pool)
<1>. DEFINE w == worker[t]
            e == files[w.file]
<1>1. /\ w \in WorkerState /\ e \in DirEntry /\ w.file \in 1..Len(files)
      /\ w.file < next_file /\ w.line # 0
      /\ LineIs(pool, e, w) /\ BatchIs(pool, files, inserted, w.file, w.line, w.batch)
  BY InFile DEF LineInv, BatchInv
<1>2. Types /\ inserted \in Seq(Insertion) /\ w.batch \in Seq(Insertion)
  BY <1>1 DEF IInv, Types, WorkerState
<1>3. w.line \in 1..Len(e.lines)
  BY <1>1, <1>2, AfterIs
<1>4. w.line \in NetworkLines(e) <=> LineOf(t).kind = "network"
  <2>1. DOMAIN e.lines = 1..Len(e.lines)
    BY <1>1 DEF DirEntry
  <2>. QED
    BY <1>3, <2>1 DEF NetworkLines, LineOf
<1>5. LineOf(t) = e.lines[w.line]
  BY DEF LineOf
<1>6. Len(w.batch) < BatchSize /\ w.did <= Len(pool)
  BY DEF IInv, ParseInv
<1>. HIDE DEF w, e
<1>. QED
  BY <1>1, <1>2, <1>3, <1>4, <1>5, <1>6 DEF w, e

\* A line that is no network and not bad, with the metadata it leaves in force.
LEMMA LineAdvances ==
  ASSUME NEW p, NEW e \in DirEntry, NEW w \in WorkerState, NEW v \in WorkerState,
         LineIs(p, e, w), w.line \in 1..Len(e.lines), w.pc = "line", v.pc = "line",
         e.lines[w.line].kind \in {"other", "key"}, v.line = w.line + 1,
         v.metadata = MetadataAt(e, v.line), v.total = w.total,
         v.network_count = w.network_count,
         v.did = 0 \/ (v.did = w.did /\ (v.metadata = w.metadata \/ w.network_count = 0))
  PROVE  LineIs(p, e, v)
<1>. DEFINE n == w.line
<1>1. n \in Nat /\ Len(e.lines) \in Nat /\ v.line - 1 = n /\ n \in 1..Len(e.lines)
  <2>1. w.line \in Nat /\ e.lines \in Seq(Line)
    BY DEF WorkerState, DirEntry
  <2>2. Len(e.lines) \in Nat
    BY <2>1
  <2>. QED
    BY <2>1, <2>2
<1>2. v.line \in 1..(Len(e.lines) + 1)
  BY <1>1
<1>3. n \notin NetworkLines(e)
  BY DEF NetworkLines
<1>4. Below(e, v.line) = Below(e, n)
  BY <1>1, <1>3, BelowNext
<1>5. v.total = Cardinality(Below(e, v.line))
  BY <1>4 DEF LineIs
<1>6. \A m \in 1..(v.line - 1) : e.lines[m].kind \notin {"date", "invalid"}
  <2>1. \A m \in 1..n : m = n \/ m \in 1..(n - 1)
    BY <1>1
  <2>. QED
    BY <1>1, <2>1 DEF LineIs
<1>7. v.did # 0 => /\ v.did \in 1..Len(p) /\ v.network_count > 0
                   /\ p[v.did] = RecordAt(e, v.line)
  <2>. HAVE v.did # 0
  <2>1. w.did # 0 /\ v.did = w.did
    OBVIOUS
  <2>2. w.did \in 1..Len(p) /\ w.network_count > 0 /\ p[w.did] = RecordAt(e, w.line)
    BY <2>1 DEF LineIs
  <2>3. w.network_count # 0 /\ w.metadata = MetadataAt(e, w.line)
    BY <2>2 DEF LineIs
  <2>4. v.metadata = w.metadata
    BY <2>1, <2>3
  <2>. QED
    BY <2>1, <2>2, <2>3, <2>4 DEF RecordAt
<1>. QED
  BY <1>2, <1>5, <1>6, <1>7 DEF LineIs

\* A line that is skipped.
LEMMA SkipParse ==
  ASSUME IInv, NEW t \in Workers, Active(t), worker[t].pc = "line",
         worker[t].line <= Len(files[worker[t].file].lines),
         SkipLine(t) \/ KeyLine(t), CallKept, next_file' = next_file
  PROVE  ParseInv' /\ InsertedInv'
<1>1. PICK w, e : w = worker[t] /\ e = files[w.file]
  OBVIOUS
<1>2. /\ Types /\ w \in WorkerState /\ e \in DirEntry
      /\ w.file \in 1..Len(files) /\ w.line # 0 /\ w.line \in 1..Len(e.lines)
      /\ LineOf(t) = e.lines[w.line] /\ LineIs(pool, e, w)
      /\ w.line \in NetworkLines(e) <=> LineOf(t).kind = "network"
      /\ BatchIs(pool, files, inserted, w.file, w.line, w.batch)
      /\ w.batch \in Seq(Insertion) /\ inserted \in Seq(Insertion)
      /\ Len(w.batch) < BatchSize /\ w.did <= Len(pool)
  BY <1>1, AtLine
<1>3. pool' = pool /\ inserted' = inserted
  BY DEF SkipLine, KeyLine
<1>4. PoolGrows
  BY <1>2, <1>3 DEF PoolGrows, Types
<1>5. LineOf(t).kind \in {"other", "key"}
  BY DEF SkipLine, KeyLine
<1>6. w.metadata = MetadataAt(e, w.line) /\ w.line \in Nat \ {0}
  BY <1>2 DEF LineIs, WorkerState
<1>7. PICK v \in WorkerState :
        /\ Becomes(t, v) /\ v.line = w.line + 1 /\ v.pc = w.pc /\ v.file = w.file
        /\ v.metadata = MetadataAt(e, w.line + 1)
        /\ v.did = 0 \/ (v.did = w.did /\ (v.metadata = w.metadata \/ w.network_count = 0))
        /\ v.network_count = w.network_count /\ v.total = w.total /\ v.batch = w.batch
  <2>1. CASE SkipLine(t)
    <3>1. PICK v \in WorkerState :
            /\ v = After(w) /\ v.line = w.line + 1 /\ v.pc = w.pc /\ v.file = w.file
            /\ v.metadata = w.metadata /\ v.did = w.did /\ v.network_count = w.network_count
            /\ v.total = w.total /\ v.batch = w.batch
      BY <1>1, <1>2, AfterIs
    <3>2. Becomes(t, v)
      BY <1>1, <1>2, <2>1, <3>1, BecomesIs DEF SkipLine
    <3>3. v.metadata = MetadataAt(e, w.line + 1)
      BY <1>2, <1>6, <2>1, <3>1, MetadataKept DEF SkipLine
    <3>. QED
      BY <3>1, <3>2, <3>3
  <2>2. CASE KeyLine(t)
    <3>1. /\ LineOf(t).kind = "key" /\ LineOf(t).key \in Keys
          /\ worker' = [worker EXCEPT ![t] = SetKey(After(worker[t]), LineOf(t))]
      BY <1>1, <1>2, <2>2, AfterIs DEF KeyLine
    <3>2. PICK v \in WorkerState :
            /\ Becomes(t, v) /\ v.line = w.line + 1
            /\ v.pc = w.pc /\ v.file = w.file
            /\ v.metadata = [w.metadata EXCEPT ![LineOf(t).key] = LineOf(t).value]
            /\ \/ v.did = 0
               \/ v.did = w.did /\ (v.metadata = w.metadata \/ w.network_count = 0)
            /\ v.network_count = w.network_count /\ v.total = w.total
            /\ v.batch = w.batch
      BY <1>1, <1>2, <3>1, KeyEffect
    <3>3. MetadataAt(e, w.line + 1) =
            [MetadataAt(e, w.line) EXCEPT ![LineOf(t).key] = LineOf(t).value]
      <4>1. PICK n \in Nat \ {0} : n = w.line
        BY <1>6
      <4>2. e.lines[n].kind = "key" /\ e.lines[n].key \in Keys /\ LineOf(t) = e.lines[n]
        BY <1>2, <3>1, <4>1
      <4>3. MetadataAt(e, n + 1) =
              [MetadataAt(e, n) EXCEPT ![e.lines[n].key] = e.lines[n].value]
        BY <4>2, MetadataSet
      <4>. QED
        BY <4>1, <4>2, <4>3, Zenon
    <3>4. v.metadata = MetadataAt(e, w.line + 1)
      BY <1>6, <3>2, <3>3
    <3>. QED
      BY <3>2, <3>4
  <2>. QED
    BY <2>1, <2>2
<1>8. LineIs(pool, e, v)
  BY <1>1, <1>2, <1>5, <1>7, LineAdvances, ZenonT(30)
<1>9. BatchIs(pool, files, inserted, w.file, w.line + 1, w.batch)
  BY <1>1, <1>2, <1>5, BatchSkips
<1>10. PICK g \in Seq(Insertion) : inserted' = inserted \o g /\ \A k \in 1..Len(g) : FALSE
  BY <1>3, NothingFlushed
<1>11. v.did <= Len(pool)
  BY <1>2, <1>7 DEF Types
<1>12. /\ LineIs(pool', files[v.file], v)
       /\ BatchIs(pool', files, inserted', v.file, v.line, v.batch)
       /\ Len(v.batch) < BatchSize /\ v.did <= Len(pool')
  BY <1>1, <1>2, <1>3, <1>7, <1>8, <1>9, <1>11
<1>13. ParseInv'
  BY <1>4, <1>7, <1>10, <1>12, ParseStep
<1>. QED
  BY <1>3, <1>4, <1>13, BuilderStays

\* A network: it has its record, and it is in the batch or in the builder, once.
LEMMA NetworkParse ==
  ASSUME IInv, NEW t \in Workers, Active(t), worker[t].pc = "line",
         worker[t].line <= Len(files[worker[t].file].lines),
         NetworkLine(t), CallKept, next_file' = next_file
  PROVE  ParseInv' /\ InsertedInv'
<1>1. PICK w, e : w = worker[t] /\ e = files[w.file]
  OBVIOUS
<1>2. /\ Types /\ w \in WorkerState /\ e \in DirEntry
      /\ w.file \in 1..Len(files) /\ w.file < next_file
      /\ w.line # 0 /\ w.line \in 1..Len(e.lines)
      /\ LineOf(t) = e.lines[w.line] /\ LineIs(pool, e, w)
      /\ w.line \in NetworkLines(e)
      /\ BatchIs(pool, files, inserted, w.file, w.line, w.batch)
      /\ w.batch \in Seq(Insertion) /\ inserted \in Seq(Insertion)
      /\ Len(w.batch) < BatchSize /\ w.did <= Len(pool)
  BY <1>1, AtLine DEF NetworkLine
<1>3. PICK v \in WorkerState, x \in Insertion, g \in Seq(Insertion) :
        Networked(t, v, x, g)
  BY <1>1, <1>2, NetworkEffect
<1>4. /\ PoolGrows /\ Becomes(t, v) /\ v.line = w.line + 1
      /\ v.pc = "line" /\ v.file = w.file /\ v.metadata = w.metadata
      /\ v.network_count > 0 /\ v.total = w.total + 1
      /\ w.did # 0 => v.did = w.did
      /\ w.did = 0 => /\ v.did \in 1..Len(pool')
                      /\ pool'[v.did] = [file |-> e.name, metadata |-> w.metadata]
      /\ x = [net |-> LineOf(t).net, did |-> v.did, file |-> w.file, line |-> w.line]
      /\ inserted' = inserted \o g
      /\ \/ /\ v.batch = Append(w.batch, x) /\ g = <<>>
            /\ Len(w.batch) + 1 # BatchSize
         \/ v.batch = <<>> /\ g = Append(w.batch, x)
  BY <1>1, <1>3 DEF Networked
<1>5. /\ pool \in Seq(Record) /\ pool' \in Seq(Record) /\ Grown(pool, pool')
      /\ files' = files /\ next_file \in Nat
  BY <1>2, <1>4 DEF Types, PoolGrows, Grown, CallKept
<1>6. w.metadata = MetadataAt(e, w.line) /\ w.line \in Nat \ {0} /\ Len(e.lines) \in Nat
  <2>1. e.lines \in Seq(Line)
    BY <1>2 DEF DirEntry
  <2>. QED
    BY <1>2, <2>1, SMTT(30) DEF LineIs, WorkerState
<1>7. v.did \in 1..Len(pool') /\ pool'[v.did] = RecordAt(e, w.line)
  <2>1. CASE w.did # 0
    <3>1. w.did \in 1..Len(pool) /\ pool[w.did] = RecordAt(e, w.line)
      BY <1>2, <2>1 DEF LineIs
    <3>2. Len(pool) \in Nat /\ Len(pool') \in Nat
      BY <1>5
    <3>. QED
      BY <1>4, <1>5, <2>1, <3>1, <3>2 DEF Grown
  <2>2. CASE w.did = 0
    BY <1>4, <1>6, <2>2 DEF RecordAt
  <2>. QED
    BY <2>1, <2>2
<1>8. e.lines[w.line].kind = "network"
  BY <1>2 DEF NetworkLines
<1>9. MetadataAt(e, w.line + 1) = MetadataAt(e, w.line)
  BY <1>6, <1>8, MetadataKept
<1>10. LineIs(pool', e, v)
  <2>1. v.line \in 1..(Len(e.lines) + 1) /\ v.line - 1 = w.line
    BY <1>2, <1>4, <1>6, SMTT(30)
  <2>2. v.metadata = MetadataAt(e, v.line) /\ RecordAt(e, v.line) = RecordAt(e, w.line)
    BY <1>4, <1>6, <1>9 DEF RecordAt
  <2>3. \A m \in 1..(v.line - 1) : e.lines[m].kind \notin {"date", "invalid"}
    <3>1. \A m \in 1..w.line : m = w.line \/ m \in 1..(w.line - 1)
      BY <1>6
    <3>. QED
      BY <1>2, <1>8, <2>1, <3>1 DEF LineIs
  <2>4. v.total = Cardinality(Below(e, v.line))
    <3>1. Below(e, v.line) = Below(e, w.line) \cup {w.line} /\ w.line \notin Below(e, w.line)
      BY <1>2, <1>4, BelowNext
    <3>2. IsFiniteSet(Below(e, w.line))
      BY <1>2, LinesFinite
    <3>3. Cardinality(Below(e, v.line)) = Cardinality(Below(e, w.line)) + 1
      BY <3>1, <3>2, FS_AddElement
    <3>. QED
      BY <1>2, <1>4, <3>3 DEF LineIs
  <2>. QED
    BY <1>4, <1>7, <2>1, <2>2, <2>3, <2>4 DEF LineIs
<1>11. x.file = w.file /\ x.line = w.line /\ Right(pool', files, x)
  <2>1. x.file = w.file /\ x.line = w.line /\ x.did = v.did /\ x.net = e.lines[w.line].net
    BY <1>2, <1>4
  <2>. QED
    BY <1>1, <1>2, <1>7, <2>1 DEF Right
<1>12. BatchIs(pool', files, inserted, w.file, w.line, w.batch)
  BY <1>2, <1>5, BatchKept
<1>. DEFINE b == Append(w.batch, x)
<1>13. BatchIs(pool', files, inserted, w.file, w.line + 1, b)
  BY <1>1, <1>2, <1>11, <1>12, BatchGrows
<1>14. BuilderIs(pool', files, inserted, next_file)
  BY <1>5, BuilderKept DEF IInv, InsertedInv
<1>15. b \in Seq(Insertion) /\ Len(b) = Len(w.batch) + 1
  BY <1>2
<1>. HIDE DEF b
<1>16. /\ BatchIs(pool', files, inserted', w.file, w.line + 1, v.batch)
       /\ BuilderIs(pool', files, inserted', next_file)
       /\ Len(v.batch) < BatchSize
       /\ \A k \in 1..Len(g) : g[k].file = w.file
  <2>1. CASE v.batch = b /\ g = <<>> /\ Len(w.batch) + 1 # BatchSize
    <3>1. inserted' = inserted
      BY <1>2, <1>4, <2>1, ConcatEmptySeq
    <3>2. Len(v.batch) < BatchSize
      <4>1. Len(w.batch) \in Nat
        BY <1>2
      <4>. QED
        BY <1>2, <1>15, <2>1, <4>1, CompilerAssumption
    <3>3. 1..Len(g) = {}
      BY <2>1
    <3>. QED
      BY <1>13, <1>14, <2>1, <3>1, <3>2, <3>3
  <2>2. CASE v.batch = <<>> /\ g = b
    <3>1. w.line + 1 \in Nat
      BY <1>6
    <3>2. /\ BatchIs(pool', files, inserted', w.file, w.line + 1, <<>>)
          /\ BuilderIs(pool', files, inserted', next_file)
      BY <1>2, <1>4, <1>5, <1>13, <1>14, <1>15, <2>2, <3>1, FlushIs
    <3>3. Len(v.batch) < BatchSize
      <4>1. Len(v.batch) = 0
        BY <2>2
      <4>. QED
        BY <4>1, CompilerAssumption
    <3>4. \A k \in 1..Len(g) : g[k].file = w.file
      BY <1>13, <2>2 DEF BatchIs
    <3>. QED
      BY <2>2, <3>2, <3>3, <3>4
  <2>. QED
    BY <1>4, <2>1, <2>2 DEF b
<1>17. /\ LineIs(pool', files[v.file], v)
       /\ BatchIs(pool', files, inserted', v.file, v.line, v.batch)
  BY <1>1, <1>4, <1>10, <1>16
<1>18. v.did <= Len(pool')
  BY <1>5, <1>7
<1>19. ParseInv'
  BY <1>1, <1>4, <1>16, <1>17, <1>18, ParseStep
<1>. QED
  BY <1>5, <1>16, <1>19 DEF InsertedInv

\* Every step of a worker keeps the counter, the builder and the batches.
LEMMA WorkerParse ==
  ASSUME IInv, NEW t \in Workers, WorkerStep(t)
  PROVE  CounterInv' /\ InsertedInv' /\ ParseInv'
<1>1. CallKept
  BY WorkerKeepsCall
<1>2. CASE TakeFile(t)
  BY <1>1, <1>2, CounterTakes, TakeParse
<1>3. CASE ReadFile(t)
  <2>1. Active(t) /\ next_file' = next_file
    BY <1>3 DEF ReadFile, Active
  <2>2. PICK v \in WorkerState :
          /\ Becomes(t, v) /\ v.file = worker[t].file /\ v.error = worker[t].error
          /\ v.pc = (IF files[worker[t].file].lines = <<>> THEN "record" ELSE "line")
    BY <1>3, ReadEffect DEF IInv
  <2>3. v.pc \in {"line", "record"}
    BY <2>2
  <2>. QED
    BY <1>1, <1>3, <2>1, <2>2, <2>3, CounterKept, ReadParse
<1>4. CASE ReadFails(t)
  <2>1. /\ Active(t) /\ next_file' = next_file /\ WorkerFails(t)
        /\ pool' = pool /\ inserted' = inserted
    BY <1>4 DEF ReadFails, Active, builder
  <2>2. PoolGrows
    BY <2>1 DEF PoolGrows, IInv, Types
  <2>. QED
    BY <1>1, <2>1, <2>2, CounterFails, FailParse
<1>5. CASE ParseLine(t)
  <2>1. /\ worker[t].pc = "line" /\ worker[t].line <= Len(files[worker[t].file].lines)
        /\ next_file' = next_file
        /\ SkipLine(t) \/ KeyLine(t) \/ NetworkLine(t) \/ BadLine(t)
    BY <1>5, ParseCases
  <2>2. Active(t)
    BY <2>1 DEF Active
  <2>3. Types /\ worker[t].file \in 1..Len(files) /\ worker[t].line # 0
    BY <2>2, InFile DEF IInv
  <2>4. CASE SkipLine(t) \/ KeyLine(t)
    <3>1. PICK v \in WorkerState : /\ Becomes(t, v) /\ v.file = worker[t].file
                                   /\ v.pc = "line" /\ v.error = worker[t].error
      <4>1. CASE SkipLine(t)
        <5>1. PICK v \in WorkerState : /\ v = After(worker[t]) /\ v.pc = worker[t].pc
                                       /\ v.file = worker[t].file
                                       /\ v.error = worker[t].error
          BY <2>1, <2>3, AfterIs
        <5>2. Becomes(t, v)
          BY <2>3, <4>1, <5>1, BecomesIs DEF SkipLine
        <5>. QED
          BY <2>1, <5>1, <5>2
      <4>2. CASE KeyLine(t)
        <5>1. PICK v \in WorkerState :
                /\ Becomes(t, v) /\ v.pc = worker[t].pc /\ v.file = worker[t].file
                /\ v.error = worker[t].error
          BY <2>1, <2>3, <4>2, KeyEffect DEF KeyLine
        <5>. QED
          BY <2>1, <5>1
      <4>. QED
        BY <2>4, <4>1, <4>2
    <3>2. CounterInv'
      BY <1>1, <2>1, <2>2, <3>1, CounterKept
    <3>. QED
      BY <1>1, <2>1, <2>2, <2>4, <3>2, SkipParse
  <2>5. CASE NetworkLine(t)
    <3>1. PICK v \in WorkerState : /\ Becomes(t, v) /\ v.file = worker[t].file
                                   /\ v.pc = "line" /\ v.error = worker[t].error
      <4>1. PICK v \in WorkerState, x \in Insertion, g \in Seq(Insertion) :
              Networked(t, v, x, g)
        BY <2>1, <2>3, <2>5, NetworkEffect
      <4>2. /\ Becomes(t, v) /\ v.file = worker[t].file
            /\ v.pc = worker[t].pc /\ v.error = worker[t].error
        BY <4>1 DEF Networked
      <4>. QED
        BY <2>1, <4>2
    <3>2. CounterInv'
      BY <1>1, <2>1, <2>2, <3>1, CounterKept
    <3>. QED
      BY <1>1, <2>1, <2>2, <2>5, <3>2, NetworkParse
  <2>6. CASE BadLine(t)
    <3>1. PoolGrows /\ WorkerFails(t) /\ inserted' = inserted
      BY <2>1, <2>2, <2>6, BadLineGrows DEF BadLine
    <3>. QED
      BY <1>1, <2>1, <2>2, <3>1, CounterFails, FailParse
  <2>. QED
    BY <2>1, <2>4, <2>5, <2>6
<1>6. CASE Flush(t)
  <2>1. Active(t) /\ next_file' = next_file
    BY <1>6 DEF Flush, Active
  <2>2. PICK v \in WorkerState : /\ Becomes(t, v) /\ v.file = worker[t].file
                                 /\ v.pc = "record" /\ v.error = worker[t].error
    BY <1>6, FlushEffect DEF IInv
  <2>. QED
    BY <1>1, <1>6, <2>1, <2>2, CounterKept, FlushParse
<1>7. CASE RecordFile(t)
  <2>1. Active(t) /\ next_file' = next_file
    BY <1>7 DEF RecordFile, Active
  <2>2. PICK v \in WorkerState : Becomes(t, v) /\ v.pc = "take" /\ v.error = worker[t].error
    BY <1>7, RecordEffect DEF IInv
  <2>. QED
    BY <1>1, <1>7, <2>1, <2>2, CounterKept, RecordParse
<1>. QED
  BY <1>2, <1>3, <1>4, <1>5, <1>6, <1>7 DEF WorkerStep
-----------------------------------------------------------------------------
(***************************************************************************)
(* The ledger.  Lines of disjoint sets of files add up.                    *)
(***************************************************************************)

\* The lines of one file and of all files can be counted.
LEMMA LinesCount ==
  ASSUME NEW f \in Seq(DirEntry), NEW S \in SUBSET (1..Len(f))
  PROVE  IsFiniteSet(LinesOf(f, S)) /\ Cardinality(LinesOf(f, S)) \in Nat
<1>. DEFINE All == 1..Len(f)
            F == [i \in All |-> {i} \X NetworkLines(f[i])]
            R == {F[i] : i \in All}
<1>1. IsFiniteSet(All)
  BY FS_Interval
<1>2. F \in Surjection(All, R)
  BY DEF Surjection
<1>3. IsFiniteSet(R)
  <2>. HIDE DEF F, R, All
  <2>. QED
    BY <1>1, <1>2, FS_Surjection
<1>4. ASSUME NEW T \in R PROVE IsFiniteSet(T)
  <2>1. PICK i \in All : T = {i} \X NetworkLines(f[i])
    OBVIOUS
  <2>2. f[i] \in DirEntry
    BY ElementOfSeq
  <2>3. IsFiniteSet({i}) /\ IsFiniteSet(NetworkLines(f[i]))
    BY <2>2, FS_Singleton, LinesFinite
  <2>. QED
    BY <2>1, <2>3, FS_Product
<1>5. IsFiniteSet(UNION R)
  <2>. HIDE DEF R
  <2>. QED
    BY <1>3, <1>4, FS_UNION
<1>6. LinesOf(f, S) \subseteq UNION R
  <2>. SUFFICES ASSUME NEW p \in LinesOf(f, S) PROVE p \in UNION R
    OBVIOUS
  <2>1. p \in S \X Nat /\ p[2] \in NetworkLines(f[p[1]])
    BY DEF LinesOf
  <2>2. p[1] \in All /\ p \in F[p[1]]
    BY <2>1
  <2>. QED
    BY <2>2
<1>. HIDE DEF R
<1>. QED
  BY <1>5, <1>6, FS_Subset, FS_CardinalityType

\* The lines of two disjoint sets of files.
LEMMA LinesAdd ==
  ASSUME NEW f \in Seq(DirEntry), NEW S \in SUBSET (1..Len(f)), NEW T \in SUBSET (1..Len(f)),
         S \cap T = {}
  PROVE  Cardinality(LinesOf(f, S \cup T)) =
           Cardinality(LinesOf(f, S)) + Cardinality(LinesOf(f, T))
<1>1. LinesOf(f, S \cup T) = LinesOf(f, S) \cup LinesOf(f, T)
  BY DEF LinesOf
<1>2. LinesOf(f, S) \cap LinesOf(f, T) = {}
  BY DEF LinesOf
<1>3. /\ IsFiniteSet(LinesOf(f, S)) /\ Cardinality(LinesOf(f, S)) \in Nat
      /\ IsFiniteSet(LinesOf(f, T)) /\ Cardinality(LinesOf(f, T)) \in Nat
  BY LinesCount
<1>4. PICK A, B : A = LinesOf(f, S) /\ B = LinesOf(f, T)
  OBVIOUS
<1>5. Cardinality(A \cup B) = Cardinality(A) + Cardinality(B) - Cardinality(A \cap B)
  <2>1. IsFiniteSet(A) /\ IsFiniteSet(B)
    BY <1>3, <1>4
  <2>. QED
    BY <2>1, FS_Union
<1>6. Cardinality(A \cap B) = 0
  BY <1>2, <1>4, FS_EmptySet
<1>7. Cardinality(A) \in Nat /\ Cardinality(B) \in Nat
  BY <1>3, <1>4
<1>8. Cardinality(A \cup B) = Cardinality(A) + Cardinality(B)
  BY <1>5, <1>6, <1>7
<1>. QED
  BY <1>1, <1>4, <1>8

\* The lines of one file.
LEMMA LinesOfOne ==
  ASSUME NEW f \in Seq(DirEntry), NEW i \in 1..Len(f)
  PROVE  Cardinality(LinesOf(f, {i})) = Cardinality(NetworkLines(f[i]))
<1>1. f[i] \in DirEntry
  BY ElementOfSeq
<1>2. PICK N : N = NetworkLines(f[i])
  OBVIOUS
<1>3. IsFiniteSet(N) /\ N \subseteq Nat
  <2>1. N \subseteq 1..Len(f[i].lines) /\ IsFiniteSet(N)
    BY <1>1, <1>2, LinesFinite
  <2>. QED
    BY <2>1
<1>4. IsFiniteSet({i}) /\ Cardinality({i}) = 1
  BY FS_Singleton
<1>5. LinesOf(f, {i}) = {i} \X N
  BY <1>2, <1>3 DEF LinesOf
<1>6. Cardinality({i} \X N) = Cardinality({i}) * Cardinality(N)
  BY <1>3, <1>4, FS_Product
<1>7. PICK c \in Nat : c = Cardinality(N)
  BY <1>3, FS_CardinalityType
<1>8. Cardinality({i} \X N) = 1 * c
  BY <1>4, <1>6, <1>7
<1>9. 1 * c = c
  OBVIOUS
<1>. QED
  BY <1>2, <1>5, <1>7, <1>8, <1>9

\* What was inserted stays inserted.
LEMMA InsertedStays ==
  ASSUME IInv, NEW g \in Seq(Insertion), inserted' = inserted \o g, NEW i, NEW n,
         IsInserted(inserted, i, n)
  PROVE  IsInserted(inserted', i, n)
<1>1. inserted \in Seq(Insertion)
  BY DEF IInv, Types
<1>. QED
  BY <1>1, ConcatIs DEF IsInserted

\* A worker that goes on in its file.
LEMMA LedgerGoesOn ==
  ASSUME IInv, NEW t \in Workers, NEW v, Becomes(t, v), CallKept, slots' = slots,
         next_file' = next_file, total_networks' = total_networks,
         NEW g \in Seq(Insertion), inserted' = inserted \o g,
         Active(t), v.pc \in {"line", "record"}, v.file = worker[t].file,
         v.parsed = worker[t].parsed, v.error = worker[t].error
  PROVE  Ledger'
<1>1. PICK own \in Owners : DoneFiles(own) /\ TakenFiles(own) /\ Sums(own)
  BY DEF IInv, Ledger
<1>2. /\ files' = files /\ worker'[t] = v /\ Owners' = Owners
      /\ \A u \in Workers \ {t} : worker'[u] = worker[u]
  BY DEF CallKept, Becomes, Owners
<1>3. Finished' = Finished
  BY <1>2 DEF Finished, Active
<1>4. \A u \in Workers : /\ Active(u)' => Active(u) /\ worker'[u].file = worker[u].file
                         /\ Active(u) => Active(u)' /\ worker'[u].file = worker[u].file
                         /\ worker'[u].parsed = worker[u].parsed
                         /\ worker[u].error => worker'[u].error
                         /\ worker[u].pc # "none" => worker'[u].pc # "none"
                         /\ worker'[u].pc # "done" => worker[u].pc # "done"
  BY <1>2 DEF Active
<1>5. DoneFiles(own)'
  <2>. SUFFICES ASSUME NEW i \in 1..Len(files), own[i] # 0
       PROVE  /\ i < next_file /\ worker'[own[i]].pc # "none"
              /\ \A u \in Workers : Active(u)' => worker'[u].file # i
              /\ ~Bad(files[i]) /\ slots[i] = StatOf(files[i])
              /\ \A n \in NetworkLines(files[i]) : IsInserted(inserted', i, n)
    BY <1>2 DEF DoneFiles
  <2>1. own[i] \in Workers
    BY CompilerAssumption DEF Owners, Workers
  <2>. QED
    <3>1. /\ i < next_file /\ worker[own[i]].pc # "none"
          /\ \A u \in Workers : Active(u) => worker[u].file # i
          /\ ~Bad(files[i]) /\ slots[i] = StatOf(files[i])
          /\ \A n \in NetworkLines(files[i]) : IsInserted(inserted, i, n)
      BY <1>1 DEF DoneFiles
    <3>2. \A n \in NetworkLines(files[i]) : IsInserted(inserted', i, n)
      BY <3>1, InsertedStays
    <3>. QED
      BY <1>4, <2>1, <3>1, <3>2
<1>6. TakenFiles(own)'
  <2>. SUFFICES ASSUME NEW i \in 1..Len(files), i < next_file
       PROVE  \/ own[i] # 0
              \/ \E u \in Workers : Active(u)' /\ worker'[u].file = i
              \/ \E u \in Workers : worker'[u].error
    BY <1>2 DEF TakenFiles
  <2>1. \/ own[i] # 0
        \/ \E u \in Workers : Active(u) /\ worker[u].file = i
        \/ \E u \in Workers : worker[u].error
    BY <1>1 DEF TakenFiles
  <2>. QED
    BY <1>4, <2>1
<1>7. Sums(own)'
  BY <1>1, <1>2, <1>3, <1>4 DEF Sums
<1>. QED
  BY <1>1, <1>2, <1>5, <1>6, <1>7 DEF Ledger

\* The files of a worker that stops are added to the total.
LEMMA SumsStop ==
  ASSUME IInv, NEW t \in Workers, NEW v, Becomes(t, v), files' = files,
         worker[t].pc \notin {"none", "done"}, v.pc = "done",
         total_networks' = total_networks + worker[t].parsed,
         NEW own \in Owners, Sums(own)
  PROVE  Sums(own)'
<1>1. /\ worker'[t] = v /\ \A u \in Workers \ {t} : worker'[u] = worker[u]
  BY DEF Becomes
<1>2. Finished' = Finished \cup {t} /\ t \notin Finished
  BY FinishedGrows DEF Finished
<1>3. PICK S, T : S = OwnedBy(own, Finished) /\ T = OwnedBy(own, {t})
  OBVIOUS
<1>4. OwnedBy(own, Finished') = S \cup T /\ S \cap T = {}
  BY <1>2, <1>3 DEF OwnedBy
<1>5. files \in Seq(DirEntry) /\ S \in SUBSET (1..Len(files)) /\ T \in SUBSET (1..Len(files))
  BY <1>3 DEF IInv, Types, OwnedBy, Owners
<1>6. Cardinality(LinesOf(files, S \cup T)) =
        Cardinality(LinesOf(files, S)) + Cardinality(LinesOf(files, T))
  BY <1>4, <1>5, LinesAdd
<1>7. /\ total_networks = Cardinality(LinesOf(files, S))
      /\ worker[t].parsed = Cardinality(LinesOf(files, T))
  BY <1>3 DEF Sums
<1>8. total_networks' = Cardinality(LinesOf(files', OwnedBy(own, Finished')))
  BY <1>4, <1>6, <1>7
<1>9. \A u \in Workers : worker'[u].pc # "done" =>
        worker'[u].parsed = Cardinality(LinesOf(files', OwnedBy(own, {u})))
  BY <1>1 DEF Sums
<1>. QED
  BY <1>8, <1>9 DEF Sums

\* A worker that fails.
LEMMA LedgerFails ==
  ASSUME IInv, NEW t \in Workers, Active(t), WorkerFails(t), CallKept, slots' = slots,
         next_file' = next_file, inserted' = inserted
  PROVE  Ledger'
<1>1. PICK own \in Owners : DoneFiles(own) /\ TakenFiles(own) /\ Sums(own)
  BY DEF IInv, Ledger
<1>2. PICK v \in WorkerState : /\ Becomes(t, v) /\ v.pc = "done" /\ v.error
                               /\ total_networks' = total_networks + worker[t].parsed
  BY FailEffect DEF IInv
<1>3. /\ files' = files /\ worker'[t] = v /\ Owners' = Owners
      /\ \A u \in Workers \ {t} : worker'[u] = worker[u]
  BY <1>2 DEF CallKept, Becomes, Owners
<1>4. \A u \in Workers : /\ Active(u)' => Active(u) /\ worker'[u].file = worker[u].file
                         /\ worker[u].pc # "none" => worker'[u].pc # "none"
  BY <1>2, <1>3 DEF Active
<1>5. DoneFiles(own)'
  <2>. SUFFICES ASSUME NEW i \in 1..Len(files), own[i] # 0
       PROVE  /\ i < next_file /\ worker'[own[i]].pc # "none"
              /\ \A u \in Workers : Active(u)' => worker'[u].file # i
              /\ ~Bad(files[i]) /\ slots[i] = StatOf(files[i])
              /\ \A n \in NetworkLines(files[i]) : IsInserted(inserted, i, n)
    BY <1>3 DEF DoneFiles
  <2>1. own[i] \in Workers
    BY CompilerAssumption DEF Owners, Workers
  <2>. QED
    BY <1>1, <1>4, <2>1 DEF DoneFiles
<1>6. TakenFiles(own)'
  <2>1. worker'[t].error
    BY <1>2, <1>3
  <2>. QED
    BY <2>1 DEF TakenFiles
<1>7. Sums(own)'
  BY <1>1, <1>2, <1>3, SumsStop DEF Active
<1>. QED
  BY <1>1, <1>3, <1>5, <1>6, <1>7 DEF Ledger

\* A worker that takes the next file, or finds none.
LEMMA LedgerTakes ==
  ASSUME IInv, NEW t \in Workers, TakeFile(t), CallKept
  PROVE  Ledger'
<1>1. PICK own \in Owners : DoneFiles(own) /\ TakenFiles(own) /\ Sums(own)
  BY DEF IInv, Ledger
<1>2. /\ next_file' = next_file + 1 /\ worker[t].pc = "take" /\ slots' = slots
      /\ inserted' = inserted
  BY DEF TakeFile, builder
<1>3. PICK v \in WorkerState :
        /\ Becomes(t, v) /\ v.parsed = worker[t].parsed
        /\ \/ /\ next_file <= Len(files) /\ total_networks' = total_networks
              /\ v.pc = "read" /\ v.file = next_file
           \/ /\ next_file > Len(files)
              /\ total_networks' = total_networks + worker[t].parsed
              /\ v.pc = "done"
  BY TakeEffect DEF IInv
<1>4. /\ files' = files /\ worker'[t] = v /\ Owners' = Owners
      /\ \A u \in Workers \ {t} : worker'[u] = worker[u]
  BY <1>3 DEF CallKept, Becomes, Owners
<1>5. next_file \in Nat \ {0} /\ Len(files) \in Nat
  BY DEF IInv, Types
<1>6. ~worker[t].error
  BY <1>2 DEF IInv, CounterInv
<1>7. \A u \in Workers : /\ Active(u) => worker'[u] = worker[u]
                         /\ worker[u].pc # "none" => worker'[u].pc # "none"
                         /\ worker[u].error => worker'[u] = worker[u]
  BY <1>2, <1>3, <1>4, <1>6 DEF Active
<1>8. DoneFiles(own)'
  <2>. SUFFICES ASSUME NEW i \in 1..Len(files), own[i] # 0
       PROVE  /\ i < next_file + 1 /\ worker'[own[i]].pc # "none"
              /\ \A u \in Workers : Active(u)' => worker'[u].file # i
              /\ ~Bad(files[i]) /\ slots[i] = StatOf(files[i])
              /\ \A n \in NetworkLines(files[i]) : IsInserted(inserted, i, n)
    BY <1>2, <1>4 DEF DoneFiles
  <2>1. own[i] \in Workers
    BY CompilerAssumption DEF Owners, Workers
  <2>2. i < next_file
    BY <1>1 DEF DoneFiles
  <2>3. i < next_file + 1 /\ i # next_file
    BY <1>5, <2>2
  <2>4. \A u \in Workers : Active(u)' => worker'[u].file # i
    <3>. SUFFICES ASSUME NEW u \in Workers, Active(u)' PROVE worker'[u].file # i
      OBVIOUS
    <3>1. CASE u = t
      BY <1>3, <1>4, <2>3, <3>1 DEF Active
    <3>2. CASE u # t
      BY <1>1, <1>4, <3>2 DEF DoneFiles, Active
    <3>. QED
      BY <3>1, <3>2
  <2>. QED
    BY <1>1, <1>7, <2>1, <2>3, <2>4 DEF DoneFiles
<1>9. TakenFiles(own)'
  <2>. SUFFICES ASSUME NEW i \in 1..Len(files), i < next_file + 1
       PROVE  \/ own[i] # 0
              \/ \E u \in Workers : Active(u)' /\ worker'[u].file = i
              \/ \E u \in Workers : worker'[u].error
    BY <1>2, <1>4 DEF TakenFiles
  <2>1. CASE i = next_file
    <3>1. v.pc = "read" /\ v.file = next_file
      BY <1>3, <1>5, <2>1
    <3>. QED
      BY <1>4, <2>1, <3>1 DEF Active
  <2>2. CASE i # next_file
    <3>1. i < next_file
      BY <1>5, <2>2
    <3>2. \/ own[i] # 0
          \/ \E u \in Workers : Active(u) /\ worker[u].file = i
          \/ \E u \in Workers : worker[u].error
      BY <1>1, <3>1 DEF TakenFiles
    <3>. QED
      BY <1>7, <3>2 DEF Active
  <2>. QED
    BY <2>1, <2>2
<1>10. Sums(own)'
  <2>1. CASE v.pc = "done"
    <3>1. total_networks' = total_networks + worker[t].parsed
      BY <1>3, <2>1
    <3>. QED
      BY <1>1, <1>2, <1>3, <1>4, <2>1, <3>1, SumsStop
  <2>2. CASE v.pc = "read"
    <3>1. total_networks' = total_networks
      BY <1>3, <2>2
    <3>2. Finished' = Finished
      BY <1>2, <1>4, <2>2 DEF Finished
    <3>3. \A u \in Workers : /\ worker'[u].parsed = worker[u].parsed
                             /\ worker'[u].pc # "done" <=> worker[u].pc # "done"
      BY <1>2, <1>3, <1>4, <2>2
    <3>. QED
      BY <1>1, <1>4, <3>1, <3>2, <3>3 DEF Sums
  <2>. QED
    BY <1>3, <2>1, <2>2
<1>. QED
  BY <1>1, <1>4, <1>8, <1>9, <1>10 DEF Ledger

\* What is known of a file when its worker records it.
LEMMA RecordedFile ==
  ASSUME IInv, NEW t \in Workers, RecordFile(t)
  PROVE  LET w == worker[t]
             e == files[w.file]
         IN  /\ w.file \in 1..Len(files) /\ w.file < next_file /\ e \in DirEntry
             /\ ~Bad(e) /\ w.total = Cardinality(NetworkLines(e))
             /\ slots' = [slots EXCEPT ![w.file] = StatOf(e)]
             /\ \A n \in NetworkLines(e) : IsInserted(inserted, w.file, n)
<1>1. PICK w, e : w = worker[t] /\ e = files[w.file]
  OBVIOUS
<1>2. Active(t) /\ w.pc = "record"
  BY <1>1 DEF RecordFile, Active
<1>3. /\ w.file \in 1..Len(files) /\ w.file < next_file /\ e \in DirEntry
      /\ LineIs(pool, e, w) /\ BatchIs(pool, files, inserted, w.file, w.line, w.batch)
  BY <1>1, <1>2, InFile DEF LineInv, BatchInv
<1>4. w.line = Len(e.lines) + 1 /\ w.batch = <<>>
  BY <1>2, <1>3 DEF LineIs
<1>5. Len(e.lines) \in Nat /\ DOMAIN e.lines = 1..Len(e.lines)
  BY <1>3 DEF DirEntry
<1>6. Below(e, w.line) = NetworkLines(e)
  <2>1. NetworkLines(e) \subseteq 1..Len(e.lines)
    BY <1>3, LinesFinite
  <2>2. \A n \in 1..Len(e.lines) : n < Len(e.lines) + 1
    BY <1>5
  <2>. QED
    BY <1>4, <2>1, <2>2 DEF Below
<1>7. w.total = Cardinality(NetworkLines(e)) /\ w.metadata = MetadataAt(e, Len(e.lines) + 1)
  BY <1>3, <1>4, <1>6 DEF LineIs
<1>8. ~Bad(e)
  <2>1. w.line - 1 = Len(e.lines)
    BY <1>4, <1>5
  <2>. QED
    BY <1>3, <1>5, <2>1 DEF LineIs, Bad
<1>9. \A n \in NetworkLines(e) : IsInserted(inserted, w.file, n)
  <2>1. 1..Len(w.batch) = {}
    BY <1>4
  <2>. QED
    BY <1>1, <1>3, <1>6, <2>1 DEF BatchIs, IsInserted
<1>10. [file |-> e.name, category |-> w.metadata[Category], networks |-> w.total] = StatOf(e)
  BY <1>7 DEF StatOf
<1>11. slots' = [slots EXCEPT ![w.file] = StatOf(e)]
  BY <1>1, <1>10 DEF RecordFile, SlotOf
<1>. QED
  BY <1>1, <1>3, <1>7, <1>8, <1>9, <1>11

\* A worker that ends a file owns it.
LEMMA LedgerRecords ==
  ASSUME IInv, NEW t \in Workers, RecordFile(t), CallKept
  PROVE  Ledger'
<1>1. PICK own \in Owners : DoneFiles(own) /\ TakenFiles(own) /\ Sums(own)
  BY DEF IInv, Ledger
<1>2. PICK w, e, f : w = worker[t] /\ f = w.file /\ e = files[f]
  OBVIOUS
<1>3. /\ f \in 1..Len(files) /\ f < next_file /\ e \in DirEntry
      /\ ~Bad(e) /\ w.total = Cardinality(NetworkLines(e))
      /\ slots' = [slots EXCEPT ![f] = StatOf(e)]
      /\ \A n \in NetworkLines(e) : IsInserted(inserted, f, n)
  BY <1>2, RecordedFile
<1>4. /\ next_file' = next_file /\ inserted' = inserted /\ w.pc = "record"
      /\ total_networks' = total_networks /\ Active(t)
  BY <1>2 DEF RecordFile, builder, Active
<1>5. PICK v \in WorkerState : /\ Becomes(t, v) /\ v.pc = "take" /\ v.error = w.error
                               /\ v.parsed = w.parsed + w.total
  BY <1>2, RecordEffect DEF IInv
<1>6. /\ files' = files /\ worker'[t] = v /\ Owners' = Owners
      /\ \A u \in Workers \ {t} : worker'[u] = worker[u]
  BY <1>5 DEF CallKept, Becomes, Owners
<1>7. own[f] = 0
  BY <1>1, <1>2, <1>3, <1>4 DEF DoneFiles
<1>8. t # 0 /\ t \in 0..Cores /\ 0 \notin Workers
  BY CompilerAssumption DEF Workers
<1>9. PICK new : new = [own EXCEPT ![f] = t]
  OBVIOUS
<1>10. /\ new \in Owners /\ new[f] = t
       /\ \A i \in (1..Len(files)) \ {f} : new[i] = own[i]
       /\ DOMAIN own = 1..Len(files) /\ DOMAIN new = 1..Len(files)
  BY <1>3, <1>8, <1>9 DEF Owners
<1>11. \A u \in Workers : /\ Active(u)' => u # t /\ Active(u) /\ worker'[u] = worker[u]
                          /\ worker[u].pc # "none" => worker'[u].pc # "none"
                          /\ worker[u].error => worker'[u].error
                          /\ (Active(u) /\ u # t) => Active(u)' /\ worker'[u] = worker[u]
  BY <1>2, <1>5, <1>6 DEF Active
<1>12. DoneFiles(new)'
  <2>. SUFFICES ASSUME NEW i \in 1..Len(files), new[i] # 0
       PROVE  /\ i < next_file /\ worker'[new[i]].pc # "none"
              /\ \A u \in Workers : Active(u)' => worker'[u].file # i
              /\ ~Bad(files[i]) /\ slots'[i] = StatOf(files[i])
              /\ \A n \in NetworkLines(files[i]) : IsInserted(inserted, i, n)
    BY <1>4, <1>6 DEF DoneFiles
  <2>0. slots \in [1..Len(files) -> Slot]
    BY DEF IInv, Types
  <2>1. CASE i = f
    <3>1. \A u \in Workers : Active(u)' => worker'[u].file # f
      BY <1>2, <1>4, <1>11 DEF IInv, CounterInv
    <3>2. slots'[f] = StatOf(e)
      BY <1>3, <2>0
    <3>3. worker'[new[i]].pc # "none"
      BY <1>5, <1>6, <1>10, <2>1
    <3>. QED
      BY <1>2, <1>3, <2>1, <3>1, <3>2, <3>3
  <2>2. CASE i # f
    <3>1. new[i] = own[i] /\ own[i] \in Workers
      BY <1>10, <2>2, CompilerAssumption DEF Owners, Workers
    <3>2. /\ i < next_file /\ worker[own[i]].pc # "none"
          /\ \A u \in Workers : Active(u) => worker[u].file # i
          /\ ~Bad(files[i]) /\ slots[i] = StatOf(files[i])
          /\ \A n \in NetworkLines(files[i]) : IsInserted(inserted, i, n)
      BY <1>1, <3>1 DEF DoneFiles
    <3>3. slots'[i] = slots[i]
      BY <1>3, <2>0, <2>2
    <3>. QED
      BY <1>11, <3>1, <3>2, <3>3
  <2>. QED
    BY <2>1, <2>2
<1>13. TakenFiles(new)'
  <2>. SUFFICES ASSUME NEW i \in 1..Len(files), i < next_file
       PROVE  \/ new[i] # 0
              \/ \E u \in Workers : Active(u)' /\ worker'[u].file = i
              \/ \E u \in Workers : worker'[u].error
    BY <1>4, <1>6 DEF TakenFiles
  <2>1. CASE i = f
    BY <1>8, <1>10, <2>1
  <2>2. CASE i # f
    <3>1. \/ own[i] # 0
          \/ \E u \in Workers : Active(u) /\ worker[u].file = i
          \/ \E u \in Workers : worker[u].error
      BY <1>1 DEF TakenFiles
    <3>. QED
      BY <1>2, <1>10, <1>11, <2>2, <3>1
  <2>. QED
    BY <2>1, <2>2
<1>14. Sums(new)'
  <2>1. Finished' = Finished /\ t \notin Finished
    BY <1>2, <1>4, <1>5, <1>6 DEF Finished
  <2>2. \A T : t \notin T /\ 0 \notin T => OwnedBy(new, T) = OwnedBy(own, T)
    BY <1>7, <1>10 DEF OwnedBy
  <2>3. OwnedBy(new, {t}) = OwnedBy(own, {t}) \cup {f} /\ f \notin OwnedBy(own, {t})
    BY <1>3, <1>7, <1>8, <1>10 DEF OwnedBy
  <2>4. PICK S : S = OwnedBy(own, {t})
    OBVIOUS
  <2>5. /\ files \in Seq(DirEntry) /\ S \in SUBSET (1..Len(files))
        /\ {f} \in SUBSET (1..Len(files)) /\ S \cap {f} = {}
    BY <1>3, <1>10, <2>3, <2>4 DEF IInv, Types, OwnedBy
  <2>6. Cardinality(LinesOf(files, S \cup {f})) =
          Cardinality(LinesOf(files, S)) + Cardinality(LinesOf(files, {f}))
    BY <2>5, LinesAdd
  <2>7. Cardinality(LinesOf(files, {f})) = w.total
    BY <1>2, <1>3, <2>5, LinesOfOne
  <2>8. w.parsed = Cardinality(LinesOf(files, S))
    BY <1>1, <1>2, <1>4, <2>4 DEF Sums
  <2>9. worker'[t].parsed = Cardinality(LinesOf(files, OwnedBy(new, {t})))
    BY <1>5, <1>6, <2>3, <2>4, <2>6, <2>7, <2>8
  <2>10. \A u \in Workers \ {t} : OwnedBy(new, {u}) = OwnedBy(own, {u})
    BY <1>8, <2>2
  <2>11. OwnedBy(new, Finished) = OwnedBy(own, Finished)
    BY <1>8, <2>1, <2>2 DEF Finished
  <2>12. \A u \in Workers : worker'[u].pc # "done" =>
           worker'[u].parsed = Cardinality(LinesOf(files, OwnedBy(new, {u})))
    BY <1>1, <1>6, <2>9, <2>10 DEF Sums
  <2>13. total_networks' = Cardinality(LinesOf(files, OwnedBy(new, Finished)))
    BY <1>1, <1>4, <2>11 DEF Sums
  <2>. QED
    BY <1>6, <2>1, <2>12, <2>13 DEF Sums
<1>. QED
  BY <1>6, <1>10, <1>12, <1>13, <1>14 DEF Ledger

\* Every step of a worker keeps the ledger.
LEMMA WorkerLedger ==
  ASSUME IInv, NEW t \in Workers, WorkerStep(t)
  PROVE  Ledger'
<1>1. CallKept
  BY WorkerKeepsCall
<1>2. PICK g \in Seq(Insertion) : inserted' = inserted \o g
  BY BuilderGrows
<1>3. CASE TakeFile(t)
  BY <1>1, <1>3, LedgerTakes
<1>4. CASE ReadFile(t)
  <2>1. /\ Active(t) /\ next_file' = next_file /\ slots' = slots
        /\ total_networks' = total_networks
    BY <1>4 DEF ReadFile, Active
  <2>2. PICK v \in WorkerState :
          /\ Becomes(t, v) /\ v.file = worker[t].file /\ v.error = worker[t].error
          /\ v.pc = (IF files[worker[t].file].lines = <<>> THEN "record" ELSE "line")
          /\ v.parsed = worker[t].parsed
    BY <1>4, ReadEffect DEF IInv
  <2>3. v.pc \in {"line", "record"}
    BY <2>2
  <2>. QED
    BY <1>1, <1>2, <2>1, <2>2, <2>3, LedgerGoesOn
<1>5. CASE ReadFails(t)
  <2>1. /\ Active(t) /\ next_file' = next_file /\ WorkerFails(t)
        /\ slots' = slots /\ inserted' = inserted
    BY <1>5 DEF ReadFails, Active, builder
  <2>. QED
    BY <1>1, <2>1, LedgerFails
<1>6. CASE ParseLine(t)
  <2>1. /\ worker[t].pc = "line" /\ worker[t].line <= Len(files[worker[t].file].lines)
        /\ next_file' = next_file /\ slots' = slots
        /\ SkipLine(t) \/ KeyLine(t) \/ NetworkLine(t) \/ BadLine(t)
    BY <1>6, ParseCases
  <2>2. Active(t)
    BY <2>1 DEF Active
  <2>3. Types /\ worker[t].file \in 1..Len(files) /\ worker[t].line # 0
    BY <2>2, InFile DEF IInv
  <2>4. CASE SkipLine(t)
    <3>1. PICK v \in WorkerState :
            /\ v = After(worker[t]) /\ v.pc = worker[t].pc /\ v.file = worker[t].file
            /\ v.error = worker[t].error /\ v.parsed = worker[t].parsed
      BY <2>1, <2>3, AfterIs
    <3>2. Becomes(t, v) /\ total_networks' = total_networks
      BY <2>3, <2>4, <3>1, BecomesIs DEF SkipLine
    <3>. QED
      BY <1>1, <1>2, <2>1, <2>2, <3>1, <3>2, LedgerGoesOn
  <2>5. CASE KeyLine(t)
    <3>1. PICK v \in WorkerState :
            /\ Becomes(t, v) /\ v.pc = worker[t].pc /\ v.file = worker[t].file
            /\ v.error = worker[t].error /\ v.parsed = worker[t].parsed
      BY <2>1, <2>3, <2>5, KeyEffect DEF KeyLine
    <3>2. total_networks' = total_networks
      BY <2>5 DEF KeyLine
    <3>. QED
      BY <1>1, <1>2, <2>1, <2>2, <3>1, <3>2, LedgerGoesOn
  <2>6. CASE NetworkLine(t)
    <3>1. PICK v \in WorkerState, x \in Insertion, h \in Seq(Insertion) :
            Networked(t, v, x, h)
      BY <2>1, <2>3, <2>6, NetworkEffect
    <3>2. /\ Becomes(t, v) /\ v.pc = worker[t].pc /\ v.file = worker[t].file
          /\ v.error = worker[t].error /\ v.parsed = worker[t].parsed
      BY <3>1 DEF Networked
    <3>3. total_networks' = total_networks
      BY <2>6 DEF NetworkLine
    <3>. QED
      BY <1>1, <1>2, <2>1, <2>2, <3>2, <3>3, LedgerGoesOn
  <2>7. CASE BadLine(t)
    BY <1>1, <2>1, <2>2, <2>7, LedgerFails DEF BadLine
  <2>. QED
    BY <2>1, <2>4, <2>5, <2>6, <2>7
<1>7. CASE Flush(t)
  <2>1. /\ Active(t) /\ next_file' = next_file /\ slots' = slots
        /\ total_networks' = total_networks
    BY <1>7 DEF Flush, Active
  <2>2. PICK v \in WorkerState :
          /\ Becomes(t, v) /\ v.file = worker[t].file /\ v.pc = "record"
          /\ v.error = worker[t].error /\ v.parsed = worker[t].parsed
    BY <1>7, FlushEffect DEF IInv
  <2>. QED
    BY <1>1, <1>2, <2>1, <2>2, LedgerGoesOn
<1>8. CASE RecordFile(t)
  BY <1>1, <1>8, LedgerRecords
<1>. QED
  BY <1>3, <1>4, <1>5, <1>6, <1>7, <1>8 DEF WorkerStep
-----------------------------------------------------------------------------
(***************************************************************************)
(* The caller.                                                             *)
(***************************************************************************)

\* The workers and the builder at the beginning of a call.
Begins ==
  /\ created = 0 /\ next_file = 1 /\ worker = [t \in Workers |-> Fresh]
  /\ pool = <<>> /\ inserted = <<>> /\ total_networks = 0

\* They satisfy the invariant: nothing has been taken, read or counted.
LEMMA BeginsWell ==
  Begins /\ files \in Seq(DirEntry) => CounterInv /\ InsertedInv /\ ParseInv /\ Ledger
<1>. SUFFICES ASSUME Begins, files \in Seq(DirEntry)
     PROVE  CounterInv /\ InsertedInv /\ ParseInv /\ Ledger
  OBVIOUS
<1>1. Len(pool) = 0 /\ Len(inserted) = 0 /\ 1..Len(inserted) = {} /\ Len(files) \in Nat
  BY DEF Begins
<1>2. \A t \in Workers : /\ worker[t].pc = "none" /\ worker[t].did = 0
                         /\ worker[t].batch = <<>> /\ worker[t].parsed = 0
  BY DEF Begins, Fresh
<1>3. \A t \in Workers : ~worker[t].error
  BY Zenon DEF Begins, Fresh
<1>4. \A t \in Workers : ~Active(t) /\ Len(worker[t].batch) = 0 /\ t > created
  BY <1>2 DEF Active, Begins, Workers
<1>5. Finished = {}
  BY <1>2 DEF Finished
<1>6. CounterInv
  <2>1. next_file <= Len(files) + 1 + Cardinality(Finished)
    BY <1>1, <1>5, FS_EmptySet DEF Begins
  <2>. QED
    BY <1>2, <1>3, <1>4, <2>1 DEF CounterInv
<1>7. InsertedInv
  BY <1>1 DEF InsertedInv, BuilderIs
<1>8. ParseInv
  BY <1>1, <1>2, <1>4, CompilerAssumption DEF ParseInv
<1>9. Ledger
  <2>1. PICK own : own = [i \in 1..Len(files) |-> 0]
    OBVIOUS
  <2>2. own \in Owners /\ \A i \in 1..Len(files) : own[i] = 0
    BY <2>1, CompilerAssumption DEF Owners
  <2>3. \A T : T \subseteq Workers => OwnedBy(own, T) = {}
    BY <2>1 DEF OwnedBy, Workers
  <2>4. LinesOf(files, {}) = {}
    BY DEF LinesOf
  <2>5. Sums(own)
    BY <1>2, <1>5, <2>3, <2>4, FS_EmptySet DEF Sums, Begins
  <2>6. TakenFiles(own)
    BY DEF TakenFiles, Begins
  <2>7. DoneFiles(own)
    BY <2>2 DEF DoneFiles
  <2>. QED
    BY <2>2, <2>5, <2>6, <2>7 DEF Ledger
<1>. QED
  BY <1>6, <1>7, <1>8, <1>9

\* list_blocklists: all blocklists of the directory, each once.
LEMMA ListIs ==
  ASSUME NEW entries \in Checkouts, NEW list \in list_blocklists(entries)
  PROVE  /\ list \in Seq(DirEntry)
         /\ \A i \in 1..Len(list) : list[i] \in Blocklists(entries)
         /\ \A e \in Blocklists(entries) : \E i \in 1..Len(list) : list[i] = e
         /\ \A i, j \in 1..Len(list) : list[i] = list[j] => i = j
<1>1. PICK B, n : B = Blocklists(entries) /\ n = Cardinality(B)
  OBVIOUS
<1>2. B \subseteq entries /\ IsFiniteSet(entries) /\ entries \subseteq DirEntry
  BY <1>1, CompilerAssumption DEF Blocklists
<1>3. n \in Nat
  BY <1>1, <1>2, FS_Subset, FS_CardinalityType
<1>4. /\ list \in [1..n -> B]
      /\ \A e \in B : \E i \in DOMAIN list : list[i] = e
      /\ \A i, j \in DOMAIN list :
           i < j => \/ list[i].size > list[j].size
                    \/ list[i].size = list[j].size /\ list[i].order < list[j].order
  BY <1>1 DEF list_blocklists
<1>5. list \in Seq(DirEntry) /\ Len(list) = n /\ DOMAIN list = 1..n
  BY <1>2, <1>3, <1>4
<1>6. \A i \in 1..n : list[i] \in B /\ list[i].size \in Nat /\ list[i].order \in Nat
  BY <1>2, <1>4 DEF DirEntry
<1>7. \A i, j \in 1..n : list[i] = list[j] => i = j
  <2>. SUFFICES ASSUME NEW i \in 1..n, NEW j \in 1..n, list[i] = list[j], i # j PROVE FALSE
    OBVIOUS
  <2>1. i < j \/ j < i
    BY <1>3
  <2>2. ~(list[i].size > list[j].size) /\ ~(list[i].order < list[j].order)
    BY <1>6
  <2>3. ~(list[j].size > list[i].size) /\ ~(list[j].order < list[i].order)
    BY <1>6
  <2>. QED
    BY <1>4, <1>5, <2>1, <2>2, <2>3
<1>. QED
  BY <1>1, <1>4, <1>5, <1>6, <1>7

\* An empty slot has the type of a slot.
LEMMA NoStatType == NoStat \in Slot
BY DEF NoStat, Slot, Text

\* The initial states.
LEMMA InitInv == ASSUME Init PROVE IInv
<1>1. files = <<>> /\ files \in Seq(DirEntry) /\ Len(files) = 0 /\ 1..Len(files) = {}
  BY EmptySeq DEF Init
<1>2. pool \in Seq(Record) /\ inserted \in Seq(Insertion)
  BY EmptySeq DEF Init
<1>3. slots \in [1..Len(files) -> Slot]
  <2>1. slots = <<>>
    BY DEF Init
  <2>2. <<>> \in Seq(Slot) /\ Len(<<>>) = 0
    BY EmptySeq
  <2>3. slots \in [1..Len(slots) -> Slot] /\ Len(slots) = 0
    BY <2>1, <2>2
  <2>. QED
    BY <1>1, <2>3
<1>4. worker \in [Workers -> WorkerState]
  BY FreshType DEF Init
<1>5. Types
  BY <1>1, <1>2, <1>3, <1>4 DEF Types, Init
<1>6. FilesInv
  BY <1>1 DEF FilesInv, Init, Blocklists
<1>7. CallInv
  BY <1>1, CompilerAssumption DEF CallInv, Init, num_threads
<1>8. Begins
  BY DEF Begins, Init
<1>. QED
  BY <1>1, <1>5, <1>6, <1>7, <1>8, BeginsWell DEF IInv

\* A call begins.
LEMMA StartInv ==
  ASSUME IInv, NEW entries \in Checkouts, Start(entries)
  PROVE  IInv'
<1>1. PICK list \in list_blocklists(entries) :
        files' = list /\ slots' = [i \in 1..Len(list) |-> NoStat]
  BY DEF Start
<1>2. /\ phase = "idle" /\ phase' = "spawn" /\ checkout' = entries
      /\ created' = 0 /\ next_file' = 1 /\ worker' = [t \in Workers |-> Fresh]
      /\ pool' = <<>> /\ inserted' = <<>> /\ total_networks' = 0
      /\ runs' = runs + 1 /\ in_progress' = 1
      /\ temporary' = temporary /\ failures' = failures /\ renames' = renames
  BY DEF Start
<1>3. /\ files' \in Seq(DirEntry)
      /\ \A i \in 1..Len(files') : files'[i] \in Blocklists(checkout')
      /\ \A e \in Blocklists(checkout') : \E i \in 1..Len(files') : files'[i] = e
      /\ \A i, j \in 1..Len(files') : files'[i] = files'[j] => i = j
  BY <1>1, <1>2, ListIs
<1>4. pool' \in Seq(Record) /\ inserted' \in Seq(Insertion)
  BY <1>2, EmptySeq
<1>5. slots' \in [1..Len(files') -> Slot]
  BY <1>1, NoStatType
<1>6. worker' \in [Workers -> WorkerState]
  BY <1>2, FreshType
<1>7. Types'
  <2>1. runs \in Nat /\ failures \in Nat /\ renames \in Nat
    BY DEF IInv, Types
  <2>. QED
    BY <1>2, <1>3, <1>4, <1>5, <1>6, <2>1 DEF Types
<1>8. FilesInv'
  BY <1>3 DEF FilesInv
<1>9. CallInv'
  <2>1. /\ runs = failures + renames + 0 /\ temporary = 0
        /\ runs \in Nat /\ failures \in Nat /\ renames \in Nat
    BY <1>2 DEF IInv, CallInv, Types
  <2>2. created' <= num_threads'
    <3>1. Len(files') \in Nat
      BY <1>3
    <3>. QED
      BY <1>2, <3>1, CompilerAssumption DEF num_threads
  <2>3. runs' = failures' + renames' + 1
    BY <1>2, <2>1
  <2>. QED
    BY <1>2, <2>1, <2>2, <2>3 DEF CallInv
<1>10. Begins'
  BY <1>2 DEF Begins
<1>11. (Begins /\ files \in Seq(DirEntry) => CounterInv /\ InsertedInv /\ ParseInv /\ Ledger)'
  BY BeginsWell, PTL
<1>. QED
  BY <1>3, <1>7, <1>8, <1>9, <1>10, <1>11 DEF IInv

\* Every step of a worker keeps the invariant.
LEMMA WorkerInv ==
  ASSUME IInv, NEW t \in Workers, WorkerStep(t)
  PROVE  IInv'
<1>1. CallKept
  BY WorkerKeepsCall
<1>2. FilesInv'
  BY <1>1 DEF CallKept, IInv, FilesInv
<1>. QED
  BY <1>2, WorkerTypes, WorkerCall, WorkerParse, WorkerLedger DEF IInv

\* What the caller leaves alone once the workers exist.
WorkKept ==
  /\ checkout' = checkout /\ files' = files /\ created' = created /\ next_file' = next_file
  /\ worker' = worker /\ pool' = pool /\ inserted' = inserted
  /\ total_networks' = total_networks /\ slots' = slots

\* A step of the caller alone keeps what is known of the workers.
LEMMA CallerKeeps ==
  ASSUME IInv, WorkKept
  PROVE  FilesInv' /\ CounterInv' /\ InsertedInv' /\ ParseInv' /\ Ledger'
<1>1. Finished' = Finished /\ Owners' = Owners
  BY DEF WorkKept, Finished, Owners
<1>2. \A t : Active(t)' = Active(t)
  BY DEF WorkKept, Active
<1>3. FilesInv' = FilesInv
  BY DEF WorkKept, FilesInv
<1>4. CounterInv' = CounterInv
  BY <1>1, <1>2 DEF WorkKept, CounterInv
<1>5. InsertedInv' = InsertedInv
  BY DEF WorkKept, InsertedInv
<1>6. ParseInv'
  <2>1. \A t : LineInv(t)' = LineInv(t) /\ BatchInv(t)' = BatchInv(t)
    BY DEF WorkKept, LineInv, BatchInv
  <2>. QED
    BY <1>2, <2>1 DEF WorkKept, ParseInv, IInv
<1>7. Ledger'
  <2>1. PICK own \in Owners : DoneFiles(own) /\ TakenFiles(own) /\ Sums(own)
    BY DEF IInv, Ledger
  <2>2. DoneFiles(own)'
    BY <1>2, <2>1 DEF WorkKept, DoneFiles
  <2>3. TakenFiles(own)'
    BY <1>2, <2>1 DEF WorkKept, TakenFiles
  <2>4. Sums(own)'
    BY <1>1, <2>1 DEF WorkKept, Sums
  <2>. QED
    BY <1>1, <2>1, <2>2, <2>3, <2>4 DEF Ledger
<1>. QED
  BY <1>3, <1>4, <1>5, <1>6, <1>7 DEF IInv

\* The caller goes from one phase to another.
LEMMA CallerMoves ==
  ASSUME IInv, WorkKept,
         phase' \in {"idle", "spawn", "unwind", "join", "build", "rename", "publish"},
         runs' \in Nat, failures' \in Nat, renames' \in Nat,
         (/\ temporary = IF phase = "rename" THEN 1 ELSE 0
          /\ in_progress = IF phase = "idle" THEN 0 ELSE 1
          /\ runs = failures + renames + (IF phase \in {"idle", "publish"} THEN 0 ELSE 1)
          /\ phase \in {"join", "build", "rename", "publish"} => created = num_threads
          /\ phase \in {"build", "rename", "publish"} => Joined /\ ~SomeError)'
  PROVE  IInv'
<1>1. Types'
  BY DEF IInv, Types, WorkKept
<1>2. (created <= num_threads)'
  BY DEF IInv, CallInv, WorkKept, num_threads
<1>3. CallInv'
  BY <1>2 DEF CallInv
<1>. QED
  BY <1>1, <1>3, CallerKeeps DEF IInv

\* The exit of a call by an exception.
LEMMA AbandonInv ==
  ASSUME IInv, WorkKept, Abandon, renames' = renames, phase \notin {"idle", "publish"}
  PROVE  IInv'
<1>1. /\ phase' = "idle" /\ failures' = failures + 1 /\ in_progress' = 0
      /\ temporary' = 0 /\ runs' = runs
  BY DEF Abandon
<1>2. /\ runs \in Nat /\ failures \in Nat /\ renames \in Nat
      /\ runs = failures + renames + 1
  BY DEF IInv, Types, CallInv
<1>3. runs' = failures' + renames' + 0 /\ failures' \in Nat
  BY <1>1, <1>2
<1>. QED
  BY <1>1, <1>2, <1>3, CallerMoves

\* Every step of the caller but the creation of a worker keeps the invariant.
LEMMA CallerInv ==
  ASSUME IInv,
         \/ ListFails \/ SpawnFails \/ SpawnDone \/ Join \/ Build \/ BuildFails
         \/ Rename \/ PublishMetrics
  PROVE  IInv'
<1>1. /\ runs \in Nat /\ failures \in Nat /\ renames \in Nat
      /\ temporary = (IF phase = "rename" THEN 1 ELSE 0)
      /\ in_progress = (IF phase = "idle" THEN 0 ELSE 1)
      /\ runs = failures + renames + (IF phase \in {"idle", "publish"} THEN 0 ELSE 1)
      /\ phase \in {"join", "build", "rename", "publish"} => created = num_threads
      /\ phase \in {"build", "rename", "publish"} => Joined /\ ~SomeError
  BY DEF IInv, Types, CallInv
<1>2. WorkKept
  BY DEF WorkKept, ListFails, SpawnFails, SpawnDone, Join, Build, BuildFails, Rename,
         PublishMetrics, call, builder
<1>3. num_threads' = num_threads /\ created' = created /\ Joined' = Joined
        /\ SomeError' = SomeError
  BY <1>2 DEF WorkKept, num_threads, Joined, SomeError
<1>4. CASE ListFails
  <2>1. /\ phase = "idle" /\ phase' = phase /\ runs' = runs + 1 /\ failures' = failures + 1
        /\ temporary' = temporary /\ in_progress' = in_progress /\ renames' = renames
    BY <1>4 DEF ListFails
  <2>2. runs' = failures' + renames' + 0 /\ runs' \in Nat /\ failures' \in Nat
    BY <1>1, <2>1
  <2>. QED
    BY <1>1, <1>2, <2>1, <2>2, CallerMoves
<1>5. CASE SpawnFails
  <2>1. /\ phase = "spawn" /\ phase' = "unwind" /\ runs' = runs /\ failures' = failures
        /\ temporary' = temporary /\ in_progress' = in_progress /\ renames' = renames
    BY <1>5 DEF SpawnFails, metrics
  <2>. QED
    BY <1>1, <1>2, <2>1, CallerMoves
<1>6. CASE SpawnDone
  <2>1. /\ phase = "spawn" /\ phase' = "join" /\ runs' = runs /\ failures' = failures
        /\ temporary' = temporary /\ in_progress' = in_progress /\ renames' = renames
        /\ created = num_threads
    BY <1>6 DEF SpawnDone, metrics
  <2>. QED
    BY <1>1, <1>2, <1>3, <2>1, CallerMoves
<1>7. CASE Join
  <2>1. CASE phase \in {"unwind", "join"} /\ Abandon
    BY <1>2, <1>7, <2>1, AbandonInv DEF Join
  <2>2. CASE phase = "join" /\ ~SomeError /\ phase' = "build" /\ UNCHANGED <<temporary, metrics>>
    <3>1. /\ runs' = runs /\ failures' = failures /\ renames' = renames
          /\ temporary' = temporary /\ in_progress' = in_progress /\ Joined
      BY <1>7, <2>2 DEF Join, metrics
    <3>. QED
      BY <1>1, <1>2, <1>3, <2>2, <3>1, CallerMoves
  <2>. QED
    BY <1>7, <2>1, <2>2 DEF Join
<1>8. CASE Build
  <2>1. /\ phase = "build" /\ phase' = "rename" /\ runs' = runs /\ failures' = failures
        /\ temporary' = 1 /\ in_progress' = in_progress /\ renames' = renames
    BY <1>8 DEF Build, metrics
  <2>. QED
    BY <1>1, <1>2, <1>3, <2>1, CallerMoves
<1>9. CASE BuildFails
  BY <1>2, <1>9, AbandonInv DEF BuildFails
<1>10. CASE Rename
  <2>1. /\ phase = "rename" /\ phase' = "publish" /\ runs' = runs /\ failures' = failures
        /\ temporary' = 0 /\ in_progress' = in_progress /\ renames' = renames + 1
    BY <1>10 DEF Rename, metrics
  <2>2. runs' = failures' + renames' + 0 /\ renames' \in Nat
    BY <1>1, <2>1
  <2>. QED
    BY <1>1, <1>2, <1>3, <2>1, <2>2, CallerMoves
<1>11. CASE PublishMetrics
  <2>1. /\ phase = "publish" /\ phase' = "idle" /\ runs' = runs /\ failures' = failures
        /\ temporary' = temporary /\ in_progress' = 0 /\ renames' = renames
    BY <1>11 DEF PublishMetrics
  <2>. QED
    BY <1>1, <1>2, <2>1, CallerMoves
<1>. QED
  BY <1>4, <1>5, <1>6, <1>7, <1>8, <1>9, <1>10, <1>11

\* A worker is created: it has taken nothing yet.
LEMMA SpawnInv == ASSUME IInv, Spawn PROVE IInv'
<1>. DEFINE t == created + 1
<1>1. /\ phase = "spawn" /\ phase' = phase /\ created < num_threads /\ created' = created + 1
      /\ worker' = [worker EXCEPT ![t].pc = "take"]
      /\ checkout' = checkout /\ files' = files /\ next_file' = next_file
      /\ pool' = pool /\ inserted' = inserted /\ total_networks' = total_networks
      /\ slots' = slots /\ temporary' = temporary /\ runs' = runs /\ failures' = failures
      /\ in_progress' = in_progress /\ renames' = renames
  BY DEF Spawn, call, builder, metrics
<1>2. created \in Nat /\ Len(files) \in Nat /\ worker \in [Workers -> WorkerState]
  BY DEF IInv, Types
<1>3. t \in Workers
  BY <1>1, <1>2, CompilerAssumption DEF num_threads, Workers
<1>4. PICK w, v : w = worker[t] /\ v = [w EXCEPT !.pc = "take"]
  OBVIOUS
<1>5. w \in WorkerState
  BY <1>2, <1>3, <1>4
<1>6. /\ v \in WorkerState /\ v.pc = "take" /\ v.file = w.file /\ v.did = w.did
      /\ v.batch = w.batch /\ v.parsed = w.parsed
  BY <1>4, <1>5 DEF WorkerState
<1>7. v.error = w.error
  BY <1>4, <1>5, Zenon DEF WorkerState
<1>8. worker' = [worker EXCEPT ![t] = v]
  BY <1>1, <1>2, <1>3, <1>4
<1>. HIDE DEF t
<1>9. worker' \in [Workers -> WorkerState]
  BY <1>2, <1>3, <1>6, <1>8
<1>10. worker'[t] = v /\ \A u \in Workers \ {t} : worker'[u] = worker[u]
  BY <1>2, <1>3, <1>8
<1>11. w.pc = "none" /\ ~w.error
  <2>1. t > created
    BY <1>2 DEF t
  <2>. QED
    BY <1>3, <1>4, <2>1 DEF IInv, CounterInv
<1>12. \A u \in Workers : /\ Active(u)' => Active(u) /\ worker'[u] = worker[u]
                          /\ Active(u) => Active(u)' /\ worker'[u] = worker[u]
  BY <1>4, <1>6, <1>10, <1>11 DEF Active
<1>13. Finished' = Finished /\ Owners' = Owners
  BY <1>1, <1>4, <1>6, <1>10, <1>11 DEF Finished, Owners
<1>14. Types'
  BY <1>1, <1>2, <1>9 DEF IInv, Types
<1>15. CallInv'
  <2>1. num_threads' = num_threads /\ num_threads \in Nat
    BY <1>1, <1>2, CompilerAssumption DEF num_threads
  <2>2. created' <= num_threads'
    BY <1>1, <1>2, <2>1
  <2>. QED
    BY <1>1, <2>2 DEF IInv, CallInv
<1>16. FilesInv'
  BY <1>1 DEF IInv, FilesInv
<1>17. CounterInv'
  <2>1. ASSUME NEW u \in Workers
        PROVE  /\ (worker[u].pc = "none" <=> u > created)'
               /\ (worker[u].error => worker[u].pc = "done")'
               /\ (Active(u) => worker[u].file \in 1..Len(files) /\ worker[u].file < next_file)'
               /\ (worker[u].pc = "done" => worker[u].error \/ next_file > Len(files))'
    <3>1. CASE u = t
      <4>1. ~(u > created') /\ worker'[u].pc = "take"
        BY <1>1, <1>2, <1>6, <1>10, <3>1 DEF t
      <4>2. ~worker'[u].error
        BY <1>7, <1>10, <1>11, <3>1
      <4>. QED
        BY <4>1, <4>2 DEF Active
    <3>2. CASE u # t
      <4>1. u > created' <=> u > created
        BY <1>1, <1>2, <3>2 DEF t, Workers
      <4>2. worker'[u] = worker[u] /\ (Active(u)' <=> Active(u))
        BY <1>10, <1>12, <3>2
      <4>. QED
        BY <1>1, <4>1, <4>2 DEF IInv, CounterInv
    <3>. QED
      BY <3>1, <3>2
  <2>2. \A u, x \in Workers :
          Active(u)' /\ Active(x)' /\ worker'[u].file = worker'[x].file => u = x
    BY <1>12 DEF IInv, CounterInv
  <2>. QED
    BY <1>1, <1>13, <2>1, <2>2 DEF IInv, CounterInv
<1>18. InsertedInv'
  BY <1>1 DEF IInv, InsertedInv
<1>19. ParseInv'
  <2>. SUFFICES ASSUME NEW u \in Workers
       PROVE  /\ Len(worker'[u].batch) < BatchSize /\ worker'[u].did <= Len(pool')
              /\ Active(u)' => LineInv(u)' /\ BatchInv(u)'
    BY DEF ParseInv
  <2>1. worker'[u].batch = worker[u].batch /\ worker'[u].did = worker[u].did
    BY <1>4, <1>6, <1>10
  <2>2. ASSUME Active(u)' PROVE LineInv(u)' /\ BatchInv(u)'
    <3>1. Active(u) /\ worker'[u] = worker[u]
      BY <1>12, <2>2
    <3>2. LineInv(u) /\ BatchInv(u)
      BY <3>1 DEF IInv, ParseInv
    <3>. QED
      BY <1>1, <3>1, <3>2 DEF LineInv, BatchInv
  <2>. QED
    BY <1>1, <2>1, <2>2 DEF IInv, ParseInv
<1>20. Ledger'
  <2>1. PICK own \in Owners : DoneFiles(own) /\ TakenFiles(own) /\ Sums(own)
    BY DEF IInv, Ledger
  <2>2. \A u \in Workers : worker[u].error => worker'[u].error
    BY <1>4, <1>7, <1>10
  <2>3. \A u \in Workers : /\ worker[u].pc # "none" => worker'[u].pc # "none"
                           /\ worker'[u].pc # "done" => worker[u].pc # "done"
                           /\ worker'[u].parsed = worker[u].parsed
    BY <1>4, <1>6, <1>10, <1>11
  <2>4. DoneFiles(own)'
    <3>1. \A i \in 1..Len(files) : own[i] # 0 => own[i] \in Workers
      BY <2>1, CompilerAssumption DEF Owners, Workers
    <3>. QED
      BY <1>1, <1>12, <2>1, <2>3, <3>1 DEF DoneFiles
  <2>5. TakenFiles(own)'
    BY <1>1, <1>12, <2>1, <2>2 DEF TakenFiles
  <2>6. Sums(own)'
    BY <1>1, <1>13, <2>1, <2>3 DEF Sums
  <2>. QED
    BY <1>13, <2>1, <2>4, <2>5, <2>6 DEF Ledger
<1>. QED
  BY <1>14, <1>15, <1>16, <1>17, <1>18, <1>19, <1>20 DEF IInv

\* The invariant is inductive.
LEMMA Inductive == IInv /\ [Next]_vars => IInv'
<1>. SUFFICES ASSUME IInv, [Next]_vars PROVE IInv'
  OBVIOUS
<1>1. ASSUME NEW entries \in Checkouts, Start(entries) PROVE IInv'
  BY <1>1, StartInv
<1>2. CASE Spawn
  BY <1>2, SpawnInv
<1>3. CASE \/ ListFails \/ SpawnFails \/ SpawnDone \/ Join \/ Build \/ BuildFails
           \/ Rename \/ PublishMetrics
  BY <1>3, CallerInv
<1>4. ASSUME NEW t \in Workers, WorkerStep(t) PROVE IInv'
  BY <1>4, WorkerInv
<1>5. CASE UNCHANGED vars
  <2>1. /\ WorkKept /\ phase' = phase /\ temporary' = temporary /\ runs' = runs
        /\ failures' = failures /\ in_progress' = in_progress /\ renames' = renames
    BY <1>5 DEF WorkKept, vars, metrics
  <2>2. Types'
    BY <2>1 DEF IInv, Types, WorkKept
  <2>3. CallInv'
    BY <2>1 DEF IInv, CallInv, WorkKept, num_threads, Joined, SomeError
  <2>. QED
    BY <2>1, <2>2, <2>3, CallerKeeps DEF IInv
<1>. QED
  BY <1>1, <1>2, <1>3, <1>4, <1>5 DEF Next, CallerStep

\* It holds of every behaviour.
LEMMA Invariance == Spec => []IInv
BY InitInv, Inductive, PTL DEF Spec
-----------------------------------------------------------------------------
(***************************************************************************)
(* What follows from it.                                                   *)
(***************************************************************************)

(***************************************************************************)
(* On every way out of compile_to_mmdb, an exception in a worker, a failed *)
(* creation of a thread, build and rename included, the gauge is reset, no *)
(* temporary file stays and the call is a failure or a replaced database;  *)
(* no worker keeps a full batch, and the shared counter goes at most one   *)
(* past the files for each worker.                                         *)
(***************************************************************************)
THEOREM EveryCallAccounted == Spec => []CallsAreBalanced
<1>1. IInv => CallsAreBalanced
  <2>. SUFFICES ASSUME IInv PROVE CallsAreBalanced
    OBVIOUS
  <2>1. next_file <= Len(files) + created + 1
    <3>1. Finished \subseteq 1..created
      BY DEF Finished, IInv, CounterInv, Workers, Types
    <3>2. created \in Nat /\ next_file \in Nat /\ Len(files) \in Nat
      BY DEF IInv, Types
    <3>3. IsFiniteSet(1..created) /\ Cardinality(1..created) = created
      BY <3>2, FS_Interval, SMTT(30)
    <3>4. Cardinality(Finished) <= created /\ Cardinality(Finished) \in Nat
      BY <3>1, <3>3, FS_Subset, FinishedCount DEF Finished
    <3>5. next_file <= Len(files) + 1 + Cardinality(Finished)
      BY DEF IInv, CounterInv
    <3>. QED
      BY <3>2, <3>4, <3>5
  <2>2. \A t \in Workers :
          /\ worker[t].pc \in {"none", "take", "read", "line", "record", "done"}
          /\ Len(worker[t].batch) < BatchSize /\ worker[t].did <= Len(pool)
    BY DEF IInv, Types, ParseInv, WorkerState
  <2>3. \A i \in DOMAIN inserted : inserted[i].did \in DOMAIN pool
    <3>1. DOMAIN inserted = 1..Len(inserted) /\ DOMAIN pool = 1..Len(pool)
      BY DEF IInv, Types
    <3>2. \A i \in 1..Len(inserted) : inserted[i].did \in 1..Len(pool)
      BY DEF IInv, InsertedInv, BuilderIs, Right
    <3>. QED
      BY <3>1, <3>2
  <2>4. TypeOK
    BY <2>1, <2>2, <2>3 DEF TypeOK, IInv, Types, CallInv
  <2>. QED
    BY <2>4 DEF CallsAreBalanced, IInv, CallInv, Types
<1>. QED
  BY <1>1, Invariance, PTL

\* After the join of a call without errors every file is finished and counted.
LEMMA AllRecorded ==
  ASSUME IInv, phase \in {"build", "rename", "publish"}
  PROVE  /\ \A i \in 1..Len(files) :
              /\ ~Bad(files[i]) /\ slots[i] = StatOf(files[i])
              /\ \A n \in NetworkLines(files[i]) : IsInserted(inserted, i, n)
         /\ total_networks = Cardinality(LinesOf(files, 1..Len(files)))
<1>1. PICK own \in Owners : DoneFiles(own) /\ TakenFiles(own) /\ Sums(own)
  BY DEF IInv, Ledger
<1>2. created = num_threads /\ Joined /\ ~SomeError /\ created \in Nat /\ Len(files) \in Nat
  BY DEF IInv, CallInv, Types
<1>3. \A t \in Workers : t <= created \/ t > created
  BY <1>2 DEF Workers
<1>4. \A t \in Workers : worker[t].pc \in {"none", "done"}
  BY <1>2, <1>3 DEF Joined, IInv, CounterInv, Workers
<1>5. \A t \in Workers : ~worker[t].error
  <2>1. \A t \in Workers : worker[t].error => t \in 1..created
    BY <1>2, <1>3 DEF IInv, CounterInv, Workers
  <2>. QED
    BY <1>2, <2>1 DEF SomeError
<1>6. ASSUME NEW i \in 1..Len(files) PROVE own[i] # 0 /\ own[i] \in Finished
  <2>1. 1 \in Workers /\ 1 <= created
    BY <1>2, CompilerAssumption DEF num_threads, Workers
  <2>2. worker[1].pc = "done"
    BY <1>2, <2>1 DEF Joined
  <2>3. next_file > Len(files) /\ next_file \in Nat
    BY <1>5, <2>1, <2>2 DEF IInv, CounterInv, Types
  <2>4. i < next_file
    BY <1>2, <2>3
  <2>5. own[i] # 0
    BY <1>1, <1>4, <1>5, <2>4 DEF TakenFiles, Active
  <2>6. own[i] \in Workers /\ worker[own[i]].pc # "none"
    BY <1>1, <2>5, CompilerAssumption DEF DoneFiles, Owners, Workers
  <2>. QED
    BY <1>4, <2>5, <2>6 DEF Finished
<1>7. OwnedBy(own, Finished) = 1..Len(files)
  BY <1>6 DEF OwnedBy, Owners
<1>. QED
  BY <1>1, <1>6, <1>7 DEF DoneFiles, Sums

\* The positions of the network lines, as the ledger has them.
LEMMA PositionsAre ==
  ASSUME files \in Seq(DirEntry)
  PROVE  Positions = LinesOf(files, 1..Len(files))
<1>1. \A i \in 1..Len(files) : NetworkLines(files[i]) \subseteq Nat
  <2>. SUFFICES ASSUME NEW i \in 1..Len(files) PROVE NetworkLines(files[i]) \subseteq Nat
    OBVIOUS
  <2>1. files[i] \in DirEntry
    BY ElementOfSeq
  <2>2. NetworkLines(files[i]) \subseteq 1..Len(files[i].lines)
    BY <2>1, LinesFinite
  <2>. QED
    BY <2>2
<1>2. DOMAIN files = 1..Len(files)
  OBVIOUS
<1>. QED
  BY <1>1, <1>2 DEF Positions, LinesOf

\* Then the builder holds what the blocklists declare.
LEMMA ContentsAre ==
  ASSUME IInv, phase \in {"build", "rename", "publish"}
  PROVE  Contents = Declared(checkout)
<1>1. DOMAIN inserted = 1..Len(inserted)
  BY DEF IInv, Types
<1>2. \A k \in 1..Len(inserted) : Right(pool, files, inserted[k])
  BY DEF IInv, InsertedInv, BuilderIs
<1>3. ASSUME NEW c \in Contents PROVE c \in Declared(checkout)
  <2>1. PICK k \in 1..Len(inserted) :
          c = [net |-> inserted[k].net, record |-> pool[inserted[k].did]]
    BY <1>1, Zenon DEF Contents
  <2>2. PICK i, n, e : i = inserted[k].file /\ n = inserted[k].line /\ e = files[i]
    OBVIOUS
  <2>3. /\ i \in 1..Len(files) /\ n \in NetworkLines(e) /\ inserted[k].net = e.lines[n].net
        /\ pool[inserted[k].did] = RecordAt(e, n)
    BY <1>2, <2>2 DEF Right
  <2>4. e \in Blocklists(checkout)
    BY <2>2, <2>3 DEF IInv, FilesInv
  <2>5. c = [net |-> e.lines[n].net, record |-> [file |-> e.name, metadata |-> MetadataAt(e, n)]]
    BY <2>1, <2>3 DEF RecordAt
  <2>. QED
    BY <2>3, <2>4, <2>5 DEF Declared
<1>4. ASSUME NEW c \in Declared(checkout) PROVE c \in Contents
  <2>1. PICK e \in Blocklists(checkout) : \E n \in NetworkLines(e) :
          c = [net |-> e.lines[n].net, record |-> [file |-> e.name, metadata |-> MetadataAt(e, n)]]
    BY DEF Declared
  <2>2. PICK n \in NetworkLines(e) :
          c = [net |-> e.lines[n].net, record |-> [file |-> e.name, metadata |-> MetadataAt(e, n)]]
    BY <2>1
  <2>3. PICK i \in 1..Len(files) : files[i] = e
    BY DEF IInv, FilesInv
  <2>4. PICK k \in 1..Len(inserted) : inserted[k].file = i /\ inserted[k].line = n
    <3>1. n \in NetworkLines(files[i])
      BY <2>3
    <3>2. IsInserted(inserted, i, n)
      BY <3>1, AllRecorded
    <3>. QED
      BY <3>2, Zenon DEF IsInserted
  <2>5. inserted[k].net = e.lines[n].net /\ pool[inserted[k].did] = RecordAt(e, n)
    BY <1>2, <2>3, <2>4 DEF Right
  <2>6. c = [net |-> inserted[k].net, record |-> pool[inserted[k].did]]
    BY <2>2, <2>5 DEF RecordAt
  <2>. QED
    BY <1>1, <2>6 DEF Contents
<1>. QED
  BY <1>3, <1>4

\* And each network line once.
LEMMA InsertedOnce ==
  ASSUME IInv, phase \in {"build", "rename", "publish"},
         NEW e \in Blocklists(checkout), NEW n \in NetworkLines(e)
  PROVE  \E k \in DOMAIN inserted : \A j \in DOMAIN inserted :
           (files[inserted[j].file] = e /\ inserted[j].line = n) <=> j = k
<1>1. DOMAIN inserted = 1..Len(inserted)
  BY DEF IInv, Types
<1>2. PICK i \in 1..Len(files) : files[i] = e
  BY DEF IInv, FilesInv
<1>3. PICK k \in 1..Len(inserted) : inserted[k].file = i /\ inserted[k].line = n
  BY <1>2, AllRecorded DEF IsInserted
<1>4. ASSUME NEW j \in 1..Len(inserted), files[inserted[j].file] = e, inserted[j].line = n
      PROVE  j = k
  <2>1. inserted[j].file \in 1..Len(files)
    BY DEF IInv, InsertedInv, BuilderIs, Right
  <2>2. inserted[j].file = i
    BY <1>2, <1>4, <2>1 DEF IInv, FilesInv
  <2>. QED
    BY <1>3, <1>4, <2>2 DEF IInv, InsertedInv, BuilderIs
<1>. QED
  BY <1>1, <1>2, <1>3, <1>4

\* So there are as many insertions as network lines.
LEMMA InsertedCount ==
  ASSUME IInv, phase \in {"build", "rename", "publish"}
  PROVE  Len(inserted) = Cardinality(Positions)
<1>1. PICK P, m, F : /\ P = LinesOf(files, 1..Len(files)) /\ m = Len(inserted)
                     /\ F = [k \in 1..m |-> <<inserted[k].file, inserted[k].line>>]
  OBVIOUS
<1>2. m \in Nat /\ files \in Seq(DirEntry) /\ inserted \in Seq(Insertion)
  BY <1>1 DEF IInv, Types
<1>3. \A k \in 1..m : F[k] \in P
  <2>. SUFFICES ASSUME NEW k \in 1..m PROVE F[k] \in P
    OBVIOUS
  <2>1. /\ inserted[k].file \in 1..Len(files)
        /\ inserted[k].line \in NetworkLines(files[inserted[k].file])
    BY <1>1 DEF IInv, InsertedInv, BuilderIs, Right
  <2>2. inserted[k].line \in Nat
    BY <1>1, <1>2, InsertionAt
  <2>. QED
    BY <1>1, <2>1, <2>2 DEF LinesOf
<1>4. F \in [1..m -> P]
  BY <1>1, <1>3
<1>5. \A j, k \in 1..m : F[j] = F[k] => j = k
  BY <1>1 DEF IInv, InsertedInv, BuilderIs
<1>6. \A p \in P : \E k \in 1..m : F[k] = p
  <2>. SUFFICES ASSUME NEW p \in P PROVE \E k \in 1..m : F[k] = p
    OBVIOUS
  <2>1. p \in (1..Len(files)) \X Nat /\ p[2] \in NetworkLines(files[p[1]])
    BY <1>1 DEF LinesOf
  <2>2. PICK k \in 1..m : inserted[k].file = p[1] /\ inserted[k].line = p[2]
    <3>1. PICK i, n : i = p[1] /\ n = p[2]
      OBVIOUS
    <3>2. i \in 1..Len(files) /\ n \in NetworkLines(files[i])
      BY <2>1, <3>1
    <3>3. IsInserted(inserted, i, n)
      BY <3>2, AllRecorded
    <3>. QED
      BY <1>1, <3>1, <3>3, Zenon DEF IsInserted
  <2>3. p = <<p[1], p[2]>>
    BY <2>1
  <2>. QED
    BY <1>1, <2>2, <2>3
<1>7. F \in Bijection(1..m, P)
  BY <1>4, <1>5, <1>6 DEF Bijection, Injection, Surjection, IsInjective
<1>8. Cardinality(P) = m
  BY <1>2, <1>7, FS_CountingElements DEF ExistsBijection
<1>. QED
  BY <1>1, <1>2, <1>8, PositionsAre

(***************************************************************************)
(* Whatever the number of workers, the size of a batch and the blocklists: *)
(* once the workers of a call without errors are joined, the builder holds *)
(* each network line of each blocklist exactly once, with the metadata in  *)
(* force at that line (compiler.cpp:111-224 and 358-380).                  *)
(***************************************************************************)
THEOREM BuilderIsComplete == Spec => []EveryNetworkOnce
<1>1. IInv => EveryNetworkOnce
  BY ContentsAre, InsertedOnce, InsertedCount DEF EveryNetworkOnce
<1>. QED
  BY <1>1, Invariance, PTL

(***************************************************************************)
(* The database is replaced only by a call whose blocklists are all valid, *)
(* by what they declare, and the statistics that are published are those   *)
(* of that call: each file in its own slot, and the count of all network   *)
(* lines (compiler.cpp:382-437).                                           *)
(***************************************************************************)
THEOREM PublishedIsWholeCheckout == Spec => OnlyWholeCheckouts
<1>. DEFINE Published ==
       /\ target' # target =>
            /\ \A e \in Blocklists(checkout) : ~Bad(e)
            /\ target' = Declared(checkout)
       /\ stats' # stats =>
            /\ \A i \in DOMAIN files : stats'[i] = StatOf(files[i])
            /\ networks' = Cardinality(Positions)
<1>1. ASSUME IInv, [Next]_vars PROVE [Published]_vars
  <2>1. CASE Rename
    <3>1. phase = "rename" /\ target' = Contents /\ stats' = stats
      BY <2>1 DEF Rename, metrics
    <3>2. Contents = Declared(checkout)
      BY <1>1, <3>1, ContentsAre
    <3>3. ASSUME NEW e \in Blocklists(checkout) PROVE ~Bad(e)
      <4>1. PICK i \in 1..Len(files) : files[i] = e
        BY <1>1 DEF IInv, FilesInv
      <4>. QED
        BY <1>1, <3>1, <4>1, AllRecorded
    <3>. QED
      BY <3>1, <3>2, <3>3
  <2>2. CASE PublishMetrics
    <3>1. /\ phase = "publish" /\ target' = target /\ stats' = slots
          /\ networks' = total_networks
      BY <2>2 DEF PublishMetrics
    <3>2. files \in Seq(DirEntry) /\ DOMAIN files = 1..Len(files)
      BY <1>1 DEF IInv, Types
    <3>3. \A i \in 1..Len(files) : slots[i] = StatOf(files[i])
      BY <1>1, <3>1, AllRecorded
    <3>4. total_networks = Cardinality(Positions)
      BY <1>1, <3>1, <3>2, AllRecorded, PositionsAre
    <3>. QED
      BY <3>1, <3>2, <3>3, <3>4
  <2>3. CASE target' = target /\ stats' = stats
    BY <2>3
  <2>4. ASSUME NEW entries, Start(entries) PROVE target' = target /\ stats' = stats
    BY <2>4 DEF Start
  <2>5. ASSUME NEW t, WorkerStep(t) PROVE target' = target /\ stats' = stats
    BY <2>5, WorkerKeepsCall DEF CallKept
  <2>6. ASSUME ListFails \/ Spawn \/ SpawnFails \/ SpawnDone \/ Join \/ Build \/ BuildFails
        PROVE  target' = target /\ stats' = stats
    BY <2>6 DEF ListFails, Spawn, SpawnFails, SpawnDone, Join, Build, BuildFails, Abandon, metrics
  <2>7. ASSUME UNCHANGED vars PROVE target' = target /\ stats' = stats
    BY <2>7 DEF vars, metrics
  <2>. HIDE DEF Published
  <2>. QED
    BY <1>1, <2>1, <2>2, <2>3, <2>4, <2>5, <2>6, <2>7 DEF Next, CallerStep
<1>. QED
  BY <1>1, Invariance, PTL DEF Spec, OnlyWholeCheckouts
=============================================================================
