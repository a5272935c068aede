------------------------- MODULE SpoaEvaluationProofs -------------------------
(***************************************************************************)
(* Proofs about handle_notify, module SpoaEvaluation: for every configured *)
(* list, all databases and all frames, each frame gets the verdict of the  *)
(* database that was current when it arrived, and the counters tell what   *)
(* has been evaluated.                                                     *)
(*                                                                         *)
(* The invariant has four parts.  NamesInv: the counters are those of the  *)
(* configured categories, none of them empty.  VisitInv: what the loop     *)
(* over an array has found so far.  FrameInv: the two flags tell what the  *)
(* arguments evaluated so far are.  CountInv: the counters, where the      *)
(* lookup under way has been counted and its match too.                    *)
(***************************************************************************)
EXTENDS SpoaEvaluation, SequenceTheorems, FiniteSetTheorems,
        WellFoundedInduction, TLAPS

NamesInv ==
  /\ DOMAIN blocked = ConfiguredNames
  /\ ConfiguredNames \subseteq Text \ {Empty}

\* Argument k of the frame, with the snapshot of the frame.
InFrame(k) == [arg |-> frame[k], db |-> db]

VisitInv ==
  /\ ~visiting => matched = Empty
  /\ visiting => /\ LooksUp(InFrame(done + 1)) /\ ~Fails(InFrame(done + 1))
                 /\ array = Categories(InFrame(done + 1))
                 /\ IF matched = Empty
                    THEN \A j \in 1..index : array[j] \notin ConfiguredNames
                    ELSE IsFirst(matched, array)

FrameInv ==
  busy => /\ ip_bad <=> \E k \in 1..done : Flagged(InFrame(k))
          /\ not_implemented <=> \E k \in 1..done : ~Supported(frame[k])

CountInv ==
  /\ lookups = Cardinality(LookedUp) + IF visiting THEN 1 ELSE 0
  /\ lookup_errors = Cardinality(FailedLookups)
  /\ \A name \in ConfiguredNames :
       blocked[name] = Cardinality(BlockedBy(name)) +
                         IF visiting /\ matched = name THEN 1 ELSE 0

EvaluationInv == TypeOK /\ NamesInv /\ VisitInv /\ FrameInv /\ CountInv /\ VerdictIsRight
-----------------------------------------------------------------------------
(***************************************************************************)
(* DropCategories::load                                                    *)
(***************************************************************************)
\* A set of positions has a first and a last member.
LEMMA FirstMember ==
  ASSUME NEW S \in SUBSET Nat, S # {}
  PROVE  \E i \in S : \A j \in S : i <= j
<1>1. PICK i \in S : \A j \in S : ~(<<j, i>> \in OpToRel(<, Nat))
  BY NatLessThanWellFounded, WFMin
<1>2. \A j \in S : ~(j < i)
  BY <1>1 DEF OpToRel
<1> QED BY <1>2

\* The last member of a set of positions of a text.
LEMMA LastMember ==
  ASSUME NEW n \in Nat, NEW S \in SUBSET (1..n), S # {}
  PROVE  \E i \in S : \A j \in S : i >= j
<1> DEFINE D == {n - i : i \in S}
<1>1. D \in SUBSET Nat /\ D # {}
  <2>1. \A i \in S : n - i \in Nat
    OBVIOUS
  <2>2. PICK i \in S : TRUE
    OBVIOUS
  <2>3. n - i \in D
    OBVIOUS
  <2> QED BY <2>1, <2>3
<1>2. PICK d \in D : \A e \in D : d <= e
  BY <1>1, FirstMember
<1>3. PICK i \in S : d = n - i
  OBVIOUS
<1>4. ASSUME NEW j \in S PROVE i >= j
  <2>1. n - j \in D
    OBVIOUS
  <2> QED BY <1>2, <1>3, <2>1
<1> QED BY <1>4

\* A text has at most one stretch: trim finds it, if there is one.
LEMMA TrimFindsStretch ==
  ASSUME NEW text \in Text
  PROVE  /\ \A s \in Stretches(text) : trim(text) = SubSeq(text, s[1], s[2])
         /\ trim(text) # Empty =>
              \E s \in Stretches(text) : trim(text) = SubSeq(text, s[1], s[2])
         /\ \A s \in Stretches(text) : SubSeq(text, s[1], s[2]) \in Text \ {Empty}
<1> DEFINE solid == {i \in DOMAIN text : text[i] # Blank}
           first == CHOOSE i \in solid : \A j \in solid : i <= j
           last  == CHOOSE i \in solid : \A j \in solid : i >= j
<1>1. Len(text) \in Nat /\ DOMAIN text = 1..Len(text) /\ text \in [1..Len(text) -> Letters]
  BY LenProperties DEF Text
<1>2. solid \in SUBSET Nat /\ solid \in SUBSET (1..Len(text))
  BY <1>1
<1>3. trim(text) = IF solid = {} THEN Empty ELSE SubSeq(text, first, last)
  BY DEF trim
<1>4. ASSUME solid # {}
      PROVE  /\ first \in solid /\ \A j \in solid : first <= j
             /\ last \in solid /\ \A j \in solid : last >= j
  <2>1. \E i \in solid : \A j \in solid : i <= j
    BY <1>2, <1>4, FirstMember
  <2>2. \E i \in solid : \A j \in solid : i >= j
    BY <1>1, <1>2, <1>4, LastMember
  <2> HIDE DEF solid
  <2> QED BY <2>1, <2>2
<1> HIDE DEF first, last
<1>5. ASSUME NEW s \in Stretches(text) PROVE solid # {} /\ first = s[1] /\ last = s[2]
  <2>1. /\ s[1] \in solid /\ s[2] \in solid /\ s[1] \in Nat /\ s[2] \in Nat
        /\ \A j \in DOMAIN text : j < s[1] \/ j > s[2] => text[j] = Blank
    BY <1>1 DEF Stretches
  <2>2. \A j \in solid : s[1] <= j /\ j <= s[2] /\ j \in Nat
    BY <1>1, <2>1
  <2> HIDE DEF solid
  <2>3. first \in solid /\ first <= s[1] /\ last \in solid /\ last >= s[2]
    BY <1>4, <2>1
  <2> QED BY <2>1, <2>2, <2>3
<1>6. ASSUME solid # {} PROVE <<first, last>> \in Stretches(text)
  <2>1. /\ first \in DOMAIN text /\ last \in DOMAIN text /\ first <= last
        /\ text[first] # Blank /\ text[last] # Blank
    BY <1>4, <1>6
  <2>2. \A j \in DOMAIN text : j < first \/ j > last => text[j] = Blank
    BY <1>1, <1>4, <1>6
  <2> QED BY <2>1, <2>2 DEF Stretches
<1>7. ASSUME NEW s \in Stretches(text) PROVE SubSeq(text, s[1], s[2]) \in Text \ {Empty}
  <2>1. s[1] \in 1..Len(text) /\ s[2] \in 1..Len(text) /\ s[1] <= s[2]
    BY <1>1 DEF Stretches
  <2>2. \A i \in s[1]..s[2] : text[i] \in Letters
    BY <1>1, <2>1
  <2>3. /\ SubSeq(text, s[1], s[2]) \in Seq(Letters)
        /\ Len(SubSeq(text, s[1], s[2])) = s[2] - s[1] + 1
    BY <2>1, <2>2, SubSeqProperties
  <2>4. Len(SubSeq(text, s[1], s[2])) # 0
    BY <2>1, <2>3
  <2>5. SubSeq(text, s[1], s[2]) # Empty
    BY <2>4, EmptySeq DEF Empty
  <2> QED BY <2>3, <2>5 DEF Text
<1> HIDE DEF solid
<1>8. ASSUME solid # {} PROVE trim(text) = SubSeq(text, first, last)
  BY <1>3, <1>8
<1>9. ASSUME NEW s \in Stretches(text) PROVE trim(text) = SubSeq(text, s[1], s[2])
  BY <1>5, <1>8
<1>10. ASSUME trim(text) # Empty
       PROVE  \E s \in Stretches(text) : trim(text) = SubSeq(text, s[1], s[2])
  BY <1>3, <1>6, <1>9, <1>10
<1> QED BY <1>7, <1>9, <1>10

(***************************************************************************)
(* load() keeps a counter for each configured category and for nothing     *)
(* else (drop_categories.cpp:9-17, string_utils.h:13-19).                  *)
(***************************************************************************)
LEMMA LoadIsConfigured ==
  ASSUME config \in Configs
  PROVE  /\ DOMAIN load(config) = ConfiguredNames
         /\ ConfiguredNames \subseteq Text \ {Empty}
<1>1. config \in Seq(Text) /\ DOMAIN config = 1..Len(config)
  BY ConstantsAreTyped, LenProperties
<1>2. \A i \in DOMAIN config : config[i] \in Text
  BY <1>1, ElementOfSeq
<1>3. DOMAIN load(config) = {trim(config[i]) : i \in DOMAIN config} \ {Empty}
  BY DEF load
<1>4. ASSUME NEW name \in ConfiguredNames
      PROVE  \E i \in DOMAIN config : \E s \in Stretches(config[i]) :
               name = SubSeq(config[i], s[1], s[2])
  BY <1>4 DEF ConfiguredNames
<1>5. ASSUME NEW i \in DOMAIN config, NEW s \in Stretches(config[i])
      PROVE  SubSeq(config[i], s[1], s[2]) \in ConfiguredNames
  <2> DEFINE T(k) == {SubSeq(config[k], t[1], t[2]) : t \in Stretches(config[k])}
  <2>1. SubSeq(config[i], s[1], s[2]) \in T(i)
    OBVIOUS
  <2>2. ConfiguredNames = UNION {T(k) : k \in DOMAIN config}
    BY DEF ConfiguredNames
  <2> HIDE DEF T
  <2> QED BY <2>1, <2>2
<1>6. ASSUME NEW name \in ConfiguredNames
      PROVE  name \in Text \ {Empty} /\ name \in DOMAIN load(config)
  <2>0. PICK i \in DOMAIN config : \E s \in Stretches(config[i]) :
          name = SubSeq(config[i], s[1], s[2])
    BY <1>4
  <2>1. PICK s \in Stretches(config[i]) : name = SubSeq(config[i], s[1], s[2])
    BY <2>0
  <2>2. name = trim(config[i]) /\ name \in Text \ {Empty}
    BY <1>2, <2>1, TrimFindsStretch
  <2> QED BY <1>3, <2>2
<1>7. ASSUME NEW name \in DOMAIN load(config) PROVE name \in ConfiguredNames
  <2>1. PICK i \in DOMAIN config : name = trim(config[i]) /\ name # Empty
    BY <1>3
  <2>2. PICK s \in Stretches(config[i]) : name = SubSeq(config[i], s[1], s[2])
    BY <1>2, <2>1, TrimFindsStretch
  <2> QED BY <1>5, <2>2
<1> QED BY <1>6, <1>7
-----------------------------------------------------------------------------
(***************************************************************************)
(* Types.                                                                  *)
(***************************************************************************)
Snapshots == Databases \cup {NoDatabase}
Evaluated == [arg : Argument, db : Snapshots]

\* What a lookup finds is an entry, and its array a sequence of members.
LEMMA LookupType ==
  ASSUME NEW d \in Databases, NEW a \in Argument
  PROVE  /\ lookup(d, a) \in Entry
         /\ lookup(d, a) \notin {LookupError, NoEntry} =>
              category_array(lookup(d, a)) \in Seq(Text \cup {Corrupt})
<1>1. d \in [Addresses -> Entry] /\ a.address \in Addresses
  BY ConstantsAreTyped DEF Argument
<1>2. lookup(d, a) \in Entry
  BY <1>1 DEF lookup, lookup_string, Entry
<1> QED BY <1>2, EmptySeq DEF Entry, category_array

\* The argument the loop of handle_notify is at, as it is remembered.
LEMMA EndArgumentType ==
  ASSUME TypeOK, done < Len(frame), EndArgument
  PROVE  /\ InFrame(done + 1) \in Evaluated
         /\ evaluated' = Append(evaluated, InFrame(done + 1))
         /\ evaluated' \in Seq(Evaluated)
         /\ done' = done + 1 /\ done' \in 0..Len(frame)
<1>1. frame[done + 1] \in Argument /\ db \in Snapshots /\ evaluated \in Seq(Evaluated)
  BY DEF TypeOK, DataOK, Snapshots, Evaluated
<1>2. InFrame(done + 1) \in Evaluated
  BY <1>1 DEF InFrame, Evaluated
<1>3. evaluated' = Append(evaluated, InFrame(done + 1))
  BY DEF EndArgument, InFrame
<1>4. evaluated' \in Seq(Evaluated)
  BY <1>1, <1>2, <1>3
<1>5. done' = done + 1 /\ done' \in 0..Len(frame)
  BY DEF EndArgument, TypeOK, DataOK
<1> QED BY <1>2, <1>3, <1>4, <1>5

\* The configured list has been loaded and no frame has come.
LEMMA InitType == Init => TypeOK
<1> SUFFICES ASSUME Init PROVE TypeOK
  OBVIOUS
<1>1. blocked \in [DOMAIN blocked -> Nat] /\ DOMAIN blocked \subseteq Text \ {Empty}
  <2>1. DOMAIN load(config) \subseteq Text \ {Empty}
    BY LoadIsConfigured DEF Init
  <2>2. load(config) \in [DOMAIN load(config) -> Nat]
    BY DEF load
  <2> QED BY <2>1, <2>2 DEF Init
<1>2. Len(frame) = 0 /\ Len(array) = 0
  BY DEF Init
<1>3. DataOK
  BY <1>1, <1>2 DEF Init, DataOK
<1>4. FlagsOK /\ ~visiting
  BY Zenon DEF Init, FlagsOK
<1> QED BY <1>3, <1>4 DEF TypeOK

\* A step that begins an argument ends it, or begins its lookup.
LEMMA BeginArgumentCases ==
  ASSUME TypeOK, NEW log \in BOOLEAN, BeginArgument(log)
  PROVE  /\ busy /\ ~visiting /\ done < Len(frame)
         /\ UNCHANGED <<config, published, answers, notify, blocked, ip_bad>>
         /\ \/ /\ EndArgument /\ UNCHANGED <<visit, lookups, lookup_errors>>
               /\ ~Supported(frame[done + 1]) /\ not_implemented' = TRUE
            \/ /\ EndArgument /\ UNCHANGED <<visit, lookups, lookup_errors>>
               /\ Supported(frame[done + 1]) /\ db = NoDatabase
               /\ UNCHANGED not_implemented
            \/ /\ Supported(frame[done + 1]) /\ db # NoDatabase
               /\ UNCHANGED <<not_implemented, blocked, ip_bad>>
               /\ evaluate_lookup(lookup(db, frame[done + 1]), log)
BY DEF BeginArgument, evaluate_argument, evaluate_lookup, Snapshot, counters, verdict

\* Every step keeps the types and the positions.
LEMMA NextType == ASSUME TypeOK, [Next]_vars PROVE TypeOK'
<1> USE DEF vars, notify, verdict, visit, counters, progress
<1> FlagsOK /\ DataOK
  BY DEF TypeOK
<1>1. CASE UNCHANGED vars
  <2>1. FlagsOK'
    BY <1>1, Zenon DEF FlagsOK
  <2>2. DataOK'
    BY <1>1 DEF DataOK
  <2> QED BY <1>1, <2>1, <2>2 DEF TypeOK
<1>2. ASSUME NEW database \in Databases, Publish(database) PROVE TypeOK'
  <2>1. FlagsOK'
    BY <1>2, Zenon DEF FlagsOK, Publish
  <2>2. DataOK'
    BY <1>2 DEF DataOK, Publish
  <2> QED BY <1>2, <2>1, <2>2 DEF TypeOK, Publish
<1>3. ASSUME NEW f \in Frames, BeginNotify(f) PROVE TypeOK'
  <2>1. f \in Seq(Argument) /\ Len(f) \in Nat
    BY ConstantsAreTyped, LenProperties
  <2>2. FlagsOK' /\ ~visiting'
    BY <1>3, Zenon DEF FlagsOK, BeginNotify
  <2>3. DataOK'
    BY <1>3, <2>1 DEF DataOK, BeginNotify
  <2> QED BY <2>2, <2>3 DEF TypeOK
<1>4. ASSUME NEW log \in BOOLEAN, BeginArgument(log) PROVE TypeOK'
  <2>1. /\ busy /\ ~visiting /\ done < Len(frame)
        /\ UNCHANGED <<config, published, answers, notify, blocked, ip_bad>>
    BY <1>4, BeginArgumentCases
  <2>2. CASE EndArgument /\ UNCHANGED <<visit, lookups, lookup_errors>>
               /\ not_implemented' \in BOOLEAN
    <3>1. evaluated' \in Seq(Evaluated) /\ done' \in 0..Len(frame)
      BY <2>1, <2>2, EndArgumentType
    <3>2. FlagsOK' /\ ~visiting'
      BY <2>1, <2>2, Zenon DEF FlagsOK
    <3>3. DataOK'
      BY <2>1, <2>2, <3>1 DEF DataOK, Evaluated, Snapshots
    <3> QED BY <3>2, <3>3 DEF TypeOK
  <2>3. CASE /\ db # NoDatabase /\ UNCHANGED <<not_implemented, blocked, ip_bad>>
             /\ evaluate_lookup(lookup(db, frame[done + 1]), log)
    <3> DEFINE entry == lookup(db, frame[done + 1])
    <3>1. db \in Databases /\ frame[done + 1] \in Argument
      BY <2>1, <2>3 DEF DataOK
    <3>2. lookups' \in Nat /\ lookup_errors' \in Nat
      <4>1. lookups \in Nat /\ lookup_errors \in Nat
        BY DEF DataOK
      <4>2. /\ lookups' = lookups + 1
            /\ lookup_errors' = lookup_errors + IF entry = LookupError THEN 1 ELSE 0
        BY <2>3 DEF evaluate_lookup
      <4> HIDE DEF entry
      <4> QED BY <4>1, <4>2
    <3>3. CASE EndArgument /\ UNCHANGED visit
      <4>1. evaluated' \in Seq(Evaluated) /\ done' \in 0..Len(frame)
        BY <2>1, <3>3, EndArgumentType
      <4>2. FlagsOK' /\ ~visiting'
        BY <2>1, <2>3, <3>3, Zenon DEF FlagsOK
      <4>3. DataOK'
        BY <2>1, <3>2, <3>3, <4>1 DEF DataOK, Evaluated, Snapshots
      <4> QED BY <4>2, <4>3 DEF TypeOK
    <3>4. CASE /\ entry \notin {LookupError, NoEntry} /\ UNCHANGED progress
               /\ visiting' = TRUE /\ array' = category_array(entry) /\ index' = 0
               /\ log_categories' = log /\ matched' = Empty
      <4>1. array' \in Seq(Text \cup {Corrupt})
        BY <3>1, <3>4, LookupType
      <4>2. index' \in 0..Len(array')
        BY <3>4, <4>1, LenProperties
      <4>3. FlagsOK'
        BY <2>1, <2>3, <3>4, Zenon DEF FlagsOK
      <4>4. DataOK'
        BY <2>1, <3>2, <3>4, <4>1, <4>2 DEF DataOK
      <4> QED BY <2>1, <3>4, <4>3, <4>4 DEF TypeOK
    <3> QED BY <2>3, <3>3, <3>4 DEF evaluate_lookup
  <2> QED BY <1>4, <2>2, <2>3, BeginArgumentCases DEF FlagsOK
<1>5. CASE VisitCategory
  <2>1. FlagsOK' /\ UNCHANGED <<visiting, frame, done>>
    BY <1>5, Zenon DEF VisitCategory, RestOfVisit, FlagsOK
  <2>2. index' \in 0..Len(array) /\ array' = array
    BY <1>5 DEF VisitCategory, RestOfVisit, DataOK
  <2>3. matched' \in {Empty} \cup DOMAIN blocked
    BY <1>5 DEF VisitCategory, match_and_increment, DataOK
  <2>4. DOMAIN blocked' = DOMAIN blocked /\ blocked' \in [DOMAIN blocked -> Nat]
    BY <1>5 DEF VisitCategory, match_and_increment, DataOK
  <2>5. DataOK'
    BY <1>5, <2>2, <2>3, <2>4 DEF VisitCategory, RestOfVisit, DataOK
  <2> QED BY <2>1, <2>5 DEF TypeOK
<1>6. CASE SkipCorrupt
  <2>1. FlagsOK' /\ UNCHANGED <<visiting, frame, done>>
    BY <1>6, Zenon DEF SkipCorrupt, RestOfVisit, FlagsOK
  <2>2. DataOK'
    BY <1>6 DEF SkipCorrupt, RestOfVisit, DataOK
  <2> QED BY <2>1, <2>2 DEF TypeOK
<1>7. CASE EndLookup
  <2>1. evaluated' \in Seq(Evaluated) /\ done' \in 0..Len(frame)
    BY <1>7, EndArgumentType DEF EndLookup, TypeOK
  <2>2. array' \in Seq(Text \cup {Corrupt}) /\ index' \in 0..Len(array')
    BY <1>7, EmptySeq DEF EndLookup
  <2>3. FlagsOK' /\ ~visiting'
    BY <1>7, Zenon DEF EndLookup, FlagsOK
  <2>4. DataOK'
    BY <1>7, <2>1, <2>2 DEF EndLookup, DataOK, Evaluated, Snapshots
  <2> QED BY <2>3, <2>4 DEF TypeOK
<1>8. CASE Answer
  <2> DEFINE a == [frame |-> frame, db |-> db, answer |->
        IF not_implemented THEN "disconnect" ELSE IF ip_bad THEN "bad" ELSE "good"]
      A == [frame : Seq(Argument), db : Databases \cup {NoDatabase},
            answer : {"disconnect", "bad", "good"}]
  <2>1. a \in A /\ answers \in Seq(A)
    BY DEF DataOK
  <2>2. answers' = Append(answers, a)
    BY <1>8 DEF Answer
  <2> HIDE DEF a
  <2>3. answers' \in Seq(A)
    BY <2>1, <2>2
  <2>4. frame' \in Seq(Argument) /\ done' \in 0..Len(frame')
    BY <1>8, EmptySeq DEF Answer
  <2>5. FlagsOK' /\ ~visiting'
    BY <1>8, Zenon DEF Answer, FlagsOK
  <2>6. DataOK'
    BY <1>8, <2>3, <2>4 DEF Answer, DataOK
  <2> QED BY <2>5, <2>6 DEF TypeOK
<1> QED BY <1>1, <1>2, <1>3, <1>4, <1>5, <1>6, <1>7, <1>8 DEF Next
-----------------------------------------------------------------------------
(***************************************************************************)
(* The reference.                                                          *)
(***************************************************************************)
\* The configuration is never changed while frames are handled.
LEMMA NamesStable ==
  ASSUME [Next]_vars
  PROVE  config' = config /\ ConfiguredNames' = ConfiguredNames
<1>1. config' = config
  BY DEF Next, vars, Publish, BeginNotify, BeginArgument, VisitCategory,
         SkipCorrupt, RestOfVisit, EndLookup, Answer
<1> QED BY <1>1 DEF ConfiguredNames

\* What is the first category of an array does not change either.
LEMMA FirstIsStable ==
  ASSUME ConfiguredNames' = ConfiguredNames, NEW name, NEW cs
  PROVE  IsFirst(name, cs)' = IsFirst(name, cs)
BY DEF IsFirst, FirstAt

\* No two categories are the first of an array.
LEMMA FirstIsUnique ==
  ASSUME NEW S, NEW cs \in Seq(S), NEW m, NEW n, IsFirst(m, cs), IsFirst(n, cs)
  PROVE  m = n
<1>1. PICK i \in DOMAIN cs : cs[i] = m /\ FirstAt(cs, i)
  BY DEF IsFirst
<1>2. PICK j \in DOMAIN cs : cs[j] = n /\ FirstAt(cs, j)
  BY DEF IsFirst
<1>3. i \in 1..Len(cs) /\ j \in 1..Len(cs) /\ Len(cs) \in Nat
  BY LenProperties
<1>4. ~(i < j) /\ ~(j < i)
  BY <1>1, <1>2, <1>3 DEF FirstAt
<1> QED BY <1>1, <1>2, <1>3, <1>4

\* An argument without categories counts for nothing.
LEMMA NothingFound ==
  ASSUME NEW e, Categories(e) = <<>>
  PROVE  ~Flagged(e) /\ \A name : ~IsFirst(name, Categories(e))
BY DEF Flagged, IsFirst

\* What lookup() returns, in the words of the reference.
LEMMA LookupIs ==
  ASSUME NEW a \in Argument, Supported(a), NEW d \in Databases
  PROVE  LET e == [arg |-> a, db |-> d]
         IN  /\ LooksUp(e)
             /\ Fails(e) <=> lookup(d, a) = LookupError
             /\ lookup(d, a) \in {LookupError, NoEntry} => Categories(e) = <<>>
             /\ lookup(d, a) \notin {LookupError, NoEntry} =>
                  Categories(e) = category_array(lookup(d, a))
<1> DEFINE e == [arg |-> a, db |-> d]
<1>1. e.arg = a /\ e.db = d /\ d # NoDatabase
  BY MarkersAreDistinct
<1> HIDE DEF e
<1>2. LooksUp(e)
  BY <1>1 DEF LooksUp
<1>3. Fails(e) <=> lookup(d, a) = LookupError
  BY <1>1, <1>2 DEF Fails, lookup, lookup_string
<1>4. ~Fails(e) => lookup(d, a) = d[a.address]
  BY <1>1, <1>2 DEF Fails, lookup, lookup_string
<1>5. Categories(e) = IF Fails(e) \/ d[a.address] \in {NoEntry, NotArray}
                      THEN <<>> ELSE d[a.address]
  BY <1>1, <1>2 DEF Categories
<1>6. /\ lookup(d, a) \in {LookupError, NoEntry} => Categories(e) = <<>>
      /\ lookup(d, a) \notin {LookupError, NoEntry} =>
           Categories(e) = category_array(lookup(d, a))
  BY <1>3, <1>4, <1>5 DEF category_array
<1> QED BY <1>2, <1>3, <1>6 DEF e

\* An argument that is not looked up has no categories and fails nothing.
LEMMA NoLookupIs ==
  ASSUME NEW a, NEW d, ~Supported(a) \/ d = NoDatabase
  PROVE  LET e == [arg |-> a, db |-> d]
         IN  ~LooksUp(e) /\ ~Fails(e) /\ Categories(e) = <<>>
BY DEF LooksUp, Fails, Categories

\* A set of positions that may grow by the next one.
LEMMA GrownSet ==
  ASSUME NEW n \in Nat, NEW S \in SUBSET (1..n), NEW T,
         T = S \/ T = S \cup {n + 1}
  PROVE  /\ Cardinality(S) \in Nat
         /\ Cardinality(T) = Cardinality(S) + IF n + 1 \in T THEN 1 ELSE 0
<1>1. IsFiniteSet(S) /\ Cardinality(S) \in Nat
  <2>1. IsFiniteSet(1..n)
    BY FS_Interval
  <2>2. IsFiniteSet(S)
    BY <2>1, FS_Subset
  <2> QED BY <2>2, FS_CardinalityType
<1>2. n + 1 \notin S
  OBVIOUS
<1> QED BY <1>1, <1>2, FS_AddElement

\* An argument more has been evaluated.
LEMMA CountsGrow ==
  ASSUME TypeOK, ConfiguredNames' = ConfiguredNames,
         NEW e \in Evaluated, evaluated' = Append(evaluated, e)
  PROVE  /\ Cardinality(LookedUp)' = Cardinality(LookedUp) + IF LooksUp(e) THEN 1 ELSE 0
         /\ Cardinality(FailedLookups)' =
              Cardinality(FailedLookups) + IF Fails(e) THEN 1 ELSE 0
         /\ \A name : Cardinality(BlockedBy(name)') = Cardinality(BlockedBy(name)) +
                        IF IsFirst(name, Categories(e)) THEN 1 ELSE 0
<1> DEFINE n == Len(evaluated)
<1>1. evaluated \in Seq(Evaluated) /\ n \in Nat /\ DOMAIN evaluated = 1..n
  BY LenProperties DEF TypeOK, DataOK, Evaluated, Snapshots
<1>2. /\ DOMAIN evaluated' = 1..(n + 1) /\ evaluated'[n + 1] = e
      /\ \A i \in 1..n : evaluated'[i] = evaluated[i]
  BY <1>1
<1> HIDE DEF n
<1>3. Cardinality(LookedUp)' = Cardinality(LookedUp) + IF LooksUp(e) THEN 1 ELSE 0
  <2>1. LookedUp \in SUBSET (1..n)
    BY <1>1 DEF LookedUp
  <2>2. LookedUp' = LookedUp \cup (IF LooksUp(e) THEN {n + 1} ELSE {})
    BY <1>1, <1>2 DEF LookedUp
  <2>3. /\ n + 1 \in LookedUp' <=> LooksUp(e)
        /\ LookedUp' = LookedUp \/ LookedUp' = LookedUp \cup {n + 1}
    BY <1>1, <2>1, <2>2
  <2>4. Cardinality(LookedUp') = Cardinality(LookedUp) + IF n + 1 \in LookedUp' THEN 1 ELSE 0
    BY <1>1, <2>1, <2>3, GrownSet
  <2> QED BY <2>3, <2>4
<1>4. Cardinality(FailedLookups)' = Cardinality(FailedLookups) + IF Fails(e) THEN 1 ELSE 0
  <2>1. FailedLookups \in SUBSET (1..n)
    BY <1>1 DEF FailedLookups
  <2>2. FailedLookups' = FailedLookups \cup (IF Fails(e) THEN {n + 1} ELSE {})
    BY <1>1, <1>2 DEF FailedLookups
  <2>3. /\ n + 1 \in FailedLookups' <=> Fails(e)
        /\ FailedLookups' = FailedLookups \/ FailedLookups' = FailedLookups \cup {n + 1}
    BY <1>1, <2>1, <2>2
  <2>4. Cardinality(FailedLookups') = Cardinality(FailedLookups) + IF n + 1 \in FailedLookups' THEN 1 ELSE 0
    BY <1>1, <2>1, <2>3, GrownSet
  <2> QED BY <2>3, <2>4
<1>5. ASSUME NEW name
      PROVE  Cardinality(BlockedBy(name)') = Cardinality(BlockedBy(name)) +
                        IF IsFirst(name, Categories(e)) THEN 1 ELSE 0
  <2>1. BlockedBy(name) \in SUBSET (1..n)
    BY <1>1 DEF BlockedBy
  <2>2. \A cs : IsFirst(name, cs)' = IsFirst(name, cs)
    BY FirstIsStable
  <2>3. BlockedBy(name)' = BlockedBy(name) \cup
          (IF IsFirst(name, Categories(e)) THEN {n + 1} ELSE {})
    BY <1>1, <1>2, <2>2 DEF BlockedBy
  <2>4. /\ n + 1 \in BlockedBy(name)' <=> IsFirst(name, Categories(e))
        /\ BlockedBy(name)' = BlockedBy(name) \/ BlockedBy(name)' = BlockedBy(name) \cup {n + 1}
    BY <1>1, <2>1, <2>3
  <2>5. Cardinality(BlockedBy(name)') = Cardinality(BlockedBy(name)) +
          IF n + 1 \in BlockedBy(name)' THEN 1 ELSE 0
    BY <1>1, <2>1, <2>4, GrownSet
  <2> QED BY <2>4, <2>5
<1> QED BY <1>3, <1>4, <1>5
-----------------------------------------------------------------------------
(***************************************************************************)
(* The loop over the categories.                                           *)
(***************************************************************************)
\* Every step keeps the names that have a counter.
LEMMA NextNames == ASSUME TypeOK, NamesInv, [Next]_vars PROVE NamesInv'
<1>1. ConfiguredNames' = ConfiguredNames
  BY NamesStable
<1>2. CASE VisitCategory
  BY <1>1, <1>2 DEF VisitCategory, match_and_increment, NamesInv
<1>3. CASE ~VisitCategory
  <2>1. blocked' = blocked
    BY <1>3 DEF Next, vars, Publish, BeginNotify, BeginArgument, evaluate_argument,
         evaluate_lookup, SkipCorrupt, EndLookup, Answer, counters
  <2> QED BY <1>1, <2>1 DEF NamesInv
<1> QED BY <1>2, <1>3

\* When the loop is over, matched says what the argument is.
LEMMA VisitEnd ==
  ASSUME TypeOK, NamesInv, VisitInv, visiting, index = Len(array)
  PROVE  LET e == InFrame(done + 1)
         IN  /\ LooksUp(e) /\ ~Fails(e)
             /\ Flagged(e) <=> matched # Empty
             /\ \A name \in ConfiguredNames :
                  IsFirst(name, Categories(e)) <=> matched = name
<1> DEFINE e == InFrame(done + 1)
<1>1. LooksUp(e) /\ ~Fails(e) /\ array = Categories(e)
  BY DEF VisitInv
<1> HIDE DEF e
<1>2. array \in Seq(Text \cup {Corrupt}) /\ DOMAIN array = 1..index /\ index \in Nat
  BY LenProperties DEF TypeOK, DataOK
<1>3. \A name \in ConfiguredNames : name # Empty
  BY DEF NamesInv
<1>4. CASE matched = Empty
  <2>1. \A j \in 1..index : array[j] \notin ConfiguredNames
    BY <1>4 DEF VisitInv
  <2>2. ~Flagged(e)
    BY <1>1, <1>2, <2>1 DEF Flagged
  <2>3. \A name \in ConfiguredNames : ~IsFirst(name, Categories(e))
    BY <1>1, <1>2, <2>1 DEF IsFirst
  <2> QED BY <1>1, <1>3, <1>4, <2>2, <2>3 DEF e
<1>5. CASE matched # Empty
  <2>1. IsFirst(matched, Categories(e))
    BY <1>1, <1>5 DEF VisitInv
  <2>2. Flagged(e)
    BY <2>1 DEF IsFirst, FirstAt, Flagged
  <2>3. \A name \in ConfiguredNames : IsFirst(name, Categories(e)) <=> matched = name
    BY <1>1, <1>2, <2>1, FirstIsUnique
  <2> QED BY <1>1, <1>5, <2>2, <2>3 DEF e
<1> QED BY <1>4, <1>5

\* Every step keeps what the loop has found so far.
LEMMA NextVisit == ASSUME TypeOK, NamesInv, VisitInv, [Next]_vars PROVE VisitInv'
<1> USE DEF vars, notify, visit, progress
<1>1. ConfiguredNames' = ConfiguredNames
  BY NamesStable
<1>2. ASSUME UNCHANGED <<visit, frame, db, done>> PROVE VisitInv'
  <2>1. IsFirst(matched, array)' <=> IsFirst(matched, array)
    BY <1>1, <1>2 DEF IsFirst, FirstAt
  <2>2. InFrame(done + 1)' = InFrame(done + 1)
    BY <1>2 DEF InFrame
  <2>3. visiting' => /\ LooksUp(InFrame(done + 1))' /\ ~Fails(InFrame(done + 1))'
                     /\ array' = Categories(InFrame(done + 1))'
    BY <1>2, <2>2 DEF VisitInv
  <2> QED BY <1>1, <1>2, <2>1, <2>3 DEF VisitInv
<1>3. ASSUME ~visiting', matched' = Empty PROVE VisitInv'
  BY <1>3, Zenon DEF VisitInv
<1>4. ASSUME NEW log \in BOOLEAN, BeginArgument(log) PROVE VisitInv'
  <2>1. /\ busy /\ ~visiting /\ done < Len(frame) /\ UNCHANGED <<frame, db>>
    BY <1>4, BeginArgumentCases
  <2>2. CASE EndArgument /\ UNCHANGED visit
    BY <1>3, <2>1, <2>2 DEF VisitInv
  <2>3. CASE /\ Supported(frame[done + 1]) /\ db # NoDatabase
             /\ evaluate_lookup(lookup(db, frame[done + 1]), log)
             /\ ~(EndArgument /\ UNCHANGED visit)
    <3> DEFINE entry == lookup(db, frame[done + 1])
    <3>1. /\ entry \notin {LookupError, NoEntry} /\ UNCHANGED done /\ visiting' = TRUE
          /\ array' = category_array(entry) /\ index' = 0 /\ matched' = Empty
      BY <2>3 DEF evaluate_lookup
    <3>2. db \in Databases /\ frame[done + 1] \in Argument
      BY <2>1, <2>3 DEF TypeOK, DataOK
    <3>3. /\ LooksUp(InFrame(done + 1)) /\ ~Fails(InFrame(done + 1))
          /\ array' = Categories(InFrame(done + 1))
      BY <2>3, <3>1, <3>2, LookupIs DEF InFrame
    <3>4. InFrame(done + 1)' = InFrame(done + 1)
      BY <2>1, <3>1 DEF InFrame
    <3>5. /\ LooksUp(InFrame(done + 1))' /\ ~Fails(InFrame(done + 1))'
          /\ array' = Categories(InFrame(done + 1))'
      BY <3>3, <3>4
    <3> HIDE DEF entry
    <3> QED BY <3>1, <3>5 DEF VisitInv
  <2> QED BY <1>4, <2>2, <2>3, BeginArgumentCases
<1>5. CASE VisitCategory
  <2> DEFINE c == array[index + 1]
  <2>1. /\ visiting /\ index < Len(array) /\ match_and_increment(c)
        /\ UNCHANGED <<visiting, array, frame, db, done>>
        /\ matched' = Empty => index' = index + 1
    BY <1>5 DEF VisitCategory, RestOfVisit
  <2>2. index \in Nat /\ index + 1 \in DOMAIN array
    BY <2>1, LenProperties DEF TypeOK, DataOK
  <2>3. matched' = IF matched = Empty /\ c \in ConfiguredNames THEN c ELSE matched
    BY <2>1 DEF match_and_increment, NamesInv
  <2>4. CASE matched = Empty /\ c \in ConfiguredNames
    <3>1. FirstAt(array, index + 1)
      BY <2>1, <2>2, <2>4 DEF VisitInv, FirstAt
    <3>2. IsFirst(c, array)
      BY <2>2, <3>1 DEF IsFirst
    <3>3. matched' # Empty /\ IsFirst(matched, array)'
      <4>1. matched' = c /\ array' = array /\ c # Empty
        BY <2>1, <2>3, <2>4 DEF NamesInv
      <4>2. IsFirst(c, array)
        BY <3>2
      <4> HIDE DEF c
      <4> QED BY <1>1, <4>1, <4>2 DEF IsFirst, FirstAt
    <3> QED BY <2>1, <3>3 DEF VisitInv, InFrame
  <2>5. CASE matched = Empty /\ c \notin ConfiguredNames
    <3>1. matched' = Empty /\ index' = index + 1
      BY <2>1, <2>3, <2>5
    <3>2. \A j \in 1..index' : array'[j] \notin ConfiguredNames'
      BY <1>1, <2>1, <2>2, <2>5, <3>1 DEF VisitInv
    <3> QED BY <2>1, <3>1, <3>2 DEF VisitInv, InFrame
  <2>6. CASE matched # Empty
    <3>1. matched' = matched
      BY <2>3, <2>6
    <3>2. IsFirst(matched, array)'
      BY <1>1, <2>1, <2>6, <3>1 DEF VisitInv, IsFirst, FirstAt
    <3> QED BY <2>1, <2>6, <3>1, <3>2 DEF VisitInv, InFrame
  <2> QED BY <2>4, <2>5, <2>6
<1>6. CASE SkipCorrupt
  <2>1. /\ visiting /\ index < Len(array) /\ array[index + 1] = Corrupt
        /\ UNCHANGED <<visiting, array, frame, db, done, matched>> /\ index' = index + 1
    BY <1>6 DEF SkipCorrupt, RestOfVisit
  <2>2. Corrupt \notin ConfiguredNames /\ index \in Nat
    BY MarkersAreDistinct DEF NamesInv, TypeOK, DataOK
  <2>3. matched = Empty => \A j \in 1..index' : array'[j] \notin ConfiguredNames'
    BY <1>1, <2>1, <2>2 DEF VisitInv
  <2>4. matched # Empty => IsFirst(matched, array)'
    BY <1>1, <2>1 DEF VisitInv, IsFirst, FirstAt
  <2> QED BY <2>1, <2>3, <2>4 DEF VisitInv, InFrame
<1>7. CASE EndLookup
  BY <1>3, <1>7 DEF EndLookup
<1>8. ASSUME NEW f \in Frames, BeginNotify(f) PROVE VisitInv'
  BY <1>3, <1>8 DEF BeginNotify, VisitInv, TypeOK, FlagsOK
<1>9. CASE Answer
  BY <1>3, <1>9 DEF Answer, VisitInv
<1>10. ASSUME NEW d \in Databases, Publish(d) PROVE VisitInv'
  BY <1>2, <1>10 DEF Publish
<1>11. CASE UNCHANGED vars
  BY <1>2, <1>11
<1> QED BY <1>4, <1>5, <1>6, <1>7, <1>8, <1>9, <1>10, <1>11 DEF Next
-----------------------------------------------------------------------------
(***************************************************************************)
(* The flags of a frame.                                                   *)
(***************************************************************************)
\* An argument more has been evaluated, and the flags say what it is.
LEMMA FlagsFollow ==
  ASSUME TypeOK, FrameInv, busy, done < Len(frame), done' = done + 1,
         UNCHANGED <<frame, db>>, ConfiguredNames' = ConfiguredNames,
         ip_bad' <=> (ip_bad \/ Flagged(InFrame(done + 1))),
         not_implemented' <=> (not_implemented \/ ~Supported(frame[done + 1]))
  PROVE  FrameInv'
<1>1. done \in Nat /\ 1..done' = (1..done) \cup {done + 1}
  BY DEF TypeOK, DataOK
<1>2. \A k : Flagged(InFrame(k))' <=> Flagged(InFrame(k))
  BY DEF Flagged, InFrame
<1>3. ip_bad' <=> \E k \in 1..done' : Flagged(InFrame(k))
  BY <1>1 DEF FrameInv
<1>4. not_implemented' <=> \E k \in 1..done' : ~Supported(frame[k])
  BY <1>1 DEF FrameInv
<1>5. (\E k \in 1..done : ~Supported(frame[k]))' <=> \E k \in 1..done' : ~Supported(frame[k])
  OBVIOUS
<1> QED BY <1>2, <1>3, <1>4, <1>5 DEF FrameInv

\* Every step keeps what the flags say.
LEMMA NextFrame ==
  ASSUME TypeOK, NamesInv, VisitInv, FrameInv, [Next]_vars
  PROVE  FrameInv'
<1> USE DEF vars, notify, verdict, visit, counters, progress
<1>1. ConfiguredNames' = ConfiguredNames
  BY NamesStable
<1>2. ASSUME UNCHANGED <<notify, verdict, done>> PROVE FrameInv'
  <2>1. \A k : Flagged(InFrame(k))' <=> Flagged(InFrame(k))
    BY <1>1, <1>2 DEF Flagged, InFrame
  <2> QED BY <1>2, <2>1 DEF FrameInv
<1>3. ASSUME NEW f \in Frames, BeginNotify(f) PROVE FrameInv'
  <2>1. done' = 0 /\ ip_bad' = FALSE /\ not_implemented' = FALSE
    BY <1>3 DEF BeginNotify
  <2>2. 1..done' = {}
    BY <2>1
  <2> QED BY <2>1, <2>2 DEF FrameInv
<1>4. ASSUME NEW log \in BOOLEAN, BeginArgument(log) PROVE FrameInv'
  <2> DEFINE e == InFrame(done + 1)
  <2>1. /\ busy /\ ~visiting /\ done < Len(frame)
        /\ UNCHANGED <<config, published, answers, notify, blocked, ip_bad>>
        /\ frame[done + 1] \in Argument
    <3>1. /\ busy /\ ~visiting /\ done < Len(frame)
          /\ UNCHANGED <<config, published, answers, notify, blocked, ip_bad>>
      BY <1>4, BeginArgumentCases
    <3>2. frame[done + 1] \in Argument
      BY <3>1 DEF TypeOK, DataOK
    <3> QED BY <3>1, <3>2
  <2>2. CASE /\ EndArgument
             /\ ~Supported(frame[done + 1]) /\ not_implemented' = TRUE
    <3>1. ~Flagged(e)
      BY <2>2, NoLookupIs, NothingFound DEF InFrame
    <3>2. done' = done + 1
      BY <2>2 DEF EndArgument
    <3> QED BY <1>1, <2>1, <2>2, <3>1, <3>2, FlagsFollow
  <2>3. CASE /\ EndArgument
             /\ Supported(frame[done + 1]) /\ db = NoDatabase
             /\ UNCHANGED not_implemented
    <3>1. ~Flagged(e)
      BY <2>3, NoLookupIs, NothingFound DEF InFrame
    <3>2. done' = done + 1
      BY <2>3 DEF EndArgument
    <3> QED BY <1>1, <2>1, <2>3, <3>1, <3>2, FlagsFollow
  <2>4. CASE /\ Supported(frame[done + 1]) /\ db # NoDatabase
             /\ UNCHANGED <<not_implemented, blocked, ip_bad>>
             /\ evaluate_lookup(lookup(db, frame[done + 1]), log)
    <3>1. CASE UNCHANGED progress
      BY <1>2, <2>1, <2>4, <3>1
    <3>2. CASE lookup(db, frame[done + 1]) \in {LookupError, NoEntry} /\ EndArgument
      <4>1. db \in Databases
        BY <2>4 DEF TypeOK, DataOK
      <4>2. ~Flagged(e)
        BY <2>1, <2>4, <3>2, <4>1, LookupIs, NothingFound DEF InFrame
      <4>3. done' = done + 1
        BY <3>2 DEF EndArgument
      <4> QED BY <1>1, <2>1, <2>4, <4>2, <4>3, FlagsFollow
    <3> QED BY <2>4, <3>1, <3>2 DEF evaluate_lookup
  <2> QED BY <1>4, <2>2, <2>3, <2>4, BeginArgumentCases
<1>5. CASE VisitCategory \/ SkipCorrupt
  BY <1>2, <1>5 DEF VisitCategory, SkipCorrupt, RestOfVisit
<1>6. CASE EndLookup
  <2>1. /\ visiting /\ index = Len(array) /\ ip_bad' = (ip_bad \/ matched # Empty)
        /\ EndArgument /\ UNCHANGED <<notify, not_implemented>>
    BY <1>6 DEF EndLookup
  <2>2. busy /\ done < Len(frame) /\ done' = done + 1
    BY <2>1 DEF TypeOK, FlagsOK, EndArgument
  <2>3. /\ Supported(frame[done + 1])
        /\ Flagged(InFrame(done + 1)) <=> matched # Empty
    BY <2>1, VisitEnd DEF LooksUp, InFrame
  <2>4. ip_bad' <=> (ip_bad \/ Flagged(InFrame(done + 1)))
    BY <2>1, <2>3, Zenon
  <2> QED BY <1>1, <2>1, <2>2, <2>3, <2>4, FlagsFollow
<1>7. CASE Answer
  BY <1>7 DEF Answer, FrameInv
<1>8. ASSUME NEW d \in Databases, Publish(d) PROVE FrameInv'
  BY <1>2, <1>8 DEF Publish
<1>9. CASE UNCHANGED vars
  BY <1>2, <1>9
<1> QED BY <1>3, <1>4, <1>5, <1>6, <1>7, <1>8, <1>9 DEF Next
-----------------------------------------------------------------------------
(***************************************************************************)
(* The counters of the shard.                                              *)
(***************************************************************************)
\* The counts are numbers: the history is finite.
LEMMA CountsAreNat ==
  ASSUME TypeOK
  PROVE  /\ Cardinality(LookedUp) \in Nat /\ Cardinality(FailedLookups) \in Nat
         /\ \A name : Cardinality(BlockedBy(name)) \in Nat
<1>1. DOMAIN evaluated = 1..Len(evaluated) /\ Len(evaluated) \in Nat
  BY LenProperties DEF TypeOK, DataOK
<1>2. ASSUME NEW S, S \subseteq DOMAIN evaluated PROVE Cardinality(S) \in Nat
  BY <1>1, <1>2, GrownSet
<1>3. Cardinality(LookedUp) \in Nat /\ Cardinality(FailedLookups) \in Nat
  BY <1>2 DEF LookedUp, FailedLookups
<1>4. ASSUME NEW name PROVE Cardinality(BlockedBy(name)) \in Nat
  BY <1>2 DEF BlockedBy
<1> QED BY <1>3, <1>4

\* The step evaluates no argument to its end.
LEMMA CountsStay ==
  ASSUME ConfiguredNames' = ConfiguredNames, evaluated' = evaluated
  PROVE  /\ LookedUp' = LookedUp /\ FailedLookups' = FailedLookups
         /\ \A name : BlockedBy(name)' = BlockedBy(name)
<1>1. \A name, cs : IsFirst(name, cs)' = IsFirst(name, cs)
  BY FirstIsStable
<1> QED BY <1>1 DEF LookedUp, FailedLookups, BlockedBy

\* An argument is evaluated to its end without a visit of categories.
LEMMA EndWithoutVisit ==
  ASSUME TypeOK, CountInv, ConfiguredNames' = ConfiguredNames, EndArgument,
         done < Len(frame), ~visiting, ~visiting', blocked' = blocked,
         Categories(InFrame(done + 1)) = <<>>,
         lookups' = lookups + IF LooksUp(InFrame(done + 1)) THEN 1 ELSE 0,
         lookup_errors' = lookup_errors + IF Fails(InFrame(done + 1)) THEN 1 ELSE 0
  PROVE  CountInv'
<1> DEFINE e == InFrame(done + 1)
<1>1. e \in Evaluated /\ evaluated' = Append(evaluated, e)
  BY EndArgumentType
<1>2. \A name : ~IsFirst(name, Categories(e))
  BY NothingFound
<1>3. Cardinality(LookedUp)' = Cardinality(LookedUp) + IF LooksUp(e) THEN 1 ELSE 0
  BY <1>1, CountsGrow
<1>4. Cardinality(FailedLookups)' = Cardinality(FailedLookups) + IF Fails(e) THEN 1 ELSE 0
  BY <1>1, CountsGrow
<1>5. \A name : Cardinality(BlockedBy(name)') = Cardinality(BlockedBy(name)) + 0
  BY <1>1, <1>2, CountsGrow
<1> HIDE DEF e
<1>6. lookups' = Cardinality(LookedUp)' + 0 /\ lookup_errors' = Cardinality(FailedLookups)'
  BY <1>3, <1>4, CountsAreNat DEF CountInv, e
<1>7. \A name \in ConfiguredNames : blocked'[name] = Cardinality(BlockedBy(name)') + 0
  BY <1>5, CountsAreNat DEF CountInv
<1> QED BY <1>6, <1>7 DEF CountInv

\* Every step keeps what the counters say.
LEMMA NextCount ==
  ASSUME TypeOK, NamesInv, VisitInv, CountInv, [Next]_vars
  PROVE  CountInv'
<1> USE DEF vars, notify, verdict, visit, counters, progress
<1>1. ConfiguredNames' = ConfiguredNames
  BY NamesStable
<1>2. ASSUME UNCHANGED <<visiting, matched, counters, evaluated>> PROVE CountInv'
  BY <1>1, <1>2, CountsStay DEF CountInv
<1>3. ASSUME NEW log \in BOOLEAN, BeginArgument(log) PROVE CountInv'
  <2> DEFINE e == InFrame(done + 1)
  <2>1. /\ busy /\ ~visiting /\ done < Len(frame)
        /\ UNCHANGED <<config, published, answers, notify, blocked, ip_bad>>
    BY <1>3, BeginArgumentCases
  <2>2. frame[done + 1] \in Argument
    BY <2>1 DEF TypeOK, DataOK
  <2>3. CASE /\ EndArgument /\ UNCHANGED <<visit, lookups, lookup_errors>>
             /\ ~Supported(frame[done + 1]) \/ db = NoDatabase
    <3>1. ~LooksUp(e) /\ ~Fails(e) /\ Categories(e) = <<>>
      BY <2>3, NoLookupIs DEF InFrame
    <3>2. lookups' = lookups + 0 /\ lookup_errors' = lookup_errors + 0
      BY <2>3 DEF TypeOK, DataOK
    <3> QED BY <1>1, <2>1, <2>3, <3>1, <3>2, EndWithoutVisit
  <2>4. CASE /\ Supported(frame[done + 1]) /\ db # NoDatabase
             /\ evaluate_lookup(lookup(db, frame[done + 1]), log)
    <3> DEFINE entry == lookup(db, frame[done + 1])
    <3>1. /\ LooksUp(e)
          /\ Fails(e) <=> entry = LookupError
          /\ entry \in {LookupError, NoEntry} => Categories(e) = <<>>
      <4>1. db \in Databases
        BY <2>4 DEF TypeOK, DataOK
      <4> QED BY <2>2, <2>4, <4>1, LookupIs DEF InFrame
    <3>2. /\ lookups' = lookups + 1
          /\ lookup_errors' = lookup_errors + IF entry = LookupError THEN 1 ELSE 0
      BY <2>4 DEF evaluate_lookup
    <3>3. CASE entry \in {LookupError, NoEntry} /\ EndArgument /\ UNCHANGED visit
      BY <1>1, <2>1, <3>1, <3>2, <3>3, EndWithoutVisit
    <3>4. CASE /\ entry \notin {LookupError, NoEntry} /\ UNCHANGED progress
               /\ visiting' = TRUE /\ matched' = Empty
      <4>1. LookedUp' = LookedUp /\ FailedLookups' = FailedLookups
              /\ \A name : BlockedBy(name)' = BlockedBy(name)
        BY <1>1, <3>4, CountsStay
      <4>2. lookups' = Cardinality(LookedUp)' + 1
        BY <2>1, <3>2, <4>1, CountsAreNat DEF CountInv
      <4>3. lookup_errors' = Cardinality(FailedLookups)'
        BY <3>2, <3>4, <4>1 DEF CountInv, TypeOK, DataOK
      <4>4. \A name \in ConfiguredNames' : matched' # name /\
              blocked'[name] = Cardinality(BlockedBy(name)') + 0
        BY <1>1, <2>1, <3>4, <4>1 DEF CountInv, NamesInv
      <4> QED BY <3>4, <4>2, <4>3, <4>4 DEF CountInv
    <3> QED BY <2>4, <3>3, <3>4 DEF evaluate_lookup
  <2> QED BY <1>3, <2>3, <2>4, BeginArgumentCases
<1>4. CASE VisitCategory
  <2> DEFINE c == array[index + 1]
             match == matched = Empty /\ c \in ConfiguredNames
  <2>1. /\ visiting /\ visiting' /\ UNCHANGED <<evaluated, lookups, lookup_errors>>
        /\ match_and_increment(c)
    BY <1>4 DEF VisitCategory, RestOfVisit
  <2>2. /\ matched' = IF match THEN c ELSE matched
        /\ blocked' = [name \in ConfiguredNames |->
                         blocked[name] + IF match /\ name = c THEN 1 ELSE 0]
    BY <2>1 DEF match_and_increment, NamesInv
  <2>3. LookedUp' = LookedUp /\ FailedLookups' = FailedLookups
          /\ \A name : BlockedBy(name)' = BlockedBy(name)
    BY <1>1, <2>1, CountsStay
  <2>4. ASSUME NEW name \in ConfiguredNames
        PROVE  blocked'[name] = Cardinality(BlockedBy(name)) + IF matched' = name THEN 1 ELSE 0
    <3>1. /\ name # Empty
          /\ blocked[name] = Cardinality(BlockedBy(name)) + IF matched = name THEN 1 ELSE 0
          /\ blocked[name] \in Nat
      BY <2>1 DEF NamesInv, CountInv, TypeOK, DataOK
    <3>2. blocked'[name] = blocked[name] + IF match /\ name = c THEN 1 ELSE 0
      BY <2>2
    <3>3. CASE match
      <4>1. blocked[name] = Cardinality(BlockedBy(name)) + 0
        BY <3>1, <3>3
      <4> QED BY <2>2, <3>1, <3>2, <3>3, <4>1, CountsAreNat
    <3>4. CASE ~match
      BY <2>2, <3>1, <3>2, <3>4
    <3> QED BY <3>3, <3>4
  <2> HIDE DEF c, match
  <2>5. \A name \in ConfiguredNames' :
          blocked'[name] = Cardinality(BlockedBy(name)') + IF matched' = name THEN 1 ELSE 0
    BY <1>1, <2>3, <2>4
  <2>6. /\ lookups' = Cardinality(LookedUp)' + IF visiting' THEN 1 ELSE 0
        /\ lookup_errors' = Cardinality(FailedLookups)'
    BY <2>1, <2>3 DEF CountInv
  <2> QED BY <2>1, <2>5, <2>6 DEF CountInv
<1>5. CASE SkipCorrupt
  BY <1>2, <1>5 DEF SkipCorrupt, RestOfVisit
<1>6. CASE EndLookup
  <2> DEFINE e == InFrame(done + 1)
  <2>1. /\ visiting /\ index = Len(array) /\ EndArgument /\ UNCHANGED counters
        /\ ~visiting' /\ done < Len(frame)
    BY <1>6 DEF EndLookup, TypeOK
  <2>2. e \in Evaluated /\ evaluated' = Append(evaluated, e)
    BY <2>1, EndArgumentType
  <2>3. /\ LooksUp(e) /\ ~Fails(e)
        /\ \A name \in ConfiguredNames : IsFirst(name, Categories(e)) <=> matched = name
    BY <2>1, VisitEnd
  <2>4. Cardinality(LookedUp)' = Cardinality(LookedUp) + 1
    BY <1>1, <2>2, <2>3, CountsGrow
  <2>5. Cardinality(FailedLookups)' = Cardinality(FailedLookups) + 0
    BY <1>1, <2>2, <2>3, CountsGrow
  <2>6. \A name \in ConfiguredNames : Cardinality(BlockedBy(name)') =
          Cardinality(BlockedBy(name)) + IF matched = name THEN 1 ELSE 0
    BY <1>1, <2>2, <2>3, CountsGrow
  <2> HIDE DEF e
  <2>7. /\ lookups' = Cardinality(LookedUp)' + 0
        /\ lookup_errors' = Cardinality(FailedLookups)'
    BY <2>1, <2>4, <2>5 DEF CountInv, TypeOK, DataOK
  <2>8. \A name \in ConfiguredNames' : blocked'[name] = Cardinality(BlockedBy(name)') + 0
    <3>1. \A name \in ConfiguredNames : blocked[name] \in Nat
      BY DEF NamesInv, TypeOK, DataOK
    <3>2. \A name \in ConfiguredNames :
            blocked[name] = Cardinality(BlockedBy(name)') /\ blocked[name] \in Nat
      BY <2>1, <2>6, <3>1 DEF CountInv
    <3> QED BY <1>1, <2>1, <3>2
  <2> QED BY <2>1, <2>7, <2>8 DEF CountInv
<1>7. ASSUME NEW f \in Frames, BeginNotify(f) PROVE CountInv'
  BY <1>2, <1>7 DEF BeginNotify
<1>8. CASE Answer
  BY <1>2, <1>8 DEF Answer
<1>9. ASSUME NEW d \in Databases, Publish(d) PROVE CountInv'
  BY <1>2, <1>9 DEF Publish
<1>10. CASE UNCHANGED vars
  BY <1>2, <1>10
<1> QED BY <1>3, <1>4, <1>5, <1>6, <1>7, <1>8, <1>9, <1>10 DEF Next
-----------------------------------------------------------------------------
(***************************************************************************)
(* The answers.                                                            *)
(***************************************************************************)
\* Every step keeps the answers right.
LEMMA NextVerdict ==
  ASSUME TypeOK, FrameInv, VerdictIsRight, [Next]_vars
  PROVE  VerdictIsRight'
<1> USE DEF vars
<1>1. ConfiguredNames' = ConfiguredNames
  BY NamesStable
<1>2. CASE Answer
  <2> DEFINE word == IF not_implemented THEN "disconnect" ELSE IF ip_bad THEN "bad" ELSE "good"
             a == [frame |-> frame, db |-> db, answer |-> word]
  <2>1. busy /\ done = Len(frame) /\ answers' = Append(answers, a)
    BY <1>2 DEF Answer
  <2>2. DOMAIN frame = 1..done
    BY <2>1, LenProperties DEF TypeOK, DataOK
  <2>3. /\ ip_bad <=> \E k \in DOMAIN frame : Flagged([arg |-> frame[k], db |-> db])
        /\ not_implemented <=> \E k \in DOMAIN frame : ~Supported(frame[k])
    BY <2>1, <2>2 DEF FrameInv, InFrame
  <2>4. word = Verdict(frame, db)
    BY <2>3 DEF Verdict
  <2> HIDE DEF word
  <2>5. a.answer = Verdict(a.frame, a.db)
    BY <2>4
  <2>6. /\ DOMAIN answers = 1..Len(answers) /\ Len(answers) \in Nat
        /\ DOMAIN answers' = 1..(Len(answers) + 1)
        /\ answers'[Len(answers) + 1] = a
        /\ \A i \in 1..Len(answers) : answers'[i] = answers[i]
    <3> HIDE DEF a
    <3> QED BY <2>1, LenProperties DEF TypeOK, DataOK
  <2> HIDE DEF a
  <2>7. ASSUME NEW i \in DOMAIN answers'
        PROVE  answers'[i].answer = Verdict(answers'[i].frame, answers'[i].db)
    <3>1. CASE i = Len(answers) + 1
      BY <2>5, <2>6, <3>1
    <3>2. CASE i # Len(answers) + 1
      <4>1. i \in DOMAIN answers /\ answers'[i] = answers[i]
        BY <2>6, <3>2
      <4> QED BY <4>1 DEF VerdictIsRight
    <3> QED BY <3>1, <3>2
  <2>8. ASSUME NEW i \in DOMAIN answers'
        PROVE  (answers[i].answer = Verdict(answers[i].frame, answers[i].db))'
    BY <1>1, <2>7 DEF Verdict, Flagged
  <2> QED BY <2>8 DEF VerdictIsRight
<1>3. CASE ~Answer
  <2>1. answers' = answers
    BY <1>3 DEF Next, Publish, BeginNotify, BeginArgument, VisitCategory, SkipCorrupt,
         RestOfVisit, EndLookup
  <2> QED BY <1>1, <2>1 DEF VerdictIsRight, Verdict, Flagged
<1> QED BY <1>2, <1>3

(***************************************************************************)
(* Every state of the evaluation satisfies the invariant.                  *)
(***************************************************************************)
THEOREM EvaluationIsInvariant == Spec => []EvaluationInv
<1>1. Init => EvaluationInv
  <2> SUFFICES ASSUME Init PROVE EvaluationInv
    OBVIOUS
  <2>1. TypeOK
    BY InitType
  <2>2. NamesInv
    BY LoadIsConfigured DEF Init, NamesInv
  <2>3. VisitInv
    BY Zenon DEF Init, VisitInv
  <2>4. FrameInv
    BY Zenon DEF Init, FrameInv
  <2>5. CountInv
    <3>1. LookedUp = {} /\ FailedLookups = {} /\ \A name : BlockedBy(name) = {}
      BY DEF Init, LookedUp, FailedLookups, BlockedBy
    <3>2. Cardinality({}) = 0
      BY FS_EmptySet
    <3>3. lookups = 0 /\ lookup_errors = 0 /\ ~visiting
      BY Zenon DEF Init
    <3>4. \A name \in ConfiguredNames : blocked[name] = 0
      BY <2>2 DEF Init, load, NamesInv
    <3> QED BY <3>1, <3>2, <3>3, <3>4 DEF CountInv
  <2>6. VerdictIsRight
    BY DEF Init, VerdictIsRight
  <2> QED BY <2>1, <2>2, <2>3, <2>4, <2>5, <2>6 DEF EvaluationInv
<1>2. EvaluationInv /\ [Next]_vars => EvaluationInv'
  BY NextType, NextNames, NextVisit, NextFrame, NextCount, NextVerdict DEF EvaluationInv
<1> QED BY <1>1, <1>2, PTL DEF Spec

(***************************************************************************)
(* A frame is answered by what the database that was current when it       *)
(* arrived says of all its arguments, for every configured list, all       *)
(* databases and all frames (spoa_agent.cpp:67-177).                       *)
(***************************************************************************)
THEOREM Verdicts == Spec => []VerdictIsRight
BY EvaluationIsInvariant, PTL DEF EvaluationInv

(***************************************************************************)
(* Between two lookups the counters of the shard tell exactly what has     *)
(* been evaluated, logged or not (drop_categories.cpp:9-54,                *)
(* spoa_agent.cpp:30-65).                                                  *)
(***************************************************************************)
THEOREM Counters == Spec => []CountersAgree
<1>1. EvaluationInv => CountersAgree
  <2> SUFFICES ASSUME EvaluationInv, ~visiting PROVE FirstMatchCounted /\ LookupsCounted
    BY DEF CountersAgree
  <2> TypeOK /\ NamesInv /\ CountInv
    BY DEF EvaluationInv
  <2>1. LookupsCounted
    BY CountsAreNat DEF CountInv, LookupsCounted
  <2>2. \A name \in ConfiguredNames : blocked[name] = Cardinality(BlockedBy(name))
    BY CountsAreNat DEF CountInv
  <2>3. blocked = [name \in DOMAIN blocked |-> blocked[name]]
    BY DEF TypeOK, DataOK
  <2>4. FirstMatchCounted
    BY <2>2, <2>3 DEF FirstMatchCounted, NamesInv
  <2> QED BY <2>1, <2>4
<1> QED BY <1>1, EvaluationIsInvariant, PTL
=============================================================================
