---------------------------- MODULE SpoaEvaluation ----------------------------
(***************************************************************************)
(* What SpoaAgent::handle_notify decides (src/spoa/spoa_agent.cpp): every  *)
(* argument of a NOTIFY frame is looked up in one snapshot of the          *)
(* database, its categories are compared one by one with the configured    *)
(* ones (src/spoa/drop_categories.cpp) and the counters of the shard go    *)
(* up.  The watcher, another thread, publishes databases meanwhile.        *)
(*                                                                         *)
(* A text is a sequence of letters, Blank being whitespace.  An address    *)
(* has an entry in a database: NoEntry, LookupError, NotArray (no array    *)
(* under "category"), or the sequence of its categories, in which Corrupt  *)
(* is a member that is not a string.                                       *)
(*                                                                         *)
(* The definitions CountedWhenLogged and SnapshotAgain are not part of the *)
(* specification: each is a plausible mistake in the definition that       *)
(* follows it.                                                             *)
(***************************************************************************)
EXTENDS Naturals, Sequences, FiniteSets

CONSTANTS
  Letters,    \* characters
  Addresses,  \* addresses, and whatever getaddrinfo resolves to one
  Configs,    \* values of the configured list: sequences of texts
  Databases,  \* functions from addresses to entries
  Frames,     \* sequences of arguments
  NoDatabase, NoEntry, LookupError, NotArray, Corrupt,
  MaxFrames   \* bound: frames of a behaviour

Text     == Seq(Letters)
Argument == [type : {"IPv4", "IPv6", "String", "other"},
             form : {"v4", "v6", "unusual", "name"}, address : Addresses]
Entry    == Seq(Text \cup {Corrupt}) \cup {NoEntry, LookupError, NotArray}

ASSUME ConstantsAreTyped ==
  /\ Configs \subseteq Seq(Text)
  /\ Databases \subseteq [Addresses -> Entry]
  /\ Frames \subseteq Seq(Argument)

ASSUME MarkersAreDistinct ==
  /\ NoDatabase \notin Databases
  /\ Corrupt \notin Text

VARIABLES
  config,     \* the configured list
  blocked,    \* categories_: a counter for each configured category
  published,  \* the current snapshot of ReloadableMmdb
  busy,       \* a frame is being handled
  frame, db,  \* the frame and the snapshot it retains
  done,       \* how many of its arguments have been evaluated
  ip_bad, not_implemented,
  visiting,   \* for_each_category runs, over
  array,      \* the array of an entry
  index,      \* how many of its members have been visited
  log_categories, matched,
  lookups, lookup_errors,  \* metrics of the shard
  evaluated,  \* history: the arguments evaluated and their database
  answers     \* history: frames, databases when they began, answers

notify   == <<busy, frame, db>>
verdict  == <<ip_bad, not_implemented>>
visit    == <<visiting, array, index, log_categories, matched>>
counters == <<blocked, lookups, lookup_errors>>
progress == <<done, evaluated>>
vars == <<config, published, answers, notify, verdict, visit, counters, progress>>

\* std::string_view{}: no category
Empty == <<>>

\* kWhitespace
Blank == " "
-----------------------------------------------------------------------------
(***************************************************************************)
(* DropCategories::load                                                    *)
(***************************************************************************)
trim(text) ==
  LET solid == {i \in DOMAIN text : text[i] # Blank}
  IN  IF solid = {} THEN Empty
      ELSE SubSeq(text, CHOOSE i \in solid : \A j \in solid : i <= j,
                        CHOOSE i \in solid : \A j \in solid : i >= j)

load(tokens) ==
  [name \in {trim(tokens[i]) : i \in DOMAIN tokens} \ {Empty} |-> 0]

Init ==
  /\ config \in Configs /\ blocked = load(config)
  /\ published \in Databases \cup {NoDatabase}
  /\ busy = FALSE /\ frame = <<>> /\ db = NoDatabase /\ done = 0
  /\ ip_bad = FALSE /\ not_implemented = FALSE
  /\ visiting = FALSE /\ array = <<>> /\ index = 0
  /\ log_categories = FALSE /\ matched = Empty
  /\ lookups = 0 /\ lookup_errors = 0 /\ evaluated = <<>> /\ answers = <<>>

\* The watcher publishes a database (module MmdbReload).
Publish(database) ==
  /\ published # NoDatabase /\ published' = database
  /\ UNCHANGED <<config, answers, notify, verdict, visit, counters, progress>>
-----------------------------------------------------------------------------
(***************************************************************************)
(* Looking up.                                                             *)
(***************************************************************************)
\* Texts that are no usual address go to getaddrinfo, which may refuse them.
lookup_string(database, arg) ==
  IF arg.form = "name" THEN LookupError ELSE database[arg.address]

lookup(database, arg) ==
  IF arg.type = "String" THEN lookup_string(database, arg)
  ELSE database[arg.address]

category_array(entry) == IF entry = NotArray THEN <<>> ELSE entry

\* The database an argument is looked up in.
SnapshotAgain == published
Snapshot      == db

Supported(arg) == arg.type \in {"IPv4", "IPv6", "String"}

\* The loop of handle_notify goes on with the next argument.
EndArgument ==
  /\ evaluated' = Append(evaluated, [arg |-> frame[done + 1], db |-> db])
  /\ done' = done + 1

\* The beginning of evaluate_lookup, up to the loop over the categories.
evaluate_lookup(entry, log) ==
  /\ lookups' = lookups + 1
  /\ lookup_errors' = lookup_errors + IF entry = LookupError THEN 1 ELSE 0
  /\ UNCHANGED <<blocked, verdict>>
  /\ \/ /\ entry \in {LookupError, NoEntry} /\ EndArgument /\ UNCHANGED visit
     \/ /\ entry \notin {LookupError, NoEntry} /\ UNCHANGED progress
        /\ visiting' = TRUE /\ array' = category_array(entry) /\ index' = 0
        /\ log_categories' = log /\ matched' = Empty

evaluate_argument(arg, log) ==
  \/ /\ ~Supported(arg) /\ not_implemented' = TRUE /\ EndArgument
     /\ UNCHANGED <<ip_bad, visit, counters>>
  \/ /\ Supported(arg) /\ Snapshot = NoDatabase /\ EndArgument
     /\ UNCHANGED <<verdict, visit, counters>>
  \/ /\ Supported(arg) /\ Snapshot # NoDatabase
     /\ evaluate_lookup(lookup(Snapshot, arg), log)

BeginArgument(log) ==
  /\ busy /\ ~visiting /\ done < Len(frame)
  /\ evaluate_argument(frame[done + 1], log)
  /\ UNCHANGED <<config, published, answers, notify>>

(***************************************************************************)
(* for_each_category and its visitor, which goes on after a match only to  *)
(* log.  The category of the visitor's call is the first parameter.        *)
(***************************************************************************)
CountedWhenLogged(category) ==
  /\ matched' = IF category \in DOMAIN blocked THEN category ELSE matched
  /\ blocked' = [name \in DOMAIN blocked |->
                   blocked[name] + IF name = category THEN 1 ELSE 0]

match_and_increment(category) ==
  LET match == matched = Empty /\ category \in DOMAIN blocked
  IN  /\ matched' = IF match THEN category ELSE matched
      /\ blocked' = [name \in DOMAIN blocked |->
                       blocked[name] + IF match /\ name = category THEN 1 ELSE 0]

RestOfVisit ==
  UNCHANGED <<config, published, answers, notify, verdict, progress, visiting,
              array, log_categories, lookups, lookup_errors>>

\* category_at reads a string, and the visitor says whether to go on.
VisitCategory ==
  /\ visiting /\ index < Len(array) /\ array[index + 1] # Corrupt
  /\ match_and_increment(array[index + 1])
  /\ index' = IF log_categories \/ matched' = Empty THEN index + 1 ELSE Len(array)
  /\ RestOfVisit

SkipCorrupt ==
  /\ visiting /\ index < Len(array) /\ array[index + 1] = Corrupt
  /\ index' = index + 1 /\ UNCHANGED <<matched, blocked>>
  /\ RestOfVisit

\* The end of evaluate_lookup; its locals are gone.
EndLookup ==
  /\ visiting /\ index = Len(array) /\ visiting' = FALSE
  /\ ip_bad' = (ip_bad \/ matched # Empty)
  /\ EndArgument
  /\ array' = <<>> /\ index' = 0 /\ log_categories' = FALSE /\ matched' = Empty
  /\ UNCHANGED <<config, published, answers, notify, not_implemented, counters>>
-----------------------------------------------------------------------------
(***************************************************************************)
(* The beginning and the end of handle_notify.                             *)
(***************************************************************************)
BeginNotify(f) ==
  /\ ~busy /\ Len(answers) < MaxFrames /\ busy' = TRUE
  /\ frame' = f /\ db' = published /\ done' = 0
  /\ ip_bad' = FALSE /\ not_implemented' = FALSE
  /\ UNCHANGED <<config, published, answers, visit, counters, evaluated>>

Answer ==
  /\ busy /\ ~visiting /\ done = Len(frame) /\ busy' = FALSE
  /\ answers' = Append(answers, [frame |-> frame, db |-> db, answer |->
       IF not_implemented THEN "disconnect" ELSE IF ip_bad THEN "bad" ELSE "good"])
  /\ frame' = <<>> /\ db' = NoDatabase /\ done' = 0
  /\ UNCHANGED <<config, published, verdict, visit, counters, evaluated>>

Next ==
  \/ \E database \in Databases : Publish(database)
  \/ \E f \in Frames : BeginNotify(f)
  \/ \E log \in BOOLEAN : BeginArgument(log)
  \/ VisitCategory
  \/ SkipCorrupt
  \/ EndLookup
  \/ Answer

Spec == Init /\ [][Next]_vars
-----------------------------------------------------------------------------
(***************************************************************************)
(* The reference: the first configured category of an argument, if any.    *)
(* The configured categories are the stretches of the texts of the list    *)
(* that begin and end with a letter and have only whitespace around them.  *)
(***************************************************************************)
Stretches(text) ==
  {s \in (DOMAIN text) \X (DOMAIN text) :
     /\ s[1] <= s[2] /\ text[s[1]] # Blank /\ text[s[2]] # Blank
     /\ \A j \in DOMAIN text : j < s[1] \/ j > s[2] => text[j] = Blank}

ConfiguredNames ==
  UNION {{SubSeq(config[i], s[1], s[2]) : s \in Stretches(config[i])} : i \in DOMAIN config}

LooksUp(e)     == Supported(e.arg) /\ e.db # NoDatabase
Fails(e)       == LooksUp(e) /\ (\/ e.db[e.arg.address] = LookupError
                                 \/ e.arg.type = "String" /\ e.arg.form = "name")
Categories(e)  ==
  IF ~LooksUp(e) \/ Fails(e) \/ e.db[e.arg.address] \in {NoEntry, NotArray}
  THEN <<>> ELSE e.db[e.arg.address]

\* The category at position i is the first configured one.
FirstAt(cs, i) ==
  /\ cs[i] \in ConfiguredNames
  /\ \A j \in 1..(i - 1) : cs[j] \notin ConfiguredNames

IsFirst(name, cs) == \E i \in DOMAIN cs : cs[i] = name /\ FirstAt(cs, i)

Flagged(e) == \E i \in DOMAIN Categories(e) : Categories(e)[i] \in ConfiguredNames

\* The answer to a frame by one database.
Verdict(f, d) ==
  IF \E k \in DOMAIN f : ~Supported(f[k]) THEN "disconnect"
  ELSE IF \E k \in DOMAIN f : Flagged([arg |-> f[k], db |-> d]) THEN "bad"
  ELSE "good"

LookedUp        == {i \in DOMAIN evaluated : LooksUp(evaluated[i])}
FailedLookups   == {i \in DOMAIN evaluated : Fails(evaluated[i])}
BlockedBy(name) == {i \in DOMAIN evaluated : IsFirst(name, Categories(evaluated[i]))}
-----------------------------------------------------------------------------
(***************************************************************************)
(* Every variable has its type; the position in a frame and in an array    *)
(* never passes their end.                                                 *)
(***************************************************************************)
FlagsOK ==
  /\ busy \in BOOLEAN /\ ip_bad \in BOOLEAN /\ not_implemented \in BOOLEAN
  /\ visiting \in BOOLEAN /\ log_categories \in BOOLEAN
  /\ visiting => busy

DataOK ==
  /\ config \in Configs /\ published \in Databases \cup {NoDatabase}
  /\ blocked \in [DOMAIN blocked -> Nat] /\ DOMAIN blocked \subseteq Text \ {Empty}
  /\ lookups \in Nat /\ lookup_errors \in Nat
  /\ frame \in Seq(Argument) /\ db \in Databases \cup {NoDatabase}
  /\ done \in 0..Len(frame)
  /\ array \in Seq(Text \cup {Corrupt}) /\ index \in 0..Len(array)
  /\ matched \in {Empty} \cup DOMAIN blocked
  /\ evaluated \in Seq([arg : Argument, db : Databases \cup {NoDatabase}])
  /\ answers \in Seq([frame : Seq(Argument), db : Databases \cup {NoDatabase},
                      answer : {"disconnect", "bad", "good"}])

TypeOK == FlagsOK /\ DataOK /\ (visiting => done < Len(frame))

(***************************************************************************)
(* A frame is answered by what the database that was current when it       *)
(* arrived says of all its arguments: a disconnect if one has a type that  *)
(* is not supported, else "bad" exactly if some argument has a configured  *)
(* category, wherever it stands and whatever else is in the record, though *)
(* the watcher publishes another database between two of its arguments     *)
(* (spoa_agent.cpp:67-177).                                                *)
(***************************************************************************)
VerdictIsRight ==
  \A i \in DOMAIN answers :
    answers[i].answer = Verdict(answers[i].frame, answers[i].db)

(***************************************************************************)
(* "Count only the first configured match in database order"               *)
(* (drop_categories.h:43), whether the line that prints all categories is  *)
(* enabled or not.                                                         *)
(***************************************************************************)
FirstMatchCounted ==
  blocked = [name \in ConfiguredNames |-> Cardinality(BlockedBy(name))]

(***************************************************************************)
(* Every address that is looked up is counted once, and the errors are the *)
(* lookups that failed; texts that only getaddrinfo can read are lookups,  *)
(* not errors.                                                             *)
(***************************************************************************)
LookupsCounted ==
  /\ lookups = Cardinality(LookedUp)
  /\ lookup_errors = Cardinality(FailedLookups)

(***************************************************************************)
(* Whenever no lookup is under way, the counters of the shard tell exactly *)
(* what has been evaluated: each configured category the arguments it was  *)
(* the first of, and every lookup and every failed lookup once             *)
(* (drop_categories.h:43, spoa_agent.cpp:30-65).                           *)
(***************************************************************************)
CountersAgree == ~visiting => FirstMatchCounted /\ LookupsCounted
=============================================================================
