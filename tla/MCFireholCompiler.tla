-------------------------- MODULE MCFireholCompiler --------------------------
(***************************************************************************)
(* Model checking of FireholCompiler with two workers and batches of two   *)
(* networks.  The checkouts: metadata before, between and after networks,  *)
(* a value that changes and changes back, two files that list the same     *)
(* network, an empty file, entries that are no blocklists, bad lines in    *)
(* one or two files, and no blocklist at all.                              *)
(***************************************************************************)
EXTENDS FireholCompiler

Net(n)    == [kind |-> "network", net |-> n]
Key(k, v) == [kind |-> "key", key |-> k, value |-> v]
Other     == [kind |-> "other"]
Invalid   == [kind |-> "invalid"]
BadDate   == [kind |-> "date"]

Entry(order, name, size, lines) ==
  [order |-> order, name |-> name, ext |-> ".netset", size |-> size, lines |-> lines,
   regular |-> TRUE]

Sections == Entry(1, "a", 6, <<Key("category", "x"), Net(1), Key("maintainer", "m"),
                               Key("category", "x"), Net(2), Net(1),
                               Key("maintainer", ""), Net(3), Key("category", "y")>>)
Plain    == Entry(2, "b", 2, <<Other, Net(1), Key("category", "x"), Net(2), Net(3)>>)
Other2   == Entry(3, "c", 2, <<Key("category", "z"), Net(3), Net(4)>>)
Hollow   == Entry(4, "d", 0, <<>>)
BadLate  == Entry(5, "e", 3, <<Net(1), Net(2), Net(5), Invalid>>)
BadFirst == Entry(6, "f", 1, <<BadDate, Net(6)>>)
NotAList == {[Entry(8, "h", 9, <<Net(8)>>) EXCEPT !.ext = ".md"],
             [Entry(9, "i", 9, <<Net(9)>>) EXCEPT !.regular = FALSE]}

MCCheckouts ==
  {{Sections, Plain} \cup NotAList, {Plain, Other2, Hollow}, {BadLate, Other2, Plain},
   {BadFirst, BadLate, Hollow}, NotAList}
=============================================================================
