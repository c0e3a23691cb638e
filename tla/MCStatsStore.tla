----------------------------- MODULE MCStatsStore -----------------------------
(* Cards for StatsStore: none with an older firmware's files, one whose    *)
(* newer directory has both files and one whose two directories each have  *)
(* one of them.                                                            *)
EXTENDS StatsStore

Both == [EmptyLegacy EXCEPT !["crossink"] =
           [main |-> Whole(2), bak |-> Whole(1)]]
Split == [EmptyLegacy EXCEPT !["crossink"]["bak"] = Whole(1),
                             !["crosspoint"]["main"] = Whole(2)]
AnyCard == {EmptyLegacy, Both, Split}
OldCard == {Both}
===============================================================================
