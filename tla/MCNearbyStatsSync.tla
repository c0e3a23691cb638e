-------------------------- MODULE MCNearbyStatsSync --------------------------
(* Finite instances of NearbyStatsSync for TLC.                            *)
EXTENDS NearbyStatsSync, TLC

CONSTANTS Journal, Ledger, StatsDate, Achievements

(* A file of two chunks, one that is empty and a merged one.               *)
ThreeFiles == <<Journal, Ledger, StatsDate>>
EmptyLedger == Journal :> 2 @@ Ledger :> 0 @@ StatsDate :> 1

(* Two merged files.                                                       *)
MergedFiles == <<StatsDate, Achievements>>
LongAchievements == StatsDate :> 1 @@ Achievements :> 2

(* A single file that is only stored.                                      *)
JournalOnly == <<Journal>>
OnePiece == Journal :> 1
=============================================================================
