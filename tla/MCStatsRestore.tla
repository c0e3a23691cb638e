---------------------------- MODULE MCStatsRestore -----------------------------
(***************************************************************************)
(* Instances of StatsRestore.  File 1 is the achievement ledger, 2 a book's *)
(* statistics, 3 a file kept for a peer.                                   *)
(***************************************************************************)
EXTENDS StatsRestore

AllFiles == {1, 2, 3}
PeerFiles == {3}
Ledger == {1}
BookFiles == {2}
NoFiles == {}

(* Contents only matter by where they come from; the book's file is absent *)
(* from the card, there in the older directory only, or both.              *)
Sources == {"live", "saved", "old", "newer"}
MCInit ==
  /\ Init
  /\ DOMAIN card \in {{Plain(f) : f \in S} : S \in {{1, 3}, {1, 2, 3}}}
  /\ \A p \in DOMAIN card : card[p] = "live"
  /\ \A f \in DOMAIN older : older[f] = "old"
  /\ \A a \in exports :
       /\ DOMAIN a \in {{Plain(f) : f \in S} : S \in {{2}, {1, 3}, {2, 3}}}
       /\ \A p \in DOMAIN a : a[p] = "saved"
MCSpec == MCInit /\ [][Next]_vars
=============================================================================
