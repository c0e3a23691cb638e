---------------------------- MODULE MCReadingEdits ----------------------------
(* Three books: an EPUB that another reader has read on the earlier day,   *)
(* an XTC that another reader has finished, and an XTC that is left out of *)
(* the statistics.                                                         *)
EXTENDS ReadingEdits

CONSTANTS novel, comic, essay, earlier, today

Formats == [b \in {novel, comic, essay} |-> IF b = novel THEN "epub" ELSE "xtc"]

EarlierPeer ==
  [d \in {earlier, today} |-> [b \in {novel, comic, essay} |->
     IF d = earlier /\ b = novel THEN 1 ELSE 0]]
=============================================================================
