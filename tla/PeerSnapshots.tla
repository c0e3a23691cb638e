----------------------------- MODULE PeerSnapshots -----------------------------
(***************************************************************************)
(* What Nearby Stats Sync promises, without packets, chunks or timers:     *)
(* every reader owns one version of each item, and the copies it holds of  *)
(* its peers' items are replaced one at a time, each in a single step.     *)
(* NearbyStatsSync implements this module, see Implements there.           *)
(***************************************************************************)
EXTENDS Naturals

CONSTANTS
  Device,    \* the readers
  Item,      \* the totals and the kinds of files
  Shared,    \* items a reader adopts from the others when theirs are newer
  MayLose,   \* whether a copy may get lost, by a fault of the card
  Nothing    \* in the place of a copy that is not held

VARIABLES
  own,       \* own[d][i]: the version d has of its own item i
  held       \* held[d][p][i]: the copy d keeps of item i under p's name

Init ==
  /\ own \in [Device -> [Item -> Nat]]
  /\ held = [d \in Device |-> [p \in Device |-> [i \in Item |-> Nothing]]]

(* Reading on d moves its own items forward.                               *)
Publish(d) ==
  /\ own' \in [Device -> [Item -> Nat]]
  /\ \A e \in Device : \A i \in Item :
       IF e = d THEN own'[e][i] >= own[e][i] ELSE own'[e][i] = own[e][i]
  /\ UNCHANGED held

Adopted(d, i, v) == [own EXCEPT ![d][i] = IF v > @ THEN v ELSE @]

(* A copy of a version its source has had replaces the one held under p's  *)
(* name, but never a newer one of the same source.  The source is p unless *)
(* a third reader is in range, and never d itself.  A shared item may be   *)
(* adopted in the same step.                                               *)
Deliver(d, p, i) ==
  \E q \in Device \ {d} : \E v \in 0..own[q][i] :
    /\ held[d][p][i] # Nothing /\ held[d][p][i].src = q
         => held[d][p][i].ver <= v
    /\ held' = [held EXCEPT ![d][p][i] = [src |-> q, ver |-> v]]
    /\ own' = own \/ (i \in Shared /\ own' = Adopted(d, i, v))

Lose(d, p, i) ==
  /\ MayLose
  /\ held' = [held EXCEPT ![d][p][i] = Nothing]
  /\ UNCHANGED own

Next ==
  \E d \in Device :
    \/ Publish(d)
    \/ \E p \in Device \ {d} : \E i \in Item : Deliver(d, p, i) \/ Lose(d, p, i)

Spec == Init /\ [][Next]_<<own, held>>
=============================================================================
