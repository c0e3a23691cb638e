------------------------ MODULE NearbyStatsSync_copies ------------------------
(* The copies that readers hold of each other's items: never rolled back,  *)
(* never lost without a fault, and, for any number of readers, what        *)
(* PeerSnapshots promises.                                                 *)
EXTENDS NearbyStatsSync_steps

CopyInv == IdleInv /\ WholeInv

LEMMA InitCopy == Init => CopyInv
BY IdleInit, InitWhole DEF CopyInv

LEMMA NextCopy == CopyInv /\ [Next]_vars => CopyInv'
<1>1. IdleInv /\ [Next]_vars => IdleInv'
  BY IdleNext
<1>2. WholeInv /\ [Next]_vars => WholeInv'
  BY NextWhole
<1>. QED  BY <1>1, <1>2 DEF CopyInv

-----------------------------------------------------------------------------
(* A reader's own items.                                                   *)

LEMMA LocalStep ==
  ASSUME TypeOK, NEW d \in Device, NEW s, NEW S, Effect(d, s, S)
  PROVE  \/ local' = local
         \/ TakesFile(d, s, S)
         \/ OwnNews(d, s, S)
BY DEF Effect, Talks, Fails, Resets, StoresTotals, HearsAck, BeginsFiles, GoesOn,
       RepeatsMeta, SendsPiece, TakesMeta, TakesChunk, AcksAgain

LEMMA LocalGrows ==
  ASSUME TypeOK, NEW d \in Device, NEW s, NEW S, Effect(d, s, S)
  PROVE  /\ \A i \in Items : local'[d][i] >= local[d][i]
         /\ \A e \in Device \ {d} : local'[e] = local[e]
<1>1. \A e \in Device, i \in Items : local[e][i] \in Nat /\ local[e] \in [Items -> Versions]
  BY SyncConstants DEF TypeOK, Versions
<1>2. CASE local' = local
  BY <1>1, <1>2
<1>3. CASE TakesFile(d, s, S)
  <2>1. CASE local' = local
    BY <1>1, <2>1
  <2>2. CASE local' # local
    <3>1. /\ local' = [local EXCEPT ![d][Msg(d).kind] = dev[d].in.ver]
          /\ dev[d].in.ver > local[d][Msg(d).kind]
      BY <1>3, <2>2 DEF TakesFile
    <3>2. dev[d].in.ver \in Nat
      BY SyncConstants DEF TypeOK, DeviceState, InTransfer, Versions
    <3>. QED  BY <1>1, <3>1, <3>2 DEF TypeOK
  <2>. QED  BY <2>1, <2>2
<1>4. CASE OwnNews(d, s, S)
  BY <1>1, <1>4 DEF OwnNews, TypeOK
<1>. QED  BY <1>2, <1>3, <1>4, LocalStep

(* No reader's date or achievements ever go back, whatever it merges from  *)
(* its peers (mergeSyncedDate, mergeAchievements).                         *)
THEOREM MergesNeverRollBack == Spec => NeverRollsBack
<1>1. ASSUME CopyInv, [Next]_vars
      PROVE  \A d \in Device : \A k \in MergeKinds : local'[d][k] >= local[d][k]
  <2>1. TypeOK /\ IdleInv
    BY <1>1 DEF CopyInv, IdleInv
  <2>2. \A d \in Device : \A k \in MergeKinds : k \in Items /\ local[d][k] \in Nat
    BY <2>1, SyncConstants DEF TypeOK, Items, Versions
  <2>3. CASE Clears
    BY <2>2, <2>3 DEF Clears
  <2>4. ASSUME NEW d \in Device, Turns(d)
        PROVE  \A e \in Device : \A k \in MergeKinds : local'[e][k] >= local[e][k]
    <3>1. PICK s, S : Turn(d, s, S) /\ Effect(d, s, S)
      BY <2>4 DEF Turns
    <3>2. /\ \A i \in Items : local'[d][i] >= local[d][i]
          /\ \A e \in Device \ {d} : local'[e] = local[e]
      BY <2>1, <3>1, LocalGrows
    <3>. QED  BY <2>2, <3>2
  <2>. QED  BY <1>1, <2>1, <2>3, <2>4, StepTurns
<1>2. CopyInv /\ [Next]_vars
        => [\A d \in Device : \A k \in MergeKinds : local'[d][k] >= local[d][k]]_vars
  BY <1>1
<1>. QED  BY <1>2, InitCopy, NextCopy, PTL DEF Spec, NeverRollsBack

-----------------------------------------------------------------------------
(* What a step stores.                                                     *)

(* d stores the file s of item i under the name of q.                      *)
Replaces(d, q, i, s) ==
  /\ q \in Device /\ i \in Items
  /\ synced' = [synced EXCEPT ![d][q][i] = s]

StoresFile(d) ==
  /\ Completed(d) /\ dev[d].in.size # 0
  /\ Replaces(d, Msg(d).from, Msg(d).kind, dev[d].in.data)

TakesTotals(d) ==
  /\ Takes(d) /\ Msg(d).type = "STATS" /\ Parses(Msg(d)) /\ ~dev[d].totalsSaved
  /\ Replaces(d, Msg(d).from, Totals, Snapshot(Msg(d).from, Totals, Msg(d).ver))

LEMMA SyncedStep ==
  ASSUME TypeOK, NEW d \in Device, NEW s, NEW S, Effect(d, s, S)
  PROVE  \/ synced' = synced /\ (local' = local \/ OwnNews(d, s, S))
         \/ StoresFile(d) /\ (TakesFile(d, s, S) \/ (Fails(d, s, S) /\ local' = local))
         \/ Erases(d) /\ local' = local
         \/ TakesTotals(d) /\ StoresTotals(d, s, S) /\ local' = local
<1>. DEFINE m == Msg(d)
<1>1. \/ synced' = synced /\ local' = local
      \/ synced' = synced /\ OwnNews(d, s, S)
      \/ Fails(d, s, S) \/ Resets(d, s, S) \/ StoresTotals(d, s, S) \/ TakesFile(d, s, S)
  BY DEF Effect, Talks, HearsAck, BeginsFiles, GoesOn, RepeatsMeta, SendsPiece,
         TakesMeta, TakesChunk, AcksAgain, OwnNews
<1>2. ASSUME Stores(d)
      PROVE  StoresFile(d) \/ (synced' = synced /\ m.kind \notin MergeKinds)
  <2>1. Completed(d) /\ events[d] # <<>> /\ m.type = "FILE_DONE"
    BY <1>2 DEF Stores, Completed
  <2>2. m.from \in Device /\ m.kind \in Kinds /\ m.kind \in Items
    BY <2>1, MsgType, FileMsgType DEF FileTypes, Items
  <2>3. CASE dev[d].in.size = 0
    <3>1. m.kind \notin MergeKinds
      BY <1>2, <2>3 DEF Stores, Completed, Verified
    <3>. QED  BY <1>2, <2>3, <3>1 DEF Stores
  <2>4. CASE dev[d].in.size # 0
    <3>1. synced' = [synced EXCEPT ![d][m.from][m.kind] = dev[d].in.data]
      BY <1>2, <2>4 DEF Stores
    <3>. QED  BY <2>1, <2>2, <2>4, <3>1 DEF StoresFile, Replaces
  <2>. QED  BY <2>3, <2>4
<1>3. CASE Fails(d, s, S)
  BY <1>2, <1>3 DEF Fails
<1>4. CASE Resets(d, s, S)
  BY <1>4 DEF Resets
<1>5. CASE TakesFile(d, s, S)
  <2>1. Stores(d) /\ (m.kind \notin MergeKinds => local' = local)
    BY <1>5 DEF TakesFile
  <2>. QED  BY <1>2, <1>5, <2>1
<1>6. CASE StoresTotals(d, s, S)
  <2>1. events[d] # <<>> /\ m.from \in Device /\ Totals \in Items
    BY <1>6, MsgType, AnyMsgType DEF StoresTotals, Joining, Takes, Items
  <2>. QED  BY <1>6, <2>1 DEF StoresTotals, Joining, TakesTotals, Replaces
<1>. QED  BY <1>1, <1>3, <1>4, <1>5, <1>6

LEMMA ReplacedAt ==
  ASSUME TypeOK, NEW d \in Device, NEW q, NEW i, NEW s, Replaces(d, q, i, s),
         NEW e \in Device, NEW p \in Device, NEW j \in Items
  PROVE  synced'[e][p][j] =
           IF e = d /\ p = q /\ j = i THEN s ELSE synced[e][p][j]
<1>. DEFINE C == synced[d]
            D == [C EXCEPT ![q] = [C[q] EXCEPT ![i] = s]]
<1>1. /\ synced \in [Device -> [Device -> [Items -> Seq(Piece)]]]
      /\ q \in Device /\ i \in Items
      /\ synced' = [synced EXCEPT ![d] = D]
  BY DEF Replaces, TypeOK
<1>2. C \in [Device -> [Items -> Seq(Piece)]] /\ C[q] \in [Items -> Seq(Piece)]
  BY <1>1
<1>3. D[p][j] = IF p = q /\ j = i THEN s ELSE C[p][j]
  BY <1>2
<1>4. synced'[e] = IF e = d THEN D ELSE synced[e]
  <2>. HIDE DEF D
  <2>. QED  BY <1>1
<1>. HIDE DEF D
<1>. QED  BY <1>3, <1>4

(* A stored file is one of something: a verified file with no chunks is    *)
(* not stored at all, and totals have one piece.                           *)
LEMMA StoredIsSomething ==
  ASSUME TypeOK, NEW d \in Device
  PROVE  /\ StoresFile(d) => dev[d].in.data # NoFile
         /\ \A p \in Device, v \in Versions : Snapshot(p, Totals, v) # NoFile
<1>1. ASSUME StoresFile(d) PROVE dev[d].in.data # NoFile
  <2>1. Len(dev[d].in.data) = dev[d].in.size /\ dev[d].in.size # 0
    BY <1>1 DEF StoresFile, Completed, Verified
  <2>2. Len(NoFile) = 0
    BY DEF NoFile
  <2>. QED  BY <2>1, <2>2
<1>2. ASSUME NEW p \in Device, NEW v \in Versions
      PROVE  Snapshot(p, Totals, v) # NoFile
  <2>1. Snapshot(p, Totals, v) = [n \in 1..1 |-> PieceOf(p, v, n - 1)]
    BY DEF Snapshot, SizeOf
  <2>2. DOMAIN Snapshot(p, Totals, v) = {1} /\ DOMAIN NoFile = {}
    BY <2>1 DEF NoFile
  <2>. QED  BY <2>2
<1>. QED  BY <1>1, <1>2

(* On a card that does not fail and a reader that keeps its power, what is *)
(* stored of a peer is only ever replaced (handleFileDone).                *)
THEOREM CopiesAreKept ==
  ASSUME Env \cap {"PowerLoss", "Fault"} = {}
  PROVE  Spec => KeepsPriorSnapshot
<1>. DEFINE Kept == \A d, p \in Device : \A i \in Items :
                      Stored(d, p, i) => synced'[d][p][i] # NoFile
<1>1. ASSUME CopyInv, [Next]_vars
      PROVE  Kept
  <2>1. TypeOK /\ IdleInv
    BY <1>1 DEF CopyInv, IdleInv
  <2>2. CASE synced' = synced
    BY <2>2 DEF Stored
  <2>3. ASSUME NEW d \in Device, Turns(d), synced' # synced
        PROVE  Kept
    <3>1. PICK s, S : Turn(d, s, S) /\ Effect(d, s, S)
      BY <2>3 DEF Turns
    <3>2. StoresFile(d) \/ TakesTotals(d)
      BY <2>1, <2>3, <3>1, SyncedStep DEF Erases
    <3>3. PICK q, i, f : Replaces(d, q, i, f) /\ f # NoFile
      <4>1. CASE StoresFile(d)
        BY <2>1, <4>1, StoredIsSomething DEF StoresFile
      <4>2. CASE TakesTotals(d)
        <5>1. Msg(d).from \in Device /\ Msg(d).ver \in Versions
          BY <2>1, <4>2, MsgType, AnyMsgType DEF TakesTotals, Takes
        <5>. QED  BY <2>1, <4>2, <5>1, StoredIsSomething DEF TakesTotals
      <4>. QED  BY <3>2, <4>1, <4>2
    <3>. QED  BY <2>1, <3>3, ReplacedAt DEF Stored
  <2>. QED  BY <1>1, <2>1, <2>2, <2>3, StepTurns DEF Clears
<1>2. CopyInv /\ [Next]_vars => [Kept]_vars
  BY <1>1
<1>. QED  BY <1>2, InitCopy, NextCopy, PTL DEF Spec, KeepsPriorSnapshot

-----------------------------------------------------------------------------
(* Versions arrive in order.  A reader announces an item again and again,  *)
(* in sessions that come and go, and the others hear some of it late; that *)
(* no older copy ever replaces a newer one rests on the order of each      *)
(* queue and on what each transfer has been announced with.                *)

(* The packet m brings the version m.ver of item i of reader q.            *)
Carries(m, q, i) ==
  /\ m.from = q
  /\ \/ i = Totals /\ m.type = "STATS"
     \/ i \in Kinds /\ m.type = "FILE_META" /\ m.kind = i

(* The version q announces next: that of the transfer under way, if i is   *)
(* the kind that it transfers.                                             *)
Upcoming(q, i) ==
  LET o == dev[q].out
  IN  IF i \in Kinds /\ o.kind = i THEN o.ver ELSE local[q][i]

Kept(d, q, i, v) ==
  \E p \in Device : Stored(d, p, i) /\ synced[d][p][i] = Snapshot(q, i, v)
Coming(d, q, i) == i \in Kinds /\ dev[d].in.kind = i /\ dev[d].in.src = q

NoneBelow(r, q, i, v) == \A n \in DOMAIN r : Carries(r[n], q, i) => v <= r[n].ver

InOrder(r, q, i, u) ==
  /\ \A n \in DOMAIN r : Carries(r[n], q, i) => r[n].ver <= u
  /\ \A n \in DOMAIN r : \A o \in DOMAIN r :
       n < o /\ Carries(r[n], q, i) /\ Carries(r[o], q, i) => r[n].ver <= r[o].ver

OrderedCopies(d, q, i) ==
  /\ InOrder(events[d], q, i, Upcoming(q, i))
  /\ \A v \in Versions : Kept(d, q, i, v) =>
       q # d /\ v <= Upcoming(q, i) /\ NoneBelow(events[d], q, i, v)
  /\ Coming(d, q, i) =>
       /\ q # d /\ dev[d].in.ver <= Upcoming(q, i)
       /\ NoneBelow(events[d], q, i, dev[d].in.ver)
       /\ \A v \in Versions : Kept(d, q, i, v) => v <= dev[d].in.ver

FromOthers == \A d \in Device : \A n \in DOMAIN events[d] : events[d][n].from # d
Announced == \A q \in Device : \A i \in Items : Upcoming(q, i) <= local[q][i]
Ordered == \A d, q \in Device : \A i \in Items : OrderedCopies(d, q, i)
OrderInv == CopyInv /\ FromOthers /\ Announced /\ Ordered

(* A snapshot shows whose and which version it is.                         *)
LEMMA SnapshotDiffers ==
  ASSUME NEW p \in Device, NEW q \in Device, NEW i, NEW v, NEW w,
         Snapshot(p, i, v) = Snapshot(q, i, w), Snapshot(p, i, v) # NoFile,
         SizeOf(i) \in Nat
  PROVE  p = q /\ v = w /\ SizeOf(i) > 0
<1>1. SizeOf(i) # 0
  <2>1. SUFFICES ASSUME SizeOf(i) = 0 PROVE FALSE
    OBVIOUS
  <2>2. 1..SizeOf(i) = {}
    BY <2>1
  <2>3. Snapshot(p, i, v) = [n \in {} |-> PieceOf(p, v, n - 1)]
    BY <2>2 DEF Snapshot
  <2>. QED  BY <2>3 DEF NoFile
<1>2. 1 \in 1..SizeOf(i)
  BY <1>1
<1>3. Snapshot(p, i, v)[1] = PieceOf(p, v, 0) /\ Snapshot(q, i, w)[1] = PieceOf(q, w, 0)
  BY <1>2 DEF Snapshot
<1>4. PieceOf(p, v, 0) = PieceOf(q, w, 0)
  BY <1>3
<1>5. PieceOf(p, v, 0).src = p /\ PieceOf(q, w, 0).src = q
      /\ PieceOf(p, v, 0).ver = v /\ PieceOf(q, w, 0).ver = w
  BY DEF PieceOf
<1>. QED  BY <1>1, <1>4, <1>5

LEMMA SizeType == \A i \in Items : SizeOf(i) \in Nat
BY SyncConstants DEF SizeOf, Items

LEMMA CarriedIsVersion ==
  ASSUME NEW r \in Queue, NEW n \in DOMAIN r
  PROVE  r[n] \in Packet /\ r[n].ver \in Nat /\ r[n].ver \in Versions
BY SyncConstants DEF Queue, Packet, Versions

(* New packets carry the version that is upcoming now, so that the queue   *)
(* stays in order behind them.                                             *)
LEMMA OrderExtends ==
  ASSUME NEW old \in Queue, NEW new \in Queue, NEW S, Extends(new, old, S),
         NEW q, NEW i, NEW u \in Nat, NEW w \in Nat, u <= w,
         \A m \in S : Carries(m, q, i) => m.ver = w,
         InOrder(old, q, i, u)
  PROVE  /\ InOrder(new, q, i, w)
         /\ \A v \in Nat : v <= w /\ NoneBelow(old, q, i, v) => NoneBelow(new, q, i, v)
<1>1. PICK k \in 0..Len(old) :
        \A n \in DOMAIN new :
          IF n + k <= Len(old) THEN new[n] = old[n + k] ELSE new[n] \in S
  BY DEF Extends
<1>2. /\ old \in Seq(Packet) /\ new \in Seq(Packet) /\ Len(old) \in Nat
      /\ \A n \in DOMAIN new : n \in Nat /\ n > 0
      /\ \A n \in DOMAIN new : n + k <= Len(old) => n + k \in DOMAIN old
  BY DEF Queue
<1>3. /\ \A n \in DOMAIN new : new[n].ver \in Nat
      /\ \A n \in DOMAIN old : old[n].ver \in Nat
  BY CarriedIsVersion
<1>4. \A n \in DOMAIN new : Carries(new[n], q, i) =>
        \/ n + k \in DOMAIN old /\ n + k <= Len(old) /\ new[n] = old[n + k]
        \/ n + k > Len(old) /\ new[n].ver = w
  BY <1>1, <1>2
<1>5. \A n \in DOMAIN old : Carries(old[n], q, i) => old[n].ver <= u
  BY DEF InOrder
<1>6. \A n \in DOMAIN new : Carries(new[n], q, i) => new[n].ver <= w
  BY <1>3, <1>4, <1>5
<1>7. ASSUME NEW n \in DOMAIN new, NEW o \in DOMAIN new, n < o,
             Carries(new[n], q, i), Carries(new[o], q, i)
      PROVE  new[n].ver <= new[o].ver
  <2>1. CASE o + k > Len(old) /\ new[o].ver = w
    BY <1>3, <1>6, <1>7, <2>1
  <2>2. CASE o + k \in DOMAIN old /\ o + k <= Len(old) /\ new[o] = old[o + k]
    <3>1. n + k \in DOMAIN old /\ new[n] = old[n + k] /\ n + k < o + k
      BY <1>1, <1>2, <1>7, <2>2
    <3>. QED  BY <1>7, <2>2, <3>1 DEF InOrder
  <2>. QED  BY <1>4, <1>7, <2>1, <2>2
<1>8. ASSUME NEW v \in Nat, v <= w, NoneBelow(old, q, i, v), NEW n \in DOMAIN new,
             Carries(new[n], q, i)
      PROVE  v <= new[n].ver
  BY <1>4, <1>8 DEF NoneBelow
<1>. QED  BY <1>6, <1>7, <1>8 DEF InOrder, NoneBelow

(* What the head of a queue brings is older than nothing behind it.        *)
LEMMA HeadIsOldest ==
  ASSUME NEW r \in Queue, r # <<>>, NEW q, NEW i, NEW u,
         InOrder(r, q, i, u), Carries(Head(r), q, i)
  PROVE  NoneBelow(Tail(r), q, i, Head(r).ver) /\ Head(r).ver <= u
<1>1. r \in Seq(Packet) /\ 1 \in DOMAIN r /\ Head(r) = r[1]
  BY DEF Queue
<1>2. \A n \in DOMAIN Tail(r) : n + 1 \in DOMAIN r /\ Tail(r)[n] = r[n + 1] /\ 1 < n + 1
  BY <1>1
<1>. QED  BY <1>1, <1>2 DEF InOrder, NoneBelow

(* What a turn makes of the transfer that d sends.                         *)
LEMMA OutStep ==
  ASSUME TypeOK, NEW d \in Device, NEW s, NEW S, Effect(d, s, S)
  PROVE  \/ /\ s.out.kind = dev[d].out.kind /\ s.out.ver = dev[d].out.ver
            /\ s.out.size = dev[d].out.size
         \/ s.out.kind = None
         \/ /\ s.out.kind \in Kinds /\ s.out.ver = local[d][s.out.kind]
            /\ s.out.size \in AnnouncedSizes(s.out.kind) /\ local' = local
<1>. DEFINE x == dev[d]
<1>0. x.out \in OutTransfer /\ NoOut.kind = None
  BY DEF TypeOK, DeviceState, NoOut
<1>1. CASE s.out = x.out
  BY <1>1
<1>2. CASE s.out = [x.out EXCEPT !.open = FALSE]
  BY <1>0, <1>2 DEF OutTransfer
<1>3. CASE NextFile(d, s, S) /\ local' = local
  <2>. DEFINE k == KindAfter(x.out.kind)
  <2>1. k \in Kinds \cup {None}
    BY <1>0, KindAfterType DEF OutTransfer
  <2>2. CASE k = None
    BY <1>0, <1>3, <2>2 DEF NextFile
  <2>3. CASE k # None
    <3>1. \E n \in AnnouncedSizes(k) :
            s.out = [NoOut EXCEPT !.kind = k, !.ver = local[d][k], !.size = n]
      BY <1>3, <2>3 DEF NextFile
    <3>2. s.out.kind = k /\ s.out.ver = local[d][k] /\ s.out.size \in AnnouncedSizes(k)
      BY <3>1 DEF NoOut
    <3>. QED  BY <1>3, <2>1, <2>3, <3>2
  <2>. QED  BY <2>2, <2>3
<1>4. CASE SendsPiece(d, s, S)
  BY <1>4 DEF SendsPiece
<1>5. CASE s.out = NoOut
  BY <1>0, <1>5
<1>. QED
  BY <1>1, <1>2, <1>3, <1>4, <1>5
     DEF Effect, Talks, Fails, Resets, Idle, StoresTotals, HearsAck, BeginsFiles,
         GoesOn, RepeatsMeta, TakesMeta, TakesChunk, TakesFile, AcksAgain, OwnNews,
         SameOut

LEMMA VersionTypes ==
  ASSUME TypeOK, NEW e \in Device, NEW i \in Items
  PROVE  /\ local[e][i] \in Nat /\ Upcoming(e, i) \in Nat
         /\ dev[e].out.ver \in Nat /\ dev[e].in.ver \in Nat
<1>1. \A v \in Versions : v \in Nat
  BY SyncConstants DEF Versions
<1>2. local[e][i] \in Versions
  BY DEF TypeOK
<1>3. dev[e].out.ver \in Versions /\ dev[e].in.ver \in Versions
  BY DEF TypeOK, DeviceState, OutTransfer, InTransfer
<1>. QED  BY <1>1, <1>2, <1>3 DEF Upcoming

LEMMA VersionTypesNext ==
  ASSUME TypeOK', NEW e \in Device, NEW i \in Items
  PROVE  /\ local'[e][i] \in Nat /\ Upcoming(e, i)' \in Nat
         /\ dev'[e].out.ver \in Nat /\ dev'[e].in.ver \in Nat
<1>1. \A v \in Versions : v \in Nat
  BY SyncConstants DEF Versions
<1>2. local'[e][i] \in Versions
  BY DEF TypeOK
<1>3. dev'[e].out.ver \in Versions /\ dev'[e].in.ver \in Versions
  BY DEF TypeOK, DeviceState, OutTransfer, InTransfer
<1>. QED  BY <1>1, <1>2, <1>3 DEF Upcoming

LEMMA UpcomingGrows ==
  ASSUME TypeOK, TypeOK', Announced, NEW d \in Device, NEW s, NEW S,
         Turn(d, s, S), Effect(d, s, S), NEW q \in Device, NEW i \in Items
  PROVE  /\ Upcoming(q, i) \in Nat /\ Upcoming(q, i)' \in Nat
         /\ Upcoming(q, i) <= Upcoming(q, i)'
         /\ Upcoming(q, i)' <= local'[q][i]
<1>1. /\ dev'[d] = s /\ \A e \in Device \ {d} : dev'[e] = dev[e]
      /\ \A j \in Items : local'[d][j] >= local[d][j]
      /\ \A e \in Device \ {d} : local'[e] = local[e]
  BY TurnKeeps, LocalGrows
<1>2. \A e \in Device, j \in Items :
        /\ local[e][j] \in Nat /\ local'[e][j] \in Nat
        /\ dev[e].out.ver \in Nat /\ dev'[e].out.ver \in Nat
  BY VersionTypes, VersionTypesNext
<1>3. Upcoming(q, i) \in Nat /\ Upcoming(q, i)' \in Nat /\ Upcoming(q, i) <= local[q][i]
  BY VersionTypes, VersionTypesNext DEF Announced
<1>4. CASE q # d
  <2>1. Upcoming(q, i)' = Upcoming(q, i) /\ local'[q] = local[q]
    BY <1>1, <1>4 DEF Upcoming
  <2>. QED  BY <1>3, <2>1
<1>5. CASE q = d
  <2>1. Upcoming(d, i)' = IF i \in Kinds /\ s.out.kind = i THEN s.out.ver ELSE local'[d][i]
    BY <1>1 DEF Upcoming
  <2>2. CASE s.out.kind = dev[d].out.kind /\ s.out.ver = dev[d].out.ver
    <3>1. CASE i \in Kinds /\ s.out.kind = i
      <4>1. Upcoming(d, i)' = Upcoming(d, i)
        BY <2>1, <2>2, <3>1 DEF Upcoming
      <4>. QED  BY <1>1, <1>2, <1>3, <1>5, <4>1
    <3>2. CASE ~(i \in Kinds /\ s.out.kind = i)
      BY <1>1, <1>2, <1>3, <1>5, <2>1, <3>2
    <3>. QED  BY <3>1, <3>2
  <2>3. CASE s.out.kind = None
    <3>1. Upcoming(d, i)' = local'[d][i]
      BY <2>1, <2>3, SyncConstants
    <3>. QED  BY <1>1, <1>2, <1>3, <1>5, <3>1
  <2>4. CASE s.out.kind \in Kinds /\ s.out.ver = local[d][s.out.kind] /\ local' = local
    <3>1. Upcoming(d, i)' = local[d][i]
      BY <2>1, <2>4
    <3>. QED  BY <1>2, <1>3, <1>5, <2>4, <3>1
  <2>. QED  BY <2>2, <2>3, <2>4, OutStep
<1>. QED  BY <1>4, <1>5

(* What a turn says about its reader's items is what is upcoming now.      *)
LEMMA TurnSays ==
  ASSUME TypeOK, NEW d \in Device, NEW s, NEW S,
         Turn(d, s, S), Effect(d, s, S), NEW m \in S
  PROVE  /\ m.from = d
         /\ \A q \in Device, i \in Items :
              Carries(m, q, i) => q = d /\ m.ver = Upcoming(d, i)'
<1>. DEFINE x == dev[d]
<1>1. dev'[d] = s
  BY TurnKeeps
<1>2. \A t, e : Plain(t, e).from = e /\ Plain(t, e).type = t
  BY DEF Plain
<1>3. \A t, e, k, i, v : LET p == FilePacket(t, e, k, i, v)
                         IN  p.from = e /\ p.type = t /\ p.kind = k /\ p.ver = v
  BY DEF FilePacket
<1>4. Stats(d).from = d /\ Stats(d).type = "STATS" /\ Stats(d).ver = local[d][Totals]
  BY DEF Stats, Plain
<1>5. CASE /\ m \in {Plain("HELLO", d), Plain("NAME", d), Plain("ACK", d), Stats(d)}
           /\ local' = local
  <2>1. m.from = d /\ m.type \in {"HELLO", "NAME", "ACK", "STATS"}
    BY <1>2, <1>4, <1>5
  <2>2. m.type = "STATS" => m.ver = local[d][Totals]
    BY <1>2, <1>4, <1>5
  <2>3. Totals \notin Kinds
    BY SyncConstants
  <2>4. Upcoming(d, Totals)' = local'[d][Totals]
    BY <2>3 DEF Upcoming
  <2>. QED  BY <1>5, <2>1, <2>2, <2>3, <2>4 DEF Carries
<1>6. ASSUME NEW k \in Kinds, NEW n, NEW v, m = FilePacket("FILE_META", d, k, n, v),
             s.out.kind = k, s.out.ver = v
      PROVE  /\ m.from = d
             /\ \A q \in Device, i \in Items :
                  Carries(m, q, i) => q = d /\ m.ver = Upcoming(d, i)'
  <2>1. m.from = d /\ m.type = "FILE_META" /\ m.kind = k /\ m.ver = v
    BY <1>3, <1>6
  <2>2. Upcoming(d, k)' = v
    BY <1>1, <1>6 DEF Upcoming
  <2>. QED  BY <2>1, <2>2 DEF Carries
<1>7. ASSUME NEW t, NEW k, NEW i, NEW v, m = FilePacket(t, d, k, i, v),
             t \notin {"STATS", "FILE_META"}
      PROVE  m.from = d /\ \A q \in Device, j \in Items : ~Carries(m, q, j)
  <2>1. m.from = d /\ m.type = t
    BY <1>3, <1>7
  <2>. QED  BY <1>7, <2>1 DEF Carries
<1>8. CASE Talks(d, s, S) \/ StoresTotals(d, s, S)
  BY <1>5, <1>8 DEF Talks, StoresTotals
<1>9. CASE Fails(d, s, S) \/ Resets(d, s, S) \/ HearsAck(d, s, S) \/ OwnNews(d, s, S)
  BY <1>9 DEF Fails, Resets, HearsAck, OwnNews
<1>10. CASE BeginsFiles(d, s, S) \/ GoesOn(d, s, S)
  <2>. DEFINE k == KindAfter(x.out.kind)
  <2>1. NextFile(d, s, S)
    BY <1>10 DEF BeginsFiles, GoesOn
  <2>2. k # None
    BY <2>1 DEF NextFile
  <2>3. k \in Kinds
    BY <2>2, KindAfterType DEF TypeOK, DeviceState, OutTransfer
  <2>4. PICK n \in AnnouncedSizes(k) :
          /\ s.out = [NoOut EXCEPT !.kind = k, !.ver = local[d][k], !.size = n]
          /\ S = {FilePacket("FILE_META", d, k, n, local[d][k])}
    BY <2>1, <2>2 DEF NextFile
  <2>5. s.out.kind = k /\ s.out.ver = local[d][k]
    BY <2>4 DEF NoOut
  <2>6. m = FilePacket("FILE_META", d, k, n, local[d][k])
    BY <2>4
  <2>. HIDE DEF k
  <2>. QED  BY <1>6, <2>3, <2>5, <2>6
<1>11. CASE RepeatsMeta(d, s, S)
  <2>1. s.out.kind \in Kinds
    BY <1>11 DEF RepeatsMeta, TypeOK, DeviceState, OutTransfer
  <2>. QED  BY <1>6, <1>11, <2>1 DEF RepeatsMeta
<1>12. CASE SendsPiece(d, s, S)
  <2>1. s.out.chunk \in Nat /\ s.out.kind \in Kinds /\ x.out.size \in Nat
    BY <1>12 DEF SendsPiece, Turn, TypeOK, DeviceState, OutTransfer
  <2>2. \/ m = FilePacket("FILE_DONE", d, s.out.kind, 0, 0)
        \/ m = FilePacket("FILE_CHUNK", d, s.out.kind, s.out.chunk, s.out.handle)
    BY <1>12, <2>1 DEF SendsPiece
  <2>. QED  BY <1>7, <2>2
<1>13. CASE \/ TakesMeta(d, s, S) \/ TakesChunk(d, s, S) \/ TakesFile(d, s, S)
            \/ AcksAgain(d, s, S)
  <2>1. \E t \in FileAcks : m = FilePacket(t, d, Msg(d).kind, AckIdx(Msg(d)), 0)
    BY <1>13 DEF TakesMeta, TakesChunk, TakesFile, AcksAgain, FileAcks, AckOf
  <2>. QED  BY <1>7, <2>1 DEF FileAcks
<1>. QED  BY <1>8, <1>9, <1>10, <1>11, <1>12, <1>13 DEF Effect

(* A turn of d changes what d has stored, in one place at most.            *)
LEMMA StoredStep ==
  ASSUME WholeInv, NEW d \in Device, NEW s, NEW S, Effect(d, s, S)
  PROVE  \/ synced' = synced /\ (local' = local \/ OwnNews(d, s, S))
         \/ \E p \in Device : \E i \in Items :
             \/ Replaces(d, p, i, NoFile) /\ Erases(d) /\ local' = local /\ p = Msg(d).from
             \/ /\ Replaces(d, p, i, Snapshot(dev[d].in.src, i, dev[d].in.ver))
                /\ TakesFile(d, s, S) \/ (Fails(d, s, S) /\ local' = local)
                /\ StoresFile(d) /\ p = Msg(d).from /\ Coming(d, dev[d].in.src, i)
                /\ dev[d].in.src \in Device /\ dev[d].in.ver \in Versions
                /\ Snapshot(dev[d].in.src, i, dev[d].in.ver) # NoFile
             \/ /\ Replaces(d, p, i, Snapshot(p, i, Msg(d).ver))
                /\ TakesTotals(d) /\ StoresTotals(d, s, S) /\ local' = local
                /\ Carries(Msg(d), p, i) /\ Msg(d).ver \in Versions
                /\ Snapshot(p, i, Msg(d).ver) # NoFile
<1>. DEFINE m == Msg(d)
            in == dev[d].in
<1>1. TypeOK /\ Known(in)
  BY DEF WholeInv, SourceKnown
<1>2. CASE StoresFile(d) /\ (TakesFile(d, s, S) \/ (Fails(d, s, S) /\ local' = local))
  <2>1. /\ Completed(d) /\ in.size # 0 /\ Replaces(d, m.from, m.kind, in.data)
        /\ in.data # NoFile
    BY <1>1, <1>2, StoredIsSomething DEF StoresFile
  <2>2. in.kind = m.kind /\ in.data = Snapshot(in.src, in.kind, in.ver)
    <3>1. in.size \in Nat
      BY <1>1 DEF TypeOK, DeviceState, InTransfer
    <3>. QED  BY <2>1, <3>1 DEF Completed, Verified
  <2>3. events[d] # <<>> /\ m.type = "FILE_DONE"
    BY <2>1 DEF Completed
  <2>4. m.kind \in Kinds /\ m.kind \in Items /\ m.from \in Device
    BY <1>1, <2>3, MsgType, FileMsgType DEF FileTypes, Items
  <2>5. in.src \in Device /\ in.ver \in Versions
    BY <1>1, <2>2, <2>4, SyncConstants DEF Known, TypeOK, DeviceState, InTransfer
  <2>6. Coming(d, in.src, m.kind)
    BY <2>2, <2>4 DEF Coming
  <2>. QED  BY <1>2, <2>1, <2>2, <2>4, <2>5, <2>6
<1>3. CASE Erases(d) /\ local' = local
  <2>. PICK i \in Items : synced' = Removed(d, i)
    BY <1>3 DEF Erases
  <2>1. m.from \in Device /\ Replaces(d, m.from, i, NoFile)
    BY <1>3 DEF Erases, Replaces, Removed
  <2>. QED  BY <1>3, <2>1
<1>4. CASE TakesTotals(d) /\ StoresTotals(d, s, S) /\ local' = local
  <2>1. m.from \in Device /\ m.ver \in Versions /\ Totals \in Items
    BY <1>1, <1>4, MsgType, AnyMsgType DEF TakesTotals, Takes, Items
  <2>2. Carries(m, m.from, Totals)
    BY <1>4 DEF TakesTotals, Carries
  <2>3. Snapshot(m.from, Totals, m.ver) # NoFile
    BY <1>1, <2>1, StoredIsSomething
  <2>4. Replaces(d, m.from, Totals, Snapshot(m.from, Totals, m.ver))
    BY <1>4 DEF TakesTotals
  <2>. QED  BY <1>4, <2>1, <2>2, <2>3, <2>4
<1>. QED  BY <1>1, <1>2, <1>3, <1>4, SyncedStep

LEMMA StoredElsewhere ==
  ASSUME WholeInv, NEW d \in Device, NEW s, NEW S, Effect(d, s, S),
         NEW e \in Device, e # d
  PROVE  synced'[e] = synced[e]
<1>1. TypeOK
  BY DEF WholeInv
<1>2. ASSUME NEW p, NEW i, NEW f, Replaces(d, p, i, f)
      PROVE  synced'[e] = synced[e]
  BY <1>1, <1>2 DEF Replaces, TypeOK
<1>3. synced' = synced \/ \E p, i, f : Replaces(d, p, i, f)
  BY StoredStep
<1>. QED  BY <1>2, <1>3

LEMMA KeptStep ==
  ASSUME WholeInv, NEW d \in Device, NEW s, NEW S, Effect(d, s, S),
         NEW q \in Device, NEW i \in Items, NEW v \in Versions, Kept(d, q, i, v)'
  PROVE  \/ Kept(d, q, i, v)
         \/ Coming(d, q, i) /\ v = dev[d].in.ver
         \/ Takes(d) /\ Carries(Msg(d), q, i) /\ i = Totals /\ v = Msg(d).ver
<1>1. TypeOK /\ SizeOf(i) \in Nat
  BY SizeType DEF WholeInv
<1>2. PICK p \in Device : synced'[d][p][i] # NoFile /\ synced'[d][p][i] = Snapshot(q, i, v)
  BY DEF Kept, Stored
<1>3. CASE synced'[d][p][i] = synced[d][p][i]
  BY <1>2, <1>3 DEF Kept, Stored
<1>4. CASE synced'[d][p][i] # synced[d][p][i]
  <2>1. synced' # synced
    BY <1>4
  <2>2. PICK r \in Device, j \in Items :
           \/ Replaces(d, r, j, NoFile)
           \/ /\ Replaces(d, r, j, Snapshot(dev[d].in.src, j, dev[d].in.ver))
              /\ Coming(d, dev[d].in.src, j)
              /\ dev[d].in.src \in Device
           \/ /\ Replaces(d, r, j, Snapshot(r, j, Msg(d).ver))
              /\ TakesTotals(d) /\ Carries(Msg(d), r, j)
    BY <2>1, StoredStep
  <2>3. ASSUME NEW f, Replaces(d, r, j, f)
        PROVE  r = p /\ j = i /\ f = Snapshot(q, i, v) /\ f # NoFile
    <3>1. synced'[d][p][i] = IF p = r /\ i = j THEN f ELSE synced[d][p][i]
      BY <1>1, <2>3, ReplacedAt
    <3>. QED  BY <1>2, <1>4, <3>1
  <2>4. CASE Replaces(d, r, j, NoFile)
    BY <2>3, <2>4
  <2>5. CASE /\ Replaces(d, r, j, Snapshot(dev[d].in.src, j, dev[d].in.ver))
             /\ Coming(d, dev[d].in.src, j)
             /\ dev[d].in.src \in Device
    <3>1. /\ j = i /\ Snapshot(dev[d].in.src, i, dev[d].in.ver) = Snapshot(q, i, v)
          /\ Snapshot(q, i, v) # NoFile
      BY <2>3, <2>5
    <3>2. dev[d].in.src = q /\ dev[d].in.ver = v
      BY <1>1, <2>5, <3>1, SnapshotDiffers
    <3>. QED  BY <2>5, <3>1, <3>2
  <2>6. CASE /\ Replaces(d, r, j, Snapshot(r, j, Msg(d).ver))
             /\ TakesTotals(d) /\ Carries(Msg(d), r, j)
    <3>1. /\ r = p /\ j = i /\ Snapshot(r, i, Msg(d).ver) = Snapshot(q, i, v)
          /\ Snapshot(q, i, v) # NoFile
      BY <2>3, <2>6
    <3>2. r = q /\ Msg(d).ver = v
      BY <1>1, <3>1, SnapshotDiffers
    <3>3. Takes(d) /\ Msg(d).type = "STATS"
      BY <2>6 DEF TakesTotals
    <3>4. i = Totals
      BY <2>6, <3>1, <3>3 DEF Carries
    <3>. QED  BY <2>6, <3>1, <3>2, <3>3, <3>4
  <2>. QED  BY <2>2, <2>4, <2>5, <2>6
<1>. QED  BY <1>3, <1>4

(* What is being received keeps its announcement, or has just been         *)
(* announced.                                                              *)
LEMMA ComingStep ==
  ASSUME TypeOK, NEW d \in Device, NEW s, NEW S, Turn(d, s, S), Effect(d, s, S),
         NEW q \in Device, NEW i \in Items, Coming(d, q, i)'
  PROVE  /\ dev'[d].in.ver = s.in.ver
         /\ \/ Coming(d, q, i) /\ s.in.ver = dev[d].in.ver
            \/ /\ Takes(d) /\ Carries(Msg(d), q, i) /\ s.in.ver = Msg(d).ver
               /\ synced' = synced
<1>. DEFINE x == dev[d]
            m == Msg(d)
<1>1. dev'[d] = s
  BY TurnKeeps
<1>2. i \in Kinds /\ s.in.kind = i /\ s.in.src = q /\ NoIn.kind = None /\ i # None
  BY <1>1, SyncConstants DEF Coming, NoIn
<1>3. CASE s.in = x.in
  BY <1>1, <1>2, <1>3 DEF Coming
<1>4. CASE s.in = NoIn
  BY <1>2, <1>4
<1>5. CASE TakesMeta(d, s, S) /\ s.in # x.in
  <2>1. /\ s.in = Incoming(m)
        /\ Takes(d) /\ m.type = "FILE_META" /\ synced' = synced
    BY <1>5 DEF TakesMeta, Joining
  <2>. QED  BY <1>1, <1>2, <2>1 DEF Carries, Incoming
<1>6. CASE TakesChunk(d, s, S)
  <2>1. PICK p : s.in = [x.in EXCEPT !.data = Append(@, p)]
    BY <1>6 DEF TakesChunk
  <2>2. x.in \in InTransfer
    BY DEF TypeOK, DeviceState
  <2>3. s.in.kind = x.in.kind /\ s.in.src = x.in.src /\ s.in.ver = x.in.ver
    BY <2>1, <2>2 DEF InTransfer
  <2>. QED  BY <1>1, <1>2, <2>3 DEF Coming
<1>. QED
  BY <1>1, <1>3, <1>4, <1>5, <1>6
     DEF Effect, Talks, Fails, Resets, Idle, StoresTotals, HearsAck, BeginsFiles,
         GoesOn, RepeatsMeta, SendsPiece, TakesFile, AcksAgain, OwnNews, SameIn

LEMMA TurnQueues ==
  ASSUME TypeOK, TypeOK', NEW d \in Device, NEW s, NEW S, Turn(d, s, S),
         Effect(d, s, S), NEW e \in Device
  PROVE  \E T \in {{}, S} :
           /\ Extends(events'[e], events[e], T)
           /\ events[e] \in Queue /\ events'[e] \in Queue
           /\ e = d => T = {}
           /\ \A m \in T : m.from # e
<1>1. events[e] \in Queue /\ events'[e] \in Queue
  BY DEF TypeOK
<1>2. CASE e = d
  BY <1>1, <1>2 DEF Turn, Heard
<1>3. CASE e # d
  <2>1. \A m \in S : m.from = d
    BY TurnSays
  <2>2. Extends(events'[e], events[e], S)
    BY <1>3 DEF Turn, Heard
  <2>. QED  BY <1>1, <1>3, <2>1, <2>2
<1>. QED  BY <1>2, <1>3

LEMMA OthersNext ==
  ASSUME TypeOK, TypeOK', FromOthers, NEW d \in Device, NEW s, NEW S,
         Turn(d, s, S), Effect(d, s, S)
  PROVE  FromOthers'
<1>1. ASSUME NEW e \in Device, NEW n \in DOMAIN events'[e]
      PROVE  events'[e][n].from # e
  <2>1. PICK T \in {{}, S} :
          /\ Extends(events'[e], events[e], T)
          /\ events[e] \in Queue /\ events'[e] \in Queue
          /\ \A m \in T : m.from # e
    BY TurnQueues
  <2>2. PICK k \in 0..Len(events[e]) :
          IF n + k <= Len(events[e]) THEN events'[e][n] = events[e][n + k]
          ELSE events'[e][n] \in T
    BY <1>1, <2>1 DEF Extends
  <2>3. n \in Nat /\ n > 0 /\ (n + k <= Len(events[e]) => n + k \in DOMAIN events[e])
    BY <1>1, <2>1 DEF Queue
  <2>. QED  BY <2>1, <2>2, <2>3 DEF FromOthers
<1>. QED  BY <1>1 DEF FromOthers

LEMMA OrderedNext ==
  ASSUME OrderInv, TypeOK', NEW d \in Device, NEW s, NEW S,
         Turn(d, s, S), Effect(d, s, S),
         NEW e \in Device, NEW q \in Device, NEW i \in Items
  PROVE  OrderedCopies(e, q, i)'
<1>. DEFINE u == Upcoming(q, i)
            w == Upcoming(q, i)'
            old == events[e]
            new == events'[e]
<1>1. /\ TypeOK /\ WholeInv /\ Announced /\ FromOthers /\ OrderedCopies(e, q, i)
  BY DEF OrderInv, CopyInv, WholeInv, Ordered
<1>2. u \in Nat /\ w \in Nat /\ u <= w
  BY <1>1, UpcomingGrows
<1>3. PICK T \in {{}, S} :
        Extends(new, old, T) /\ old \in Queue /\ new \in Queue /\ (e = d => T = {})
  BY <1>1, TurnQueues
<1>4. \A m \in T : Carries(m, q, i) => m.ver = w
  BY <1>1, <1>3, TurnSays
<1>5. InOrder(old, q, i, u)
  BY <1>1 DEF OrderedCopies
<1>. HIDE DEF u, w
<1>6. /\ InOrder(new, q, i, w)
      /\ \A v \in Nat : v <= w /\ NoneBelow(old, q, i, v) => NoneBelow(new, q, i, v)
  BY <1>2, <1>3, <1>4, <1>5, OrderExtends
<1>7. /\ dev'[d] = s /\ s \in DeviceState
      /\ \A f \in Device \ {d} : dev'[f] = dev[f]
  BY <1>1, TurnKeeps
<1>8. \A v \in Versions : v \in Nat
  BY SyncConstants DEF Versions
<1>9. dev[e].in.ver \in Versions
  BY <1>1 DEF TypeOK, DeviceState, InTransfer
<1>10. ASSUME Takes(d), Carries(Msg(d), q, i), e = d
       PROVE  /\ NoneBelow(new, q, i, Msg(d).ver) /\ Msg(d).ver <= u /\ q # d
              /\ Msg(d).ver \in Nat
              /\ \A v \in Versions : Kept(d, q, i, v) => v <= Msg(d).ver
  <2>1. old # <<>> /\ new = Tail(old) /\ Msg(d) = Head(old)
    BY <1>10 DEF Takes, Msg
  <2>2. NoneBelow(Tail(old), q, i, Head(old).ver) /\ Head(old).ver <= u
    BY <1>3, <1>5, <1>10, <2>1, HeadIsOldest
  <2>3. 1 \in DOMAIN old /\ Head(old) = old[1]
    BY <1>3, <2>1 DEF Queue
  <2>4. q # d
    BY <1>1, <1>10, <2>1, <2>3 DEF FromOthers, Carries
  <2>5. \A v \in Versions : Kept(d, q, i, v) => v <= Msg(d).ver
    BY <1>1, <1>10, <2>1, <2>3 DEF OrderedCopies, NoneBelow
  <2>6. Msg(d).ver \in Nat
    BY <1>3, <2>1, <2>3, CarriedIsVersion
  <2>. QED  BY <2>1, <2>2, <2>4, <2>5, <2>6
<1>11. ASSUME NEW v \in Versions, Kept(e, q, i, v)'
       PROVE  q # e /\ v <= w /\ NoneBelow(new, q, i, v)
  <2>1. CASE Kept(e, q, i, v)
    <3>1. q # e /\ v <= u /\ NoneBelow(old, q, i, v)
      BY <1>1, <2>1 DEF OrderedCopies, u
    <3>. QED  BY <1>2, <1>6, <1>8, <3>1
  <2>2. CASE e = d /\ Coming(d, q, i) /\ v = dev[d].in.ver
    <3>1. q # e /\ v <= u /\ NoneBelow(old, q, i, v)
      BY <1>1, <2>2 DEF OrderedCopies, u
    <3>. QED  BY <1>2, <1>6, <1>8, <3>1
  <2>3. CASE e = d /\ Takes(d) /\ Carries(Msg(d), q, i) /\ v = Msg(d).ver
    BY <1>2, <1>10, <2>3
  <2>4. CASE e # d
    <3>1. synced'[e] = synced[e]
      BY <1>1, <2>4, StoredElsewhere
    <3>2. Kept(e, q, i, v)
      BY <1>11, <3>1 DEF Kept, Stored
    <3>. QED  BY <2>1, <3>2
  <2>. QED  BY <1>1, <1>11, <2>1, <2>2, <2>3, <2>4, KeptStep
<1>12. ASSUME Coming(e, q, i)'
       PROVE  /\ q # e /\ dev'[e].in.ver <= w /\ NoneBelow(new, q, i, dev'[e].in.ver)
              /\ \A v \in Versions : Kept(e, q, i, v)' => v <= dev'[e].in.ver
  <2>1. CASE e # d
    <3>1. synced'[e] = synced[e] /\ dev'[e] = dev[e]
      BY <1>1, <1>7, <2>1, StoredElsewhere
    <3>2. Coming(e, q, i) /\ \A v \in Versions : Kept(e, q, i, v)' => Kept(e, q, i, v)
      BY <1>12, <3>1 DEF Coming, Kept, Stored
    <3>3. /\ q # e /\ dev[e].in.ver <= u /\ NoneBelow(old, q, i, dev[e].in.ver)
          /\ \A v \in Versions : Kept(e, q, i, v) => v <= dev[e].in.ver
      BY <1>1, <3>2 DEF OrderedCopies, u
    <3>. QED  BY <1>2, <1>6, <1>8, <1>9, <3>1, <3>2, <3>3
  <2>2. CASE e = d /\ Coming(d, q, i) /\ dev'[d].in.ver = dev[d].in.ver
    <3>1. /\ q # e /\ dev[e].in.ver <= u /\ NoneBelow(old, q, i, dev[e].in.ver)
          /\ \A v \in Versions : Kept(e, q, i, v) => v <= dev[e].in.ver
      BY <1>1, <2>2 DEF OrderedCopies, u
    <3>2. ASSUME NEW v \in Versions, Kept(e, q, i, v)'
          PROVE  v <= dev[e].in.ver
      <4>1. \/ Kept(d, q, i, v) \/ v = dev[d].in.ver \/ i = Totals
        BY <1>1, <2>2, <3>2, KeptStep
      <4>2. i # Totals
        BY <2>2, SyncConstants DEF Coming
      <4>. QED  BY <1>8, <1>9, <2>2, <3>1, <4>1, <4>2
    <3>. QED  BY <1>2, <1>6, <1>8, <1>9, <2>2, <3>1, <3>2
  <2>3. CASE /\ e = d /\ Takes(d) /\ Carries(Msg(d), q, i)
             /\ dev'[d].in.ver = Msg(d).ver /\ synced' = synced
    <3>1. \A v \in Versions : Kept(e, q, i, v)' => Kept(e, q, i, v)
      BY <2>3 DEF Kept, Stored
    <3>. QED  BY <1>2, <1>10, <2>3, <3>1
  <2>. QED  BY <1>1, <1>7, <1>12, <2>1, <2>2, <2>3, ComingStep
<1>. QED  BY <1>6, <1>11, <1>12 DEF OrderedCopies, w

LEMMA OrderNext == OrderInv /\ [Next]_vars => OrderInv'
<1>. SUFFICES ASSUME OrderInv, [Next]_vars PROVE OrderInv'
  OBVIOUS
<1>1. CopyInv /\ CopyInv' /\ IdleInv /\ TypeOK /\ TypeOK' /\ FromOthers /\ Announced
  BY NextCopy DEF OrderInv, CopyInv, IdleInv
<1>2. CASE Clears
  <2>1. FromOthers' /\ Announced'
    BY <1>1, <1>2 DEF Clears, FromOthers, Announced, Upcoming
  <2>2. Ordered'
    BY <1>2 DEF OrderInv, Clears, Ordered, OrderedCopies, Upcoming, Kept, Stored,
                Coming
  <2>. QED  BY <1>1, <2>1, <2>2 DEF OrderInv
<1>3. ASSUME NEW d \in Device, Turns(d) PROVE OrderInv'
  <2>1. PICK s, S : Turn(d, s, S) /\ Effect(d, s, S)
    BY <1>3 DEF Turns
  <2>2. FromOthers'
    BY <1>1, <2>1, OthersNext
  <2>3. Announced'
    BY <1>1, <2>1, UpcomingGrows DEF Announced
  <2>4. Ordered'
    BY <1>1, <2>1, OrderedNext DEF Ordered
  <2>. QED  BY <1>1, <2>2, <2>3, <2>4 DEF OrderInv
<1>. QED  BY <1>1, <1>2, <1>3, StepTurns

LEMMA OrderInit == Init => OrderInv
<1>. SUFFICES ASSUME Init PROVE OrderInv
  OBVIOUS
<1>1. CopyInv /\ TypeOK
  BY InitCopy DEF CopyInv, WholeInv
<1>2. \A d \in Device : events[d] = <<>> /\ dev[d].in = NoIn /\ dev[d].out = NoOut
  BY DEF Init, Fresh
<1>3. \A d, p \in Device : \A i \in Items : ~Stored(d, p, i)
  BY DEF Init, Stored
<1>4. FromOthers
  BY <1>2 DEF FromOthers
<1>5. \A q \in Device, i \in Items : Upcoming(q, i) = local[q][i] /\ local[q][i] \in Nat
  BY <1>1, <1>2, SyncConstants DEF Upcoming, NoOut, TypeOK, Versions
<1>6. Announced
  BY <1>5 DEF Announced
<1>7. Ordered
  BY <1>2, <1>3, SyncConstants
     DEF Ordered, OrderedCopies, InOrder, NoneBelow, Kept, Coming, NoIn
<1>. QED  BY <1>1, <1>4, <1>6, <1>7 DEF OrderInv

-----------------------------------------------------------------------------
(* Every step is a step of PeerSnapshots, or changes nothing it can see.   *)

LEMMA CopyOf ==
  ASSUME NEW q \in Device, NEW i \in Items, NEW v \in Versions
  PROVE  LET f == Snapshot(q, i, v)
         IN  /\ CopyIn(NoFile, i) = None
             /\ f # NoFile => CopyIn(f, i) = [src |-> q, ver |-> v]
<1>. DEFINE f == Snapshot(q, i, v)
<1>1. CopyIn(NoFile, i) = None
  BY DEF CopyIn
<1>2. ASSUME f # NoFile PROVE CopyIn(f, i) = [src |-> q, ver |-> v]
  <2>1. SizeOf(i) \in Nat /\ SizeOf(i) > 0
    BY <1>2, SizeType, SnapshotDiffers
  <2>2. 1 \in 1..SizeOf(i)
    BY <2>1
  <2>3. f[1] = PieceOf(q, v, 0)
    BY <2>2 DEF Snapshot
  <2>4. f[1].src = q /\ f[1].ver = v
    BY <2>3 DEF PieceOf
  <2>5. CopyIn(f, i) = [src |-> f[1].src, ver |-> f[1].ver]
    BY <1>2 DEF CopyIn
  <2>. QED  BY <2>4, <2>5
<1>. QED  BY <1>1, <1>2

(* What d holds changes where it stores.                                   *)
LEMMA HeldReplaced ==
  ASSUME TypeOK, NEW d \in Device, NEW p \in Device, NEW i \in Items, NEW f,
         Replaces(d, p, i, f)
  PROVE  Held' = [Held EXCEPT ![d][p][i] = CopyIn(f, i)]
<1>. DEFINE H(e, r, j) == CopyIn(synced[e][r][j], j)
            G(e, r, j) == CopyIn(synced'[e][r][j], j)
<1>1. /\ Held = [e \in Device |-> [r \in Device |-> [j \in Items |-> H(e, r, j)]]]
      /\ Held' = [e \in Device |-> [r \in Device |-> [j \in Items |-> G(e, r, j)]]]
  BY DEF Held, CopyIn, Snapshot, SizeOf, PieceOf, NoFile
<1>2. \A e, r \in Device, j \in Items :
        G(e, r, j) = IF e = d /\ r = p /\ j = i THEN CopyIn(f, i) ELSE H(e, r, j)
  BY ReplacedAt
<1>. HIDE DEF H, G
<1>3. Held[d][p] = [j \in Items |-> H(d, p, j)] /\ Held[d] = [r \in Device |-> Held[d][r]]
  BY <1>1
<1>. DEFINE row == [Held[d][p] EXCEPT ![i] = CopyIn(f, i)]
            desk == [Held[d] EXCEPT ![p] = row]
<1>4. row = [j \in Items |-> G(d, p, j)]
  BY <1>2, <1>3
<1>5. desk = [r \in Device |-> [j \in Items |-> G(d, r, j)]]
  <2>1. ASSUME NEW r \in Device, r # p
        PROVE  Held[d][r] = [j \in Items |-> G(d, r, j)]
    <3>1. Held[d][r] = [j \in Items |-> H(d, r, j)]
      BY <1>1
    <3>. QED  BY <1>2, <2>1, <3>1
  <2>. HIDE DEF row
  <2>. QED  BY <1>3, <1>4, <2>1
<1>6. \A e \in Device : e # d => Held[e] = [r \in Device |-> [j \in Items |-> G(e, r, j)]]
  <2>1. ASSUME NEW e \in Device, e # d
        PROVE  Held[e] = [r \in Device |-> [j \in Items |-> G(e, r, j)]]
    <3>1. Held[e] = [r \in Device |-> [j \in Items |-> H(e, r, j)]]
      BY <1>1
    <3>2. \A r \in Device, j \in Items : G(e, r, j) = H(e, r, j)
      BY <1>2, <2>1
    <3>. QED  BY <3>1, <3>2
  <2>. QED  BY <2>1
<1>. HIDE DEF desk
<1>7. Held' = [Held EXCEPT ![d] = desk]
  <2>. DEFINE N(e) == [r \in Device |-> [j \in Items |-> G(e, r, j)]]
  <2>1. Held' = [e \in Device |-> N(e)] /\ desk = N(d)
    BY <1>1, <1>5
  <2>2. DOMAIN Held = Device /\ Held = [e \in Device |-> Held[e]]
    BY <1>1
  <2>3. \A e \in Device : e # d => Held[e] = N(e)
    BY <1>6
  <2>. HIDE DEF N
  <2>. QED  BY <2>1, <2>2, <2>3
<1>. QED  BY <1>7 DEF desk

LEMMA HeldKept ==
  ASSUME synced' = synced
  PROVE  Held' = Held
BY DEF Held, CopyIn

(* A copy already held of the same reader is not newer.                    *)
LEMMA HeldIsOlder ==
  ASSUME WholeInv, NEW d \in Device, NEW p \in Device, NEW q \in Device,
         NEW i \in Items, NEW v \in Nat,
         \A w \in Versions : Kept(d, q, i, w) => w <= v,
         Held[d][p][i] # None, Held[d][p][i].src = q
  PROVE  Held[d][p][i].ver <= v
<1>1. Held[d][p][i] = CopyIn(synced[d][p][i], i)
  BY DEF Held
<1>2. synced[d][p][i] # NoFile
  BY <1>1, CopyOf DEF CopyIn
<1>3. PICK r \in Device, w \in Versions : synced[d][p][i] = Snapshot(r, i, w)
  BY <1>2 DEF WholeInv, SavedWhole, Stored
<1>4. Held[d][p][i] = [src |-> r, ver |-> w]
  BY <1>1, <1>2, <1>3, CopyOf
<1>5. r = q
  BY <1>4
<1>6. Kept(d, q, i, w)
  BY <1>2, <1>3, <1>5 DEF Kept, Stored
<1>. QED  BY <1>4, <1>6

LEMMA MapsInit == Init => Snapshots!Init
<1>. SUFFICES ASSUME Init PROVE Snapshots!Init
  OBVIOUS
<1>1. local \in [Device -> [Items -> Nat]]
  <2>1. Versions \subseteq Nat /\ local \in [Device -> [Items -> Versions]]
    BY SyncConstants DEF Init, Versions
  <2>. QED  BY <2>1
<1>2. \A d, p \in Device : \A i \in Items : CopyIn(synced[d][p][i], i) = None
  BY DEF Init, CopyIn
<1>3. Held = [d \in Device |-> [p \in Device |-> [i \in Items |-> None]]]
  BY <1>2 DEF Held
<1>. QED  BY <1>1, <1>3 DEF Snapshots!Init

(* A whole file, from the reader q, takes its place under the name of p,   *)
(* and may be merged.                                                      *)
LEMMA MapsDelivery ==
  ASSUME OrderInv, NEW d \in Device, NEW p \in Device, NEW q \in Device,
         NEW i \in Items, NEW v \in Versions, p # d, q # d, v <= Upcoming(q, i),
         \A w \in Versions : Kept(d, q, i, w) => w <= v,
         Snapshot(q, i, v) # NoFile, Replaces(d, p, i, Snapshot(q, i, v)),
         \/ local' = local
         \/ /\ i \in MergeKinds
            /\ local' = IF v > local[d][i] THEN [local EXCEPT ![d][i] = v] ELSE local
  PROVE  Snapshots!Next
<1>1. TypeOK /\ WholeInv /\ Upcoming(q, i) <= local[q][i]
  BY DEF OrderInv, CopyInv, WholeInv, Announced
<1>2. v \in Nat /\ local[q][i] \in Nat /\ Upcoming(q, i) \in Nat
  BY <1>1, VersionTypes, SyncConstants DEF Versions
<1>3. v \in 0..local[q][i] /\ q \in Device \ {d} /\ p \in Device \ {d}
  BY <1>1, <1>2
<1>4. Held[d][p][i] # None /\ Held[d][p][i].src = q => Held[d][p][i].ver <= v
  BY <1>1, <1>2, HeldIsOlder
<1>5. CopyIn(Snapshot(q, i, v), i) = [src |-> q, ver |-> v]
  BY CopyOf
<1>6. Held' = [Held EXCEPT ![d][p][i] = [src |-> q, ver |-> v]]
  BY <1>1, <1>5, HeldReplaced
<1>7. local' = local \/ (i \in MergeKinds /\ local' = Snapshots!Adopted(d, i, v))
  <2>1. [local EXCEPT ![d][i] = IF v > @ THEN v ELSE @] =
          IF v > local[d][i] THEN [local EXCEPT ![d][i] = v] ELSE local
    BY <1>1 DEF TypeOK
  <2>. QED  BY <2>1 DEF Snapshots!Adopted
<1>8. Snapshots!Deliver(d, p, i)
  BY <1>3, <1>4, <1>6, <1>7 DEF Snapshots!Deliver
<1>. QED  BY <1>3, <1>8 DEF Snapshots!Next

LEMMA MapsTurn ==
  ASSUME OrderInv, NEW d \in Device, NEW s, NEW S, Turn(d, s, S), Effect(d, s, S)
  PROVE  Snapshots!Next \/ UNCHANGED <<local, Held>>
<1>. DEFINE m == Msg(d)
            in == dev[d].in
<1>1. TypeOK /\ WholeInv /\ FromOthers /\ Ordered
  BY DEF OrderInv, CopyInv, WholeInv
<1>2. events[d] # <<>> => m.from # d /\ events[d] \in Queue
  <2>1. events[d] # <<>> => 1 \in DOMAIN events[d] /\ m = events[d][1] /\ events[d] \in Queue
    BY <1>1 DEF TypeOK, Queue, Msg
  <2>. QED  BY <1>1, <2>1 DEF FromOthers
<1>3. CASE synced' = synced /\ local' = local
  BY <1>3, HeldKept
<1>4. CASE synced' = synced /\ OwnNews(d, s, S)
  <2>1. /\ \A i \in Items : local'[d][i] >= local[d][i]
        /\ \A e \in Device \ {d} : local'[e] = local[e]
    BY <1>1, LocalGrows
  <2>2. PICK own \in [Items -> Versions] : local' = [local EXCEPT ![d] = own]
    BY <1>4 DEF OwnNews
  <2>3. Versions \subseteq Nat
    BY SyncConstants DEF Versions
  <2>4. own \in [Items -> Nat] /\ local \in [Device -> [Items -> Nat]]
    BY <1>1, <2>3 DEF TypeOK
  <2>5. local' \in [Device -> [Items -> Nat]]
    BY <2>2, <2>4
  <2>6. Snapshots!Publish(d)
    BY <1>4, <2>1, <2>5, HeldKept DEF Snapshots!Publish
  <2>. QED  BY <2>6 DEF Snapshots!Next
<1>5. ASSUME NEW p \in Device, NEW i \in Items, p = m.from,
             Replaces(d, p, i, NoFile), Erases(d), local' = local
      PROVE  Snapshots!Next
  <2>1. p # d /\ Env \cap {"PowerLoss", "Fault"} # {}
    BY <1>2, <1>5 DEF Erases
  <2>2. Held' = [Held EXCEPT ![d][p][i] = None]
    BY <1>1, <1>5, HeldReplaced DEF CopyIn
  <2>3. Snapshots!Lose(d, p, i)
    BY <1>5, <2>1, <2>2 DEF Snapshots!Lose
  <2>. QED  BY <2>1, <2>3 DEF Snapshots!Next
<1>6. ASSUME NEW p \in Device, NEW i \in Items, p = m.from, StoresFile(d),
             TakesFile(d, s, S) \/ local' = local,
             Replaces(d, p, i, Snapshot(in.src, i, in.ver)), Coming(d, in.src, i),
             in.src \in Device, in.ver \in Versions, Snapshot(in.src, i, in.ver) # NoFile
      PROVE  Snapshots!Next
  <2>1. p # d /\ in.kind = m.kind
    BY <1>2, <1>6 DEF StoresFile, Completed
  <2>2. i = m.kind
    BY <1>6, <2>1 DEF Coming
  <2>3. /\ in.src # d /\ in.ver <= Upcoming(in.src, i)
        /\ \A w \in Versions : Kept(d, in.src, i, w) => w <= in.ver
    BY <1>1, <1>6 DEF Ordered, OrderedCopies
  <2>4. \/ local' = local
        \/ /\ i \in MergeKinds
           /\ local' = IF in.ver > local[d][i] THEN [local EXCEPT ![d][i] = in.ver]
                       ELSE local
    BY <1>6, <2>2 DEF TakesFile
  <2>. QED  BY <1>6, <2>1, <2>3, <2>4, MapsDelivery
<1>7. ASSUME NEW p \in Device, NEW i \in Items, TakesTotals(d), local' = local,
             Replaces(d, p, i, Snapshot(p, i, m.ver)), Carries(m, p, i),
             m.ver \in Versions, Snapshot(p, i, m.ver) # NoFile
      PROVE  Snapshots!Next
  <2>1. events[d] # <<>> /\ p = m.from /\ p # d
    BY <1>2, <1>7 DEF TakesTotals, Takes, Carries
  <2>2. OrderedCopies(d, p, i)
    BY <1>1 DEF Ordered
  <2>3. 1 \in DOMAIN events[d] /\ m = events[d][1] /\ m = Head(events[d])
    BY <1>2, <2>1 DEF Queue, Msg
  <2>4. m.ver <= Upcoming(p, i)
    BY <1>7, <2>2, <2>3 DEF OrderedCopies, InOrder
  <2>5. \A w \in Versions : Kept(d, p, i, w) => w <= m.ver
    BY <1>7, <2>2, <2>3 DEF OrderedCopies, NoneBelow
  <2>. QED  BY <1>7, <2>1, <2>4, <2>5, MapsDelivery
<1>. QED  BY <1>1, <1>3, <1>4, <1>5, <1>6, <1>7, StoredStep

(* The screens of any number of readers implement PeerSnapshots: every     *)
(* copy is replaced in one step by a whole one that its reader has really  *)
(* had, and never by an older one of the same reader.                      *)
THEOREM SyncImplementsSnapshots == Spec => Implements
<1>1. OrderInv /\ [Next]_vars => [Snapshots!Next]_<<local, Held>>
  <2>. SUFFICES ASSUME OrderInv, [Next]_vars
                PROVE  Snapshots!Next \/ UNCHANGED <<local, Held>>
    OBVIOUS
  <2>1. CASE Clears
    BY <2>1, HeldKept DEF Clears
  <2>2. ASSUME NEW d \in Device, Turns(d)
        PROVE  Snapshots!Next \/ UNCHANGED <<local, Held>>
    BY <2>2, MapsTurn DEF Turns
  <2>. QED  BY <2>1, <2>2, StepTurns DEF OrderInv, CopyInv
<1>. QED  BY <1>1, OrderInit, OrderNext, MapsInit, PTL DEF Spec, Implements, Snapshots!Spec

-----------------------------------------------------------------------------
(* Two readers.  With a third one in range a file may be stored under the  *)
(* name of a reader that did not send it; two readers cannot be mistaken   *)
(* for each other.                                                         *)

TwoReaders == \E a, b : a # b /\ Device = {a, b}

LEMMA TheOther ==
  ASSUME TwoReaders, NEW d \in Device, NEW p \in Device, NEW q \in Device,
         p # d, q # d
  PROVE  p = q
BY DEF TwoReaders

(* Nothing is stored under a reader's own name.                            *)
NoneOwn == \A d \in Device : \A i \in Items : ~Stored(d, d, i)
PeersInv == OrderInv /\ NoneOwn

LEMMA MsgFromOther ==
  ASSUME OrderInv, NEW d \in Device, events[d] # <<>>
  PROVE  /\ Msg(d).from # d /\ Msg(d).from \in Device /\ Msg(d) \in Packet
         /\ events[d] \in Queue /\ 1 \in DOMAIN events[d] /\ Msg(d) = events[d][1]
<1>1. TypeOK /\ FromOthers
  BY DEF OrderInv, CopyInv, WholeInv
<1>2. /\ events[d] \in Queue /\ 1 \in DOMAIN events[d] /\ Msg(d) = events[d][1]
      /\ Msg(d) \in Packet
  BY <1>1, MsgType DEF TypeOK, Queue, Msg
<1>. QED  BY <1>1, <1>2, AnyMsgType DEF FromOthers

LEMMA NoneOwnNext ==
  ASSUME PeersInv, NEW d \in Device, NEW s, NEW S, Turn(d, s, S), Effect(d, s, S)
  PROVE  NoneOwn'
<1>1. WholeInv /\ TypeOK /\ OrderInv /\ NoneOwn
  BY DEF PeersInv, OrderInv, CopyInv, WholeInv
<1>2. ASSUME NEW p \in Device, NEW i, NEW f, p # d, Replaces(d, p, i, f)
      PROVE  NoneOwn'
  BY <1>1, <1>2, ReplacedAt DEF NoneOwn, Stored
<1>3. CASE synced' = synced
  BY <1>1, <1>3 DEF NoneOwn, Stored
<1>4. CASE synced' # synced
  <2>1. PICK p \in Device, i \in Items :
          /\ \E f : Replaces(d, p, i, f)
          /\ \/ Erases(d) /\ p = Msg(d).from
             \/ StoresFile(d) /\ p = Msg(d).from
             \/ TakesTotals(d) /\ Carries(Msg(d), p, i)
    BY <1>1, <1>4, StoredStep
  <2>2. events[d] # <<>> /\ p = Msg(d).from
    BY <2>1 DEF Erases, StoresFile, TakesTotals, Completed, Takes, Carries
  <2>3. p # d
    BY <1>1, <2>2, MsgFromOther
  <2>. QED  BY <1>2, <2>1, <2>3
<1>. QED  BY <1>3, <1>4

LEMMA PeersNext == PeersInv /\ [Next]_vars => PeersInv'
<1>. SUFFICES ASSUME PeersInv, [Next]_vars PROVE PeersInv'
  OBVIOUS
<1>1. OrderInv /\ OrderInv'
  BY OrderNext DEF PeersInv
<1>2. CASE Clears
  BY <1>1, <1>2 DEF Clears, PeersInv, NoneOwn, Stored
<1>3. ASSUME NEW d \in Device, Turns(d) PROVE PeersInv'
  BY <1>1, <1>3, NoneOwnNext DEF Turns, PeersInv
<1>. QED  BY <1>1, <1>2, <1>3, StepTurns DEF OrderInv, CopyInv

LEMMA PeersInit == Init => PeersInv
<1>1. Init => NoneOwn
  BY DEF Init, NoneOwn, Stored
<1>. QED  BY <1>1, OrderInit DEF PeersInv

(* What one of two readers stores under the other's name is a file that    *)
(* the other has had.                                                      *)
THEOREM SavedFilesAreThePeers ==
  ASSUME TwoReaders
  PROVE  Spec => []SavedIsThePeers
<1>1. PeersInv => SavedIsThePeers
  <2>. SUFFICES ASSUME PeersInv, NEW d \in Device, NEW p \in Device,
                       NEW i \in Items, Stored(d, p, i)
                PROVE  \E v \in 0..local[p][i] : synced[d][p][i] = Snapshot(p, i, v)
    BY DEF SavedIsThePeers
  <2>1. TypeOK /\ SavedWhole /\ Ordered /\ Announced /\ p # d
    BY DEF PeersInv, OrderInv, CopyInv, WholeInv, NoneOwn
  <2>2. PICK q \in Device, v \in Versions : synced[d][p][i] = Snapshot(q, i, v)
    BY <2>1 DEF SavedWhole
  <2>3. Kept(d, q, i, v)
    BY <2>2 DEF Kept
  <2>4. q # d /\ v <= Upcoming(q, i) /\ Upcoming(q, i) <= local[q][i]
    BY <2>1, <2>3 DEF Ordered, OrderedCopies, Announced
  <2>5. v \in Nat /\ Upcoming(q, i) \in Nat /\ local[q][i] \in Nat
    BY <2>1, VersionTypes, SyncConstants DEF Versions
  <2>6. q = p /\ v \in 0..local[q][i]
    BY <2>1, <2>4, <2>5, TheOther
  <2>. QED  BY <2>2, <2>6
<1>. QED  BY <1>1, PeersInit, PeersNext, PTL DEF Spec

-----------------------------------------------------------------------------
(* A screen reports success only when the exchange is complete.            *)

DoneWhenSynced == \A d \in Device : dev[d].state = "SYNCED" => ExchangeDone(dev[d])

LEMMA SyncedTurn ==
  ASSUME TypeOK, NEW d \in Device, NEW s, NEW S, Effect(d, s, S), s.state = "SYNCED"
  PROVE  /\ dev[d].state = "SYNCED" \/ ExchangeDone(dev[d])
         /\ SameIn(dev[d], s) /\ SameOut(dev[d], s) /\ SameFlags(dev[d], s)
         /\ synced' = synced
<1>1. Talks(d, s, S) \/ AcksAgain(d, s, S) \/ OwnNews(d, s, S)
  BY DEF Effect, Fails, Resets, StoresTotals, HearsAck, BeginsFiles, GoesOn,
         RepeatsMeta, SendsPiece, Resends, MetaAcked, ChunkAcked, TakesMeta,
         TakesChunk, TakesFile, Joining
<1>2. CASE Talks(d, s, S)
  BY <1>2 DEF Talks, MovesOn
<1>3. CASE AcksAgain(d, s, S)
  BY <1>3 DEF AcksAgain, Joining
<1>4. CASE OwnNews(d, s, S)
  BY <1>4 DEF OwnNews
<1>. QED  BY <1>1, <1>2, <1>3, <1>4

LEMMA DoneNext ==
  ASSUME TypeOK, DoneWhenSynced, NEW d \in Device, NEW s, NEW S,
         Turn(d, s, S), Effect(d, s, S)
  PROVE  DoneWhenSynced'
<1>1. dev'[d] = s /\ \A e \in Device \ {d} : dev'[e] = dev[e]
  BY TurnKeeps
<1>2. s.state = "SYNCED" => ExchangeDone(s)
  BY SyncedTurn
     DEF DoneWhenSynced, ExchangeDone, SameIn, SameOut, SameFlags
<1>. QED  BY <1>1, <1>2 DEF DoneWhenSynced, ExchangeDone

LEMMA DoneInit == Init => DoneWhenSynced
BY DEF Init, DoneWhenSynced, Fresh

(* A queue keeps within a set of packets that new ones belong to.          *)
Within(r, X) == \A n \in DOMAIN r : r[n] \in X

LEMMA ExtendsWithin ==
  ASSUME NEW old \in Queue, NEW new \in Queue, NEW S, Extends(new, old, S),
         NEW X, Within(old, X), \A m \in S : m \in X
  PROVE  Within(new, X)
<1>1. PICK k \in 0..Len(old) :
        \A n \in DOMAIN new :
          IF n + k <= Len(old) THEN new[n] = old[n + k] ELSE new[n] \in S
  BY DEF Extends
<1>2. \A n \in DOMAIN new : n + k <= Len(old) => n + k \in DOMAIN old
  BY DEF Queue
<1>. QED  BY <1>1, <1>2 DEF Within

LEMMA QueuesWithin ==
  ASSUME TypeOK, TypeOK', NEW d \in Device, NEW s, NEW S, Turn(d, s, S),
         NEW e \in Device, NEW X, Within(events[e], X),
         e # d => \A m \in S : m \in X
  PROVE  Within(events'[e], X)
<1>1. events[e] \in Queue /\ events'[e] \in Queue
  BY DEF TypeOK
<1>2. CASE e = d
  BY <1>1, <1>2, ExtendsWithin DEF Turn, Heard
<1>3. CASE e # d
  BY <1>1, <1>3, ExtendsWithin DEF Turn, Heard
<1>. QED  BY <1>2, <1>3

-----------------------------------------------------------------------------
(* A reader whose totals cannot be parsed is never acknowledged, so that   *)
(* it never gets to announce a file.                                       *)

Unacknowledged == {m \in Packet : m.type # "ACK"}
Unannounced == {m \in Packet : m.type # "FILE_META"}

Refuses(d, p) ==
  /\ ~dev[d].totalsSaved /\ dev[d].in.kind = None
  /\ ~dev[p].statsAcked /\ dev[p].out.kind = None
  /\ Within(events[p], Unacknowledged) /\ Within(events[d], Unannounced)
  /\ \A i \in Items : ~Stored(d, p, i)

RefusesForeign == \A d \in Device : \A p \in foreign \ {d} : Refuses(d, p)
ForeignInv == PeersInv /\ DoneWhenSynced /\ RefusesForeign

(* A turn of the reader with the foreign one's packets in its queue.       *)
LEMMA RefusingTurn ==
  ASSUME ForeignInv, TwoReaders, NEW d \in Device, NEW p \in foreign \ {d}, p \in Device,
         NEW s, NEW S, Turn(d, s, S), Effect(d, s, S)
  PROVE  /\ ~s.totalsSaved /\ s.in.kind = None
         /\ \A m \in S : m \in Unacknowledged
         /\ synced' = synced \/ \E i \in Items : Replaces(d, p, i, NoFile)
<1>. DEFINE x == dev[d]
<1>1. /\ OrderInv /\ WholeInv /\ TypeOK /\ Refuses(d, p) /\ DoneWhenSynced
  BY DEF ForeignInv, PeersInv, OrderInv, CopyInv, WholeInv, RefusesForeign
<1>2. events[d] # <<>> => Msg(d).from = p /\ Msg(d).type # "FILE_META" /\ ~Parses(Msg(d))
  BY <1>1, MsgFromOther, TheOther DEF Refuses, Within, Unannounced, Parses
<1>3. x.state # "SYNCED" /\ ~x.totalsSaved /\ x.in.kind = None
  BY <1>1 DEF Refuses, DoneWhenSynced, ExchangeDone
<1>4. ~Completed(d)
  <2>1. events[d] # <<>> /\ Msg(d).type = "FILE_DONE" => Msg(d).kind \in Kinds
    BY <1>1, MsgType, FileMsgType DEF FileTypes
  <2>. QED  BY <1>3, <2>1, SyncConstants DEF Completed
<1>5. /\ ~StoresTotals(d, s, S) /\ ~TakesMeta(d, s, S) /\ ~TakesFile(d, s, S)
      /\ ~BeginsFiles(d, s, S)
  BY <1>2, <1>3, <1>4 DEF StoresTotals, TakesMeta, TakesFile, Stores, BeginsFiles, Joining, Takes
<1>6. ~TakesChunk(d, s, S)
  <2>1. Receives(d, {"FILE_CHUNK"}) => Msg(d).kind \in Kinds
    BY <1>1, MsgType, FileMsgType DEF FileTypes, Receives
  <2>. QED  BY <1>3, <2>1, SyncConstants DEF TakesChunk, IsNextChunk, Joining, Takes, Receives
<1>7. ~s.totalsSaved /\ s.in.kind = None
  BY <1>3, <1>5, <1>6
     DEF Effect, Talks, Fails, Resets, Idle, NoIn, HearsAck, GoesOn, RepeatsMeta,
         SendsPiece, AcksAgain, OwnNews, SameIn, SameFlags
<1>8. synced' = synced
  BY <1>2, <1>4, <1>5, <1>6
     DEF Effect, Talks, Fails, Resets, Stores, Erases, HearsAck, GoesOn, RepeatsMeta,
         SendsPiece, AcksAgain, OwnNews
<1>9. ASSUME NEW m \in S PROVE m.type # "ACK"
  <2>1. \A t, e : Plain(t, e).type = t
    BY DEF Plain
  <2>2. \A t, e, k, i, v : FilePacket(t, e, k, i, v).type = t
    BY DEF FilePacket
  <2>3. Stats(d).type = "STATS"
    BY DEF Stats, Plain
  <2>4. CASE Talks(d, s, S)
    BY <1>3, <2>1, <2>3, <2>4 DEF Talks
  <2>5. CASE Fails(d, s, S) \/ Resets(d, s, S) \/ HearsAck(d, s, S) \/ OwnNews(d, s, S)
    BY <2>5 DEF Fails, Resets, HearsAck, OwnNews
  <2>6. CASE GoesOn(d, s, S) \/ RepeatsMeta(d, s, S)
    <3>1. CASE RepeatsMeta(d, s, S)
      BY <2>2, <3>1 DEF RepeatsMeta
    <3>2. CASE GoesOn(d, s, S)
      <4>1. PICK n : m = FilePacket("FILE_META", d, KindAfter(x.out.kind), n,
                                    local[d][KindAfter(x.out.kind)])
        BY <3>2 DEF GoesOn, NextFile
      <4>. QED  BY <2>2, <4>1
    <3>. QED  BY <2>6, <3>1, <3>2
  <2>7. CASE SendsPiece(d, s, S)
    <3>1. s.out.chunk \in Nat /\ x.out.size \in Nat
      BY <1>1, <2>7 DEF SendsPiece, Turn, TypeOK, DeviceState, OutTransfer
    <3>2. \E t \in {"FILE_DONE", "FILE_CHUNK"} : \E k, i, v : m = FilePacket(t, d, k, i, v)
      BY <2>7, <3>1 DEF SendsPiece
    <3>. QED  BY <2>2, <3>2
  <2>8. CASE AcksAgain(d, s, S)
    <3>1. \E t \in FileAcks : \E k, i : m = FilePacket(t, d, k, i, 0)
      BY <2>8 DEF AcksAgain, FileAcks, AckOf
    <3>. QED  BY <2>2, <3>1 DEF FileAcks
  <2>. QED  BY <1>5, <1>6, <2>4, <2>5, <2>6, <2>7, <2>8 DEF Effect
<1>. QED  BY <1>7, <1>8, <1>9 DEF Turn, Unacknowledged

(* A turn of the foreign reader.                                           *)
LEMMA RefusedTurn ==
  ASSUME ForeignInv, TwoReaders, NEW d \in Device, NEW p \in foreign \ {d}, p \in Device,
         NEW s, NEW S, Turn(p, s, S), Effect(p, s, S)
  PROVE  /\ ~s.statsAcked /\ s.out.kind = None
         /\ \A m \in S : m \in Unannounced
<1>. DEFINE x == dev[p]
<1>1. OrderInv /\ TypeOK /\ Refuses(d, p) /\ x.out \in OutTransfer
  BY DEF ForeignInv, PeersInv, OrderInv, CopyInv, WholeInv, RefusesForeign, TypeOK, DeviceState
<1>2. events[p] # <<>> => Msg(p).type # "ACK"
  BY <1>1, MsgFromOther DEF Refuses, Within, Unacknowledged
<1>3. ~x.statsAcked /\ x.out.kind = None
  BY <1>1 DEF Refuses
<1>4. events[p] # <<>> /\ Msg(p).type \in FileTypes => Msg(p).kind # None
  BY <1>1, MsgType, FileMsgType, SyncConstants
<1>5. /\ ~HearsAck(p, s, S) /\ ~BeginsFiles(p, s, S) /\ ~GoesOn(p, s, S)
      /\ ~RepeatsMeta(p, s, S) /\ ~SendsPiece(p, s, S)
  BY <1>2, <1>3, <1>4, SyncConstants
     DEF HearsAck, BeginsFiles, GoesOn, RepeatsMeta, SendsPiece, Joining, Takes,
         FileTypes, FileAcks
<1>6. [x.out EXCEPT !.open = FALSE].kind = x.out.kind /\ NoOut.kind = None
  BY <1>1 DEF OutTransfer, NoOut
<1>7. ~s.statsAcked /\ s.out.kind = None
  BY <1>3, <1>5, <1>6
     DEF Effect, Talks, Fails, Resets, Idle, StoresTotals, TakesMeta, TakesChunk,
         TakesFile, AcksAgain, OwnNews, SameOut, SameFlags
<1>8. ASSUME NEW m \in S PROVE m.type # "FILE_META"
  <2>1. \A t, e : Plain(t, e).type = t
    BY DEF Plain
  <2>2. \A t, e, k, i, v : FilePacket(t, e, k, i, v).type = t
    BY DEF FilePacket
  <2>3. Stats(p).type = "STATS"
    BY DEF Stats, Plain
  <2>4. CASE Talks(p, s, S) \/ StoresTotals(p, s, S)
    BY <2>1, <2>3, <2>4 DEF Talks, StoresTotals
  <2>5. CASE Fails(p, s, S) \/ Resets(p, s, S) \/ OwnNews(p, s, S)
    BY <2>5 DEF Fails, Resets, OwnNews
  <2>6. CASE TakesMeta(p, s, S) \/ TakesChunk(p, s, S) \/ TakesFile(p, s, S)
             \/ AcksAgain(p, s, S)
    <3>1. \E t \in FileAcks : \E k, i : m = FilePacket(t, p, k, i, 0)
      BY <2>6 DEF TakesMeta, TakesChunk, TakesFile, AcksAgain, FileAcks, AckOf
    <3>. QED  BY <2>2, <3>1 DEF FileAcks
  <2>. QED  BY <1>5, <2>4, <2>5, <2>6 DEF Effect
<1>. QED  BY <1>7, <1>8 DEF Turn, Unannounced

LEMMA RefusesNext ==
  ASSUME ForeignInv, TypeOK', TwoReaders, NEW e \in Device, NEW s, NEW S,
         Turn(e, s, S), Effect(e, s, S), foreign' = foreign
  PROVE  RefusesForeign'
<1>1. /\ TypeOK /\ WholeInv /\ foreign \subseteq Device
      /\ dev'[e] = s /\ \A f \in Device \ {e} : dev'[f] = dev[f]
  BY TurnKeeps, SyncConstants
     DEF ForeignInv, PeersInv, OrderInv, CopyInv, WholeInv, TypeOK
<1>. SUFFICES ASSUME NEW d \in Device, NEW p \in foreign \ {d} PROVE Refuses(d, p)'
  BY DEF RefusesForeign
<1>2. Refuses(d, p) /\ p \in Device /\ (e = d \/ e = p)
  BY <1>1, TheOther DEF ForeignInv, RefusesForeign
<1>3. CASE e = d
  <2>1. /\ ~s.totalsSaved /\ s.in.kind = None
        /\ \A m \in S : m \in Unacknowledged
        /\ synced' = synced \/ \E i \in Items : Replaces(d, p, i, NoFile)
    BY <1>2, <1>3, RefusingTurn
  <2>2. Within(events'[p], Unacknowledged) /\ Within(events'[d], Unannounced)
    BY <1>1, <1>2, <1>3, <2>1, QueuesWithin DEF Refuses
  <2>3. \A i \in Items : synced'[d][p][i] = NoFile
    BY <1>1, <1>2, <2>1, ReplacedAt DEF Refuses, Stored
  <2>. QED  BY <1>1, <1>2, <1>3, <2>1, <2>2, <2>3 DEF Refuses, Stored
<1>4. CASE e = p
  <2>1. /\ ~s.statsAcked /\ s.out.kind = None
        /\ \A m \in S : m \in Unannounced
    BY <1>2, <1>4, RefusedTurn
  <2>2. Within(events'[p], Unacknowledged) /\ Within(events'[d], Unannounced)
    BY <1>1, <1>2, <1>4, <2>1, QueuesWithin DEF Refuses
  <2>3. synced'[d] = synced[d]
    BY <1>1, <1>2, <1>4, StoredElsewhere
  <2>. QED  BY <1>1, <1>2, <1>4, <2>1, <2>2, <2>3 DEF Refuses, Stored
<1>. QED  BY <1>2, <1>3, <1>4

LEMMA ForeignNext ==
  ASSUME TwoReaders
  PROVE  ForeignInv /\ [Next]_vars => ForeignInv'
<1>. SUFFICES ASSUME ForeignInv, [Next]_vars PROVE ForeignInv'
  OBVIOUS
<1>1. PeersInv /\ PeersInv' /\ DoneWhenSynced /\ TypeOK /\ TypeOK' /\ IdleInv
  BY PeersNext DEF ForeignInv, PeersInv, OrderInv, CopyInv, WholeInv, IdleInv
<1>2. CASE Clears
  BY <1>1, <1>2
     DEF Clears, ForeignInv, DoneWhenSynced, RefusesForeign, Refuses, Stored
<1>3. ASSUME NEW d \in Device, Turns(d) PROVE ForeignInv'
  BY <1>1, <1>3, DoneNext, RefusesNext DEF Turns, ForeignInv
<1>. QED  BY <1>1, <1>2, <1>3, StepTurns

LEMMA ForeignInit == Init => ForeignInv
<1>. SUFFICES ASSUME Init PROVE ForeignInv
  OBVIOUS
<1>1. PeersInv /\ DoneWhenSynced /\ foreign \subseteq Device
  BY PeersInit, DoneInit, SyncConstants DEF Init
<1>2. \A d \in Device : /\ dev[d] = Fresh("OFF", FALSE) /\ events[d] = <<>>
                        /\ \A p \in Device, i \in Items : synced[d][p][i] = NoFile
  BY DEF Init
<1>3. RefusesForeign
  BY <1>1, <1>2
     DEF RefusesForeign, Refuses, Fresh, NoIn, NoOut, Within, Stored
<1>. QED  BY <1>1, <1>3 DEF ForeignInv

(* Nothing of a reader with another stats format is stored by the other,   *)
(* or reported by it, whatever is lost and whoever leaves in between.      *)
THEOREM ForeignIsRefused ==
  ASSUME TwoReaders
  PROVE  Spec => []ForeignRefused
<1>1. ForeignInv => ForeignRefused
  BY DEF ForeignInv, RefusesForeign, Refuses, ForeignRefused, DoneWhenSynced, ExchangeDone
<1>. QED  BY <1>1, ForeignInit, ForeignNext, PTL DEF Spec

-----------------------------------------------------------------------------
(* The dates.  As long as nobody reads between two visits, a reader's date *)
(* moves only by merging the other's, so that what one of them announces   *)
(* stays as late as its own date or has already been caught up with.       *)

Dates == MergeKinds \ {AwardKind}
Caught(theirs, v, mine) == theirs <= v \/ theirs <= mine
Reaches(d, p, k, v) == Caught(local[p][k], v, local[d][k])

(* What d has of p's date, on its way or merged.                           *)
Settles(d, p, k) ==
  /\ dev[p].out.kind = k => Reaches(d, p, k, dev[p].out.ver)
  /\ \A n \in DOMAIN events[d] :
       Carries(events[d][n], p, k) => Reaches(d, p, k, events[d][n].ver)
  /\ dev[d].in.kind = k => Reaches(d, p, k, dev[d].in.ver)
  /\ k \in dev[d].saved => local[p][k] <= local[d][k]

DatesSettle == \A d, p \in Device : \A k \in Dates : d # p => Settles(d, p, k)
DateInv == OrderInv /\ DoneWhenSynced /\ DatesSettle

LEMMA DateTypes ==
  ASSUME OrderInv, OrderInv', NEW d \in Device, NEW k \in Dates
  PROVE  /\ k \in Items /\ k \in Kinds /\ k # None /\ k # AwardKind /\ k \in MergeKinds
         /\ local[d][k] \in Nat /\ local'[d][k] \in Nat
         /\ dev[d].in.ver \in Nat /\ dev'[d].in.ver \in Nat
<1>1. TypeOK /\ TypeOK'
  BY DEF OrderInv, CopyInv, WholeInv
<1>2. k \in Items /\ k \in Kinds /\ k # None /\ k # AwardKind /\ k \in MergeKinds
  BY SyncConstants DEF Dates, Items
<1>. QED  BY <1>1, <1>2, VersionTypes, VersionTypesNext

(* What d is receiving comes from the other reader and is no later than    *)
(* that reader's own.                                                      *)
LEMMA ComingFromOther ==
  ASSUME OrderInv, TwoReaders, NEW d \in Device, NEW p \in Device, d # p,
         NEW k \in Kinds, dev[d].in.kind = k
  PROVE  dev[d].in.ver <= local[p][k] /\ Coming(d, p, k)
<1>1. TypeOK /\ Known(dev[d].in) /\ k # None /\ k \in Items
  BY SyncConstants DEF OrderInv, CopyInv, WholeInv, SourceKnown, Items
<1>2. dev[d].in.src \in Device
  BY <1>1 DEF Known
<1>3. Coming(d, dev[d].in.src, k)
  BY DEF Coming
<1>4. dev[d].in.src = p /\ dev[d].in.ver <= Upcoming(p, k)
  BY <1>1, <1>2, <1>3, TheOther DEF OrderInv, Ordered, OrderedCopies
<1>5. Upcoming(p, k) <= local[p][k]
  BY <1>1 DEF OrderInv, Announced
<1>. QED  BY <1>1, <1>3, <1>4, <1>5, VersionTypes

(* A reader's date becomes at most the other's.                            *)
LEMMA DateStep ==
  ASSUME OrderInv, OrderInv', TwoReaders, "Read" \notin Env,
         NEW e \in Device, NEW s, NEW S, Effect(e, s, S),
         NEW d \in Device, NEW p \in Device, d # p, NEW k \in Dates
  PROVE  /\ local'[p][k] = local[p][k] \/ local'[p][k] <= local[d][k]
         /\ local'[d][k] >= local[d][k]
<1>1. TypeOK /\ local \in [Device -> [Items -> Versions]]
  BY DEF OrderInv, CopyInv, WholeInv, TypeOK
<1>2. /\ k \in Items /\ k \in Kinds /\ k # AwardKind /\ k \in MergeKinds
      /\ \A f \in Device : /\ local[f][k] \in Nat /\ local'[f][k] \in Nat
                           /\ dev[f].in.ver \in Nat
  BY DateTypes
<1>3. local'[d][k] >= local[d][k]
  BY <1>1, <1>2, LocalGrows
<1>4. CASE p # e
  BY <1>1, <1>3, <1>4, LocalGrows
<1>5. CASE p = e /\ local' = local
  BY <1>3, <1>5
<1>6. CASE p = e /\ OwnNews(e, s, S)
  <2>1. local'[e][k] = local[e][k]
    BY <1>1, <1>2, <1>6 DEF OwnNews
  <2>. QED  BY <1>3, <1>6, <2>1
<1>7. CASE p = e /\ TakesFile(e, s, S)
  <2>1. \/ local' = local
        \/ /\ local' = [local EXCEPT ![p][Msg(p).kind] = dev[p].in.ver]
           /\ dev[p].in.kind = Msg(p).kind
    BY <1>7 DEF TakesFile, Stores, Completed
  <2>2. CASE dev[p].in.kind = k /\ local' = [local EXCEPT ![p][k] = dev[p].in.ver]
    <3>1. local'[p][k] = dev[p].in.ver
      BY <1>1, <1>2, <2>2
    <3>2. dev[p].in.ver <= local[d][k]
      BY <1>2, <2>2, ComingFromOther
    <3>. QED  BY <1>3, <3>1, <3>2
  <2>3. CASE /\ local' = [local EXCEPT ![p][Msg(p).kind] = dev[p].in.ver]
             /\ Msg(p).kind # k
    <3>1. local'[p][k] = local[p][k]
      BY <1>1, <1>2, <2>3
    <3>. QED  BY <1>3, <3>1
  <2>. QED  BY <1>3, <2>1, <2>2, <2>3
<1>. QED  BY <1>1, <1>4, <1>5, <1>6, <1>7, LocalStep

LEMMA ReachesNext ==
  ASSUME OrderInv, OrderInv', TwoReaders, "Read" \notin Env,
         NEW e \in Device, NEW s, NEW S, Effect(e, s, S),
         NEW d \in Device, NEW p \in Device, d # p, NEW k \in Dates
  PROVE  /\ \A v \in Nat : Reaches(d, p, k, v) => Caught(local'[p][k], v, local'[d][k])
         /\ local[p][k] <= local[d][k] => local'[p][k] <= local'[d][k]
<1>1. /\ local[d][k] \in Nat /\ local'[d][k] \in Nat
      /\ local[p][k] \in Nat /\ local'[p][k] \in Nat
  BY DateTypes
<1>2. /\ local'[p][k] = local[p][k] \/ local'[p][k] <= local[d][k]
      /\ local'[d][k] >= local[d][k]
  BY DateStep
<1>. QED  BY <1>1, <1>2 DEF Reaches, Caught

(* The part of each conjunct that one turn can change.                     *)
LEMMA SettlesNext ==
  ASSUME DateInv, OrderInv', TwoReaders, "Read" \notin Env,
         NEW e \in Device, NEW s, NEW S, Turn(e, s, S), Effect(e, s, S),
         NEW d \in Device, NEW p \in Device, d # p, NEW k \in Dates
  PROVE  Settles(d, p, k)'
<1>1. /\ TypeOK /\ TypeOK' /\ OrderInv /\ Settles(d, p, k) /\ (e = d \/ e = p)
      /\ dev'[e] = s /\ \A f \in Device \ {e} : dev'[f] = dev[f]
  BY TurnKeeps, TheOther DEF DateInv, DatesSettle, OrderInv, CopyInv, WholeInv
<1>2. /\ k \in Items /\ k \in Kinds /\ k # None /\ k \in MergeKinds
      /\ local[d][k] \in Nat /\ local'[d][k] \in Nat
      /\ local[p][k] \in Nat /\ local'[p][k] \in Nat
      /\ dev[d].in.ver \in Nat /\ dev[p].out.ver \in Nat
  BY <1>1, DateTypes, VersionTypes
<1>3. /\ \A v \in Nat : Reaches(d, p, k, v) => Caught(local'[p][k], v, local'[d][k])
      /\ local[p][k] <= local[d][k] => local'[p][k] <= local'[d][k]
  BY <1>1, ReachesNext
<1>4. dev'[p].out.kind = k => Caught(local'[p][k], dev'[p].out.ver, local'[d][k])
  <2>1. \/ dev'[p].out.kind = dev[p].out.kind /\ dev'[p].out.ver = dev[p].out.ver
        \/ dev'[p].out.kind = None
        \/ dev'[p].out.ver = local[p][dev'[p].out.kind] /\ local' = local
    BY <1>1, OutStep
  <2>. QED  BY <1>1, <1>2, <1>3, <2>1 DEF Settles, Reaches, Caught
<1>5. \A m : m \in S /\ e # d /\ Carries(m, p, k) => Caught(local'[p][k], m.ver, local'[d][k])
  <2>. SUFFICES ASSUME NEW m \in S, e # d, Carries(m, p, k) PROVE Caught(local'[p][k], m.ver, local'[d][k])
    OBVIOUS
  <2>1. e = p /\ m.ver = Upcoming(p, k)'
    BY <1>1, <1>2, TurnSays
  <2>2. Upcoming(p, k)' = IF dev'[p].out.kind = k THEN dev'[p].out.ver ELSE local'[p][k]
    BY <1>2 DEF Upcoming
  <2>. QED  BY <1>2, <1>4, <2>1, <2>2 DEF Reaches, Caught
<1>6. \A n \in DOMAIN events'[d] :
        Carries(events'[d][n], p, k) => Caught(local'[p][k], events'[d][n].ver, local'[d][k])
  <2>. DEFINE X == {m \in Packet : Carries(m, p, k) => Caught(local'[p][k], m.ver, local'[d][k])}
  <2>1. Within(events[d], X)
    <3>. SUFFICES ASSUME NEW n \in DOMAIN events[d], Carries(events[d][n], p, k)
                  PROVE  Caught(local'[p][k], events[d][n].ver, local'[d][k])
      BY <1>1 DEF Within, TypeOK, Queue
    <3>1. events[d][n] \in Packet
      BY <1>1 DEF TypeOK, Queue
    <3>2. events[d][n].ver \in Nat
      <4>1. events[d] \in Queue
        BY <1>1 DEF TypeOK
      <4>. QED  BY <4>1, CarriedIsVersion
    <3>. QED  BY <1>1, <1>3, <3>2 DEF Settles
  <2>2. e # d => \A m \in S : m \in X
    BY <1>5 DEF Turn
  <2>. HIDE DEF X
  <2>3. Within(events'[d], X)
    BY <1>1, <2>1, <2>2, QueuesWithin
  <2>. QED  BY <2>3 DEF Within, X
<1>7. dev'[d].in.kind = k => Caught(local'[p][k], dev'[d].in.ver, local'[d][k])
  <2>. SUFFICES ASSUME dev'[d].in.kind = k PROVE Caught(local'[p][k], dev'[d].in.ver, local'[d][k])
    OBVIOUS
  <2>1. CASE e # d
    BY <1>1, <1>2, <1>3, <2>1 DEF Settles
  <2>2. CASE e = d
    <3>1. PICK q \in Device : q = dev'[d].in.src
      BY <1>2 DEF OrderInv, CopyInv, WholeInv, SourceKnown, Known
    <3>2. Coming(d, q, k)'
      BY <1>2, <3>1 DEF Coming
    <3>3. /\ dev'[d].in.ver = s.in.ver
          /\ \/ Coming(d, q, k) /\ s.in.ver = dev[d].in.ver
             \/ /\ Takes(d) /\ Carries(Msg(d), q, k) /\ s.in.ver = Msg(d).ver
      BY <1>1, <1>2, <2>2, <3>1, <3>2, ComingStep
    <3>4. CASE Coming(d, q, k) /\ s.in.ver = dev[d].in.ver
      BY <1>1, <1>2, <1>3, <3>3, <3>4 DEF Settles, Coming
    <3>5. CASE Takes(d) /\ Carries(Msg(d), q, k) /\ s.in.ver = Msg(d).ver
      <4>1. /\ events[d] \in Queue /\ 1 \in DOMAIN events[d] /\ Msg(d) = events[d][1]
            /\ Msg(d).from \in Device /\ Msg(d).from # d
        BY <1>1, <3>5, MsgFromOther DEF Takes
      <4>2. q = p
        BY <3>1, <3>5, <4>1, TheOther DEF Carries
      <4>3. Msg(d).ver \in Nat
        BY <4>1, CarriedIsVersion
      <4>. QED  BY <1>1, <1>3, <3>3, <3>5, <4>1, <4>2, <4>3 DEF Settles
    <3>. QED  BY <3>3, <3>4, <3>5
  <2>. QED  BY <2>1, <2>2
<1>8. k \in dev'[d].saved => local'[p][k] <= local'[d][k]
  <2>1. CASE k \in dev[d].saved
    BY <1>1, <1>3, <2>1 DEF Settles
  <2>2. CASE k \notin dev[d].saved /\ k \in dev'[d].saved
    <3>1. e = d /\ k \in s.saved
      BY <1>1, <2>2
    <3>2. TakesFile(d, s, S) /\ k = Msg(d).kind
      BY <2>2, <3>1
         DEF Effect, Talks, Fails, Resets, Idle, StoresTotals, HearsAck, BeginsFiles,
             GoesOn, RepeatsMeta, SendsPiece, TakesMeta, TakesChunk, TakesFile,
             AcksAgain, OwnNews, SameIn
    <3>3. /\ dev[d].in.kind = k
          /\ local' = IF dev[d].in.ver > local[d][k]
                      THEN [local EXCEPT ![d][k] = dev[d].in.ver] ELSE local
      BY <1>2, <3>2 DEF TakesFile, Stores, Completed
    <3>4. /\ local'[p] = local[p]
          /\ local'[d][k] >= local[d][k] /\ local'[d][k] >= dev[d].in.ver
      <4>1. local \in [Device -> [Items -> Versions]]
        BY <1>1 DEF TypeOK
      <4>2. CASE dev[d].in.ver > local[d][k]
        BY <1>2, <3>3, <4>1, <4>2
      <4>3. CASE ~(dev[d].in.ver > local[d][k])
        BY <1>2, <3>3, <4>1, <4>3
      <4>. QED  BY <4>2, <4>3
    <3>5. Reaches(d, p, k, dev[d].in.ver)
      BY <1>1, <3>3 DEF Settles
    <3>. QED  BY <1>2, <3>4, <3>5 DEF Reaches, Caught
  <2>. QED  BY <2>1, <2>2
<1>. QED  BY <1>4, <1>6, <1>7, <1>8 DEF Settles, Reaches

LEMMA DateNext ==
  ASSUME TwoReaders, "Read" \notin Env
  PROVE  DateInv /\ [Next]_vars => DateInv'
<1>. SUFFICES ASSUME DateInv, [Next]_vars PROVE DateInv'
  OBVIOUS
<1>1. OrderInv /\ OrderInv' /\ DoneWhenSynced /\ TypeOK /\ IdleInv
  BY OrderNext DEF DateInv, OrderInv, CopyInv, WholeInv, IdleInv
<1>2. CASE Clears
  BY <1>1, <1>2
     DEF Clears, DateInv, DoneWhenSynced, DatesSettle, Settles, Reaches, Caught
<1>3. ASSUME NEW d \in Device, Turns(d) PROVE DateInv'
  BY <1>1, <1>3, DoneNext, SettlesNext DEF Turns, DateInv, DatesSettle
<1>. QED  BY <1>1, <1>2, <1>3, StepTurns

LEMMA DateInit == Init => DateInv
<1>. SUFFICES ASSUME Init PROVE DateInv
  OBVIOUS
<1>1. OrderInv /\ DoneWhenSynced
  BY OrderInit, DoneInit
<1>2. \A d \in Device : dev[d] = Fresh("OFF", FALSE) /\ events[d] = <<>>
  BY DEF Init
<1>3. \A k \in Dates : k # None
  BY SyncConstants DEF Dates
<1>4. DatesSettle
  BY <1>2, <1>3 DEF DatesSettle, Settles, Fresh, NoIn, NoOut
<1>. QED  BY <1>1, <1>4 DEF DateInv

(* Two readers that both report success have the same, later date,         *)
(* whatever was lost or failed on the way and however often they left, as  *)
(* long as nobody reads in between.                                        *)
THEOREM DatesHaveConverged ==
  ASSUME TwoReaders, "Read" \notin Env
  PROVE  Spec => []DatesConverge
<1>1. DateInv => DatesConverge
  <2>. SUFFICES ASSUME DateInv, NEW d \in Device, NEW p \in Device,
                       dev[d].state = "SYNCED", dev[p].state = "SYNCED",
                       NEW k \in Dates
                PROVE  local[d][k] = local[p][k]
    BY DEF DatesConverge, Dates
  <2>1. k \in dev[d].saved /\ k \in dev[p].saved /\ k \in Items /\ TypeOK
    BY SyncConstants
       DEF DateInv, DoneWhenSynced, ExchangeDone, Dates, Items, OrderInv, CopyInv, WholeInv
  <2>2. d # p => local[p][k] <= local[d][k] /\ local[d][k] <= local[p][k]
    BY <2>1 DEF DateInv, DatesSettle, Settles
  <2>. QED  BY <2>1, <2>2, VersionTypes
<1>. QED  BY <1>1, DateInit, DateNext, PTL DEF Spec
=============================================================================
