------------------------ MODULE NearbyStatsSync_proofs ------------------------
(* Proofs about NearbyStatsSync, for every set of readers, list of kinds,  *)
(* file size and queue length, and whatever the air and the users do.      *)
EXTENDS NearbyStatsSync, SequenceTheorems, TLAPS

(* The queue operations keep packets packets and the queue within its      *)
(* limit.                                                                  *)
LEMMA EnqueueType ==
  ASSUME NEW q \in Queue, NEW m \in Packet
  PROVE  Enqueue(q, m) \in Queue
<1>1. q \in Seq(Packet) /\ Len(q) \in Nat /\ Len(q) <= QueueCap
  BY DEF Queue
<1>2. QueueCap \in Nat \ {0}
  BY SyncConstants
<1>3. CASE Len(q) < QueueCap
  <2>1. Append(q, m) \in Seq(Packet) /\ Len(Append(q, m)) = Len(q) + 1
    BY <1>1
  <2>. QED  BY <1>1, <1>2, <1>3, <2>1 DEF Enqueue, Queue
<1>4. CASE ~(Len(q) < QueueCap)
  <2>1. q # <<>>
    BY <1>1, <1>2, <1>4
  <2>2. Tail(q) \in Seq(Packet) /\ Len(Tail(q)) = Len(q) - 1
    BY <1>1, <2>1
  <2>3. Append(Tail(q), m) \in Seq(Packet) /\ Len(Append(Tail(q), m)) = Len(q)
    BY <1>1, <2>2
  <2>. QED  BY <1>1, <1>4, <2>3 DEF Enqueue, Queue
<1>. QED  BY <1>3, <1>4

LEMMA ArriveType ==
  ASSUME NEW q \in Queue, NEW pkts \in Seq(Packet),
         NEW got \in SUBSET DOMAIN pkts
  PROVE  Arrive(q, pkts, got) \in Queue
<1>1. 1 \in got => pkts[1] \in Packet
  OBVIOUS
<1>2. 2 \in got => pkts[2] \in Packet
  OBVIOUS
<1>3. ASSUME NEW r \in Queue
      PROVE  (IF 2 \in got THEN Enqueue(r, pkts[2]) ELSE r) \in Queue
  BY <1>2, <1>3, EnqueueType
<1>4. (IF 1 \in got THEN Enqueue(q, pkts[1]) ELSE q) \in Queue
  BY <1>1, EnqueueType
<1>. QED  BY <1>3, <1>4 DEF Arrive

LEMMA EmptyQueueType == <<>> \in Queue
BY SyncConstants DEF Queue

LEMMA TailType ==
  ASSUME NEW q \in Queue, q # <<>>
  PROVE  Tail(q) \in Queue
BY SyncConstants DEF Queue

LEMMA BroadcastType ==
  ASSUME NEW d \in Device, NEW pkts \in Seq(Packet), NEW rest \in Queue,
         events \in [Device -> Queue], Broadcast(d, pkts, rest)
  PROVE  events' \in [Device -> Queue]
<1>1. PICK got \in [Device \ {d} -> SUBSET DOMAIN pkts] :
        events' = [e \in Device |->
                    IF e = d THEN rest ELSE Arrive(events[e], pkts, got[e])]
  BY DEF Broadcast
<1>2. ASSUME NEW e \in Device
      PROVE  (IF e = d THEN rest ELSE Arrive(events[e], pkts, got[e])) \in Queue
  <2>1. CASE e = d
    BY <2>1
  <2>2. CASE e # d
    <3>1. got[e] \in SUBSET DOMAIN pkts
      BY <2>2
    <3>. QED  BY <2>2, <3>1, ArriveType
  <2>. QED  BY <2>1, <2>2
<1>. QED  BY <1>1, <1>2

(* A handled packet and a poll keep the types when the new memory and the  *)
(* packets sent have theirs.                                               *)
LEMMA HandledType ==
  ASSUME TypeOK, NEW d \in Device, NEW s \in DeviceState,
         NEW pkts \in Seq(Packet), events[d] # <<>>, Handled(d, s, pkts)
  PROVE  /\ dev' \in [Device -> DeviceState]
         /\ events' \in [Device -> Queue]
         /\ air' \in {"lossy", "clear"} /\ foreign' \subseteq Foreign
<1>1. Tail(events[d]) \in Queue
  BY TailType DEF TypeOK
<1>. QED  BY <1>1, BroadcastType DEF TypeOK, Handled

LEMMA PolledType ==
  ASSUME TypeOK, NEW d \in Device, NEW s \in DeviceState,
         NEW pkts \in Seq(Packet), Polled(d, s, pkts)
  PROVE  TypeOK'
BY EmptyQueueType, BroadcastType DEF TypeOK, Polled

-----------------------------------------------------------------------------
(* What a reader builds while it handles a packet.                         *)

LEMMA PlainType ==
  ASSUME NEW t \in PlainTypes, NEW d \in Device
  PROVE  Plain(t, d) \in Packet
BY SyncConstants DEF Plain, Packet, Versions

LEMMA StatsType ==
  ASSUME TypeOK, NEW d \in Device
  PROVE  Stats(d) \in Packet
<1>1. local[d][Totals] \in Versions
  BY DEF TypeOK, Items
<1>. QED  BY <1>1 DEF Stats, Plain, Packet, PlainTypes

LEMMA FilePacketType ==
  ASSUME NEW t \in FileTypes, NEW d \in Device, NEW k \in Kinds, NEW i \in Nat,
         NEW v \in Versions
  PROVE  FilePacket(t, d, k, i, v) \in Packet
BY DEF FilePacket, Packet

LEMMA ZeroIsAVersion == 0 \in Versions
BY SyncConstants DEF Versions

LEMMA FreshType ==
  ASSUME NEW st \in States, NEW radio \in BOOLEAN
  PROVE  Fresh(st, radio) \in DeviceState
<1>1. NoOut \in OutTransfer
  BY ZeroIsAVersion DEF NoOut, OutTransfer
<1>2. NoIn \in InTransfer
  BY ZeroIsAVersion DEF NoIn, InTransfer
<1>. QED  BY <1>1, <1>2 DEF Fresh, DeviceState

LEMMA MsgType ==
  ASSUME TypeOK, NEW d \in Device, events[d] # <<>>
  PROVE  Msg(d) \in Packet
BY DEF TypeOK, Msg, Queue

LEMMA FileMsgType ==
  ASSUME NEW m \in Packet, m.type \in FileTypes
  PROVE  /\ m.from \in Device /\ m.kind \in Kinds
         /\ m.idx \in Nat /\ m.ver \in Versions
BY DEF Packet, PlainTypes, FileTypes, FileAcks

LEMMA AnyMsgType ==
  ASSUME NEW m \in Packet
  PROVE  m.from \in Device /\ m.ver \in Versions
BY DEF Packet

LEMMA JoinedType ==
  ASSUME TypeOK, NEW d \in Device, events[d] # <<>>
  PROVE  Joined(d) \in DeviceState
<1>1. Msg(d).from \in Device
  BY MsgType, AnyMsgType
<1>2. ASSUME NEW base \in DeviceState
      PROVE  [base EXCEPT !.state = "SYNCING", !.peer = Msg(d).from] \in DeviceState
  BY <1>1 DEF DeviceState, States
<1>3. Fresh("READY", TRUE) \in DeviceState
  BY FreshType DEF States
<1>4. dev[d] \in DeviceState
  BY DEF TypeOK
<1>. QED  BY <1>2, <1>3, <1>4 DEF Joined

LEMMA FailedType ==
  ASSUME NEW s \in DeviceState
  PROVE  Failed(s) \in DeviceState
BY DEF Failed, DeviceState, OutTransfer, States

LEMMA KindAfterType ==
  ASSUME NEW k \in Kinds \cup {None}
  PROVE  KindAfter(k) \in Kinds \cup {None}
<1>1. KindOrder \in Seq(Kinds) /\ KindOrder # <<>>
  BY SyncConstants
<1>2. CASE k = None
  BY <1>1, <1>2 DEF KindAfter
<1>3. CASE k # None
  <2>1. \E j \in DOMAIN KindOrder : KindOrder[j] = k
    BY <1>3 DEF Kinds
  <2>2. PICK i \in DOMAIN KindOrder :
          i = CHOOSE j \in DOMAIN KindOrder : KindOrder[j] = k
    BY <2>1
  <2>3. KindAfter(k) = IF i = Len(KindOrder) THEN None ELSE KindOrder[i + 1]
    BY <1>3, <2>2 DEF KindAfter
  <2>4. i # Len(KindOrder) => KindOrder[i + 1] \in Kinds
    BY <1>1
  <2>. QED  BY <2>3, <2>4
<1>. QED  BY <1>2, <1>3

LEMMA BeginNextFileType ==
  ASSUME TypeOK, NEW d \in Device, NEW s \in DeviceState
  PROVE  \A t \in BeginNextFile(d, s) : t \in DeviceState
<1>. DEFINE k == KindAfter(s.out.kind)
<1>1. NoOut \in OutTransfer
  BY ZeroIsAVersion DEF NoOut, OutTransfer
<1>2. k \in Kinds \cup {None}
  BY KindAfterType DEF DeviceState, OutTransfer
<1>3. CASE k = None
  BY <1>1, <1>3 DEF BeginNextFile, DeviceState
<1>4. CASE k # None
  <2>1. k \in Kinds /\ local[d][k] \in Versions
    BY <1>2, <1>4 DEF TypeOK, Items
  <2>2. ASSUME NEW n \in AnnouncedSizes(k)
        PROVE  [NoOut EXCEPT !.kind = k, !.ver = local[d][k], !.size = n] \in OutTransfer
    <3>1. n \in Nat
      BY <2>1, SyncConstants DEF AnnouncedSizes
    <3>. QED  BY <1>1, <2>1, <3>1 DEF OutTransfer
  <2>3. BeginNextFile(d, s) =
          {[s EXCEPT !.out = [NoOut EXCEPT !.kind = k, !.ver = local[d][k], !.size = n]]
             : n \in AnnouncedSizes(k)}
    BY <1>4 DEF BeginNextFile
  <2>. HIDE DEF k
  <2>4. ASSUME NEW o \in OutTransfer PROVE [s EXCEPT !.out = o] \in DeviceState
    BY DEF DeviceState
  <2>. QED  BY <2>2, <2>3, <2>4
<1>. QED  BY <1>3, <1>4

LEMMA AnnounceType ==
  ASSUME NEW d \in Device, NEW s \in DeviceState
  PROVE  Announce(d, s) \in Seq(Packet)
<1>1. s.out \in OutTransfer
  BY DEF DeviceState
<1>2. s.out.kind # None =>
        FilePacket("FILE_META", d, s.out.kind, s.out.size, s.out.ver) \in Packet
  BY <1>1 DEF FilePacket, Packet, OutTransfer, FileTypes
<1>. QED  BY <1>2 DEF Announce

LEMMA PieceSentType ==
  ASSUME TypeOK, NEW d \in Device, NEW s \in DeviceState, s.out.kind \in Kinds
  PROVE  PieceSent(d, s) \in DeviceState /\ PieceSent(d, s).out.kind \in Kinds
<1>1. local[d][s.out.kind] \in Versions
  BY DEF TypeOK, Items
<1>2. s.out \in OutTransfer
  BY DEF DeviceState
<1>3. [s EXCEPT !.out.doneSent = TRUE] \in DeviceState
  BY <1>2 DEF DeviceState, OutTransfer
<1>4. [s EXCEPT !.out.open = TRUE, !.out.handle = local[d][s.out.kind]] \in DeviceState
  BY <1>1, <1>2 DEF DeviceState, OutTransfer
<1>. QED  BY <1>2, <1>3, <1>4 DEF PieceSent, DeviceState, OutTransfer

LEMMA PiecePacketType ==
  ASSUME TypeOK, NEW d \in Device, NEW s \in DeviceState, s.out.kind \in Kinds
  PROVE  PiecePacket(d, s) \in Seq(Packet)
<1>. DEFINE o == PieceSent(d, s).out
<1>1. o \in OutTransfer /\ o.kind \in Kinds
  BY PieceSentType DEF DeviceState
<1>2. FilePacket("FILE_DONE", d, o.kind, 0, 0) \in Packet
  BY <1>1, FilePacketType, ZeroIsAVersion DEF FileTypes
<1>3. FilePacket("FILE_CHUNK", d, o.kind, o.chunk, o.handle) \in Packet
  BY <1>1, FilePacketType DEF FileTypes, OutTransfer
<1>. HIDE DEF o
<1>. QED  BY <1>2, <1>3 DEF PiecePacket, o

LEMMA FileAckType ==
  ASSUME NEW d \in Device, NEW m \in Packet,
         m.type \in {"FILE_META", "FILE_CHUNK", "FILE_DONE"}
  PROVE  FileAck(d, m) \in Seq(Packet)
<1>1. AckOf(m.type) \in FileTypes
  BY DEF AckOf, FileTypes, FileAcks
<1>2. m.kind \in Kinds /\ m.idx \in Nat
  BY FileMsgType DEF FileTypes
<1>. QED  BY <1>1, <1>2, FilePacketType, ZeroIsAVersion DEF FileAck, AckIdx

LEMMA SnapshotType ==
  ASSUME NEW p \in Device, NEW i \in Items, NEW v \in Versions
  PROVE  Snapshot(p, i, v) \in Seq(Piece)
<1>1. SizeOf(i) \in Nat
  BY SyncConstants DEF SizeOf, Items
<1>2. \A n \in 1..SizeOf(i) : PieceOf(p, v, n - 1) \in Piece
  BY <1>1 DEF PieceOf, Piece
<1>. QED  BY <1>1, <1>2 DEF Snapshot

LEMMA StoreType ==
  ASSUME NEW S, NEW f \in [Device -> [Device -> [Items -> S]]],
         NEW d \in Device, NEW p \in Device, NEW i \in Items, NEW x \in S
  PROVE  [f EXCEPT ![d][p][i] = x] \in [Device -> [Device -> [Items -> S]]]
<1>1. f[d] \in [Device -> [Items -> S]] /\ f[d][p] \in [Items -> S]
  OBVIOUS
<1>2. [f[d][p] EXCEPT ![i] = x] \in [Items -> S]
  BY <1>1
<1>3. [f[d] EXCEPT ![p] = [f[d][p] EXCEPT ![i] = x]] \in [Device -> [Items -> S]]
  BY <1>1, <1>2
<1>. QED  BY <1>3

-----------------------------------------------------------------------------
(* One lemma per action whose new state is not obviously typed.            *)

LEMMA HandledStep ==
  ASSUME TypeOK, NEW d \in Device, NEW s \in DeviceState,
         NEW pkts \in Seq(Packet), events[d] # <<>>, Handled(d, s, pkts),
         UNCHANGED <<local, synced>>
  PROVE  TypeOK'
BY HandledType DEF TypeOK

LEMMA ReplyType ==
  ASSUME NEW m \in Packet, NEW n \in Packet
  PROVE  /\ <<>> \in Seq(Packet) /\ <<m>> \in Seq(Packet)
         /\ <<m, n>> \in Seq(Packet)
OBVIOUS

LEMMA LateType ==
  ASSUME TypeOK, NEW d \in Device,
         Ignore(d) \/ LateHello(d) \/ LateStats(d) \/ LateFile(d)
  PROVE  TypeOK'
<1>1. dev[d] \in DeviceState
  BY DEF TypeOK
<1>2. CASE Ignore(d)
  <2>1. <<>> \in Seq(Packet) /\ events[d] # <<>>
    BY <1>2, ReplyType DEF Ignore
  <2>2. Handled(d, dev[d], <<>>) /\ UNCHANGED <<local, synced>>
    BY <1>2 DEF Ignore
  <2>. QED  BY <1>1, <2>1, <2>2, HandledStep
<1>3. CASE LateHello(d)
  <2>1. [dev[d] EXCEPT !.statsSent = TRUE] \in DeviceState
    BY <1>1 DEF DeviceState
  <2>2. <<Plain("NAME", d), Stats(d)>> \in Seq(Packet)
    BY PlainType, StatsType, ReplyType DEF PlainTypes
  <2>. QED  BY <1>3, <2>1, <2>2, HandledStep DEF LateHello, Late, Receives
<1>4. CASE LateStats(d)
  <2>1. <<Plain("ACK", d)>> \in Seq(Packet)
    BY PlainType, ReplyType DEF PlainTypes
  <2>. QED  BY <1>1, <1>4, <2>1, HandledStep DEF LateStats, Late, Receives
<1>5. CASE LateFile(d)
  <2>1. FileAck(d, Msg(d)) \in Seq(Packet)
    BY <1>5, MsgType, FileAckType DEF LateFile, Late, Receives
  <2>. QED  BY <1>1, <1>5, <2>1, HandledStep DEF LateFile, Late, Receives
<1>. QED  BY <1>2, <1>3, <1>4, <1>5

LEMMA NameType ==
  ASSUME TypeOK, NEW d \in Device, RecvName(d)
  PROVE  TypeOK'
<1>. DEFINE s == [dev[d] EXCEPT !.peer = Msg(d).from]
<1>1. dev[d] \in DeviceState /\ events[d] # <<>>
  BY DEF TypeOK, RecvName, Receives
<1>2. s \in DeviceState
  BY <1>1, MsgType, AnyMsgType DEF DeviceState
<1>3. [s EXCEPT !.state = "SYNCING", !.statsSent = TRUE] \in DeviceState
  BY <1>2 DEF DeviceState, States
<1>4. <<Stats(d)>> \in Seq(Packet) /\ <<>> \in Seq(Packet)
  BY StatsType, ReplyType
<1>. QED  BY <1>1, <1>2, <1>3, <1>4, HandledStep DEF RecvName

LEMMA JoinFailsType ==
  ASSUME TypeOK, NEW d \in Device, JoinFails(d)
  PROVE  TypeOK'
<1>1. PICK st \in {"READY", "ERROR"} :
        Handled(d, [Fresh(st, TRUE) EXCEPT !.peer = Msg(d).from], <<>>)
  BY DEF JoinFails
<1>2. events[d] # <<>>
  BY DEF JoinFails, Receives
<1>3. [Fresh(st, TRUE) EXCEPT !.peer = Msg(d).from] \in DeviceState
  <2>1. Fresh(st, TRUE) \in DeviceState
    BY FreshType DEF States
  <2>. QED  BY <1>2, <2>1, MsgType, AnyMsgType DEF DeviceState
<1>4. <<>> \in Seq(Packet) /\ UNCHANGED <<local, synced>>
  BY ReplyType DEF JoinFails
<1>. QED  BY <1>1, <1>2, <1>3, <1>4, HandledStep

LEMMA HelloType ==
  ASSUME TypeOK, NEW d \in Device, RecvHello(d) \/ RecvInvalidStats(d)
  PROVE  TypeOK'
<1>1. events[d] # <<>>
  BY DEF RecvHello, RecvInvalidStats, Joins, Receives
<1>2. Joined(d) \in DeviceState
  BY <1>1, JoinedType
<1>3. [Joined(d) EXCEPT !.statsSent = TRUE] \in DeviceState
  BY <1>2 DEF DeviceState
<1>4. Failed(Joined(d)) \in DeviceState
  BY <1>2, FailedType
<1>5. <<Plain("NAME", d), Stats(d)>> \in Seq(Packet) /\ <<>> \in Seq(Packet)
  BY PlainType, StatsType, ReplyType DEF PlainTypes
<1>. QED  BY <1>1, <1>3, <1>4, <1>5, HandledStep DEF RecvHello, RecvInvalidStats

LEMMA StatsStepType ==
  ASSUME TypeOK, NEW d \in Device, RecvStats(d)
  PROVE  TypeOK'
<1>. DEFINE s == Joined(d)
            reply == ~s.statsSent \/ ~s.statsAcked
            t == [s EXCEPT !.totalsSaved = TRUE, !.statsSent = @ \/ reply]
            pkts == IF reply THEN <<Plain("ACK", d), Stats(d)>>
                    ELSE <<Plain("ACK", d)>>
<1>1. events[d] # <<>>
  BY DEF RecvStats, Joins, Receives
<1>2. s \in DeviceState
  BY <1>1, JoinedType
<1>3. t \in DeviceState
  <2>1. (s.statsSent \/ reply) \in BOOLEAN
    BY Zenon
  <2>. HIDE DEF reply, s
  <2>. QED  BY <1>2, <2>1 DEF DeviceState
<1>4. pkts \in Seq(Packet)
  BY PlainType, StatsType, ReplyType DEF PlainTypes
<1>5. Handled(d, t, pkts) /\ local' = local
  BY DEF RecvStats
<1>6. s.peer \in Device /\ s.peer = Msg(d).from /\ Msg(d).ver \in Versions
  <2>1. Msg(d).from \in Device /\ Msg(d).ver \in Versions
    BY <1>1, MsgType, AnyMsgType
  <2>2. s.peer = Msg(d).from
    <3>1. Fresh("READY", TRUE) \in DeviceState /\ dev[d] \in DeviceState
      BY FreshType DEF TypeOK, States
    <3>. QED  BY <3>1 DEF Joined, DeviceState
  <2>. QED  BY <2>1, <2>2
<1>7. Snapshot(s.peer, Totals, Msg(d).ver) \in Seq(Piece)
  BY <1>6, SnapshotType DEF Items
<1>8. synced' \in [Device -> [Device -> [Items -> Seq(Piece)]]]
  <2>1. synced' \in {synced, [synced EXCEPT ![d][s.peer][Totals] =
                               Snapshot(s.peer, Totals, Msg(d).ver)]}
    BY DEF RecvStats, SavedTotals
  <2>2. Totals \in Items
    BY DEF Items
  <2>3. synced \in [Device -> [Device -> [Items -> Seq(Piece)]]]
    BY DEF TypeOK
  <2>4. [synced EXCEPT ![d][s.peer][Totals] = Snapshot(s.peer, Totals, Msg(d).ver)]
          \in [Device -> [Device -> [Items -> Seq(Piece)]]]
    <3>. HIDE DEF s
    <3>. QED  BY <1>6, <1>7, <2>2, <2>3, StoreType
  <2>. QED  BY <2>1, <2>3, <2>4, Zenon
<1>. HIDE DEF t, pkts
<1>. QED  BY <1>1, <1>3, <1>4, <1>5, <1>8, HandledType DEF TypeOK

LEMMA AckType ==
  ASSUME TypeOK, NEW d \in Device, RecvAck(d)
  PROVE  TypeOK'
<1>. DEFINE s == [Joined(d) EXCEPT !.statsAcked = TRUE]
<1>1. events[d] # <<>> /\ <<>> \in Seq(Packet)
  BY DEF RecvAck, Joins, Receives
<1>2. s \in DeviceState
  BY <1>1, JoinedType DEF DeviceState
<1>3. \A t \in BeginNextFile(d, s) : t \in DeviceState /\ Announce(d, t) \in Seq(Packet)
  BY <1>2, BeginNextFileType, AnnounceType
<1>4. /\ \/ \E t \in BeginNextFile(d, s) : Handled(d, t, Announce(d, t))
         \/ Handled(d, s, <<>>)
      /\ UNCHANGED <<local, synced>>
  BY DEF RecvAck
<1>. HIDE DEF s
<1>. QED  BY <1>1, <1>2, <1>3, <1>4, HandledStep

LEMMA MetaType ==
  ASSUME TypeOK, NEW d \in Device, RecvMeta(d)
  PROVE  TypeOK'
<1>. DEFINE s == Joined(d)
            m == Msg(d)
            begun == [s EXCEPT !.in = Incoming(m)]
            t == IF SameTransfer(s.in, m) THEN s ELSE begun
<1>1. events[d] # <<>> /\ m.type = "FILE_META"
  BY DEF RecvMeta, Joins, Receives
<1>2. /\ m \in Packet /\ m.kind \in Kinds /\ m.from \in Device /\ m.ver \in Versions
      /\ m.idx \in Nat
  BY <1>1, MsgType, FileMsgType DEF FileTypes
<1>3. s \in DeviceState
  BY <1>1, JoinedType
<1>4. begun \in DeviceState
  <2>1. Incoming(m) \in InTransfer
    BY <1>2 DEF InTransfer, Incoming
  <2>. HIDE DEF s
  <2>. QED  BY <1>3, <2>1 DEF DeviceState
<1>5. FileAck(d, m) \in Seq(Packet)
  BY <1>1, <1>2, FileAckType
<1>6. Handled(d, t, FileAck(d, m)) /\ UNCHANGED <<local, synced>>
  BY DEF RecvMeta
<1>. QED  BY <1>1, <1>3, <1>4, <1>5, <1>6, HandledStep

LEMMA ChunkType ==
  ASSUME TypeOK, NEW d \in Device, RecvChunk(d)
  PROVE  TypeOK'
<1>. DEFINE s == Joined(d)
            m == Msg(d)
            with(i) == [s EXCEPT !.in.data = Append(@, PieceOf(m.from, m.ver, i))]
<1>1. events[d] # <<>> /\ m.type = "FILE_CHUNK"
  BY DEF RecvChunk, Joins, Receives
<1>2. m \in Packet /\ m.idx \in Nat /\ m.from \in Device /\ m.ver \in Versions
  BY <1>1, MsgType, FileMsgType DEF FileTypes
<1>3. s \in DeviceState
  BY <1>1, JoinedType
<1>4. \A i \in {m.idx, m.idx + 1} : with(i) \in DeviceState
  <2>. SUFFICES ASSUME NEW i \in {m.idx, m.idx + 1}
                PROVE  with(i) \in DeviceState
    OBVIOUS
  <2>1. PieceOf(m.from, m.ver, i) \in Piece
    BY <1>2 DEF PieceOf, Piece
  <2>2. s.in \in InTransfer /\ s.in.data \in Seq(Piece)
    BY <1>3 DEF DeviceState, InTransfer
  <2>3. Append(s.in.data, PieceOf(m.from, m.ver, i)) \in Seq(Piece)
    BY <2>1, <2>2
  <2>4. [s.in EXCEPT !.data = Append(@, PieceOf(m.from, m.ver, i))] \in InTransfer
    BY <2>2, <2>3 DEF InTransfer
  <2>. HIDE DEF s
  <2>. QED  BY <1>3, <2>4 DEF DeviceState
<1>5. FileAck(d, m) \in Seq(Packet) /\ <<>> \in Seq(Packet)
  BY <1>1, <1>2, FileAckType
<1>6. UNCHANGED <<local, synced>>
  BY DEF RecvChunk
<1>7. \/ \E i \in {m.idx, m.idx + 1} : Handled(d, with(i), FileAck(d, m))
      \/ Handled(d, s, FileAck(d, m))
      \/ Handled(d, s, <<>>)
  BY DEF RecvChunk
<1>. HIDE DEF with, s, m
<1>. QED  BY <1>1, <1>3, <1>4, <1>5, <1>6, <1>7, HandledStep

(* What a verified file leaves on the card.                                *)
LEMMA PromotedType ==
  ASSUME TypeOK, NEW d \in Device, Finishing(d)
  PROVE  /\ Promoted(d) \in [Device -> [Device -> [Items -> Seq(Piece)]]]
         /\ Merged(d) \in [Device -> [Items -> Versions]]
<1>. DEFINE in == Joined(d).in
<1>1. events[d] # <<>> /\ Msg(d).type = "FILE_DONE" /\ in.kind = Msg(d).kind
  BY DEF Finishing, Joins, Receives
<1>2. Msg(d).kind \in Kinds /\ Msg(d).from \in Device
  BY <1>1, MsgType, FileMsgType DEF FileTypes
<1>3. in \in InTransfer
  BY <1>1, JoinedType DEF DeviceState
<1>4. in.data \in Seq(Piece) /\ in.ver \in Versions /\ in.kind \in Items
  BY <1>1, <1>2, <1>3 DEF InTransfer, Items
<1>. HIDE DEF in
<1>5. [synced EXCEPT ![d][Msg(d).from][in.kind] = in.data]
        \in [Device -> [Device -> [Items -> Seq(Piece)]]]
  BY <1>2, <1>4, StoreType DEF TypeOK
<1>6. [local EXCEPT ![d][in.kind] = in.ver] \in [Device -> [Items -> Versions]]
  BY <1>4 DEF TypeOK
<1>. QED  BY <1>5, <1>6 DEF Promoted, Merged, TypeOK, in

LEMMA DoneType ==
  ASSUME TypeOK, NEW d \in Device, RecvDone(d)
  PROVE  TypeOK'
<1>. DEFINE s == [Joined(d) EXCEPT !.saved = @ \cup {Msg(d).kind}, !.in = NoIn]
<1>1. events[d] # <<>> /\ Msg(d).type = "FILE_DONE" /\ Finishing(d)
  BY DEF RecvDone, Finishing, Joins, Receives
<1>2. Msg(d) \in Packet /\ Msg(d).kind \in Kinds
  BY <1>1, MsgType, FileMsgType DEF FileTypes
<1>3. s \in DeviceState
  <2>1. NoIn \in InTransfer
    BY ZeroIsAVersion DEF NoIn, InTransfer
  <2>. QED  BY <1>1, <1>2, <2>1, JoinedType DEF DeviceState
<1>4. FileAck(d, Msg(d)) \in Seq(Packet)
  BY <1>1, <1>2, FileAckType
<1>5. /\ Handled(d, s, FileAck(d, Msg(d)))
      /\ synced' = Promoted(d) /\ local' = Merged(d)
  BY DEF RecvDone
<1>. QED  BY <1>1, <1>3, <1>4, <1>5, PromotedType, HandledType DEF TypeOK

LEMMA BadDoneType ==
  ASSUME TypeOK, NEW d \in Device, RecvBadDone(d) \/ RecvStrayDone(d)
  PROVE  TypeOK'
<1>1. events[d] # <<>> /\ Msg(d).type = "FILE_DONE"
  BY DEF RecvBadDone, RecvStrayDone, Finishing, Joins, Receives
<1>2. Joined(d) \in DeviceState /\ Failed(Joined(d)) \in DeviceState
  BY <1>1, JoinedType, FailedType
<1>3. FileAck(d, Msg(d)) \in Seq(Packet) /\ <<>> \in Seq(Packet)
  BY <1>1, MsgType, FileAckType, ReplyType
<1>. QED  BY <1>1, <1>2, <1>3, HandledStep DEF RecvBadDone, RecvStrayDone

LEMMA FileAckStepType ==
  ASSUME TypeOK, NEW d \in Device, RecvFileAck(d)
  PROVE  TypeOK'
<1>. DEFINE s == Joined(d)
            m == Msg(d)
            acked == [s EXCEPT !.out.metaAcked = TRUE]
            moved == [s EXCEPT !.out.chunk = @ + 1]
<1>1. events[d] # <<>> /\ m.type \in FileAcks
  BY DEF RecvFileAck, Joins, Receives
<1>2. m.kind \in Kinds
  BY <1>1, MsgType, FileMsgType DEF FileTypes
<1>3. /\ s \in DeviceState
      /\ \A t \in BeginNextFile(d, s) : t \in DeviceState /\ Announce(d, t) \in Seq(Packet)
  BY <1>1, JoinedType, BeginNextFileType, AnnounceType
<1>4. acked \in DeviceState /\ acked.out.kind = s.out.kind
  <2>. HIDE DEF s
  <2>. QED  BY <1>3 DEF DeviceState, OutTransfer
<1>5. moved \in DeviceState /\ moved.out.kind = s.out.kind
  <2>1. s.out \in OutTransfer /\ s.out.chunk + 1 \in Nat
    BY <1>3 DEF DeviceState, OutTransfer
  <2>2. /\ [s.out EXCEPT !.chunk = @ + 1] \in OutTransfer
        /\ [s.out EXCEPT !.chunk = @ + 1].kind = s.out.kind
    <3>. HIDE DEF s
    <3>. QED  BY <2>1 DEF OutTransfer
  <2>. HIDE DEF s
  <2>. QED  BY <1>3, <2>1, <2>2 DEF DeviceState
<1>6. ASSUME m.kind = s.out.kind
      PROVE  /\ PieceSent(d, acked) \in DeviceState
             /\ PiecePacket(d, acked) \in Seq(Packet)
             /\ PieceSent(d, moved) \in DeviceState
             /\ PiecePacket(d, moved) \in Seq(Packet)
  <2>. HIDE DEF acked, moved
  <2>. QED  BY <1>2, <1>4, <1>5, <1>6, PieceSentType, PiecePacketType
<1>7. UNCHANGED <<local, synced>>
  BY DEF RecvFileAck
<1>8. \/ m.kind = s.out.kind /\ Handled(d, PieceSent(d, acked), PiecePacket(d, acked))
      \/ m.kind = s.out.kind /\ Handled(d, PieceSent(d, moved), PiecePacket(d, moved))
      \/ \E t \in BeginNextFile(d, s) : Handled(d, t, Announce(d, t))
      \/ Handled(d, s, <<>>)
  BY DEF RecvFileAck
<1>9. <<>> \in Seq(Packet)
  OBVIOUS
<1>. HIDE DEF s, m, acked, moved
<1>. QED  BY <1>1, <1>3, <1>6, <1>7, <1>8, <1>9, HandledStep

LEMMA CardType ==
  ASSUME TypeOK, NEW d \in Device, CardFails(d) \/ PowerLossInPromotion(d)
  PROVE  TypeOK'
<1>1. events[d] # <<>>
  BY DEF CardFails, PowerLossInPromotion, Replacing, Finishing, Joins, Receives
<1>2. ASSUME NEW i \in Items
      PROVE  Removed(d, i) \in [Device -> [Device -> [Items -> Seq(Piece)]]]
  <2>1. Msg(d).from \in Device /\ NoFile \in Seq(Piece)
    BY <1>1, MsgType, AnyMsgType DEF NoFile
  <2>2. synced \in [Device -> [Device -> [Items -> Seq(Piece)]]]
    BY DEF TypeOK
  <2>. HIDE DEF NoFile
  <2>. QED  BY <2>1, <2>2, StoreType DEF Removed
<1>3. CASE CardFails(d)
  <2>1. Failed(Joined(d)) \in DeviceState /\ <<>> \in Seq(Packet)
    BY <1>1, JoinedType, FailedType
  <2>2. Handled(d, Failed(Joined(d)), <<>>) /\ local' = local
    BY <1>3 DEF CardFails
  <2>3. synced' \in [Device -> [Device -> [Items -> Seq(Piece)]]]
    BY <1>2, <1>3, PromotedType DEF CardFails, TypeOK
  <2>. QED  BY <1>1, <2>1, <2>2, <2>3, HandledType DEF TypeOK
<1>4. CASE PowerLossInPromotion(d)
  <2>1. Fresh("OFF", FALSE) \in DeviceState
    BY FreshType DEF States
  <2>2. synced' \in [Device -> [Device -> [Items -> Seq(Piece)]]]
    BY <1>2, <1>4 DEF PowerLossInPromotion
  <2>3. events' \in [Device -> Queue] /\ dev' \in [Device -> DeviceState]
    BY <1>4, <2>1, EmptyQueueType DEF PowerLossInPromotion, TypeOK
  <2>. QED  BY <1>4, <2>2, <2>3 DEF PowerLossInPromotion, TypeOK
<1>. QED  BY <1>3, <1>4

LEMMA PollType ==
  ASSUME TypeOK, NEW d \in Device, Poll(d) \/ Timeout(d)
  PROVE  TypeOK'
<1>. DEFINE s == dev[d]
<1>1. s \in DeviceState /\ s.out \in OutTransfer /\ <<>> \in Seq(Packet)
  BY DEF TypeOK, DeviceState
<1>2. CASE HelloRetry(d)
  <2>1. <<Plain("HELLO", d)>> \in Seq(Packet)
    BY PlainType, ReplyType DEF PlainTypes
  <2>. QED  BY <1>1, <1>2, <2>1, PolledType DEF HelloRetry
<1>3. CASE StatsRetry(d)
  <2>1. [s EXCEPT !.statsSent = TRUE] \in DeviceState
    BY <1>1 DEF DeviceState
  <2>. QED  BY <1>3, <2>1, StatsType, ReplyType, PolledType DEF StatsRetry
<1>4. CASE FilesBegin(d)
  BY <1>1, <1>4, BeginNextFileType, AnnounceType, PolledType DEF FilesBegin
<1>5. CASE FileRetry(d)
  <2>1. s.out.kind \in Kinds
    BY <1>1, <1>5 DEF FileRetry, OutTransfer
  <2>2. PieceSent(d, s) \in DeviceState /\ PiecePacket(d, s) \in Seq(Packet)
    BY <1>1, <2>1, PieceSentType, PiecePacketType
  <2>3. Announce(d, s) \in Seq(Packet)
    BY <1>1, AnnounceType
  <2>4. Polled(d, s, Announce(d, s)) \/ Polled(d, PieceSent(d, s), PiecePacket(d, s))
    BY <1>5 DEF FileRetry
  <2>. QED  BY <1>1, <2>2, <2>3, <2>4, PolledType
<1>6. CASE Complete(d)
  <2>1. [s EXCEPT !.state = "SYNCED"] \in DeviceState
    BY <1>1 DEF DeviceState, States
  <2>. QED  BY <1>1, <1>6, <2>1, PolledType DEF Complete
<1>7. CASE RefreshAchievements(d)
  <2>1. [s EXCEPT !.refreshed = TRUE] \in DeviceState
    BY <1>1 DEF DeviceState
  <2>2. dev' \in [Device -> DeviceState]
    BY <1>7, <2>1 DEF RefreshAchievements, TypeOK
  <2>3. local' \in [Device -> [Items -> Versions]]
    <3>1. CASE local' = local
      BY <3>1 DEF TypeOK
    <3>2. CASE /\ AwardKind # None /\ local[d][AwardKind] < MaxVersion
               /\ local' = [local EXCEPT ![d][AwardKind] = @ + 1]
      <4>1. AwardKind \in Items
        BY <3>2, SyncConstants DEF Items
      <4>2. local[d] \in [Items -> Versions] /\ local[d][AwardKind] \in Versions
        BY <4>1 DEF TypeOK
      <4>3. local[d][AwardKind] + 1 \in Versions
        BY <3>2, <4>2, SyncConstants DEF Versions
      <4>4. [local[d] EXCEPT ![AwardKind] = @ + 1] \in [Items -> Versions]
        BY <4>1, <4>2, <4>3
      <4>. QED  BY <3>2, <4>4 DEF TypeOK
    <3>. QED  BY <1>7, <3>1, <3>2 DEF RefreshAchievements
  <2>. QED  BY <1>7, <2>2, <2>3 DEF RefreshAchievements, TypeOK
<1>8. CASE Timeout(d)
  BY <1>1, <1>8, FailedType, PolledType DEF Timeout
<1>. QED  BY <1>2, <1>3, <1>4, <1>5, <1>6, <1>7, <1>8 DEF Poll

LEMMA UserType ==
  ASSUME TypeOK, NEW d \in Device, User(d) \/ Prepared(d) \/ PrepareFails(d)
  PROVE  TypeOK'
<1>1. dev[d] \in DeviceState /\ dev[d].radio \in BOOLEAN /\ <<>> \in Seq(Packet)
  BY DEF TypeOK, DeviceState
<1>2. CASE Enter(d)
  <2>1. Fresh("READY", TRUE) \in DeviceState /\ Fresh("ERROR", FALSE) \in DeviceState
    BY FreshType DEF States
  <2>. QED  BY <1>1, <1>2, <2>1, PolledType DEF Enter
<1>3. CASE Leave(d)
  <2>1. Fresh("OFF", FALSE) \in DeviceState
    BY FreshType DEF States
  <2>. QED  BY <1>1, <1>3, <2>1, EmptyQueueType DEF Leave, TypeOK
<1>4. CASE Read(d)
  <2>1. \A i \in Items : local[d][i] \in Versions /\ local[d][i] + 1 \in Versions
    BY <1>4, SyncConstants DEF Read, TypeOK, Versions
  <2>2. PICK S \in SUBSET MergeKinds :
          local' = [local EXCEPT ![d] = [i \in Items |->
                      IF i \in MergeKinds \ S THEN @[i] ELSE @[i] + 1]]
    BY <1>4 DEF Read
  <2>3. [i \in Items |-> IF i \in MergeKinds \ S THEN local[d][i]
                         ELSE local[d][i] + 1] \in [Items -> Versions]
    BY <2>1
  <2>4. local' \in [Device -> [Items -> Versions]]
    BY <2>2, <2>3 DEF TypeOK
  <2>. QED  BY <1>4, <2>4 DEF Read, TypeOK
<1>5. CASE StartSync(d)
  <2>1. Fresh("PREPARING", dev[d].radio) \in DeviceState
    BY <1>1, FreshType DEF States
  <2>. QED  BY <1>1, <1>5, <2>1, PolledType DEF StartSync
<1>6. CASE Prepared(d)
  <2>1. [dev[d] EXCEPT !.state = "DISCOVERING"] \in DeviceState
    BY <1>1 DEF DeviceState, States
  <2>2. <<Plain("HELLO", d)>> \in Seq(Packet) /\ events[d] \in Queue
    BY PlainType, ReplyType DEF PlainTypes, TypeOK
  <2>3. events' \in [Device -> Queue]
    BY <1>6, <2>2, BroadcastType DEF Prepared, TypeOK
  <2>. QED  BY <1>6, <2>1, <2>3 DEF Prepared, TypeOK
<1>7. CASE PrepareFails(d)
  <2>1. \A st \in {"READY", "ERROR"} : [dev[d] EXCEPT !.state = st] \in DeviceState
    BY <1>1 DEF DeviceState, States
  <2>. QED  BY <1>7, <2>1 DEF PrepareFails, TypeOK
<1>. QED  BY <1>2, <1>3, <1>4, <1>5, <1>6, <1>7 DEF User

-----------------------------------------------------------------------------
(* Types.                                                                  *)

LEMMA InitType == Init => TypeOK
<1>. SUFFICES ASSUME Init PROVE TypeOK
  OBVIOUS
<1>1. Fresh("OFF", FALSE) \in DeviceState
  BY FreshType DEF States
<1>2. dev \in [Device -> DeviceState]
  BY <1>1 DEF Init
<1>3. events \in [Device -> Queue]
  BY EmptyQueueType DEF Init
<1>4. synced \in [Device -> [Device -> [Items -> Seq(Piece)]]]
  BY DEF Init, NoFile
<1>. QED  BY <1>2, <1>3, <1>4 DEF Init, TypeOK

LEMMA NextType == TypeOK /\ [Next]_vars => TypeOK'
<1>. SUFFICES ASSUME TypeOK, [Next]_vars PROVE TypeOK'
  OBVIOUS
<1>1. CASE UNCHANGED vars
  BY <1>1 DEF vars, TypeOK
<1>2. ASSUME NEW d \in Device, Receive(d) PROVE TypeOK'
  BY <1>2, LateType, NameType, HelloType, StatsStepType, AckType, MetaType,
     ChunkType, DoneType, BadDoneType, FileAckStepType DEF Receive
<1>3. ASSUME NEW d \in Device, JoinFails(d) \/ CardFails(d) \/ PowerLossInPromotion(d)
      PROVE  TypeOK'
  BY <1>3, JoinFailsType, CardType
<1>4. ASSUME NEW d \in Device, Poll(d) \/ Timeout(d) PROVE TypeOK'
  BY <1>4, PollType
<1>5. ASSUME NEW d \in Device, User(d) \/ Prepared(d) \/ PrepareFails(d)
      PROVE  TypeOK'
  BY <1>5, UserType
<1>6. CASE AirClears
  BY <1>6 DEF AirClears, TypeOK
<1>. QED  BY <1>1, <1>2, <1>3, <1>4, <1>5, <1>6 DEF Next

(* Every reachable state has the declared types.                           *)
THEOREM TypeCorrect == Spec => []TypeOK
BY InitType, NextType, PTL DEF Spec

-----------------------------------------------------------------------------
(* Stored files are whole.  SavedWhole alone is not inductive: the verified *)
(* temporary file is a snapshot of the reader that announced it, so every  *)
(* transfer under way has to have been announced by a reader.              *)

Known(in) == in.kind # None => in.src \in Device
SourceKnown == \A d \in Device : Known(dev[d].in)
WholeInv == TypeOK /\ SourceKnown /\ SavedWhole

LEMMA FreshKnown ==
  ASSUME NEW st \in States, NEW radio \in BOOLEAN
  PROVE  Known(Fresh(st, radio).in)
BY DEF Known, Fresh, NoIn

LEMMA JoinedKnown ==
  ASSUME TypeOK, SourceKnown, NEW d \in Device, events[d] # <<>>
  PROVE  Known(Joined(d).in)
<1>1. dev[d] \in DeviceState /\ Known(dev[d].in)
  BY DEF TypeOK, SourceKnown
<1>2. Fresh("READY", TRUE) \in DeviceState /\ Known(Fresh("READY", TRUE).in)
  BY FreshType, FreshKnown DEF States
<1>3. ASSUME NEW base \in DeviceState
      PROVE  [base EXCEPT !.state = "SYNCING", !.peer = Msg(d).from].in = base.in
  BY DEF DeviceState
<1>. QED  BY <1>1, <1>2, <1>3 DEF Joined

(* One reader's memory changes and its transfer stays a known one.         *)
LEMMA KnownStep ==
  ASSUME TypeOK, SourceKnown, NEW d \in Device, NEW s, Known(s.in),
         dev' = [dev EXCEPT ![d] = s]
  PROVE  SourceKnown'
BY DEF TypeOK, SourceKnown, Known

(* The sender's bookkeeping leaves what is being received alone.           *)
LEMMA SendingKeepsIn ==
  ASSUME NEW d \in Device, NEW s \in DeviceState
  PROVE  /\ \A t \in BeginNextFile(d, s) : t.in = s.in
         /\ PieceSent(d, s).in = s.in
         /\ Failed(s).in = s.in
<1>1. \A t \in BeginNextFile(d, s) : t.in = s.in
  BY DEF BeginNextFile, DeviceState
<1>2. PieceSent(d, s).in = s.in
  BY DEF PieceSent, DeviceState
<1>3. Failed(s).in = s.in
  BY DEF Failed, DeviceState
<1>. QED  BY <1>1, <1>2, <1>3

WholeFile(x, i) ==
  x = NoFile \/ \E q \in Device, v \in Versions : x = Snapshot(q, i, v)

(* One stored file changes and is a snapshot, or is gone.                  *)
LEMMA WholeStep ==
  ASSUME TypeOK, SavedWhole, NEW d \in Device, NEW p \in Device, NEW i \in Items,
         NEW x, WholeFile(x, i),
         synced' = [synced EXCEPT ![d][p][i] = x]
  PROVE  SavedWhole'
<1>. SUFFICES ASSUME NEW e \in Device, NEW r \in Device, NEW j \in Items,
                     synced'[e][r][j] # NoFile
              PROVE  \E q \in Device, v \in Versions :
                       synced'[e][r][j] = Snapshot(q, j, v)
  BY DEF SavedWhole, Stored
<1>1. synced'[e][r][j] = IF e = d /\ r = p /\ j = i THEN x ELSE synced[e][r][j]
  <2>. DEFINE row == [synced[d][p] EXCEPT ![i] = x]
              rows == [synced[d] EXCEPT ![p] = row]
  <2>1. synced' = [synced EXCEPT ![d] = rows]
    OBVIOUS
  <2>2. /\ synced \in [Device -> [Device -> [Items -> Seq(Piece)]]]
        /\ synced[d] \in [Device -> [Items -> Seq(Piece)]]
        /\ synced[d][p] \in [Items -> Seq(Piece)]
    BY DEF TypeOK
  <2>3. row[j] = IF j = i THEN x ELSE synced[d][p][j]
    BY <2>2
  <2>. HIDE DEF row
  <2>4. rows[r] = IF r = p THEN row ELSE synced[d][r]
    BY <2>2
  <2>. HIDE DEF rows
  <2>5. synced'[e] = IF e = d THEN rows ELSE synced[e]
    BY <2>1, <2>2
  <2>6. CASE e = d /\ r = p
    BY <2>3, <2>4, <2>5, <2>6
  <2>7. CASE ~(e = d /\ r = p)
    <3>1. synced'[e][r] = synced[e][r]
      BY <2>4, <2>5, <2>7
    <3>. QED  BY <2>7, <3>1
  <2>. QED  BY <2>6, <2>7
<1>2. CASE e = d /\ r = p /\ j = i
  BY <1>1, <1>2 DEF WholeFile
<1>3. CASE ~(e = d /\ r = p /\ j = i)
  BY <1>1, <1>3 DEF SavedWhole, Stored
<1>. QED  BY <1>2, <1>3

LEMMA VerifiedWhole ==
  ASSUME TypeOK, SourceKnown, NEW d \in Device, Finishing(d), Verified(Joined(d).in),
         Joined(d).in.size > 0
  PROVE  /\ Msg(d).from \in Device /\ Msg(d).kind \in Items
         /\ \E q \in Device, v \in Versions :
              Joined(d).in.data = Snapshot(q, Msg(d).kind, v)
<1>. DEFINE in == Joined(d).in
<1>1. events[d] # <<>> /\ Msg(d).type = "FILE_DONE" /\ in.kind = Msg(d).kind
  BY DEF Finishing, Joins, Receives
<1>2. Msg(d).from \in Device /\ Msg(d).kind \in Kinds
  BY <1>1, MsgType, FileMsgType DEF FileTypes
<1>3. in.src \in Device
  BY <1>1, <1>2, JoinedKnown, SyncConstants DEF Known
<1>4. in.ver \in Versions
  BY <1>1, JoinedType DEF DeviceState, InTransfer
<1>5. in.data = Snapshot(in.src, Msg(d).kind, in.ver)
  BY <1>1 DEF Verified
<1>. QED  BY <1>2, <1>3, <1>4, <1>5 DEF Items

LEMMA PromotedWhole ==
  ASSUME TypeOK, SourceKnown, SavedWhole, NEW d \in Device, Finishing(d),
         Verified(Joined(d).in), synced' = Promoted(d)
  PROVE  SavedWhole'
<1>1. Joined(d).in.kind = Msg(d).kind
  BY DEF Finishing
<1>2. CASE Joined(d).in.size = 0
  <2>1. synced' = synced
    BY <1>1, <1>2 DEF Promoted
  <2>. QED  BY <2>1 DEF SavedWhole, Stored, Snapshot, SizeOf, PieceOf, Versions
<1>3. CASE Joined(d).in.size # 0
  <2>1. Joined(d).in.size > 0
    <3>1. Joined(d).in.size \in Nat
      BY JoinedType DEF Finishing, Joins, Receives, DeviceState, InTransfer
    <3>. QED  BY <1>3, <3>1
  <2>2. synced' = [synced EXCEPT ![d][Msg(d).from][Msg(d).kind] = Joined(d).in.data]
    BY <1>1, <1>3 DEF Promoted
  <2>3. /\ Msg(d).from \in Device /\ Msg(d).kind \in Items
        /\ \E q \in Device, v \in Versions :
             Joined(d).in.data = Snapshot(q, Msg(d).kind, v)
    BY <2>1, VerifiedWhole
  <2>. DEFINE p == Msg(d).from
              i == Msg(d).kind
              x == Joined(d).in.data
  <2>4. /\ p \in Device /\ i \in Items
        /\ WholeFile(x, i)
        /\ synced' = [synced EXCEPT ![d][p][i] = x]
    BY <2>2, <2>3 DEF WholeFile
  <2>. HIDE DEF p, i, x
  <2>. QED  BY <2>4, WholeStep
<1>. QED  BY <1>2, <1>3

(* Nothing is stored and what d receives is still a known transfer.        *)
LEMMA QuietWhole ==
  ASSUME WholeInv, NEW d \in Device, NEW s, Known(s.in),
         dev' = [dev EXCEPT ![d] = s], synced' = synced
  PROVE  SourceKnown' /\ SavedWhole'
BY KnownStep DEF WholeInv, SavedWhole, Stored

LEMMA ReceiveWhole ==
  ASSUME WholeInv, NEW d \in Device, Receive(d) \/ JoinFails(d)
  PROVE  SourceKnown' /\ SavedWhole'
<1>. DEFINE s == Joined(d)
            m == Msg(d)
<1>1. TypeOK /\ SourceKnown /\ SavedWhole /\ events[d] # <<>>
  BY DEF WholeInv, Receive, JoinFails, Ignore, LateHello, LateStats, LateFile, Late,
         RecvName, RecvHello, RecvInvalidStats, RecvStats, RecvAck, RecvMeta,
         RecvChunk, RecvDone, RecvBadDone, RecvStrayDone, RecvFileAck, Finishing,
         Joins, Receives
<1>2. dev[d] \in DeviceState /\ Known(dev[d].in)
  BY <1>1 DEF TypeOK, SourceKnown
<1>3. s \in DeviceState /\ Known(s.in)
  BY <1>1, JoinedType, JoinedKnown
<1>4. m.from \in Device /\ m \in Packet
  BY <1>1, MsgType, AnyMsgType
<1>5. CASE Ignore(d) \/ LateStats(d) \/ LateFile(d)
  <2>1. dev' = [dev EXCEPT ![d] = dev[d]] /\ synced' = synced
    BY <1>5 DEF Ignore, LateStats, LateFile, Handled
  <2>. QED  BY <1>2, <2>1, QuietWhole
<1>6. CASE LateHello(d)
  <2>1. [dev[d] EXCEPT !.statsSent = TRUE].in = dev[d].in
    BY <1>2 DEF DeviceState
  <2>. QED  BY <1>2, <1>6, <2>1, QuietWhole DEF LateHello, Handled
<1>7. CASE RecvName(d)
  <2>. DEFINE u == [dev[d] EXCEPT !.peer = m.from]
              v == [u EXCEPT !.state = "SYNCING", !.statsSent = TRUE]
  <2>1. u.in = dev[d].in /\ v.in = dev[d].in
    BY <1>2 DEF DeviceState
  <2>2. /\ synced' = synced
        /\ \/ dev' = [dev EXCEPT ![d] = dev[d]]
           \/ dev' = [dev EXCEPT ![d] = u]
           \/ dev' = [dev EXCEPT ![d] = v]
    BY <1>7 DEF RecvName, Handled
  <2>. HIDE DEF u, v
  <2>. QED  BY <1>2, <2>1, <2>2, QuietWhole
<1>8. CASE JoinFails(d)
  <2>1. PICK st \in {"READY", "ERROR"} :
          dev' = [dev EXCEPT ![d] = [Fresh(st, TRUE) EXCEPT !.peer = m.from]]
    BY <1>8 DEF JoinFails, Handled
  <2>2. [Fresh(st, TRUE) EXCEPT !.peer = m.from].in = NoIn
    BY DEF Fresh
  <2>3. Known(NoIn) /\ synced' = synced
    BY <1>8 DEF JoinFails, Known, NoIn
  <2>. QED  BY <2>1, <2>2, <2>3, QuietWhole
<1>9. CASE RecvHello(d) \/ RecvInvalidStats(d)
  <2>1. [s EXCEPT !.statsSent = TRUE].in = s.in /\ Failed(s).in = s.in
    BY <1>3, SendingKeepsIn DEF DeviceState
  <2>2. /\ synced' = synced
        /\ \/ dev' = [dev EXCEPT ![d] = [s EXCEPT !.statsSent = TRUE]]
           \/ dev' = [dev EXCEPT ![d] = Failed(s)]
    BY <1>9 DEF RecvHello, RecvInvalidStats, Handled
  <2>. HIDE DEF s
  <2>. QED  BY <1>3, <2>1, <2>2, QuietWhole
<1>10. CASE RecvStats(d)
  <2>. DEFINE reply == ~s.statsSent \/ ~s.statsAcked
              t == [s EXCEPT !.totalsSaved = TRUE, !.statsSent = @ \/ reply]
  <2>1. t.in = s.in /\ dev' = [dev EXCEPT ![d] = t]
    BY <1>3, <1>10 DEF RecvStats, Handled, DeviceState
  <2>2. SourceKnown'
    <3>. HIDE DEF t, s
    <3>. QED  BY <1>1, <1>3, <2>1, KnownStep
  <2>3. s.peer = m.from
    BY <1>2, FreshType DEF Joined, DeviceState, States
  <2>4. WholeFile(Snapshot(s.peer, Totals, m.ver), Totals) /\ Totals \in Items
    BY <1>4, <2>3, AnyMsgType DEF WholeFile, Items
  <2>5. SavedWhole'
    <3>1. CASE synced' = synced
      BY <1>1, <3>1 DEF SavedWhole, Stored
    <3>2. CASE synced' # synced
      <4>1. synced' = [synced EXCEPT ![d][s.peer][Totals] =
                         Snapshot(s.peer, Totals, m.ver)]
        BY <1>10, <3>2 DEF RecvStats, SavedTotals
      <4>2. s.peer \in Device
        BY <1>4, <2>3
      <4>. HIDE DEF s, m
      <4>. QED  BY <1>1, <2>4, <4>1, <4>2, WholeStep
    <3>. QED  BY <3>1, <3>2
  <2>. QED  BY <2>2, <2>5
<1>11. CASE RecvAck(d)
  <2>. DEFINE u == [s EXCEPT !.statsAcked = TRUE]
  <2>1. u \in DeviceState /\ u.in = s.in
    BY <1>3 DEF DeviceState
  <2>2. \A t \in BeginNextFile(d, u) : t.in = s.in
    <3>. HIDE DEF u
    <3>. QED  BY <2>1, SendingKeepsIn
  <2>3. /\ synced' = synced
        /\ \/ dev' = [dev EXCEPT ![d] = u]
           \/ \E t \in BeginNextFile(d, u) : dev' = [dev EXCEPT ![d] = t]
    BY <1>11 DEF RecvAck, Handled
  <2>. HIDE DEF u, s
  <2>. QED  BY <1>3, <2>1, <2>2, <2>3, QuietWhole
<1>12. CASE RecvMeta(d)
  <2>. DEFINE begun == Incoming(m)
              u == [s EXCEPT !.in = begun]
  <2>1. Known(begun)
    BY <1>4 DEF Known, Incoming
  <2>2. u.in = begun
    <3>. HIDE DEF s, begun
    <3>. QED  BY <1>3 DEF DeviceState
  <2>3. /\ synced' = synced
        /\ dev' = [dev EXCEPT ![d] = s] \/ dev' = [dev EXCEPT ![d] = u]
    BY <1>12 DEF RecvMeta, Handled
  <2>. HIDE DEF s, u, begun
  <2>. QED  BY <1>3, <2>1, <2>2, <2>3, QuietWhole
<1>13. CASE RecvChunk(d)
  <2>. DEFINE with(i) == [s EXCEPT !.in.data = Append(@, PieceOf(m.from, m.ver, i))]
  <2>1. \A i \in {m.idx, m.idx + 1} :
          with(i).in.kind = s.in.kind /\ with(i).in.src = s.in.src
    <3>. HIDE DEF s, m
    <3>. QED  BY <1>3 DEF DeviceState, InTransfer
  <2>2. /\ synced' = synced
        /\ \/ dev' = [dev EXCEPT ![d] = s]
           \/ \E i \in {m.idx, m.idx + 1} : dev' = [dev EXCEPT ![d] = with(i)]
    BY <1>13 DEF RecvChunk, Handled
  <2>3. \A i \in {m.idx, m.idx + 1} : Known(with(i).in)
    <3>. HIDE DEF with
    <3>. QED  BY <1>3, <2>1 DEF Known
  <2>. HIDE DEF s, m, with
  <2>. QED  BY <1>3, <2>2, <2>3, QuietWhole
<1>14. CASE RecvDone(d)
  <2>. DEFINE u == [s EXCEPT !.saved = @ \cup {m.kind}, !.in = NoIn]
  <2>1. u.in = NoIn /\ Known(NoIn)
    BY <1>3 DEF DeviceState, Known, NoIn
  <2>2. dev' = [dev EXCEPT ![d] = u]
    BY <1>14 DEF RecvDone, Handled
  <2>3. SourceKnown'
    <3>. HIDE DEF u
    <3>. QED  BY <1>1, <2>1, <2>2, KnownStep
  <2>4. SavedWhole'
    BY <1>1, <1>14, PromotedWhole DEF RecvDone
  <2>. QED  BY <2>3, <2>4
<1>15. CASE RecvBadDone(d) \/ RecvStrayDone(d)
  <2>1. /\ synced' = synced
        /\ dev' = [dev EXCEPT ![d] = Failed(s)] \/ dev' = [dev EXCEPT ![d] = s]
    BY <1>15 DEF RecvBadDone, RecvStrayDone, Handled
  <2>2. Failed(s).in = s.in
    BY <1>3, SendingKeepsIn
  <2>. HIDE DEF s
  <2>. QED  BY <1>3, <2>1, <2>2, QuietWhole
<1>16. CASE RecvFileAck(d)
  <2>. DEFINE acked == [s EXCEPT !.out.metaAcked = TRUE]
              moved == [s EXCEPT !.out.chunk = @ + 1]
  <2>1. /\ acked.in = s.in /\ moved.in = s.in
        /\ PieceSent(d, acked).in = s.in /\ PieceSent(d, moved).in = s.in
        /\ \A t \in BeginNextFile(d, s) : t.in = s.in
    <3>. HIDE DEF s
    <3>. QED  BY <1>3 DEF PieceSent, BeginNextFile, DeviceState
  <2>2. /\ synced' = synced
        /\ \/ dev' = [dev EXCEPT ![d] = PieceSent(d, acked)]
           \/ dev' = [dev EXCEPT ![d] = PieceSent(d, moved)]
           \/ \E t \in BeginNextFile(d, s) : dev' = [dev EXCEPT ![d] = t]
           \/ dev' = [dev EXCEPT ![d] = s]
    BY <1>16 DEF RecvFileAck, Handled
  <2>. HIDE DEF s, acked, moved
  <2>. QED  BY <1>3, <2>1, <2>2, QuietWhole
<1>. QED  BY <1>5, <1>6, <1>7, <1>8, <1>9, <1>10, <1>11, <1>12, <1>13, <1>14, <1>15,
             <1>16 DEF Receive

LEMMA CardWhole ==
  ASSUME WholeInv, NEW d \in Device, CardFails(d) \/ PowerLossInPromotion(d)
  PROVE  SourceKnown' /\ SavedWhole'
<1>1. TypeOK /\ SourceKnown /\ SavedWhole /\ events[d] # <<>>
  BY DEF WholeInv, CardFails, PowerLossInPromotion, Replacing, Finishing, Joins, Receives
<1>2. SourceKnown'
  <2>1. CASE CardFails(d)
    <3>1. Failed(Joined(d)).in = Joined(d).in /\ Known(Joined(d).in)
      BY <1>1, JoinedType, JoinedKnown, SendingKeepsIn
    <3>2. dev' = [dev EXCEPT ![d] = Failed(Joined(d))]
      BY <2>1 DEF CardFails, Handled
    <3>. QED  BY <1>1, <3>1, <3>2, KnownStep
  <2>2. CASE PowerLossInPromotion(d)
    BY <1>1, <2>2, FreshKnown, KnownStep DEF PowerLossInPromotion, States
  <2>. QED  BY <2>1, <2>2
<1>3. ASSUME NEW i \in Items, synced' = Removed(d, i)
      PROVE  SavedWhole'
  <2>1. Msg(d).from \in Device
    BY <1>1, MsgType, AnyMsgType
  <2>2. WholeFile(NoFile, i)
    BY DEF WholeFile
  <2>3. synced' = [synced EXCEPT ![d][Msg(d).from][i] = NoFile]
    BY <1>3 DEF Removed
  <2>. QED  BY <1>1, <2>1, <2>2, <2>3, WholeStep
<1>4. ASSUME synced' = synced PROVE SavedWhole'
  BY <1>1, <1>4 DEF SavedWhole, Stored
<1>5. ASSUME Finishing(d), Verified(Joined(d).in), synced' = Promoted(d)
      PROVE  SavedWhole'
  BY <1>1, <1>5, PromotedWhole
<1>6. SavedWhole'
  BY <1>3, <1>4, <1>5 DEF CardFails, PowerLossInPromotion
<1>. QED  BY <1>2, <1>6

LEMMA OwnStepWhole ==
  ASSUME WholeInv, NEW d \in Device,
         Poll(d) \/ Timeout(d) \/ User(d) \/ Prepared(d) \/ PrepareFails(d)
  PROVE  SourceKnown' /\ SavedWhole'
<1>. DEFINE s == dev[d]
<1>1. TypeOK /\ SourceKnown /\ s \in DeviceState /\ Known(s.in)
  BY DEF WholeInv, TypeOK, SourceKnown
<1>2. synced' = synced
  BY DEF Poll, HelloRetry, StatsRetry, FilesBegin, FileRetry, Complete,
         RefreshAchievements, Timeout, User, Enter, Leave, Read, StartSync, Prepared,
         PrepareFails, Polled
<1>3. ASSUME NEW t, t.in = s.in \/ t.in = NoIn, dev' = [dev EXCEPT ![d] = t]
      PROVE  SourceKnown' /\ SavedWhole'
  <2>1. Known(t.in)
    BY <1>1, <1>3 DEF Known, NoIn
  <2>. QED  BY <1>2, <1>3, <2>1, QuietWhole
<1>4. CASE HelloRetry(d) \/ StatsRetry(d) \/ Complete(d) \/ RefreshAchievements(d)
  <2>1. \/ dev' = [dev EXCEPT ![d] = s]
        \/ dev' = [dev EXCEPT ![d] = [s EXCEPT !.statsSent = TRUE]]
        \/ dev' = [dev EXCEPT ![d] = [s EXCEPT !.state = "SYNCED"]]
        \/ dev' = [dev EXCEPT ![d] = [s EXCEPT !.refreshed = TRUE]]
    BY <1>4 DEF HelloRetry, StatsRetry, Complete, RefreshAchievements, Polled
  <2>2. /\ [s EXCEPT !.statsSent = TRUE].in = s.in
        /\ [s EXCEPT !.state = "SYNCED"].in = s.in
        /\ [s EXCEPT !.refreshed = TRUE].in = s.in
    BY <1>1 DEF DeviceState
  <2>. HIDE DEF s
  <2>. QED  BY <1>3, <2>1, <2>2
<1>5. CASE FilesBegin(d) \/ FileRetry(d) \/ Timeout(d)
  <2>1. \/ \E t \in BeginNextFile(d, s) : dev' = [dev EXCEPT ![d] = t]
        \/ dev' = [dev EXCEPT ![d] = s]
        \/ dev' = [dev EXCEPT ![d] = PieceSent(d, s)]
        \/ dev' = [dev EXCEPT ![d] = Failed(s)]
    BY <1>5 DEF FilesBegin, FileRetry, Timeout, Polled
  <2>2. /\ \A t \in BeginNextFile(d, s) : t.in = s.in
        /\ PieceSent(d, s).in = s.in /\ Failed(s).in = s.in
    BY <1>1, SendingKeepsIn
  <2>. HIDE DEF s
  <2>. QED  BY <1>3, <2>1, <2>2
<1>6. CASE Enter(d) \/ Leave(d) \/ StartSync(d)
  <2>1. \E st \in States : \E radio : dev' = [dev EXCEPT ![d] = Fresh(st, radio)]
    BY <1>6 DEF Enter, Leave, StartSync, Polled, States
  <2>2. \A st, radio : Fresh(st, radio).in = NoIn
    BY DEF Fresh
  <2>. QED  BY <1>3, <2>1, <2>2
<1>7. CASE Prepared(d) \/ PrepareFails(d)
  <2>1. \E st \in States : dev' = [dev EXCEPT ![d] = [s EXCEPT !.state = st]]
    <3>1. CASE Prepared(d)
      BY <1>1, <3>1 DEF Prepared, States, TypeOK
    <3>2. CASE PrepareFails(d)
      BY <1>1, <3>2 DEF PrepareFails, States, TypeOK
    <3>. QED  BY <1>7, <3>1, <3>2
  <2>2. \A st \in States : [s EXCEPT !.state = st].in = s.in
    BY <1>1 DEF DeviceState
  <2>. HIDE DEF s
  <2>. QED  BY <1>3, <2>1, <2>2
<1>8. CASE Read(d)
  BY <1>1, <1>2, <1>8 DEF Read, SourceKnown, WholeInv, SavedWhole, Stored
<1>. QED  BY <1>4, <1>5, <1>6, <1>7, <1>8 DEF Poll, User

LEMMA InitWhole == Init => WholeInv
<1>. SUFFICES ASSUME Init PROVE WholeInv
  OBVIOUS
<1>1. TypeOK
  BY InitType
<1>2. SourceKnown
  BY FreshKnown DEF Init, SourceKnown, States
<1>3. SavedWhole
  BY DEF Init, SavedWhole, Stored
<1>. QED  BY <1>1, <1>2, <1>3 DEF WholeInv

LEMMA NextWhole == WholeInv /\ [Next]_vars => WholeInv'
<1>. SUFFICES ASSUME WholeInv, [Next]_vars PROVE WholeInv'
  OBVIOUS
<1>1. TypeOK'
  BY NextType DEF WholeInv
<1>2. ASSUME UNCHANGED vars \/ AirClears
      PROVE  SourceKnown' /\ SavedWhole'
  BY <1>2 DEF vars, AirClears, WholeInv, SourceKnown, SavedWhole, Stored
<1>3. ASSUME NEW d \in Device, Receive(d) \/ JoinFails(d)
      PROVE  SourceKnown' /\ SavedWhole'
  BY <1>3, ReceiveWhole
<1>4. ASSUME NEW d \in Device, CardFails(d) \/ PowerLossInPromotion(d)
      PROVE  SourceKnown' /\ SavedWhole'
  BY <1>4, CardWhole
<1>5. ASSUME NEW d \in Device,
             Poll(d) \/ Timeout(d) \/ User(d) \/ Prepared(d) \/ PrepareFails(d)
      PROVE  SourceKnown' /\ SavedWhole'
  BY <1>5, OwnStepWhole
<1>6. SourceKnown' /\ SavedWhole'
  BY <1>2, <1>3, <1>4, <1>5 DEF Next, WholeInv, SourceKnown, SavedWhole, Stored, vars
<1>. QED  BY <1>1, <1>6 DEF WholeInv

(* Every stored file is one version of one reader's file, complete and in  *)
(* order, whatever packets are lost, repeated, evicted or interleaved,     *)
(* however many readers talk at once, and whatever the card damages.       *)
THEOREM StoredFilesAreWhole == Spec => []SavedWhole
<1>1. WholeInv => SavedWhole
  BY DEF WholeInv
<1>. QED  BY <1>1, InitWhole, NextWhole, PTL DEF Spec
=============================================================================
