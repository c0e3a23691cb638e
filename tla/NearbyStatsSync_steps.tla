------------------------ MODULE NearbyStatsSync_steps -------------------------
(* What each step of NearbyStatsSync does to the fields of the reader that *)
(* takes it, for the proofs about whole exchanges: every action is one of  *)
(* a dozen effects.                                                        *)
EXTENDS NearbyStatsSync_proofs

-----------------------------------------------------------------------------
(* Queues.  A queue keeps a suffix of what it had, and what is new comes   *)
(* behind it.                                                              *)

Extends(r, q, S) ==
  \E k \in 0..Len(q) :
    /\ Len(r) >= Len(q) - k
    /\ \A n \in DOMAIN r :
         IF n + k <= Len(q) THEN r[n] = q[n + k] ELSE r[n] \in S

LEMMA ExtendsItself ==
  ASSUME NEW q \in Seq(Packet), NEW S
  PROVE  Extends(q, q, S)
<1>1. \A n \in DOMAIN q : n + 0 <= Len(q) /\ q[n] = q[n + 0]
  OBVIOUS
<1>2. 0 \in 0..Len(q) /\ Len(q) >= Len(q) - 0
  OBVIOUS
<1>. QED  BY <1>1, <1>2 DEF Extends

LEMMA EmptyExtends ==
  ASSUME NEW q \in Seq(Packet), NEW S
  PROVE  Extends(<<>>, q, S)
<1>1. Len(q) \in 0..Len(q) /\ Len(<<>>) >= Len(q) - Len(q)
  OBVIOUS
<1>. QED  BY <1>1 DEF Extends

LEMMA TailExtends ==
  ASSUME NEW q \in Seq(Packet), q # <<>>, NEW S
  PROVE  Extends(Tail(q), q, S)
<1>1. \A n \in DOMAIN Tail(q) : n + 1 <= Len(q) /\ Tail(q)[n] = q[n + 1]
  OBVIOUS
<1>2. 1 \in 0..Len(q) /\ Len(Tail(q)) >= Len(q) - 1
  OBVIOUS
<1>. QED  BY <1>1, <1>2 DEF Extends

(* Eviction takes one more of the old packets, or one of the new.          *)
LEMMA EvictExtends ==
  ASSUME NEW q \in Seq(Packet), NEW r \in Seq(Packet), NEW S, r # <<>>,
         Extends(r, q, S)
  PROVE  Extends(Tail(r), q, S)
<1>1. PICK k \in 0..Len(q) :
        /\ Len(r) >= Len(q) - k
        /\ \A n \in DOMAIN r :
             IF n + k <= Len(q) THEN r[n] = q[n + k] ELSE r[n] \in S
  BY DEF Extends
<1>2. /\ Tail(r) \in Seq(Packet) /\ Len(Tail(r)) = Len(r) - 1 /\ Len(r) \in Nat
      /\ \A n \in DOMAIN Tail(r) : n + 1 \in DOMAIN r /\ Tail(r)[n] = r[n + 1]
  OBVIOUS
<1>3. CASE k < Len(q)
  <2>1. k + 1 \in 0..Len(q) /\ Len(Tail(r)) >= Len(q) - (k + 1)
    BY <1>1, <1>2, <1>3
  <2>2. \A n \in DOMAIN Tail(r) :
          IF n + (k + 1) <= Len(q) THEN Tail(r)[n] = q[n + (k + 1)]
          ELSE Tail(r)[n] \in S
    BY <1>1, <1>2
  <2>. QED  BY <2>1, <2>2 DEF Extends
<1>4. CASE k = Len(q)
  <2>1. Len(Tail(r)) >= Len(q) - k
    BY <1>2, <1>4
  <2>2. \A n \in DOMAIN Tail(r) : n + k > Len(q) /\ Tail(r)[n] \in S
    BY <1>1, <1>2, <1>4
  <2>. QED  BY <2>1, <2>2 DEF Extends
<1>. QED  BY <1>1, <1>3, <1>4

LEMMA AppendExtends ==
  ASSUME NEW q \in Seq(Packet), NEW r \in Seq(Packet), NEW S, NEW m \in S,
         Extends(r, q, S)
  PROVE  Extends(Append(r, m), q, S)
<1>1. PICK k \in 0..Len(q) :
        /\ Len(r) >= Len(q) - k
        /\ \A n \in DOMAIN r :
             IF n + k <= Len(q) THEN r[n] = q[n + k] ELSE r[n] \in S
  BY DEF Extends
<1>2. /\ Len(Append(r, m)) = Len(r) + 1 /\ Len(r) \in Nat
      /\ DOMAIN Append(r, m) = 1..(Len(r) + 1)
      /\ \A n \in 1..Len(r) : Append(r, m)[n] = r[n]
      /\ Append(r, m)[Len(r) + 1] = m
  OBVIOUS
<1>3. Len(Append(r, m)) >= Len(q) - k
  BY <1>1, <1>2
<1>4. \A n \in DOMAIN Append(r, m) :
        IF n + k <= Len(q) THEN Append(r, m)[n] = q[n + k]
        ELSE Append(r, m)[n] \in S
  BY <1>1, <1>2
<1>. QED  BY <1>3, <1>4 DEF Extends

LEMMA EnqueueExtends ==
  ASSUME NEW q \in Seq(Packet), NEW r \in Queue, NEW m \in Packet, NEW S, m \in S,
         Extends(r, q, S)
  PROVE  Extends(Enqueue(r, m), q, S)
<1>1. r \in Seq(Packet)
  BY DEF Queue
<1>2. Extends(Append(r, m), q, S)
  BY <1>1, AppendExtends
<1>3. CASE r = <<>>
  <2>1. Len(r) < QueueCap
    BY <1>3, SyncConstants
  <2>. QED  BY <1>2, <2>1 DEF Enqueue
<1>4. CASE r # <<>>
  <2>1. Extends(Tail(r), q, S) /\ Tail(r) \in Seq(Packet)
    BY <1>1, <1>4, EvictExtends
  <2>2. Extends(Append(Tail(r), m), q, S)
    BY <2>1, AppendExtends
  <2>. QED  BY <1>2, <2>2 DEF Enqueue
<1>. QED  BY <1>3, <1>4

PacketsIn(pkts) == {pkts[j] : j \in DOMAIN pkts}

LEMMA ArriveExtends ==
  ASSUME NEW q \in Queue, NEW pkts \in Seq(Packet), NEW got \in SUBSET DOMAIN pkts
  PROVE  Extends(Arrive(q, pkts, got), q, PacketsIn(pkts))
<1>. DEFINE S == PacketsIn(pkts)
            first == IF 1 \in got THEN Enqueue(q, pkts[1]) ELSE q
<1>1. \A j \in got : pkts[j] \in Packet /\ pkts[j] \in S
  BY DEF PacketsIn
<1>2. q \in Seq(Packet)
  BY DEF Queue
<1>. HIDE DEF S
<1>3. first \in Queue /\ Extends(first, q, S)
  BY <1>1, <1>2, ExtendsItself, EnqueueType, EnqueueExtends
<1>4. Arrive(q, pkts, got) = IF 2 \in got THEN Enqueue(first, pkts[2]) ELSE first
  BY DEF Arrive
<1>. HIDE DEF first
<1>5. Extends(Arrive(q, pkts, got), q, S)
  BY <1>1, <1>2, <1>3, <1>4, EnqueueExtends
<1>. QED  BY <1>5 DEF S

-----------------------------------------------------------------------------
(* A turn of d: its memory becomes s, it takes packets from the front of   *)
(* its queue, and the others hear some of the packets in S.                *)

Heard(d, S) ==
  /\ \A e \in Device \ {d} : Extends(events'[e], events[e], S)
  /\ Extends(events'[d], events[d], {})

Turn(d, s, S) ==
  /\ s \in DeviceState /\ dev' = [dev EXCEPT ![d] = s]
  /\ \A m \in S : m \in Packet
  /\ Heard(d, S)

Takes(d) == events[d] # <<>> /\ events'[d] = Tail(events[d])

LEMMA BroadcastHeard ==
  ASSUME TypeOK, NEW d \in Device, NEW pkts \in Seq(Packet), NEW rest,
         Extends(rest, events[d], {}), Broadcast(d, pkts, rest)
  PROVE  Heard(d, PacketsIn(pkts)) /\ events'[d] = rest
<1>1. PICK got \in [Device \ {d} -> SUBSET DOMAIN pkts] :
        events' = [e \in Device |->
                    IF e = d THEN rest ELSE Arrive(events[e], pkts, got[e])]
  BY DEF Broadcast
<1>2. ASSUME NEW e \in Device \ {d}
      PROVE  Extends(events'[e], events[e], PacketsIn(pkts))
  <2>1. events[e] \in Queue /\ got[e] \in SUBSET DOMAIN pkts
    BY DEF TypeOK
  <2>2. events'[e] = Arrive(events[e], pkts, got[e])
    BY <1>1
  <2>. QED  BY <2>1, <2>2, ArriveExtends
<1>3. events'[d] = rest
  BY <1>1
<1>. QED  BY <1>2, <1>3 DEF Heard

LEMMA PacketsType ==
  ASSUME NEW pkts \in Seq(Packet), NEW m \in PacketsIn(pkts)
  PROVE  m \in Packet
BY DEF PacketsIn

LEMMA HandledTurn ==
  ASSUME TypeOK, NEW d \in Device, NEW s \in DeviceState,
         NEW pkts \in Seq(Packet), events[d] # <<>>, Handled(d, s, pkts)
  PROVE  Turn(d, s, PacketsIn(pkts)) /\ Takes(d)
<1>1. events[d] \in Seq(Packet)
  BY DEF TypeOK, Queue
<1>2. Extends(Tail(events[d]), events[d], {})
  BY <1>1, TailExtends
<1>3. Heard(d, PacketsIn(pkts)) /\ events'[d] = Tail(events[d])
  BY <1>2, BroadcastHeard DEF Handled
<1>. QED  BY <1>3, PacketsType DEF Turn, Takes, Handled

LEMMA PolledTurn ==
  ASSUME TypeOK, NEW d \in Device, NEW s \in DeviceState,
         NEW pkts \in Seq(Packet), Polled(d, s, pkts)
  PROVE  Turn(d, s, PacketsIn(pkts))
<1>1. events[d] \in Seq(Packet)
  BY DEF TypeOK, Queue
<1>2. Extends(<<>>, events[d], {})
  BY <1>1, EmptyExtends
<1>3. Heard(d, PacketsIn(pkts))
  BY <1>2, BroadcastHeard DEF Polled
<1>. QED  BY <1>3, PacketsType DEF Turn, Polled

(* A step that leaves every queue alone, or empties that of d.             *)
LEMMA SilentTurn ==
  ASSUME TypeOK, NEW d \in Device, NEW s \in DeviceState,
         dev' = [dev EXCEPT ![d] = s],
         events' = events \/ events' = [events EXCEPT ![d] = <<>>]
  PROVE  Turn(d, s, {})
<1>1. \A e \in Device : events[e] \in Seq(Packet)
  BY DEF TypeOK, Queue
<1>2. \A e \in Device : events'[e] = events[e] \/ events'[e] = <<>>
  BY DEF TypeOK
<1>3. \A e \in Device : Extends(events'[e], events[e], {})
  BY <1>1, <1>2, ExtendsItself, EmptyExtends
<1>. QED  BY <1>3 DEF Turn, Heard

LEMMA NoPackets == <<>> \in Seq(Packet) /\ PacketsIn(<<>>) = {}
BY DEF PacketsIn

LEMMA OnePacket ==
  ASSUME NEW m \in Packet
  PROVE  <<m>> \in Seq(Packet) /\ PacketsIn(<<m>>) = {m}
BY DEF PacketsIn

LEMMA TwoPackets ==
  ASSUME NEW m \in Packet, NEW n \in Packet
  PROVE  <<m, n>> \in Seq(Packet) /\ PacketsIn(<<m, n>>) = {m, n}
<1>1. DOMAIN <<m, n>> = {1, 2} /\ <<m, n>>[1] = m /\ <<m, n>>[2] = n
  OBVIOUS
<1>. QED  BY <1>1 DEF PacketsIn

(* With the packets written out.                                           *)
LEMMA HandledSays ==
  ASSUME TypeOK, NEW d \in Device, NEW s \in DeviceState, events[d] # <<>>
  PROVE  /\ Handled(d, s, <<>>) => Turn(d, s, {}) /\ Takes(d)
         /\ \A m \in Packet :
              Handled(d, s, <<m>>) => Turn(d, s, {m}) /\ Takes(d)
         /\ \A m, n \in Packet :
              Handled(d, s, <<m, n>>) => Turn(d, s, {m, n}) /\ Takes(d)
<1>1. Handled(d, s, <<>>) => Turn(d, s, {}) /\ Takes(d)
  <2>1. <<>> \in Seq(Packet) /\ PacketsIn(<<>>) = {}
    BY NoPackets
  <2>. QED  BY <2>1, HandledTurn
<1>2. ASSUME NEW m \in Packet, Handled(d, s, <<m>>)
      PROVE  Turn(d, s, {m}) /\ Takes(d)
  <2>1. <<m>> \in Seq(Packet) /\ PacketsIn(<<m>>) = {m}
    BY OnePacket
  <2>. QED  BY <1>2, <2>1, HandledTurn
<1>3. ASSUME NEW m \in Packet, NEW n \in Packet, Handled(d, s, <<m, n>>)
      PROVE  Turn(d, s, {m, n}) /\ Takes(d)
  <2>1. <<m, n>> \in Seq(Packet) /\ PacketsIn(<<m, n>>) = {m, n}
    BY TwoPackets
  <2>. QED  BY <1>3, <2>1, HandledTurn
<1>. QED  BY <1>1, <1>2, <1>3

LEMMA AckSays ==
  ASSUME TypeOK, NEW d \in Device, NEW s \in DeviceState, events[d] # <<>>,
         Msg(d).type \in {"FILE_META", "FILE_CHUNK", "FILE_DONE"},
         Handled(d, s, FileAck(d, Msg(d)))
  PROVE  /\ Turn(d, s, {FilePacket(AckOf(Msg(d).type), d, Msg(d).kind, AckIdx(Msg(d)), 0)})
         /\ Takes(d)
<1>. DEFINE m == Msg(d)
            a == FilePacket(AckOf(m.type), d, m.kind, AckIdx(m), 0)
<1>1. m \in Packet /\ m.kind \in Kinds /\ AckIdx(m) \in Nat
  BY MsgType, FileMsgType DEF FileTypes, AckIdx
<1>2. AckOf(m.type) \in FileTypes
  BY DEF AckOf, FileTypes, FileAcks
<1>3. a \in Packet
  BY <1>1, <1>2, FilePacketType, ZeroIsAVersion
<1>4. Handled(d, s, <<a>>)
  BY DEF FileAck
<1>. HIDE DEF a
<1>5. Turn(d, s, {a}) /\ Takes(d)
  BY <1>3, <1>4, HandledSays
<1>. QED  BY <1>5 DEF a

LEMMA PolledSays ==
  ASSUME TypeOK, NEW d \in Device, NEW s \in DeviceState
  PROVE  /\ Polled(d, s, <<>>) => Turn(d, s, {})
         /\ \A m \in Packet : Polled(d, s, <<m>>) => Turn(d, s, {m})
<1>1. Polled(d, s, <<>>) => Turn(d, s, {})
  <2>1. <<>> \in Seq(Packet) /\ PacketsIn(<<>>) = {}
    BY NoPackets
  <2>. QED  BY <2>1, PolledTurn
<1>2. ASSUME NEW m \in Packet, Polled(d, s, <<m>>)
      PROVE  Turn(d, s, {m})
  <2>1. <<m>> \in Seq(Packet) /\ PacketsIn(<<m>>) = {m}
    BY OnePacket
  <2>. QED  BY <1>2, <2>1, PolledTurn
<1>. QED  BY <1>1, <1>2

-----------------------------------------------------------------------------
(* A screen that is not yet in an exchange has no transfer and no flag set, *)
(* so that a READY screen loses nothing when it joins one.                 *)

Idle(s) ==
  /\ s.out = NoOut /\ s.in = NoIn /\ s.saved = {}
  /\ ~s.totalsSaved /\ ~s.statsAcked /\ ~s.filesSent

Early == {"OFF", "READY", "PREPARING", "DISCOVERING"}
IdleInv == TypeOK /\ \A d \in Device : dev[d].state \in Early => Idle(dev[d])

LEMMA FreshIdle ==
  ASSUME NEW st \in States, NEW radio \in BOOLEAN
  PROVE  Idle(Fresh(st, radio)) /\ Fresh(st, radio).state = st
BY DEF Idle, Fresh

(* The memory with which d handles a packet that is not a NAME.            *)
LEMMA JoinedFields ==
  ASSUME IdleInv, NEW d \in Device, events[d] # <<>>
  PROVE  LET x == dev[d]  s == Joined(d)
         IN  /\ s \in DeviceState /\ x \in DeviceState
             /\ s.state = "SYNCING" /\ s.peer = Msg(d).from
             /\ s.in = x.in /\ s.out = x.out /\ s.saved = x.saved
             /\ s.totalsSaved = x.totalsSaved /\ s.statsAcked = x.statsAcked
             /\ s.filesSent = x.filesSent
<1>. DEFINE x == dev[d]
            s == Joined(d)
            base == IF x.state = "READY" THEN Fresh("READY", TRUE) ELSE x
<1>1. x \in DeviceState /\ (x.state = "READY" => Idle(x))
  BY DEF IdleInv, TypeOK, Early
<1>2. Fresh("READY", TRUE) \in DeviceState /\ Idle(Fresh("READY", TRUE))
  BY FreshType, FreshIdle DEF States
<1>3. base \in DeviceState
  BY <1>1, <1>2
<1>4. /\ base.in = x.in /\ base.out = x.out /\ base.saved = x.saved
      /\ base.totalsSaved = x.totalsSaved /\ base.statsAcked = x.statsAcked
      /\ base.filesSent = x.filesSent
  <2>1. CASE x.state # "READY"
    BY <2>1
  <2>2. CASE x.state = "READY"
    <3>1. base = Fresh("READY", TRUE) /\ Idle(x) /\ Idle(base)
      BY <1>1, <1>2, <2>2
    <3>. HIDE DEF base
    <3>. QED  BY <1>1, <1>3, <3>1 DEF Idle, DeviceState
  <2>. QED  BY <2>1, <2>2
<1>5. s = [base EXCEPT !.state = "SYNCING", !.peer = Msg(d).from]
  BY DEF Joined
<1>6. s \in DeviceState
  BY JoinedType DEF IdleInv
<1>. HIDE DEF base
<1>7. /\ s.state = "SYNCING" /\ s.peer = Msg(d).from
      /\ s.in = base.in /\ s.out = base.out /\ s.saved = base.saved
      /\ s.totalsSaved = base.totalsSaved /\ s.statsAcked = base.statsAcked
      /\ s.filesSent = base.filesSent
  BY <1>3, <1>5 DEF DeviceState
<1>. QED  BY <1>1, <1>4, <1>6, <1>7

-----------------------------------------------------------------------------
(* The effects of a turn of d on its memory, which becomes s, on the card  *)
(* and on the air, S.                                                      *)

SameIn(x, s) == s.in = x.in /\ s.saved = x.saved
SameOut(x, s) == s.out = x.out /\ s.filesSent = x.filesSent
SameFlags(x, s) == s.totalsSaved = x.totalsSaved /\ s.statsAcked = x.statsAcked

(* How the screen and the peer may change without a fault.                 *)
MovesOn(d, s) ==
  LET x == dev[d]
  IN  /\ s.state \in Early => x.state \in Early
      /\ s.state = "OFF" => x.state = "OFF"
      /\ s.state = "ERROR" <=> x.state = "ERROR"
      /\ s.state = "SYNCED" => x.state = "SYNCED" \/ ExchangeDone(x)
      /\ s.state \in {"SYNCING", "SYNCED"} =>
           \/ x.state \in {"SYNCING", "SYNCED"} /\ s.peer = x.peer
           \/ events[d] # <<>> /\ s.peer = Msg(d).from

(* d takes a packet of one of the types and is, or stays, in the exchange. *)
Joining(d, s, types) ==
  /\ Takes(d) /\ Msg(d).type \in types /\ dev[d].state \in Joinable
  /\ s.state = "SYNCING" /\ s.peer = Msg(d).from

Talks(d, s, S) ==
  /\ MovesOn(d, s)
  /\ SameIn(dev[d], s) /\ SameOut(dev[d], s) /\ SameFlags(dev[d], s)
  /\ \A m \in S :
       /\ dev[d].state # "OFF"
       /\ \/ m \in {Plain("HELLO", d), Plain("NAME", d), Stats(d)}
          \/ m = Plain("ACK", d) /\ dev[d].state = "SYNCED"
  /\ UNCHANGED <<local, synced>>

(* A file that was completed and verified is stored; the old one, or the   *)
(* old totals, may be gone in the middle of the promotion.                 *)
Completed(d) ==
  /\ events[d] # <<>> /\ Msg(d).type = "FILE_DONE"
  /\ dev[d].in.kind = Msg(d).kind /\ Verified(dev[d].in)

Stores(d) ==
  /\ Completed(d)
  /\ synced' = IF dev[d].in.size = 0 THEN synced
               ELSE [synced EXCEPT ![d][Msg(d).from][Msg(d).kind] = dev[d].in.data]

Erases(d) ==
  /\ Env \cap {"PowerLoss", "Fault"} # {}
  /\ events[d] # <<>> /\ Msg(d).from \in Device
  /\ \E i \in Items :
       /\ \/ Completed(d) /\ i = Msg(d).kind
          \/ /\ Msg(d).type = "STATS" /\ Parses(Msg(d)) /\ i = Totals
             /\ ~dev[d].totalsSaved
       /\ synced' = Removed(d, i)

Fails(d, s, S) ==
  /\ s.state = "ERROR" /\ SameIn(dev[d], s) /\ SameFlags(dev[d], s)
  /\ s.out = [dev[d].out EXCEPT !.open = FALSE] /\ s.filesSent = dev[d].filesSent
  /\ dev[d].state \in {"READY", "DISCOVERING", "SYNCING"}
  /\ \/ Env \cap {"Fault", "Timeout"} # {}
     \/ events[d] # <<>> /\ Msg(d).type = "STATS" /\ ~Parses(Msg(d))
     \/ /\ events[d] # <<>> /\ Msg(d).type = "FILE_DONE"
        /\ dev[d].in.kind = Msg(d).kind /\ ~Verified(dev[d].in)
  /\ S = {} /\ UNCHANGED local
  /\ synced' = synced \/ ("Fault" \in Env /\ (Stores(d) \/ Erases(d)))

Resets(d, s, S) ==
  /\ Idle(s) /\ s.state \in {"OFF", "READY", "PREPARING", "ERROR"}
  /\ dev[d].state \in Early \/ Env \cap {"Leave", "PowerLoss", "Resync"} # {}
  /\ s.state = "OFF" => Env \cap {"Leave", "PowerLoss"} # {}
  /\ s.state = "ERROR" => "Fault" \in Env
  /\ S = {} /\ UNCHANGED local
  /\ synced' = synced \/ ("PowerLoss" \in Env /\ Erases(d))

StoresTotals(d, s, S) ==
  /\ Joining(d, s, {"STATS"}) /\ Parses(Msg(d))
  /\ SameIn(dev[d], s) /\ SameOut(dev[d], s)
  /\ s.totalsSaved /\ s.statsAcked = dev[d].statsAcked
  /\ \A m \in S : m \in {Plain("ACK", d), Stats(d)}
  /\ synced' = IF dev[d].totalsSaved THEN synced
               ELSE [synced EXCEPT ![d][Msg(d).from][Totals] =
                       Snapshot(Msg(d).from, Totals, Msg(d).ver)]
  /\ UNCHANGED local

HearsAck(d, s, S) ==
  /\ Joining(d, s, {"ACK"}) /\ SameIn(dev[d], s) /\ SameOut(dev[d], s)
  /\ s.totalsSaved = dev[d].totalsSaved /\ s.statsAcked
  /\ S = {} /\ UNCHANGED <<local, synced>>

(* The next file is announced, or there is none.                           *)
NextFile(d, s, S) ==
  LET x == dev[d]  k == KindAfter(x.out.kind)
  IN  /\ k = None => s.out = NoOut /\ s.filesSent /\ S = {}
      /\ k # None =>
           /\ s.filesSent = x.filesSent
           /\ \E n \in AnnouncedSizes(k) :
                /\ s.out = [NoOut EXCEPT !.kind = k, !.ver = local[d][k], !.size = n]
                /\ S = {FilePacket("FILE_META", d, k, n, local[d][k])}

BeginsFiles(d, s, S) ==
  /\ dev[d].out.kind = None /\ ~dev[d].filesSent /\ dev[d].totalsSaved
  /\ SameIn(dev[d], s) /\ NextFile(d, s, S) /\ s.totalsSaved /\ s.statsAcked
  /\ \/ Joining(d, s, {"ACK"})
     \/ /\ dev[d].state = "SYNCING" /\ s.state = "SYNCING" /\ s.peer = dev[d].peer
        /\ dev[d].statsAcked
  /\ UNCHANGED <<local, synced>>

GoesOn(d, s, S) ==
  /\ Joining(d, s, {"DONE_ACK"}) /\ Msg(d).kind = dev[d].out.kind
  /\ SameIn(dev[d], s) /\ SameFlags(dev[d], s) /\ NextFile(d, s, S)
  /\ UNCHANGED <<local, synced>>

RepeatsMeta(d, s, S) ==
  /\ dev[d].state = "SYNCING" /\ s = dev[d]
  /\ s.out.kind # None /\ ~s.out.metaAcked
  /\ S = {FilePacket("FILE_META", d, s.out.kind, s.out.size, s.out.ver)}
  /\ UNCHANGED <<local, synced>>

(* What made d send a piece, and the chunk it has got to.                  *)
Resends(d, s) ==
  /\ dev[d].state = "SYNCING" /\ s.state = "SYNCING" /\ s.peer = dev[d].peer
  /\ dev[d].out.metaAcked /\ s.out.metaAcked /\ s.out.chunk = dev[d].out.chunk
MetaAcked(d, s) ==
  /\ Joining(d, s, {"META_ACK"}) /\ Msg(d).kind = dev[d].out.kind
  /\ s.out.metaAcked /\ s.out.chunk = dev[d].out.chunk
ChunkAcked(d, s) ==
  /\ Joining(d, s, {"CHUNK_ACK"}) /\ Msg(d).kind = dev[d].out.kind
  /\ Msg(d).idx = dev[d].out.chunk
  /\ s.out.metaAcked = dev[d].out.metaAcked /\ s.out.chunk = dev[d].out.chunk + 1

SendsPiece(d, s, S) ==
  LET x == dev[d]  k == x.out.kind
  IN  /\ k \in Kinds /\ s.out.kind = k /\ s.out.ver = x.out.ver
      /\ s.out.size = x.out.size
      /\ Resends(d, s) \/ MetaAcked(d, s) \/ ChunkAcked(d, s)
      /\ s.out.chunk >= x.out.size =>
           /\ s.out.doneSent /\ s.out.open = x.out.open /\ s.out.handle = x.out.handle
           /\ S = {FilePacket("FILE_DONE", d, k, 0, 0)}
      /\ s.out.chunk < x.out.size =>
           /\ s.out.doneSent = x.out.doneSent
           /\ s.out.metaAcked =>
                /\ s.out.open
                /\ s.out.handle = IF x.out.open THEN x.out.handle ELSE local[d][k]
                /\ S = {FilePacket("FILE_CHUNK", d, k, s.out.chunk, s.out.handle)}
           /\ ~s.out.metaAcked =>
                /\ s.out.open = x.out.open /\ s.out.handle = x.out.handle
                /\ S = {}
      /\ SameIn(x, s) /\ SameFlags(x, s) /\ s.filesSent = x.filesSent
      /\ UNCHANGED <<local, synced>>

TakesMeta(d, s, S) ==
  LET x == dev[d]  m == Msg(d)
  IN  /\ Joining(d, s, {"FILE_META"})
      /\ s.in = IF SameTransfer(x.in, m) THEN x.in ELSE Incoming(m)
      /\ s.saved = x.saved /\ SameOut(x, s) /\ SameFlags(x, s)
      /\ S = {FilePacket("META_ACK", d, m.kind, AckIdx(m), 0)}
      /\ UNCHANGED <<local, synced>>

TakesChunk(d, s, S) ==
  LET x == dev[d]  m == Msg(d)
  IN  /\ Joining(d, s, {"FILE_CHUNK"}) /\ IsNextChunk(x.in, m)
      /\ \E i \in {m.idx, m.idx + 1} :
           /\ i # m.idx => "BadWrite" \in Env
           /\ s.in = [x.in EXCEPT !.data = Append(@, PieceOf(m.from, m.ver, i))]
      /\ s.saved = x.saved /\ SameOut(x, s) /\ SameFlags(x, s)
      /\ S = {FilePacket("CHUNK_ACK", d, m.kind, AckIdx(m), 0)}
      /\ UNCHANGED <<local, synced>>

TakesFile(d, s, S) ==
  LET x == dev[d]  m == Msg(d)
  IN  /\ Joining(d, s, {"FILE_DONE"}) /\ Stores(d)
      /\ s.in = NoIn /\ s.saved = x.saved \cup {m.kind}
      /\ SameOut(x, s) /\ SameFlags(x, s)
      /\ S = {FilePacket("DONE_ACK", d, m.kind, AckIdx(m), 0)}
      /\ local' = IF m.kind \in MergeKinds /\ x.in.ver > local[d][m.kind]
                  THEN [local EXCEPT ![d][m.kind] = x.in.ver]
                  ELSE local

(* A packet about a file is only acknowledged again.                       *)
AcksAgain(d, s, S) ==
  LET x == dev[d]  m == Msg(d)
  IN  /\ Takes(d) /\ m.type \in {"FILE_META", "FILE_CHUNK", "FILE_DONE"}
      /\ \/ x.state = "SYNCED" /\ s = x
         \/ Joining(d, s, {"FILE_CHUNK"}) /\ IsLastChunk(x.in, m)
         \/ Joining(d, s, {"FILE_DONE"}) /\ m.kind \in x.saved
      /\ SameIn(x, s) /\ SameOut(x, s) /\ SameFlags(x, s)
      /\ S = {FilePacket(AckOf(m.type), d, m.kind, AckIdx(m), 0)}
      /\ UNCHANGED <<local, synced>>

(* The reader's own items change between two visits or after a sync.       *)
OwnNews(d, s, S) ==
  /\ s.state = dev[d].state /\ s.peer = dev[d].peer
  /\ \/ s.state = "OFF" /\ "Read" \in Env
     \/ s.state = "SYNCED" /\ "Unlock" \in Env /\ AwardKind # None
  /\ SameIn(dev[d], s) /\ SameOut(dev[d], s) /\ SameFlags(dev[d], s)
  /\ S = {} /\ UNCHANGED synced
  /\ \E own \in [Items -> Versions] :
       /\ local' = [local EXCEPT ![d] = own]
       /\ \A i \in Items : own[i] >= local[d][i]
       /\ s.state = "SYNCED" => \A i \in Items \ {AwardKind} : own[i] = local[d][i]

Effect(d, s, S) ==
  \/ Talks(d, s, S) \/ Fails(d, s, S) \/ Resets(d, s, S) \/ StoresTotals(d, s, S)
  \/ HearsAck(d, s, S) \/ BeginsFiles(d, s, S) \/ GoesOn(d, s, S)
  \/ RepeatsMeta(d, s, S) \/ SendsPiece(d, s, S) \/ TakesMeta(d, s, S)
  \/ TakesChunk(d, s, S) \/ TakesFile(d, s, S) \/ AcksAgain(d, s, S)
  \/ OwnNews(d, s, S)

Turns(d) == \E s, S : Turn(d, s, S) /\ Effect(d, s, S) /\ foreign' = foreign

-----------------------------------------------------------------------------
(* Every step of a reader is one of the effects.                           *)

(* The common part of the packets that are only answered or dropped.       *)
LEMMA QuietTalk ==
  ASSUME IdleInv, NEW d \in Device, NEW s, NEW S,
         MovesOn(d, s), SameIn(dev[d], s), SameOut(dev[d], s), SameFlags(dev[d], s),
         \A m \in S : /\ dev[d].state # "OFF"
                      /\ m \in {Plain("HELLO", d), Plain("NAME", d), Stats(d)},
         Turn(d, s, S), UNCHANGED <<local, synced, foreign>>
  PROVE  Turns(d)
<1>1. Talks(d, s, S)
  BY DEF Talks
<1>. QED  BY <1>1 DEF Turns, Effect

LEMMA LateTurns ==
  ASSUME IdleInv, NEW d \in Device,
         Ignore(d) \/ LateHello(d) \/ LateStats(d) \/ LateFile(d)
  PROVE  Turns(d)
<1>. DEFINE x == dev[d]
            m == Msg(d)
<1>1. TypeOK /\ x \in DeviceState /\ events[d] # <<>> /\ m \in Packet
  BY MsgType DEF IdleInv, TypeOK, Ignore, LateHello, LateStats, LateFile, Late, Receives
<1>2. UNCHANGED <<local, synced, foreign>>
  BY DEF Ignore, LateHello, LateStats, LateFile, Handled
<1>3. MovesOn(d, x) /\ SameIn(x, x) /\ SameOut(x, x) /\ SameFlags(x, x)
  BY DEF MovesOn, SameIn, SameOut, SameFlags
<1>4. CASE Ignore(d)
  <2>1. Turn(d, x, {})
    BY <1>1, <1>4, HandledSays DEF Ignore
  <2>. QED  BY <1>2, <1>3, <2>1, QuietTalk
<1>5. CASE LateHello(d)
  <2>. DEFINE s == [x EXCEPT !.statsSent = TRUE]
  <2>1. s \in DeviceState /\ SameIn(x, s) /\ SameOut(x, s) /\ SameFlags(x, s)
        /\ s.state = x.state /\ s.peer = x.peer
    BY <1>1 DEF DeviceState, SameIn, SameOut, SameFlags
  <2>2. Plain("NAME", d) \in Packet /\ Stats(d) \in Packet
    BY <1>1, PlainType, StatsType DEF PlainTypes
  <2>3. Handled(d, s, <<Plain("NAME", d), Stats(d)>>) /\ x.state = "SYNCED"
    BY <1>5 DEF LateHello, Late
  <2>4. MovesOn(d, s)
    BY <2>1 DEF MovesOn
  <2>. HIDE DEF s
  <2>5. Turn(d, s, {Plain("NAME", d), Stats(d)})
    BY <1>1, <2>1, <2>2, <2>3, HandledSays
  <2>. QED  BY <1>2, <2>1, <2>3, <2>4, <2>5, QuietTalk
<1>6. CASE LateStats(d)
  <2>1. Plain("ACK", d) \in Packet
    BY PlainType DEF PlainTypes
  <2>2. Turn(d, x, {Plain("ACK", d)}) /\ x.state = "SYNCED"
    BY <1>1, <1>6, <2>1, HandledSays DEF LateStats, Late
  <2>3. Talks(d, x, {Plain("ACK", d)})
    BY <1>2, <1>3, <2>2 DEF Talks
  <2>. QED  BY <1>2, <2>2, <2>3 DEF Turns, Effect
<1>7. CASE LateFile(d)
  <2>1. m.type \in {"FILE_META", "FILE_CHUNK", "FILE_DONE"} /\ x.state = "SYNCED"
    BY <1>7 DEF LateFile, Late, Receives
  <2>2. Handled(d, x, FileAck(d, m))
    BY <1>7 DEF LateFile
  <2>. DEFINE S == {FilePacket(AckOf(m.type), d, m.kind, AckIdx(m), 0)}
  <2>4. Turn(d, x, S) /\ Takes(d)
    BY <1>1, <2>1, <2>2, AckSays
  <2>5. AcksAgain(d, x, S)
    BY <1>2, <1>3, <2>1, <2>4 DEF AcksAgain
  <2>. QED  BY <1>2, <2>4, <2>5 DEF Turns, Effect
<1>. QED  BY <1>4, <1>5, <1>6, <1>7

LEMMA NameTurns ==
  ASSUME IdleInv, NEW d \in Device, RecvName(d)
  PROVE  Turns(d)
<1>. DEFINE x == dev[d]
            m == Msg(d)
            u == [x EXCEPT !.peer = m.from]
            v == [u EXCEPT !.state = "SYNCING", !.statsSent = TRUE]
<1>1. /\ TypeOK /\ x \in DeviceState /\ events[d] # <<>> /\ m.from \in Device
      /\ x.state \in Joinable /\ UNCHANGED <<local, synced, foreign>>
  BY MsgType, AnyMsgType DEF IdleInv, TypeOK, RecvName, Receives, Handled
<1>2. /\ u \in DeviceState /\ v \in DeviceState
      /\ SameIn(x, u) /\ SameOut(x, u) /\ SameFlags(x, u)
      /\ SameIn(x, v) /\ SameOut(x, v) /\ SameFlags(x, v)
      /\ u.state = x.state /\ v.state = "SYNCING" /\ u.peer = m.from /\ v.peer = m.from
  BY <1>1 DEF DeviceState, States, SameIn, SameOut, SameFlags
<1>3. SameIn(x, x) /\ SameOut(x, x) /\ SameFlags(x, x)
  BY DEF SameIn, SameOut, SameFlags
<1>4. \/ Handled(d, x, <<>>)
      \/ Handled(d, u, <<>>)
      \/ Handled(d, v, <<Stats(d)>>)
  BY DEF RecvName
<1>. HIDE DEF u, v
<1>5. MovesOn(d, x) /\ MovesOn(d, u) /\ MovesOn(d, v)
  BY <1>1, <1>2 DEF MovesOn, Early, Joinable
<1>6. Stats(d) \in Packet
  BY <1>1, StatsType
<1>7. Turn(d, x, {}) \/ Turn(d, u, {}) \/ Turn(d, v, {Stats(d)})
  BY <1>1, <1>2, <1>4, <1>6, HandledSays
<1>8. x.state # "OFF"
  BY <1>1 DEF Joinable
<1>. QED  BY <1>1, <1>2, <1>3, <1>5, <1>7, <1>8, QuietTalk

(* What every packet that is handled by Joined(d) has in common.           *)
LEMMA JoinsFacts ==
  ASSUME IdleInv, NEW d \in Device, NEW types, Joins(d, types)
  PROVE  /\ TypeOK /\ dev[d] \in DeviceState /\ events[d] # <<>>
         /\ Msg(d) \in Packet /\ Msg(d).from \in Device /\ Msg(d).ver \in Versions
         /\ Msg(d).type \in types /\ dev[d].state \in Joinable
BY MsgType, AnyMsgType DEF IdleInv, TypeOK, Joins, Receives

LEMMA JoinsOn ==
  ASSUME NEW d \in Device, NEW s, events[d] # <<>>, dev[d].state \in Joinable,
         s.state = "SYNCING", s.peer = Msg(d).from
  PROVE  MovesOn(d, s) /\ dev[d].state # "OFF"
BY DEF MovesOn, Joinable, Early

LEMMA HelloTurns ==
  ASSUME IdleInv, NEW d \in Device, RecvHello(d) \/ RecvInvalidStats(d)
  PROVE  Turns(d)
<1>. DEFINE x == dev[d]
            m == Msg(d)
            j == Joined(d)
<1>1. /\ TypeOK /\ x \in DeviceState /\ events[d] # <<>> /\ m \in Packet
      /\ x.state \in Joinable /\ UNCHANGED <<local, synced, foreign>>
  BY JoinsFacts DEF RecvHello, RecvInvalidStats, Handled
<1>2. /\ j \in DeviceState /\ j.state = "SYNCING" /\ j.peer = m.from
      /\ j.in = x.in /\ j.out = x.out /\ j.saved = x.saved
      /\ j.totalsSaved = x.totalsSaved /\ j.statsAcked = x.statsAcked
      /\ j.filesSent = x.filesSent
  BY <1>1, JoinedFields
<1>3. CASE RecvHello(d)
  <2>. DEFINE s == [j EXCEPT !.statsSent = TRUE]
  <2>1. Handled(d, s, <<Plain("NAME", d), Stats(d)>>)
    BY <1>3 DEF RecvHello
  <2>. HIDE DEF j
  <2>2. /\ s \in DeviceState /\ SameIn(x, s) /\ SameOut(x, s) /\ SameFlags(x, s)
        /\ s.state = "SYNCING" /\ s.peer = m.from
    BY <1>2 DEF DeviceState, SameIn, SameOut, SameFlags
  <2>3. Plain("NAME", d) \in Packet /\ Stats(d) \in Packet
    BY <1>1, PlainType, StatsType DEF PlainTypes
  <2>. HIDE DEF s
  <2>4. Turn(d, s, {Plain("NAME", d), Stats(d)})
    BY <1>1, <2>1, <2>2, <2>3, HandledSays
  <2>5. MovesOn(d, s) /\ x.state # "OFF"
    BY <1>1, <2>2, JoinsOn
  <2>. QED  BY <1>1, <2>2, <2>4, <2>5, QuietTalk
<1>4. CASE RecvInvalidStats(d)
  <2>. DEFINE s == Failed(j)
  <2>1. Handled(d, s, <<>>) /\ m.type = "STATS" /\ ~Parses(m)
    BY <1>4 DEF RecvInvalidStats, Joins, Receives
  <2>. HIDE DEF j
  <2>2. s \in DeviceState
    BY <1>2, FailedType
  <2>3. /\ SameIn(x, s) /\ SameFlags(x, s) /\ s.state = "ERROR"
        /\ s.out = [x.out EXCEPT !.open = FALSE] /\ s.filesSent = x.filesSent
    BY <1>2 DEF Failed, DeviceState, SameIn, SameFlags
  <2>. HIDE DEF s
  <2>4. Turn(d, s, {})
    BY <1>1, <2>1, <2>2, HandledSays
  <2>5. Fails(d, s, {})
    BY <1>1, <2>1, <2>3 DEF Fails, Joinable
  <2>. QED  BY <1>1, <2>4, <2>5 DEF Turns, Effect
<1>. QED  BY <1>3, <1>4

LEMMA StatsTurns ==
  ASSUME IdleInv, NEW d \in Device, RecvStats(d)
  PROVE  Turns(d)
<1>. DEFINE x == dev[d]
            m == Msg(d)
            j == Joined(d)
            reply == ~j.statsSent \/ ~j.statsAcked
            s == [j EXCEPT !.totalsSaved = TRUE, !.statsSent = @ \/ reply]
            pkts == IF reply THEN <<Plain("ACK", d), Stats(d)>> ELSE <<Plain("ACK", d)>>
<1>1. /\ TypeOK /\ x \in DeviceState /\ events[d] # <<>> /\ m \in Packet
      /\ x.state \in Joinable /\ m.type = "STATS"
  BY JoinsFacts DEF RecvStats
<1>2. /\ j \in DeviceState /\ j.state = "SYNCING" /\ j.peer = m.from
      /\ j.in = x.in /\ j.out = x.out /\ j.saved = x.saved
      /\ j.totalsSaved = x.totalsSaved /\ j.statsAcked = x.statsAcked
      /\ j.filesSent = x.filesSent
  BY <1>1, JoinedFields
<1>3. /\ Handled(d, s, pkts) /\ synced' = SavedTotals(d, j) /\ UNCHANGED <<local, foreign>>
      /\ Parses(m)
  BY DEF RecvStats, Handled
<1>4. synced' = IF x.totalsSaved THEN synced
                ELSE [synced EXCEPT ![d][m.from][Totals] = Snapshot(m.from, Totals, m.ver)]
  <2>. HIDE DEF j
  <2>. QED  BY <1>2, <1>3 DEF SavedTotals
<1>5. /\ s \in DeviceState /\ SameIn(x, s) /\ SameOut(x, s)
      /\ s.totalsSaved /\ s.statsAcked = x.statsAcked
      /\ s.state = "SYNCING" /\ s.peer = m.from
  <2>1. (j.statsSent \/ reply) \in BOOLEAN
    BY Zenon
  <2>. HIDE DEF j, reply
  <2>. QED  BY <1>2, <2>1 DEF DeviceState, SameIn, SameOut
<1>6. Plain("ACK", d) \in Packet /\ Stats(d) \in Packet
  BY <1>1, PlainType, StatsType DEF PlainTypes
<1>7. Handled(d, s, <<Plain("ACK", d), Stats(d)>>) \/ Handled(d, s, <<Plain("ACK", d)>>)
  BY <1>3
<1>. HIDE DEF s, j
<1>8. /\ Turn(d, s, {Plain("ACK", d), Stats(d)}) \/ Turn(d, s, {Plain("ACK", d)})
      /\ Takes(d)
  BY <1>1, <1>5, <1>6, <1>7, HandledSays
<1>9. Joining(d, s, {"STATS"})
  BY <1>1, <1>5, <1>8 DEF Joining
<1>10. \A S \in {{Plain("ACK", d), Stats(d)}, {Plain("ACK", d)}} : StoresTotals(d, s, S)
  BY <1>3, <1>4, <1>5, <1>9 DEF StoresTotals
<1>. QED  BY <1>3, <1>8, <1>10 DEF Turns, Effect

(* The announcement of the next file.                                      *)
LEMMA NextFileSays ==
  ASSUME TypeOK, NEW d \in Device, NEW s \in DeviceState, NEW x,
         x = dev[d], s.out = x.out, s.filesSent = x.filesSent,
         NEW t \in BeginNextFile(d, s)
  PROVE  /\ t \in DeviceState /\ Announce(d, t) \in Seq(Packet)
         /\ NextFile(d, t, PacketsIn(Announce(d, t)))
         /\ t.in = s.in /\ t.saved = s.saved /\ t.totalsSaved = s.totalsSaved
         /\ t.statsAcked = s.statsAcked /\ t.state = s.state /\ t.peer = s.peer
<1>. DEFINE k == KindAfter(s.out.kind)
            o(n) == [NoOut EXCEPT !.kind = k, !.ver = local[d][k], !.size = n]
<1>1. t \in DeviceState /\ Announce(d, t) \in Seq(Packet)
  BY BeginNextFileType, AnnounceType
<1>2. k \in Kinds \cup {None} /\ None \notin Kinds
  BY KindAfterType, SyncConstants DEF DeviceState, OutTransfer
<1>3. /\ \A n : o(n).kind = k /\ o(n).ver = local[d][k] /\ o(n).size = n
      /\ NoOut.kind = None
  BY DEF NoOut
<1>. HIDE DEF k
<1>4. CASE k = None
  <2>1. t = [s EXCEPT !.out = NoOut, !.filesSent = TRUE]
    BY <1>4 DEF BeginNextFile, k
  <2>2. /\ t.out = NoOut /\ t.filesSent /\ t.in = s.in /\ t.saved = s.saved
        /\ t.totalsSaved = s.totalsSaved /\ t.statsAcked = s.statsAcked
        /\ t.state = s.state /\ t.peer = s.peer
    BY <2>1 DEF DeviceState
  <2>3. Announce(d, t) = <<>>
    BY <1>3, <2>2 DEF Announce
  <2>4. PacketsIn(Announce(d, t)) = {}
    BY <2>3, NoPackets
  <2>5. NextFile(d, t, PacketsIn(Announce(d, t)))
    BY <1>4, <2>2, <2>4 DEF NextFile, k
  <2>. QED  BY <1>1, <2>2, <2>5
<1>5. CASE k # None
  <2>1. PICK n \in AnnouncedSizes(k) : t = [s EXCEPT !.out = o(n)]
    BY <1>5 DEF BeginNextFile, k
  <2>. HIDE DEF o
  <2>2. /\ t.out = o(n) /\ t.filesSent = s.filesSent /\ t.in = s.in
        /\ t.saved = s.saved
        /\ t.totalsSaved = s.totalsSaved /\ t.statsAcked = s.statsAcked
        /\ t.state = s.state /\ t.peer = s.peer
    BY <2>1 DEF DeviceState
  <2>. DEFINE p == FilePacket("FILE_META", d, k, n, local[d][k])
  <2>3. Announce(d, t) = <<p>>
    BY <1>3, <1>5, <2>2 DEF Announce
  <2>4. k \in Kinds /\ local[d][k] \in Versions
    BY <1>2, <1>5 DEF TypeOK, Items
  <2>5. p \in Packet
    <3>1. n \in Nat
      BY <2>1, <2>4, SyncConstants DEF AnnouncedSizes
    <3>. QED  BY <2>4, <3>1, FilePacketType DEF FileTypes
  <2>. HIDE DEF p
  <2>6. PacketsIn(Announce(d, t)) = {p}
    BY <2>3, <2>5, OnePacket
  <2>7. NextFile(d, t, PacketsIn(Announce(d, t)))
    BY <1>5, <2>1, <2>2, <2>6 DEF NextFile, k, o, p
  <2>. QED  BY <1>1, <2>2, <2>7
<1>. QED  BY <1>4, <1>5

LEMMA AckTurns ==
  ASSUME IdleInv, NEW d \in Device, RecvAck(d)
  PROVE  Turns(d)
<1>. DEFINE x == dev[d]
            m == Msg(d)
            j == Joined(d)
            u == [j EXCEPT !.statsAcked = TRUE]
            begins == u.totalsSaved /\ ~u.filesSent /\ u.out.kind = None
<1>1. /\ TypeOK /\ x \in DeviceState /\ events[d] # <<>> /\ m \in Packet
      /\ x.state \in Joinable /\ m.type = "ACK"
  BY JoinsFacts DEF RecvAck
<1>2. /\ j \in DeviceState /\ j.state = "SYNCING" /\ j.peer = m.from
      /\ j.in = x.in /\ j.out = x.out /\ j.saved = x.saved
      /\ j.totalsSaved = x.totalsSaved /\ j.statsAcked = x.statsAcked
      /\ j.filesSent = x.filesSent
  BY <1>1, JoinedFields
<1>3. /\ IF begins
         THEN \E t \in BeginNextFile(d, u) : Handled(d, t, Announce(d, t))
         ELSE Handled(d, u, <<>>)
      /\ UNCHANGED <<local, synced, foreign>>
  BY DEF RecvAck, Handled
<1>. HIDE DEF j
<1>4. /\ u \in DeviceState /\ u.state = "SYNCING" /\ u.peer = m.from
      /\ u.in = x.in /\ u.out = x.out /\ u.saved = x.saved
      /\ u.totalsSaved = x.totalsSaved /\ u.statsAcked /\ u.filesSent = x.filesSent
  BY <1>2 DEF DeviceState
<1>. HIDE DEF u
<1>5. CASE begins
  <2>0. PICK t \in BeginNextFile(d, u) : Handled(d, t, Announce(d, t))
    BY <1>3, <1>5
  <2>1. /\ t \in DeviceState /\ Announce(d, t) \in Seq(Packet)
        /\ NextFile(d, t, PacketsIn(Announce(d, t)))
        /\ t.in = u.in /\ t.saved = u.saved /\ t.totalsSaved = u.totalsSaved
        /\ t.statsAcked = u.statsAcked /\ t.state = u.state /\ t.peer = u.peer
    BY <1>1, <1>4, NextFileSays
  <2>2. Turn(d, t, PacketsIn(Announce(d, t))) /\ Takes(d)
    BY <1>1, <2>0, <2>1, HandledTurn
  <2>3. Joining(d, t, {"ACK"})
    BY <1>1, <1>4, <2>1, <2>2 DEF Joining
  <2>4. BeginsFiles(d, t, PacketsIn(Announce(d, t)))
    BY <1>3, <1>4, <1>5, <2>1, <2>3 DEF BeginsFiles, SameIn
  <2>. QED  BY <1>3, <2>2, <2>4 DEF Turns, Effect
<1>6. CASE ~begins
  <2>1. Handled(d, u, <<>>)
    BY <1>3, <1>6
  <2>2. Turn(d, u, {}) /\ Takes(d)
    BY <1>1, <1>4, <2>1, HandledSays
  <2>3. HearsAck(d, u, {})
    BY <1>1, <1>3, <1>4, <2>2 DEF HearsAck, Joining, SameIn, SameOut
  <2>. QED  BY <1>3, <2>2, <2>3 DEF Turns, Effect
<1>. QED  BY <1>5, <1>6

LEMMA MetaTurns ==
  ASSUME IdleInv, NEW d \in Device, RecvMeta(d)
  PROVE  Turns(d)
<1>. DEFINE x == dev[d]
            m == Msg(d)
            j == Joined(d)
            r == Incoming(m)
            s == IF SameTransfer(j.in, m) THEN j ELSE [j EXCEPT !.in = r]
            S == {FilePacket("META_ACK", d, m.kind, AckIdx(m), 0)}
<1>1. /\ TypeOK /\ x \in DeviceState /\ events[d] # <<>> /\ m \in Packet
      /\ x.state \in Joinable /\ m.type = "FILE_META"
  BY JoinsFacts DEF RecvMeta
<1>2. /\ j \in DeviceState /\ j.state = "SYNCING" /\ j.peer = m.from
      /\ j.in = x.in /\ j.out = x.out /\ j.saved = x.saved
      /\ j.totalsSaved = x.totalsSaved /\ j.statsAcked = x.statsAcked
      /\ j.filesSent = x.filesSent
  BY <1>1, JoinedFields
<1>3. Handled(d, s, FileAck(d, m)) /\ UNCHANGED <<local, synced, foreign>>
  BY DEF RecvMeta, Handled
<1>4. r \in InTransfer
  BY <1>1, FileMsgType DEF InTransfer, FileTypes, Incoming
<1>. HIDE DEF j, r
<1>5. /\ s \in DeviceState /\ s.state = "SYNCING" /\ s.peer = m.from
      /\ s.saved = x.saved /\ s.in = IF SameTransfer(x.in, m) THEN x.in ELSE r
      /\ SameOut(x, s) /\ SameFlags(x, s)
  BY <1>2, <1>4 DEF DeviceState, SameOut, SameFlags
<1>. HIDE DEF s
<1>6. Turn(d, s, {FilePacket(AckOf(m.type), d, m.kind, AckIdx(m), 0)}) /\ Takes(d)
  BY <1>1, <1>3, <1>5, AckSays
<1>7. Turn(d, s, S)
  BY <1>1, <1>6 DEF AckOf
<1>8. TakesMeta(d, s, S)
  BY <1>1, <1>3, <1>5, <1>6 DEF TakesMeta, Joining, r
<1>. QED  BY <1>3, <1>7, <1>8 DEF Turns, Effect

LEMMA Appended ==
  ASSUME NEW r \in InTransfer, NEW p \in Piece
  PROVE  [r EXCEPT !.data = Append(@, p)] \in InTransfer
<1>1. r.data \in Seq(Piece)
  BY DEF InTransfer
<1>2. Append(r.data, p) \in Seq(Piece)
  BY <1>1
<1>. QED  BY <1>2 DEF InTransfer

LEMMA ChunkTurns ==
  ASSUME IdleInv, NEW d \in Device, RecvChunk(d)
  PROVE  Turns(d)
<1>. DEFINE x == dev[d]
            m == Msg(d)
            j == Joined(d)
            with(i) == [j EXCEPT !.in.data = Append(@, PieceOf(m.from, m.ver, i))]
            S == {FilePacket("CHUNK_ACK", d, m.kind, AckIdx(m), 0)}
<1>1. /\ TypeOK /\ x \in DeviceState /\ events[d] # <<>> /\ m \in Packet
      /\ x.state \in Joinable /\ m.type = "FILE_CHUNK"
  BY JoinsFacts DEF RecvChunk
<1>2. /\ j \in DeviceState /\ j.state = "SYNCING" /\ j.peer = m.from
      /\ j.in = x.in /\ j.out = x.out /\ j.saved = x.saved
      /\ j.totalsSaved = x.totalsSaved /\ j.statsAcked = x.statsAcked
      /\ j.filesSent = x.filesSent
  BY <1>1, JoinedFields
<1>3. UNCHANGED <<local, synced, foreign>>
  BY DEF RecvChunk, Handled
<1>4. \/ /\ IsNextChunk(j.in, m)
         /\ \E i \in {m.idx, m.idx + 1} :
              (i # m.idx => "BadWrite" \in Env) /\ Handled(d, with(i), FileAck(d, m))
      \/ IsLastChunk(j.in, m) /\ Handled(d, j, FileAck(d, m))
      \/ Handled(d, j, <<>>)
  BY DEF RecvChunk
<1>5. m.idx \in Nat /\ m.from \in Device /\ m.ver \in Versions
  BY <1>1, FileMsgType DEF FileTypes
<1>6. SameIn(x, j) /\ SameOut(x, j) /\ SameFlags(x, j) /\ MovesOn(d, j) /\ x.state # "OFF"
  BY <1>1, <1>2, JoinsOn DEF SameIn, SameOut, SameFlags
<1>. HIDE DEF j
<1>7. ASSUME NEW i \in {m.idx, m.idx + 1}, IsNextChunk(j.in, m),
             i # m.idx => "BadWrite" \in Env, Handled(d, with(i), FileAck(d, m))
      PROVE  Turns(d)
  <2>. DEFINE s == with(i)
              p == PieceOf(m.from, m.ver, i)
  <2>1. p \in Piece
    BY <1>5 DEF PieceOf, Piece
  <2>2. j.in \in InTransfer
    BY <1>2 DEF DeviceState
  <2>. HIDE DEF p
  <2>3. [j.in EXCEPT !.data = Append(@, p)] \in InTransfer
    BY <2>1, <2>2, Appended
  <2>4. /\ [j EXCEPT !.in.data = Append(@, p)] \in DeviceState
        /\ [j EXCEPT !.in.data = Append(@, p)].in = [j.in EXCEPT !.data = Append(@, p)]
    BY <1>2, <2>3 DEF DeviceState
  <2>5. /\ s \in DeviceState /\ s.state = "SYNCING" /\ s.peer = m.from
        /\ s.in = [x.in EXCEPT !.data = Append(@, p)]
        /\ s.saved = x.saved /\ SameOut(x, s) /\ SameFlags(x, s)
    BY <1>2, <2>4 DEF DeviceState, SameOut, SameFlags, p
  <2>. HIDE DEF s
  <2>6. Turn(d, s, {FilePacket(AckOf(m.type), d, m.kind, AckIdx(m), 0)}) /\ Takes(d)
    BY <1>1, <1>7, <2>5, AckSays DEF s
  <2>7. Turn(d, s, S)
    BY <1>1, <2>6 DEF AckOf
  <2>8. TakesChunk(d, s, S)
    BY <1>1, <1>2, <1>3, <1>7, <2>5, <2>6 DEF TakesChunk, Joining, p
  <2>. QED  BY <1>3, <2>7, <2>8 DEF Turns, Effect
<1>8. CASE IsLastChunk(j.in, m) /\ Handled(d, j, FileAck(d, m))
  <2>. DEFINE A == {FilePacket(AckOf(m.type), d, m.kind, AckIdx(m), 0)}
  <2>1. Turn(d, j, A) /\ Takes(d)
    BY <1>1, <1>2, <1>8, AckSays
  <2>2. AcksAgain(d, j, A)
    BY <1>1, <1>2, <1>3, <1>6, <1>8, <2>1 DEF AcksAgain, Joining
  <2>. QED  BY <1>3, <2>1, <2>2 DEF Turns, Effect
<1>9. CASE Handled(d, j, <<>>)
  <2>1. Turn(d, j, {})
    BY <1>1, <1>2, <1>9, HandledSays
  <2>. QED  BY <1>3, <1>6, <2>1, QuietTalk
<1>. HIDE DEF with
<1>. QED  BY <1>4, <1>7, <1>8, <1>9

(* A finished file is the one that was being received before the packet.   *)
LEMMA FinishingFacts ==
  ASSUME IdleInv, NEW d \in Device, Finishing(d)
  PROVE  /\ Joins(d, {"FILE_DONE"}) /\ events[d] # <<>> /\ Msg(d).type = "FILE_DONE"
         /\ Joined(d).in = dev[d].in /\ dev[d].in.kind = Msg(d).kind
         /\ Verified(Joined(d).in) => Completed(d)
         /\ synced' = Promoted(d) /\ Completed(d) => Stores(d)
         /\ Merged(d) = IF Msg(d).kind \in MergeKinds
                           /\ dev[d].in.ver > local[d][Msg(d).kind]
                        THEN [local EXCEPT ![d][Msg(d).kind] = dev[d].in.ver]
                        ELSE local
<1>1. Joins(d, {"FILE_DONE"}) /\ events[d] # <<>> /\ Msg(d).type = "FILE_DONE"
  BY JoinsFacts DEF Finishing
<1>2. Joined(d).in = dev[d].in
  BY <1>1, JoinedFields
<1>3. dev[d].in.kind = Msg(d).kind
  BY <1>2 DEF Finishing
<1>. QED  BY <1>1, <1>2, <1>3 DEF Completed, Stores, Promoted, Merged

LEMMA DoneTurns ==
  ASSUME IdleInv, NEW d \in Device,
         RecvDone(d) \/ RecvBadDone(d) \/ RecvStrayDone(d)
  PROVE  Turns(d)
<1>. DEFINE x == dev[d]
            m == Msg(d)
            j == Joined(d)
            A == {FilePacket(AckOf(m.type), d, m.kind, AckIdx(m), 0)}
<1>1. /\ TypeOK /\ x \in DeviceState /\ events[d] # <<>> /\ m \in Packet
      /\ x.state \in Joinable /\ m.type = "FILE_DONE"
  BY JoinsFacts DEF RecvDone, RecvBadDone, RecvStrayDone, Finishing
<1>2. /\ j \in DeviceState /\ j.state = "SYNCING" /\ j.peer = m.from
      /\ j.in = x.in /\ j.out = x.out /\ j.saved = x.saved
      /\ j.totalsSaved = x.totalsSaved /\ j.statsAcked = x.statsAcked
      /\ j.filesSent = x.filesSent
  BY <1>1, JoinedFields
<1>3. m.kind \in Kinds
  BY <1>1, FileMsgType DEF FileTypes
<1>4. CASE RecvDone(d)
  <2>. DEFINE s == [j EXCEPT !.saved = @ \cup {m.kind}, !.in = NoIn]
  <2>1. Finishing(d) /\ Verified(j.in) /\ Handled(d, s, FileAck(d, m))
        /\ synced' = Promoted(d) /\ local' = Merged(d)
    BY <1>4 DEF RecvDone
  <2>. HIDE DEF j
  <2>2. /\ s \in DeviceState /\ s.state = "SYNCING" /\ s.peer = m.from
        /\ s.in = NoIn /\ s.saved = x.saved \cup {m.kind}
        /\ SameOut(x, s) /\ SameFlags(x, s)
    <3>1. NoIn \in InTransfer
      BY ZeroIsAVersion DEF NoIn, InTransfer
    <3>. QED  BY <1>2, <1>3, <3>1 DEF DeviceState, SameOut, SameFlags
  <2>. HIDE DEF s
  <2>3. Turn(d, s, A) /\ Takes(d)
    BY <1>1, <2>1, <2>2, AckSays
  <2>4. Stores(d) /\ Merged(d) = IF m.kind \in MergeKinds /\ x.in.ver > local[d][m.kind]
                                 THEN [local EXCEPT ![d][m.kind] = x.in.ver]
                                 ELSE local
    BY <2>1, FinishingFacts DEF j
  <2>5. A = {FilePacket("DONE_ACK", d, m.kind, AckIdx(m), 0)}
    BY <1>1 DEF AckOf
  <2>. HIDE DEF A
  <2>6. TakesFile(d, s, A)
    BY <1>1, <2>1, <2>2, <2>3, <2>4, <2>5 DEF TakesFile, Joining
  <2>7. foreign' = foreign
    BY <2>1 DEF Handled
  <2>. QED  BY <2>3, <2>6, <2>7 DEF Turns, Effect
<1>5. CASE RecvBadDone(d)
  <2>. DEFINE s == Failed(j)
  <2>1. /\ Handled(d, s, <<>>) /\ Finishing(d) /\ ~Verified(j.in)
        /\ UNCHANGED <<local, synced, foreign>>
    BY <1>5 DEF RecvBadDone, Handled
  <2>2. x.in.kind = m.kind
    BY <2>1, FinishingFacts
  <2>. HIDE DEF j
  <2>3. s \in DeviceState
    BY <1>2, FailedType
  <2>4. /\ SameIn(x, s) /\ SameFlags(x, s) /\ s.state = "ERROR"
        /\ s.out = [x.out EXCEPT !.open = FALSE] /\ s.filesSent = x.filesSent
    BY <1>2 DEF Failed, DeviceState, SameIn, SameFlags
  <2>. HIDE DEF s
  <2>5. Turn(d, s, {})
    BY <1>1, <2>1, <2>3, HandledSays
  <2>6. Fails(d, s, {})
    BY <1>1, <1>2, <2>1, <2>2, <2>4 DEF Fails, Joinable
  <2>. QED  BY <2>1, <2>5, <2>6 DEF Turns, Effect
<1>6. CASE RecvStrayDone(d)
  <2>1. /\ UNCHANGED <<local, synced, foreign>>
        /\ \/ m.kind \in j.saved /\ Handled(d, j, FileAck(d, m))
           \/ Handled(d, j, <<>>)
    BY <1>6 DEF RecvStrayDone, Handled
  <2>2. SameIn(x, j) /\ SameOut(x, j) /\ SameFlags(x, j) /\ MovesOn(d, j) /\ x.state # "OFF"
    BY <1>1, <1>2, JoinsOn DEF SameIn, SameOut, SameFlags
  <2>. HIDE DEF j
  <2>3. CASE m.kind \in j.saved /\ Handled(d, j, FileAck(d, m))
    <3>1. Turn(d, j, A) /\ Takes(d)
      BY <1>1, <1>2, <2>3, AckSays
    <3>2. AcksAgain(d, j, A)
      BY <1>1, <1>2, <2>1, <2>2, <2>3, <3>1 DEF AcksAgain, Joining
    <3>. QED  BY <2>1, <3>1, <3>2 DEF Turns, Effect
  <2>4. CASE Handled(d, j, <<>>)
    <3>1. Turn(d, j, {})
      BY <1>1, <1>2, <2>4, HandledSays
    <3>. QED  BY <2>1, <2>2, <3>1, QuietTalk
  <2>. QED  BY <2>1, <2>3, <2>4
<1>. QED  BY <1>4, <1>5, <1>6

(* Sending, or resending, one piece of the file under way.                 *)
LEMMA PieceSays ==
  ASSUME TypeOK, NEW d \in Device, NEW s \in DeviceState, s.out.kind \in Kinds
  PROVE  LET t == PieceSent(d, s)  k == s.out.kind  S == PacketsIn(PiecePacket(d, s))
         IN  /\ t \in DeviceState /\ PiecePacket(d, s) \in Seq(Packet)
             /\ t.in = s.in /\ t.saved = s.saved /\ t.totalsSaved = s.totalsSaved
             /\ t.statsAcked = s.statsAcked /\ t.state = s.state /\ t.peer = s.peer
             /\ t.filesSent = s.filesSent /\ t.out.kind = k /\ t.out.ver = s.out.ver
             /\ t.out.size = s.out.size
             /\ t.out.metaAcked = s.out.metaAcked /\ t.out.chunk = s.out.chunk
             /\ s.out.chunk >= s.out.size =>
                  /\ t.out.doneSent /\ t.out.open = s.out.open
                  /\ t.out.handle = s.out.handle
                  /\ S = {FilePacket("FILE_DONE", d, k, 0, 0)}
             /\ s.out.chunk < s.out.size =>
                  /\ t.out.doneSent = s.out.doneSent
                  /\ s.out.metaAcked =>
                       /\ t.out.open
                       /\ t.out.handle = IF s.out.open THEN s.out.handle
                                         ELSE local[d][k]
                       /\ S = {FilePacket("FILE_CHUNK", d, k, s.out.chunk, t.out.handle)}
                  /\ ~s.out.metaAcked =>
                       /\ t.out.open = s.out.open /\ t.out.handle = s.out.handle
                       /\ S = {}
<1>. DEFINE t == PieceSent(d, s)
            k == s.out.kind
            P == PiecePacket(d, s)
<1>1. t \in DeviceState /\ P \in Seq(Packet)
  BY PieceSentType, PiecePacketType
<1>2. /\ s.out \in OutTransfer /\ s.out.chunk \in Nat /\ s.out.size \in Nat
      /\ local[d][k] \in Versions /\ s.out.metaAcked \in BOOLEAN
      /\ s.out.open \in BOOLEAN
  <2>1. s.out \in OutTransfer
    BY DEF DeviceState
  <2>2. /\ s.out.chunk \in Nat /\ s.out.metaAcked \in BOOLEAN
        /\ s.out.open \in BOOLEAN /\ s.out.size \in Nat
    BY <2>1 DEF OutTransfer
  <2>4. local[d][k] \in Versions
    BY DEF TypeOK, Items
  <2>. QED  BY <2>1, <2>2, <2>4
<1>3. /\ t.in = s.in /\ t.saved = s.saved /\ t.totalsSaved = s.totalsSaved
      /\ t.statsAcked = s.statsAcked /\ t.state = s.state /\ t.peer = s.peer
      /\ t.filesSent = s.filesSent /\ t.out.kind = k /\ t.out.ver = s.out.ver
      /\ t.out.size = s.out.size
      /\ t.out.metaAcked = s.out.metaAcked /\ t.out.chunk = s.out.chunk
  BY <1>2 DEF PieceSent, DeviceState, OutTransfer
<1>4. s.out.chunk >= s.out.size =>
        t.out.doneSent /\ t.out.open = s.out.open /\ t.out.handle = s.out.handle
  BY <1>2 DEF PieceSent, DeviceState, OutTransfer
<1>5. s.out.chunk < s.out.size => t.out.doneSent = s.out.doneSent
  <2>. SUFFICES ASSUME s.out.chunk < s.out.size PROVE t.out.doneSent = s.out.doneSent
    OBVIOUS
  <2>1. CASE s.out.metaAcked /\ ~s.out.open
    <3>1. t = [s EXCEPT !.out.open = TRUE, !.out.handle = local[d][k]]
      BY <1>2, <2>1 DEF PieceSent
    <3>. HIDE DEF t
    <3>. QED  BY <1>2, <3>1 DEF DeviceState, OutTransfer
  <2>2. CASE ~(s.out.metaAcked /\ ~s.out.open)
    <3>1. t = s
      BY <1>2, <2>2 DEF PieceSent
    <3>. QED  BY <3>1
  <2>. QED  BY <2>1, <2>2
<1>6. s.out.chunk < s.out.size /\ s.out.metaAcked =>
        /\ t.out.open
        /\ t.out.handle = IF s.out.open THEN s.out.handle ELSE local[d][k]
  BY <1>2 DEF PieceSent, DeviceState, OutTransfer
<1>7. s.out.chunk < s.out.size /\ ~s.out.metaAcked =>
        t.out.open = s.out.open /\ t.out.handle = s.out.handle
  BY <1>2 DEF PieceSent, DeviceState, OutTransfer
<1>8. /\ t.out \in OutTransfer
      /\ P = IF t.out.chunk >= t.out.size
             THEN <<FilePacket("FILE_DONE", d, t.out.kind, 0, 0)>>
             ELSE IF t.out.metaAcked
                  THEN <<FilePacket("FILE_CHUNK", d, t.out.kind, t.out.chunk,
                                    t.out.handle)>>
                  ELSE <<>>
  BY <1>1 DEF PiecePacket, DeviceState
<1>. HIDE DEF t, P
<1>9. s.out.chunk >= s.out.size => PacketsIn(P) = {FilePacket("FILE_DONE", d, k, 0, 0)}
  <2>1. FilePacket("FILE_DONE", d, k, 0, 0) \in Packet
    BY FilePacketType, ZeroIsAVersion DEF FileTypes
  <2>. QED  BY <1>3, <1>8, <2>1, OnePacket
<1>10. s.out.chunk < s.out.size /\ s.out.metaAcked =>
         PacketsIn(P) = {FilePacket("FILE_CHUNK", d, k, s.out.chunk, t.out.handle)}
  <2>1. t.out.handle \in Versions
    BY <1>8 DEF OutTransfer
  <2>2. FilePacket("FILE_CHUNK", d, k, s.out.chunk, t.out.handle) \in Packet
    BY <1>2, <2>1, FilePacketType DEF FileTypes
  <2>3. s.out.chunk < s.out.size => ~(t.out.chunk >= t.out.size)
    BY <1>2, <1>3
  <2>. QED  BY <1>3, <1>8, <2>2, <2>3, OnePacket
<1>11. s.out.chunk < s.out.size /\ ~s.out.metaAcked => PacketsIn(P) = {}
  <2>1. s.out.chunk < s.out.size => ~(t.out.chunk >= t.out.size)
    BY <1>2, <1>3
  <2>. QED  BY <1>3, <1>8, <2>1, NoPackets
<1>. QED
  BY <1>1, <1>3, <1>4, <1>5, <1>6, <1>7, <1>9, <1>10, <1>11 DEF t, P

(* u is the memory with which d comes to sending a piece.                  *)
LEMMA PieceTurns ==
  ASSUME IdleInv, NEW d \in Device, NEW u \in DeviceState, u.out.kind \in Kinds,
         SameIn(dev[d], u), SameFlags(dev[d], u), u.filesSent = dev[d].filesSent,
         u.out = [dev[d].out EXCEPT !.metaAcked = u.out.metaAcked,
                                    !.chunk = u.out.chunk],
         Resends(d, u) \/ MetaAcked(d, u) \/ ChunkAcked(d, u),
         Turn(d, PieceSent(d, u), PacketsIn(PiecePacket(d, u))),
         UNCHANGED <<local, synced, foreign>>
  PROVE  Turns(d)
<1>. DEFINE x == dev[d]
            t == PieceSent(d, u)
            k == u.out.kind
            S == PacketsIn(PiecePacket(d, u))
<1>0. TypeOK /\ x \in DeviceState /\ x.out \in OutTransfer
  BY DEF IdleInv, TypeOK, DeviceState
<1>1. /\ u.out.kind = x.out.kind /\ u.out.ver = x.out.ver
      /\ u.out.size = x.out.size
      /\ u.out.doneSent = x.out.doneSent
      /\ u.out.open = x.out.open /\ u.out.handle = x.out.handle
  BY <1>0 DEF OutTransfer
<1>2. /\ t \in DeviceState /\ PiecePacket(d, u) \in Seq(Packet)
      /\ t.in = u.in /\ t.saved = u.saved /\ t.totalsSaved = u.totalsSaved
      /\ t.statsAcked = u.statsAcked /\ t.state = u.state /\ t.peer = u.peer
      /\ t.filesSent = u.filesSent /\ t.out.kind = k /\ t.out.ver = u.out.ver
      /\ t.out.size = u.out.size
      /\ t.out.metaAcked = u.out.metaAcked /\ t.out.chunk = u.out.chunk
      /\ u.out.chunk >= u.out.size =>
           /\ t.out.doneSent /\ t.out.open = u.out.open
           /\ t.out.handle = u.out.handle
           /\ S = {FilePacket("FILE_DONE", d, k, 0, 0)}
      /\ u.out.chunk < u.out.size =>
           /\ t.out.doneSent = u.out.doneSent
           /\ u.out.metaAcked =>
                /\ t.out.open
                /\ t.out.handle = IF u.out.open THEN u.out.handle ELSE local[d][k]
                /\ S = {FilePacket("FILE_CHUNK", d, k, u.out.chunk, t.out.handle)}
           /\ ~u.out.metaAcked =>
                /\ t.out.open = u.out.open /\ t.out.handle = u.out.handle
                /\ S = {}
  BY <1>0, PieceSays
<1>. HIDE DEF t, S
<1>3. Resends(d, t) \/ MetaAcked(d, t) \/ ChunkAcked(d, t)
  BY <1>2 DEF Resends, MetaAcked, ChunkAcked, Joining
<1>4. SendsPiece(d, t, S)
  BY <1>1, <1>2, <1>3 DEF SendsPiece, SameIn, SameFlags
<1>. QED  BY <1>4 DEF Turns, Effect, t, S

LEMMA OutMoves ==
  ASSUME NEW o \in OutTransfer, NEW u
  PROVE  /\ u = [o EXCEPT !.metaAcked = TRUE] =>
              /\ u.metaAcked /\ u.chunk = o.chunk /\ u.kind = o.kind
              /\ u = [o EXCEPT !.metaAcked = u.metaAcked, !.chunk = u.chunk]
         /\ u = [o EXCEPT !.chunk = @ + 1] =>
              /\ u.metaAcked = o.metaAcked /\ u.chunk = o.chunk + 1
              /\ u.kind = o.kind
              /\ u = [o EXCEPT !.metaAcked = u.metaAcked, !.chunk = u.chunk]
BY DEF OutTransfer

LEMMA FileAckTurns ==
  ASSUME IdleInv, NEW d \in Device, RecvFileAck(d)
  PROVE  Turns(d)
<1>. DEFINE x == dev[d]
            m == Msg(d)
            j == Joined(d)
            acked == [j EXCEPT !.out.metaAcked = TRUE]
            moved == [j EXCEPT !.out.chunk = @ + 1]
<1>1. /\ TypeOK /\ x \in DeviceState /\ events[d] # <<>> /\ m \in Packet
      /\ x.state \in Joinable /\ m.type \in FileAcks
  BY JoinsFacts DEF RecvFileAck
<1>2. /\ j \in DeviceState /\ j.state = "SYNCING" /\ j.peer = m.from
      /\ j.in = x.in /\ j.out = x.out /\ j.saved = x.saved
      /\ j.totalsSaved = x.totalsSaved /\ j.statsAcked = x.statsAcked
      /\ j.filesSent = x.filesSent
  BY <1>1, JoinedFields
<1>3. m.kind \in Kinds
  BY <1>1, FileMsgType DEF FileTypes
<1>4. UNCHANGED <<local, synced, foreign>>
  BY DEF RecvFileAck, Handled
<1>5. \/ /\ m.kind = j.out.kind /\ m.type = "META_ACK"
         /\ Handled(d, PieceSent(d, acked), PiecePacket(d, acked))
      \/ /\ m.kind = j.out.kind /\ m.type = "CHUNK_ACK" /\ m.idx = j.out.chunk
         /\ Handled(d, PieceSent(d, moved), PiecePacket(d, moved))
      \/ /\ m.kind = j.out.kind /\ m.type = "DONE_ACK"
         /\ \E next \in BeginNextFile(d, j) : Handled(d, next, Announce(d, next))
      \/ Handled(d, j, <<>>)
  BY DEF RecvFileAck, AcksChunk
<1>. HIDE DEF j
<1>6. j.out \in OutTransfer /\ j.out.chunk \in Nat /\ j.out.chunk + 1 \in Nat
  BY <1>2 DEF DeviceState, OutTransfer
<1>7. CASE /\ m.kind = j.out.kind /\ m.type = "META_ACK"
           /\ Handled(d, PieceSent(d, acked), PiecePacket(d, acked))
  <2>1. [j.out EXCEPT !.metaAcked = TRUE] \in OutTransfer
    BY <1>6 DEF OutTransfer
  <2>2. /\ acked \in DeviceState /\ acked.out = [j.out EXCEPT !.metaAcked = TRUE]
        /\ SameIn(x, acked) /\ SameFlags(x, acked) /\ acked.filesSent = x.filesSent
        /\ acked.state = "SYNCING" /\ acked.peer = m.from
    BY <1>2, <2>1 DEF DeviceState, SameIn, SameFlags
  <2>. HIDE DEF acked
  <2>3. /\ acked.out.metaAcked /\ acked.out.chunk = x.out.chunk
        /\ acked.out.kind = x.out.kind /\ acked.out.kind \in Kinds
        /\ acked.out = [x.out EXCEPT !.metaAcked = acked.out.metaAcked,
                                     !.chunk = acked.out.chunk]
    <3>1. x.out \in OutTransfer /\ acked.out = [x.out EXCEPT !.metaAcked = TRUE]
      BY <1>2, <1>6, <2>2
    <3>2. m.kind = x.out.kind
      BY <1>2, <1>7
    <3>. HIDE DEF x, m
    <3>. QED  BY <1>3, <3>1, <3>2, OutMoves
  <2>4. /\ PieceSent(d, acked) \in DeviceState
        /\ PiecePacket(d, acked) \in Seq(Packet)
    BY <1>1, <1>2, <1>3, <1>7, <2>2, <2>3, PieceSentType, PiecePacketType
  <2>5. Turn(d, PieceSent(d, acked), PacketsIn(PiecePacket(d, acked))) /\ Takes(d)
    BY <1>1, <1>7, <2>4, HandledTurn
  <2>6. MetaAcked(d, acked)
    BY <1>1, <1>2, <1>7, <2>2, <2>3, <2>5 DEF MetaAcked, Joining
  <2>. QED  BY <1>2, <1>3, <1>4, <1>7, <2>2, <2>3, <2>5, <2>6, PieceTurns
<1>8. CASE /\ m.kind = j.out.kind /\ m.type = "CHUNK_ACK" /\ m.idx = j.out.chunk
           /\ Handled(d, PieceSent(d, moved), PiecePacket(d, moved))
  <2>1. [j.out EXCEPT !.chunk = @ + 1] \in OutTransfer
    BY <1>6 DEF OutTransfer
  <2>2. /\ moved \in DeviceState /\ moved.out = [j.out EXCEPT !.chunk = @ + 1]
        /\ SameIn(x, moved) /\ SameFlags(x, moved) /\ moved.filesSent = x.filesSent
        /\ moved.state = "SYNCING" /\ moved.peer = m.from
    BY <1>2, <2>1 DEF DeviceState, SameIn, SameFlags
  <2>. HIDE DEF moved
  <2>3. /\ moved.out.metaAcked = x.out.metaAcked /\ moved.out.chunk = x.out.chunk + 1
        /\ moved.out.kind = x.out.kind /\ moved.out.kind \in Kinds
        /\ moved.out = [x.out EXCEPT !.metaAcked = moved.out.metaAcked,
                                     !.chunk = moved.out.chunk]
    <3>1. x.out \in OutTransfer /\ moved.out = [x.out EXCEPT !.chunk = @ + 1]
      BY <1>2, <1>6, <2>2
    <3>2. m.kind = x.out.kind
      BY <1>2, <1>8
    <3>. HIDE DEF x, m
    <3>. QED  BY <1>3, <3>1, <3>2, OutMoves
  <2>4. /\ PieceSent(d, moved) \in DeviceState
        /\ PiecePacket(d, moved) \in Seq(Packet)
    BY <1>1, <1>2, <1>3, <1>8, <2>2, <2>3, PieceSentType, PiecePacketType
  <2>5. Turn(d, PieceSent(d, moved), PacketsIn(PiecePacket(d, moved))) /\ Takes(d)
    BY <1>1, <1>8, <2>4, HandledTurn
  <2>6. ChunkAcked(d, moved)
    BY <1>1, <1>2, <1>8, <2>2, <2>3, <2>5 DEF ChunkAcked, Joining
  <2>. QED  BY <1>2, <1>3, <1>4, <1>8, <2>2, <2>3, <2>5, <2>6, PieceTurns
<1>9. CASE /\ m.kind = j.out.kind /\ m.type = "DONE_ACK"
           /\ \E next \in BeginNextFile(d, j) : Handled(d, next, Announce(d, next))
  <2>0. PICK next \in BeginNextFile(d, j) : Handled(d, next, Announce(d, next))
    BY <1>9
  <2>1. /\ next \in DeviceState /\ Announce(d, next) \in Seq(Packet)
        /\ NextFile(d, next, PacketsIn(Announce(d, next)))
        /\ next.in = j.in /\ next.saved = j.saved /\ next.totalsSaved = j.totalsSaved
        /\ next.statsAcked = j.statsAcked /\ next.state = j.state
        /\ next.peer = j.peer
    BY <1>1, <1>2, NextFileSays
  <2>2. Turn(d, next, PacketsIn(Announce(d, next))) /\ Takes(d)
    BY <1>1, <2>0, <2>1, HandledTurn
  <2>3. GoesOn(d, next, PacketsIn(Announce(d, next)))
    BY <1>1, <1>2, <1>4, <1>9, <2>1, <2>2 DEF GoesOn, Joining, SameIn, SameFlags
  <2>. QED  BY <1>4, <2>2, <2>3 DEF Turns, Effect
<1>10. CASE Handled(d, j, <<>>)
  <2>1. Turn(d, j, {})
    BY <1>1, <1>2, <1>10, HandledSays
  <2>2. MovesOn(d, j) /\ SameIn(x, j) /\ SameOut(x, j) /\ SameFlags(x, j)
    BY <1>1, <1>2, JoinsOn DEF SameIn, SameOut, SameFlags
  <2>. QED  BY <1>4, <2>1, <2>2, QuietTalk
<1>. HIDE DEF acked, moved
<1>. QED  BY <1>5, <1>7, <1>8, <1>9, <1>10

LEMMA FaultTurns ==
  ASSUME IdleInv, NEW d \in Device,
         JoinFails(d) \/ CardFails(d) \/ PowerLossInPromotion(d)
  PROVE  Turns(d)
<1>. DEFINE x == dev[d]
            m == Msg(d)
            j == Joined(d)
<1>1. CASE JoinFails(d)
  <2>1. /\ TypeOK /\ events[d] # <<>> /\ x.state = "READY" /\ m.from \in Device
        /\ UNCHANGED <<local, synced, foreign>>
    BY <1>1, MsgType, AnyMsgType DEF IdleInv, JoinFails, Receives, Handled
  <2>2. PICK st \in {"READY", "ERROR"} :
          /\ (IF st = "READY" THEN "Abort" ELSE "Fault") \in Env
          /\ Handled(d, [Fresh(st, TRUE) EXCEPT !.peer = m.from], <<>>)
    BY <1>1 DEF JoinFails
  <2>. DEFINE s == [Fresh(st, TRUE) EXCEPT !.peer = m.from]
  <2>3. Fresh(st, TRUE) \in DeviceState /\ Idle(Fresh(st, TRUE)) /\ Fresh(st, TRUE).state = st
    BY FreshType, FreshIdle DEF States
  <2>4. s \in DeviceState /\ Idle(s) /\ s.state = st
    BY <2>1, <2>3 DEF DeviceState, Idle
  <2>. HIDE DEF s
  <2>5. Turn(d, s, {})
    BY <2>1, <2>2, <2>4, HandledSays DEF s
  <2>6. Resets(d, s, {})
    BY <2>1, <2>2, <2>4 DEF Resets, Early
  <2>. QED  BY <2>1, <2>5, <2>6 DEF Turns, Effect
<1>2. ASSUME NEW i \in Items, Replacing(d, i), synced' = Removed(d, i),
             Env \cap {"PowerLoss", "Fault"} # {}
      PROVE  Erases(d)
  <2>1. CASE Finishing(d) /\ Verified(j.in) /\ i = m.kind
    <3>1. Completed(d) /\ Joins(d, {"FILE_DONE"})
      BY <2>1, FinishingFacts
    <3>2. events[d] # <<>> /\ m.from \in Device
      BY <3>1, JoinsFacts
    <3>. QED  BY <1>2, <2>1, <3>1, <3>2 DEF Erases
  <2>2. CASE /\ Joins(d, {"STATS"}) /\ Parses(m) /\ i = Totals
             /\ SavedTotals(d, j) # synced
    <3>1. events[d] # <<>> /\ m.from \in Device /\ m.type = "STATS"
      BY <2>2, JoinsFacts
    <3>2. ~x.totalsSaved
      BY <2>2, <3>1, JoinedFields DEF SavedTotals
    <3>. QED  BY <1>2, <2>2, <3>1, <3>2 DEF Erases
  <2>. QED  BY <1>2, <2>1, <2>2 DEF Replacing
<1>3. CASE CardFails(d)
  <2>. DEFINE s == Failed(j)
  <2>1. /\ TypeOK /\ x \in DeviceState /\ events[d] # <<>> /\ x.state \in Joinable
        /\ "Fault" \in Env /\ Handled(d, s, <<>>) /\ UNCHANGED <<local, foreign>>
    BY <1>3, JoinsFacts DEF CardFails, Handled
  <2>2. /\ j \in DeviceState /\ j.in = x.in /\ j.out = x.out /\ j.saved = x.saved
        /\ j.totalsSaved = x.totalsSaved /\ j.statsAcked = x.statsAcked
        /\ j.filesSent = x.filesSent
    BY <2>1, JoinedFields
  <2>3. synced' = synced \/ Stores(d) \/ Erases(d)
    <3>1. CASE synced' = synced
      BY <3>1
    <3>2. CASE \E i \in Items : Replacing(d, i) /\ synced' = Removed(d, i)
      BY <1>2, <2>1, <3>2
    <3>3. CASE Finishing(d) /\ Verified(j.in) /\ synced' = Promoted(d)
      BY <3>3, FinishingFacts
    <3>. QED  BY <1>3, <3>1, <3>2, <3>3 DEF CardFails
  <2>. HIDE DEF j
  <2>4. s \in DeviceState
    BY <2>2, FailedType
  <2>5. /\ SameIn(x, s) /\ SameFlags(x, s) /\ s.state = "ERROR"
        /\ s.out = [x.out EXCEPT !.open = FALSE] /\ s.filesSent = x.filesSent
    BY <2>2 DEF Failed, DeviceState, SameIn, SameFlags
  <2>. HIDE DEF s
  <2>6. Turn(d, s, {})
    BY <2>1, <2>4, HandledSays DEF s
  <2>7. Fails(d, s, {})
    BY <2>1, <2>3, <2>5 DEF Fails, Joinable
  <2>. QED  BY <2>1, <2>6, <2>7 DEF Turns, Effect
<1>4. CASE PowerLossInPromotion(d)
  <2>. DEFINE s == Fresh("OFF", FALSE)
  <2>1. s \in DeviceState /\ Idle(s) /\ s.state = "OFF"
    BY FreshType, FreshIdle DEF States
  <2>2. /\ "PowerLoss" \in Env
        /\ \E i \in Items : Replacing(d, i) /\ synced' = Removed(d, i)
        /\ dev' = [dev EXCEPT ![d] = s] /\ events' = [events EXCEPT ![d] = <<>>]
        /\ UNCHANGED <<local, foreign>> /\ TypeOK
    BY <1>4 DEF PowerLossInPromotion, IdleInv
  <2>3. Erases(d)
    BY <1>2, <2>2
  <2>. HIDE DEF s
  <2>4. Turn(d, s, {})
    BY <2>1, <2>2, SilentTurn
  <2>5. Resets(d, s, {})
    BY <2>1, <2>2, <2>3 DEF Resets
  <2>. QED  BY <2>2, <2>4, <2>5 DEF Turns, Effect
<1>. QED  BY <1>1, <1>3, <1>4

LEMMA PollTurns ==
  ASSUME IdleInv, NEW d \in Device, Poll(d) \/ Timeout(d)
  PROVE  Turns(d)
<1>. DEFINE x == dev[d]
<1>1. /\ TypeOK /\ x \in DeviceState /\ x.out \in OutTransfer
      /\ SameIn(x, x) /\ SameOut(x, x) /\ SameFlags(x, x)
  BY DEF IdleInv, TypeOK, DeviceState, SameIn, SameOut, SameFlags
<1>2. CASE HelloRetry(d)
  <2>1. Plain("HELLO", d) \in Packet
    BY PlainType DEF PlainTypes
  <2>2. /\ x.state = "DISCOVERING" /\ Polled(d, x, <<Plain("HELLO", d)>>)
        /\ UNCHANGED <<local, synced, foreign>>
    BY <1>2 DEF HelloRetry, Polled
  <2>3. Turn(d, x, {Plain("HELLO", d)})
    BY <1>1, <2>1, <2>2, PolledSays
  <2>4. MovesOn(d, x)
    BY DEF MovesOn
  <2>. QED  BY <1>1, <2>2, <2>3, <2>4, QuietTalk
<1>3. CASE StatsRetry(d)
  <2>. DEFINE s == [x EXCEPT !.statsSent = TRUE]
  <2>1. /\ s \in DeviceState /\ SameIn(x, s) /\ SameOut(x, s) /\ SameFlags(x, s)
        /\ s.state = x.state /\ s.peer = x.peer
    BY <1>1 DEF DeviceState, SameIn, SameOut, SameFlags
  <2>2. /\ x.state = "SYNCING" /\ Polled(d, s, <<Stats(d)>>)
        /\ UNCHANGED <<local, synced, foreign>> /\ Stats(d) \in Packet
    BY <1>1, <1>3, StatsType DEF StatsRetry, Polled
  <2>3. MovesOn(d, s)
    BY <2>1 DEF MovesOn
  <2>. HIDE DEF s
  <2>4. Turn(d, s, {Stats(d)})
    BY <1>1, <2>1, <2>2, PolledSays
  <2>. QED  BY <2>1, <2>2, <2>3, <2>4, QuietTalk
<1>4. CASE FilesBegin(d)
  <2>1. PICK s \in BeginNextFile(d, x) :
        /\ x.state = "SYNCING" /\ x.totalsSaved /\ x.statsAcked /\ ~x.filesSent
        /\ x.out.kind = None /\ Polled(d, s, Announce(d, s))
        /\ UNCHANGED <<local, synced, foreign>>
    BY <1>4 DEF FilesBegin, SendingFiles, Polled
  <2>2. /\ s \in DeviceState /\ Announce(d, s) \in Seq(Packet)
        /\ NextFile(d, s, PacketsIn(Announce(d, s)))
        /\ s.in = x.in /\ s.saved = x.saved /\ s.totalsSaved = x.totalsSaved
        /\ s.statsAcked = x.statsAcked /\ s.state = x.state /\ s.peer = x.peer
    BY <1>1, NextFileSays
  <2>3. Turn(d, s, PacketsIn(Announce(d, s)))
    BY <1>1, <2>1, <2>2, PolledTurn
  <2>4. BeginsFiles(d, s, PacketsIn(Announce(d, s)))
    BY <2>1, <2>2 DEF BeginsFiles, SameIn
  <2>. QED  BY <2>1, <2>3, <2>4 DEF Turns, Effect
<1>5. CASE FileRetry(d)
  <2>1. /\ x.state = "SYNCING" /\ x.out.kind # None /\ UNCHANGED <<local, synced, foreign>>
        /\ \/ ~x.out.metaAcked /\ Polled(d, x, Announce(d, x))
           \/ x.out.metaAcked /\ Polled(d, PieceSent(d, x), PiecePacket(d, x))
    BY <1>5 DEF FileRetry, SendingFiles, Polled
  <2>2. x.out.kind \in Kinds /\ x.out.ver \in Versions /\ x.out.size \in Nat
    BY <1>1, <2>1 DEF OutTransfer
  <2>3. CASE ~x.out.metaAcked /\ Polled(d, x, Announce(d, x))
    <3>. DEFINE p == FilePacket("FILE_META", d, x.out.kind, x.out.size, x.out.ver)
    <3>1. p \in Packet
      BY <2>2, FilePacketType DEF FileTypes
    <3>2. Polled(d, x, <<p>>)
      BY <2>1, <2>3 DEF Announce
    <3>. HIDE DEF p
    <3>3. Turn(d, x, {p})
      BY <1>1, <3>1, <3>2, PolledSays
    <3>4. RepeatsMeta(d, x, {p})
      BY <2>1, <2>3 DEF RepeatsMeta, p
    <3>. QED  BY <2>1, <3>3, <3>4 DEF Turns, Effect
  <2>4. CASE x.out.metaAcked /\ Polled(d, PieceSent(d, x), PiecePacket(d, x))
    <3>1. PieceSent(d, x) \in DeviceState /\ PiecePacket(d, x) \in Seq(Packet)
      BY <1>1, <2>2, PieceSentType, PiecePacketType
    <3>2. Turn(d, PieceSent(d, x), PacketsIn(PiecePacket(d, x)))
      BY <1>1, <2>4, <3>1, PolledTurn
    <3>3. Resends(d, x)
      BY <2>1, <2>4 DEF Resends
    <3>4. x.out = [x.out EXCEPT !.metaAcked = x.out.metaAcked, !.chunk = x.out.chunk]
      BY <1>1 DEF OutTransfer
    <3>. QED  BY <1>1, <2>1, <2>2, <3>2, <3>3, <3>4, PieceTurns
  <2>. QED  BY <2>1, <2>3, <2>4
<1>6. CASE Complete(d)
  <2>. DEFINE s == [x EXCEPT !.state = "SYNCED"]
  <2>1. /\ s \in DeviceState /\ SameIn(x, s) /\ SameOut(x, s) /\ SameFlags(x, s)
        /\ s.state = "SYNCED" /\ s.peer = x.peer
    BY <1>1 DEF DeviceState, States, SameIn, SameOut, SameFlags
  <2>2. /\ x.state = "SYNCING" /\ ExchangeDone(x) /\ Polled(d, s, <<>>)
        /\ UNCHANGED <<local, synced, foreign>>
    BY <1>6 DEF Complete, Polled
  <2>3. MovesOn(d, s)
    BY <2>1, <2>2 DEF MovesOn, Early
  <2>. HIDE DEF s
  <2>4. Turn(d, s, {})
    BY <1>1, <2>1, <2>2, PolledSays
  <2>. QED  BY <2>1, <2>2, <2>3, <2>4, QuietTalk
<1>7. CASE RefreshAchievements(d)
  <2>. DEFINE s == [x EXCEPT !.refreshed = TRUE]
  <2>1. /\ s \in DeviceState /\ SameIn(x, s) /\ SameOut(x, s) /\ SameFlags(x, s)
        /\ s.state = x.state /\ s.peer = x.peer
    BY <1>1 DEF DeviceState, SameIn, SameOut, SameFlags
  <2>2. /\ x.state = "SYNCED" /\ dev' = [dev EXCEPT ![d] = s]
        /\ UNCHANGED <<events, synced, foreign>>
    BY <1>7 DEF RefreshAchievements
  <2>3. MovesOn(d, s)
    BY <2>1 DEF MovesOn
  <2>. HIDE DEF s
  <2>4. Turn(d, s, {})
    BY <1>1, <2>1, <2>2, SilentTurn
  <2>5. CASE local' = local
    BY <2>1, <2>2, <2>3, <2>4, <2>5, QuietTalk
  <2>6. CASE /\ "Unlock" \in Env /\ AwardKind # None /\ local[d][AwardKind] < MaxVersion
             /\ local' = [local EXCEPT ![d][AwardKind] = @ + 1]
    <3>. DEFINE own == [local[d] EXCEPT ![AwardKind] = @ + 1]
    <3>1. AwardKind \in Items
      BY <2>6, SyncConstants DEF Items
    <3>2. local[d] \in [Items -> Versions] /\ local[d][AwardKind] \in Versions
      BY <1>1, <3>1 DEF TypeOK
    <3>3. local[d][AwardKind] + 1 \in Versions
      BY <2>6, <3>2, SyncConstants DEF Versions
    <3>4. own \in [Items -> Versions]
      BY <3>1, <3>2, <3>3
    <3>5. \A i \in Items : own[i] >= local[d][i]
      BY <3>1, <3>2, SyncConstants DEF Versions
    <3>6. \A i \in Items \ {AwardKind} : own[i] = local[d][i]
      BY <3>2
    <3>7. local' = [local EXCEPT ![d] = own]
      BY <1>1, <2>6 DEF TypeOK
    <3>. HIDE DEF own
    <3>8. OwnNews(d, s, {})
      BY <2>1, <2>2, <2>6, <3>4, <3>5, <3>6, <3>7 DEF OwnNews
    <3>. QED  BY <2>2, <2>4, <3>8 DEF Turns, Effect
  <2>. QED  BY <1>7, <2>5, <2>6 DEF RefreshAchievements
<1>8. CASE Timeout(d)
  <2>. DEFINE s == Failed(x)
  <2>1. /\ "Timeout" \in Env /\ x.state \in {"DISCOVERING", "SYNCING"}
        /\ Polled(d, s, <<>>) /\ UNCHANGED <<local, synced, foreign>>
    BY <1>8 DEF Timeout, Polled
  <2>2. s \in DeviceState
    BY <1>1, FailedType
  <2>3. /\ SameIn(x, s) /\ SameFlags(x, s) /\ s.state = "ERROR"
        /\ s.out = [x.out EXCEPT !.open = FALSE] /\ s.filesSent = x.filesSent
    BY <1>1 DEF Failed, DeviceState, SameIn, SameFlags
  <2>. HIDE DEF s
  <2>4. Turn(d, s, {})
    BY <1>1, <2>1, <2>2, PolledSays
  <2>5. Fails(d, s, {})
    BY <2>1, <2>3 DEF Fails
  <2>. QED  BY <2>1, <2>4, <2>5 DEF Turns, Effect
<1>. QED  BY <1>2, <1>3, <1>4, <1>5, <1>6, <1>7, <1>8 DEF Poll

LEMMA UserTurns ==
  ASSUME IdleInv, NEW d \in Device, User(d) \/ Prepared(d) \/ PrepareFails(d)
  PROVE  Turns(d)
<1>. DEFINE x == dev[d]
<1>1. /\ TypeOK /\ x \in DeviceState /\ x.radio \in BOOLEAN
      /\ SameIn(x, x) /\ SameOut(x, x) /\ SameFlags(x, x)
      /\ x.state \in Early => Idle(x)
  BY DEF IdleInv, TypeOK, DeviceState, SameIn, SameOut, SameFlags
<1>2. ASSUME NEW s \in DeviceState, Idle(s), s.state \in {"OFF", "READY", "PREPARING", "ERROR"},
             x.state \in Early \/ Env \cap {"Leave", "Resync"} # {},
             s.state = "OFF" => "Leave" \in Env,
             s.state = "ERROR" => "Fault" \in Env,
             Turn(d, s, {}), UNCHANGED <<local, synced, foreign>>
      PROVE  Turns(d)
  <2>1. Resets(d, s, {})
    BY <1>2 DEF Resets
  <2>. QED  BY <1>2, <2>1 DEF Turns, Effect
<1>3. CASE Enter(d)
  <2>1. /\ Fresh("READY", TRUE) \in DeviceState /\ Fresh("ERROR", FALSE) \in DeviceState
        /\ Idle(Fresh("READY", TRUE)) /\ Idle(Fresh("ERROR", FALSE))
        /\ Fresh("READY", TRUE).state = "READY" /\ Fresh("ERROR", FALSE).state = "ERROR"
    BY FreshType, FreshIdle DEF States
  <2>2. /\ x.state \in Early /\ UNCHANGED <<local, synced, foreign>>
        /\ \/ Polled(d, Fresh("READY", TRUE), <<>>)
           \/ "Fault" \in Env /\ Polled(d, Fresh("ERROR", FALSE), <<>>)
    BY <1>3 DEF Enter, Early, Polled
  <2>3. \/ Turn(d, Fresh("READY", TRUE), {})
        \/ "Fault" \in Env /\ Turn(d, Fresh("ERROR", FALSE), {})
    BY <1>1, <2>1, <2>2, PolledSays
  <2>. QED  BY <1>2, <2>1, <2>2, <2>3
<1>4. CASE Leave(d)
  <2>1. /\ Fresh("OFF", FALSE) \in DeviceState /\ Idle(Fresh("OFF", FALSE))
        /\ Fresh("OFF", FALSE).state = "OFF"
    BY FreshType, FreshIdle DEF States
  <2>2. Turn(d, Fresh("OFF", FALSE), {})
    BY <1>1, <1>4, <2>1, SilentTurn DEF Leave
  <2>. QED  BY <1>2, <1>4, <2>1, <2>2 DEF Leave
<1>5. CASE Read(d)
  <2>1. PICK S \in SUBSET MergeKinds :
          local' = [local EXCEPT ![d] = [i \in Items |->
                      IF i \in MergeKinds \ S THEN @[i] ELSE @[i] + 1]]
    BY <1>5 DEF Read
  <2>. DEFINE own == [i \in Items |-> IF i \in MergeKinds \ S THEN local[d][i]
                                      ELSE local[d][i] + 1]
  <2>2. \A i \in Items : local[d][i] \in Versions /\ local[d][i] + 1 \in Versions
    BY <1>1, <1>5, SyncConstants DEF Read, TypeOK, Versions
  <2>3. own \in [Items -> Versions]
    BY <2>2
  <2>4. \A i \in Items : own[i] >= local[d][i]
    BY <2>2, SyncConstants DEF Versions
  <2>5. local' = [local EXCEPT ![d] = own]
    BY <2>1
  <2>6. /\ x.state = "OFF" /\ "Read" \in Env /\ UNCHANGED <<dev, events, synced, foreign>>
    BY <1>5 DEF Read
  <2>7. dev' = [dev EXCEPT ![d] = x]
    BY <1>1, <2>6 DEF TypeOK
  <2>8. Turn(d, x, {})
    BY <1>1, <2>6, <2>7, SilentTurn
  <2>. HIDE DEF own
  <2>9. OwnNews(d, x, {})
    BY <1>1, <2>3, <2>4, <2>5, <2>6 DEF OwnNews
  <2>. QED  BY <2>6, <2>8, <2>9 DEF Turns, Effect
<1>6. CASE StartSync(d)
  <2>. DEFINE s == Fresh("PREPARING", x.radio)
  <2>1. s \in DeviceState /\ Idle(s) /\ s.state = "PREPARING"
    BY <1>1, FreshType, FreshIdle DEF States
  <2>2. /\ Polled(d, s, <<>>) /\ UNCHANGED <<local, synced, foreign>>
        /\ x.state \in Early \/ "Resync" \in Env
    BY <1>6 DEF StartSync, Polled, Early
  <2>. HIDE DEF s
  <2>3. Turn(d, s, {})
    BY <1>1, <2>1, <2>2, PolledSays
  <2>. QED  BY <1>2, <2>1, <2>2, <2>3
<1>7. CASE Prepared(d)
  <2>. DEFINE s == [x EXCEPT !.state = "DISCOVERING"]
              p == Plain("HELLO", d)
  <2>1. /\ x.state = "PREPARING" /\ dev' = [dev EXCEPT ![d] = s]
        /\ Broadcast(d, <<p>>, events[d]) /\ UNCHANGED <<local, synced, foreign>>
    BY <1>1, <1>7 DEF Prepared, TypeOK
  <2>2. /\ s \in DeviceState /\ SameIn(x, s) /\ SameOut(x, s) /\ SameFlags(x, s)
        /\ s.state = "DISCOVERING"
    BY <1>1 DEF DeviceState, States, SameIn, SameOut, SameFlags
  <2>3. MovesOn(d, s)
    BY <2>1, <2>2 DEF MovesOn, Early
  <2>. HIDE DEF s
  <2>4. p \in Packet
    BY PlainType DEF PlainTypes
  <2>5. <<p>> \in Seq(Packet) /\ PacketsIn(<<p>>) = {p}
    BY <2>4, OnePacket
  <2>6. Extends(events[d], events[d], {})
    BY <1>1, ExtendsItself DEF TypeOK, Queue
  <2>7. Heard(d, {p})
    BY <1>1, <2>1, <2>5, <2>6, BroadcastHeard
  <2>8. Turn(d, s, {p})
    BY <2>1, <2>2, <2>4, <2>7 DEF Turn
  <2>. QED  BY <2>1, <2>2, <2>3, <2>8, QuietTalk
<1>8. CASE PrepareFails(d)
  <2>1. PICK st \in {"READY", "ERROR"} :
          /\ (IF st = "READY" THEN "Abort" ELSE "Fault") \in Env
          /\ dev' = [dev EXCEPT ![d].state = st]
    BY <1>8 DEF PrepareFails
  <2>2. x.state = "PREPARING" /\ UNCHANGED <<events, local, synced, foreign>>
    BY <1>8 DEF PrepareFails
  <2>. DEFINE s == [x EXCEPT !.state = st]
  <2>3. s \in DeviceState /\ s.state = st /\ Idle(s)
    BY <1>1, <2>2 DEF DeviceState, States, Idle, Early
  <2>4. dev' = [dev EXCEPT ![d] = s]
    BY <1>1, <2>1 DEF TypeOK
  <2>. HIDE DEF s
  <2>5. Turn(d, s, {})
    BY <1>1, <2>2, <2>3, <2>4, SilentTurn
  <2>. QED  BY <1>2, <2>1, <2>2, <2>3, <2>5 DEF Early
<1>. QED  BY <1>3, <1>4, <1>5, <1>6, <1>7, <1>8 DEF User

-----------------------------------------------------------------------------
(* The step, for every reader.                                             *)

Clears == UNCHANGED <<dev, events, local, synced, foreign>>

LEMMA StepTurns ==
  ASSUME IdleInv, [Next]_vars
  PROVE  Clears \/ \E d \in Device : Turns(d)
<1>1. CASE UNCHANGED vars
  BY <1>1 DEF vars, Clears
<1>2. ASSUME NEW d \in Device, Receive(d) PROVE Turns(d)
  BY <1>2, LateTurns, NameTurns, HelloTurns, StatsTurns, AckTurns, MetaTurns,
     ChunkTurns, DoneTurns, FileAckTurns DEF Receive
<1>3. ASSUME NEW d \in Device, JoinFails(d) \/ CardFails(d) \/ PowerLossInPromotion(d)
      PROVE  Turns(d)
  BY <1>3, FaultTurns
<1>4. ASSUME NEW d \in Device, Poll(d) \/ Timeout(d) PROVE Turns(d)
  BY <1>4, PollTurns
<1>5. ASSUME NEW d \in Device, User(d) \/ Prepared(d) \/ PrepareFails(d)
      PROVE  Turns(d)
  BY <1>5, UserTurns
<1>6. CASE AirClears
  BY <1>6 DEF AirClears, Clears
<1>. QED  BY <1>1, <1>2, <1>3, <1>4, <1>5, <1>6 DEF Next

(* A turn of d leaves the other readers' memories alone.                   *)
LEMMA TurnKeeps ==
  ASSUME TypeOK, NEW d \in Device, NEW s, NEW S, Turn(d, s, S)
  PROVE  /\ dev'[d] = s /\ s \in DeviceState
         /\ \A e \in Device \ {d} : dev'[e] = dev[e]
BY DEF Turn, TypeOK

LEMMA EffectIdles ==
  ASSUME IdleInv, NEW d \in Device, NEW s \in DeviceState, NEW S, Effect(d, s, S),
         s.state \in Early
  PROVE  Idle(s)
<1>1. Talks(d, s, S) \/ Resets(d, s, S) \/ OwnNews(d, s, S) \/ s.state \in {"SYNCING", "SYNCED", "ERROR"}
  BY DEF Effect, Fails, StoresTotals, HearsAck, BeginsFiles, GoesOn, RepeatsMeta,
         SendsPiece, Resends, MetaAcked, ChunkAcked, TakesMeta, TakesChunk,
         TakesFile, AcksAgain, Joining
<1>2. "SYNCING" \notin Early /\ "SYNCED" \notin Early /\ "ERROR" \notin Early
  BY DEF Early
<1>3. CASE Talks(d, s, S) \/ OwnNews(d, s, S)
  <2>1. /\ dev[d].state \in Early
        /\ SameIn(dev[d], s) /\ SameOut(dev[d], s) /\ SameFlags(dev[d], s)
    BY <1>3 DEF Talks, OwnNews, MovesOn
  <2>. QED  BY <2>1 DEF IdleInv, Idle, SameIn, SameOut, SameFlags
<1>. QED  BY <1>1, <1>2, <1>3 DEF Resets

LEMMA IdleNext == IdleInv /\ [Next]_vars => IdleInv'
<1>. SUFFICES ASSUME IdleInv, [Next]_vars PROVE IdleInv'
  OBVIOUS
<1>1. TypeOK /\ TypeOK'
  BY NextType DEF IdleInv
<1>2. CASE Clears
  BY <1>1, <1>2 DEF Clears, IdleInv
<1>3. ASSUME NEW d \in Device, Turns(d) PROVE IdleInv'
  <2>1. PICK s, S : Turn(d, s, S) /\ Effect(d, s, S)
    BY <1>3 DEF Turns
  <2>2. dev'[d] = s /\ s \in DeviceState /\ \A e \in Device \ {d} : dev'[e] = dev[e]
    BY <1>1, <2>1, TurnKeeps
  <2>3. s.state \in Early => Idle(s)
    BY <2>1, <2>2, EffectIdles
  <2>. QED  BY <1>1, <2>2, <2>3 DEF IdleInv
<1>. QED  BY <1>2, <1>3, StepTurns

LEMMA IdleInit == Init => IdleInv
<1>. SUFFICES ASSUME Init PROVE IdleInv
  OBVIOUS
<1>1. TypeOK
  BY InitType
<1>2. Idle(Fresh("OFF", FALSE))
  BY FreshIdle DEF States
<1>. QED  BY <1>1, <1>2 DEF Init, IdleInv
=============================================================================
