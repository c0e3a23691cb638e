---------------------- MODULE NearbyStatsSync_transfers -----------------------
(* The stop-and-wait transfers of NearbyStatsSync between two readers that *)
(* stay in the exchange: what one of them is sending, what is on the way   *)
(* and what the other has of it always agree.                              *)
EXTENDS NearbyStatsSync_copies

(* Once in an exchange, no reader leaves it or starts over.                *)
Lasting == Env \cap {"Leave", "PowerLoss", "Resync"} = {}

-----------------------------------------------------------------------------
(* The kinds are sent in order.                                            *)

Position(k) == CHOOSE j \in DOMAIN KindOrder : KindOrder[j] = k
Before(k) == IF k = None THEN {} ELSE {j \in Kinds : Position(j) < Position(k)}

(* The kinds that a reader is done with sending.                           *)
Sent(x) == IF x.filesSent THEN Kinds ELSE Before(x.out.kind)

LEMMA PositionOf ==
  /\ \A k \in Kinds : Position(k) \in DOMAIN KindOrder /\ KindOrder[Position(k)] = k
  /\ \A j \in DOMAIN KindOrder : KindOrder[j] \in Kinds /\ Position(KindOrder[j]) = j
<1>1. ASSUME NEW k \in Kinds
      PROVE  Position(k) \in DOMAIN KindOrder /\ KindOrder[Position(k)] = k
  <2>1. \E j \in DOMAIN KindOrder : KindOrder[j] = k
    BY DEF Kinds
  <2>. QED  BY <2>1 DEF Position
<1>2. ASSUME NEW j \in DOMAIN KindOrder
      PROVE  KindOrder[j] \in Kinds /\ Position(KindOrder[j]) = j
  <2>1. KindOrder[j] \in Kinds
    BY DEF Kinds
  <2>2. /\ Position(KindOrder[j]) \in DOMAIN KindOrder
        /\ KindOrder[Position(KindOrder[j])] = KindOrder[j]
    BY <1>1, <2>1
  <2>. QED  BY <2>1, <2>2, SyncConstants
<1>. QED  BY <1>1, <1>2

LEMMA NextKind ==
  ASSUME NEW k \in Kinds \cup {None}
  PROVE  LET n == KindAfter(k)
         IN  /\ Before(k) \subseteq Kinds /\ k \notin Before(k)
             /\ n # None => n \in Kinds /\ Before(n) = Before(k) \cup ({k} \ {None})
             /\ n = None => k \in Kinds /\ Kinds = Before(k) \cup {k}
<1>. DEFINE n == KindAfter(k)
            last == Len(KindOrder)
<1>1. /\ KindOrder \in Seq(Kinds) /\ last \in Nat /\ last > 0 /\ None \notin Kinds
      /\ DOMAIN KindOrder = 1..last
  BY SyncConstants
<1>2. /\ \A j \in Kinds : Position(j) \in 1..last /\ KindOrder[Position(j)] = j
      /\ \A j \in 1..last : KindOrder[j] \in Kinds /\ Position(KindOrder[j]) = j
  BY <1>1, PositionOf
<1>. HIDE DEF last
<1>3. Before(k) \subseteq Kinds /\ k \notin Before(k)
  BY <1>1, <1>2 DEF Before
<1>4. CASE k = None
  <2>1. n = KindOrder[1] /\ n \in Kinds /\ Position(n) = 1 /\ n # None
    BY <1>1, <1>2, <1>4 DEF KindAfter
  <2>2. Before(n) = {}
    BY <1>1, <1>2, <2>1 DEF Before
  <2>3. Before(k) = {}
    BY <1>4 DEF Before
  <2>. QED  BY <1>3, <1>4, <2>1, <2>2, <2>3
<1>5. CASE k # None
  <2>. DEFINE i == Position(k)
  <2>1. k \in Kinds /\ i \in 1..last /\ KindOrder[i] = k
    BY <1>2, <1>5
  <2>2. n = IF i = last THEN None ELSE KindOrder[i + 1]
    BY <1>5 DEF KindAfter, Position, last
  <2>3. Before(k) = {j \in Kinds : Position(j) < i}
    BY <1>5 DEF Before
  <2>. HIDE DEF i, n
  <2>4. \A j \in Kinds : Position(j) = i => j = k
    BY <1>2, <2>1
  <2>4a. Position(k) = i
    BY DEF i
  <2>5. CASE i = last
    <3>1. \A j \in Kinds : Position(j) < i \/ j = k
      BY <1>1, <1>2, <2>1, <2>4, <2>5
    <3>. QED  BY <1>3, <2>1, <2>2, <2>3, <2>5, <3>1, <1>1 DEF n
  <2>6. CASE i # last
    <3>1. i + 1 \in 1..last /\ n = KindOrder[i + 1]
      BY <1>1, <2>1, <2>2, <2>6
    <3>2. n \in Kinds /\ Position(n) = i + 1 /\ n # None
      BY <1>1, <1>2, <3>1
    <3>3. Before(n) = {j \in Kinds : Position(j) < i + 1}
      BY <3>2 DEF Before
    <3>4. \A j \in Kinds : Position(j) < i + 1 <=> (Position(j) < i \/ j = k)
      BY <1>1, <1>2, <2>1, <2>4, <2>4a
    <3>5. Before(n) = Before(k) \cup {k}
      BY <2>1, <2>3, <3>3, <3>4
    <3>. QED  BY <1>3, <1>5, <3>2, <3>5 DEF n
  <2>. QED  BY <2>5, <2>6
<1>. QED  BY <1>4, <1>5

-----------------------------------------------------------------------------
(* What agrees.  o is the transfer that one reader sends, sent the kinds   *)
(* it is done with; in is what the other is receiving and saved the kinds  *)
(* it has.                                                                 *)

Agree(o, sent, in, saved) ==
  /\ sent \subseteq saved /\ saved \subseteq sent \cup {o.kind}
  /\ o.kind \notin sent
  /\ in.kind # None =>
       /\ in.kind = o.kind /\ in.ver = o.ver /\ in.size = o.size
       /\ in.kind \notin saved
       /\ o.chunk <= Len(in.data) /\ Len(in.data) <= o.chunk + 1
       /\ Len(in.data) <= o.size
       /\ Len(in.data) > 0 => o.metaAcked
  /\ o.kind # None =>
       /\ o.metaAcked => in.kind = o.kind \/ o.kind \in saved
       /\ o.chunk > 0 => o.metaAcked
       /\ o.chunk <= o.size
       /\ o.doneSent => o.metaAcked /\ o.chunk = o.size
       /\ o.kind \in saved => o.doneSent

(* A packet that the receiver has not taken yet.                           *)
Fits(m, o, sent, saved) ==
  /\ m.type = "FILE_META" =>
       m.kind = o.kind /\ m.ver = o.ver /\ m.idx = o.size /\ m.kind \notin saved
  /\ m.type = "FILE_CHUNK" =>
       \/ m.kind \in sent
       \/ /\ m.kind = o.kind /\ o.metaAcked
          /\ m.idx <= o.chunk /\ m.idx < o.size
  /\ m.type = "FILE_DONE" => m.kind \in sent \/ (m.kind = o.kind /\ o.doneSent)

(* An acknowledgement that the sender has not taken yet.                   *)
Answers(m, o, sent, in, saved) ==
  /\ m.type = "META_ACK" =>
       \/ m.kind \in sent
       \/ m.kind = o.kind /\ (in.kind = m.kind \/ m.kind \in saved)
  /\ m.type = "CHUNK_ACK" =>
       \/ m.kind \in sent
       \/ /\ m.kind = o.kind /\ o.metaAcked
          /\ m.idx <= o.chunk /\ m.idx < o.size
          /\ m.kind \in saved \/ (in.kind = m.kind /\ m.idx < Len(in.data))
  /\ m.type = "DONE_ACK" => m.kind \in saved

Pieces == {"FILE_CHUNK", "FILE_DONE"}
Announces(m, k) == m.type = "FILE_META" /\ m.kind = k

(* No announcement is behind a piece of its file.                          *)
MetasFirst(r) ==
  \A n \in DOMAIN r : \A o \in DOMAIN r :
    n < o /\ r[n].type \in Pieces => ~Announces(r[o], r[n].kind)

Fitting(o, sent, saved) == {m \in Packet : Fits(m, o, sent, saved)}
Answering(o, sent, in, saved) == {m \in Packet : Answers(m, o, sent, in, saved)}

(* d sends, p receives.                                                    *)
Transfer(d, p) ==
  LET x == dev[d]  y == dev[p]
  IN  /\ x.filesSent => x.out.kind = None
      /\ Agree(x.out, Sent(x), y.in, y.saved)
      /\ Within(events[p], Fitting(x.out, Sent(x), y.saved))
      /\ Within(events[d], Answering(x.out, Sent(x), y.in, y.saved))
      /\ MetasFirst(events[p])

-----------------------------------------------------------------------------
(* The sender goes on to the next kind.                                    *)
LEMMA NextAgrees ==
  ASSUME NEW o \in OutTransfer, NEW o2 \in OutTransfer, NEW in \in InTransfer,
         NEW sent \in SUBSET Kinds, NEW sent2 \in SUBSET Kinds,
         NEW saved \in SUBSET Kinds, Agree(o, sent, in, saved),
         o.kind = None \/ o.kind \in saved,
         sent2 = sent \cup ({o.kind} \ {None}), o2.kind \notin sent2,
         ~o2.metaAcked, o2.chunk = 0, ~o2.doneSent
  PROVE  /\ Agree(o2, sent2, in, saved)
         /\ \A m \in Packet :
              Fits(m, o, sent, saved) => Fits(m, o2, sent2, saved)
         /\ \A m \in Packet :
              Answers(m, o, sent, in, saved) => Answers(m, o2, sent2, in, saved)
         /\ \A m \in Packet : Fits(m, o, sent, saved) =>
              /\ m.type # "FILE_META"
              /\ m.type \in Pieces => m.kind # o2.kind
         /\ o2.kind \notin saved
<1>0. (\A k \in Kinds : k # None) /\ o.size \in Nat /\ o2.size \in Nat
  BY SyncConstants DEF OutTransfer
<1>1. in.kind = None
  BY DEF Agree
<1>2. saved = sent2 /\ o2.kind \in Kinds \cup {None}
  BY <1>0 DEF Agree, OutTransfer
<1>3. \A m \in Packet : m.type \in FileTypes => m.kind \in Kinds
  BY FileMsgType
<1>4. Agree(o2, sent2, in, saved)
  BY <1>0, <1>1, <1>2 DEF Agree
<1>5. \A m \in Packet : Fits(m, o, sent, saved) =>
        /\ m.type # "FILE_META"
        /\ m.type \in Pieces => m.kind \in sent2
  BY <1>0, <1>2, <1>3 DEF Fits, FileTypes, Pieces
<1>6. \A m \in Packet : Fits(m, o, sent, saved) => Fits(m, o2, sent2, saved)
  BY <1>5 DEF Fits, Pieces
<1>7. \A m \in Packet : Answers(m, o, sent, in, saved) => Answers(m, o2, sent2, in, saved)
  BY <1>0, <1>1, <1>2, <1>3 DEF Answers, FileTypes, FileAcks
<1>. QED  BY <1>2, <1>4, <1>5, <1>6, <1>7

(* The sender sends a piece; chunk says up to where it has been            *)
(* acknowledged.                                                           *)
Acknowledges(o, o2, sent, in, saved) ==
  \/ o.metaAcked /\ o2.metaAcked /\ o2.chunk = o.chunk
  \/ /\ \E m \in Packet : /\ m.type = "META_ACK" /\ m.kind = o.kind
                          /\ Answers(m, o, sent, in, saved)
     /\ o2.metaAcked /\ o2.chunk = o.chunk
  \/ /\ \E m \in Packet : /\ m.type = "CHUNK_ACK" /\ m.kind = o.kind
                          /\ m.idx = o.chunk /\ Answers(m, o, sent, in, saved)
     /\ o2.metaAcked = o.metaAcked /\ o2.chunk = o.chunk + 1

LEMMA PieceAgrees ==
  ASSUME NEW o \in OutTransfer, NEW o2 \in OutTransfer, NEW in \in InTransfer,
         NEW sent \in SUBSET Kinds, NEW saved \in SUBSET Kinds,
         Agree(o, sent, in, saved), Acknowledges(o, o2, sent, in, saved),
         o.kind \in Kinds, o2.kind = o.kind, o2.ver = o.ver, o2.size = o.size,
         o2.doneSent = (o.doneSent \/ o2.chunk >= o.size)
  PROVE  /\ Agree(o2, sent, in, saved) /\ o2.metaAcked
         /\ o2.chunk >= o.size \/ (o2.chunk < o.size /\ ~o2.doneSent)
         /\ \A m \in Packet : Fits(m, o, sent, saved) => Fits(m, o2, sent, saved)
         /\ \A m \in Packet :
              Answers(m, o, sent, in, saved) => Answers(m, o2, sent, in, saved)
<1>0. /\ \A k \in Kinds : k # None
      /\ o.size \in Nat /\ o.chunk \in Nat /\ o2.chunk \in Nat /\ Len(in.data) \in Nat
      /\ o.metaAcked \in BOOLEAN /\ o2.metaAcked \in BOOLEAN
      /\ o.doneSent \in BOOLEAN /\ o2.doneSent \in BOOLEAN
  BY SyncConstants DEF OutTransfer, InTransfer
<1>1. /\ o2.metaAcked /\ (in.kind = o.kind \/ o.kind \in saved)
      /\ o2.chunk = o.chunk \/ (o2.chunk = o.chunk + 1 /\ o.metaAcked)
      /\ o2.chunk <= o.size /\ o.chunk <= o2.chunk
      /\ in.kind = o.kind => o2.chunk <= Len(in.data)
      /\ o.doneSent => o2.chunk = o.chunk
  <2>1. CASE o.metaAcked /\ o2.metaAcked /\ o2.chunk = o.chunk
    BY <1>0, <2>1 DEF Agree
  <2>2. CASE /\ \E m \in Packet : /\ m.type = "META_ACK" /\ m.kind = o.kind
                                  /\ Answers(m, o, sent, in, saved)
             /\ o2.metaAcked /\ o2.chunk = o.chunk
    BY <1>0, <2>2 DEF Agree, Answers
  <2>3. CASE /\ \E m \in Packet : /\ m.type = "CHUNK_ACK" /\ m.kind = o.kind
                                  /\ m.idx = o.chunk /\ Answers(m, o, sent, in, saved)
             /\ o2.metaAcked = o.metaAcked /\ o2.chunk = o.chunk + 1
    <3>1. PICK m \in Packet : /\ m.type = "CHUNK_ACK" /\ m.kind = o.kind
                              /\ m.idx = o.chunk /\ Answers(m, o, sent, in, saved)
      BY <2>3
    <3>2. /\ o.metaAcked /\ o.chunk < o.size
          /\ o.kind \in saved \/ (in.kind = o.kind /\ o.chunk < Len(in.data))
      BY <3>1 DEF Agree, Answers
    <3>. QED  BY <1>0, <2>3, <3>2 DEF Agree
  <2>. QED  BY <2>1, <2>2, <2>3 DEF Acknowledges
<1>2. Agree(o2, sent, in, saved)
  BY <1>0, <1>1 DEF Agree
<1>3. o2.chunk >= o.size \/ (o2.chunk < o.size /\ ~o2.doneSent)
  BY <1>0, <1>1 DEF Agree
<1>4. ASSUME NEW m \in Packet, Fits(m, o, sent, saved) PROVE Fits(m, o2, sent, saved)
  <2>1. m.idx \in Nat
    BY DEF Packet
  <2>. QED  BY <1>0, <1>1, <1>4, <2>1 DEF Fits
<1>5. ASSUME NEW m \in Packet, Answers(m, o, sent, in, saved)
      PROVE  Answers(m, o2, sent, in, saved)
  <2>1. m.idx \in Nat
    BY DEF Packet
  <2>. QED  BY <1>0, <1>1, <1>5, <2>1 DEF Answers
<1>. QED  BY <1>1, <1>2, <1>3, <1>4, <1>5

(* The receiver takes an announcement.                                     *)
LEMMA MetaAgrees ==
  ASSUME NEW o \in OutTransfer, NEW in \in InTransfer, NEW in2 \in InTransfer,
         NEW sent \in SUBSET Kinds, NEW saved \in SUBSET Kinds,
         Agree(o, sent, in, saved),
         NEW m \in Packet, m.type = "FILE_META", Fits(m, o, sent, saved),
         in.kind = None, in2.kind = m.kind, in2.ver = m.ver, in2.size = m.idx,
         Len(in2.data) = 0
  PROVE  /\ Agree(o, sent, in2, saved)
         /\ \A a \in Packet :
              Answers(a, o, sent, in, saved) => Answers(a, o, sent, in2, saved)
<1>0. /\ \A k \in Kinds : k # None
      /\ o.size \in Nat /\ o.chunk \in Nat /\ m.kind \in Kinds
  BY FileMsgType, SyncConstants DEF OutTransfer, FileTypes
<1>1. m.kind = o.kind /\ m.ver = o.ver /\ m.idx = o.size /\ m.kind \notin saved
  BY DEF Fits
<1>2. ~o.metaAcked /\ o.chunk = 0
  BY <1>0, <1>1 DEF Agree
<1>3. Agree(o, sent, in2, saved)
  BY <1>0, <1>1, <1>2 DEF Agree
<1>4. ASSUME NEW a \in Packet, Answers(a, o, sent, in, saved)
      PROVE  Answers(a, o, sent, in2, saved)
  <2>1. a.type \in FileTypes => a.kind # None
    BY <1>0, FileMsgType
  <2>. QED  BY <1>4, <2>1 DEF Answers, FileTypes, FileAcks
<1>. QED  BY <1>3, <1>4

(* The receiver appends the next chunk, whatever the card makes of it.     *)
LEMMA ChunkAgrees ==
  ASSUME NEW o \in OutTransfer, NEW in \in InTransfer, NEW in2 \in InTransfer,
         NEW sent \in SUBSET Kinds, NEW saved \in SUBSET Kinds,
         Agree(o, sent, in, saved),
         NEW m \in Packet, m.type = "FILE_CHUNK", Fits(m, o, sent, saved),
         in.kind = m.kind, m.idx = Len(in.data),
         in2.kind = in.kind, in2.ver = in.ver, in2.size = in.size,
         Len(in2.data) = Len(in.data) + 1
  PROVE  /\ Agree(o, sent, in2, saved)
         /\ \A a \in Packet :
              Answers(a, o, sent, in, saved) => Answers(a, o, sent, in2, saved)
         /\ o.metaAcked /\ m.idx <= o.chunk /\ m.idx < o.size
<1>0. /\ \A k \in Kinds : k # None
      /\ o.size \in Nat /\ o.chunk \in Nat /\ m.kind \in Kinds /\ Len(in.data) \in Nat
  BY FileMsgType, SyncConstants DEF OutTransfer, InTransfer, FileTypes
<1>1. /\ m.kind = o.kind /\ o.metaAcked /\ m.idx <= o.chunk /\ m.idx < o.size
      /\ m.kind \notin saved
  BY <1>0 DEF Fits, Agree
<1>2. Agree(o, sent, in2, saved)
  BY <1>0, <1>1 DEF Agree
<1>3. ASSUME NEW a \in Packet, Answers(a, o, sent, in, saved)
      PROVE  Answers(a, o, sent, in2, saved)
  <2>1. a.idx \in Nat
    BY DEF Packet
  <2>. QED  BY <1>0, <1>3, <2>1 DEF Answers
<1>. QED  BY <1>1, <1>2, <1>3

(* The receiver saves the file.                                            *)
LEMMA DoneAgrees ==
  ASSUME NEW o \in OutTransfer, NEW in \in InTransfer, NEW in2 \in InTransfer,
         NEW sent \in SUBSET Kinds, NEW saved \in SUBSET Kinds,
         Agree(o, sent, in, saved),
         NEW m \in Packet, m.type = "FILE_DONE", Fits(m, o, sent, saved),
         in.kind = m.kind, in2.kind = None
  PROVE  /\ Agree(o, sent, in2, saved \cup {m.kind})
         /\ \A a \in Packet :
              Answers(a, o, sent, in, saved) => Answers(a, o, sent, in2, saved \cup {m.kind})
         /\ \A a \in Packet : Fits(a, o, sent, saved) /\ ~Announces(a, m.kind)
              => Fits(a, o, sent, saved \cup {m.kind})
         /\ m.kind = o.kind /\ o.doneSent
         /\ Len(in.data) = in.size
<1>0. /\ \A k \in Kinds : k # None
      /\ o.size \in Nat /\ o.chunk \in Nat /\ m.kind \in Kinds /\ Len(in.data) \in Nat
  BY FileMsgType, SyncConstants DEF OutTransfer, InTransfer, FileTypes
<1>1. m.kind = o.kind /\ o.doneSent /\ o.metaAcked /\ m.kind \notin saved
  BY <1>0 DEF Fits, Agree
<1>2. Len(in.data) = in.size
  BY <1>0, <1>1 DEF Agree
<1>3. Agree(o, sent, in2, saved \cup {m.kind})
  BY <1>0, <1>1 DEF Agree
<1>4. ASSUME NEW a \in Packet, Answers(a, o, sent, in, saved)
      PROVE  Answers(a, o, sent, in2, saved \cup {m.kind})
  BY <1>4 DEF Answers
<1>5. ASSUME NEW a \in Packet, Fits(a, o, sent, saved), ~Announces(a, m.kind)
      PROVE  Fits(a, o, sent, saved \cup {m.kind})
  BY <1>5 DEF Fits, Announces
<1>. QED  BY <1>1, <1>2, <1>3, <1>4, <1>5

-----------------------------------------------------------------------------
(* Announcements stay in front.                                            *)
LEMMA MetasExtend ==
  ASSUME NEW old \in Queue, NEW new \in Queue, NEW S, Extends(new, old, S),
         MetasFirst(old),
         \A m \in S : \A k : Announces(m, k) =>
           /\ \A n \in DOMAIN old : old[n].type \in Pieces => old[n].kind # k
           /\ \A a \in S : a.type \notin Pieces
  PROVE  MetasFirst(new)
<1>1. PICK k \in 0..Len(old) :
        \A n \in DOMAIN new :
          IF n + k <= Len(old) THEN new[n] = old[n + k] ELSE new[n] \in S
  BY DEF Extends
<1>2. \A n \in DOMAIN new : n \in Nat /\ n > 0
  BY DEF Queue
<1>3. \A n \in DOMAIN new : n + k <= Len(old) => n + k \in DOMAIN old
  BY DEF Queue
<1>. SUFFICES ASSUME NEW n \in DOMAIN new, NEW o \in DOMAIN new, n < o,
                     new[n].type \in Pieces, Announces(new[o], new[n].kind)
              PROVE  FALSE
  BY DEF MetasFirst
<1>4. Len(old) \in Nat /\ k \in Nat
  BY DEF Queue
<1>5. CASE o + k <= Len(old)
  <2>1. /\ n + k \in DOMAIN old /\ o + k \in DOMAIN old /\ n + k < o + k
        /\ new[n] = old[n + k] /\ new[o] = old[o + k]
    BY <1>1, <1>2, <1>3, <1>4, <1>5
  <2>. QED  BY <2>1 DEF MetasFirst
<1>6. CASE ~(o + k <= Len(old))
  <2>1. new[o] \in S
    BY <1>1, <1>6
  <2>2. CASE n + k <= Len(old)
    BY <1>1, <1>3, <2>1, <2>2
  <2>3. CASE ~(n + k <= Len(old))
    BY <1>1, <2>1, <2>3
  <2>. QED  BY <2>2, <2>3
<1>. QED  BY <1>5, <1>6

LEMMA MetasTurn ==
  ASSUME TypeOK, TypeOK', NEW d \in Device, NEW s, NEW S, Turn(d, s, S),
         NEW e \in Device, MetasFirst(events[e]),
         e # d => \A m \in S : \A k : Announces(m, k) =>
           /\ \A n \in DOMAIN events[e] :
                events[e][n].type \in Pieces => events[e][n].kind # k
           /\ \A a \in S : a.type \notin Pieces
  PROVE  MetasFirst(events'[e])
<1>1. events[e] \in Queue /\ events'[e] \in Queue
  BY DEF TypeOK
<1>2. CASE e = d
  BY <1>1, <1>2, MetasExtend DEF Turn, Heard
<1>3. CASE e # d
  BY <1>1, <1>3, MetasExtend DEF Turn, Heard
<1>. QED  BY <1>2, <1>3

-----------------------------------------------------------------------------
(* A reader in an exchange has another one for its peer.                   *)

Exchanging == {"SYNCING", "SYNCED"}
Paired(d) == dev[d].state \in Exchanging => dev[d].peer \in Device \ {d}
AllPaired == \A d \in Device : Paired(d)

LEMMA PairedTurn ==
  ASSUME OrderInv, NEW d \in Device, NEW s, NEW S, Effect(d, s, S),
         s.state \in Exchanging
  PROVE  \/ dev[d].state \in Exchanging /\ s.peer = dev[d].peer
         \/ events[d] # <<>> /\ s.peer = Msg(d).from
<1>1. CASE Talks(d, s, S)
  BY <1>1 DEF Talks, MovesOn, Exchanging
<1>2. CASE AcksAgain(d, s, S)
  BY <1>2 DEF AcksAgain, Joining, Takes, Exchanging
<1>3. CASE OwnNews(d, s, S)
  BY <1>3 DEF OwnNews, Exchanging
<1>4. CASE RepeatsMeta(d, s, S)
  BY <1>4 DEF RepeatsMeta, Exchanging
<1>5. CASE BeginsFiles(d, s, S) \/ SendsPiece(d, s, S)
  BY <1>5 DEF BeginsFiles, SendsPiece, Resends, MetaAcked, ChunkAcked, Joining, Takes,
              Exchanging
<1>6. CASE \/ StoresTotals(d, s, S) \/ HearsAck(d, s, S) \/ GoesOn(d, s, S)
           \/ TakesMeta(d, s, S) \/ TakesChunk(d, s, S) \/ TakesFile(d, s, S)
  BY <1>6 DEF StoresTotals, HearsAck, GoesOn, TakesMeta, TakesChunk, TakesFile,
              Joining, Takes
<1>7. ~Fails(d, s, S) /\ ~Resets(d, s, S)
  BY DEF Fails, Resets, Exchanging
<1>. QED  BY <1>1, <1>2, <1>3, <1>4, <1>5, <1>6, <1>7 DEF Effect

LEMMA PairedNext ==
  ASSUME OrderInv, AllPaired, NEW d \in Device, NEW s, NEW S,
         Turn(d, s, S), Effect(d, s, S)
  PROVE  AllPaired'
<1>1. dev'[d] = s /\ \A e \in Device \ {d} : dev'[e] = dev[e]
  BY TurnKeeps DEF OrderInv, CopyInv, WholeInv
<1>2. s.state \in Exchanging => s.peer \in Device \ {d}
  BY PairedTurn, MsgFromOther DEF AllPaired, Paired
<1>. QED  BY <1>1, <1>2 DEF AllPaired, Paired

-----------------------------------------------------------------------------
(* A turn of the sender.                                                   *)

TransfersAgree == \A d, p \in Device : d # p => Transfer(d, p)
TransferInv == PeersInv /\ DoneWhenSynced /\ AllPaired /\ TransfersAgree

LEMMA TransferTypes ==
  ASSUME TypeOK, NEW d \in Device
  PROVE  /\ dev[d] \in DeviceState /\ dev[d].out \in OutTransfer /\ dev[d].in \in InTransfer
         /\ dev[d].saved \in SUBSET Kinds /\ Sent(dev[d]) \in SUBSET Kinds
         /\ dev[d].out.kind \in Kinds \cup {None} /\ dev[d].filesSent \in BOOLEAN
         /\ events[d] \in Queue
<1>1. /\ dev[d] \in DeviceState /\ dev[d].out \in OutTransfer /\ dev[d].in \in InTransfer
      /\ dev[d].saved \in SUBSET Kinds /\ dev[d].filesSent \in BOOLEAN
      /\ events[d] \in Queue
  BY DEF TypeOK, DeviceState
<1>2. dev[d].out.kind \in Kinds \cup {None}
  BY <1>1 DEF OutTransfer
<1>. QED  BY <1>1, <1>2, NextKind DEF Sent

SameTransferOut(o, o2) ==
  /\ o2.kind = o.kind /\ o2.ver = o.ver /\ o2.size = o.size
  /\ o2.metaAcked = o.metaAcked /\ o2.chunk = o.chunk /\ o2.doneSent = o.doneSent

(* Nothing that concerns a receiver.                                       *)
Offers == {"FILE_META", "FILE_CHUNK", "FILE_DONE"}
OffersNothing(S) == \A m \in S : m.type \notin Offers

LEMMA SenderStep ==
  ASSUME TypeOK, TypeOK', NEW d \in Device, NEW p \in Device, d # p, Transfer(d, p),
         NEW s, NEW S, Turn(d, s, S),
         s.filesSent => s.out.kind = None,
         Agree(s.out, Sent(s), dev[p].in, dev[p].saved),
         \A m \in Packet : Fits(m, dev[d].out, Sent(dev[d]), dev[p].saved)
                             => Fits(m, s.out, Sent(s), dev[p].saved),
         \A m \in Packet :
           Answers(m, dev[d].out, Sent(dev[d]), dev[p].in, dev[p].saved)
             => Answers(m, s.out, Sent(s), dev[p].in, dev[p].saved),
         \A m \in S : Fits(m, s.out, Sent(s), dev[p].saved),
         \A m \in S : \A k : Announces(m, k) =>
           /\ \A a \in Packet : Fits(a, dev[d].out, Sent(dev[d]), dev[p].saved)
                /\ a.type \in Pieces => a.kind # k
           /\ \A a \in S : a.type \notin Pieces
  PROVE  Transfer(d, p)'
<1>. DEFINE x == dev[d]
            y == dev[p]
            Old == Fitting(x.out, Sent(x), y.saved)
            New == Fitting(s.out, Sent(s), y.saved)
            OldA == Answering(x.out, Sent(x), y.in, y.saved)
            NewA == Answering(s.out, Sent(s), y.in, y.saved)
<1>1. dev'[d] = s /\ dev'[p] = y /\ \A m \in S : m \in Packet
  BY TurnKeeps DEF Turn
<1>2. Within(events[p], Old) /\ Within(events[d], OldA) /\ MetasFirst(events[p])
  BY DEF Transfer
<1>3. Within(events'[p], New)
  <2>1. Within(events[p], New) /\ \A m \in S : m \in New
    BY <1>1, <1>2 DEF Within, Fitting
  <2>. HIDE DEF New
  <2>. QED  BY <2>1, QueuesWithin
<1>4. Within(events'[d], NewA)
  <2>1. Within(events[d], NewA)
    BY <1>2 DEF Within, Answering
  <2>. HIDE DEF NewA
  <2>. QED  BY <2>1, QueuesWithin
<1>5. MetasFirst(events'[p])
  <2>1. \A n \in DOMAIN events[p] :
          events[p][n] \in Packet /\ Fits(events[p][n], x.out, Sent(x), y.saved)
    BY <1>2 DEF Within, Fitting
  <2>. QED  BY <1>2, <2>1, MetasTurn
<1>6. Sent(dev[d])' = Sent(s)
  BY <1>1 DEF Sent, Before
<1>7. Fitting(dev[d].out, Sent(dev[d]), dev[p].saved)' = New
  BY <1>1, <1>6
<1>8. Answering(dev[d].out, Sent(dev[d]), dev[p].in, dev[p].saved)' = NewA
  BY <1>1, <1>6
<1>9. Agree(dev[d].out, Sent(dev[d]), dev[p].in, dev[p].saved)'
  BY <1>1, <1>6
<1>. HIDE DEF New, NewA
<1>. QED  BY <1>1, <1>3, <1>4, <1>5, <1>7, <1>8, <1>9 DEF Transfer

LEMMA SenderSame ==
  ASSUME TypeOK, TypeOK', NEW d \in Device, NEW p \in Device, d # p, Transfer(d, p),
         NEW s, NEW S, Turn(d, s, S),
         SameTransferOut(dev[d].out, s.out), s.filesSent = dev[d].filesSent,
         OffersNothing(S)
  PROVE  Transfer(d, p)'
<1>. DEFINE x == dev[d]
            y == dev[p]
<1>1. Sent(s) = Sent(x)
  BY DEF Sent, SameTransferOut
<1>2. s.filesSent => s.out.kind = None
  BY DEF Transfer, SameTransferOut
<1>3. Agree(s.out, Sent(s), y.in, y.saved)
  <2>1. Agree(x.out, Sent(x), y.in, y.saved)
    BY DEF Transfer
  <2>. QED  BY <1>1, <2>1 DEF Agree, SameTransferOut
<1>4. \A m \in Packet : Fits(m, x.out, Sent(x), y.saved) => Fits(m, s.out, Sent(s), y.saved)
  BY <1>1 DEF Fits, SameTransferOut
<1>5. \A m \in Packet : Answers(m, x.out, Sent(x), y.in, y.saved)
                          => Answers(m, s.out, Sent(s), y.in, y.saved)
  BY <1>1 DEF Answers, SameTransferOut
<1>6. \A m \in S : Fits(m, s.out, Sent(s), y.saved) /\ \A k : ~Announces(m, k)
  BY DEF OffersNothing, Offers, Fits, Announces
<1>. QED  BY <1>2, <1>3, <1>4, <1>5, <1>6, SenderStep

LEMMA SenderNext ==
  ASSUME TypeOK, TypeOK', NEW d \in Device, NEW p \in Device, d # p, Transfer(d, p),
         NEW s, NEW S, Turn(d, s, S), NextFile(d, s, S),
         \/ dev[d].out.kind = None /\ ~dev[d].filesSent
         \/ dev[d].out.kind \in dev[p].saved
  PROVE  Transfer(d, p)'
<1>. DEFINE x == dev[d]
            y == dev[p]
            o == x.out
            k == KindAfter(o.kind)
<1>1. /\ o \in OutTransfer /\ y.in \in InTransfer /\ y.saved \in SUBSET Kinds
      /\ Sent(x) \in SUBSET Kinds /\ o.kind \in Kinds \cup {None}
  BY TransferTypes
<1>2. s \in DeviceState /\ s.out \in OutTransfer /\ None \notin Kinds /\ \A m \in S : m \in Packet
  BY SyncConstants DEF Turn, DeviceState
<1>3. ~x.filesSent /\ Sent(x) = Before(o.kind)
  BY <1>1, <1>2 DEF Transfer, Sent
<1>4. /\ k # None => k \in Kinds /\ Before(k) = Before(o.kind) \cup ({o.kind} \ {None})
      /\ k = None => o.kind \in Kinds /\ Kinds = Before(o.kind) \cup {o.kind}
      /\ k # None => k \notin Before(k)
  BY <1>1, <1>2, NextKind
<1>5. /\ s.out.kind = k /\ ~s.out.metaAcked /\ s.out.chunk = 0 /\ ~s.out.doneSent
      /\ k # None => s.out.ver = local[d][k] /\ ~s.filesSent
      /\ k = None => s.filesSent
  <2>1. CASE k = None
    <3>1. s.out = NoOut /\ s.filesSent
      BY <2>1 DEF NextFile
    <3>. QED  BY <2>1, <3>1 DEF NoOut
  <2>2. CASE k # None
    <3>1. /\ s.filesSent = x.filesSent
          /\ \E n : s.out = [NoOut EXCEPT !.kind = k, !.ver = local[d][k], !.size = n]
      BY <2>2 DEF NextFile
    <3>. QED  BY <1>3, <2>2, <3>1 DEF NoOut
  <2>. QED  BY <2>1, <2>2
<1>6. Sent(s) = Sent(x) \cup ({o.kind} \ {None}) /\ Sent(s) \in SUBSET Kinds
  <2>1. CASE k = None
    BY <1>2, <1>3, <1>4, <1>5, <2>1 DEF Sent
  <2>2. CASE k # None
    BY <1>1, <1>3, <1>4, <1>5, <2>2 DEF Sent
  <2>. QED  BY <2>1, <2>2
<1>7. s.out.kind \notin Sent(s)
  <2>1. CASE k = None
    BY <1>2, <1>5, <1>6, <2>1
  <2>2. CASE k # None
    BY <1>4, <1>5, <2>2 DEF Sent
  <2>. QED  BY <2>1, <2>2
<1>. HIDE DEF k
<1>8. Agree(o, Sent(x), y.in, y.saved)
  BY DEF Transfer
<1>9. /\ Agree(s.out, Sent(s), y.in, y.saved)
      /\ \A m \in Packet :
           Fits(m, o, Sent(x), y.saved) => Fits(m, s.out, Sent(s), y.saved)
      /\ \A m \in Packet : Answers(m, o, Sent(x), y.in, y.saved)
                             => Answers(m, s.out, Sent(s), y.in, y.saved)
      /\ \A m \in Packet : Fits(m, o, Sent(x), y.saved) =>
           /\ m.type # "FILE_META"
           /\ m.type \in Pieces => m.kind # s.out.kind
      /\ s.out.kind \notin y.saved
  <2>1. o.kind = None \/ o.kind \in y.saved
    OBVIOUS
  <2>. DEFINE q == s.out
              old == Sent(x)
              new == Sent(s)
              in == y.in
              saved == y.saved
  <2>2. /\ o \in OutTransfer /\ q \in OutTransfer /\ in \in InTransfer
        /\ old \in SUBSET Kinds /\ new \in SUBSET Kinds /\ saved \in SUBSET Kinds
        /\ Agree(o, old, in, saved) /\ (o.kind = None \/ o.kind \in saved)
        /\ new = old \cup ({o.kind} \ {None}) /\ q.kind \notin new
        /\ ~q.metaAcked /\ q.chunk = 0 /\ ~q.doneSent
    BY <1>1, <1>2, <1>5, <1>6, <1>7, <1>8, <2>1
  <2>. HIDE DEF o, q, old, new, in, saved
  <2>3. /\ Agree(q, new, in, saved)
        /\ \A m \in Packet : Fits(m, o, old, saved) => Fits(m, q, new, saved)
        /\ \A m \in Packet : Answers(m, o, old, in, saved) => Answers(m, q, new, in, saved)
        /\ \A m \in Packet : Fits(m, o, old, saved) =>
             /\ m.type # "FILE_META"
             /\ m.type \in Pieces => m.kind # q.kind
        /\ q.kind \notin saved
    BY <2>2, NextAgrees
  <2>. QED  BY <2>3 DEF o, q, old, new, in, saved
<1>10. ASSUME NEW m \in S
       PROVE  /\ m.type = "FILE_META" /\ m.kind = s.out.kind /\ m.ver = s.out.ver
              /\ m.idx = s.out.size /\ S = {m}
  <2>1. PICK n : /\ k # None /\ S = {FilePacket("FILE_META", d, k, n, local[d][k])}
                 /\ s.out = [NoOut EXCEPT !.kind = k, !.ver = local[d][k], !.size = n]
    BY <1>10 DEF NextFile, k
  <2>2. m = FilePacket("FILE_META", d, k, n, local[d][k]) /\ S = {m} /\ s.out.size = n
    BY <2>1 DEF NoOut
  <2>3. m.type = "FILE_META" /\ m.kind = k /\ m.ver = local[d][k] /\ m.idx = n
    BY <2>2 DEF FilePacket
  <2>. QED  BY <1>5, <2>1, <2>2, <2>3
<1>11. \A m \in S : Fits(m, s.out, Sent(s), y.saved)
  BY <1>9, <1>10 DEF Fits
<1>12. \A m \in S : \A j : Announces(m, j) =>
         /\ \A a \in Packet : Fits(a, o, Sent(x), y.saved)
              /\ a.type \in Pieces => a.kind # j
         /\ \A a \in S : a.type \notin Pieces
  BY <1>9, <1>10 DEF Announces, Pieces
<1>13. s.filesSent => s.out.kind = None
  BY <1>5
<1>. QED  BY <1>9, <1>11, <1>12, <1>13, SenderStep

LEMMA SenderMeta ==
  ASSUME TypeOK, TypeOK', NEW d \in Device, NEW p \in Device, d # p, Transfer(d, p),
         NEW s, NEW S, Turn(d, s, S), RepeatsMeta(d, s, S)
  PROVE  Transfer(d, p)'
<1>. DEFINE x == dev[d]
            y == dev[p]
            o == x.out
<1>1. s = x /\ o.kind # None /\ ~o.metaAcked
  BY DEF RepeatsMeta
<1>2. Agree(o, Sent(x), y.in, y.saved) /\ (x.filesSent => o.kind = None)
  BY DEF Transfer
<1>3. o.kind \notin y.saved /\ ~o.doneSent /\ o.kind \notin Sent(x)
  BY <1>1, <1>2 DEF Agree
<1>4. ASSUME NEW m \in S
      PROVE  /\ m.type = "FILE_META" /\ m.kind = o.kind /\ m.ver = o.ver
             /\ m.idx = o.size /\ S = {m}
  <2>1. m = FilePacket("FILE_META", d, o.kind, o.size, o.ver) /\ S = {m}
    BY <1>1, <1>4 DEF RepeatsMeta
  <2>. QED  BY <2>1 DEF FilePacket
<1>5. \A m \in S : Fits(m, o, Sent(x), y.saved)
  BY <1>3, <1>4 DEF Fits
<1>6. \A m \in S : \A k : Announces(m, k) =>
        /\ \A a \in Packet : Fits(a, o, Sent(x), y.saved)
             /\ a.type \in Pieces => a.kind # k
        /\ \A a \in S : a.type \notin Pieces
  BY <1>1, <1>3, <1>4 DEF Announces, Fits, Pieces
<1>. QED  BY <1>1, <1>2, <1>5, <1>6, SenderStep

LEMMA SenderPiece ==
  ASSUME TypeOK, TypeOK', NEW d \in Device, NEW p \in Device, d # p, Transfer(d, p),
         NEW s, NEW S, Turn(d, s, S), SendsPiece(d, s, S)
  PROVE  Transfer(d, p)'
<1>. DEFINE x == dev[d]
            y == dev[p]
            o == x.out
            q == s.out
            k == o.kind
            old == Sent(x)
            in == y.in
            saved == y.saved
<1>1. /\ o \in OutTransfer /\ in \in InTransfer /\ saved \in SUBSET Kinds
      /\ old \in SUBSET Kinds /\ o.kind \in Kinds \cup {None} /\ events[d] \in Queue
  BY TransferTypes
<1>2. s \in DeviceState /\ q \in OutTransfer /\ None \notin Kinds
  BY SyncConstants DEF Turn, DeviceState
<1>3. /\ k \in Kinds /\ q.kind = k /\ q.ver = o.ver /\ q.size = o.size
      /\ s.filesSent = x.filesSent
  BY DEF SendsPiece
<1>4. /\ Agree(o, old, in, saved) /\ Within(events[d], Answering(o, old, in, saved))
      /\ ~x.filesSent
  BY <1>2, <1>3 DEF Transfer
<1>5. q.chunk \in Nat /\ o.size \in Nat /\ q.doneSent \in BOOLEAN /\ o.doneSent \in BOOLEAN
  BY <1>1, <1>2, <1>3, SyncConstants DEF OutTransfer
<1>6. q.doneSent = (o.doneSent \/ q.chunk >= o.size)
  BY <1>5 DEF SendsPiece
<1>7. Takes(d) => Msg(d) \in Packet /\ Answers(Msg(d), o, old, in, saved)
  <2>. SUFFICES ASSUME Takes(d)
                PROVE  Msg(d) \in Packet /\ Answers(Msg(d), o, old, in, saved)
    OBVIOUS
  <2>1. 1 \in DOMAIN events[d] /\ Msg(d) = events[d][1]
    BY <1>1 DEF Takes, Queue, Msg
  <2>. QED  BY <1>4, <2>1 DEF Within, Answering
<1>8. Acknowledges(o, q, old, in, saved)
  <2>1. CASE Resends(d, s)
    BY <2>1 DEF Resends, Acknowledges
  <2>2. CASE MetaAcked(d, s)
    BY <1>7, <2>2 DEF MetaAcked, Acknowledges, Joining
  <2>3. CASE ChunkAcked(d, s)
    BY <1>7, <2>3 DEF ChunkAcked, Acknowledges, Joining
  <2>. QED  BY <2>1, <2>2, <2>3 DEF SendsPiece
<1>9. Sent(s) = old
  BY <1>3 DEF Sent
<1>10. /\ q.chunk >= o.size => S = {FilePacket("FILE_DONE", d, k, 0, 0)}
       /\ q.chunk < o.size /\ q.metaAcked =>
            S = {FilePacket("FILE_CHUNK", d, k, q.chunk, q.handle)}
  BY DEF SendsPiece
<1>11. s.filesSent => q.kind = None
  BY <1>3, <1>4
<1>12. /\ Agree(q, old, in, saved) /\ q.metaAcked
       /\ q.chunk >= o.size \/ (q.chunk < o.size /\ ~q.doneSent)
       /\ \A m \in Packet : Fits(m, o, old, saved) => Fits(m, q, old, saved)
       /\ \A m \in Packet : Answers(m, o, old, in, saved) => Answers(m, q, old, in, saved)
  <2>. HIDE DEF o, q, old, in, saved
  <2>. QED  BY <1>1, <1>2, <1>3, <1>4, <1>6, <1>8, PieceAgrees
<1>13. ASSUME NEW m \in S PROVE Fits(m, q, old, saved) /\ m.type \in Pieces
  <2>1. \A t, i, v : LET f == FilePacket(t, d, k, i, v)
                     IN  f.type = t /\ f.kind = k /\ f.idx = i
    BY DEF FilePacket
  <2>. HIDE DEF o, q, old, k, saved
  <2>2. CASE q.chunk >= o.size
    <3>1. m = FilePacket("FILE_DONE", d, k, 0, 0) /\ q.doneSent
      BY <1>5, <1>6, <1>10, <1>13, <2>2
    <3>2. m.type = "FILE_DONE" /\ m.kind = k
      BY <2>1, <3>1
    <3>. QED  BY <1>3, <3>1, <3>2 DEF Fits, Pieces
  <2>3. CASE q.chunk < o.size
    <3>1. m = FilePacket("FILE_CHUNK", d, k, q.chunk, q.handle)
      BY <1>5, <1>10, <1>12, <1>13, <2>3
    <3>2. m.type = "FILE_CHUNK" /\ m.kind = k /\ m.idx = q.chunk
      BY <2>1, <3>1
    <3>. QED  BY <1>3, <1>5, <1>12, <2>3, <3>2 DEF Fits, Pieces
  <2>. QED  BY <1>5, <2>2, <2>3
<1>14. \A m \in S : \A j : ~Announces(m, j)
  BY <1>13 DEF Announces, Pieces
<1>15. \A m \in S : Fits(m, s.out, Sent(s), dev[p].saved)
  BY <1>9, <1>13
<1>. QED  BY <1>9, <1>11, <1>12, <1>14, <1>15, SenderStep

(* Every turn of the sender is one of these.                               *)
LEMMA SenderTurn ==
  ASSUME TransferInv, TypeOK', TwoReaders, Lasting,
         NEW d \in Device, NEW p \in Device, d # p,
         NEW s, NEW S, Turn(d, s, S), Effect(d, s, S)
  PROVE  Transfer(d, p)'
<1>. DEFINE x == dev[d]
            y == dev[p]
<1>1. /\ TypeOK /\ Transfer(d, p) /\ IdleInv
  BY DEF TransferInv, TransfersAgree, PeersInv, OrderInv, CopyInv, WholeInv
<1>2. x.out \in OutTransfer /\ events[d] \in Queue
  BY <1>1, TransferTypes
<1>3. ASSUME SameOut(x, s), OffersNothing(S) PROVE Transfer(d, p)'
  BY <1>1, <1>3, SenderSame DEF SameOut, SameTransferOut
<1>4. CASE BeginsFiles(d, s, S)
  BY <1>1, <1>4, SenderNext DEF BeginsFiles
<1>5. CASE GoesOn(d, s, S)
  <2>1. /\ events[d] # <<>> /\ Msg(d).type = "DONE_ACK" /\ Msg(d).kind = x.out.kind
        /\ NextFile(d, s, S)
    BY <1>5 DEF GoesOn, Joining, Takes
  <2>2. Msg(d) = events[d][1] /\ 1 \in DOMAIN events[d]
    BY <1>2, <2>1 DEF Queue, Msg
  <2>3. x.out.kind \in y.saved
    BY <1>1, <2>1, <2>2 DEF Transfer, Within, Answering, Answers
  <2>. QED  BY <1>1, <2>1, <2>3, SenderNext
<1>6. CASE RepeatsMeta(d, s, S)
  BY <1>1, <1>6, SenderMeta
<1>7. CASE SendsPiece(d, s, S)
  BY <1>1, <1>7, SenderPiece
<1>8. \A t, e : Plain(t, e).type = t
  BY DEF Plain
<1>9. Stats(d).type = "STATS"
  BY DEF Stats, Plain
<1>10. CASE Talks(d, s, S) \/ StoresTotals(d, s, S)
  <2>1. OffersNothing(S)
    BY <1>8, <1>9, <1>10 DEF Talks, StoresTotals, OffersNothing, Offers
  <2>. QED  BY <1>3, <1>10, <2>1 DEF Talks, StoresTotals
<1>11. CASE Fails(d, s, S)
  <2>1. OffersNothing(S)
    BY <1>11 DEF Fails, OffersNothing
  <2>2. SameTransferOut(x.out, s.out) /\ s.filesSent = x.filesSent
    BY <1>2, <1>11 DEF Fails, SameTransferOut, OutTransfer
  <2>. QED  BY <1>1, <2>1, <2>2, SenderSame
<1>12. CASE Resets(d, s, S)
  <2>1. x.state \in Early
    BY <1>12 DEF Resets, Lasting
  <2>2. SameOut(x, s)
    BY <1>1, <1>12, <2>1 DEF Resets, Idle, IdleInv, SameOut, Turn, TypeOK, DeviceState
  <2>. QED  BY <1>3, <1>12, <2>2 DEF Resets, OffersNothing
<1>13. CASE HearsAck(d, s, S) \/ OwnNews(d, s, S)
  BY <1>3, <1>13 DEF HearsAck, OwnNews, OffersNothing
<1>14. CASE TakesMeta(d, s, S) \/ TakesChunk(d, s, S) \/ TakesFile(d, s, S)
            \/ AcksAgain(d, s, S)
  <2>1. \A m \in S : \E t \in FileAcks : m.type = t
    <3>1. \A m \in S : \E t \in FileAcks : m = FilePacket(t, d, Msg(d).kind, AckIdx(Msg(d)), 0)
      BY <1>14 DEF TakesMeta, TakesChunk, TakesFile, AcksAgain, FileAcks, AckOf
    <3>. QED  BY <3>1 DEF FilePacket
  <2>2. OffersNothing(S)
    BY <2>1 DEF OffersNothing, Offers, FileAcks
  <2>. QED  BY <1>3, <1>14, <2>2 DEF TakesMeta, TakesChunk, TakesFile, AcksAgain
<1>. QED
  BY <1>4, <1>5, <1>6, <1>7, <1>10, <1>11, <1>12, <1>13, <1>14 DEF Effect

-----------------------------------------------------------------------------
(* A turn of the receiver.                                                 *)

AcksNothing(S) == \A m \in S : m.type \notin FileAcks

LEMMA ReceiverStep ==
  ASSUME TypeOK, TypeOK', NEW d \in Device, NEW p \in Device, d # p, Transfer(d, p),
         NEW s, NEW S, Turn(p, s, S),
         Agree(dev[d].out, Sent(dev[d]), s.in, s.saved),
         Within(events'[p], Fitting(dev[d].out, Sent(dev[d]), s.saved)),
         \A m \in Packet :
           Answers(m, dev[d].out, Sent(dev[d]), dev[p].in, dev[p].saved)
             => Answers(m, dev[d].out, Sent(dev[d]), s.in, s.saved),
         \A m \in S : Answers(m, dev[d].out, Sent(dev[d]), s.in, s.saved)
  PROVE  Transfer(d, p)'
<1>. DEFINE x == dev[d]
            NewA == Answering(x.out, Sent(x), s.in, s.saved)
<1>1. dev'[p] = s /\ dev'[d] = x /\ \A m \in S : m \in Packet
  BY TurnKeeps DEF Turn
<1>2. Within(events'[d], NewA)
  <2>1. Within(events[d], NewA) /\ \A m \in S : m \in NewA
    BY <1>1 DEF Transfer, Within, Answering
  <2>. HIDE DEF NewA
  <2>. QED  BY <2>1, QueuesWithin
<1>3. MetasFirst(events'[p])
  BY MetasTurn DEF Transfer
<1>4. Sent(dev[d])' = Sent(x)
  BY <1>1 DEF Sent, Before
<1>5. /\ Fitting(dev[d].out, Sent(dev[d]), dev[p].saved)' = Fitting(x.out, Sent(x), s.saved)
      /\ Answering(dev[d].out, Sent(dev[d]), dev[p].in, dev[p].saved)' = NewA
      /\ Agree(dev[d].out, Sent(dev[d]), dev[p].in, dev[p].saved)'
  BY <1>1, <1>4
<1>6. x.filesSent => x.out.kind = None
  BY DEF Transfer
<1>. HIDE DEF NewA
<1>. QED  BY <1>1, <1>2, <1>3, <1>5, <1>6 DEF Transfer

(* The receiver takes no file packet, or takes one without saving.         *)
LEMMA ReceiverTakes ==
  ASSUME TypeOK, TypeOK', NEW d \in Device, NEW p \in Device, d # p, Transfer(d, p),
         NEW s, NEW S, Turn(p, s, S), s.saved = dev[p].saved,
         Agree(dev[d].out, Sent(dev[d]), s.in, dev[p].saved),
         \A m \in Packet :
           Answers(m, dev[d].out, Sent(dev[d]), dev[p].in, dev[p].saved)
             => Answers(m, dev[d].out, Sent(dev[d]), s.in, dev[p].saved),
         \A m \in S : Answers(m, dev[d].out, Sent(dev[d]), s.in, dev[p].saved)
  PROVE  Transfer(d, p)'
<1>. DEFINE F == Fitting(dev[d].out, Sent(dev[d]), dev[p].saved)
<1>1. Within(events[p], F)
  BY DEF Transfer
<1>. HIDE DEF F
<1>2. Within(events'[p], F)
  BY <1>1, QueuesWithin
<1>. QED  BY <1>2, ReceiverStep DEF F

LEMMA ReceiverSame ==
  ASSUME TypeOK, TypeOK', NEW d \in Device, NEW p \in Device, d # p, Transfer(d, p),
         NEW s, NEW S, Turn(p, s, S), SameIn(dev[p], s), AcksNothing(S)
  PROVE  Transfer(d, p)'
<1>1. Agree(dev[d].out, Sent(dev[d]), dev[p].in, dev[p].saved)
  BY DEF Transfer
<1>2. \A m \in S : Answers(m, dev[d].out, Sent(dev[d]), s.in, dev[p].saved)
  BY DEF AcksNothing, FileAcks, Answers
<1>. QED  BY <1>1, <1>2, ReceiverTakes DEF SameIn

(* What p takes from its queue fits.                                       *)
LEMMA TakenFits ==
  ASSUME TransferInv, TwoReaders, NEW d \in Device, NEW p \in Device, d # p, Takes(p)
  PROVE  /\ Msg(p) \in Packet /\ Msg(p).from = d
         /\ Fits(Msg(p), dev[d].out, Sent(dev[d]), dev[p].saved)
         /\ Msg(p).type \in Offers => Msg(p).kind \in Kinds
<1>1. TypeOK /\ OrderInv /\ Transfer(d, p)
  BY DEF TransferInv, TransfersAgree, PeersInv, OrderInv, CopyInv, WholeInv
<1>2. /\ Msg(p) \in Packet /\ Msg(p).from \in Device /\ Msg(p).from # p
      /\ 1 \in DOMAIN events[p] /\ Msg(p) = events[p][1]
  BY <1>1, MsgFromOther DEF Takes
<1>3. Msg(p).from = d
  BY <1>2, TheOther
<1>4. Msg(p).type \in Offers => Msg(p).kind \in Kinds
  BY <1>2, FileMsgType DEF Offers, FileTypes
<1>. QED  BY <1>1, <1>2, <1>3, <1>4 DEF Transfer, Within, Fitting

LEMMA ReceiverMeta ==
  ASSUME TransferInv, TypeOK', TwoReaders, NEW d \in Device, NEW p \in Device, d # p,
         NEW s, NEW S, Turn(p, s, S), TakesMeta(p, s, S)
  PROVE  Transfer(d, p)'
<1>. DEFINE o == dev[d].out
            sent == Sent(dev[d])
            in == dev[p].in
            saved == dev[p].saved
            m == Msg(p)
            a == FilePacket("META_ACK", p, m.kind, AckIdx(m), 0)
<1>1. /\ TypeOK /\ OrderInv /\ Transfer(d, p) /\ Agree(o, sent, in, saved)
  BY DEF TransferInv, TransfersAgree, PeersInv, OrderInv, CopyInv, WholeInv, Transfer
<1>2. /\ Takes(p) /\ m.type = "FILE_META" /\ s.saved = saved
      /\ s.in = IF SameTransfer(in, m) THEN in ELSE Incoming(m)
      /\ S = {a}
  BY DEF TakesMeta, Joining
<1>3. m \in Packet /\ m.from = d /\ Fits(m, o, sent, saved) /\ m.kind \in Kinds
  BY <1>2, TakenFits DEF Offers
<1>4. /\ o \in OutTransfer /\ in \in InTransfer /\ saved \in SUBSET Kinds
      /\ sent \in SUBSET Kinds /\ s.in \in InTransfer /\ None \notin Kinds
  BY <1>1, TransferTypes, SyncConstants DEF Turn, DeviceState
<1>5. m.kind = o.kind /\ m.ver = o.ver /\ m.idx = o.size
  BY <1>2, <1>3 DEF Fits
<1>6. in.kind # None => SameTransfer(in, m)
  <2>1. in.kind # None => in.kind = m.kind /\ in.ver = m.ver /\ in.size = m.idx
    BY <1>1, <1>5 DEF Agree
  <2>2. in.kind = m.kind => in.src = d
    BY <1>1, <1>3, ComingFromOther DEF Coming
  <2>. QED  BY <1>3, <2>1, <2>2 DEF SameTransfer
<1>7. s.in.kind = m.kind
  <2>1. CASE SameTransfer(in, m)
    BY <1>2, <2>1 DEF SameTransfer
  <2>2. CASE ~SameTransfer(in, m)
    BY <1>2, <2>2 DEF Incoming
  <2>. QED  BY <2>1, <2>2
<1>8. /\ Agree(o, sent, s.in, saved)
      /\ \A b \in Packet : Answers(b, o, sent, in, saved) => Answers(b, o, sent, s.in, saved)
  <2>1. CASE SameTransfer(in, m)
    BY <1>1, <1>2, <2>1
  <2>2. CASE ~SameTransfer(in, m)
    <3>. DEFINE in2 == s.in
    <3>1. in.kind = None
      BY <1>6, <2>2
    <3>2. /\ in2.kind = m.kind /\ in2.ver = m.ver /\ in2.size = m.idx
          /\ Len(in2.data) = 0 /\ in2 \in InTransfer
      BY <1>2, <1>4, <2>2 DEF Incoming
    <3>. HIDE DEF o, sent, in, saved, m, in2
    <3>3. /\ Agree(o, sent, in2, saved)
          /\ \A b \in Packet :
               Answers(b, o, sent, in, saved) => Answers(b, o, sent, in2, saved)
      BY <1>1, <1>2, <1>3, <1>4, <3>1, <3>2, MetaAgrees
    <3>. QED  BY <3>3 DEF in2
  <2>. QED  BY <2>1, <2>2
<1>9. a.type = "META_ACK" /\ a.kind = m.kind
  BY DEF FilePacket
<1>10. Answers(a, o, sent, s.in, saved)
  BY <1>5, <1>7, <1>9 DEF Answers
<1>. HIDE DEF a
<1>. QED  BY <1>1, <1>2, <1>8, <1>10, ReceiverTakes

LEMMA ReceiverChunk ==
  ASSUME TransferInv, TypeOK', TwoReaders, NEW d \in Device, NEW p \in Device, d # p,
         NEW s, NEW S, Turn(p, s, S), TakesChunk(p, s, S)
  PROVE  Transfer(d, p)'
<1>. DEFINE o == dev[d].out
            sent == Sent(dev[d])
            in == dev[p].in
            in2 == s.in
            saved == dev[p].saved
            m == Msg(p)
            a == FilePacket("CHUNK_ACK", p, m.kind, AckIdx(m), 0)
<1>1. /\ TypeOK /\ Transfer(d, p) /\ Agree(o, sent, in, saved)
  BY DEF TransferInv, TransfersAgree, PeersInv, OrderInv, CopyInv, WholeInv, Transfer
<1>2. /\ Takes(p) /\ m.type = "FILE_CHUNK" /\ s.saved = saved
      /\ in.kind = m.kind /\ m.idx = Len(in.data) /\ S = {a}
      /\ \E i \in {m.idx, m.idx + 1} :
           in2 = [in EXCEPT !.data = Append(@, PieceOf(m.from, m.ver, i))]
  BY DEF TakesChunk, Joining, IsNextChunk
<1>3. m \in Packet /\ Fits(m, o, sent, saved) /\ m.kind \in Kinds
  BY <1>2, TakenFits DEF Offers
<1>4. /\ o \in OutTransfer /\ in \in InTransfer /\ saved \in SUBSET Kinds
      /\ sent \in SUBSET Kinds /\ in2 \in InTransfer
  BY <1>1, TransferTypes DEF Turn, DeviceState
<1>5. /\ in2.kind = in.kind /\ in2.ver = in.ver /\ in2.size = in.size
      /\ Len(in2.data) = Len(in.data) + 1
  <2>1. PICK x : in2 = [in EXCEPT !.data = Append(@, x)]
    BY <1>2
  <2>2. in.data \in Seq(Piece)
    BY <1>4 DEF InTransfer
  <2>. HIDE DEF in, in2
  <2>3. /\ in2.kind = in.kind /\ in2.ver = in.ver /\ in2.size = in.size
        /\ in2.data = Append(in.data, x)
    BY <1>4, <2>1 DEF InTransfer
  <2>. QED  BY <2>2, <2>3
<1>6. /\ Agree(o, sent, in2, saved)
      /\ \A b \in Packet : Answers(b, o, sent, in, saved) => Answers(b, o, sent, in2, saved)
      /\ o.metaAcked /\ m.idx <= o.chunk /\ m.idx < o.size
  <2>. HIDE DEF o, sent, in, in2, saved, m
  <2>. QED  BY <1>1, <1>2, <1>3, <1>4, <1>5, ChunkAgrees
<1>7. a.type = "CHUNK_ACK" /\ a.kind = m.kind /\ a.idx = m.idx
  BY <1>2 DEF FilePacket, AckIdx
<1>8. m.kind = o.kind /\ m.idx < Len(in2.data)
  <2>1. in.kind # None /\ Len(in.data) \in Nat
    BY <1>2, <1>3, <1>4, SyncConstants DEF InTransfer
  <2>. QED  BY <1>1, <1>2, <1>5, <2>1 DEF Agree
<1>9. Answers(a, o, sent, in2, saved)
  BY <1>2, <1>5, <1>6, <1>7, <1>8 DEF Answers
<1>. HIDE DEF a
<1>10. /\ s.saved = dev[p].saved /\ Agree(dev[d].out, Sent(dev[d]), s.in, dev[p].saved)
       /\ \A b \in Packet :
            Answers(b, dev[d].out, Sent(dev[d]), dev[p].in, dev[p].saved)
              => Answers(b, dev[d].out, Sent(dev[d]), s.in, dev[p].saved)
       /\ \A b \in S : Answers(b, dev[d].out, Sent(dev[d]), s.in, dev[p].saved)
  BY <1>2, <1>6, <1>9
<1>. QED  BY <1>1, <1>10, ReceiverTakes

LEMMA ReceiverFile ==
  ASSUME TransferInv, TypeOK', TwoReaders, NEW d \in Device, NEW p \in Device, d # p,
         NEW s, NEW S, Turn(p, s, S), TakesFile(p, s, S)
  PROVE  Transfer(d, p)'
<1>. DEFINE o == dev[d].out
            sent == Sent(dev[d])
            in == dev[p].in
            in2 == s.in
            saved == dev[p].saved
            m == Msg(p)
            a == FilePacket("DONE_ACK", p, m.kind, AckIdx(m), 0)
<1>1. /\ TypeOK /\ Transfer(d, p) /\ Agree(o, sent, in, saved)
      /\ Within(events[p], Fitting(o, sent, saved)) /\ MetasFirst(events[p])
  BY DEF TransferInv, TransfersAgree, PeersInv, OrderInv, CopyInv, WholeInv, Transfer
<1>2. /\ Takes(p) /\ m.type = "FILE_DONE" /\ s.saved = saved \cup {m.kind}
      /\ in.kind = m.kind /\ S = {a} /\ in2 = NoIn
  BY DEF TakesFile, Joining, Stores, Completed
<1>3. m \in Packet /\ Fits(m, o, sent, saved) /\ m.kind \in Kinds
  BY <1>2, TakenFits DEF Offers
<1>4. /\ o \in OutTransfer /\ in \in InTransfer /\ saved \in SUBSET Kinds
      /\ sent \in SUBSET Kinds /\ in2 \in InTransfer /\ events[p] \in Queue
  BY <1>1, TransferTypes DEF Turn, DeviceState
<1>5. in2.kind = None
  BY <1>2 DEF NoIn
<1>6. /\ Agree(o, sent, in2, saved \cup {m.kind})
      /\ \A b \in Packet :
           Answers(b, o, sent, in, saved) => Answers(b, o, sent, in2, saved \cup {m.kind})
      /\ \A b \in Packet : Fits(b, o, sent, saved) /\ ~Announces(b, m.kind)
           => Fits(b, o, sent, saved \cup {m.kind})
  <2>. HIDE DEF o, sent, in, in2, saved, m
  <2>. QED  BY <1>1, <1>2, <1>3, <1>4, <1>5, DoneAgrees
<1>7. Answers(a, o, sent, in2, saved \cup {m.kind})
  <2>1. a.type = "DONE_ACK" /\ a.kind = m.kind
    BY DEF FilePacket
  <2>. QED  BY <2>1 DEF Answers
<1>8. Within(events'[p], Fitting(o, sent, saved \cup {m.kind}))
  <2>1. /\ events'[p] = Tail(events[p]) /\ 1 \in DOMAIN events[p] /\ m = events[p][1]
        /\ \A n \in DOMAIN Tail(events[p]) :
             n + 1 \in DOMAIN events[p] /\ 1 < n + 1 /\ Tail(events[p])[n] = events[p][n + 1]
    BY <1>2, <1>4 DEF Takes, Queue, Msg
  <2>2. \A n \in DOMAIN events[p] : 1 < n => ~Announces(events[p][n], m.kind)
    BY <1>1, <1>2, <2>1 DEF MetasFirst, Pieces
  <2>3. \A n \in DOMAIN events[p] :
          events[p][n] \in Packet /\ Fits(events[p][n], o, sent, saved)
    BY <1>1 DEF Within, Fitting
  <2>. HIDE DEF m, o, sent, saved
  <2>. QED  BY <1>6, <2>1, <2>2, <2>3 DEF Within, Fitting
<1>. HIDE DEF a
<1>. QED  BY <1>1, <1>2, <1>6, <1>7, <1>8, ReceiverStep

LEMMA ReceiverAgain ==
  ASSUME TransferInv, TypeOK', TwoReaders, NEW d \in Device, NEW p \in Device, d # p,
         NEW s, NEW S, Turn(p, s, S), AcksAgain(p, s, S)
  PROVE  Transfer(d, p)'
<1>. DEFINE o == dev[d].out
            sent == Sent(dev[d])
            in == dev[p].in
            saved == dev[p].saved
            m == Msg(p)
            a == FilePacket(AckOf(m.type), p, m.kind, AckIdx(m), 0)
<1>1. /\ TypeOK /\ Transfer(d, p) /\ Agree(o, sent, in, saved) /\ DoneWhenSynced
  BY DEF TransferInv, TransfersAgree, PeersInv, OrderInv, CopyInv, WholeInv, Transfer
<1>2. /\ Takes(p) /\ m.type \in Offers /\ s.saved = saved /\ s.in = in /\ S = {a}
      /\ \/ saved = Kinds
         \/ m.type = "FILE_CHUNK" /\ IsLastChunk(in, m)
         \/ m.type = "FILE_DONE" /\ m.kind \in saved
  BY <1>1 DEF AcksAgain, Joining, Offers, SameIn, DoneWhenSynced, ExchangeDone
<1>3. m \in Packet /\ Fits(m, o, sent, saved) /\ m.kind \in Kinds
  BY <1>2, TakenFits
<1>4. a.kind = m.kind /\ a.idx = AckIdx(m) /\ a.type = AckOf(m.type)
  BY DEF FilePacket
<1>5. Answers(a, o, sent, in, saved)
  <2>1. CASE m.type = "FILE_META"
    <3>1. m.kind \notin saved /\ saved = Kinds
      BY <1>2, <1>3, <2>1 DEF Fits
    <3>. QED  BY <1>3, <3>1
  <2>2. CASE m.type = "FILE_CHUNK"
    <3>1. a.type = "CHUNK_ACK" /\ a.idx = m.idx
      BY <1>4, <2>2 DEF AckOf, AckIdx
    <3>2. \/ m.kind \in sent
          \/ m.kind = o.kind /\ o.metaAcked /\ m.idx <= o.chunk /\ m.idx < o.size
      BY <1>3, <2>2 DEF Fits
    <3>3. m.kind \in saved \/ (in.kind = m.kind /\ m.idx < Len(in.data))
      <4>1. m.idx \in Nat /\ Len(in.data) \in Nat
        BY <1>1, <1>3, TransferTypes DEF Packet, InTransfer
      <4>. QED  BY <1>2, <1>3, <2>2, <4>1 DEF IsLastChunk
    <3>. QED  BY <1>4, <3>1, <3>2, <3>3 DEF Answers
  <2>3. CASE m.type = "FILE_DONE"
    <3>1. a.type = "DONE_ACK"
      BY <1>4, <2>3 DEF AckOf
    <3>2. m.kind \in saved
      BY <1>2, <1>3, <2>3
    <3>. QED  BY <1>4, <3>1, <3>2 DEF Answers
  <2>. QED  BY <1>2, <2>1, <2>2, <2>3 DEF Offers
<1>. HIDE DEF a
<1>6. /\ s.saved = dev[p].saved /\ Agree(dev[d].out, Sent(dev[d]), s.in, dev[p].saved)
      /\ \A b \in Packet :
           Answers(b, dev[d].out, Sent(dev[d]), dev[p].in, dev[p].saved)
             => Answers(b, dev[d].out, Sent(dev[d]), s.in, dev[p].saved)
      /\ \A b \in S : Answers(b, dev[d].out, Sent(dev[d]), s.in, dev[p].saved)
  BY <1>1, <1>2, <1>5
<1>. QED  BY <1>1, <1>6, ReceiverTakes

(* Every turn of the receiver is one of these.                             *)
LEMMA ReceiverTurn ==
  ASSUME TransferInv, TypeOK', TwoReaders, Lasting,
         NEW d \in Device, NEW p \in Device, d # p,
         NEW s, NEW S, Turn(p, s, S), Effect(p, s, S)
  PROVE  Transfer(d, p)'
<1>. DEFINE y == dev[p]
            o == dev[p].out
<1>1. /\ TypeOK /\ Transfer(d, p) /\ IdleInv
  BY DEF TransferInv, TransfersAgree, PeersInv, OrderInv, CopyInv, WholeInv
<1>2. o \in OutTransfer /\ o.kind \in Kinds \cup {None} /\ s \in DeviceState
  BY <1>1, TransferTypes DEF Turn
<1>3. ASSUME SameIn(y, s), AcksNothing(S) PROVE Transfer(d, p)'
  BY <1>1, <1>3, ReceiverSame
<1>4. CASE TakesMeta(p, s, S)
  BY <1>4, ReceiverMeta
<1>5. CASE TakesChunk(p, s, S)
  BY <1>5, ReceiverChunk
<1>6. CASE TakesFile(p, s, S)
  BY <1>6, ReceiverFile
<1>7. CASE AcksAgain(p, s, S)
  BY <1>7, ReceiverAgain
<1>8. /\ \A t, e : Plain(t, e).type = t
      /\ \A t, e, k, i, v : FilePacket(t, e, k, i, v).type = t
      /\ Stats(p).type = "STATS"
  BY DEF Plain, Stats, FilePacket
<1>9. CASE Talks(p, s, S) \/ StoresTotals(p, s, S)
  <2>1. AcksNothing(S)
    BY <1>8, <1>9 DEF Talks, StoresTotals, AcksNothing, FileAcks
  <2>. QED  BY <1>3, <1>9, <2>1 DEF Talks, StoresTotals
<1>10. CASE Fails(p, s, S) \/ HearsAck(p, s, S) \/ OwnNews(p, s, S)
  BY <1>3, <1>10 DEF Fails, HearsAck, OwnNews, AcksNothing
<1>11. CASE Resets(p, s, S)
  <2>1. y.state \in Early
    BY <1>11 DEF Resets, Lasting
  <2>2. SameIn(y, s)
    BY <1>1, <1>11, <2>1 DEF Resets, Idle, IdleInv, SameIn
  <2>. QED  BY <1>3, <1>11, <2>2 DEF Resets, AcksNothing
<1>12. CASE BeginsFiles(p, s, S) \/ GoesOn(p, s, S)
  <2>1. SameIn(y, s) /\ NextFile(p, s, S)
    BY <1>12 DEF BeginsFiles, GoesOn
  <2>2. S = {} \/ \E k, n : S = {FilePacket("FILE_META", p, k, n, local[p][k])}
    BY <2>1 DEF NextFile
  <2>3. AcksNothing(S)
    BY <1>8, <2>2 DEF AcksNothing, FileAcks
  <2>. QED  BY <1>3, <2>1, <2>3
<1>13. CASE RepeatsMeta(p, s, S)
  BY <1>3, <1>8, <1>13 DEF RepeatsMeta, SameIn, AcksNothing, FileAcks
<1>14. CASE SendsPiece(p, s, S)
  <2>1. SameIn(y, s)
    BY <1>14 DEF SendsPiece
  <2>2. s.out.chunk \in Nat /\ o.size \in Nat
    BY <1>2, <1>14 DEF SendsPiece, DeviceState, OutTransfer
  <2>3. ASSUME NEW m \in S PROVE m.type \in Pieces
    <3>1. CASE s.out.chunk >= o.size
      BY <1>8, <1>14, <2>3, <3>1 DEF SendsPiece, Pieces
    <3>2. CASE s.out.chunk < o.size
      BY <1>8, <1>14, <2>3, <3>2 DEF SendsPiece, Pieces
    <3>. QED  BY <2>2, <3>1, <3>2
  <2>4. AcksNothing(S)
    BY <2>3 DEF AcksNothing, Pieces, FileAcks
  <2>. QED  BY <1>3, <2>1, <2>4
<1>. QED
  BY <1>4, <1>5, <1>6, <1>7, <1>9, <1>10, <1>11, <1>12, <1>13, <1>14 DEF Effect

LEMMA TransferNext ==
  ASSUME TwoReaders, Lasting
  PROVE  TransferInv /\ [Next]_vars => TransferInv'
<1>. SUFFICES ASSUME TransferInv, [Next]_vars PROVE TransferInv'
  OBVIOUS
<1>1. /\ TypeOK /\ IdleInv /\ PeersInv /\ OrderInv
      /\ DoneWhenSynced /\ AllPaired /\ TransfersAgree
  BY DEF TransferInv, PeersInv, OrderInv, CopyInv, WholeInv
<1>2. PeersInv' /\ TypeOK'
  <2>1. PeersInv'
    BY <1>1, PeersNext
  <2>. QED  BY <2>1 DEF PeersInv, OrderInv, CopyInv, WholeInv
<1>4. CASE Clears
  <2>1. dev' = dev /\ events' = events
    BY <1>4 DEF Clears
  <2>2. DoneWhenSynced' /\ AllPaired'
    BY <1>1, <2>1 DEF DoneWhenSynced, ExchangeDone, AllPaired, Paired
  <2>3. ASSUME NEW d \in Device, NEW p \in Device, d # p
        PROVE  Transfer(d, p)'
    <3>1. Transfer(d, p)
      BY <1>1, <2>3 DEF TransfersAgree
    <3>. QED  BY <2>1, <3>1 DEF Transfer, Sent, Before
  <2>. QED  BY <1>2, <2>2, <2>3 DEF TransferInv, TransfersAgree
<1>5. ASSUME NEW e \in Device, Turns(e) PROVE TransferInv'
  <2>1. PICK s, S : Turn(e, s, S) /\ Effect(e, s, S)
    BY <1>5 DEF Turns
  <2>2. ASSUME NEW d \in Device, NEW p \in Device, d # p
        PROVE  Transfer(d, p)'
    <3>1. e = d \/ e = p
      BY <2>2, TheOther
    <3>. QED  BY <1>2, <2>1, <2>2, <3>1, SenderTurn, ReceiverTurn
  <2>3. DoneWhenSynced' /\ AllPaired'
    BY <1>1, <2>1, DoneNext, PairedNext
  <2>. QED  BY <1>2, <2>2, <2>3 DEF TransferInv, TransfersAgree
<1>. QED  BY <1>1, <1>4, <1>5, StepTurns

LEMMA TransferInit == Init => TransferInv
<1>. SUFFICES ASSUME Init PROVE TransferInv
  OBVIOUS
<1>1. PeersInv /\ DoneWhenSynced
  BY PeersInit, DoneInit
<1>2. ASSUME NEW d \in Device
      PROVE  /\ dev[d] = Fresh("OFF", FALSE) /\ events[d] = <<>> /\ dev[d].state = "OFF"
             /\ ~dev[d].filesSent /\ dev[d].out = NoOut /\ dev[d].out.kind = None
             /\ dev[d].in = NoIn /\ dev[d].saved = {} /\ dev[d].in.kind = None
             /\ Sent(dev[d]) = {} /\ DOMAIN events[d] = {}
  <2>1. dev[d] = Fresh("OFF", FALSE) /\ events[d] = <<>>
    BY DEF Init
  <2>2. /\ ~dev[d].filesSent /\ dev[d].out = NoOut /\ dev[d].out.kind = None
        /\ dev[d].in = NoIn /\ dev[d].saved = {} /\ dev[d].in.kind = None
        /\ dev[d].state = "OFF"
    BY <2>1 DEF Fresh, NoOut, NoIn
  <2>3. DOMAIN events[d] = {}
    BY <2>1
  <2>. QED  BY <2>1, <2>2, <2>3 DEF Sent, Before
<1>3. AllPaired
  BY <1>2 DEF AllPaired, Paired, Exchanging
<1>4. ASSUME NEW d \in Device, NEW p \in Device PROVE Transfer(d, p)
  <2>1. Agree(dev[d].out, Sent(dev[d]), dev[p].in, dev[p].saved)
    BY <1>2 DEF Agree
  <2>2. \A X : Within(events[d], X) /\ Within(events[p], X)
    BY <1>2 DEF Within
  <2>3. MetasFirst(events[p])
    BY <1>2 DEF MetasFirst
  <2>. QED  BY <1>2, <2>1, <2>2, <2>3 DEF Transfer
<1>. QED  BY <1>1, <1>3, <1>4 DEF TransferInv, TransfersAgree

(* Between two readers that stay in the exchange, whatever is lost,        *)
(* repeated or evicted: the receiver of a file has every chunk the sender  *)
(* has an acknowledgement for and at most one more, and once the end of    *)
(* the file is announced it has them all or has stored the file.           *)
THEOREM TransfersStopAndWait ==
  ASSUME TwoReaders, Lasting
  PROVE  Spec => []StopAndWait
<1>1. TransferInv => StopAndWait
  <2>. SUFFICES ASSUME TransferInv, NEW d \in Device, NEW p \in Device,
                       dev[d].peer = p, dev[d].state = "SYNCING",
                       dev[d].out.kind # None, dev[d].out.metaAcked
                PROVE  LET o == dev[d].out  in == dev[p].in
                       IN  \/ /\ in.kind = o.kind /\ in.ver = o.ver /\ in.size = o.size
                              /\ Len(in.data) \in {o.chunk, o.chunk + 1}
                              /\ o.doneSent => Len(in.data) = o.size
                           \/ o.kind \in dev[p].saved /\ o.doneSent
    BY DEF StopAndWait
  <2>. DEFINE o == dev[d].out
              in == dev[p].in
  <2>1. p # d
    BY DEF TransferInv, AllPaired, Paired, Exchanging
  <2>2. TypeOK /\ Agree(o, Sent(dev[d]), in, dev[p].saved)
    BY <2>1 DEF TransferInv, TransfersAgree, Transfer, PeersInv, OrderInv, CopyInv,
               WholeInv
  <2>3. /\ o.chunk \in Nat /\ Len(in.data) \in Nat /\ o.size \in Nat
    BY <2>2, TransferTypes DEF OutTransfer, InTransfer
  <2>. HIDE DEF o, in
  <2>4. o.kind # None /\ o.metaAcked
    BY DEF o
  <2>5. \/ /\ in.kind = o.kind /\ in.ver = o.ver /\ in.size = o.size
           /\ Len(in.data) \in {o.chunk, o.chunk + 1}
           /\ o.doneSent => Len(in.data) = o.size
        \/ o.kind \in dev[p].saved /\ o.doneSent
    BY <2>2, <2>3, <2>4 DEF Agree
  <2>. QED  BY <2>5 DEF o, in
<1>. QED  BY <1>1, TransferInit, TransferNext, PTL DEF Spec

-----------------------------------------------------------------------------
(* What is delivered: a reader that has been acknowledged its totals, or   *)
(* the end of a file, finds them on the other's card.                      *)

TellsSaved(saved) == {m \in Packet : m.type = "ACK" => saved}
TellsTotals(v) == {m \in Packet : m.type = "STATS" => m.ver = v}

(* A reader that has not opened its screen has not been heard.             *)
Unheard(d, p) ==
  dev[d].state = "OFF" => Within(events[p], {}) /\ ~dev[p].totalsSaved

(* d sends, p receives.                                                    *)
TotalsReach(d, p) ==
  /\ dev[d].statsAcked => dev[p].totalsSaved
  /\ Within(events[d], TellsSaved(dev[p].totalsSaved))
  /\ Within(events[p], TellsTotals(local[d][Totals]))
  /\ dev[p].totalsSaved => synced[p][d][Totals] = Snapshot(d, Totals, local[d][Totals])

(* Every file that is there can be read.                                   *)
Readable == "Unreadable" \notin Env

FilesReach(d, p) ==
  \A k \in Kinds \ MergeKinds :
    /\ dev[d].out.kind = k => dev[d].out.ver = local[d][k] /\ dev[d].out.size = Chunks[k]
    /\ k \in dev[p].saved /\ Chunks[k] > 0 =>
         synced[p][d][k] = Snapshot(d, k, local[d][k])

Delivers(d, p) == Unheard(d, p) /\ TotalsReach(d, p) /\ FilesReach(d, p)

(* Files are sent once both totals have got through.                       *)
TotalsFirst(x) ==
  x.out.kind # None \/ x.filesSent => x.statsAcked /\ x.totalsSaved

AllDelivered == \A d, p \in Device : d # p => Delivers(d, p)
DeliveryInv ==
  TransferInv /\ (\A d \in Device : TotalsFirst(dev[d])) /\ AllDelivered

LEMMA FlagsTurn ==
  ASSUME TransferInv, Lasting, NEW d \in Device, NEW s, NEW S,
         Turn(d, s, S), Effect(d, s, S)
  PROVE  /\ dev[d].totalsSaved => s.totalsSaved
         /\ dev[d].statsAcked => s.statsAcked
         /\ s.totalsSaved => dev[d].totalsSaved \/ StoresTotals(d, s, S)
         /\ s.statsAcked => dev[d].statsAcked \/ (Takes(d) /\ Msg(d).type = "ACK")
         /\ s.state = "OFF" => dev[d].state = "OFF" /\ S = {}
         /\ \A m \in S : m.type = "ACK" => s.totalsSaved
<1>. DEFINE x == dev[d]
<1>1. TypeOK /\ IdleInv /\ DoneWhenSynced /\ x \in DeviceState /\ s \in DeviceState
  BY DEF TransferInv, PeersInv, OrderInv, CopyInv, WholeInv, TypeOK, Turn
<1>2. CASE Resets(d, s, S)
  <2>1. x.state \in Early /\ s.state # "OFF"
    BY <1>2 DEF Resets, Lasting
  <2>2. ~x.totalsSaved /\ ~x.statsAcked /\ ~s.totalsSaved /\ ~s.statsAcked /\ S = {}
    BY <1>1, <1>2, <2>1 DEF IdleInv, Idle, Resets
  <2>. QED  BY <2>1, <2>2
<1>3. /\ \A t, e : Plain(t, e).type = t
      /\ \A t, e, k, i, v : FilePacket(t, e, k, i, v).type = t
      /\ Stats(d).type = "STATS"
  BY DEF Plain, Stats, FilePacket
<1>4. CASE Talks(d, s, S)
  <2>1. SameFlags(x, s) /\ (s.state = "OFF" => x.state = "OFF" /\ S = {})
    BY <1>4 DEF Talks, MovesOn
  <2>2. \A m \in S : m.type = "ACK" => x.totalsSaved
    BY <1>1, <1>3, <1>4 DEF Talks, DoneWhenSynced, ExchangeDone
  <2>. QED  BY <2>1, <2>2 DEF SameFlags
<1>5. CASE Fails(d, s, S)
  BY <1>5 DEF Fails, SameFlags
<1>6. CASE StoresTotals(d, s, S)
  BY <1>6 DEF StoresTotals, Joining
<1>7. CASE HearsAck(d, s, S)
  BY <1>7 DEF HearsAck, Joining
<1>8. CASE BeginsFiles(d, s, S) \/ GoesOn(d, s, S)
  <2>1. S = {} \/ \E k, n : S = {FilePacket("FILE_META", d, k, n, local[d][k])}
    BY <1>8 DEF BeginsFiles, GoesOn, NextFile
  <2>2. \A m \in S : m.type = "FILE_META"
    BY <1>3, <2>1
  <2>. QED  BY <1>8, <2>2 DEF BeginsFiles, GoesOn, SameFlags, Joining
<1>9. CASE RepeatsMeta(d, s, S)
  BY <1>3, <1>9 DEF RepeatsMeta
<1>10. CASE SendsPiece(d, s, S)
  <2>1. s.out.chunk \in Nat /\ x.out.size \in Nat
    BY <1>1 DEF DeviceState, OutTransfer
  <2>2. \A m \in S : m.type # "ACK"
    <3>1. CASE s.out.chunk >= x.out.size
      BY <1>3, <1>10, <3>1 DEF SendsPiece
    <3>2. CASE s.out.chunk < x.out.size
      BY <1>3, <1>10, <3>2 DEF SendsPiece
    <3>. QED  BY <2>1, <3>1, <3>2
  <2>3. SameFlags(x, s) /\ s.state = "SYNCING"
    BY <1>10 DEF SendsPiece, Resends, MetaAcked, ChunkAcked, Joining
  <2>. QED  BY <2>2, <2>3 DEF SameFlags
<1>11. CASE TakesMeta(d, s, S) \/ TakesChunk(d, s, S) \/ TakesFile(d, s, S)
  BY <1>3, <1>11 DEF TakesMeta, TakesChunk, TakesFile, SameFlags, Joining
<1>12. CASE AcksAgain(d, s, S)
  <2>1. SameFlags(x, s) /\ s.state # "OFF"
    BY <1>12 DEF AcksAgain, Joining
  <2>2. \A m \in S : m.type \in FileAcks
    BY <1>3, <1>12 DEF AcksAgain, AckOf, FileAcks
  <2>. QED  BY <2>1, <2>2 DEF SameFlags, FileAcks
<1>13. CASE OwnNews(d, s, S)
  BY <1>13 DEF OwnNews, SameFlags
<1>. QED
  BY <1>2, <1>4, <1>5, <1>6, <1>7, <1>8, <1>9, <1>10, <1>11, <1>12, <1>13 DEF Effect

LEMMA TotalsFirstTurn ==
  ASSUME TransferInv, Lasting, NEW d \in Device, NEW s, NEW S,
         Turn(d, s, S), Effect(d, s, S), TotalsFirst(dev[d])
  PROVE  TotalsFirst(s)
<1>. DEFINE x == dev[d]
<1>1. TypeOK /\ x.out \in OutTransfer /\ x.out.kind \in Kinds \cup {None} /\ None \notin Kinds
  BY TransferTypes, SyncConstants DEF TransferInv, PeersInv, OrderInv, CopyInv, WholeInv
<1>2. (x.totalsSaved => s.totalsSaved) /\ (x.statsAcked => s.statsAcked)
  BY FlagsTurn
<1>3. CASE s.out.kind = x.out.kind /\ s.filesSent = x.filesSent
  BY <1>2, <1>3 DEF TotalsFirst
<1>4. CASE BeginsFiles(d, s, S)
  BY <1>4 DEF BeginsFiles, TotalsFirst
<1>5. CASE GoesOn(d, s, S)
  <2>1. Msg(d).kind \in Kinds /\ Msg(d).kind = x.out.kind
    <3>1. /\ events[d] # <<>> /\ Msg(d).type \in FileTypes /\ Msg(d).kind = x.out.kind
      BY <1>5 DEF GoesOn, Joining, Takes, FileTypes, FileAcks
    <3>. QED  BY <1>1, <3>1, MsgType, FileMsgType
  <2>. QED  BY <1>1, <1>2, <2>1 DEF TotalsFirst
<1>6. CASE Resets(d, s, S)
  BY <1>6 DEF Resets, Idle, TotalsFirst, NoOut
<1>7. CASE Fails(d, s, S)
  BY <1>1, <1>3, <1>7 DEF Fails, OutTransfer
<1>. QED
  BY <1>3, <1>4, <1>5, <1>6, <1>7
     DEF Effect, Talks, StoresTotals, HearsAck, RepeatsMeta, SendsPiece, TakesMeta,
         TakesChunk, TakesFile, AcksAgain, OwnNews, SameOut

(* A reader's own unmerged items stay as they are once its screen is open. *)
LEMMA PlainKept ==
  ASSUME TypeOK, NEW d \in Device, NEW s, NEW S, Effect(d, s, S),
         NEW e \in Device, NEW i \in Items \ MergeKinds,
         e # d \/ dev[d].state # "OFF"
  PROVE  local'[e][i] = local[e][i]
<1>1. CASE local' = local
  BY <1>1
<1>2. CASE TakesFile(d, s, S)
  <2>1. CASE local' = [local EXCEPT ![d][Msg(d).kind] = dev[d].in.ver] /\ Msg(d).kind \in MergeKinds
    BY <2>1 DEF TypeOK
  <2>. QED  BY <1>1, <1>2, <2>1 DEF TakesFile
<1>3. CASE OwnNews(d, s, S)
  <2>1. PICK own : /\ local' = [local EXCEPT ![d] = own]
                   /\ s.state = "SYNCED" => \A j \in Items \ {AwardKind} : own[j] = local[d][j]
    BY <1>3 DEF OwnNews
  <2>2. e = d => AwardKind # None /\ s.state = "SYNCED"
    BY <1>3 DEF OwnNews
  <2>3. e = d => AwardKind \in MergeKinds
    BY <2>2, SyncConstants
  <2>. QED  BY <2>1, <2>2, <2>3 DEF TypeOK
<1>. QED  BY <1>1, <1>2, <1>3, LocalStep

LEMMA UnheardTurn ==
  ASSUME TransferInv, TypeOK', Lasting, NEW d \in Device, NEW p \in Device, d # p,
         Unheard(d, p), NEW e \in {d, p}, NEW s, NEW S, Turn(e, s, S), Effect(e, s, S)
  PROVE  Unheard(d, p)'
<1>1. TypeOK /\ OrderInv
  BY DEF TransferInv, PeersInv, OrderInv, CopyInv, WholeInv
<1>2. dev'[e] = s /\ \A q \in Device \ {e} : dev'[q] = dev[q]
  BY <1>1, TurnKeeps
<1>3. CASE e = d
  <2>1. s.state = "OFF" => dev[d].state = "OFF" /\ S = {}
    BY <1>3, FlagsTurn
  <2>2. s.state = "OFF" => Within(events'[p], {})
    BY <1>1, <1>3, <2>1, QueuesWithin DEF Unheard
  <2>. QED  BY <1>2, <1>3, <2>1, <2>2 DEF Unheard, Within
<1>4. CASE e = p
  <2>. SUFFICES ASSUME dev[d].state = "OFF"
                PROVE  Within(events'[p], {}) /\ ~s.totalsSaved
    BY <1>2, <1>4 DEF Unheard, Within
  <2>1. Within(events[p], {}) /\ ~dev[p].totalsSaved
    BY DEF Unheard
  <2>2. Within(events'[p], {})
    BY <1>1, <1>4, <2>1, QueuesWithin
  <2>3. events[p] = <<>>
    BY <1>1, <2>1, MsgFromOther DEF Within
  <2>4. ~s.totalsSaved
    BY <1>4, <2>1, <2>3, FlagsTurn DEF StoresTotals, Joining, Takes
  <2>. QED  BY <2>2, <2>4
<1>. QED  BY <1>3, <1>4

(* Totals are stored only once.                                            *)
LEMMA TotalsStay ==
  ASSUME TypeOK, NEW d \in Device, NEW s, NEW S, Effect(d, s, S), dev[d].totalsSaved,
         NEW q \in Device
  PROVE  synced'[d][q][Totals] = synced[d][q][Totals]
<1>0. Totals \in Items /\ Totals \notin Kinds
  BY SyncConstants DEF Items
<1>1. CASE synced' = synced
  BY <1>1
<1>2. ASSUME NEW r, NEW f, Replaces(d, r, Msg(d).kind, f), Completed(d)
      PROVE  synced'[d][q][Totals] = synced[d][q][Totals]
  <2>1. Msg(d).kind \in Kinds
    BY <1>2, MsgType, FileMsgType DEF Completed, FileTypes
  <2>. QED  BY <1>0, <1>2, <2>1, ReplacedAt
<1>3. CASE StoresFile(d)
  BY <1>2, <1>3 DEF StoresFile
<1>4. CASE Erases(d)
  <2>1. Completed(d) /\ synced' = [synced EXCEPT ![d][Msg(d).from][Msg(d).kind] = NoFile]
    BY <1>4 DEF Erases, Removed
  <2>2. Msg(d).from \in Device /\ Msg(d).kind \in Items
    BY <2>1, MsgType, FileMsgType DEF Completed, FileTypes, Items
  <2>. QED  BY <1>2, <2>1, <2>2 DEF Replaces
<1>. QED  BY <1>1, <1>3, <1>4, SyncedStep DEF TakesTotals

LEMMA TotalsReachSender ==
  ASSUME TransferInv, TypeOK', Lasting, NEW d \in Device, NEW p \in Device, d # p,
         Delivers(d, p), NEW s, NEW S, Turn(d, s, S), Effect(d, s, S)
  PROVE  TotalsReach(d, p)'
<1>. DEFINE saved == dev[p].totalsSaved
            A == TellsSaved(saved)
            T == TellsTotals(local'[d][Totals])
<1>1. /\ TypeOK /\ OrderInv /\ WholeInv /\ TotalsReach(d, p) /\ Unheard(d, p)
      /\ Totals \in Items \ MergeKinds
  BY SyncConstants DEF TransferInv, PeersInv, OrderInv, CopyInv, WholeInv, Delivers, Items
<1>2. dev'[d] = s /\ dev'[p] = dev[p]
  BY <1>1, TurnKeeps
<1>3. dev[d].state # "OFF" => local'[d][Totals] = local[d][Totals]
  BY <1>1, PlainKept
<1>4. s.statsAcked => saved
  <2>1. CASE Takes(d) /\ Msg(d).type = "ACK"
    BY <1>1, <2>1, MsgFromOther DEF TotalsReach, Within, TellsSaved, Takes
  <2>. QED  BY <1>1, <2>1, FlagsTurn DEF TotalsReach
<1>5. Within(events'[d], A)
  <2>1. Within(events[d], A)
    BY <1>1 DEF TotalsReach
  <2>. HIDE DEF A
  <2>. QED  BY <1>1, <2>1, QueuesWithin
<1>6. Within(events'[p], T)
  <2>1. Within(events[p], T)
    BY <1>1, <1>3 DEF TotalsReach, Unheard, Within
  <2>2. \A m \in S : m \in T
    <3>1. ASSUME NEW m \in S, m.type = "STATS" PROVE m.ver = local'[d][Totals]
      <4>1. m.from = d
        BY <1>1, <3>1, TurnSays
      <4>2. Carries(m, d, Totals)
        BY <3>1, <4>1 DEF Carries
      <4>3. m.ver = Upcoming(d, Totals)'
        BY <1>1, <4>2, TurnSays
      <4>. QED  BY <4>3, SyncConstants DEF Upcoming
    <3>. QED  BY <3>1 DEF Turn, TellsTotals
  <2>. HIDE DEF T
  <2>. QED  BY <1>1, <2>1, <2>2, QueuesWithin
<1>7. saved => synced'[p][d][Totals] = Snapshot(d, Totals, local'[d][Totals])
  <2>1. synced'[p] = synced[p]
    BY <1>1, StoredElsewhere
  <2>. QED  BY <1>1, <1>3, <2>1 DEF Unheard, TotalsReach
<1>8. /\ TellsSaved(dev[p].totalsSaved)' = A
      /\ TellsTotals(local[d][Totals])' = T
      /\ Snapshot(d, Totals, local[d][Totals])' = Snapshot(d, Totals, local'[d][Totals])
  BY <1>2 DEF TellsSaved, TellsTotals, Snapshot, SizeOf, PieceOf
<1>. HIDE DEF A, T
<1>. QED  BY <1>2, <1>4, <1>5, <1>6, <1>7, <1>8 DEF TotalsReach, Within

LEMMA TotalsReachReceiver ==
  ASSUME TransferInv, TypeOK', TwoReaders, Lasting,
         NEW d \in Device, NEW p \in Device, d # p,
         Delivers(d, p), NEW s, NEW S, Turn(p, s, S), Effect(p, s, S)
  PROVE  TotalsReach(d, p)'
<1>. DEFINE saved == dev[p].totalsSaved
            A == TellsSaved(s.totalsSaved)
            T == TellsTotals(local[d][Totals])
            file == Snapshot(d, Totals, local[d][Totals])
<1>1. /\ TypeOK /\ OrderInv /\ WholeInv /\ TotalsReach(d, p)
      /\ Totals \in Items \ MergeKinds /\ Totals \in Items
  BY SyncConstants DEF TransferInv, PeersInv, OrderInv, CopyInv, WholeInv, Delivers, Items
<1>2. dev'[p] = s /\ dev'[d] = dev[d]
  BY <1>1, TurnKeeps
<1>3. local'[d][Totals] = local[d][Totals]
  BY <1>1, PlainKept
<1>4. saved => s.totalsSaved
  BY FlagsTurn
<1>5. Within(events'[d], A)
  <2>1. Within(events[d], A)
    BY <1>1, <1>4 DEF TotalsReach, Within, TellsSaved
  <2>2. \A m \in S : m \in A
    BY FlagsTurn DEF Turn, TellsSaved
  <2>. HIDE DEF A
  <2>. QED  BY <1>1, <2>1, <2>2, QueuesWithin
<1>6. Within(events'[p], T)
  <2>1. Within(events[p], T)
    BY <1>1 DEF TotalsReach
  <2>. HIDE DEF T
  <2>. QED  BY <1>1, <2>1, QueuesWithin
<1>7. s.totalsSaved => synced'[p][d][Totals] = file
  <2>1. CASE saved
    BY <1>1, <2>1, TotalsStay DEF TotalsReach
  <2>2. CASE ~saved /\ StoresTotals(p, s, S)
    <3>1. events[p] # <<>> /\ Msg(p).type = "STATS"
      BY <2>2 DEF StoresTotals, Joining, Takes
    <3>2. Msg(p).from = d
      BY <1>1, <3>1, MsgFromOther, TheOther
    <3>3. Msg(p).ver = local[d][Totals]
      BY <1>1, <3>1, MsgFromOther DEF TotalsReach, Within, TellsTotals
    <3>4. Replaces(p, d, Totals, file)
      BY <1>1, <2>2, <3>2, <3>3 DEF StoresTotals, Replaces
    <3>. HIDE DEF file
    <3>. QED  BY <1>1, <3>4, ReplacedAt
  <2>. QED  BY <2>1, <2>2, FlagsTurn
<1>8. /\ TellsSaved(dev[p].totalsSaved)' = A
      /\ TellsTotals(local[d][Totals])' = T
      /\ Snapshot(d, Totals, local[d][Totals])' = file
  BY <1>2, <1>3 DEF TellsSaved, TellsTotals, Snapshot, SizeOf, PieceOf
<1>9. dev[d].statsAcked => s.totalsSaved
  BY <1>1, <1>4 DEF TotalsReach
<1>. HIDE DEF A, T, file
<1>. QED  BY <1>2, <1>5, <1>6, <1>7, <1>8, <1>9 DEF TotalsReach, Within

LEMMA FilesReachSender ==
  ASSUME TransferInv, TypeOK', Lasting, Readable,
         NEW d \in Device, NEW p \in Device, d # p,
         Delivers(d, p), NEW s, NEW S, Turn(d, s, S), Effect(d, s, S)
  PROVE  FilesReach(d, p)'
<1>. DEFINE x == dev[d]
<1>1. /\ TypeOK /\ WholeInv /\ IdleInv /\ FilesReach(d, p) /\ Transfer(d, p)
  BY DEF TransferInv, PeersInv, OrderInv, CopyInv, WholeInv, Delivers, TransfersAgree
<1>2. dev'[d] = s /\ dev'[p] = dev[p] /\ synced'[p] = synced[p]
  BY <1>1, TurnKeeps, StoredElsewhere
<1>3. ASSUME NEW k \in Kinds \ MergeKinds
      PROVE  /\ s.out.kind = k => s.out.ver = local'[d][k] /\ s.out.size = Chunks[k]
             /\ k \in dev[p].saved /\ Chunks[k] > 0 =>
                  synced[p][d][k] = Snapshot(d, k, local'[d][k])
  <2>0. k \in Items \ MergeKinds /\ k # None
    BY SyncConstants DEF Items
  <2>1. x.state = "OFF" => x.out.kind = None /\ k \notin dev[p].saved
    <3>. SUFFICES ASSUME x.state = "OFF"
                  PROVE  x.out.kind = None /\ k \notin dev[p].saved
      OBVIOUS
    <3>1. x.out.kind = None /\ ~x.filesSent
      BY <1>1 DEF IdleInv, Idle, Early, NoOut
    <3>2. dev[p].saved \subseteq {None}
      BY <1>1, <3>1 DEF Transfer, Agree, Sent, Before
    <3>. QED  BY <2>0, <3>1, <3>2
  <2>2. x.state # "OFF" => local'[d][k] = local[d][k]
    BY <1>1, <2>0, PlainKept
  <2>3. s.out.kind = k => s.out.ver = local'[d][k] /\ s.out.size = Chunks[k]
    <3>1. CASE /\ s.out.kind = x.out.kind /\ s.out.ver = x.out.ver
               /\ s.out.size = x.out.size
      BY <1>1, <2>0, <2>1, <2>2, <3>1 DEF FilesReach
    <3>. QED  BY <1>1, <2>0, <3>1, OutStep DEF AnnouncedSizes, Readable
  <2>. QED  BY <1>1, <2>1, <2>2, <2>3 DEF FilesReach
<1>4. \A k \in Kinds : Snapshot(d, k, local[d][k])' = Snapshot(d, k, local'[d][k])
  BY DEF Snapshot, SizeOf, PieceOf
<1>. QED  BY <1>2, <1>3, <1>4 DEF FilesReach

(* A file is marked as saved when it is taken.                             *)
LEMMA SavedStep ==
  ASSUME NEW d \in Device, NEW s, NEW S, Effect(d, s, S), NEW k \in s.saved
  PROVE  k \in dev[d].saved \/ (TakesFile(d, s, S) /\ k = Msg(d).kind)
BY DEF Effect, Talks, Fails, Resets, Idle, StoresTotals, HearsAck, BeginsFiles,
       GoesOn, RepeatsMeta, SendsPiece, TakesMeta, TakesChunk, TakesFile, AcksAgain,
       OwnNews, SameIn

LEMMA FilesReachReceiver ==
  ASSUME TransferInv, TypeOK', TwoReaders, Lasting,
         NEW d \in Device, NEW p \in Device, d # p,
         Delivers(d, p), NEW s, NEW S, Turn(p, s, S), Effect(p, s, S)
  PROVE  FilesReach(d, p)'
<1>. DEFINE in == dev[p].in
            o == dev[d].out
<1>1. /\ TypeOK /\ OrderInv /\ WholeInv /\ FilesReach(d, p)
      /\ Agree(o, Sent(dev[d]), in, dev[p].saved)
  BY DEF TransferInv, PeersInv, OrderInv, CopyInv, WholeInv, Delivers, TransfersAgree,
         Transfer
<1>2. dev'[p] = s /\ dev'[d] = dev[d]
  BY <1>1, TurnKeeps
<1>3. ASSUME Completed(p)
      PROVE  /\ in.kind = Msg(p).kind /\ in.kind \in Kinds /\ in.kind \notin dev[p].saved
             /\ Msg(p).from = d /\ in.src = d /\ in.kind = o.kind /\ in.ver = o.ver
             /\ in.size = o.size /\ (in.size > 0 => in.data = Snapshot(d, in.kind, in.ver))
  <2>1. in.kind = Msg(p).kind /\ events[p] # <<>> /\ in.kind \in Kinds
    BY <1>1, <1>3, MsgType, FileMsgType DEF Completed, FileTypes
  <2>2. Msg(p).from = d
    BY <1>1, <2>1, MsgFromOther, TheOther
  <2>3. in.src = d
    BY <1>1, <2>1, ComingFromOther DEF Coming
  <2>4. in.kind # None
    BY <2>1, SyncConstants
  <2>. QED  BY <1>1, <1>3, <2>1, <2>2, <2>3, <2>4 DEF Completed, Verified, Agree
<1>4. ASSUME NEW k \in Kinds \ MergeKinds
      PROVE  /\ local'[d][k] = local[d][k]
             /\ k \in s.saved /\ Chunks[k] > 0 =>
                  synced'[p][d][k] = Snapshot(d, k, local[d][k])
  <2>0. k \in Items \ MergeKinds /\ k \in Items /\ k # None
    BY SyncConstants DEF Items
  <2>1. local'[d][k] = local[d][k]
    BY <1>1, <2>0, PlainKept
  <2>2. ASSUME k \in dev[p].saved
        PROVE  synced'[p][d][k] = synced[p][d][k]
    <3>1. CASE synced' = synced
      BY <3>1
    <3>2. CASE StoresFile(p)
      BY <1>1, <1>3, <2>0, <2>2, <3>2, ReplacedAt DEF StoresFile
    <3>3. CASE Erases(p)
      <4>1. PICK i \in Items : /\ Replaces(p, Msg(p).from, i, NoFile)
                               /\ (Completed(p) /\ i = Msg(p).kind) \/ i = Totals
        BY <3>3 DEF Erases, Removed, Replaces
      <4>2. i # k
        BY <1>3, <2>2, <4>1, SyncConstants
      <4>. QED  BY <1>1, <2>0, <4>1, <4>2, ReplacedAt
    <3>4. CASE TakesTotals(p)
      BY <1>1, <2>0, <3>4, ReplacedAt, SyncConstants DEF TakesTotals
    <3>. QED  BY <1>1, <3>1, <3>2, <3>3, <3>4, SyncedStep
  <2>3. ASSUME TakesFile(p, s, S), k = Msg(p).kind, Chunks[k] > 0
        PROVE  synced'[p][d][k] = Snapshot(d, k, local[d][k])
    <3>0. Completed(p)
      BY <2>3 DEF TakesFile, Stores
    <3>1. in.size = Chunks[k] /\ in.size # 0
      BY <1>1, <1>3, <2>3, <3>0 DEF FilesReach
    <3>1a. synced' = [synced EXCEPT ![p][Msg(p).from][Msg(p).kind] = in.data]
      BY <2>3, <3>1 DEF TakesFile, Stores
    <3>2. Replaces(p, d, k, in.data)
      BY <1>3, <2>0, <2>3, <3>0, <3>1a DEF Replaces
    <3>3. in.data = Snapshot(d, k, o.ver) /\ o.kind = k
      BY <1>3, <2>3, <3>0, <3>1
    <3>4. o.ver = local[d][k]
      BY <1>1, <3>3 DEF FilesReach
    <3>. QED  BY <1>1, <2>0, <3>2, <3>3, <3>4, ReplacedAt
  <2>4. k \in dev[p].saved /\ Chunks[k] > 0 => synced[p][d][k] = Snapshot(d, k, local[d][k])
    BY <1>1 DEF FilesReach
  <2>. QED  BY <2>1, <2>2, <2>3, <2>4, SavedStep
<1>5. \A k \in Kinds : Snapshot(d, k, local[d][k])' = Snapshot(d, k, local'[d][k])
  BY DEF Snapshot, SizeOf, PieceOf
<1>. HIDE DEF in, o
<1>. QED  BY <1>1, <1>2, <1>4, <1>5 DEF FilesReach, o

LEMMA DeliveryNext ==
  ASSUME TwoReaders, Lasting, Readable
  PROVE  DeliveryInv /\ [Next]_vars => DeliveryInv'
<1>. SUFFICES ASSUME DeliveryInv, [Next]_vars PROVE DeliveryInv'
  OBVIOUS
<1>1. /\ TransferInv /\ AllDelivered /\ TypeOK /\ IdleInv
      /\ \A d \in Device : TotalsFirst(dev[d])
  BY DEF DeliveryInv, TransferInv, PeersInv, OrderInv, CopyInv, WholeInv
<1>2. TransferInv' /\ TypeOK'
  <2>1. TransferInv'
    BY <1>1, TransferNext
  <2>. QED  BY <2>1 DEF TransferInv, PeersInv, OrderInv, CopyInv, WholeInv
<1>3. CASE Clears
  <2>1. /\ \A d \in Device : TotalsFirst(dev'[d])
        /\ dev' = dev /\ events' = events /\ local' = local /\ synced' = synced
    BY <1>1, <1>3 DEF Clears
  <2>2. ASSUME NEW d \in Device, NEW p \in Device, d # p
        PROVE  Delivers(d, p)'
    <3>1. Delivers(d, p)
      BY <1>1, <2>2 DEF AllDelivered
    <3>. QED
      BY <2>1, <3>1 DEF Delivers, Unheard, TotalsReach, FilesReach, Within, TellsSaved,
                        TellsTotals, Snapshot, SizeOf, PieceOf
  <2>. QED  BY <1>2, <2>1, <2>2 DEF DeliveryInv, AllDelivered, TotalsFirst
<1>4. ASSUME NEW e \in Device, Turns(e) PROVE DeliveryInv'
  <2>1. PICK s, S : Turn(e, s, S) /\ Effect(e, s, S)
    BY <1>4 DEF Turns
  <2>2. \A d \in Device : TotalsFirst(dev[d])'
    <3>1. TotalsFirst(s)
      BY <1>1, <2>1, TotalsFirstTurn
    <3>2. dev'[e] = s /\ \A q \in Device \ {e} : dev'[q] = dev[q]
      BY <1>1, <2>1, TurnKeeps
    <3>. QED  BY <1>1, <3>1, <3>2 DEF TotalsFirst
  <2>3. ASSUME NEW d \in Device, NEW p \in Device, d # p
        PROVE  Delivers(d, p)'
    <3>1. Delivers(d, p) /\ Unheard(d, p)
      BY <1>1, <2>3 DEF AllDelivered, Delivers
    <3>2. e \in {d, p}
      BY <2>3, TheOther
    <3>3. Unheard(d, p)'
      BY <1>1, <1>2, <2>1, <2>3, <3>1, <3>2, UnheardTurn
    <3>4. TotalsReach(d, p)'
      BY <1>1, <1>2, <2>1, <2>3, <3>1, <3>2, TotalsReachSender, TotalsReachReceiver
    <3>5. FilesReach(d, p)'
      BY <1>1, <1>2, <2>1, <2>3, <3>1, <3>2, FilesReachSender, FilesReachReceiver
    <3>. QED  BY <3>3, <3>4, <3>5 DEF Delivers
  <2>. QED  BY <1>2, <2>2, <2>3 DEF DeliveryInv, AllDelivered
<1>. QED  BY <1>1, <1>3, <1>4, StepTurns

LEMMA DeliveryInit == Init => DeliveryInv
<1>. SUFFICES ASSUME Init PROVE DeliveryInv
  OBVIOUS
<1>1. TransferInv
  BY TransferInit
<1>2. ASSUME NEW d \in Device
      PROVE  /\ dev[d].out.kind = None /\ ~dev[d].filesSent /\ ~dev[d].statsAcked
             /\ ~dev[d].totalsSaved /\ dev[d].saved = {} /\ DOMAIN events[d] = {}
  <2>1. dev[d] = Fresh("OFF", FALSE) /\ events[d] = <<>>
    BY DEF Init
  <2>. QED  BY <2>1 DEF Fresh, NoOut
<1>3. \A d \in Device : TotalsFirst(dev[d])
  BY <1>2 DEF TotalsFirst
<1>4. ASSUME NEW d \in Device, NEW p \in Device PROVE Delivers(d, p)
  <2>1. \A X : Within(events[d], X) /\ Within(events[p], X)
    BY <1>2 DEF Within
  <2>2. \A k \in Kinds : k # None
    BY SyncConstants
  <2>. QED  BY <1>2, <2>1, <2>2 DEF Delivers, Unheard, TotalsReach, FilesReach
<1>. QED  BY <1>1, <1>3, <1>4 DEF DeliveryInv, AllDelivered

(* Of two readers that stay in the exchange, one that reports success has  *)
(* its current totals and each of its unmerged files on the other's card,  *)
(* under its own name, and holds the other's: whatever was lost or         *)
(* repeated, however damaged what was written first, and even if the other *)
(* one has failed meanwhile (updateSyncProgress, handleFileDone).  A file  *)
(* that cannot be read when it is announced passes for an empty one, and   *)
(* is outside this.                                                        *)
THEOREM SuccessMeansDelivered ==
  ASSUME TwoReaders, Lasting, Readable
  PROVE  Spec => []SyncedMeansDelivered
<1>1. DeliveryInv => SyncedMeansDelivered
  <2>. SUFFICES ASSUME DeliveryInv, NEW d \in Device, dev[d].state = "SYNCED",
                       NEW i \in Items \ MergeKinds, SizeOf(i) > 0
                PROVE  LET p == dev[d].peer
                       IN  /\ synced[p][d][i] = Snapshot(d, i, local[d][i])
                           /\ Stored(d, p, i)
    BY DEF SyncedMeansDelivered
  <2>. DEFINE p == dev[d].peer
              theirs == Snapshot(p, i, local[p][i])
  <2>1. /\ p \in Device \ {d} /\ i \in Kinds \cup {Totals} /\ Totals \notin Kinds
        /\ ExchangeDone(dev[d])
    BY SyncConstants DEF DeliveryInv, TransferInv, AllPaired, Paired, Exchanging,
                         DoneWhenSynced, Items
  <2>2. Delivers(d, p) /\ Transfer(d, p) /\ Delivers(p, d)
    BY <2>1 DEF DeliveryInv, AllDelivered, TransferInv, TransfersAgree
  <2>3. /\ synced[p][d][i] = Snapshot(d, i, local[d][i])
        /\ synced[d][p][i] = theirs
    <3>1. CASE i = Totals
      BY <2>1, <2>2, <3>1 DEF ExchangeDone, Delivers, TotalsReach
    <3>2. CASE i # Totals
      <4>1. i \in Kinds \ MergeKinds /\ Chunks[i] > 0
        BY <2>1, <3>2 DEF SizeOf
      <4>2. i \in dev[p].saved /\ i \in dev[d].saved
        BY <2>1, <2>2, <4>1 DEF ExchangeDone, Transfer, Agree, Sent
      <4>. QED  BY <2>2, <4>1, <4>2 DEF Delivers, FilesReach
    <3>. QED  BY <3>1, <3>2
  <2>4. theirs # NoFile
    <3>1. SizeOf(i) \in Nat
      BY SizeType DEF Items
    <3>2. 1 \in DOMAIN theirs /\ DOMAIN NoFile = {}
      BY <3>1 DEF Snapshot, NoFile
    <3>. HIDE DEF theirs
    <3>. QED  BY <3>2
  <2>. QED  BY <2>3, <2>4 DEF Stored
<1>. QED  BY <1>1, DeliveryInit, DeliveryNext, PTL DEF Spec

-----------------------------------------------------------------------------
(* No false failure.  Between two readers that stay in the exchange, on    *)
(* cards that work, a file differs from its announcement in one case only: *)
(* its sender took over the receiver's own newer one in between.           *)

Faultless ==
  /\ Env \cap {"Fault", "BadWrite", "Timeout", "Read", "Unreadable"} = {}
  /\ Foreign = {}

(* What is sent is the file as it was announced, unless d has saved p's    *)
(* newer one meanwhile.                                                    *)
AsAnnounced(d, p) ==
  LET o == dev[d].out
  IN  \/ o.ver = local[d][o.kind]
      \/ /\ o.kind \in MergeKinds /\ o.kind \in dev[d].saved
         /\ o.ver < local[d][o.kind] /\ local[d][o.kind] = local[p][o.kind]

(* The pieces received are those of d's file, in order.                    *)
InPlace(in, d, v) ==
  in.kind # None => \A n \in DOMAIN in.data : in.data[n] = PieceOf(d, v, n - 1)
ReadFrom(k, v) ==
  {m \in Packet : m.type = "FILE_CHUNK" /\ m.kind = k => m.ver = v}

(* All that p has of the file, or is on the way, was read from version v.  *)
FromOne(d, p, v) ==
  LET o == dev[d].out
  IN  /\ v \in {o.ver, local[d][o.kind]}
      /\ o.open => o.handle = v
      /\ Within(events[p], ReadFrom(o.kind, v))
      /\ InPlace(dev[p].in, d, v)

(* d sends, p receives.                                                    *)
Sending(d, p) == dev[d].out.kind # None /\ dev[d].out.kind \notin dev[p].saved
Opened(x) ==
  x.state # "ERROR" /\ x.out.kind # None /\ x.out.metaAcked /\ x.out.size > 0
    => x.out.open
Genuine(d, p) ==
  /\ Opened(dev[d])
  /\ Sending(d, p) =>
       /\ dev[d].out.size = Chunks[dev[d].out.kind]
       /\ AsAnnounced(d, p)
       /\ \E v \in Versions : FromOne(d, p, v)

GenuineInv ==
  TransferInv /\ NoFalseFailure /\ \A d, p \in Device : d # p => Genuine(d, p)

LEMMA GenuineFacts ==
  ASSUME GenuineInv, NEW d \in Device, NEW p \in Device, d # p
  PROVE  /\ TypeOK /\ OrderInv /\ IdleInv /\ TransferInv /\ DoneWhenSynced
         /\ Transfer(d, p) /\ Transfer(p, d) /\ Genuine(d, p) /\ Genuine(p, d)
         /\ dev[d].out \in OutTransfer /\ dev[d].in \in InTransfer
         /\ dev[d].out.kind \in Kinds \cup {None} /\ None \notin Kinds
         /\ \A k \in Kinds : k \in Items /\ local[d][k] \in Nat
<1>1. /\ TypeOK /\ OrderInv /\ IdleInv /\ TransferInv /\ DoneWhenSynced
      /\ Transfer(d, p) /\ Transfer(p, d) /\ Genuine(d, p) /\ Genuine(p, d)
  BY DEF GenuineInv, TransferInv, TransfersAgree, PeersInv, OrderInv, CopyInv, WholeInv
<1>2. \A k \in Kinds : k \in Items /\ local[d][k] \in Nat
  BY <1>1, SyncConstants DEF TypeOK, Items, Versions
<1>. QED  BY <1>1, <1>2, TransferTypes, SyncConstants

LEMMA SavedKeeps ==
  ASSUME IdleInv, Lasting, NEW d \in Device, NEW s, NEW S, Effect(d, s, S)
  PROVE  dev[d].saved \subseteq s.saved
<1>1. CASE Resets(d, s, S)
  BY <1>1 DEF Resets, Lasting, IdleInv, Idle
<1>2. CASE TakesFile(d, s, S)
  BY <1>2 DEF TakesFile
<1>. QED
  BY <1>1, <1>2
     DEF Effect, Talks, Fails, StoresTotals, HearsAck, BeginsFiles, GoesOn, RepeatsMeta,
         SendsPiece, TakesMeta, TakesChunk, AcksAgain, OwnNews, SameIn

(* A screen that has failed keeps what it has until the user leaves it.    *)
LEMMA ErrorStays ==
  ASSUME Lasting, NEW d \in Device, NEW s, NEW S, Effect(d, s, S),
         dev[d].state = "ERROR"
  PROVE  s.state = "ERROR" /\ s.in = dev[d].in /\ local' = local
<1>1. CASE Talks(d, s, S)
  BY <1>1 DEF Talks, SameIn, MovesOn, Early
<1>2. CASE AcksAgain(d, s, S)
  BY <1>2 DEF AcksAgain, Joining, Joinable
<1>3. CASE Resets(d, s, S) \/ Fails(d, s, S) \/ OwnNews(d, s, S)
  BY <1>3 DEF Resets, Fails, OwnNews, Early, Lasting
<1>. QED
  BY <1>1, <1>2, <1>3
     DEF Effect, StoresTotals, HearsAck, BeginsFiles, GoesOn, RepeatsMeta, SendsPiece,
         Resends, MetaAcked, ChunkAcked, TakesMeta, TakesChunk, TakesFile, Joining,
         Joinable

(* What d is receiving is what p is sending.                               *)
LEMMA ComesFrom ==
  ASSUME GenuineInv, TwoReaders, NEW d \in Device, NEW p \in Device, d # p,
         dev[p].in.kind # None
  PROVE  LET in == dev[p].in  o == dev[d].out
         IN  /\ Sending(d, p) /\ in.src = d /\ in.kind \in Kinds
             /\ in.kind = o.kind /\ in.ver = o.ver /\ in.size = o.size
<1>1. /\ TypeOK /\ OrderInv /\ Transfer(d, p) /\ dev[p].in \in InTransfer
  BY GenuineFacts
<1>2. dev[p].in.kind \in Kinds
  BY <1>1 DEF InTransfer
<1>3. dev[p].in.src = d
  BY <1>1, <1>2, ComingFromOther DEF Coming
<1>. QED  BY <1>1, <1>2, <1>3 DEF Transfer, Agree, Sending

(* How a reader's own file may change.                                     *)
LEMMA OwnChange ==
  ASSUME GenuineInv, TwoReaders, Faultless, NEW d \in Device, NEW p \in Device, d # p,
         NEW s, NEW S, Turn(d, s, S), Effect(d, s, S), NEW k \in Kinds
  PROVE  /\ local'[p] = local[p]
         /\ \/ local'[d][k] = local[d][k]
            \/ /\ TakesFile(d, s, S) /\ k \in MergeKinds /\ k = Msg(d).kind
               /\ k \in s.saved /\ k \notin dev[d].saved
               /\ dev[p].out.kind = k /\ Sending(p, d)
               /\ local'[d][k] = dev[p].out.ver /\ dev[p].out.ver > local[d][k]
            \/ /\ OwnNews(d, s, S) /\ dev[d].saved = Kinds /\ dev[d].out.kind = None
<1>1. /\ TypeOK /\ OrderInv /\ Transfer(d, p) /\ Transfer(p, d) /\ DoneWhenSynced
      /\ k \in Items /\ k # None
  BY GenuineFacts
<1>2. local'[p] = local[p]
  BY <1>1, LocalGrows
<1>3. CASE TakesFile(d, s, S)
  <2>. DEFINE m == Msg(d)
              in == dev[d].in
  <2>1. in.kind = m.kind /\ m.kind \in s.saved /\ events[d] # <<>> /\ m.kind \in Kinds
    BY <1>1, <1>3, MsgType, FileMsgType
       DEF TakesFile, Stores, Completed, FileTypes
  <2>2. in.kind # None
    BY <2>1, SyncConstants
  <2>3. Sending(p, d) /\ in.kind = dev[p].out.kind /\ in.ver = dev[p].out.ver
    BY <2>2, ComesFrom
  <2>4. CASE local' = local
    BY <1>2, <2>4
  <2>5. CASE local' # local
    <3>1. /\ local' = [local EXCEPT ![d][m.kind] = in.ver] /\ m.kind \in MergeKinds
          /\ in.ver > local[d][m.kind]
      BY <1>3, <2>5 DEF TakesFile
    <3>2. \A i \in Items : local'[d][i] = IF i = m.kind THEN in.ver ELSE local[d][i]
      BY <1>1, <3>1 DEF TypeOK
    <3>3. CASE k = m.kind
      BY <1>1, <1>2, <1>3, <2>1, <2>3, <3>1, <3>2, <3>3 DEF Sending
    <3>4. CASE k # m.kind
      BY <1>1, <1>2, <3>2, <3>4
    <3>. QED  BY <3>3, <3>4
  <2>. QED  BY <2>4, <2>5
<1>4. CASE OwnNews(d, s, S)
  <2>1. dev[d].state = "SYNCED"
    BY <1>4 DEF OwnNews, Faultless
  <2>2. dev[d].saved = Kinds /\ dev[d].filesSent
    BY <1>1, <2>1 DEF DoneWhenSynced, ExchangeDone
  <2>3. dev[d].out.kind = None
    BY <1>1, <2>2 DEF Transfer
  <2>. QED  BY <1>2, <1>4, <2>2, <2>3
<1>. QED  BY <1>1, <1>2, <1>3, <1>4, LocalStep

LEMMA SequenceAsFunction ==
  ASSUME NEW q \in Seq(Piece)
  PROVE  q = [n \in 1..Len(q) |-> q[n]]
OBVIOUS

(* A whole file that is not what was announced has been overtaken.         *)
LEMMA OnlyOvertakenFails ==
  ASSUME GenuineInv, TwoReaders, Faultless, NEW d \in Device, NEW p \in Device, d # p,
         NEW s, NEW S, Fails(p, s, S)
  PROVE  Overtaken(p)
<1>. DEFINE in == dev[p].in
            o == dev[d].out
            m == Msg(p)
            k == in.kind
<1>1. /\ TypeOK /\ OrderInv /\ Transfer(d, p) /\ Genuine(d, p) /\ o \in OutTransfer
      /\ in \in InTransfer
  BY GenuineFacts
<1>2. events[p] # <<>> => Parses(m)
  BY <1>1 DEF TypeOK, Faultless, Parses
<1>3. events[p] # <<>> /\ m.type = "FILE_DONE" /\ k = m.kind /\ ~Verified(in)
  BY <1>2 DEF Fails, Faultless
<1>4. m.kind \in Kinds /\ k # None
  BY <1>1, <1>3, MsgType, FileMsgType, SyncConstants DEF FileTypes
<1>5. /\ Sending(d, p) /\ in.src = d /\ k \in Kinds /\ k = o.kind /\ in.ver = o.ver
      /\ in.size = o.size
  BY <1>4, ComesFrom
<1>6. o.size = Chunks[k] /\ AsAnnounced(d, p)
  BY <1>1, <1>5 DEF Genuine
<1>7. PICK v \in Versions : FromOne(d, p, v)
  BY <1>1, <1>5 DEF Genuine
<1>8. Len(in.data) = o.size
  <2>1. Fits(m, o, Sent(dev[d]), dev[p].saved)
    BY <1>1, <1>3, MsgFromOther DEF Transfer, Within, Fitting
  <2>2. Agree(o, Sent(dev[d]), in, dev[p].saved)
    BY <1>1 DEF Transfer
  <2>3. o.doneSent
    BY <1>3, <1>5, <2>1, <2>2 DEF Fits, Agree
  <2>4. o.chunk = o.size /\ o.chunk <= Len(in.data) /\ Len(in.data) <= o.size
    BY <1>4, <1>5, <2>2, <2>3, SyncConstants DEF Agree
  <2>5. Len(in.data) \in Nat /\ o.chunk \in Nat
    BY <1>1 DEF InTransfer, OutTransfer
  <2>. HIDE DEF in, o
  <2>. QED  BY <2>4, <2>5
<1>9. in.data = Snapshot(d, k, v)
  <2>1. in.data \in Seq(Piece) /\ Len(in.data) = Chunks[k] /\ DOMAIN in.data = 1..Chunks[k]
    BY <1>1, <1>6, <1>8 DEF InTransfer
  <2>2. \A n \in DOMAIN in.data : in.data[n] = PieceOf(d, v, n - 1)
    BY <1>4, <1>7 DEF FromOne, InPlace
  <2>3. Snapshot(d, k, v) = [n \in 1..Chunks[k] |-> PieceOf(d, v, n - 1)]
    BY <1>5, SyncConstants DEF Snapshot, SizeOf
  <2>. HIDE DEF in, k
  <2>4. in.data = [n \in 1..Chunks[k] |-> in.data[n]]
    BY <2>1, SequenceAsFunction
  <2>. QED  BY <2>1, <2>2, <2>3, <2>4
<1>10. v # in.ver
  <2>. SUFFICES ASSUME v = in.ver PROVE Verified(in)
    BY <1>3
  <2>1. k \in MergeKinds => in.size > 0
    BY <1>5, <1>6, SyncConstants
  <2>. QED  BY <1>5, <1>8, <1>9, <2>1 DEF Verified
<1>11. v = local[d][k] /\ o.ver # local[d][k]
  BY <1>5, <1>7, <1>10 DEF FromOne
<1>12. k \in MergeKinds /\ in.ver < local[p][k] /\ local[p][k] = v
  BY <1>5, <1>6, <1>11 DEF AsAnnounced
<1>. QED  BY <1>5, <1>9, <1>12 DEF Overtaken

LEMMA FailureTurn ==
  ASSUME GenuineInv, TwoReaders, Lasting, Faultless, NEW d \in Device,
         NEW s, NEW S, Turn(d, s, S), Effect(d, s, S)
  PROVE  NoFalseFailure'
<1>1. PICK p \in Device : p # d
  BY DEF TwoReaders
<1>2. TypeOK /\ NoFalseFailure
  BY <1>1, GenuineFacts DEF GenuineInv
<1>3. dev'[d] = s /\ \A e \in Device \ {d} : dev'[e] = dev[e] /\ local'[e] = local[e]
  BY <1>2, TurnKeeps, LocalGrows
<1>4. ASSUME NEW e \in Device, dev'[e].in = dev[e].in, local'[e] = local[e], Overtaken(e)
      PROVE  Overtaken(e)'
  BY <1>4 DEF Overtaken, Snapshot, SizeOf, PieceOf
<1>5. s.state = "ERROR" => s.in = dev[d].in /\ local'[d] = local[d] /\ Overtaken(d)
  <2>1. CASE dev[d].state = "ERROR"
    BY <1>2, <2>1, ErrorStays DEF NoFalseFailure
  <2>2. CASE Fails(d, s, S)
    <3>1. Overtaken(d)
      BY <1>1, <2>2, OnlyOvertakenFails
    <3>. QED  BY <2>2, <3>1 DEF Fails, SameIn
  <2>3. CASE Resets(d, s, S)
    BY <2>3 DEF Resets, Faultless
  <2>. QED
    BY <2>1, <2>2, <2>3
       DEF Effect, Talks, MovesOn, StoresTotals, HearsAck, BeginsFiles, GoesOn,
           RepeatsMeta, SendsPiece, Resends, MetaAcked, ChunkAcked, TakesMeta,
           TakesChunk, TakesFile, AcksAgain, OwnNews, Joining
<1>6. ASSUME NEW e \in Device, dev'[e].state = "ERROR" PROVE Overtaken(e)'
  <2>1. CASE e = d
    BY <1>3, <1>4, <1>5, <1>6, <2>1
  <2>2. CASE e # d
    BY <1>2, <1>3, <1>4, <1>6, <2>2 DEF NoFalseFailure
  <2>. QED  BY <2>1, <2>2
<1>. QED  BY <1>6 DEF NoFalseFailure

(* A chunk on the air is read from the file that was opened.               *)
LEMMA ChunkSays ==
  ASSUME TypeOK, NEW d \in Device, NEW s, NEW S, Turn(d, s, S), Effect(d, s, S),
         NEW m \in S, m.type = "FILE_CHUNK"
  PROVE  SendsPiece(d, s, S) /\ s.out.open /\ m.kind = s.out.kind /\ m.ver = s.out.handle
<1>1. /\ \A t, e : Plain(t, e).type = t
      /\ \A t, e, k, i, v : LET f == FilePacket(t, e, k, i, v)
                            IN  f.type = t /\ f.kind = k /\ f.ver = v
      /\ Stats(d).type = "STATS"
  BY DEF Plain, Stats, FilePacket
<1>2. CASE SendsPiece(d, s, S)
  <2>. DEFINE k == dev[d].out.kind
              n == dev[d].out.size
  <2>1. k \in Kinds /\ s.out.kind = k /\ s.out \in OutTransfer /\ dev[d].out \in OutTransfer
    BY <1>2, TransferTypes DEF SendsPiece, Turn, DeviceState
  <2>2. s.out.chunk \in Nat /\ n \in Nat /\ s.out.metaAcked \in BOOLEAN
    BY <2>1 DEF OutTransfer
  <2>3. CASE s.out.chunk >= n
    BY <1>1, <1>2, <2>3 DEF SendsPiece
  <2>4. CASE s.out.chunk < n
    <3>1. s.out.open /\ S = {FilePacket("FILE_CHUNK", d, k, s.out.chunk, s.out.handle)}
      BY <1>2, <2>2, <2>4 DEF SendsPiece
    <3>2. m = FilePacket("FILE_CHUNK", d, k, s.out.chunk, s.out.handle)
      BY <3>1
    <3>. QED  BY <1>1, <1>2, <2>1, <3>1, <3>2
  <2>. QED  BY <2>2, <2>3, <2>4
<1>3. CASE Talks(d, s, S) \/ StoresTotals(d, s, S)
  BY <1>1, <1>3 DEF Talks, StoresTotals
<1>4. CASE BeginsFiles(d, s, S) \/ GoesOn(d, s, S) \/ RepeatsMeta(d, s, S)
  <2>1. S = {} \/ \E k, i, v : S = {FilePacket("FILE_META", d, k, i, v)}
    BY <1>4 DEF BeginsFiles, GoesOn, NextFile, RepeatsMeta
  <2>. QED  BY <1>1, <2>1
<1>5. CASE TakesMeta(d, s, S) \/ TakesChunk(d, s, S) \/ TakesFile(d, s, S)
  BY <1>1, <1>5 DEF TakesMeta, TakesChunk, TakesFile
<1>6. CASE AcksAgain(d, s, S)
  <2>1. \E t \in FileAcks : \E k, i : m = FilePacket(t, d, k, i, 0)
    BY <1>6 DEF AcksAgain, FileAcks, AckOf
  <2>. QED  BY <1>1, <2>1 DEF FileAcks
<1>7. CASE Fails(d, s, S) \/ Resets(d, s, S) \/ HearsAck(d, s, S) \/ OwnNews(d, s, S)
  BY <1>7 DEF Fails, Resets, HearsAck, OwnNews
<1>. QED  BY <1>2, <1>3, <1>4, <1>5, <1>6, <1>7 DEF Effect

(* What may become of the transfer that d sends.                           *)
LEMMA OutCases ==
  ASSUME IdleInv, Lasting, NEW d \in Device, NEW s, NEW S, Effect(d, s, S)
  PROVE  \/ s.out = dev[d].out
         \/ s.state = "ERROR" /\ s.out = [dev[d].out EXCEPT !.open = FALSE]
         \/ NextFile(d, s, S) /\ local' = local
         \/ SendsPiece(d, s, S)
<1>1. CASE Resets(d, s, S)
  BY <1>1 DEF Resets, Lasting, IdleInv, Idle
<1>2. CASE Fails(d, s, S)
  BY <1>2 DEF Fails
<1>. QED
  BY <1>1, <1>2
     DEF Effect, Talks, StoresTotals, HearsAck, BeginsFiles, GoesOn, RepeatsMeta,
         TakesMeta, TakesChunk, TakesFile, AcksAgain, OwnNews, SameOut

LEMMA NewFile ==
  ASSUME NEW d \in Device, NEW s, NEW S, NextFile(d, s, S), s.out.kind # None
  PROVE  LET k == s.out.kind
         IN  /\ s.out.ver = local[d][k] /\ s.out.size \in AnnouncedSizes(k)
             /\ ~s.out.metaAcked /\ ~s.out.open
<1>. DEFINE k == KindAfter(dev[d].out.kind)
<1>1. NoOut.kind = None
  BY DEF NoOut
<1>2. k # None
  <2>. SUFFICES ASSUME k = None PROVE FALSE
    OBVIOUS
  <2>1. s.out = NoOut
    BY DEF NextFile
  <2>. QED  BY <1>1, <2>1
<1>3. \E n \in AnnouncedSizes(k) :
        s.out = [NoOut EXCEPT !.kind = k, !.ver = local[d][k], !.size = n]
  BY <1>2 DEF NextFile
<1>. HIDE DEF k
<1>4. /\ s.out.kind = k /\ s.out.ver = local[d][k] /\ s.out.size \in AnnouncedSizes(k)
      /\ ~s.out.metaAcked /\ ~s.out.open
  BY <1>3 DEF NoOut
<1>. QED  BY <1>4

(* Of a file that is not open yet nothing has been read, whatever v.       *)
LEMMA NothingRead ==
  ASSUME NEW o \in OutTransfer, o.kind \in Kinds, NEW sent, NEW in \in InTransfer,
         NEW saved, Agree(o, sent, in, saved),
         NEW q, Within(q, Fitting(o, sent, saved)),
         ~o.metaAcked \/ o.size = 0, NEW d, NEW v
  PROVE  Within(q, ReadFrom(o.kind, v)) /\ InPlace(in, d, v)
<1>1. ASSUME NEW m \in Packet, Fits(m, o, sent, saved)
      PROVE  m \in ReadFrom(o.kind, v)
  <2>1. m.idx \in Nat
    BY DEF Packet
  <2>2. m.type = "FILE_CHUNK" => m.kind # o.kind
    BY <1>1, <2>1 DEF Fits, Agree
  <2>. QED  BY <2>2 DEF ReadFrom
<1>2. in.kind # None => DOMAIN in.data = {}
  <2>1. Len(in.data) \in Nat /\ DOMAIN in.data = 1..Len(in.data)
    BY DEF InTransfer
  <2>2. in.kind # None => Len(in.data) = 0
    BY <2>1 DEF Agree
  <2>. QED  BY <2>1, <2>2
<1>. QED  BY <1>1, <1>2 DEF Within, Fitting, InPlace

LEMMA OpenedTurn ==
  ASSUME GenuineInv, TwoReaders, Lasting, NEW d \in Device,
         NEW s, NEW S, Turn(d, s, S), Effect(d, s, S)
  PROVE  Opened(s)
<1>. DEFINE x == dev[d]
            o == x.out
            q == s.out
<1>1. PICK p \in Device : d # p
  BY DEF TwoReaders
<1>2. /\ TypeOK /\ IdleInv /\ TransferInv /\ Transfer(d, p) /\ Opened(x)
      /\ o \in OutTransfer /\ None \notin Kinds
  BY <1>1, GenuineFacts DEF Genuine
<1>3. q \in OutTransfer
  BY <1>2 DEF Turn, DeviceState
<1>4. CASE q = o
  BY <1>2, <1>4, ErrorStays DEF Opened
<1>5. CASE s.state = "ERROR"
  BY <1>5 DEF Opened
<1>6. CASE NextFile(d, s, S)
  BY <1>6, NewFile DEF Opened
<1>7. CASE SendsPiece(d, s, S)
  <2>1. /\ Agree(o, Sent(x), dev[p].in, dev[p].saved)
        /\ Within(events[d], Answering(o, Sent(x), dev[p].in, dev[p].saved))
    BY <1>2 DEF Transfer
  <2>2. /\ o.kind \in Kinds /\ q.size = o.size
        /\ q.chunk \in Nat /\ o.size \in Nat /\ o.chunk \in Nat
    BY <1>2, <1>3, <1>7 DEF SendsPiece, OutTransfer
  <2>3. CASE q.chunk < o.size
    BY <1>7, <2>3 DEF SendsPiece, Opened
  <2>4. CASE q.chunk >= o.size /\ o.size > 0
    <3>1. q.open = o.open
      BY <1>7, <2>4 DEF SendsPiece
    <3>2. o.metaAcked
      <4>1. CASE q.chunk = o.chunk
        BY <2>1, <2>2, <2>4, <4>1, <1>2 DEF Agree
      <4>2. CASE ChunkAcked(d, s)
        <5>1. /\ events[d] # <<>> /\ Msg(d).type = "CHUNK_ACK"
              /\ Msg(d).kind = o.kind
          BY <4>2 DEF ChunkAcked, Joining, Takes
        <5>2. Msg(d) = events[d][1] /\ 1 \in DOMAIN events[d]
          BY <1>2, <5>1, TransferTypes DEF Queue, Msg
        <5>3. Answers(Msg(d), o, Sent(x), dev[p].in, dev[p].saved)
          BY <2>1, <5>2 DEF Within, Answering
        <5>. QED  BY <2>1, <5>1, <5>3 DEF Answers, Agree
      <4>. QED  BY <1>7, <4>1, <4>2 DEF SendsPiece, Resends, MetaAcked
    <3>3. x.state # "ERROR"
      BY <1>7 DEF SendsPiece, Resends, MetaAcked, ChunkAcked, Joining, Joinable
    <3>. QED  BY <1>2, <2>2, <2>4, <3>1, <3>2, <3>3 DEF Opened
  <2>5. CASE ~(o.size > 0)
    BY <2>2, <2>5 DEF Opened
  <2>. QED  BY <2>2, <2>3, <2>4, <2>5
<1>. QED  BY <1>2, <1>4, <1>5, <1>6, <1>7, OutCases

LEMMA GenuineSender ==
  ASSUME GenuineInv, TransferInv', TwoReaders, Lasting, Faultless,
         NEW d \in Device, NEW p \in Device, d # p,
         NEW s, NEW S, Turn(d, s, S), Effect(d, s, S)
  PROVE  Genuine(d, p)'
<1>. DEFINE x == dev[d]
            y == dev[p]
            o == x.out
            q == s.out
            k == q.kind
<1>1. /\ TypeOK /\ IdleInv /\ Transfer(d, p) /\ Genuine(d, p) /\ Genuine(p, d)
      /\ o \in OutTransfer /\ y.in \in InTransfer /\ None \notin Kinds
      /\ \A j \in Kinds : j \in Items /\ local[d][j] \in Nat
  BY GenuineFacts
<1>2. /\ TypeOK' /\ Transfer(d, p)'
  BY DEF TransferInv, TransfersAgree, PeersInv, OrderInv, CopyInv, WholeInv
<1>3. /\ dev'[d] = s /\ dev'[p] = y /\ s \in DeviceState /\ q \in OutTransfer
      /\ k \in Kinds \cup {None} /\ local'[p] = local[p]
  BY <1>1, TurnKeeps, LocalGrows DEF DeviceState, OutTransfer
<1>4. Opened(s)
  BY OpenedTurn
<1>5. SUFFICES ASSUME k # None, k \notin y.saved
               PROVE  /\ q.size = Chunks[k]
                      /\ AsAnnounced(d, p)'
                      /\ \E v \in Versions : FromOne(d, p, v)'
  BY <1>3, <1>4 DEF Genuine, Sending, Opened
<1>6. k \in Kinds /\ \A e \in Device : local[e][k] \in Versions
  BY <1>1, <1>3, <1>5 DEF TypeOK
<1>7. ASSUME NEW v \in Versions, Within(events'[p], ReadFrom(k, v)),
             InPlace(y.in, d, v), v \in {q.ver, local'[d][k]}, q.open => q.handle = v
      PROVE  \E w \in Versions : FromOne(d, p, w)'
  <2>1. FromOne(d, p, v)'
    BY <1>3, <1>7 DEF FromOne, InPlace, PieceOf, ReadFrom
  <2>. QED  BY <2>1
<1>8. CASE SendsPiece(d, s, S)
  <2>1. /\ o.kind = k /\ q.ver = o.ver /\ q.size = o.size /\ local' = local
        /\ s.saved = x.saved
    BY <1>8 DEF SendsPiece, SameIn
  <2>2. PICK v \in Versions : FromOne(d, p, v)
    BY <1>1, <1>5, <2>1 DEF Genuine, Sending
  <2>3. o.size = Chunks[k] /\ AsAnnounced(d, p)
    BY <1>1, <1>5, <2>1 DEF Genuine, Sending
  <2>4. AsAnnounced(d, p)'
    BY <1>3, <2>1, <2>3 DEF AsAnnounced
  <2>5. q.chunk \in Nat /\ o.size \in Nat /\ q.metaAcked \in BOOLEAN
    BY <1>1, <1>3 DEF OutTransfer
  <2>6. q.open => q.handle = IF o.open THEN o.handle ELSE local[d][k]
    <3>. DEFINE n == o.size
                i == q.chunk
    <3>1. i >= n \/ (i < n /\ ~q.metaAcked) => q.open = o.open /\ q.handle = o.handle
      BY <1>8 DEF SendsPiece
    <3>2. i < n /\ q.metaAcked =>
            q.handle = IF o.open THEN o.handle ELSE local[d][k]
      BY <1>8, <2>1 DEF SendsPiece
    <3>3. i >= n \/ i < n
      BY <2>5
    <3>. QED  BY <3>1, <3>2, <3>3
  <2>7. CASE o.open
    <3>1. \A m \in S : m \in ReadFrom(k, v)
      <4>1. ASSUME NEW m \in S, m.type = "FILE_CHUNK" PROVE m.ver = v
        BY <1>1, <2>2, <2>6, <2>7, <4>1, ChunkSays DEF FromOne
      <4>2. \A m \in S : m \in Packet
        BY DEF Turn
      <4>. QED  BY <4>1, <4>2 DEF ReadFrom
    <3>2. Within(events'[p], ReadFrom(k, v))
      BY <1>1, <1>2, <2>1, <2>2, <3>1, QueuesWithin DEF FromOne
    <3>3. InPlace(y.in, d, v) /\ v \in {q.ver, local'[d][k]}
      BY <2>1, <2>2 DEF FromOne
    <3>4. q.open => q.handle = v
      BY <2>2, <2>6, <2>7 DEF FromOne
    <3>5. \E w \in Versions : FromOne(d, p, w)'
      BY <1>7, <3>2, <3>3, <3>4
    <3>. QED  BY <2>1, <2>3, <2>4, <3>5
  <2>8. CASE ~o.open
    <3>. DEFINE w == local[d][k]
    <3>1. x.state # "ERROR"
      BY <1>8 DEF SendsPiece, Resends, MetaAcked, ChunkAcked, Joining, Joinable
    <3>2. ~o.metaAcked \/ o.size = 0
      BY <1>1, <1>5, <2>1, <2>5, <2>8, <3>1 DEF Genuine, Opened
    <3>3. /\ Agree(o, Sent(x), y.in, y.saved)
          /\ Within(events[p], Fitting(o, Sent(x), y.saved))
      BY <1>1 DEF Transfer
    <3>4. Within(events[p], ReadFrom(k, w)) /\ InPlace(y.in, d, w)
      BY <1>1, <1>6, <2>1, <3>2, <3>3, NothingRead
    <3>5. \A m \in S : m \in ReadFrom(k, w)
      <4>1. ASSUME NEW m \in S, m.type = "FILE_CHUNK" PROVE m.ver = w
        BY <1>1, <2>6, <2>8, <4>1, ChunkSays
      <4>2. \A m \in S : m \in Packet
        BY DEF Turn
      <4>. QED  BY <4>1, <4>2 DEF ReadFrom
    <3>. HIDE DEF w
    <3>6. Within(events'[p], ReadFrom(k, w))
      BY <1>1, <1>2, <3>4, <3>5, QueuesWithin
    <3>7. w \in Versions /\ w \in {q.ver, local'[d][k]} /\ (q.open => q.handle = w)
      BY <1>6, <2>1, <2>6, <2>8 DEF w
    <3>8. \E u \in Versions : FromOne(d, p, u)'
      BY <1>7, <3>4, <3>6, <3>7
    <3>. QED  BY <2>1, <2>3, <2>4, <3>8
  <2>. QED  BY <2>7, <2>8
<1>9. CASE NextFile(d, s, S) /\ local' = local
  <2>. DEFINE w == local[d][k]
  <2>1. /\ q.ver = w /\ q.size \in AnnouncedSizes(k) /\ ~q.metaAcked /\ ~q.open
    BY <1>5, <1>9, NewFile
  <2>2. q.size = Chunks[k]
    BY <2>1 DEF AnnouncedSizes, Faultless
  <2>3. AsAnnounced(d, p)'
    BY <1>3, <1>9, <2>1 DEF AsAnnounced
  <2>4. /\ Agree(q, Sent(s), y.in, y.saved)
        /\ Within(events'[p], Fitting(q, Sent(s), y.saved))
    <3>1. Sent(dev[d])' = Sent(s)
      BY <1>3 DEF Sent, Before
    <3>. QED  BY <1>2, <1>3, <3>1 DEF Transfer
  <2>5. Within(events'[p], ReadFrom(k, w)) /\ InPlace(y.in, d, w)
    BY <1>1, <1>3, <1>6, <2>1, <2>4, NothingRead
  <2>6. \E u \in Versions : FromOne(d, p, u)'
    BY <1>6, <1>7, <2>1, <2>5
  <2>. QED  BY <2>2, <2>3, <2>6
<1>10. CASE /\ ~SendsPiece(d, s, S)
            /\ \/ q = o
               \/ s.state = "ERROR" /\ q = [o EXCEPT !.open = FALSE]
  <2>1. /\ o.kind = k /\ q.ver = o.ver /\ q.size = o.size
        /\ q.open => o.open /\ q.handle = o.handle
    BY <1>1, <1>10 DEF OutTransfer
  <2>2. PICK v \in Versions : FromOne(d, p, v)
    BY <1>1, <1>5, <2>1 DEF Genuine, Sending
  <2>3. o.size = Chunks[k] /\ AsAnnounced(d, p)
    BY <1>1, <1>5, <2>1 DEF Genuine, Sending
  <2>4. \/ local'[d][k] = local[d][k]
        \/ /\ k \in MergeKinds /\ k \in s.saved /\ k \notin x.saved
           /\ y.out.kind = k
           /\ local'[d][k] = y.out.ver /\ y.out.ver > local[d][k]
    BY <1>5, <1>6, <1>1, <2>1, OwnChange
  <2>5. x.saved \subseteq s.saved
    BY <1>1, SavedKeeps
  <2>6. AsAnnounced(d, p)' /\ v \in {q.ver, local'[d][k]}
    <3>1. CASE local'[d][k] = local[d][k]
      BY <1>3, <2>1, <2>2, <2>3, <2>5, <3>1 DEF AsAnnounced, FromOne
    <3>2. CASE /\ k \in MergeKinds /\ k \in s.saved /\ k \notin x.saved
               /\ y.out.kind = k
               /\ local'[d][k] = y.out.ver /\ y.out.ver > local[d][k]
      <4>1. o.ver = local[d][k] /\ v = o.ver
        BY <2>1, <2>2, <2>3, <3>2 DEF AsAnnounced, FromOne
      <4>2. y.out.ver = local[p][k]
        <5>1. AsAnnounced(p, d)
          BY <1>1, <1>5, <3>2 DEF Genuine, Sending
        <5>. QED  BY <1>5, <3>2, <5>1 DEF AsAnnounced
      <4>3. local'[p][k] = y.out.ver /\ local'[d][k] = local'[p][k]
        BY <1>3, <3>2, <4>2
      <4>4. q.ver < local'[d][k]
        <5>1. local[d][k] \in Nat /\ local[p][k] \in Nat
          BY <1>6 DEF Versions
        <5>. QED  BY <2>1, <3>2, <4>1, <4>2, <5>1
      <4>. QED  BY <1>3, <2>1, <3>2, <4>1, <4>3, <4>4 DEF AsAnnounced
    <3>. QED  BY <2>4, <3>1, <3>2
  <2>7. Within(events'[p], ReadFrom(k, v))
    <3>1. \A m \in S : m \in ReadFrom(k, v)
      BY <1>1, <1>10, ChunkSays DEF ReadFrom, Turn
    <3>. QED  BY <1>1, <1>2, <2>1, <2>2, <3>1, QueuesWithin DEF FromOne
  <2>8. InPlace(y.in, d, v) /\ (q.open => q.handle = v)
    BY <2>1, <2>2 DEF FromOne
  <2>9. \E w \in Versions : FromOne(d, p, w)'
    BY <1>7, <2>6, <2>7, <2>8
  <2>. QED  BY <2>1, <2>3, <2>6, <2>9
<1>. QED  BY <1>1, <1>8, <1>9, <1>10, OutCases

LEMMA GenuineReceiver ==
  ASSUME GenuineInv, TransferInv', TwoReaders, Lasting, Faultless,
         NEW d \in Device, NEW p \in Device, d # p,
         NEW s, NEW S, Turn(p, s, S), Effect(p, s, S)
  PROVE  Genuine(d, p)'
<1>. DEFINE x == dev[d]
            y == dev[p]
            o == x.out
            k == o.kind
            in == y.in
            m == Msg(p)
<1>1. /\ TypeOK /\ TransferInv /\ IdleInv /\ Transfer(d, p) /\ Genuine(d, p)
      /\ o \in OutTransfer /\ in \in InTransfer /\ k \in Kinds \cup {None}
      /\ None \notin Kinds
  BY GenuineFacts
<1>2. TypeOK'
  BY DEF TransferInv, TransfersAgree, PeersInv, OrderInv, CopyInv, WholeInv
<1>3. /\ dev'[p] = s /\ dev'[d] = x /\ s \in DeviceState /\ local'[d] = local[d]
      /\ y.saved \subseteq s.saved
  BY <1>1, TurnKeeps, LocalGrows, SavedKeeps
<1>4. SUFFICES ASSUME k # None, k \notin s.saved
               PROVE  AsAnnounced(d, p)' /\ \E v \in Versions : FromOne(d, p, v)'
  BY <1>1, <1>3 DEF Genuine, Sending, Opened
<1>5. k \in Kinds /\ Sending(d, p) /\ k \notin y.saved
  BY <1>1, <1>3, <1>4 DEF Sending
<1>6. local'[p][k] = local[p][k]
  <2>. DEFINE j == k
  <2>. HIDE DEF j
  <2>1. j \in Kinds /\ j \notin s.saved /\ j \notin y.saved
    BY <1>4, <1>5 DEF j
  <2>2. local'[p][j] = local[p][j]
    BY <2>1, OwnChange
  <2>. QED  BY <2>2 DEF j
<1>7. AsAnnounced(d, p)'
  BY <1>1, <1>3, <1>5, <1>6 DEF Genuine, AsAnnounced
<1>8. PICK v \in Versions : FromOne(d, p, v)
  BY <1>1, <1>5 DEF Genuine
<1>9. Within(events'[p], ReadFrom(k, v))
  BY <1>1, <1>2, <1>8, QueuesWithin DEF FromOne
<1>10. InPlace(s.in, d, v)
  <2>1. CASE s.in = in
    BY <1>8, <2>1 DEF FromOne
  <2>2. CASE s.in = NoIn
    BY <2>2 DEF NoIn, InPlace
  <2>3. CASE TakesMeta(p, s, S)
    <3>1. s.in = in \/ s.in = Incoming(m)
      BY <2>3 DEF TakesMeta
    <3>2. CASE s.in = Incoming(m)
      <4>1. DOMAIN s.in.data = {}
        BY <3>2 DEF Incoming
      <4>. QED  BY <4>1 DEF InPlace
    <3>. QED  BY <2>1, <3>1, <3>2
  <2>4. CASE TakesChunk(p, s, S)
    <3>1. /\ Takes(p) /\ m.type = "FILE_CHUNK" /\ in.kind = m.kind
          /\ m.idx = Len(in.data)
          /\ s.in = [in EXCEPT !.data = Append(@, PieceOf(m.from, m.ver, m.idx))]
      BY <2>4 DEF TakesChunk, Joining, IsNextChunk, Faultless
    <3>2. m \in Packet /\ m.from = d /\ m.kind \in Kinds
      BY <1>1, <3>1, TakenFits DEF Offers
    <3>3. in.kind = k
      BY <1>1, <3>1, <3>2 DEF Transfer, Agree
    <3>4. m.ver = v
      <4>1. m = events[p][1] /\ 1 \in DOMAIN events[p]
        BY <1>1, <3>1, TransferTypes DEF Takes, Queue, Msg
      <4>. QED  BY <1>8, <3>1, <3>3, <4>1 DEF FromOne, Within, ReadFrom
    <3>5. s.in.data = Append(in.data, PieceOf(d, v, Len(in.data))) /\ in.data \in Seq(Piece)
      <4>1. in.data \in Seq(Piece)
        BY <1>1 DEF InTransfer
      <4>2. \A e : [in EXCEPT !.data = Append(@, e)].data = Append(in.data, e)
        BY <1>1 DEF InTransfer
      <4>. QED  BY <3>1, <3>2, <3>4, <4>1, <4>2
    <3>6. \A n \in DOMAIN in.data : in.data[n] = PieceOf(d, v, n - 1)
      BY <1>8, <3>1, <3>2, <1>1 DEF FromOne, InPlace
    <3>7. \A n \in DOMAIN s.in.data : s.in.data[n] = PieceOf(d, v, n - 1)
      <4>. DEFINE data == in.data
                  e == PieceOf(d, v, Len(data))
      <4>1. \A n \in DOMAIN Append(data, e) :
              \/ n \in DOMAIN data /\ Append(data, e)[n] = data[n]
              \/ n = Len(data) + 1 /\ Append(data, e)[n] = e /\ n - 1 = Len(data)
        BY <3>5
      <4>. QED  BY <3>5, <3>6, <4>1
    <3>. QED  BY <3>7 DEF InPlace
  <2>. QED
    BY <2>1, <2>2, <2>3, <2>4
       DEF Effect, Talks, Fails, Resets, Idle, StoresTotals, HearsAck, BeginsFiles,
           GoesOn, RepeatsMeta, SendsPiece, TakesFile, AcksAgain, OwnNews, SameIn
<1>11. FromOne(d, p, v)'
  BY <1>3, <1>8, <1>9, <1>10 DEF FromOne, InPlace, PieceOf, ReadFrom
<1>. QED  BY <1>7, <1>11

LEMMA GenuineNext ==
  ASSUME TwoReaders, Lasting, Faultless
  PROVE  GenuineInv /\ [Next]_vars => GenuineInv'
<1>. SUFFICES ASSUME GenuineInv, [Next]_vars PROVE GenuineInv'
  OBVIOUS
<1>1. TransferInv /\ IdleInv /\ NoFalseFailure
  BY DEF GenuineInv, TransferInv, PeersInv, OrderInv, CopyInv, WholeInv
<1>2. TransferInv'
  BY <1>1, TransferNext
<1>3. CASE Clears
  <2>1. dev' = dev /\ events' = events /\ local' = local
    BY <1>3 DEF Clears
  <2>2. NoFalseFailure'
    BY <1>1, <2>1 DEF NoFalseFailure, Overtaken
  <2>3. ASSUME NEW d \in Device, NEW p \in Device, d # p PROVE Genuine(d, p)'
    <3>1. Genuine(d, p)
      BY <2>3 DEF GenuineInv
    <3>. QED
      BY <2>1, <3>1 DEF Genuine, Sending, Opened, AsAnnounced, FromOne, InPlace
  <2>. QED  BY <1>2, <2>2, <2>3 DEF GenuineInv
<1>4. ASSUME NEW e \in Device, Turns(e) PROVE GenuineInv'
  <2>1. PICK s, S : Turn(e, s, S) /\ Effect(e, s, S)
    BY <1>4 DEF Turns
  <2>2. NoFalseFailure'
    BY <2>1, FailureTurn
  <2>3. ASSUME NEW d \in Device, NEW p \in Device, d # p PROVE Genuine(d, p)'
    <3>1. e = d \/ e = p
      BY <2>3, TheOther
    <3>. QED  BY <1>2, <2>1, <2>3, <3>1, GenuineSender, GenuineReceiver
  <2>. QED  BY <1>2, <2>2, <2>3 DEF GenuineInv
<1>. QED  BY <1>1, <1>3, <1>4, StepTurns

LEMMA GenuineInit == Init => GenuineInv
<1>. SUFFICES ASSUME Init PROVE GenuineInv
  OBVIOUS
<1>1. TransferInv
  BY TransferInit
<1>2. ASSUME NEW d \in Device
      PROVE  dev[d].state = "OFF" /\ dev[d].out.kind = None
  <2>1. dev[d] = Fresh("OFF", FALSE)
    BY DEF Init
  <2>. QED  BY <2>1 DEF Fresh, NoOut
<1>3. NoFalseFailure
  BY <1>2 DEF NoFalseFailure
<1>4. \A d, p \in Device : Genuine(d, p)
  BY <1>2 DEF Genuine, Opened, Sending
<1>. QED  BY <1>1, <1>3, <1>4 DEF GenuineInv

(* Without a fault the only reader that ends in ERROR is one that has been *)
(* sent a newer file than was announced, whatever is lost, repeated or     *)
(* evicted and whatever the two readers' dates and achievements are: what  *)
(* it received is the sender's whole file as that is now, and its own is   *)
(* the same.                                                               *)
THEOREM ExchangesDoNotFail ==
  ASSUME TwoReaders, Lasting, Faultless
  PROVE  Spec => []NoFalseFailure
<1>1. GenuineInv /\ [Next]_vars => GenuineInv'
  BY GenuineNext
<1>2. GenuineInv => NoFalseFailure
  BY DEF GenuineInv
<1>. QED  BY <1>1, <1>2, GenuineInit, PTL DEF Spec

=============================================================================
