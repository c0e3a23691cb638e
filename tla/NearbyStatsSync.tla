--------------------------- MODULE NearbyStatsSync ---------------------------
(***************************************************************************)
(* The Nearby Stats Sync screen: readers that have the screen open find    *)
(* each other over ESP-NOW broadcasts, exchange their global totals and    *)
(* then send each other, one at a time and stop-and-wait, a list of files. *)
(*                                                                         *)
(* One device runs two tasks that matter here: the radio callback, which   *)
(* appends packets to the bounded queue events[d] (or loses them), and the *)
(* loop task, which takes packets from the queue, reads the two buttons    *)
(* and polls its timers.  Time is abstract: a retry may happen whenever    *)
(* its conditions hold.  A send and its arrival are one step, so packets   *)
(* of one sender keep their order; each arrival may be lost.               *)
(***************************************************************************)
EXTENDS Naturals, Sequences, FiniteSets

CONSTANTS
  Device,       \* the readers within radio range
  KindOrder,    \* the SyncFileKinds, in the order they are sent
  MergeKinds,   \* kinds folded into the receiver's own file (date, achievements)
  Chunks,       \* Chunks[k]: packets the file of kind k takes; 0 = no such file
  MaxVersion,   \* bound: versions of a local file run over 0..MaxVersion
  QueueCap,     \* MAX_SYNC_EVENTS
  AwardKind,    \* the achievements kind, which may also change after a sync
  Starters,     \* readers on which the user presses Sync; the others are joined
  Foreign,      \* readers that may run a firmware with other totals
  Env,          \* what users and faults may do in a run, see EnvEvents
  None

Kinds == {KindOrder[i] : i \in DOMAIN KindOrder}
Totals == "Totals"          \* the global totals: the payload of a STATS packet
Items == Kinds \cup {Totals}

(* What a run lets the surroundings do: the user leaves the screen, reads  *)
(* between visits, aborts a preparation or syncs again; the card or the    *)
(* radio reports a failure, or the card damages a chunk unnoticed; power   *)
(* is lost inside a file promotion; a file to be sent cannot be read; an   *)
(* idle timer runs out; an award is unlocked after a sync; the air loses   *)
(* packets, for ever or until it clears.                                   *)
EnvEvents == {"Leave", "Read", "Abort", "Resync", "Fault", "BadWrite",
              "PowerLoss", "Unreadable", "Timeout", "Unlock", "Loss", "Clear"}

ASSUME SyncConstants ==
  /\ None \notin Device /\ None \notin Kinds
  /\ KindOrder \in Seq(Kinds) /\ KindOrder # <<>>
  /\ \A i, j \in DOMAIN KindOrder : KindOrder[i] = KindOrder[j] => i = j
  /\ Totals \notin Kinds
  /\ MergeKinds \subseteq Kinds
  /\ Chunks \in [Kinds -> Nat] /\ \A k \in MergeKinds : Chunks[k] > 0
  /\ MaxVersion \in Nat /\ QueueCap \in Nat \ {0}
  /\ AwardKind \in MergeKinds \cup {None}
  /\ Starters \subseteq Device /\ Foreign \subseteq Device
  /\ Env \subseteq EnvEvents

VARIABLES
  dev,      \* dev[d]: what the loop task of d keeps in memory
  events,   \* events[d]: the queue between the radio callback and the loop task
  local,    \* local[d][i]: the version of d's own file (or totals) on its card
  synced,   \* synced[d][p][i]: the pieces of p's file stored on d's card
  air,      \* "lossy": any arrival may be lost; "clear": none is any more
  foreign   \* readers whose STATS payload the others cannot parse; constant

vars == <<dev, events, local, synced, air, foreign>>

-----------------------------------------------------------------------------
(* Contents.  A file is a sequence of pieces; a piece names the reader and *)
(* the version it was read from and its position.  The CRC of a file is    *)
(* ideal: it stands for exactly one sequence of pieces.                    *)

Versions == 0..MaxVersion
Piece == [src : Device, ver : Versions, idx : Nat]
PieceOf(p, v, i) == [src |-> p, ver |-> v, idx |-> i]
SizeOf(i) == IF i = Totals THEN 1 ELSE Chunks[i]
Snapshot(p, i, v) == [n \in 1..SizeOf(i) |-> PieceOf(p, v, n - 1)]
NoFile == <<>>

(* Packets.  FILE_ACK is split by its phase.  idx is the chunk, and in an  *)
(* announcement the number of chunks.                                      *)
PlainTypes == {"HELLO", "NAME", "STATS", "ACK"}
FileAcks == {"META_ACK", "CHUNK_ACK", "DONE_ACK"}
FileTypes == {"FILE_META", "FILE_CHUNK", "FILE_DONE"} \cup FileAcks
Packet ==
  [type : PlainTypes, from : Device, kind : {None}, idx : {0}, ver : Versions]
  \cup [type : FileTypes, from : Device, kind : Kinds, idx : Nat, ver : Versions]
Plain(t, d) == [type |-> t, from |-> d, kind |-> None, idx |-> 0, ver |-> 0]
FilePacket(t, d, k, i, v) ==
  [type |-> t, from |-> d, kind |-> k, idx |-> i, ver |-> v]
Stats(d) == [Plain("STATS", d) EXCEPT !.ver = local[d][Totals]]

(* Transfers.  ver and size are what the announcement says.                *)
NoOut == [kind |-> None, ver |-> 0, size |-> 0, metaAcked |-> FALSE,
          chunk |-> 0, doneSent |-> FALSE, open |-> FALSE, handle |-> 0]
NoIn == [kind |-> None, src |-> None, ver |-> 0, size |-> 0, data |-> <<>>]

OutTransfer ==
  [kind : Kinds \cup {None}, ver : Versions, size : Nat, metaAcked : BOOLEAN,
   chunk : Nat, doneSent : BOOLEAN, open : BOOLEAN, handle : Versions]
InTransfer == [kind : Kinds \cup {None}, src : Device \cup {None},
               ver : Versions, size : Nat, data : Seq(Piece)]

Queue == {q \in Seq(Packet) : Len(q) <= QueueCap}

States == {"OFF", "READY", "PREPARING", "DISCOVERING", "SYNCING", "SYNCED",
           "ERROR"}
DeviceState ==
  [state : States, radio : BOOLEAN, peer : Device \cup {None},
   totalsSaved : BOOLEAN, statsSent : BOOLEAN, statsAcked : BOOLEAN,
   saved : SUBSET Kinds, filesSent : BOOLEAN, refreshed : BOOLEAN,
   out : OutTransfer, in : InTransfer]

(* The memory of a screen in state st whose transfer flags are all reset.  *)
Fresh(st, radio) ==
  [state |-> st, radio |-> radio, peer |-> None, totalsSaved |-> FALSE,
   statsSent |-> FALSE, statsAcked |-> FALSE, saved |-> {},
   filesSent |-> FALSE, refreshed |-> FALSE, out |-> NoOut, in |-> NoIn]

(* Every variable has its type, and the queue never outgrows its limit.    *)
TypeOK ==
  /\ dev \in [Device -> DeviceState]
  /\ events \in [Device -> Queue]
  /\ local \in [Device -> [Items -> Versions]]
  /\ synced \in [Device -> [Device -> [Items -> Seq(Piece)]]]
  /\ air \in {"lossy", "clear"}
  /\ foreign \subseteq Foreign

Init ==
  /\ dev = [d \in Device |-> Fresh("OFF", FALSE)]
  /\ events = [d \in Device |-> <<>>]
  /\ local \in [Device -> [Items -> Versions]]
  /\ \A d \in Device : \A i \in Items \ MergeKinds : local[d][i] = 0
  /\ synced = [d \in Device |-> [p \in Device |-> [i \in Items |-> NoFile]]]
  /\ air = IF "Loss" \in Env THEN "lossy" ELSE "clear"
  /\ foreign \in SUBSET Foreign

-----------------------------------------------------------------------------
(* The radio.                                                              *)

(* Mutant: the queue grows instead of evicting.                            *)
EnqueueUnbounded(q, m) ==
  IF Len(q) < QueueCap \/ m.type \notin {"HELLO", "NAME"} THEN Append(q, m) ELSE q

(* enqueueEspNowPacket: a full queue refuses HELLO and NAME and evicts its *)
(* oldest packet for any other.                                            *)
Enqueue(q, m) ==
  IF Len(q) < QueueCap THEN Append(q, m)
  ELSE IF m.type \in {"HELLO", "NAME"} THEN q
  ELSE Append(Tail(q), m)

(* The packets of pkts (two at most) whose positions are in got reach q.   *)
Arrive(q, pkts, got) ==
  LET first == IF 1 \in got THEN Enqueue(q, pkts[1]) ELSE q
  IN  IF 2 \in got THEN Enqueue(first, pkts[2]) ELSE first

(* d broadcasts pkts and is left with queue rest.  A receiver hears some   *)
(* of them, all when the air is clear, none when its radio is off.         *)
Broadcast(d, pkts, rest) ==
  \E got \in [Device \ {d} -> SUBSET DOMAIN pkts] :
    /\ \A e \in Device \ {d} :
         IF dev[d].radio /\ dev[e].radio
         THEN air = "clear" => got[e] = DOMAIN pkts
         ELSE got[e] = {}
    /\ events' = [e \in Device |->
                    IF e = d THEN rest ELSE Arrive(events[e], pkts, got[e])]

(* One handled packet: d's memory becomes s, it broadcasts pkts.           *)
Handled(d, s, pkts) ==
  /\ dev' = [dev EXCEPT ![d] = s]
  /\ Broadcast(d, pkts, Tail(events[d]))
  /\ UNCHANGED <<air, foreign>>

(* One poll or button action; processEvents has emptied the queue before.  *)
Polled(d, s, pkts) ==
  /\ events[d] = <<>>
  /\ dev' = [dev EXCEPT ![d] = s]
  /\ Broadcast(d, pkts, <<>>)
  /\ UNCHANGED <<local, synced, air, foreign>>

Failed(s) == [s EXCEPT !.state = "ERROR", !.out.open = FALSE]   \* setError

-----------------------------------------------------------------------------
(* Sending files.                                                          *)

KindAfter(k) ==
  IF k = None THEN KindOrder[1]
  ELSE LET i == CHOOSE j \in DOMAIN KindOrder : KindOrder[j] = k
       IN  IF i = Len(KindOrder) THEN None ELSE KindOrder[i + 1]

(* A file that computeFileInfo cannot read is announced as an empty one.   *)
AnnouncedSizes(k) ==
  {Chunks[k]} \cup (IF "Unreadable" \in Env THEN {0} ELSE {})

(* beginNextOutgoingFile: what s may become; the CRC in the announcement   *)
(* is that of the file as it is now.                                       *)
BeginNextFile(d, s) ==
  LET k == KindAfter(s.out.kind)
  IN  IF k = None THEN {[s EXCEPT !.out = NoOut, !.filesSent = TRUE]}
      ELSE {[s EXCEPT !.out = [NoOut EXCEPT !.kind = k, !.ver = local[d][k],
                                            !.size = n]] : n \in AnnouncedSizes(k)}

Announce(d, s) ==
  IF s.out.kind = None THEN <<>>
  ELSE <<FilePacket("FILE_META", d, s.out.kind, s.out.size, s.out.ver)>>

(* sendFileChunk, or sendFileDone past the last chunk.  The file is opened *)
(* for the first chunk and the handle keeps what it was opened on.         *)
PieceSent(d, s) ==
  IF s.out.chunk >= s.out.size
  THEN [s EXCEPT !.out.doneSent = TRUE]
  ELSE IF s.out.metaAcked /\ ~s.out.open
       THEN [s EXCEPT !.out.open = TRUE, !.out.handle = local[d][s.out.kind]]
       ELSE s

PiecePacket(d, s) ==
  LET o == PieceSent(d, s).out
  IN  IF o.chunk >= o.size
      THEN <<FilePacket("FILE_DONE", d, o.kind, 0, 0)>>
      ELSE IF o.metaAcked
           THEN <<FilePacket("FILE_CHUNK", d, o.kind, o.chunk, o.handle)>>
           ELSE <<>>

-----------------------------------------------------------------------------
(* handleEvent.                                                            *)

Msg(d) == Head(events[d])
Receives(d, types) == events[d] # <<>> /\ Msg(d).type \in types
Joinable == {"READY", "DISCOVERING", "SYNCING"}
Late(d, types) ==
  /\ dev[d].state = "SYNCED" /\ Receives(d, types) /\ Msg(d).from = dev[d].peer

(* Mutant: the payload is taken as it comes.                               *)
ParsesAll(m) == TRUE

(* isValidStatsPayload: a STATS packet with any other payload is queued as *)
(* INVALID_STATS.                                                          *)
Parses(m) == m.from \notin foreign

(* An ERROR screen, and a SYNCED one hearing a stranger, an ack or a STATS *)
(* it cannot parse.                                                        *)
Ignore(d) ==
  /\ events[d] # <<>>
  /\ \/ dev[d].state = "ERROR"
     \/ /\ dev[d].state = "SYNCED"
        /\ \/ Msg(d).from # dev[d].peer
           \/ Msg(d).type \in {"NAME", "ACK"} \cup FileAcks
           \/ Msg(d).type = "STATS" /\ ~Parses(Msg(d))
  /\ Handled(d, dev[d], <<>>)
  /\ UNCHANGED <<local, synced>>

(* A SYNCED screen answers its peer's retries and stores nothing.          *)
LateHello(d) ==
  /\ Late(d, {"HELLO"})
  /\ Handled(d, [dev[d] EXCEPT !.statsSent = TRUE], <<Plain("NAME", d), Stats(d)>>)
  /\ UNCHANGED <<local, synced>>

LateStats(d) ==
  /\ Late(d, {"STATS"}) /\ Parses(Msg(d))
  /\ Handled(d, dev[d], <<Plain("ACK", d)>>)
  /\ UNCHANGED <<local, synced>>

AckOf(t) == CASE t = "FILE_META"  -> "META_ACK"
              [] t = "FILE_CHUNK" -> "CHUNK_ACK"
              [] t = "FILE_DONE"  -> "DONE_ACK"
AckIdx(m) == IF m.type = "FILE_CHUNK" THEN m.idx ELSE 0
FileAck(d, m) == <<FilePacket(AckOf(m.type), d, m.kind, AckIdx(m), 0)>>

LateFile(d) ==
  /\ Late(d, {"FILE_META", "FILE_CHUNK", "FILE_DONE"})
  /\ Handled(d, dev[d], FileAck(d, Msg(d)))
  /\ UNCHANGED <<local, synced>>

(* NAME pairs with its sender unless another peer is already known.        *)
RecvName(d) ==
  /\ dev[d].state \in Joinable /\ Receives(d, {"NAME"})
  /\ LET known == dev[d].peer \in {None, Msg(d).from}
         s == [dev[d] EXCEPT !.peer = Msg(d).from]
     IN  \/ ~known /\ Handled(d, dev[d], <<>>)
         \/ /\ known /\ dev[d].state = "DISCOVERING"
            /\ Handled(d, [s EXCEPT !.state = "SYNCING", !.statsSent = TRUE],
                       <<Stats(d)>>)
         \/ known /\ dev[d].state # "DISCOVERING" /\ Handled(d, s, <<>>)
  /\ UNCHANGED <<local, synced>>

(* Any other packet takes the screen into SYNCING with its sender; a READY *)
(* screen first resets its flags and prepares its snapshot (prepareLocal-  *)
(* Stats, which the user can abort and the card can fail).                 *)
Joined(d) ==
  LET base == IF dev[d].state = "READY" THEN Fresh("READY", TRUE) ELSE dev[d]
  IN  [base EXCEPT !.state = "SYNCING", !.peer = Msg(d).from]

Joins(d, types) == dev[d].state \in Joinable /\ Receives(d, types)

JoinFails(d) ==
  /\ dev[d].state = "READY" /\ Receives(d, {"HELLO", "STATS", "ACK"} \cup FileTypes)
  /\ \E st \in {"READY", "ERROR"} :
       /\ (IF st = "READY" THEN "Abort" ELSE "Fault") \in Env
       /\ Handled(d, [Fresh(st, TRUE) EXCEPT !.peer = Msg(d).from], <<>>)
  /\ UNCHANGED <<local, synced>>

RecvHello(d) ==
  /\ Joins(d, {"HELLO"})
  /\ Handled(d, [Joined(d) EXCEPT !.statsSent = TRUE],
             <<Plain("NAME", d), Stats(d)>>)
  /\ UNCHANGED <<local, synced>>

RecvInvalidStats(d) ==
  /\ Joins(d, {"STATS"}) /\ ~Parses(Msg(d))
  /\ Handled(d, Failed(Joined(d)), <<>>)
  /\ UNCHANGED <<local, synced>>

(* Mutant: the reader's own totals are stored.                             *)
SavedTotalsOwn(d, s) ==
  [synced EXCEPT ![d][s.peer][Totals] = Snapshot(d, Totals, local[d][Totals])]

(* writeSyncedStatsFile; only the first STATS of a session is stored.      *)
SavedTotals(d, s) ==
  IF s.totalsSaved THEN synced
  ELSE [synced EXCEPT ![d][s.peer][Totals] = Snapshot(s.peer, Totals, Msg(d).ver)]

RecvStats(d) ==
  /\ Joins(d, {"STATS"}) /\ Parses(Msg(d))
  /\ LET s == Joined(d)
         reply == ~s.statsSent \/ ~s.statsAcked
     IN  /\ Handled(d, [s EXCEPT !.totalsSaved = TRUE,
                                 !.statsSent = @ \/ reply],
                    IF reply THEN <<Plain("ACK", d), Stats(d)>>
                    ELSE <<Plain("ACK", d)>>)
         /\ synced' = SavedTotals(d, s)
  /\ UNCHANGED local

RecvAck(d) ==
  /\ Joins(d, {"ACK"})
  /\ LET s == [Joined(d) EXCEPT !.statsAcked = TRUE]
         begins == s.totalsSaved /\ ~s.filesSent /\ s.out.kind = None
     IN  \/ begins /\ \E t \in BeginNextFile(d, s) : Handled(d, t, Announce(d, t))
         \/ ~begins /\ Handled(d, s, <<>>)
  /\ UNCHANGED <<local, synced>>

(* A repeated announcement of the transfer under way is acknowledged only. *)
SameTransfer(in, m) ==
  in.kind = m.kind /\ in.src = m.from /\ in.ver = m.ver /\ in.size = m.idx

Incoming(m) ==
  [kind |-> m.kind, src |-> m.from, ver |-> m.ver, size |-> m.idx, data |-> <<>>]

(* Mutant: the old file is removed when the new one is announced.          *)
RecvMetaRemovesOld(d) ==
  /\ Joins(d, {"FILE_META"})
  /\ LET m == Msg(d)
     IN  /\ Handled(d, [Joined(d) EXCEPT !.in = Incoming(m)], FileAck(d, m))
         /\ synced' = [synced EXCEPT ![d][m.from][m.kind] = NoFile]
  /\ UNCHANGED local

RecvMeta(d) ==
  /\ Joins(d, {"FILE_META"})
  /\ LET s == Joined(d)  m == Msg(d)
     IN  Handled(d, IF SameTransfer(s.in, m) THEN s
                    ELSE [s EXCEPT !.in = Incoming(m)], FileAck(d, m))
  /\ UNCHANGED <<local, synced>>

(* The next chunk is appended, possibly damaged by the card; the one       *)
(* before it is acknowledged again.                                        *)
(* Mutants: a repeated chunk is appended again, or not acknowledged again. *)
IsAnyChunk(in, m) == in.kind = m.kind
IsNoChunk(in, m) == FALSE

IsNextChunk(in, m) == in.kind = m.kind /\ m.idx = Len(in.data)
IsLastChunk(in, m) == in.kind = m.kind /\ m.idx + 1 = Len(in.data)

RecvChunk(d) ==
  /\ Joins(d, {"FILE_CHUNK"})
  /\ LET s == Joined(d)  m == Msg(d)
     IN  \/ /\ IsNextChunk(s.in, m)
            /\ \E i \in {m.idx, m.idx + 1} :
                 /\ i # m.idx => "BadWrite" \in Env
                 /\ Handled(d, [s EXCEPT !.in.data =
                                  Append(@, PieceOf(m.from, m.ver, i))],
                            FileAck(d, m))
         \/ IsLastChunk(s.in, m) /\ Handled(d, s, FileAck(d, m))
         \/ /\ ~IsNextChunk(s.in, m) /\ ~IsLastChunk(s.in, m)
            /\ Handled(d, s, <<>>)
  /\ UNCHANGED <<local, synced>>

(* Mutant: only the size is compared.                                      *)
VerifiedSize(in) == Len(in.data) = in.size

(* Size and CRC of the temporary file against the announcement; a date or  *)
(* achievements file may not be empty.                                     *)
Verified(in) ==
  /\ Len(in.data) = in.size
  /\ in.size > 0 => in.data = Snapshot(in.src, in.kind, in.ver)
  /\ in.kind \in MergeKinds => in.size > 0

(* The verified file replaces the sender's previous one, an empty one      *)
(* leaves it; a date or achievements file is then merged into the          *)
(* receiver's own.                                                         *)
Promoted(d) ==
  LET in == Joined(d).in
  IN  IF in.size = 0 THEN synced
      ELSE [synced EXCEPT ![d][Msg(d).from][in.kind] = in.data]

(* Mutants: the received date wins always, or never.                       *)
MergedBlindly(d) ==
  LET in == Joined(d).in
  IN  IF in.kind \in MergeKinds THEN [local EXCEPT ![d][in.kind] = in.ver] ELSE local
NotMerged(d) == local

Merged(d) ==
  LET in == Joined(d).in
  IN  IF in.kind \in MergeKinds /\ in.ver > local[d][in.kind]
      THEN [local EXCEPT ![d][in.kind] = in.ver]
      ELSE local

Finishing(d) == Joins(d, {"FILE_DONE"}) /\ Joined(d).in.kind = Msg(d).kind

RecvDone(d) ==
  /\ Finishing(d) /\ Verified(Joined(d).in)
  /\ Handled(d, [Joined(d) EXCEPT !.saved = @ \cup {Msg(d).kind}, !.in = NoIn],
             FileAck(d, Msg(d)))
  /\ synced' = Promoted(d)
  /\ local' = Merged(d)

RecvBadDone(d) ==
  /\ Finishing(d) /\ ~Verified(Joined(d).in)
  /\ Handled(d, Failed(Joined(d)), <<>>)
  /\ UNCHANGED <<local, synced>>

RecvStrayDone(d) ==
  /\ Joins(d, {"FILE_DONE"}) /\ Joined(d).in.kind # Msg(d).kind
  /\ LET s == Joined(d)
     IN  Handled(d, s, IF Msg(d).kind \in s.saved THEN FileAck(d, Msg(d))
                       ELSE <<>>)
  /\ UNCHANGED <<local, synced>>

(* handleFileAck.                                                          *)
(* Mutant: an acknowledgement of any chunk is taken for the current one's. *)
AcksAnyChunk(out, m) == TRUE

AcksChunk(out, m) == m.idx = out.chunk

RecvFileAck(d) ==
  /\ Joins(d, FileAcks)
  /\ LET s == Joined(d)  m == Msg(d)
         acked == [s EXCEPT !.out.metaAcked = TRUE]
         moved == [s EXCEPT !.out.chunk = @ + 1]
     IN  \/ /\ m.kind = s.out.kind /\ m.type = "META_ACK"
            /\ Handled(d, PieceSent(d, acked), PiecePacket(d, acked))
         \/ /\ m.kind = s.out.kind /\ m.type = "CHUNK_ACK"
            /\ AcksChunk(s.out, m)
            /\ Handled(d, PieceSent(d, moved), PiecePacket(d, moved))
         \/ /\ m.kind = s.out.kind /\ m.type = "DONE_ACK"
            /\ \E t \in BeginNextFile(d, s) : Handled(d, t, Announce(d, t))
         \/ /\ m.kind # s.out.kind \/ (m.type = "CHUNK_ACK" /\ ~AcksChunk(s.out, m))
            /\ Handled(d, s, <<>>)
  /\ UNCHANGED <<local, synced>>

(* What a packet replaces, of the sender's: a file with a verified one, or *)
(* the totals with others.  The old one is removed before the new one gets *)
(* its name.                                                               *)
Replacing(d, i) ==
  \/ /\ Finishing(d) /\ Verified(Joined(d).in) /\ Joined(d).in.size > 0
     /\ i = Msg(d).kind
  \/ /\ Joins(d, {"STATS"}) /\ Parses(Msg(d))
     /\ i = Totals /\ SavedTotals(d, Joined(d)) # synced

Removed(d, i) == [synced EXCEPT ![d][Msg(d).from][i] = NoFile]

(* A card that refuses a write while a packet is handled.  The old file    *)
(* may be gone already when the rename fails, and the new one may be in    *)
(* place when the merge fails.                                             *)
CardFails(d) ==
  /\ "Fault" \in Env
  /\ Joins(d, {"STATS", "FILE_META", "FILE_CHUNK", "FILE_DONE"})
  /\ Handled(d, Failed(Joined(d)), <<>>)
  /\ \/ synced' = synced
     \/ \E i \in Items : Replacing(d, i) /\ synced' = Removed(d, i)
     \/ /\ Finishing(d) /\ Verified(Joined(d).in) /\ Msg(d).kind \in MergeKinds
        /\ synced' = Promoted(d)
  /\ UNCHANGED local

PowerLossInPromotion(d) ==
  /\ "PowerLoss" \in Env
  /\ \E i \in Items : Replacing(d, i) /\ synced' = Removed(d, i)
  /\ dev' = [dev EXCEPT ![d] = Fresh("OFF", FALSE)]
  /\ events' = [events EXCEPT ![d] = <<>>]
  /\ UNCHANGED <<local, air, foreign>>

Receive(d) ==
  \/ Ignore(d) \/ LateHello(d) \/ LateStats(d) \/ LateFile(d)
  \/ RecvName(d) \/ RecvHello(d) \/ RecvInvalidStats(d) \/ RecvStats(d)
  \/ RecvAck(d) \/ RecvMeta(d) \/ RecvChunk(d) \/ RecvDone(d)
  \/ RecvBadDone(d) \/ RecvStrayDone(d) \/ RecvFileAck(d)

-----------------------------------------------------------------------------
(* updateSyncProgress: timers and the completion check.                    *)

(* Once the air is clear a reader drains its queue well within the retry   *)
(* intervals (650 ms and more).                                            *)
RetryDue(d) ==
  air = "clear" =>
    \A e \in Device \ {d} : \A n \in DOMAIN events[e] : events[e][n].from # d

SendingFiles(d) ==
  /\ dev[d].state = "SYNCING" /\ dev[d].totalsSaved /\ dev[d].statsAcked
  /\ ~dev[d].filesSent

HelloRetry(d) ==
  /\ dev[d].state = "DISCOVERING" /\ RetryDue(d)
  /\ Polled(d, dev[d], <<Plain("HELLO", d)>>)

StatsRetry(d) ==
  /\ dev[d].state = "SYNCING" /\ ~dev[d].statsAcked /\ RetryDue(d)
  /\ Polled(d, [dev[d] EXCEPT !.statsSent = TRUE], <<Stats(d)>>)

FilesBegin(d) ==
  /\ SendingFiles(d) /\ dev[d].out.kind = None
  /\ \E s \in BeginNextFile(d, dev[d]) : Polled(d, s, Announce(d, s))

FileRetry(d) ==
  /\ SendingFiles(d) /\ dev[d].out.kind # None /\ RetryDue(d)
  /\ \/ /\ ~dev[d].out.metaAcked
        /\ Polled(d, dev[d], Announce(d, dev[d]))
     \/ /\ dev[d].out.metaAcked
        /\ Polled(d, PieceSent(d, dev[d]), PiecePacket(d, dev[d]))

(* Mutant: completes without waiting for the peer's files.                 *)
ExchangeSent(s) == s.totalsSaved /\ s.statsAcked /\ s.filesSent

ExchangeDone(s) ==
  /\ s.totalsSaved /\ s.statsAcked /\ s.filesSent /\ s.saved = Kinds

Complete(d) ==
  /\ dev[d].state = "SYNCING" /\ ExchangeDone(dev[d])
  /\ Polled(d, [dev[d] EXCEPT !.state = "SYNCED"], <<>>)

(* "no reader found" after a minute of discovery, "stats sync stalled"     *)
(* after an idle minute and a half.  Sending or resending a file packet    *)
(* counts as progress, so a reader that still has a file packet to repeat  *)
(* never gets there.                                                       *)
Timeout(d) ==
  /\ "Timeout" \in Env
  /\ \/ dev[d].state = "DISCOVERING"
     \/ dev[d].state = "SYNCING" /\ ~(SendingFiles(d) /\ dev[d].out.kind # None)
  /\ ~(dev[d].state = "SYNCING" /\ ExchangeDone(dev[d]))
  /\ Polled(d, Failed(dev[d]), <<>>)

(* A moment after success the achievements are evaluated again.            *)
RefreshAchievements(d) ==
  /\ dev[d].state = "SYNCED" /\ ~dev[d].refreshed
  /\ events[d] = <<>>
  /\ dev' = [dev EXCEPT ![d].refreshed = TRUE]
  /\ \/ local' = local
     \/ /\ "Unlock" \in Env /\ AwardKind # None
        /\ local[d][AwardKind] < MaxVersion
        /\ local' = [local EXCEPT ![d][AwardKind] = @ + 1]
  /\ UNCHANGED <<events, synced, air, foreign>>

Poll(d) ==
  \/ HelloRetry(d) \/ StatsRetry(d) \/ FilesBegin(d) \/ FileRetry(d)
  \/ Complete(d) \/ RefreshAchievements(d)

-----------------------------------------------------------------------------
(* The user.                                                               *)

(* onEnter; the radio may not start.                                       *)
Enter(d) ==
  /\ dev[d].state = "OFF"
  /\ \/ Polled(d, Fresh("READY", TRUE), <<>>)
     \/ "Fault" \in Env /\ Polled(d, Fresh("ERROR", FALSE), <<>>)

(* Back, or the reader losing power: what the screen knew is gone.         *)
Leave(d) ==
  /\ "Leave" \in Env /\ dev[d].state # "OFF"
  /\ dev' = [dev EXCEPT ![d] = Fresh("OFF", FALSE)]
  /\ events' = [events EXCEPT ![d] = <<>>]
  /\ UNCHANGED <<local, synced, air, foreign>>

(* Reading between two visits changes the reader's own files and may       *)
(* advance its date or unlock achievements.                                *)
Read(d) ==
  /\ "Read" \in Env /\ dev[d].state = "OFF"
  /\ \A i \in Items : local[d][i] < MaxVersion
  /\ \E S \in SUBSET MergeKinds :
       local' = [local EXCEPT ![d] = [i \in Items |->
                   IF i \in MergeKinds \ S THEN @[i] ELSE @[i] + 1]]
  /\ UNCHANGED <<dev, events, synced, air, foreign>>

(* Confirm: startSync up to the blocking preparation, and its three ends.  *)
StartSync(d) ==
  /\ d \in Starters
  /\ \/ dev[d].state = "READY"
     \/ dev[d].state \in {"SYNCED", "ERROR"} /\ "Resync" \in Env
  /\ Polled(d, Fresh("PREPARING", dev[d].radio), <<>>)

Prepared(d) ==
  /\ dev[d].state = "PREPARING"
  /\ dev' = [dev EXCEPT ![d].state = "DISCOVERING"]
  /\ Broadcast(d, <<Plain("HELLO", d)>>, events[d])
  /\ UNCHANGED <<local, synced, air, foreign>>

PrepareFails(d) ==
  /\ dev[d].state = "PREPARING"
  /\ \E st \in {"READY", "ERROR"} :
       /\ (IF st = "READY" THEN "Abort" ELSE "Fault") \in Env
       /\ dev' = [dev EXCEPT ![d].state = st]
  /\ UNCHANGED <<events, local, synced, air, foreign>>

AirClears ==
  /\ "Clear" \in Env /\ air = "lossy"
  /\ air' = "clear"
  /\ UNCHANGED <<dev, events, local, synced, foreign>>

User(d) == Enter(d) \/ Leave(d) \/ Read(d) \/ StartSync(d)

Next ==
  \/ \E d \in Device :
       \/ Receive(d) \/ JoinFails(d) \/ CardFails(d) \/ PowerLossInPromotion(d)
       \/ Poll(d) \/ Timeout(d)
       \/ User(d) \/ Prepared(d) \/ PrepareFails(d)
  \/ AirClears

Spec == Init /\ [][Next]_vars

(* The loop task keeps draining the queue and then polling, a preparation  *)
(* ends, an idle timer that keeps running runs out and the air clears.  An *)
(* acknowledgement that is queued again and again is not evicted every     *)
(* time: retries are 750 ms apart and the loop drains its ring of eight    *)
(* between them.                                                           *)
LoopFairness ==
  /\ \A d \in Device :
       /\ WF_vars(Receive(d)) /\ SF_vars(RecvAck(d)) /\ SF_vars(Poll(d))
       /\ WF_vars(Timeout(d)) /\ WF_vars(Prepared(d))
  /\ WF_vars(AirClears)

LoopSpec == Spec /\ LoopFairness

(* In addition, every reader has its screen opened.                        *)
FairSpec == LoopSpec /\ \A d \in Device : WF_vars(Enter(d))

-----------------------------------------------------------------------------
(* Safety.                                                                 *)

Stored(d, p, i) == synced[d][p][i] # NoFile

(* A stored file is whole: all its pieces, in order, from one version of   *)
(* one reader's file, whatever was lost, repeated or interleaved.          *)
(* (handleFileMeta, handleFileChunk, handleFileDone)                       *)
SavedWhole ==
  \A d, p \in Device : \A i \in Items :
    Stored(d, p, i) =>
      \E q \in Device, v \in Versions : synced[d][p][i] = Snapshot(q, i, v)

(* What is stored under a peer's name is a file that peer has had.         *)
SavedIsThePeers ==
  \A d, p \in Device : \A i \in Items :
    Stored(d, p, i) =>
      \E v \in 0..local[p][i] : synced[d][p][i] = Snapshot(p, i, v)

(* A reader that reports success has delivered its own current totals and  *)
(* files to the peer it reports, and holds that peer's.                    *)
SyncedMeansDelivered ==
  \A d \in Device : dev[d].state = "SYNCED" =>
    \A i \in Items \ MergeKinds : SizeOf(i) > 0 =>
      /\ synced[dev[d].peer][d][i] = Snapshot(d, i, local[d][i])
      /\ Stored(d, dev[d].peer, i)

(* Two readers that both report success have the same, later date.  (An    *)
(* award unlocked after the sync may separate their achievements again.)   *)
DatesConverge ==
  \A d, p \in Device :
    /\ dev[d].state = "SYNCED" /\ dev[p].state = "SYNCED"
    /\ dev[d].peer = p /\ dev[p].peer = d
    => \A k \in MergeKinds \ {AwardKind} : local[d][k] = local[p][k]

(* Stop and wait: the receiver of the file d is sending is at most one     *)
(* chunk ahead of the acknowledgements d has seen, and never behind; once  *)
(* d has sent DONE every chunk is there or the file is already saved.      *)
StopAndWait ==
  \A d, p \in Device :
    LET o == dev[d].out  in == dev[p].in
    IN  /\ dev[d].state = "SYNCING" /\ dev[p].state = "SYNCING"
        /\ dev[d].peer = p /\ dev[p].peer = d /\ o.kind # None /\ o.metaAcked
        => \/ /\ in.kind = o.kind /\ in.ver = o.ver /\ in.size = o.size
              /\ Len(in.data) \in {o.chunk, o.chunk + 1}
              /\ o.doneSent => Len(in.data) = o.size
           \/ o.kind \in dev[p].saved /\ o.doneSent

(* Nothing of a reader with another stats format is stored or reported.    *)
ForeignRefused ==
  \A d \in Device : \A p \in foreign \ {d} :
    /\ \A i \in Items : ~Stored(d, p, i)
    /\ ~(dev[d].state = "SYNCED" /\ dev[d].peer = p)

(* What d is receiving was announced before its sender took over d's own   *)
(* newer date or achievements, and is whole in that newer version.         *)
(* (beginNextOutgoingFile takes the CRC, sendFileChunk opens the file)     *)
Overtaken(d) ==
  LET in == dev[d].in
  IN  /\ in.kind \in MergeKinds /\ in.ver < local[d][in.kind]
      /\ in.data = Snapshot(in.src, in.kind, local[d][in.kind])

(* Without a fault no reader ends in ERROR, except one that refuses what   *)
(* it has itself given to the sender between announcement and first chunk. *)
NoFalseFailure == \A d \in Device : dev[d].state = "ERROR" => Overtaken(d)

(* A peer's stored file is replaced, never lost.                           *)
KeepsPriorSnapshot ==
  [][\A d, p \in Device : \A i \in Items :
       Stored(d, p, i) => synced'[d][p][i] # NoFile]_vars

(* No merge rolls a reader's own date or achievements back.                *)
NeverRollsBack ==
  [][\A d \in Device : \A k \in MergeKinds : local'[d][k] >= local[d][k]]_vars

-----------------------------------------------------------------------------
(* The promise, and how it is read off the state.                          *)

(* The copy that the file s of an item i is; a torn file is no copy and    *)
(* stands for itself.                                                      *)
CopyIn(s, i) ==
  IF s = NoFile THEN None
  ELSE IF \E q \in Device, v \in Versions : s = Snapshot(q, i, v)
       THEN [src |-> s[1].src, ver |-> s[1].ver]
       ELSE s

Held == [d \in Device |-> [p \in Device |-> [i \in Items |->
           CopyIn(synced[d][p][i], i)]]]

Snapshots == INSTANCE PeerSnapshots WITH
  Item <- Items, Shared <- MergeKinds, Nothing <- None,
  MayLose <- Env \cap {"PowerLoss", "Fault"} # {},
  own <- local, held <- Held

(* Whatever the air loses, repeats or delays, and whichever sessions of    *)
(* however many readers mix: each copy is replaced in one step, by a whole *)
(* one that another reader really had, and a copy left over from an        *)
(* earlier session never replaces a newer one of the same reader; no       *)
(* reader's own items ever go back.  (handleFileDone, writeSyncedStats)    *)
Implements == Snapshots!Spec

-----------------------------------------------------------------------------
(* Liveness.                                                               *)

(* A sync that one reader starts while every screen is open completes on   *)
(* every reader once packets stop being lost, unless a file was overtaken  *)
(* by the merge of the other direction; that takes dates or achievements   *)
(* that differ, and it alone may end a sync in a failure.                  *)
StartedSyncCompletes ==
  (\E d \in Device : dev[d].state = "DISCOVERING") ~>
    \/ \A d \in Device : dev[d].state = "SYNCED"
    \/ \E d \in Device : dev[d].state = "ERROR" /\ Overtaken(d)

(* "a truly stalled one still returns to the user": readers do not hold    *)
(* each other in SYNCING for ever; what one of them repeats is answered,   *)
(* or an idle timer runs out.                                              *)
NoEndlessSync == ~<>[](\A d \in Device : dev[d].state = "SYNCING")
=============================================================================
