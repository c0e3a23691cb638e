-------------------------- MODULE StatsRestore_proofs --------------------------
(***************************************************************************)
(* Proofs about StatsRestore for any files, archives and faults: its type  *)
(* invariant, that without a failing call a restore is only refused for a  *)
(* reason, and for the files of this reader that it loses nothing, takes   *)
(* everything back when it fails, and leaves what the archive holds when   *)
(* it succeeds.                                                            *)
(***************************************************************************)
EXTENDS StatsRestore, TLAPS

(* A path with a suffix, as a record.                                      *)
LEMMA Suffixed ==
  ASSUME NEW p \in Path, NEW s
  PROVE  With(p, s) = [file |-> p.file, ext |-> Append(p.ext, s)]
<1>1. p = [file |-> p.file, ext |-> p.ext] BY DEF Path
<1>2. DOMAIN p = {"file", "ext"} BY <1>1
<1> QED BY <1>2 DEF With

(* What is proved of paths; the rest of the module uses only this.         *)
LEMMA PathFacts ==
  /\ \A p \in Path : \A s \in Suffix :
       With(p, s) \in Path /\ With(p, s).file = p.file /\ With(p, s) # p
  /\ \A p \in Path : \A s, t \in Suffix : With(p, s) = With(p, t) => s = t
  /\ \A f \in File : Plain(f) \in Path /\ Plain(f).file = f /\ Collected(Plain(f))
  /\ \A f, g \in File : Plain(f) = Plain(g) => f = g
  /\ \A p \in Path : p.file \in File
  /\ \A p \in Path : Collected(p) /\ p.file \notin Synced => p = Plain(p.file)
  /\ {"tmp", "prev", "omit"} = Suffix
<1>1. \A p \in Path : \A s \in Suffix : With(p, s) = [file |-> p.file, ext |-> Append(p.ext, s)]
  BY Suffixed
<1>2. ASSUME NEW e \in Seq(Suffix), NEW s \in Suffix
      PROVE Append(e, s) \in Seq(Suffix) /\ Append(e, s) # e
  <2>1. Append(e, s) \in Seq(Suffix) /\ Len(Append(e, s)) = Len(e) + 1 /\ Len(e) \in Nat
    OBVIOUS
  <2> QED BY <2>1
<1>3. ASSUME NEW e \in Seq(Suffix), NEW s \in Suffix, NEW t \in Suffix,
             Append(e, s) = Append(e, t)
      PROVE s = t
  <2>1. Append(e, s)[Len(e) + 1] = s /\ Append(e, t)[Len(e) + 1] = t
    OBVIOUS
  <2> QED BY <1>3, <2>1
<1>4. \A p \in Path : p.file \in File /\ p.ext \in Seq(Suffix) BY DEF Path
<1>5. <<>> \in Seq(Suffix) OBVIOUS
<1>6. \A p \in Path : p = [file |-> p.file, ext |-> p.ext] BY DEF Path
<1>7. ASSUME NEW p \in Path, NEW s \in Suffix
      PROVE With(p, s) \in Path /\ With(p, s).file = p.file /\ With(p, s) # p
  <2>1. With(p, s) = [file |-> p.file, ext |-> Append(p.ext, s)] BY <1>1
  <2>2. Append(p.ext, s) \in Seq(Suffix) /\ Append(p.ext, s) # p.ext BY <1>2, <1>4
  <2>3. With(p, s) \in Path BY <1>4, <2>1, <2>2 DEF Path
  <2>4. With(p, s).file = p.file /\ With(p, s).ext = Append(p.ext, s) BY <2>1
  <2> QED BY <2>2, <2>3, <2>4
<1>8. \A p \in Path : \A s, t \in Suffix : With(p, s) = With(p, t) => s = t
  BY <1>1, <1>3, <1>4
<1>9. \A f \in File : Plain(f) \in Path /\ Plain(f).file = f /\ Collected(Plain(f))
  BY <1>5 DEF Path, Plain, Collected, IsPlain
<1>10. \A p \in Path : Collected(p) /\ p.file \notin Synced => p = Plain(p.file)
  BY <1>6 DEF Plain, Collected, IsPlain
<1>11. \A f, g \in File : Plain(f) = Plain(g) => f = g BY <1>9
<1> QED BY <1>4, <1>7, <1>8, <1>9, <1>10, <1>11 DEF Suffix

-----------------------------------------------------------------------------
(* Types.                                                                  *)

LEMMA PutFiles ==
  ASSUME NEW c, IsFiles(c), NEW p \in Path, NEW v \in Version
  PROVE  IsFiles(Put(c, p, v))
BY DEF IsFiles, Put

LEMMA WithoutFiles ==
  ASSUME NEW c, IsFiles(c), NEW p
  PROVE  IsFiles(Without(c, p))
BY DEF IsFiles, Without

LEMMA RenamedFiles ==
  ASSUME NEW c, IsFiles(c), NEW p \in DOMAIN c, NEW q \in Path
  PROVE  IsFiles(Renamed(c, p, q))
<1>1. c[p] \in Version BY DEF IsFiles
<1>2. IsFiles(Without(c, p)) BY WithoutFiles
<1> QED BY <1>1, <1>2, PutFiles DEF Renamed

LEMMA RemovedFiles ==
  ASSUME NEW c, IsFiles(c), NEW p, NEW d \in {Without(c, p), c}
  PROVE  IsFiles(d)
BY WithoutFiles

Entry(p) == p \in Path /\ Collected(p)

(* An export holds what an archive may hold.                               *)
LEMMA ViewFiles ==
  ASSUME RestoreConstants, NEW c, IsFiles(c),
         DOMAIN older \subseteq Legacy, \A f \in DOMAIN older : older[f] \in Version
  PROVE  IsFiles(View(c)) /\ \A p \in DOMAIN View(c) : Entry(p)
<1>1. ASSUME NEW p \in Current(c) PROVE Entry(p)
  <2>1. CASE p \in DOMAIN c /\ Collected(p) BY <2>1 DEF IsFiles, Entry
  <2>2. CASE \E f \in DOMAIN older : p = Plain(f)
    <3>1. PICK f \in DOMAIN older : p = Plain(f) BY <2>2
    <3>2. f \in File BY DEF RestoreConstants
    <3> QED BY <3>1, <3>2, PathFacts DEF Entry
  <2> QED BY <1>1, <2>1, <2>2 DEF Current
<1>2. ASSUME NEW p \in Current(c) PROVE Seen(c, p) \in Version
  <2>1. CASE p \in DOMAIN c BY <2>1 DEF IsFiles, Seen
  <2>2. CASE p \notin DOMAIN c
    <3>1. PICK f \in DOMAIN older : p = Plain(f) BY <1>2, <2>2 DEF Current
    <3>2. IsPlain(p) /\ p.file = f BY <3>1 DEF IsPlain, Plain
    <3> QED BY <2>2, <3>1, <3>2 DEF Seen
  <2> QED BY <2>1, <2>2
<1> QED BY <1>1, <1>2 DEF View, IsFiles, Entry

(* The records of the restore under way and of the last one.               *)
Shape ==
  /\ DOMAIN op = {"pc", "archive", "todo", "cur", "omitted", "committed"}
  /\ DOMAIN hist = {"before", "archive", "room", "harm", "stuck", "count"}

LEMMA GotoFields ==
  ASSUME Shape, NEW pc, NEW todo, NEW o, o = Goto(pc, todo)
  PROVE  /\ DOMAIN o = DOMAIN op
         /\ o.pc = pc /\ o.todo = todo /\ o.cur = None /\ o.archive = op.archive
         /\ o.omitted = op.omitted /\ o.committed = op.committed
BY DEF Shape, Goto

LEMMA IdleFields ==
  ASSUME NEW o, o = Idle
  PROVE  /\ DOMAIN o = {"pc", "archive", "todo", "cur", "omitted", "committed"}
         /\ o.pc = "idle" /\ o.todo = {} /\ o.cur = None /\ o.archive = <<>>
         /\ o.omitted = {} /\ o.committed = {}
BY DEF Idle, Empty

LEMMA FailsFields ==
  ASSUME Shape, hist.harm \in 0..MaxFaults, MaxFaults \in Nat,
         NEW n \in Nat, NEW stuck \in BOOLEAN, hist.stuck \in BOOLEAN, Fails(n, stuck)
  PROVE  /\ DOMAIN hist' = DOMAIN hist
         /\ hist'.before = hist.before /\ hist'.archive = hist.archive
         /\ hist'.count = hist.count /\ hist'.harm \in 0..MaxFaults
         /\ hist'.stuck = (hist.stuck \/ stuck) /\ hist'.stuck \in BOOLEAN
         /\ hist'.room = hist.room
<1>1. hist' = [hist EXCEPT !.harm = @ + n, !.stuck = @ \/ stuck] /\ hist.harm + n <= MaxFaults
  BY DEF Fails
<1>2. hist'.harm = hist.harm + n /\ DOMAIN hist' = DOMAIN hist
  BY <1>1 DEF Shape
<1>3. /\ hist'.before = hist.before /\ hist'.archive = hist.archive
      /\ hist'.count = hist.count /\ hist'.room = hist.room
  BY <1>1 DEF Shape
<1>4. hist'.stuck = (hist.stuck \/ stuck)
  BY <1>1 DEF Shape
<1> QED BY <1>1, <1>2, <1>3, <1>4

LEMMA EmptyFiles == IsFiles(<<>>)
BY DEF IsFiles


(* What a phase works on: entries of the archive, or paths it omits.       *)
Todo ==
  /\ op.pc \in {"idle", "export"} => op.todo = {}
  /\ op.pc \in {"stage", "unstage", "commit", "clean", "undo"} =>
       op.todo \subseteq DOMAIN op.archive
  /\ op.pc = "omit" => \A p \in op.todo :
       Entry(p) /\ p \notin DOMAIN op.archive /\ p.file \notin Preserved /\ p \notin op.omitted
  /\ op.pc \in {"drop", "unomit"} => op.todo \subseteq op.omitted
  /\ op.cur # None => op.pc \in {"commit", "undo"} /\ op.cur \in op.todo

Behind ==
  /\ \A p \in op.omitted : Entry(p) /\ p \notin DOMAIN op.archive /\ p.file \notin Preserved
  /\ op.pc \in {"idle", "export", "stage", "unstage"} => op.omitted = {}
  /\ op.committed \subseteq DOMAIN op.archive
  /\ op.pc \in {"idle", "export", "stage", "unstage", "omit"} => op.committed = {}
  /\ op.pc = "commit" => op.committed = DOMAIN op.archive \ op.todo
  /\ \A p \in DOMAIN op.archive : Entry(p)
  /\ op.pc # "idle" => op.archive = hist.archive /\ outcome = "none"
  /\ op.pc = "idle" => op.archive = <<>>

CardType ==
  /\ IsFiles(card)
  /\ DOMAIN older \subseteq Legacy /\ \A f \in DOMAIN older : older[f] \in Version
ExportsType == \A a \in exports : IsFiles(a) /\ \A p \in DOMAIN a : Entry(p)
OpType == op.pc \in Phase /\ IsFiles(op.archive)
HistType ==
  /\ IsFiles(hist.before) /\ IsFiles(hist.archive)
  /\ hist.harm \in 0..MaxFaults /\ hist.count \in 0..MaxRestores
  /\ hist.stuck \in BOOLEAN /\ hist.room \in BOOLEAN
  /\ outcome \in {"none", "failed", "lost", "done"}

Types == CardType /\ ExportsType /\ OpType /\ HistType /\ Shape /\ Todo /\ Behind

LEMMA TodoPaths ==
  ASSUME Types
  PROVE  /\ \A p \in op.todo : Entry(p)
         /\ \A p \in op.omitted : Entry(p)
         /\ \A p \in op.committed : Entry(p)
<1>1. \A p \in op.committed : Entry(p) BY DEF Types, Behind
<1>2. \A p \in op.omitted : Entry(p) BY DEF Types, Behind
<1>3. \A p \in op.todo : Entry(p)
  <2>1. op.pc \in Phase BY DEF Types, OpType
  <2>2. CASE op.pc \in {"idle", "export"} BY <2>2 DEF Types, Todo
  <2>3. CASE op.pc \in {"stage", "unstage", "commit", "clean", "undo"}
    BY <2>3 DEF Types, Todo, Behind
  <2>4. CASE op.pc = "omit" BY <2>4 DEF Types, Todo
  <2>5. CASE op.pc \in {"drop", "unomit"} BY <2>5, <1>2 DEF Types, Todo
  <2> QED BY <2>1, <2>2, <2>3, <2>4, <2>5 DEF Phase
<1> QED BY <1>1, <1>2, <1>3

LEMMA TypesTypeOK == ASSUME Types PROVE TypeOK
<1>1. \A p \in op.todo \cup op.omitted \cup op.committed : p \in Path
  BY TodoPaths DEF Entry
<1>2. op.cur # None => op.cur \in op.todo BY DEF Types, Todo
<1> QED BY <1>1, <1>2 DEF Types, CardType, ExportsType, OpType, HistType, TypeOK

LEMMA InitTypes == ASSUME RestoreConstants, Init PROVE Types
<1>1. IsFiles(card)
  <2>1. PICK S \in SUBSET File : card \in [{Plain(f) : f \in S} -> Version] BY DEF Init
  <2> QED BY <2>1, PathFacts DEF IsFiles
<1>2. CardType BY <1>1 DEF Init, CardType
<1>3. ExportsType
  <2>1. PICK S \in SUBSET File :
          \E a \in [{Plain(f) : f \in S} -> Version] : S # {} /\ exports = {a}
    BY DEF Init
  <2>2. PICK a \in [{Plain(f) : f \in S} -> Version] : exports = {a} BY <2>1
  <2> QED BY <2>2, PathFacts DEF ExportsType, IsFiles, Entry
<1>4. OpType BY IdleFields, EmptyFiles DEF Init, OpType, Phase
<1>5. HistType BY EmptyFiles DEF Init, HistType, RestoreConstants, Empty
<1>6. Shape BY IdleFields DEF Init, Shape
<1>7. Todo BY IdleFields DEF Init, Todo
<1>8. Behind BY IdleFields DEF Init, Behind
<1> QED BY <1>2, <1>3, <1>4, <1>5, <1>6, <1>7, <1>8 DEF Types


LEMMA DoneFields ==
  ASSUME Shape, NEW p, NEW o, o = Done(p)
  PROVE  /\ DOMAIN o = DOMAIN op
         /\ o.pc = op.pc /\ o.todo = op.todo \ {p} /\ o.cur = op.cur
         /\ o.archive = op.archive /\ o.omitted = op.omitted /\ o.committed = op.committed
BY DEF Shape, Done

(* A step whose calls may have failed keeps the history's type.            *)
LEMMA FailsTypes ==
  ASSUME RestoreConstants, Types, NEW n \in Nat, NEW stuck \in BOOLEAN, Fails(n, stuck),
         outcome' \in {"none", "failed", "lost", "done"}
  PROVE  /\ HistType' /\ DOMAIN hist' = DOMAIN hist
         /\ hist'.archive = hist.archive /\ hist'.before = hist.before
         /\ hist'.stuck = (hist.stuck \/ stuck)
<1>1. Shape /\ hist.harm \in 0..MaxFaults /\ hist.stuck \in BOOLEAN /\ MaxFaults \in Nat
  BY DEF Types, HistType, RestoreConstants
<1>2. /\ DOMAIN hist' = DOMAIN hist
      /\ hist'.before = hist.before /\ hist'.archive = hist.archive
      /\ hist'.count = hist.count /\ hist'.harm \in 0..MaxFaults
      /\ hist'.stuck = (hist.stuck \/ stuck) /\ hist'.stuck \in BOOLEAN
      /\ hist'.room = hist.room
  BY <1>1, FailsFields
<1> QED BY <1>2 DEF Types, HistType, IsFiles

(* The restore moves on in its phase or to the next one.                   *)
LEMMA LeftNat == \A c, p : Left(c, p) \in Nat
BY DEF Left

LEMMA NextOfTodo == \A S : NextOf(S) \subseteq S
BY DEF NextOf

LEMMA GotoTypes ==
  ASSUME Types, At("stage") \/ At("omit") \/ At("commit"),
         NEW pc \in {"unstage", "undo"}, pc = "unstage" => At("stage"),
         op' = Goto(pc, DOMAIN op.archive),
         UNCHANGED outcome, hist'.archive = hist.archive, DOMAIN hist' = DOMAIN hist
  PROVE  OpType' /\ Shape' /\ Todo' /\ Behind'
<1>1. /\ DOMAIN op' = DOMAIN op
      /\ op'.pc = pc /\ op'.todo = DOMAIN op.archive /\ op'.cur = None
      /\ op'.archive = op.archive
      /\ op'.omitted = op.omitted /\ op'.committed = op.committed
  BY GotoFields DEF Types
<1>2. OpType' /\ Shape' BY <1>1 DEF Types, OpType, Shape, Phase, IsFiles
<1>3. Todo' BY <1>1 DEF Todo
<1>4. Behind' BY <1>1 DEF Types, Behind, At
<1> QED BY <1>2, <1>3, <1>4

LEMMA EndsTypes ==
  ASSUME Types, op' = Idle, DOMAIN hist' = DOMAIN hist
  PROVE  OpType' /\ Shape' /\ Todo' /\ Behind'
<1>1. /\ DOMAIN op' = {"pc", "archive", "todo", "cur", "omitted", "committed"}
      /\ op'.pc = "idle" /\ op'.todo = {} /\ op'.cur = None /\ op'.archive = <<>>
      /\ op'.omitted = {} /\ op'.committed = {}
  BY IdleFields
<1>2. OpType' /\ Shape' BY <1>1, EmptyFiles DEF Types, OpType, Shape, Phase, IsFiles
<1>3. Todo' /\ Behind' BY <1>1 DEF Todo, Behind
<1> QED BY <1>2, <1>3

LEMMA DoneTypes ==
  ASSUME Types, NEW p, op' = Done(p), op.cur # p, UNCHANGED outcome, ~At("commit"), ~At("omit"),
         hist'.archive = hist.archive, DOMAIN hist' = DOMAIN hist
  PROVE  OpType' /\ Shape' /\ Todo' /\ Behind'
<1>1. /\ DOMAIN op' = DOMAIN op
      /\ op'.pc = op.pc /\ op'.todo = op.todo \ {p} /\ op'.cur = op.cur
      /\ op'.archive = op.archive /\ op'.omitted = op.omitted /\ op'.committed = op.committed
  BY DoneFields DEF Types
<1>2. OpType' /\ Shape' BY <1>1 DEF Types, OpType, Shape, IsFiles
<1>3. Todo' BY <1>1 DEF Types, Todo, At
<1>4. Behind' BY <1>1 DEF Types, Behind, At
<1> QED BY <1>2, <1>3, <1>4


(* The steps that belong to no entry.                                      *)
LEMMA PhaseTypes ==
  ASSUME RestoreConstants, Types,
         Export \/ ExportFails \/ Unstaged \/ Staged \/ Prepared \/ Committed \/ Cleaned
           \/ Finish \/ Undone \/ TakenBack \/ PowerLoss
  PROVE  Types'
<1>1. CASE Export
  <2>1. /\ DOMAIN op' = DOMAIN op
        /\ op'.pc = "stage" /\ op'.todo = DOMAIN op.archive /\ op'.cur = None
        /\ op'.archive = op.archive
        /\ op'.omitted = op.omitted /\ op'.committed = op.committed
    BY <1>1, GotoFields DEF Types, Export
  <2>2. IsFiles(View(card)) /\ \A p \in DOMAIN View(card) : Entry(p)
    BY ViewFiles DEF Types, CardType
  <2>3. CardType' /\ HistType' BY <1>1 DEF Export, Types, CardType, HistType, IsFiles
  <2>4. ExportsType' BY <1>1, <2>2 DEF Export, Types, ExportsType
  <2>5. OpType' /\ Shape' BY <1>1, <2>1 DEF Export, Types, OpType, Shape, Phase, IsFiles
  <2>6. Todo' BY <2>1 DEF Todo
  <2>7. Behind' BY <1>1, <2>1 DEF Export, Types, Behind, At
  <2> QED BY <2>3, <2>4, <2>5, <2>6, <2>7 DEF Types
<1>2. CASE ExportFails
  <2>1. op' = Idle /\ outcome' = "failed" /\ UNCHANGED <<card, older>>
    BY <1>2 DEF ExportFails, Ends
  <2>2. IsFiles(View(card)) /\ \A p \in DOMAIN View(card) : Entry(p)
    BY ViewFiles DEF Types, CardType
  <2>3. exports' \in {exports, exports \cup {View(card)}} BY <1>2 DEF ExportFails
  <2>4. ExportsType' BY <2>2, <2>3 DEF Types, ExportsType
  <2>5. CardType' BY <2>1 DEF Types, CardType, IsFiles
  <2>6. HistType' /\ DOMAIN hist' = DOMAIN hist
    <3>1. CASE UNCHANGED hist BY <2>1, <3>1 DEF Types, HistType, IsFiles
    <3>2. CASE Harmed(1) BY <2>1, <3>2, FailsTypes DEF Harmed
    <3> QED BY <1>2, <3>1, <3>2 DEF ExportFails
  <2>7. OpType' /\ Shape' /\ Todo' /\ Behind' BY <2>1, <2>6, EndsTypes
  <2> QED BY <2>4, <2>5, <2>6, <2>7 DEF Types
<1>3. CASE Unstaged \/ Finish \/ TakenBack \/ PowerLoss
  <2>1. /\ op' = Idle /\ outcome' \in {"failed", "done", "lost"}
        /\ UNCHANGED <<card, older, exports, hist>>
    BY <1>3 DEF Unstaged, Finish, TakenBack, PowerLoss, Ends
  <2>2. OpType' /\ Shape' /\ Todo' /\ Behind' BY <2>1, EndsTypes
  <2> QED BY <2>1, <2>2 DEF Types, CardType, ExportsType, HistType, IsFiles
<1>4. CASE Staged \/ Prepared \/ Committed \/ Cleaned \/ Undone
  <2>1. UNCHANGED <<card, older, exports, hist, outcome>>
    BY <1>4 DEF Staged, Prepared, Committed, Cleaned, Undone
  <2>2. CardType' /\ ExportsType' /\ HistType'
    BY <2>1 DEF Types, CardType, ExportsType, HistType, IsFiles
  <2>3. \E pc \in Phase : \E todo : op' = Goto(pc, todo)
    BY <1>4 DEF Staged, Prepared, Committed, Cleaned, Undone, Phase
  <2>4. OpType' /\ Shape' /\ op'.archive = op.archive /\ op'.omitted = op.omitted
        /\ op'.committed = op.committed /\ op'.cur = None
    BY <2>1, <2>3, GotoFields DEF Types, OpType, Shape, IsFiles
  <2>5. CASE Staged
    <3>1. op.pc = "stage" /\ op'.pc = "omit" /\ op'.todo = Omitted
      BY <2>5, GotoFields DEF Staged, At, Types
    <3>2. \A p \in Omitted : Entry(p) /\ p \notin DOMAIN op.archive /\ p.file \notin Preserved
      BY ViewFiles DEF Types, CardType, Omitted, View
    <3>3. op.omitted = {} /\ op.committed = {} BY <3>1 DEF Types, Behind
    <3>4. Todo' BY <2>4, <3>1, <3>2, <3>3 DEF Todo
    <3>5. Behind' BY <2>1, <2>4, <3>1, <3>3 DEF Types, Behind
    <3> QED BY <2>2, <2>4, <3>4, <3>5 DEF Types
  <2>6. CASE Prepared
    <3>1. op.pc = "omit" /\ op'.pc = "commit" /\ op'.todo = DOMAIN op.archive
      BY <2>6, GotoFields DEF Prepared, At, Types
    <3>2. op.committed = {} BY <3>1 DEF Types, Behind
    <3>3. Todo' BY <2>4, <3>1 DEF Todo
    <3>4. Behind' BY <2>1, <2>4, <3>1, <3>2 DEF Types, Behind
    <3> QED BY <2>2, <2>4, <3>3, <3>4 DEF Types
  <2>7. CASE Committed \/ Cleaned \/ Undone
    <3>1. \/ op.pc = "commit" /\ op'.pc = "clean" /\ op'.todo = DOMAIN op.archive
          \/ op.pc \in {"clean", "undo"} /\ op'.pc \in {"drop", "unomit"}
             /\ op'.todo = op.omitted
      BY <2>7, GotoFields DEF Committed, Cleaned, Undone, At, Types
    <3>2. Todo' BY <2>4, <3>1 DEF Todo
    <3>3. Behind' BY <2>1, <2>4, <3>1 DEF Types, Behind
    <3> QED BY <2>2, <2>4, <3>2, <3>3 DEF Types
  <2> QED BY <1>4, <2>5, <2>6, <2>7
<1> QED BY <1>1, <1>2, <1>3, <1>4

LEMMA BeginReadTypes ==
  ASSUME RestoreConstants, Types,
         (\E a \in exports : Begin(a)) \/ (\E f \in File : Read(f))
  PROVE  Types'
<1>1. ASSUME NEW a \in exports, Begin(a) PROVE Types'
  <2>1. /\ op' = [Idle EXCEPT !.pc = "export", !.archive = a]
        /\ \E room \in BOOLEAN :
             hist' = [before |-> card, archive |-> a, room |-> room, harm |-> 0,
                      stuck |-> FALSE, count |-> hist.count + 1]
        /\ hist.count < MaxRestores /\ outcome' = "none"
        /\ UNCHANGED <<card, older, exports>>
    BY <1>1 DEF Begin
  <2>2. /\ DOMAIN op' = {"pc", "archive", "todo", "cur", "omitted", "committed"}
        /\ op'.pc = "export" /\ op'.archive = a /\ op'.todo = {} /\ op'.cur = None
        /\ op'.omitted = {} /\ op'.committed = {}
    BY <2>1 DEF Idle
  <2>3. IsFiles(a) /\ \A p \in DOMAIN a : Entry(p) BY DEF Types, ExportsType
  <2>4. CardType' /\ ExportsType' BY <2>1 DEF Types, CardType, ExportsType, IsFiles
  <2>5. HistType'
    <3>1. hist'.count \in 0..MaxRestores BY <2>1 DEF Types, HistType, RestoreConstants
    <3> QED BY <2>1, <2>3, <3>1 DEF Types, CardType, HistType, RestoreConstants
  <2>6. OpType' /\ Shape' BY <2>1, <2>2, <2>3 DEF OpType, Shape, Phase
  <2>7. Todo' /\ Behind' BY <2>1, <2>2, <2>3 DEF Todo, Behind
  <2> QED BY <2>4, <2>5, <2>6, <2>7 DEF Types
<1>2. ASSUME NEW f \in File, Read(f) PROVE Types'
  <2>1. card' = Put(card, Plain(f), Newer) /\ outcome' = "none" /\ op.pc = "idle"
        /\ UNCHANGED <<older, exports, op, hist>>
    BY <1>2 DEF Read, At
  <2>2. CardType' BY <2>1, PathFacts, PutFiles DEF Types, CardType, RestoreConstants
  <2>3. ExportsType' /\ HistType' BY <2>1 DEF Types, ExportsType, HistType, IsFiles
  <2>4. OpType' /\ Shape' /\ Todo' BY <2>1 DEF Types, OpType, Shape, Todo, IsFiles
  <2>5. Behind' BY <2>1 DEF Types, Behind
  <2> QED BY <2>2, <2>3, <2>4, <2>5 DEF Types
<1> QED BY <1>1, <1>2


(* The steps that belong to one entry.                                     *)
EntryStep(p) ==
  \/ Stage(p) \/ StageFails(p) \/ Unstage(p)
  \/ Omit(p) \/ OmitFails(p) \/ SetAside(p) \/ SetAsideFails(p)
  \/ SwapIn(p) \/ SwapFails(p) \/ Clean(p)
  \/ UndoSwap(p) \/ UndoAside(p) \/ UndoOmit(p)

LEMMA EntryCard ==
  ASSUME RestoreConstants, Types, NEW p \in op.todo, EntryStep(p)
  PROVE  CardType'
<1>1. Entry(p) BY TodoPaths
<1>2. /\ p \in Path /\ With(p, "tmp") \in Path /\ With(p, "prev") \in Path
      /\ With(p, "omit") \in Path
  BY <1>1, PathFacts DEF Entry
<1>3. IsFiles(card) BY DEF Types, CardType
<1>4. UNCHANGED older
  BY DEF EntryStep, Stage, StageFails, Unstage, Omit, OmitFails, SetAside, SetAsideFails,
         SwapIn, SwapFails, Clean, UndoSwap, UndoAside, UndoOmit
<1>5. IsFiles(card')
  <2>1. ASSUME Stage(p) PROVE IsFiles(card')
    <3>1. p \in DOMAIN op.archive BY <2>1 DEF Stage, At, Types, Todo
    <3>2. op.archive[p] \in Version BY <3>1 DEF Types, OpType, IsFiles
    <3> QED BY <1>2, <1>3, <2>1, <3>2, PutFiles DEF Stage
  <2>2. ASSUME StageFails(p) \/ Unstage(p) \/ OmitFails(p) \/ SetAsideFails(p) \/ Clean(p)
        PROVE IsFiles(card')
    <3>1. \E q : card' \in {Without(card, q), card}
      BY <2>2 DEF StageFails, Unstage, OmitFails, SetAsideFails, Clean, Removed
    <3> QED BY <1>3, <3>1, RemovedFiles
  <2>3. ASSUME Omit(p) PROVE IsFiles(card')
    <3>1. p \in DOMAIN Without(card, With(p, "omit"))
      BY <1>1, <2>3, PathFacts DEF Omit, Exists, Without, Entry
    <3> QED BY <1>2, <1>3, <2>3, <3>1, WithoutFiles, RenamedFiles DEF Omit
  <2>4. ASSUME SetAside(p) PROVE IsFiles(card')
    <3>1. PICK c \in {Without(card, With(p, "prev")), card} :
            \/ card' = c
            \/ p \in DOMAIN c /\ card' = Renamed(c, p, With(p, "prev"))
      BY <2>4 DEF SetAside, Removed, CanRename
    <3>2. IsFiles(c) BY <1>3, RemovedFiles
    <3> QED BY <1>2, <3>1, <3>2, RenamedFiles
  <2>5. ASSUME SwapIn(p) \/ SwapFails(p) \/ UndoOmit(p) PROVE IsFiles(card')
    <3>1. \/ card' = card
          \/ \E q \in DOMAIN card : card' = Renamed(card, q, p)
      BY <2>5 DEF SwapIn, SwapFails, UndoOmit, CanRename
    <3> QED BY <1>2, <1>3, <3>1, RenamedFiles
  <2>6. ASSUME UndoSwap(p) PROVE IsFiles(card')
    <3>1. card' \in {Without(card, p), card} BY <2>6 DEF UndoSwap
    <3> QED BY <1>3, <3>1, RemovedFiles
  <2>7. ASSUME UndoAside(p) PROVE IsFiles(card')
    <3>1. PICK c : /\ \/ c = card
                      \/ With(p, "prev") \in DOMAIN card /\ c = Renamed(card, With(p, "prev"), p)
                   /\ card' \in {c, Without(c, With(p, "tmp"))}
      BY <2>7 DEF UndoAside, CanRename
    <3>2. IsFiles(c) BY <1>2, <1>3, <3>1, RenamedFiles
    <3> QED BY <3>1, <3>2, WithoutFiles
  <2> QED BY <2>1, <2>2, <2>3, <2>4, <2>5, <2>6, <2>7 DEF EntryStep
<1> QED BY <1>4, <1>5 DEF Types, CardType

(* A step's calls fail, or none does.                                      *)
LEMMA EntryFails ==
  ASSUME NEW p, EntryStep(p)
  PROVE  (UNCHANGED hist) \/ (\E n \in Nat : \E stuck \in BOOLEAN : Fails(n, stuck))
<1>1. ASSUME Stage(p) \/ Omit(p) \/ SwapIn(p) PROVE UNCHANGED hist
  BY <1>1 DEF Stage, Omit, SwapIn
<1>2. ASSUME StageFails(p) \/ SetAsideFails(p) PROVE Fails(1, FALSE)
  BY <1>2 DEF StageFails, SetAsideFails, Harmed
<1>3. ASSUME Unstage(p) \/ Clean(p) \/ OmitFails(p) \/ SetAside(p)
      PROVE \E n \in Nat : Fails(n, FALSE)
  <2>1. \E n : Fails(n, FALSE) /\ (n = 1 \/ \E c, q : n = Left(c, q))
    BY <1>3 DEF Unstage, Clean, OmitFails, SetAside, Harmed
  <2> QED BY <2>1, LeftNat
<1>4. ASSUME SwapFails(p) PROVE \E n \in Nat : \E stuck \in BOOLEAN : Fails(n, stuck)
  <2>1. \E n \in {0, 1} : Fails(n, FALSE) \/ Fails(n + 1, TRUE)
    BY <1>4 DEF SwapFails, Harmed
  <2>2. PICK n \in {0, 1} : Fails(n, FALSE) \/ Fails(n + 1, TRUE) BY <2>1
  <2>3. n \in Nat /\ n + 1 \in Nat OBVIOUS
  <2> QED BY <2>2, <2>3
<1>5. ASSUME UndoSwap(p)
      PROVE (UNCHANGED hist) \/ (\E n \in Nat : \E stuck \in BOOLEAN : Fails(n, stuck))
  BY <1>5 DEF UndoSwap, Harmed
<1>6. ASSUME UndoAside(p) PROVE \E n \in Nat : \E stuck \in BOOLEAN : Fails(n, stuck)
  <2>1. \E m : (Fails(m, FALSE) \/ Fails(1 + m, TRUE)) /\ \E c, q : m = Left(c, q)
    BY <1>6 DEF UndoAside, Harmed
  <2>2. PICK m \in Nat : Fails(m, FALSE) \/ Fails(1 + m, TRUE) BY <2>1, LeftNat
  <2>3. 1 + m \in Nat OBVIOUS
  <2> QED BY <2>2, <2>3
<1>7. ASSUME UndoOmit(p)
      PROVE (UNCHANGED hist) \/ (\E n \in Nat : \E stuck \in BOOLEAN : Fails(n, stuck))
  BY <1>7 DEF UndoOmit, Harmed
<1> QED BY <1>1, <1>2, <1>3, <1>4, <1>5, <1>6, <1>7 DEF EntryStep

LEMMA EntryHist ==
  ASSUME RestoreConstants, Types, NEW p \in op.todo, EntryStep(p)
  PROVE  /\ HistType' /\ DOMAIN hist' = DOMAIN hist
         /\ hist'.archive = hist.archive /\ hist'.before = hist.before
         /\ (hist.stuck => hist'.stuck) /\ UNCHANGED <<exports, outcome, older>>
<1>1. UNCHANGED <<exports, outcome, older>>
  BY DEF EntryStep, Stage, StageFails, Unstage, Omit, OmitFails, SetAside, SetAsideFails,
         SwapIn, SwapFails, Clean, UndoSwap, UndoAside, UndoOmit
<1>2. outcome' \in {"none", "failed", "lost", "done"} BY <1>1 DEF Types, HistType
<1>3. CASE UNCHANGED hist BY <1>1, <1>3 DEF Types, HistType, IsFiles
<1>4. CASE \E n \in Nat : \E stuck \in BOOLEAN : Fails(n, stuck)
  BY <1>1, <1>2, <1>4, FailsTypes
<1> QED BY <1>1, <1>3, <1>4, EntryFails


LEMMA EntryOp ==
  ASSUME RestoreConstants, Types, NEW p \in op.todo, EntryStep(p)
  PROVE  OpType' /\ Shape' /\ Todo' /\ Behind'
<1>1. /\ DOMAIN hist' = DOMAIN hist /\ hist'.archive = hist.archive
      /\ UNCHANGED outcome
  BY EntryHist
<1>2. Entry(p) /\ p # None BY TodoPaths DEF Entry, RestoreConstants
<1>3. CASE StageFails(p) \/ OmitFails(p) \/ SetAsideFails(p) \/ SwapFails(p)
  <2>1. \/ At("stage") /\ op' = Goto("unstage", DOMAIN op.archive)
        \/ (At("omit") \/ At("commit")) /\ op' = Goto("undo", DOMAIN op.archive)
    BY <1>3 DEF StageFails, OmitFails, SetAsideFails, SwapFails, Undoing
  <2> QED BY <1>1, <2>1, GotoTypes
<1>4. CASE Stage(p) \/ Unstage(p) \/ Clean(p) \/ UndoOmit(p)
  <2>1. op' = Done(p) /\ op.pc \in {"stage", "unstage", "clean", "drop", "unomit"}
    BY <1>4 DEF Stage, Unstage, Clean, UndoOmit, At
  <2>2. op.cur = None BY <2>1 DEF Types, Todo
  <2> QED BY <1>1, <1>2, <2>1, <2>2, DoneTypes DEF At
<1>5. CASE Omit(p)
  <2>1. op.pc = "omit" /\ op' = [Done(p) EXCEPT !.omitted = @ \cup {p}]
    BY <1>5 DEF Omit, At
  <2>2. /\ DOMAIN op' = DOMAIN op
        /\ op'.pc = op.pc /\ op'.todo = op.todo \ {p} /\ op'.cur = op.cur
        /\ op'.archive = op.archive /\ op'.omitted = op.omitted \cup {p}
        /\ op'.committed = op.committed
    BY <2>1, DoneFields DEF Types, Shape
  <2>3. Entry(p) /\ p \notin DOMAIN op.archive /\ p.file \notin Preserved
    BY <2>1 DEF Types, Todo
  <2>4. OpType' /\ Shape' BY <1>1, <2>2 DEF Types, OpType, Shape, IsFiles
  <2>5. Todo' BY <2>1, <2>2 DEF Types, Todo
  <2>6. Behind' BY <1>1, <2>1, <2>2, <2>3 DEF Types, Behind
  <2> QED BY <2>4, <2>5, <2>6
<1>6. CASE SetAside(p) \/ UndoSwap(p)
  <2>1. op.pc \in {"commit", "undo"} /\ op' = [op EXCEPT !.cur = p]
    BY <1>6 DEF SetAside, UndoSwap, At
  <2>2. /\ DOMAIN op' = DOMAIN op
        /\ op'.pc = op.pc /\ op'.todo = op.todo /\ op'.cur = p
        /\ op'.archive = op.archive /\ op'.omitted = op.omitted
        /\ op'.committed = op.committed
    BY <2>1 DEF Types, Shape
  <2>3. OpType' /\ Shape' BY <1>1, <2>2 DEF Types, OpType, Shape, IsFiles
  <2>4. Todo' BY <2>1, <2>2 DEF Types, Todo
  <2>5. Behind' BY <1>1, <2>1, <2>2 DEF Types, Behind
  <2> QED BY <2>3, <2>4, <2>5
<1>7. CASE SwapIn(p) \/ UndoAside(p)
  <2>1. /\ op.pc \in {"commit", "undo"} /\ op.cur = p
        /\ \/ op.pc = "commit" /\ op' = [Done(p) EXCEPT !.cur = None, !.committed = @ \cup {p}]
           \/ op.pc = "undo" /\ op' = [Done(p) EXCEPT !.cur = None]
    BY <1>7 DEF SwapIn, UndoAside, At
  <2>2. /\ DOMAIN op' = DOMAIN op
        /\ op'.pc = op.pc /\ op'.todo = op.todo \ {p} /\ op'.cur = None
        /\ op'.archive = op.archive /\ op'.omitted = op.omitted
        /\ \/ op.pc = "commit" /\ op'.committed = op.committed \cup {p}
           \/ op.pc = "undo" /\ op'.committed = op.committed
    <3>1. PICK d : d = Done(p) OBVIOUS
    <3>2. /\ DOMAIN d = DOMAIN op
          /\ d.pc = op.pc /\ d.todo = op.todo \ {p}
          /\ d.archive = op.archive /\ d.omitted = op.omitted /\ d.committed = op.committed
      BY <3>1, DoneFields DEF Types
    <3>3. CASE op' = [d EXCEPT !.cur = None, !.committed = @ \cup {p}]
      BY <2>1, <3>1, <3>2, <3>3 DEF Types, Shape
    <3>4. CASE op' = [d EXCEPT !.cur = None]
      BY <2>1, <3>1, <3>2, <3>4 DEF Types, Shape
    <3> QED BY <2>1, <3>1, <3>3, <3>4
  <2>3. OpType' /\ Shape' BY <1>1, <2>2 DEF Types, OpType, Shape, IsFiles
  <2>4. Todo' BY <2>1, <2>2 DEF Types, Todo
  <2>5. p \in DOMAIN op.archive BY <2>1 DEF Types, Todo
  <2>6. Behind' BY <1>1, <2>1, <2>2, <2>5 DEF Types, Behind
  <2> QED BY <2>3, <2>4, <2>6
<1> QED BY <1>3, <1>4, <1>5, <1>6, <1>7 DEF EntryStep

LEMMA NextTypes ==
  ASSUME RestoreConstants, Types, [Next]_vars
  PROVE  Types'
<1>1. CASE UNCHANGED vars
  <2>1. CardType' /\ ExportsType' /\ HistType'
    BY <1>1 DEF vars, Types, CardType, ExportsType, HistType, IsFiles
  <2>2. OpType' /\ Shape' /\ Todo' BY <1>1 DEF vars, Types, OpType, Shape, Todo, IsFiles
  <2>3. Behind' BY <1>1 DEF vars, Types, Behind
  <2> QED BY <2>1, <2>2, <2>3 DEF Types
<1>2. CASE \E p \in op.todo : EntryStep(p)
  <2>1. PICK p \in op.todo : EntryStep(p) BY <1>2
  <2>2. CardType' BY <2>1, EntryCard
  <2>3. HistType' /\ UNCHANGED exports BY <2>1, EntryHist
  <2>4. OpType' /\ Shape' /\ Todo' /\ Behind' BY <2>1, EntryOp
  <2>5. ExportsType' BY <2>3 DEF Types, ExportsType
  <2> QED BY <2>2, <2>3, <2>4, <2>5 DEF Types
<1> QED BY <1>1, <1>2, PhaseTypes, BeginReadTypes DEF Next, EntryStep

(* The type invariant of StatsRestore.                                     *)
THEOREM TypeCorrect == Spec => []TypeOK
<1>1. Init => Types BY InitTypes, RestoreConstants
<1>2. Types /\ [Next]_vars => Types' BY NextTypes, RestoreConstants
<1>3. Types => TypeOK BY TypesTypeOK
<1> QED BY <1>1, <1>2, <1>3, PTL DEF Spec


-----------------------------------------------------------------------------
(* The safety copy.                                                        *)

Saved ==
  /\ op.pc = "export" => card = hist.before
  /\ op.pc \notin {"idle", "export"} => View(hist.before) \in exports
  /\ op.pc = "idle" /\ outcome # "none" => card = hist.before \/ View(hist.before) \in exports

LEMMA SameView ==
  ASSUME UNCHANGED older, hist'.before = hist.before
  PROVE  View(hist.before)' = View(hist.before)
BY DEF View, Current, Seen

LEMMA SavedNext ==
  ASSUME RestoreConstants, Types, Saved, [Next]_vars
  PROVE  Saved'
<1>1. CASE UNCHANGED vars
  <2>1. View(hist.before)' = View(hist.before) BY <1>1, SameView DEF vars
  <2> QED BY <1>1, <2>1 DEF vars, Saved
<1>2. CASE \E p \in op.todo : EntryStep(p)
  <2>1. PICK p \in op.todo : EntryStep(p) BY <1>2
  <2>2. op.pc \notin {"idle", "export"} BY DEF Types, Todo
  <2>3. op'.pc \notin {"idle", "export"}
    <3>1. PICK d : d = Done(p) OBVIOUS
    <3>2. d.pc = op.pc /\ DOMAIN d = DOMAIN op BY <3>1, DoneFields DEF Types
    <3>3. \/ op' = d \/ op' = [d EXCEPT !.omitted = @ \cup {p}]
          \/ op' = [op EXCEPT !.cur = p]
          \/ op' = [d EXCEPT !.cur = None, !.committed = @ \cup {p}]
          \/ op' = [d EXCEPT !.cur = None]
          \/ op' = Goto("unstage", DOMAIN op.archive)
          \/ op' = Goto("undo", DOMAIN op.archive)
      BY <2>1, <3>1 DEF EntryStep, Stage, StageFails, Unstage, Omit, OmitFails, SetAside,
           SetAsideFails, SwapIn, SwapFails, Clean, UndoSwap, UndoAside, UndoOmit, Undoing
    <3>4. /\ op' = Goto("unstage", DOMAIN op.archive) => op'.pc = "unstage"
          /\ op' = Goto("undo", DOMAIN op.archive) => op'.pc = "undo"
      BY GotoFields DEF Types
    <3>5. \/ op'.pc = op.pc \/ op'.pc \in {"unstage", "undo"}
      BY <3>2, <3>3, <3>4 DEF Types, Shape
    <3> QED BY <2>2, <3>5
  <2>4. hist'.before = hist.before /\ UNCHANGED <<exports, older>> BY <2>1, EntryHist
  <2>5. View(hist.before)' = View(hist.before) BY <2>4, SameView
  <2> QED BY <2>2, <2>3, <2>4, <2>5 DEF Saved
<1>3. ASSUME NEW a \in exports, Begin(a) PROVE Saved'
  <2>1. op'.pc = "export" /\ hist'.before = card /\ card' = card
    BY <1>3 DEF Begin, Idle
  <2> QED BY <2>1 DEF Saved
<1>4. CASE Export
  <2>1. op.pc = "export" /\ op'.pc = "stage" BY <1>4, GotoFields DEF Export, At, Types
  <2>2. hist'.before = hist.before /\ UNCHANGED older BY <1>4 DEF Export
  <2>3. View(card) \in exports' /\ card = hist.before BY <1>4, <2>1 DEF Export, Saved
  <2> QED BY <2>1, <2>2, <2>3, SameView DEF Saved
<1>5. CASE ExportFails
  <2>1. op.pc = "export" /\ op'.pc = "idle" /\ card' = card
    BY <1>5, IdleFields DEF ExportFails, Ends, At
  <2>2. hist'.before = hist.before
    <3>1. CASE UNCHANGED hist BY <3>1
    <3>2. CASE Harmed(1)
      BY <3>2, FailsFields DEF Harmed, Types, HistType, RestoreConstants
    <3> QED BY <1>5, <3>1, <3>2 DEF ExportFails
  <2> QED BY <2>1, <2>2 DEF Saved
<1>6. CASE Unstaged \/ Finish \/ TakenBack \/ PowerLoss
  <2>1. /\ op.pc # "idle" /\ op'.pc = "idle"
        /\ UNCHANGED <<card, older, exports, hist>>
    BY <1>6, IdleFields DEF Unstaged, Finish, TakenBack, PowerLoss, Ends, At
  <2>2. View(hist.before)' = View(hist.before) BY <2>1, SameView
  <2> QED BY <2>1, <2>2 DEF Saved
<1>7. CASE Staged \/ Prepared \/ Committed \/ Cleaned \/ Undone
  <2>1. /\ op.pc \in {"stage", "omit", "commit", "clean", "undo"}
        /\ op'.pc \in {"omit", "commit", "clean", "drop", "unomit"}
        /\ UNCHANGED <<card, older, exports, hist>>
    BY <1>7, GotoFields DEF Staged, Prepared, Committed, Cleaned, Undone, At, Types
  <2>2. View(hist.before)' = View(hist.before) BY <2>1, SameView
  <2> QED BY <2>1, <2>2 DEF Saved
<1>8. ASSUME NEW f \in File, Read(f) PROVE Saved'
  <2>1. op.pc = "idle" /\ op' = op /\ outcome' = "none" BY <1>8 DEF Read, At
  <2> QED BY <2>1 DEF Saved
<1> QED BY <1>1, <1>2, <1>3, <1>4, <1>5, <1>6, <1>7, <1>8 DEF Next, EntryStep

LEMMA SavedKept == ASSUME RestoreConstants, Types, Saved PROVE SafetyKept
<1> SUFFICES ASSUME op.pc # "idle" \/ outcome # "none",
                    NEW p \in DOMAIN hist.before, IsPlain(p), ~Kept(p)
             PROVE  \E a \in exports : p \in DOMAIN a /\ a[p] = hist.before[p]
  BY DEF SafetyKept, At
<1>1. card # hist.before BY DEF Kept, Exists
<1>2. View(hist.before) \in exports BY <1>1 DEF Saved
<1>3. p \in DOMAIN View(hist.before) /\ View(hist.before)[p] = hist.before[p]
  BY DEF View, Current, Seen, Collected
<1> QED BY <1>2, <1>3

(* SafetyKept: nothing leaves a live file that is not in an archive.       *)
THEOREM SafetyCopyHolds == Spec => []SafetyKept
<1>1. Init => Types /\ Saved
  <2>1. Init => op.pc = "idle" /\ outcome = "none" BY IdleFields DEF Init
  <2> QED BY <2>1, InitTypes, RestoreConstants DEF Saved
<1>2. Types /\ Saved /\ [Next]_vars => Types' /\ Saved'
  BY NextTypes, SavedNext, RestoreConstants
<1>3. Types /\ Saved => SafetyKept BY SavedKept, RestoreConstants
<1> QED BY <1>1, <1>2, <1>3, PTL DEF Spec


-----------------------------------------------------------------------------
(* The files of this reader.  What is known of one of them, at its path p, *)
(* in each phase; together this is inductive.                              *)

Was(p) == p \in DOMAIN hist.before
AsBefore(p) == IF Was(p) THEN Kept(p) ELSE ~Exists(p)
Aside(p, s) == Exists(With(p, s)) /\ card[With(p, s)] = hist.before[p]
Gone(p) == Was(p) /\ ~Exists(p) /\ Aside(p, "omit")
TmpIs(p) == Exists(With(p, "tmp")) /\ card[With(p, "tmp")] = op.archive[p]
New(p) == Exists(p) /\ card[p] = op.archive[p]
FromPrev(p) ==
  Exists(p) => /\ With(p, "prev") \in DOMAIN hist.before
               /\ card[p] = hist.before[With(p, "prev")]
Stale(p) ==
  ~Was(p) /\ Exists(With(p, "prev")) =>
    /\ With(p, "prev") \in DOMAIN hist.before
    /\ card[With(p, "prev")] = hist.before[With(p, "prev")]
Final(p) ==
  IF p \in DOMAIN hist.archive THEN Exists(p) /\ card[p] = hist.archive[p]
  ELSE IF p.file \in Preserved /\ Was(p) THEN Kept(p)
  ELSE ~Exists(p)
Back(p) ==
  IF Was(p) THEN Kept(p) \/ (hist.stuck /\ (Aside(p, "prev") \/ Aside(p, "omit")))
            ELSE hist.stuck \/ FromPrev(p)

InStage(p) ==
  /\ op.pc \in {"export", "stage", "unstage"} => AsBefore(p)
  /\ op.pc = "stage" /\ p \in DOMAIN op.archive /\ p \notin op.todo => TmpIs(p)
InOmit(p) ==
  op.pc = "omit" =>
    /\ p \in op.omitted => Gone(p)
    /\ p \notin op.omitted => AsBefore(p)
    /\ p \notin DOMAIN op.archive /\ p.file \notin Preserved /\ Exists(p) => p \in op.todo
    /\ p \in DOMAIN op.archive => TmpIs(p)
InCommit(p) ==
  op.pc = "commit" =>
    /\ p \in op.omitted => Gone(p)
    /\ p \notin op.omitted /\ p \notin op.committed /\ op.cur # p => AsBefore(p)
    /\ op.cur = p => ~Exists(p) /\ (Was(p) => Aside(p, "prev"))
    /\ p \in op.committed => New(p) /\ (Was(p) => Aside(p, "prev"))
    /\ p \notin DOMAIN op.archive /\ p.file \notin Preserved => ~Exists(p)
    /\ p \in DOMAIN op.archive /\ p \notin op.committed => TmpIs(p)
InClean(p) == op.pc \in {"clean", "drop"} => Final(p)
InUndo(p) ==
  op.pc = "undo" =>
    /\ p \in op.omitted => Gone(p)
    /\ p \in op.todo /\ p \in op.committed =>
         /\ Was(p) => Aside(p, "prev")
         /\ op.cur = p /\ ~hist.stuck => ~Exists(p)
    /\ p \notin op.omitted /\ ~(p \in op.todo /\ p \in op.committed) => Back(p)
InUnomit(p) ==
  op.pc = "unomit" =>
    /\ p \in op.omitted /\ p \in op.todo => Gone(p)
    /\ ~(p \in op.omitted /\ p \in op.todo) => Back(p)
AtEnd(p) ==
  /\ outcome = "failed" => Back(p)
  /\ outcome = "lost" => (Was(p) => Kept(p) \/ Aside(p, "prev") \/ Aside(p, "omit"))
  /\ outcome = "done" => Final(p)
AtWork(p) == op.pc # "idle" => Stale(p)

FileInv(p) ==
  /\ InStage(p) /\ InOmit(p) /\ InCommit(p) /\ InClean(p) /\ InUndo(p) /\ InUnomit(p)
  /\ AtEnd(p) /\ AtWork(p)

OwnPath(p) == p \in Path /\ Collected(p) /\ p.file \in Own
OwnFiles == \A p \in Path : OwnPath(p) => FileInv(p)

(* A step leaves the files alone whose path is not of the entry's file.    *)
SameFile(p) ==
  /\ \A q \in {p, With(p, "tmp"), With(p, "prev"), With(p, "omit")} :
       /\ q \in DOMAIN card <=> q \in DOMAIN card'
       /\ q \in DOMAIN card => card'[q] = card[q]

LEMMA SameFileFacts ==
  ASSUME NEW p, SameFile(p), hist'.before = hist.before,
         hist'.archive = hist.archive, op'.archive = op.archive
  PROVE  /\ AsBefore(p)' <=> AsBefore(p)
         /\ Kept(p)' <=> Kept(p)
         /\ Exists(p)' <=> Exists(p)
         /\ Was(p)' <=> Was(p)
         /\ Gone(p)' <=> Gone(p)
         /\ Aside(p, "prev")' <=> Aside(p, "prev")
         /\ Aside(p, "omit")' <=> Aside(p, "omit")
         /\ TmpIs(p)' <=> TmpIs(p)
         /\ New(p)' <=> New(p)
         /\ FromPrev(p)' <=> FromPrev(p)
         /\ Stale(p)' <=> Stale(p)
         /\ Final(p)' <=> Final(p)
<1>1. /\ p \in DOMAIN card <=> p \in DOMAIN card'
      /\ p \in DOMAIN card => card'[p] = card[p]
  BY DEF SameFile
<1>2. ASSUME NEW s \in {"tmp", "prev", "omit"}
      PROVE  /\ With(p, s) \in DOMAIN card <=> With(p, s) \in DOMAIN card'
             /\ With(p, s) \in DOMAIN card => card'[With(p, s)] = card[With(p, s)]
  BY DEF SameFile
<1>3. /\ Exists(p)' <=> Exists(p)
      /\ Was(p)' <=> Was(p)
      /\ Kept(p)' <=> Kept(p)
  BY <1>1 DEF Exists, Was, Kept
<1>4. ASSUME NEW s \in {"tmp", "prev", "omit"}
      PROVE  /\ Exists(With(p, s))' <=> Exists(With(p, s))
             /\ Exists(With(p, s)) => card'[With(p, s)] = card[With(p, s)]
             /\ Aside(p, s)' <=> Aside(p, s)
  BY <1>2 DEF Exists, Aside
<1>5. /\ TmpIs(p)' <=> TmpIs(p)
      /\ New(p)' <=> New(p)
      /\ Stale(p)' <=> Stale(p)
      /\ FromPrev(p)' <=> FromPrev(p)
      /\ Gone(p)' <=> Gone(p)
      /\ AsBefore(p)' <=> AsBefore(p)
      /\ Final(p)' <=> Final(p)
  BY <1>1, <1>3, <1>4 DEF TmpIs, New, Stale, FromPrev, Gone, AsBefore, Final, Exists
<1> QED BY <1>3, <1>4, <1>5

LEMMA PutPoint ==
  ASSUME NEW c, NEW p, NEW v, NEW q
  PROVE  /\ q \in DOMAIN Put(c, p, v) <=> q = p \/ q \in DOMAIN c
         /\ q # p /\ q \in DOMAIN c => Put(c, p, v)[q] = c[q]
         /\ Put(c, p, v)[p] = v
BY DEF Put

LEMMA WithoutPoint ==
  ASSUME NEW c, NEW p, NEW q
  PROVE  /\ q \in DOMAIN Without(c, p) <=> q # p /\ q \in DOMAIN c
         /\ q # p /\ q \in DOMAIN c => Without(c, p)[q] = c[q]
BY DEF Without

LEMMA RenamedPoint ==
  ASSUME NEW c, NEW p, NEW r, NEW q
  PROVE  /\ q \in DOMAIN Renamed(c, p, r) <=> q = r \/ (q # p /\ q \in DOMAIN c)
         /\ q # p /\ q # r /\ q \in DOMAIN c => Renamed(c, p, r)[q] = c[q]
         /\ Renamed(c, p, r)[r] = c[p]
BY DEF Renamed, Put, Without


(* Where card' may differ from card.                                       *)
LEMMA EntryFrame ==
  ASSUME RestoreConstants, Types, NEW e \in op.todo, EntryStep(e),
         NEW q \in Path, q.file # e.file
  PROVE  /\ q \in DOMAIN card <=> q \in DOMAIN card'
         /\ q \in DOMAIN card => card'[q] = card[q]
<1>1. e \in Path BY TodoPaths DEF Entry
<1>2. /\ q # e /\ q # With(e, "tmp") /\ q # With(e, "prev") /\ q # With(e, "omit")
  BY <1>1, PathFacts
<1>3. ASSUME Stage(e)
      PROVE  card' = Put(card, With(e, "tmp"), op.archive[e])
  BY <1>3 DEF Stage
<1>4. ASSUME StageFails(e) \/ Unstage(e) \/ OmitFails(e) \/ SetAsideFails(e) \/ Clean(e)
             \/ UndoSwap(e)
      PROVE  card' = card \/ \E r \in {e, With(e, "tmp"), With(e, "prev"), With(e, "omit")} :
               card' = Without(card, r)
  BY <1>4 DEF StageFails, Unstage, OmitFails, SetAsideFails, Clean, UndoSwap, Removed
<1>5. ASSUME Omit(e)
      PROVE  card' = Renamed(Without(card, With(e, "omit")), e, With(e, "omit"))
  BY <1>5 DEF Omit
<1>6. ASSUME SetAside(e)
      PROVE  \E c \in {card, Without(card, With(e, "prev"))} :
               card' = c \/ card' = Renamed(c, e, With(e, "prev"))
  BY <1>6 DEF SetAside, Removed
<1>7. ASSUME SwapIn(e) \/ SwapFails(e) \/ UndoOmit(e)
      PROVE  card' = card \/ \E r \in {With(e, "tmp"), With(e, "prev"), With(e, "omit")} :
               card' = Renamed(card, r, e)
  BY <1>7 DEF SwapIn, SwapFails, UndoOmit
<1>8. ASSUME UndoAside(e)
      PROVE  \E c \in {card, Renamed(card, With(e, "prev"), e)} :
               card' \in {c, Without(c, With(e, "tmp"))}
  BY <1>8 DEF UndoAside
<1> DEFINE Same(d) == (q \in DOMAIN card <=> q \in DOMAIN d) /\ (q \in DOMAIN card => d[q] = card[q])
<1>9. \A r \in {e, With(e, "tmp"), With(e, "prev"), With(e, "omit")} : \A d :
        Same(d) => Same(Without(d, r))
  BY <1>2, WithoutPoint
<1>10. \A r, s \in {e, With(e, "tmp"), With(e, "prev"), With(e, "omit")} : \A d :
         Same(d) => Same(Renamed(d, r, s))
  BY <1>2, RenamedPoint
<1>11. \A v : Same(Put(card, With(e, "tmp"), v)) BY <1>2, PutPoint
<1>12. Same(card) OBVIOUS
<1>13. Same(card')
  <2> HIDE DEF Same
  <2>1. CASE Stage(e) BY <1>3, <1>11, <2>1
  <2>2. CASE StageFails(e) \/ Unstage(e) \/ OmitFails(e) \/ SetAsideFails(e) \/ Clean(e)
             \/ UndoSwap(e)
    BY <1>4, <1>9, <1>12, <2>2
  <2>3. CASE Omit(e) BY <1>5, <1>9, <1>10, <1>12, <2>3
  <2>4. CASE SetAside(e) BY <1>6, <1>9, <1>10, <1>12, <2>4
  <2>5. CASE SwapIn(e) \/ SwapFails(e) \/ UndoOmit(e) BY <1>7, <1>10, <1>12, <2>5
  <2>6. CASE UndoAside(e) BY <1>8, <1>9, <1>10, <1>12, <2>6
  <2> QED BY <2>1, <2>2, <2>3, <2>4, <2>5, <2>6 DEF EntryStep
<1> QED BY <1>13

(* How an entry's step moves the restore on.                               *)
Moves(e) ==
  /\ op'.archive = op.archive
  /\ \/ /\ op.pc \in {"stage", "omit", "commit"} /\ op'.pc \in {"unstage", "undo"}
        /\ op'.pc = "unstage" <=> op.pc = "stage"
        /\ op.cur = None \/ op.cur = e
        /\ op'.todo = DOMAIN op.archive /\ op'.cur = None
        /\ op'.omitted = op.omitted /\ op'.committed = op.committed
     \/ /\ op'.pc = op.pc /\ op.pc \in {"stage", "unstage", "clean", "drop", "unomit"}
        /\ op'.todo = op.todo \ {e} /\ op'.cur = op.cur
        /\ op'.omitted = op.omitted /\ op'.committed = op.committed
     \/ /\ op'.pc = op.pc /\ op.pc = "omit"
        /\ op'.todo = op.todo \ {e} /\ op'.cur = op.cur
        /\ op'.omitted = op.omitted \cup {e} /\ op'.committed = op.committed
     \/ /\ op'.pc = op.pc /\ op.pc \in {"commit", "undo"} /\ op.cur = None
        /\ op'.todo = op.todo /\ op'.cur = e
        /\ op'.omitted = op.omitted /\ op'.committed = op.committed
     \/ /\ op'.pc = op.pc /\ op.pc = "commit" /\ op.cur = e
        /\ op'.todo = op.todo \ {e} /\ op'.cur = None
        /\ op'.omitted = op.omitted /\ op'.committed = op.committed \cup {e}
     \/ /\ op'.pc = op.pc /\ op.pc = "undo" /\ op.cur = e
        /\ op'.todo = op.todo \ {e} /\ op'.cur = None
        /\ op'.omitted = op.omitted /\ op'.committed = op.committed

LEMMA EntryMoves ==
  ASSUME Types, NEW e \in op.todo, EntryStep(e)
  PROVE  Moves(e)
<1>1. PICK d : d = Done(e) OBVIOUS
<1>2. /\ DOMAIN d = DOMAIN op
      /\ d.pc = op.pc /\ d.todo = op.todo \ {e} /\ d.cur = op.cur
      /\ d.archive = op.archive /\ d.omitted = op.omitted /\ d.committed = op.committed
  BY <1>1, DoneFields DEF Types
<1>3. CASE StageFails(e) \/ OmitFails(e) \/ SetAsideFails(e) \/ SwapFails(e)
  <2>1. \/ At("stage") /\ op' = Goto("unstage", DOMAIN op.archive)
        \/ (At("omit") \/ At("commit")) /\ op' = Goto("undo", DOMAIN op.archive)
    BY <1>3 DEF StageFails, OmitFails, SetAsideFails, SwapFails, Undoing
  <2>2. op.cur = None \/ op.cur = e
    <3>1. CASE op.pc \in {"stage", "omit"} BY <3>1 DEF Types, Todo
    <3>2. CASE op.pc = "commit"
      BY <1>3, <3>2 DEF StageFails, OmitFails, SetAsideFails, SwapFails, At
    <3> QED BY <2>1, <3>1, <3>2 DEF At
  <2> QED BY <2>1, <2>2, GotoFields DEF Types, At, Moves
<1>4. CASE Stage(e) \/ Unstage(e) \/ Clean(e) \/ UndoOmit(e)
  <2>1. op' = d /\ op.pc \in {"stage", "unstage", "clean", "drop", "unomit"}
    BY <1>1, <1>4 DEF Stage, Unstage, Clean, UndoOmit, At
  <2> QED BY <1>2, <2>1 DEF Moves
<1>5. CASE Omit(e)
  <2>1. op.pc = "omit" /\ op' = [d EXCEPT !.omitted = @ \cup {e}]
    BY <1>1, <1>5 DEF Omit, At
  <2> QED BY <1>2, <2>1 DEF Types, Shape, Moves
<1>6. CASE SetAside(e) \/ UndoSwap(e)
  <2>1. op.pc \in {"commit", "undo"} /\ op.cur = None /\ op' = [op EXCEPT !.cur = e]
    BY <1>6 DEF SetAside, UndoSwap, At
  <2> QED BY <2>1 DEF Types, Shape, Moves
<1>7. CASE SwapIn(e)
  <2>1. /\ op.pc = "commit" /\ op.cur = e
        /\ op' = [d EXCEPT !.cur = None, !.committed = @ \cup {e}]
    BY <1>1, <1>7 DEF SwapIn, At
  <2> QED BY <1>2, <2>1 DEF Types, Shape, Moves
<1>8. CASE UndoAside(e)
  <2>1. op.pc = "undo" /\ op.cur = e /\ op' = [d EXCEPT !.cur = None]
    BY <1>1, <1>8 DEF UndoAside, At
  <2> QED BY <1>2, <2>1 DEF Types, Shape, Moves
<1> QED BY <1>3, <1>4, <1>5, <1>6, <1>7, <1>8 DEF EntryStep

(* A step of another file's entry.                                         *)
LEMMA OtherEntry ==
  ASSUME RestoreConstants, Types, NEW e \in op.todo, EntryStep(e),
         NEW p, OwnPath(p), FileInv(p), p # e
  PROVE  FileInv(p)'
<1>1. p.file # e.file
  <2>1. Entry(e) BY TodoPaths
  <2> QED BY <2>1, PathFacts DEF OwnPath, Own, Entry
<1>2. SameFile(p)
  <2>1. \A q \in {p, With(p, "tmp"), With(p, "prev"), With(p, "omit")} :
          q \in Path /\ q.file = p.file
    BY PathFacts DEF OwnPath
  <2> QED BY <1>1, <2>1, EntryFrame DEF SameFile
<1>3. /\ hist'.before = hist.before /\ hist'.archive = hist.archive
      /\ (hist.stuck => hist'.stuck) /\ UNCHANGED outcome
  BY EntryHist
<1>4. Moves(e) BY EntryMoves
<1>5. op'.archive = op.archive BY <1>4 DEF Moves
<1>6. /\ AsBefore(p)' <=> AsBefore(p)
      /\ Kept(p)' <=> Kept(p)
      /\ Exists(p)' <=> Exists(p)
      /\ Was(p)' <=> Was(p)
      /\ Gone(p)' <=> Gone(p)
      /\ Aside(p, "prev")' <=> Aside(p, "prev")
      /\ Aside(p, "omit")' <=> Aside(p, "omit")
      /\ TmpIs(p)' <=> TmpIs(p)
      /\ New(p)' <=> New(p)
      /\ FromPrev(p)' <=> FromPrev(p)
      /\ Stale(p)' <=> Stale(p)
      /\ Final(p)' <=> Final(p)
  BY <1>2, <1>3, <1>5, SameFileFacts
<1>7. Back(p) => Back(p)' BY <1>3, <1>6 DEF Back
<1>8. op.pc # "idle" /\ op.pc \in Phase BY DEF Types, Todo, OpType
<1>9. p # None BY DEF OwnPath, RestoreConstants
<1>10. InStage(p)' BY <1>4, <1>5, <1>6 DEF FileInv, InStage, Moves
<1>11. InOmit(p)' BY <1>4, <1>5, <1>6 DEF FileInv, InOmit, Moves
<1>12. InCommit(p)' BY <1>4, <1>5, <1>6, <1>9 DEF FileInv, InCommit, Moves
<1>13. InClean(p)' BY <1>4, <1>6 DEF FileInv, InClean, Moves
<1>14. InUndo(p)'
  <2>1. CASE op.pc = "undo"
    BY <1>3, <1>4, <1>6, <1>7, <1>9, <2>1 DEF FileInv, InUndo, Moves
  <2>2. CASE op.pc \in {"omit", "commit"} /\ op'.pc = "undo"
    <3>1. op'.todo = DOMAIN op.archive /\ op'.cur = None
          /\ op'.omitted = op.omitted /\ op'.committed = op.committed
      BY <1>4, <2>2 DEF Moves
    <3>2. p \in op.omitted => Gone(p) BY <2>2 DEF FileInv, InOmit, InCommit
    <3>3. p \in op.committed => op.pc = "commit" /\ p \in DOMAIN op.archive
      BY <2>2 DEF Types, Behind
    <3>4. p \in op.committed => (Was(p) => Aside(p, "prev"))
      BY <3>3 DEF FileInv, InCommit
    <3>5. p \notin op.omitted /\ p \notin op.committed => Back(p)
      <4>1. ASSUME p \notin op.omitted, p \notin op.committed, op.cur # p PROVE Back(p)
        <5>1. AsBefore(p) BY <2>2, <4>1 DEF FileInv, InOmit, InCommit
        <5> QED BY <5>1 DEF AsBefore, Back, FromPrev
      <4>2. op.cur # p
        <5>1. op.cur = None \/ op.cur = e BY <2>2, <1>4 DEF Types, Todo, Moves
        <5> QED BY <1>9, <5>1
      <4> QED BY <4>1, <4>2
    <3> QED BY <1>6, <1>7, <1>9, <3>1, <3>2, <3>3, <3>4, <3>5 DEF InUndo
  <2> QED BY <1>4, <2>1, <2>2 DEF InUndo, Moves
<1>15. InUnomit(p)' BY <1>4, <1>6, <1>7 DEF FileInv, InUnomit, Moves
<1>16. AtEnd(p)' BY <1>3, <1>8 DEF AtEnd, Types, Behind
<1>17. AtWork(p)' BY <1>6, <1>8 DEF FileInv, AtWork
<1> QED BY <1>10, <1>11, <1>12, <1>13, <1>14, <1>15, <1>16, <1>17 DEF FileInv


(* A step of the entry of p itself.                                        *)
LEMMA OwnMarks ==
  ASSUME NEW p, OwnPath(p)
  PROVE  /\ With(p, "tmp") # p /\ With(p, "prev") # p /\ With(p, "omit") # p
         /\ With(p, "tmp") # With(p, "prev") /\ With(p, "tmp") # With(p, "omit")
         /\ With(p, "prev") # With(p, "omit") /\ p # None
<1>1. "tmp" \in Suffix /\ "prev" \in Suffix /\ "omit" \in Suffix BY DEF Suffix
<1>2. p \in Path /\ None \notin Path BY RestoreConstants DEF OwnPath, RestoreConstants
<1> QED BY <1>1, <1>2, PathFacts

(* A step that only clears the staged, the old or the omitted copy.        *)
LEMMA ClearedFacts ==
  ASSUME NEW p, OwnPath(p), NEW s \in {"tmp", "prev", "omit"},
         card' \in Removed(With(p, s)), hist'.before = hist.before,
         hist'.archive = hist.archive, op'.archive = op.archive
  PROVE  /\ AsBefore(p)' <=> AsBefore(p)
         /\ Kept(p)' <=> Kept(p)
         /\ Exists(p)' <=> Exists(p)
         /\ Was(p)' <=> Was(p)
         /\ New(p)' <=> New(p)
         /\ Final(p)' <=> Final(p)
         /\ FromPrev(p)' <=> FromPrev(p)
         /\ Stale(p) => Stale(p)'
         /\ s # "prev" => (Aside(p, "prev")' <=> Aside(p, "prev"))
         /\ s # "omit" => (Aside(p, "omit")' <=> Aside(p, "omit"))
         /\ s # "omit" => (Gone(p)' <=> Gone(p))
         /\ s # "tmp" => (TmpIs(p)' <=> TmpIs(p))
<1>1. /\ With(p, "tmp") # p /\ With(p, "prev") # p /\ With(p, "omit") # p
      /\ With(p, "tmp") # With(p, "prev") /\ With(p, "tmp") # With(p, "omit")
      /\ With(p, "prev") # With(p, "omit")
  BY OwnMarks
<1>2. ASSUME NEW q, q # With(p, s)
      PROVE  /\ q \in DOMAIN card <=> q \in DOMAIN card'
             /\ q \in DOMAIN card => card'[q] = card[q]
  BY <1>2, WithoutPoint DEF Removed
<1>3. /\ With(p, s) \in DOMAIN card' => With(p, s) \in DOMAIN card
      /\ With(p, s) \in DOMAIN card' => card'[With(p, s)] = card[With(p, s)]
  BY WithoutPoint DEF Removed
<1>4. p # With(p, s) BY <1>1
<1>5. /\ Exists(p)' <=> Exists(p)
      /\ Exists(p) => card'[p] = card[p]
      /\ Was(p)' <=> Was(p)
  BY <1>2, <1>4 DEF Exists, Was
<1>6. /\ Kept(p)' <=> Kept(p)
      /\ AsBefore(p)' <=> AsBefore(p)
      /\ New(p)' <=> New(p)
      /\ Final(p)' <=> Final(p)
      /\ FromPrev(p)' <=> FromPrev(p)
  BY <1>5 DEF Kept, AsBefore, New, Final, FromPrev
<1>7. ASSUME NEW t \in {"tmp", "prev", "omit"}, s # t
      PROVE  /\ Exists(With(p, t))' <=> Exists(With(p, t))
             /\ Exists(With(p, t)) => card'[With(p, t)] = card[With(p, t)]
             /\ Aside(p, t)' <=> Aside(p, t)
  <2>1. With(p, t) # With(p, s) BY <1>1, <1>7
  <2> QED BY <1>2, <2>1 DEF Exists, Aside
<1>8. Stale(p) => Stale(p)'
  <2>1. /\ Exists(With(p, "prev"))' => Exists(With(p, "prev"))
        /\ Exists(With(p, "prev"))' => card'[With(p, "prev")] = card[With(p, "prev")]
    <3>1. CASE s = "prev" BY <1>3, <3>1 DEF Exists
    <3>2. CASE s # "prev" BY <1>7, <3>2
    <3> QED BY <3>1, <3>2
  <2> QED BY <1>5, <2>1 DEF Stale
<1>9. s # "omit" => (Gone(p)' <=> Gone(p)) BY <1>5, <1>7 DEF Gone
<1>10. s # "tmp" => (TmpIs(p)' <=> TmpIs(p)) BY <1>7 DEF TmpIs
<1> QED BY <1>5, <1>6, <1>7, <1>8, <1>9, <1>10

LEMMA OwnStage ==
  ASSUME RestoreConstants, Types, NEW p \in op.todo, OwnPath(p), FileInv(p),
         Stage(p) \/ StageFails(p) \/ Unstage(p)
  PROVE  FileInv(p)'
<1>1. /\ hist'.before = hist.before /\ hist'.archive = hist.archive /\ UNCHANGED outcome
      /\ Moves(p)
  BY EntryHist, EntryMoves DEF EntryStep
<1>2. op.pc \in {"stage", "unstage"} /\ op'.pc \in {"stage", "unstage"}
      /\ op'.archive = op.archive
  BY <1>1 DEF Stage, StageFails, Unstage, At, Moves
<1>3. AsBefore(p) /\ Stale(p) BY <1>2 DEF FileInv, InStage, AtWork
<1>4. AsBefore(p)' /\ Stale(p)' /\ (op'.pc = "stage" => TmpIs(p)')
  <2>1. CASE Stage(p)
    <3>1. card' = Put(card, With(p, "tmp"), op.archive[p]) BY <2>1 DEF Stage
    <3>2. With(p, "tmp") # p /\ With(p, "tmp") # With(p, "prev") BY OwnMarks
    <3>3. /\ Exists(p)' <=> Exists(p)
          /\ Exists(p) => card'[p] = card[p]
          /\ Exists(With(p, "prev"))' <=> Exists(With(p, "prev"))
          /\ Exists(With(p, "prev")) => card'[With(p, "prev")] = card[With(p, "prev")]
          /\ Was(p)' <=> Was(p)
      BY <1>1, <3>1, <3>2, PutPoint DEF Exists, Was
    <3>4. AsBefore(p)' BY <1>1, <1>3, <3>3 DEF AsBefore, Kept
    <3>5. Stale(p)' BY <1>1, <1>3, <3>3 DEF Stale
    <3>6. TmpIs(p)' BY <1>2, <3>1, PutPoint DEF TmpIs, Exists
    <3> QED BY <3>4, <3>5, <3>6
  <2>2. CASE StageFails(p) \/ Unstage(p)
    <3>1. card' \in Removed(With(p, "tmp")) /\ op'.pc = "unstage"
      BY <1>1, <2>2, GotoFields DEF StageFails, Unstage, At, Moves, Types
    <3> QED BY <1>1, <1>2, <1>3, <3>1, ClearedFacts
  <2> QED BY <2>1, <2>2
<1>5. outcome = "none" BY <1>2 DEF Types, Behind
<1> QED BY <1>1, <1>2, <1>4, <1>5
      DEF FileInv, InStage, InOmit, InCommit, InClean, InUndo, InUnomit, AtEnd, AtWork


LEMMA OwnOmit ==
  ASSUME RestoreConstants, Types, NEW p \in op.todo, OwnPath(p), FileInv(p),
         Omit(p) \/ OmitFails(p)
  PROVE  FileInv(p)'
<1>1. /\ hist'.before = hist.before /\ hist'.archive = hist.archive /\ UNCHANGED outcome
      /\ (hist.stuck => hist'.stuck) /\ Moves(p)
  BY EntryHist, EntryMoves DEF EntryStep
<1>2. op.pc = "omit" /\ op'.archive = op.archive
  BY <1>1 DEF Omit, OmitFails, At, Moves
<1>3. p \notin op.omitted /\ p \notin DOMAIN op.archive /\ op.committed = {}
  BY <1>2 DEF Types, Todo, Behind
<1>4. AsBefore(p) /\ Stale(p) BY <1>2, <1>3 DEF FileInv, InOmit, AtWork
<1>5. outcome = "none" BY <1>2 DEF Types, Behind
<1>6. CASE Omit(p)
  <2>1. card' = Renamed(Without(card, With(p, "omit")), p, With(p, "omit")) /\ Exists(p)
    BY <1>6 DEF Omit
  <2>2. With(p, "omit") # p /\ With(p, "omit") # With(p, "prev") /\ With(p, "prev") # p
    BY OwnMarks
  <2>3. /\ ~Exists(p)' /\ Exists(With(p, "omit"))' /\ card'[With(p, "omit")] = card[p]
    BY <2>1, <2>2, RenamedPoint, WithoutPoint DEF Exists
  <2>4. /\ Exists(With(p, "prev"))' <=> Exists(With(p, "prev"))
        /\ Exists(With(p, "prev")) => card'[With(p, "prev")] = card[With(p, "prev")]
    BY <2>1, <2>2, RenamedPoint, WithoutPoint DEF Exists
  <2>5. Gone(p)' BY <1>1, <1>4, <2>1, <2>3 DEF Gone, AsBefore, Kept, Aside, Was
  <2>6. Stale(p)' BY <1>1, <1>4, <2>4 DEF Stale, Was
  <2>7. op'.pc = "omit" /\ op'.omitted = op.omitted \cup {p}
    <3>1. PICK d : d = Done(p) OBVIOUS
    <3>2. op' = [d EXCEPT !.omitted = @ \cup {p}] BY <1>6, <3>1 DEF Omit
    <3> QED BY <1>2, <3>1, <3>2, DoneFields DEF Types, Shape
  <2> QED BY <1>1, <1>2, <1>3, <1>5, <2>3, <2>5, <2>6, <2>7
        DEF FileInv, InStage, InOmit, InCommit, InClean, InUndo, InUnomit, AtEnd, AtWork
<1>7. CASE OmitFails(p)
  <2>1. card' \in Removed(With(p, "omit")) BY <1>7 DEF OmitFails
  <2>2. op'.pc = "undo" /\ op'.omitted = op.omitted /\ op'.committed = op.committed
    BY <1>7, GotoFields DEF OmitFails, Undoing, Types
  <2>3. AsBefore(p)' /\ Stale(p)' BY <1>1, <1>2, <1>4, <2>1, ClearedFacts
  <2>4. Back(p)' BY <2>3 DEF AsBefore, Back, FromPrev
  <2> QED BY <1>1, <1>3, <1>5, <2>2, <2>3, <2>4
        DEF FileInv, InStage, InOmit, InCommit, InClean, InUndo, InUnomit, AtEnd, AtWork
<1> QED BY <1>6, <1>7

LEMMA OwnSetAside ==
  ASSUME RestoreConstants, Types, NEW p \in op.todo, OwnPath(p), FileInv(p),
         SetAside(p) \/ SetAsideFails(p)
  PROVE  FileInv(p)'
<1>1. /\ hist'.before = hist.before /\ hist'.archive = hist.archive /\ UNCHANGED outcome
      /\ (hist.stuck => hist'.stuck) /\ Moves(p)
  BY EntryHist, EntryMoves DEF EntryStep
<1>2. op.pc = "commit" /\ op.cur = None /\ op'.archive = op.archive
  BY <1>1 DEF SetAside, SetAsideFails, At, Moves
<1>3. p \notin op.omitted /\ p \in DOMAIN op.archive /\ p \notin op.committed /\ p # None
  BY <1>2, OwnMarks DEF Types, Todo, Behind
<1>4. AsBefore(p) /\ Stale(p) /\ TmpIs(p)
  BY <1>2, <1>3 DEF FileInv, InCommit, AtWork
<1>5. outcome = "none" BY <1>2 DEF Types, Behind
<1>6. CASE SetAside(p)
  <2>1. PICK c \in {Without(card, With(p, "prev")), card} :
          \/ ~Exists(p) /\ card' = c
          \/ CanRename(c, p, With(p, "prev")) /\ card' = Renamed(c, p, With(p, "prev"))
    BY <1>6 DEF SetAside, Removed
  <2>2. /\ With(p, "tmp") # p /\ With(p, "tmp") # With(p, "prev") /\ With(p, "prev") # p
    BY OwnMarks
  <2>3. /\ op'.pc = "commit" /\ op'.cur = p /\ op'.todo = op.todo
        /\ op'.omitted = op.omitted /\ op'.committed = op.committed
    BY <1>2, <1>6 DEF SetAside, Types, Shape
  <2>4. ASSUME NEW q, q # With(p, "prev")
        PROVE  (q \in DOMAIN c <=> q \in DOMAIN card) /\ (q \in DOMAIN card => c[q] = card[q])
    BY <2>4, <2>1, WithoutPoint
  <2>5. With(p, "prev") \in DOMAIN c => /\ With(p, "prev") \in DOMAIN card
                                        /\ c[With(p, "prev")] = card[With(p, "prev")]
    BY <2>1, WithoutPoint
  <2>6. CASE ~Exists(p) /\ card' = c
    <3>1. ~Exists(p)' /\ ~Was(p)' /\ ~Was(p)
      BY <1>1, <1>4, <2>2, <2>4, <2>6 DEF Exists, AsBefore, Kept, Was
    <3>2. TmpIs(p)' BY <1>2, <1>4, <2>2, <2>4, <2>6 DEF TmpIs, Exists
    <3>3. Stale(p)' BY <1>1, <1>4, <2>5, <2>6, <3>1 DEF Stale, Exists
    <3> QED BY <1>1, <1>2, <1>3, <1>5, <2>3, <3>1, <3>2, <3>3
          DEF FileInv, InStage, InOmit, InCommit, InClean, InUndo, InUnomit, AtEnd, AtWork
  <2>7. CASE CanRename(c, p, With(p, "prev")) /\ card' = Renamed(c, p, With(p, "prev"))
    <3>1. p \in DOMAIN c /\ p \in DOMAIN card /\ c[p] = card[p]
      BY <2>2, <2>4, <2>7 DEF CanRename
    <3>2. Was(p) /\ card[p] = hist.before[p]
      BY <1>4, <3>1 DEF AsBefore, Kept, Exists
    <3>3. ~Exists(p)' /\ Aside(p, "prev")' /\ Was(p)'
      BY <1>1, <2>2, <2>7, <3>1, <3>2, RenamedPoint DEF Exists, Aside, Was
    <3>4. TmpIs(p)'
      <4>1. With(p, "tmp") \in DOMAIN c /\ c[With(p, "tmp")] = op.archive[p]
        BY <1>4, <2>2, <2>4 DEF TmpIs, Exists
      <4> QED BY <1>2, <2>2, <2>7, <4>1, RenamedPoint DEF TmpIs, Exists
    <3>5. Stale(p)' BY <3>3 DEF Stale
    <3> QED BY <1>1, <1>2, <1>3, <1>5, <2>3, <3>3, <3>4, <3>5
          DEF FileInv, InStage, InOmit, InCommit, InClean, InUndo, InUnomit, AtEnd, AtWork
  <2> QED BY <2>1, <2>6, <2>7
<1>7. CASE SetAsideFails(p)
  <2>1. card' \in Removed(With(p, "prev")) BY <1>7 DEF SetAsideFails
  <2>2. op'.pc = "undo" /\ op'.omitted = op.omitted /\ op'.committed = op.committed
    BY <1>7, GotoFields DEF SetAsideFails, Undoing, Types
  <2>3. AsBefore(p)' /\ Stale(p)' BY <1>1, <1>2, <1>4, <2>1, ClearedFacts
  <2>4. Back(p)' BY <2>3 DEF AsBefore, Back, FromPrev
  <2> QED BY <1>1, <1>3, <1>5, <2>2, <2>3, <2>4
        DEF FileInv, InStage, InOmit, InCommit, InClean, InUndo, InUnomit, AtEnd, AtWork
<1> QED BY <1>6, <1>7

LEMMA OwnSwap ==
  ASSUME RestoreConstants, Types, NEW p \in op.todo, OwnPath(p), FileInv(p),
         SwapIn(p) \/ SwapFails(p)
  PROVE  FileInv(p)'
<1>1. /\ hist'.before = hist.before /\ hist'.archive = hist.archive /\ UNCHANGED outcome
      /\ (hist.stuck => hist'.stuck) /\ Moves(p)
  BY EntryHist, EntryMoves DEF EntryStep
<1>2. op.pc = "commit" /\ op.cur = p /\ op'.archive = op.archive
  BY <1>1 DEF SwapIn, SwapFails, At, Moves
<1>3. p \notin op.omitted /\ p \in DOMAIN op.archive /\ p \notin op.committed /\ p # None
  BY <1>2, OwnMarks DEF Types, Todo, Behind
<1>4. ~Exists(p) /\ (Was(p) => Aside(p, "prev")) /\ Stale(p) /\ TmpIs(p)
  BY <1>2, <1>3 DEF FileInv, InCommit, AtWork
<1>5. outcome = "none" BY <1>2 DEF Types, Behind
<1>6. /\ With(p, "tmp") # p /\ With(p, "tmp") # With(p, "prev") /\ With(p, "prev") # p
  BY OwnMarks
<1>7. CASE SwapIn(p)
  <2>1. card' = Renamed(card, With(p, "tmp"), p) BY <1>7 DEF SwapIn
  <2>2. /\ op'.pc = "commit" /\ op'.cur = None /\ op'.omitted = op.omitted
        /\ op'.committed = op.committed \cup {p}
    <3>1. PICK d : d = Done(p) OBVIOUS
    <3>2. op' = [d EXCEPT !.cur = None, !.committed = @ \cup {p}]
      BY <1>7, <3>1 DEF SwapIn
    <3> QED BY <1>2, <3>1, <3>2, DoneFields DEF Types, Shape
  <2>3. New(p)' BY <1>2, <1>4, <2>1, RenamedPoint DEF New, TmpIs, Exists
  <2>4. /\ Exists(With(p, "prev"))' <=> Exists(With(p, "prev"))
        /\ Exists(With(p, "prev")) => card'[With(p, "prev")] = card[With(p, "prev")]
    BY <1>6, <2>1, RenamedPoint DEF Exists
  <2>5. Stale(p)' /\ (Was(p)' => Aside(p, "prev")')
    BY <1>1, <1>4, <2>4 DEF Stale, Was, Aside
  <2> QED BY <1>1, <1>2, <1>3, <1>5, <2>2, <2>3, <2>5
        DEF FileInv, InStage, InOmit, InCommit, InClean, InUndo, InUnomit, AtEnd, AtWork
<1>8. CASE SwapFails(p)
  <2>1. op'.pc = "undo" /\ op'.omitted = op.omitted /\ op'.committed = op.committed
    BY <1>8, GotoFields DEF SwapFails, Undoing, Types
  <2>2. Back(p)' /\ Stale(p)'
    <3>1. CASE card' = Renamed(card, With(p, "prev"), p) /\ Exists(With(p, "prev"))
      <4>1. /\ Exists(p)' /\ card'[p] = card[With(p, "prev")] /\ ~Exists(With(p, "prev"))'
        BY <1>6, <3>1, RenamedPoint DEF Exists
      <4>2. Stale(p)' BY <4>1 DEF Stale
      <4>3. CASE Was(p)
        BY <1>1, <1>4, <4>1, <4>2, <4>3 DEF Back, Was, Kept, Aside, Exists
      <4>4. CASE ~Was(p)
        BY <1>1, <1>4, <3>1, <4>1, <4>2, <4>4 DEF Back, Was, FromPrev, Stale
      <4> QED BY <4>2, <4>3, <4>4
    <3>2. CASE card' = card /\ ~Exists(With(p, "prev"))
      <4>1. ~Was(p) BY <1>4, <3>2 DEF Aside
      <4> QED BY <1>1, <1>4, <3>2, <4>1 DEF Back, Was, FromPrev, Exists, Stale
    <3>3. CASE card' = card /\ \E n \in {1, 2} : Fails(n, TRUE)
      <4>1. PICK n \in {1, 2} : Fails(n, TRUE) BY <3>3
      <4>2. hist'.stuck
        BY <4>1, FailsFields DEF Types, HistType, RestoreConstants
      <4> QED BY <1>1, <1>4, <3>3, <4>2 DEF Back, Was, Aside, Exists, Stale
    <3>4. \/ card' = Renamed(card, With(p, "prev"), p) /\ Exists(With(p, "prev"))
          \/ card' = card /\ ~Exists(With(p, "prev"))
          \/ card' = card /\ \E n \in {1, 2} : Fails(n, TRUE)
      <4>1. CASE CanRename(card, With(p, "prev"), p)
        <5>1. PICK n \in {0, 1} :
                \/ card' = Renamed(card, With(p, "prev"), p)
                \/ card' = card /\ Fails(n + 1, TRUE)
          BY <1>8, <4>1 DEF SwapFails
        <5>2. n + 1 \in {1, 2} OBVIOUS
        <5> QED BY <4>1, <5>1, <5>2 DEF CanRename, Exists
      <4>2. CASE ~CanRename(card, With(p, "prev"), p)
        BY <1>4, <1>8, <4>2 DEF SwapFails, CanRename, Exists
      <4> QED BY <4>1, <4>2
    <3> QED BY <3>1, <3>2, <3>3, <3>4
  <2> QED BY <1>1, <1>3, <1>5, <2>1, <2>2
        DEF FileInv, InStage, InOmit, InCommit, InClean, InUndo, InUnomit, AtEnd, AtWork
<1> QED BY <1>7, <1>8

LEMMA OwnClean ==
  ASSUME RestoreConstants, Types, NEW p \in op.todo, OwnPath(p), FileInv(p), Clean(p)
  PROVE  FileInv(p)'
<1>1. /\ hist'.before = hist.before /\ hist'.archive = hist.archive /\ UNCHANGED outcome
      /\ Moves(p)
  BY EntryHist, EntryMoves DEF EntryStep
<1>2. op.pc \in {"clean", "drop"} /\ op'.pc = op.pc /\ op'.archive = op.archive
  BY <1>1 DEF Clean, Moves
<1>3. PICK s \in {"tmp", "prev", "omit"} : card' \in Removed(With(p, s)) BY DEF Clean
<1>4. Final(p) /\ Stale(p) BY <1>2 DEF FileInv, InClean, AtWork
<1>5. Final(p)' /\ Stale(p)' BY <1>1, <1>2, <1>3, <1>4, ClearedFacts
<1>6. outcome = "none" BY <1>2 DEF Types, Behind
<1> QED BY <1>1, <1>2, <1>5, <1>6
      DEF FileInv, InStage, InOmit, InCommit, InClean, InUndo, InUnomit, AtEnd, AtWork

LEMMA OwnUndoSwap ==
  ASSUME RestoreConstants, Types, NEW p \in op.todo, OwnPath(p), FileInv(p), UndoSwap(p)
  PROVE  FileInv(p)'
<1>1. /\ hist'.before = hist.before /\ hist'.archive = hist.archive /\ UNCHANGED outcome
      /\ (hist.stuck => hist'.stuck) /\ Moves(p)
  BY EntryHist, EntryMoves DEF EntryStep
<1>2. /\ op.pc = "undo" /\ op.cur = None /\ op'.pc = "undo" /\ op'.cur = p
      /\ op'.archive = op.archive /\ op'.todo = op.todo
      /\ op'.omitted = op.omitted /\ op'.committed = op.committed
  BY <1>1, OwnMarks DEF UndoSwap, At, Moves
<1>3. p \notin op.omitted BY <1>2 DEF Types, Todo, Behind
<1>4. Stale(p) BY <1>2 DEF FileInv, AtWork
<1>5. outcome = "none" BY <1>2 DEF Types, Behind
<1>6. CASE p \in op.committed
  <2>1. Was(p) => Aside(p, "prev") BY <1>2, <1>6 DEF FileInv, InUndo
  <2>2. \/ card' = Without(card, p)
        \/ card' = card /\ Fails(1, TRUE)
    BY <1>6 DEF UndoSwap
  <2>3. With(p, "prev") # p BY OwnMarks
  <2>4. /\ Exists(With(p, "prev"))' <=> Exists(With(p, "prev"))
        /\ Exists(With(p, "prev")) => card'[With(p, "prev")] = card[With(p, "prev")]
    BY <2>2, <2>3, WithoutPoint DEF Exists
  <2>5. Stale(p)' /\ (Was(p)' => Aside(p, "prev")')
    BY <1>1, <1>4, <2>1, <2>4 DEF Stale, Was, Aside
  <2>6. ~hist'.stuck => ~Exists(p)'
    <3>1. CASE card' = Without(card, p) BY <3>1, WithoutPoint DEF Exists
    <3>2. CASE Fails(1, TRUE)
      BY <3>2, FailsFields DEF Types, HistType, RestoreConstants
    <3> QED BY <2>2, <3>1, <3>2
  <2> QED BY <1>1, <1>2, <1>3, <1>5, <1>6, <2>5, <2>6
        DEF FileInv, InStage, InOmit, InCommit, InClean, InUndo, InUnomit, AtEnd, AtWork
<1>7. CASE p \notin op.committed
  <2>1. Back(p) BY <1>2, <1>3, <1>7 DEF FileInv, InUndo
  <2>2. UNCHANGED <<card, hist>> BY <1>7 DEF UndoSwap
  <2>3. Back(p)' /\ Stale(p)'
    BY <1>4, <2>1, <2>2 DEF Back, Stale, Was, Kept, Aside, FromPrev, Exists
  <2> QED BY <1>1, <1>2, <1>3, <1>5, <1>7, <2>3
        DEF FileInv, InStage, InOmit, InCommit, InClean, InUndo, InUnomit, AtEnd, AtWork
<1> QED BY <1>6, <1>7

(* What is back stays back, and what a committed entry had set aside is    *)
(* back or still aside.                                                    *)
LEMMA OwnUndoAside ==
  ASSUME RestoreConstants, Types, NEW p \in op.todo, OwnPath(p), FileInv(p), UndoAside(p)
  PROVE  FileInv(p)'
<1> DEFINE prev == With(p, "prev")
           due == IF CanRename(card, prev, p) THEN Renamed(card, prev, p) ELSE card
<1>1. /\ hist'.before = hist.before /\ hist'.archive = hist.archive /\ UNCHANGED outcome
      /\ (hist.stuck => hist'.stuck) /\ Moves(p)
  BY EntryHist, EntryMoves DEF EntryStep
<1>2. /\ op.pc = "undo" /\ op.cur = p /\ op'.pc = "undo" /\ op'.cur = None
      /\ op'.archive = op.archive /\ op'.todo = op.todo \ {p}
      /\ op'.omitted = op.omitted /\ op'.committed = op.committed
  BY <1>1, OwnMarks DEF UndoAside, At, Moves
<1>3. p \notin op.omitted BY <1>2 DEF Types, Todo, Behind
<1>4. Stale(p) BY <1>2 DEF FileInv, AtWork
<1>5. outcome = "none" BY <1>2 DEF Types, Behind
<1>6. p # prev /\ p # With(p, "tmp") /\ prev # With(p, "tmp") BY OwnMarks
<1>7. PICK c \in {card, due} :
        /\ card' \in {c, Without(c, With(p, "tmp"))}
        /\ c # due => \E n \in {1, 2} : Fails(n, TRUE)
  <2>1. PICK c \in {card, due} :
          /\ card' \in {c, Without(c, With(p, "tmp"))}
          /\ c # due => Fails(1 + Left(card', With(p, "tmp")), TRUE)
    BY DEF UndoAside
  <2>2. 1 + Left(card', With(p, "tmp")) \in {1, 2} BY DEF Left
  <2> QED BY <2>1, <2>2
<1>8. c # due => hist'.stuck
  <2>1. ASSUME c # due PROVE hist'.stuck
    <3>1. PICK n \in {1, 2} : Fails(n, TRUE) BY <1>7, <2>1
    <3> QED BY <3>1, FailsFields DEF Types, HistType, RestoreConstants
  <2> QED BY <2>1
<1>9. ASSUME NEW q \in {p, prev}
      PROVE  (q \in DOMAIN card' <=> q \in DOMAIN c) /\ (q \in DOMAIN c => card'[q] = c[q])
  BY <1>6, <1>7, WithoutPoint
<1> HIDE DEF prev, due
<1>10. /\ Exists(p)' <=> p \in DOMAIN c
       /\ p \in DOMAIN c => card'[p] = c[p]
       /\ Exists(prev)' <=> prev \in DOMAIN c
       /\ prev \in DOMAIN c => card'[prev] = c[prev]
  BY <1>9 DEF Exists
<1>11. Back(p)' /\ Stale(p)'
  <2>1. CASE CanRename(card, prev, p) /\ c = Renamed(card, prev, p)
    <3>1. /\ prev \in DOMAIN card /\ p \notin DOMAIN card
          /\ p \in DOMAIN c /\ c[p] = card[prev] /\ prev \notin DOMAIN c
      BY <1>6, <2>1, RenamedPoint DEF CanRename
    <3>2. /\ Exists(p)' /\ card'[p] = card[prev] /\ ~Exists(prev)' /\ Exists(prev) /\ ~Exists(p)
      BY <1>10, <3>1 DEF Exists
    <3>3. Stale(p)' BY <3>2 DEF Stale, prev
    <3>4. CASE Was(p)
      <4>1. Aside(p, "prev") \/ hist.stuck
        BY <1>2, <1>3, <3>2, <3>4 DEF FileInv, InUndo, Back, Kept
      <4>2. CASE Aside(p, "prev")
        BY <1>1, <3>2, <3>3, <3>4, <4>2 DEF Back, Was, Kept, Aside, prev
      <4>3. CASE ~Aside(p, "prev")
        <5>1. Aside(p, "omit") /\ hist.stuck
          BY <1>2, <1>3, <3>2, <3>4, <4>3 DEF FileInv, InUndo, Back, Kept
        <5>2. Aside(p, "omit")'
          <6>1. With(p, "omit") # p /\ With(p, "omit") # prev /\ With(p, "omit") # With(p, "tmp")
            BY OwnMarks DEF prev
          <6>2. With(p, "omit") \in DOMAIN c /\ c[With(p, "omit")] = card[With(p, "omit")]
            BY <2>1, <5>1, <6>1, RenamedPoint DEF Aside, Exists
          <6>3. With(p, "omit") \in DOMAIN card' /\ card'[With(p, "omit")] = c[With(p, "omit")]
            BY <1>7, <6>1, <6>2, WithoutPoint
          <6> QED BY <1>1, <5>1, <6>2, <6>3 DEF Aside, Exists
        <5> QED BY <1>1, <3>3, <3>4, <5>1, <5>2 DEF Back, Was
      <4> QED BY <4>2, <4>3
    <3>5. CASE ~Was(p)
      BY <1>1, <1>4, <3>2, <3>3, <3>5 DEF Back, Was, FromPrev, Stale, prev
    <3> QED BY <3>4, <3>5
  <2>2. CASE c = card
    <3>1. /\ Exists(p)' <=> Exists(p)
          /\ Exists(p) => card'[p] = card[p]
          /\ Exists(prev)' <=> Exists(prev)
          /\ Exists(prev) => card'[prev] = card[prev]
      BY <1>10, <2>2 DEF Exists
    <3>2. With(p, "omit") # With(p, "tmp") BY OwnMarks
    <3>3. /\ Exists(With(p, "omit"))' <=> Exists(With(p, "omit"))
          /\ Exists(With(p, "omit")) => card'[With(p, "omit")] = card[With(p, "omit")]
      BY <1>7, <2>2, <3>2, WithoutPoint DEF Exists
    <3>4. Stale(p)' BY <1>1, <1>4, <3>1 DEF Stale, Was, prev
    <3>5. Back(p) => Back(p)'
      BY <1>1, <3>1, <3>3 DEF Back, Was, Kept, Aside, FromPrev, prev
    <3>6. CASE p \in op.committed
      <4>1. Was(p) => Aside(p, "prev") BY <1>2, <3>6 DEF FileInv, InUndo
      <4>2. ~hist.stuck => ~Exists(p) BY <1>2, <3>6 DEF FileInv, InUndo
      <4>3. CASE hist'.stuck
        BY <1>1, <3>1, <3>4, <4>1, <4>3 DEF Back, Was, Aside, prev
      <4>4. CASE ~hist'.stuck
        <5>1. ~Exists(p) /\ c = due BY <1>1, <1>8, <4>2, <4>4
        <5>2. ~Exists(prev)
          <6>1. ASSUME Exists(prev) PROVE FALSE
            <7>1. CanRename(card, prev, p) BY <5>1, <6>1 DEF CanRename, Exists
            <7>2. c = Renamed(card, prev, p) BY <5>1, <7>1 DEF due
            <7>3. prev \notin DOMAIN c BY <1>6, <7>2, RenamedPoint
            <7> QED BY <2>2, <6>1, <7>3 DEF Exists
          <6> QED BY <6>1
        <5>3. ~Was(p) BY <4>1, <5>2 DEF Aside, prev
        <5> QED BY <1>1, <3>1, <3>4, <5>1, <5>3 DEF Back, Was, FromPrev
      <4> QED BY <4>3, <4>4
    <3>7. CASE p \notin op.committed
      <4>1. Back(p) BY <1>2, <1>3, <3>7 DEF FileInv, InUndo
      <4> QED BY <3>4, <3>5, <4>1
    <3> QED BY <3>6, <3>7
  <2> QED BY <1>7, <2>1, <2>2 DEF due
<1> QED BY <1>1, <1>2, <1>3, <1>5, <1>11
      DEF FileInv, InStage, InOmit, InCommit, InClean, InUndo, InUnomit, AtEnd, AtWork

LEMMA OwnUndoOmit ==
  ASSUME RestoreConstants, Types, NEW p \in op.todo, OwnPath(p), FileInv(p), UndoOmit(p)
  PROVE  FileInv(p)'
<1>1. /\ hist'.before = hist.before /\ hist'.archive = hist.archive /\ UNCHANGED outcome
      /\ (hist.stuck => hist'.stuck) /\ Moves(p)
  BY EntryHist, EntryMoves DEF EntryStep
<1>2. /\ op.pc = "unomit" /\ op'.pc = "unomit" /\ op'.archive = op.archive
      /\ op'.todo = op.todo \ {p} /\ op'.omitted = op.omitted
  BY <1>1 DEF UndoOmit, At, Moves
<1>3. p \in op.omitted BY <1>2 DEF Types, Todo, Behind
<1>4. Gone(p) /\ Stale(p) BY <1>2, <1>3 DEF FileInv, InUnomit, AtWork
<1>5. outcome = "none" BY <1>2 DEF Types, Behind
<1>6. With(p, "omit") # p /\ With(p, "prev") # p /\ With(p, "prev") # With(p, "omit")
  BY OwnMarks
<1>7. CanRename(card, With(p, "omit"), p) BY <1>4 DEF Gone, Aside, CanRename, Exists
<1>8. CASE card' = Renamed(card, With(p, "omit"), p)
  <2>1. Exists(p)' /\ card'[p] = card[With(p, "omit")]
    BY <1>8, RenamedPoint DEF Exists
  <2>2. Back(p)' BY <1>1, <1>4, <2>1 DEF Gone, Aside, Back, Was, Kept
  <2>3. Stale(p)' BY <1>1, <1>4 DEF Gone, Stale, Was
  <2> QED BY <1>1, <1>2, <1>3, <1>5, <2>2, <2>3
        DEF FileInv, InStage, InOmit, InCommit, InClean, InUndo, InUnomit, AtEnd, AtWork
<1>9. CASE card' = card /\ Fails(1, TRUE)
  <2>1. hist'.stuck BY <1>9, FailsFields DEF Types, HistType, RestoreConstants
  <2>2. Back(p)' BY <1>1, <1>4, <1>9, <2>1 DEF Gone, Aside, Back, Was, Exists
  <2>3. Stale(p)' BY <1>1, <1>4 DEF Gone, Stale, Was
  <2> QED BY <1>1, <1>2, <1>3, <1>5, <2>2, <2>3
        DEF FileInv, InStage, InOmit, InCommit, InClean, InUndo, InUnomit, AtEnd, AtWork
<1> QED BY <1>7, <1>8, <1>9 DEF UndoOmit

LEMMA OwnEntry ==
  ASSUME RestoreConstants, Types, NEW p \in op.todo, OwnPath(p), FileInv(p), EntryStep(p)
  PROVE  FileInv(p)'
BY OwnStage, OwnOmit, OwnSetAside, OwnSwap, OwnClean, OwnUndoSwap, OwnUndoAside, OwnUndoOmit
   DEF EntryStep

(* The steps between the phases; they leave the card alone.                *)
Unchanged == UNCHANGED <<card, older, hist>>

LEMMA UnchangedFacts ==
  ASSUME NEW p, Unchanged
  PROVE  /\ AsBefore(p)' <=> AsBefore(p)
         /\ Kept(p)' <=> Kept(p)
         /\ Exists(p)' <=> Exists(p)
         /\ Was(p)' <=> Was(p)
         /\ Gone(p)' <=> Gone(p)
         /\ Aside(p, "prev")' <=> Aside(p, "prev")
         /\ Aside(p, "omit")' <=> Aside(p, "omit")
         /\ op'.archive = op.archive => (TmpIs(p)' <=> TmpIs(p))
         /\ op'.archive = op.archive => (New(p)' <=> New(p))
         /\ Stale(p)' <=> Stale(p)
         /\ Final(p)' <=> Final(p)
         /\ Back(p)' <=> Back(p)
BY DEF Unchanged, AsBefore, Kept, Exists, Was, Gone, Aside, TmpIs, New, Stale, Final, Back,
       FromPrev

LEMMA BeforeIsBack == ASSUME NEW p, AsBefore(p) PROVE Back(p)
BY DEF AsBefore, Back, FromPrev

LEMMA PhaseFile ==
  ASSUME RestoreConstants, Types, NEW p, OwnPath(p), FileInv(p),
         Export \/ Staged \/ Prepared \/ Committed \/ Cleaned \/ Undone
  PROVE  FileInv(p)'
<1>1. Unchanged /\ UNCHANGED outcome /\ op.pc # "idle"
  BY DEF Export, Staged, Prepared, Committed, Cleaned, Undone, Unchanged, At
<1>2. outcome = "none" /\ op.archive = hist.archive BY <1>1 DEF Types, Behind
<1>3. Stale(p)' BY <1>1, UnchangedFacts DEF FileInv, AtWork
<1>4. p # None BY DEF OwnPath, RestoreConstants
<1>5. CASE Export
  <2>1. op.pc = "export" /\ op'.pc = "stage" /\ op'.todo = DOMAIN op.archive
        /\ op'.archive = op.archive
    BY <1>5, GotoFields DEF Export, At, Types
  <2>2. AsBefore(p)' BY <1>1, <2>1, UnchangedFacts DEF FileInv, InStage
  <2> QED BY <1>1, <1>2, <1>3, <2>1, <2>2
        DEF FileInv, InStage, InOmit, InCommit, InClean, InUndo, InUnomit, AtEnd, AtWork
<1>6. CASE Staged
  <2>1. op.pc = "stage" /\ op.todo = {} /\ op'.pc = "omit" /\ op'.todo = Omitted
        /\ op'.archive = op.archive /\ op'.omitted = op.omitted
    BY <1>6, GotoFields DEF Staged, At, Types
  <2>2. op.omitted = {} BY <2>1 DEF Types, Behind
  <2>3. AsBefore(p)' /\ (p \in DOMAIN op.archive => TmpIs(p)')
    BY <1>1, <2>1, UnchangedFacts DEF FileInv, InStage
  <2>4. p \notin DOMAIN op.archive /\ p.file \notin Preserved /\ Exists(p)' => p \in Omitted
    BY <1>1 DEF Unchanged, Omitted, Current, OwnPath, Exists
  <2> QED BY <1>1, <1>2, <1>3, <2>1, <2>2, <2>3, <2>4
        DEF FileInv, InStage, InOmit, InCommit, InClean, InUndo, InUnomit, AtEnd, AtWork
<1>7. CASE Prepared
  <2>1. /\ op.pc = "omit" /\ op.todo = {} /\ op'.pc = "commit" /\ op'.cur = None
        /\ op'.archive = op.archive /\ op'.omitted = op.omitted
        /\ op'.committed = op.committed
    BY <1>7, GotoFields DEF Prepared, At, Types
  <2>2. op.committed = {} BY <2>1 DEF Types, Behind
  <2>3. InOmit(p) BY DEF FileInv
  <2>4. /\ p \in op.omitted => Gone(p)'
        /\ p \notin op.omitted => AsBefore(p)'
        /\ p \notin DOMAIN op.archive /\ p.file \notin Preserved => ~Exists(p)'
        /\ p \in DOMAIN op.archive => TmpIs(p)'
    BY <1>1, <2>1, <2>3, UnchangedFacts DEF InOmit
  <2> QED BY <1>1, <1>2, <1>3, <1>4, <2>1, <2>2, <2>4
        DEF FileInv, InStage, InOmit, InCommit, InClean, InUndo, InUnomit, AtEnd, AtWork
<1>8. CASE Committed
  <2>1. /\ op.pc = "commit" /\ op.todo = {} /\ op.cur = None /\ op'.pc = "clean"
    BY <1>8, GotoFields DEF Committed, At, Types
  <2>2. op.committed = DOMAIN op.archive BY <2>1 DEF Types, Behind
  <2>3. p \in op.omitted => p \notin DOMAIN op.archive /\ p.file \notin Preserved
    BY DEF Types, Behind
  <2>4. InCommit(p) BY DEF FileInv
  <2>5. ASSUME p \in DOMAIN op.archive PROVE Final(p)
    BY <1>2, <2>1, <2>2, <2>4, <2>5 DEF InCommit, New, Final
  <2>6. ASSUME p \notin DOMAIN op.archive, p.file \notin Preserved PROVE Final(p)
    BY <1>2, <2>1, <2>4, <2>6 DEF InCommit, Final
  <2>7. ASSUME p \notin DOMAIN op.archive, p.file \in Preserved PROVE Final(p)
    <3>1. AsBefore(p) BY <1>4, <2>1, <2>2, <2>3, <2>4, <2>7 DEF InCommit
    <3> QED BY <1>2, <2>7, <3>1 DEF AsBefore, Final
  <2>8. Final(p)' BY <1>1, <2>5, <2>6, <2>7, UnchangedFacts
  <2> QED BY <1>1, <1>2, <1>3, <2>1, <2>8
        DEF FileInv, InStage, InOmit, InCommit, InClean, InUndo, InUnomit, AtEnd, AtWork
<1>9. CASE Cleaned
  <2>1. op.pc = "clean" /\ op'.pc = "drop" BY <1>9, GotoFields DEF Cleaned, At, Types
  <2>2. Final(p)' BY <1>1, <2>1, UnchangedFacts DEF FileInv, InClean
  <2> QED BY <1>1, <1>2, <1>3, <2>1, <2>2
        DEF FileInv, InStage, InOmit, InCommit, InClean, InUndo, InUnomit, AtEnd, AtWork
<1>10. CASE Undone
  <2>1. /\ op.pc = "undo" /\ op.todo = {} /\ op'.pc = "unomit" /\ op'.todo = op.omitted
        /\ op'.omitted = op.omitted
    BY <1>10, GotoFields DEF Undone, At, Types
  <2>2. /\ p \in op.omitted => Gone(p)'
        /\ p \notin op.omitted => Back(p)'
    BY <1>1, <2>1, UnchangedFacts DEF FileInv, InUndo
  <2> QED BY <1>1, <1>2, <1>3, <2>1, <2>2
        DEF FileInv, InStage, InOmit, InCommit, InClean, InUndo, InUnomit, AtEnd, AtWork
<1> QED BY <1>5, <1>6, <1>7, <1>8, <1>9, <1>10

LEMMA EndFile ==
  ASSUME RestoreConstants, Types, NEW p, OwnPath(p), FileInv(p),
         ExportFails \/ Unstaged \/ Finish \/ TakenBack \/ PowerLoss
  PROVE  FileInv(p)'
<1>1. op.pc # "idle" /\ op'.pc = "idle" /\ op'.archive = <<>> /\ UNCHANGED card
  BY IdleFields DEF ExportFails, Unstaged, Finish, TakenBack, PowerLoss, Ends, At
<1>2. CASE ExportFails
  <2>1. outcome' = "failed" /\ op.pc = "export" BY <1>2 DEF ExportFails, Ends, At
  <2>2. hist'.before = hist.before
    <3>1. CASE UNCHANGED hist BY <3>1
    <3>2. CASE Harmed(1)
      BY <3>2, FailsFields DEF Harmed, Types, HistType, RestoreConstants
    <3> QED BY <1>2, <3>1, <3>2 DEF ExportFails
  <2>3. AsBefore(p) BY <2>1 DEF FileInv, InStage
  <2>4. AsBefore(p)' BY <1>1, <2>2, <2>3 DEF AsBefore, Kept, Was, Exists
  <2>5. Back(p)' BY <2>4 DEF AsBefore, Back, FromPrev
  <2> QED BY <1>1, <2>1, <2>5
        DEF FileInv, InStage, InOmit, InCommit, InClean, InUndo, InUnomit, AtEnd, AtWork
<1>3. CASE Unstaged \/ TakenBack
  <2>1. outcome' = "failed" /\ Unchanged /\ op.pc \in {"unstage", "unomit"} /\ op.todo = {}
    BY <1>3 DEF Unstaged, TakenBack, Ends, At, Unchanged
  <2>2. Back(p) BY <2>1, BeforeIsBack DEF FileInv, InStage, InUnomit
  <2>3. Back(p)' BY <2>1, <2>2, UnchangedFacts
  <2> QED BY <1>1, <2>1, <2>3
        DEF FileInv, InStage, InOmit, InCommit, InClean, InUndo, InUnomit, AtEnd, AtWork
<1>4. CASE op.pc \in {"clean", "drop"}
  <2>1. outcome' = "done" /\ Unchanged
    BY <1>4, <1>1 DEF ExportFails, Unstaged, Finish, TakenBack, PowerLoss, Ends, At, Unchanged
  <2>2. Final(p)' BY <1>4, <2>1, UnchangedFacts DEF FileInv, InClean
  <2> QED BY <1>1, <2>1, <2>2
        DEF FileInv, InStage, InOmit, InCommit, InClean, InUndo, InUnomit, AtEnd, AtWork
<1>5. CASE PowerLoss /\ op.pc \notin {"clean", "drop"}
  <2>1. outcome' = "lost" /\ Unchanged BY <1>5 DEF PowerLoss, Ends, Unchanged
  <2>2. ASSUME Was(p) PROVE Kept(p) \/ Aside(p, "prev") \/ Aside(p, "omit")
    <3>1. op.pc \in {"export", "stage", "unstage", "omit", "commit", "undo", "unomit"}
      BY <1>1, <1>5 DEF Types, OpType, Phase
    <3>2. AsBefore(p) => Kept(p) BY <2>2 DEF AsBefore
    <3>3. Gone(p) => Aside(p, "omit") BY DEF Gone
    <3>4. Back(p) => Kept(p) \/ Aside(p, "prev") \/ Aside(p, "omit") BY <2>2 DEF Back
    <3>5. CASE op.pc \in {"export", "stage", "unstage"}
      BY <3>2, <3>5 DEF FileInv, InStage
    <3>6. CASE op.pc = "omit" BY <3>2, <3>3, <3>6 DEF FileInv, InOmit
    <3>7. CASE op.pc = "commit" BY <2>2, <3>2, <3>3, <3>7 DEF FileInv, InCommit
    <3>8. CASE op.pc = "undo" BY <2>2, <3>3, <3>4, <3>8 DEF FileInv, InUndo
    <3>9. CASE op.pc = "unomit" BY <3>3, <3>4, <3>9 DEF FileInv, InUnomit
    <3> QED BY <3>1, <3>5, <3>6, <3>7, <3>8, <3>9
  <2>3. Was(p)' => Kept(p)' \/ Aside(p, "prev")' \/ Aside(p, "omit")'
    BY <2>1, <2>2, UnchangedFacts
  <2> QED BY <1>1, <2>1, <2>3
        DEF FileInv, InStage, InOmit, InCommit, InClean, InUndo, InUnomit, AtEnd, AtWork
<1>6. Finish => op.pc = "drop" BY DEF Finish, At
<1> QED BY <1>2, <1>3, <1>4, <1>5, <1>6

(* A restore that begins has changed nothing yet.                          *)
LEMMA Begins ==
  ASSUME NEW a, Begin(a)
  PROVE  /\ op'.pc = "export" /\ op'.todo = {} /\ hist'.before = card /\ card' = card
         /\ outcome' = "none"
<1>1. PICK room \in BOOLEAN :
        hist' = [before |-> card, archive |-> a, room |-> room, harm |-> 0,
                 stuck |-> FALSE, count |-> hist.count + 1]
  BY DEF Begin
<1>2. op' = [Idle EXCEPT !.pc = "export", !.archive = a] /\ card' = card /\ outcome' = "none"
  BY DEF Begin
<1> QED BY <1>1, <1>2 DEF Idle

LEMMA RestFile ==
  ASSUME RestoreConstants, Types, NEW p, OwnPath(p), FileInv(p),
         \/ \E a \in exports : Begin(a)
         \/ \E f \in File : Read(f)
         \/ UNCHANGED vars
  PROVE  FileInv(p)'
<1>1. ASSUME NEW a \in exports, Begin(a) PROVE FileInv(p)'
  <2>1. op'.pc = "export" /\ op'.todo = {} /\ hist'.before = card /\ card' = card
        /\ outcome' = "none"
    BY <1>1, Begins
  <2>2. AsBefore(p)' /\ Stale(p)' BY <2>1 DEF AsBefore, Kept, Was, Exists, Stale
  <2> QED BY <2>1, <2>2
        DEF FileInv, InStage, InOmit, InCommit, InClean, InUndo, InUnomit, AtEnd, AtWork
<1>2. ASSUME NEW f \in File, Read(f) PROVE FileInv(p)'
  <2>1. op'.pc = "idle" /\ outcome' = "none" BY <1>2 DEF Read, At
  <2> QED BY <2>1
        DEF FileInv, InStage, InOmit, InCommit, InClean, InUndo, InUnomit, AtEnd, AtWork
<1>3. CASE UNCHANGED vars
  <2>1. Unchanged /\ UNCHANGED <<op, outcome>> BY <1>3 DEF vars, Unchanged
  <2>2. op'.archive = op.archive BY <2>1
  <2>3. /\ InStage(p)' /\ InOmit(p)' /\ InCommit(p)' /\ InClean(p)'
    BY <2>1, <2>2, UnchangedFacts DEF FileInv, InStage, InOmit, InCommit, InClean
  <2>4. InUndo(p)' /\ InUnomit(p)' /\ AtEnd(p)' /\ AtWork(p)'
    <3>1. hist'.stuck = hist.stuck BY <2>1 DEF Unchanged
    <3> QED BY <2>1, <3>1, UnchangedFacts DEF FileInv, InUndo, InUnomit, AtEnd, AtWork
  <2> QED BY <2>3, <2>4 DEF FileInv
<1> QED BY <1>1, <1>2, <1>3

LEMMA NextFiles ==
  ASSUME RestoreConstants, Types, OwnFiles, [Next]_vars
  PROVE  OwnFiles'
<1> SUFFICES ASSUME NEW p \in Path, OwnPath(p) PROVE FileInv(p)'
  BY DEF OwnFiles, OwnPath
<1>1. FileInv(p) BY DEF OwnFiles
<1>2. ASSUME NEW e \in op.todo, EntryStep(e) PROVE FileInv(p)'
  <2>1. CASE e = p BY <1>1, <1>2, <2>1, OwnEntry
  <2>2. CASE e # p BY <1>1, <1>2, <2>2, OtherEntry
  <2> QED BY <2>1, <2>2
<1>3. CASE Export \/ Staged \/ Prepared \/ Committed \/ Cleaned \/ Undone
  BY <1>1, <1>3, PhaseFile
<1>4. CASE ExportFails \/ Unstaged \/ Finish \/ TakenBack \/ PowerLoss
  BY <1>1, <1>4, EndFile
<1>5. CASE \/ \E a \in exports : Begin(a)
           \/ \E f \in File : Read(f)
           \/ UNCHANGED vars
  BY <1>1, <1>5, RestFile
<1> QED BY <1>2, <1>3, <1>4, <1>5 DEF Next, EntryStep

LEMMA InitFiles == ASSUME RestoreConstants, Init PROVE OwnFiles
<1>1. op.pc = "idle" /\ outcome = "none" BY IdleFields DEF Init
<1> QED BY <1>1 DEF OwnFiles, FileInv, InStage, InOmit, InCommit, InClean, InUndo, InUnomit,
       AtEnd, AtWork

LEMMA PlainIsOwn == ASSUME RestoreConstants, NEW f \in Own PROVE Plain(f) \in Path /\ OwnPath(Plain(f))
BY PathFacts DEF OwnPath, Own

LEMMA FilesKept ==
  ASSUME RestoreConstants, Types, OwnFiles
  PROVE  NothingLost /\ RolledBack /\ RestoredIsArchive
<1>1. ASSUME NEW f \in Own PROVE FileInv(Plain(f))
  BY PlainIsOwn DEF OwnFiles
<1>2. outcome # "none" => op.pc = "idle" BY DEF Types, Behind
<1>3. ASSUME op.pc \notin {"idle", "clean", "drop"} \/ outcome \in {"failed", "lost"},
             NEW f \in Own, Plain(f) \in DOMAIN hist.before
      PROVE  \E p \in Moved(Plain(f)) : Exists(p) /\ card[p] = hist.before[Plain(f)]
  <2> DEFINE p == Plain(f)
  <2>1. FileInv(p) /\ Was(p) BY <1>1, <1>3 DEF Was
  <2> HIDE DEF p
  <2>2. SUFFICES Kept(p) \/ Aside(p, "prev") \/ Aside(p, "omit")
    BY DEF Kept, Aside, Moved, p
  <2>3. AsBefore(p) => Kept(p) BY <2>1 DEF AsBefore
  <2>4. Gone(p) => Aside(p, "omit") BY DEF Gone
  <2>5. Back(p) => Kept(p) \/ Aside(p, "prev") \/ Aside(p, "omit") BY <2>1 DEF Back
  <2>6. CASE outcome \in {"failed", "lost"} BY <2>1, <2>5, <2>6 DEF FileInv, AtEnd
  <2>7. CASE op.pc \in {"export", "stage", "unstage"}
    BY <2>1, <2>3, <2>7 DEF FileInv, InStage
  <2>8. CASE op.pc = "omit" BY <2>1, <2>3, <2>4, <2>8 DEF FileInv, InOmit
  <2>9. CASE op.pc = "commit" BY <2>1, <2>3, <2>4, <2>9 DEF FileInv, InCommit
  <2>10. CASE op.pc = "undo" BY <2>1, <2>4, <2>5, <2>10 DEF FileInv, InUndo
  <2>11. CASE op.pc = "unomit" BY <2>1, <2>4, <2>5, <2>11 DEF FileInv, InUnomit
  <2> QED BY <1>3, <2>6, <2>7, <2>8, <2>9, <2>10, <2>11 DEF Types, OpType, Phase
<1>4. ASSUME outcome = "failed", ~hist.stuck, NEW f \in Own
      PROVE  IF Plain(f) \in DOMAIN hist.before THEN Kept(Plain(f)) ELSE FromPrev(Plain(f))
  BY <1>1, <1>4 DEF FileInv, AtEnd, Back, Was
<1>5. ASSUME outcome = "done", NEW f \in Own PROVE Final(Plain(f))
  BY <1>1, <1>5 DEF FileInv, AtEnd
<1>6. NothingLost BY <1>3 DEF NothingLost
<1>7. RolledBack BY <1>4 DEF RolledBack, FromPrev
<1>8. RestoredIsArchive
  <2>1. \A f \in Own : Plain(f).file = f BY PathFacts DEF Own
  <2> QED BY <1>5, <2>1 DEF RestoredIsArchive, Final, Was
<1> QED BY <1>6, <1>7, <1>8

(* NothingLost: whatever calls of the card fail and whenever the power     *)
(* goes, what a file of this reader held stays on the card until the       *)
(* restore has succeeded.                                                  *)
THEOREM NothingEverLost == Spec => []NothingLost
<1>1. Init => Types /\ OwnFiles BY InitTypes, InitFiles, RestoreConstants
<1>2. Types /\ OwnFiles /\ [Next]_vars => Types' /\ OwnFiles'
  BY NextTypes, NextFiles, RestoreConstants
<1>3. Types /\ OwnFiles => NothingLost BY FilesKept, RestoreConstants
<1> QED BY <1>1, <1>2, <1>3, PTL DEF Spec

(* RolledBack: a failed restore whose way back met no failing call has put *)
(* the files of this reader back.                                          *)
THEOREM FailureIsUndone == Spec => []RolledBack
<1>1. Init => Types /\ OwnFiles BY InitTypes, InitFiles, RestoreConstants
<1>2. Types /\ OwnFiles /\ [Next]_vars => Types' /\ OwnFiles'
  BY NextTypes, NextFiles, RestoreConstants
<1>3. Types /\ OwnFiles => RolledBack BY FilesKept, RestoreConstants
<1> QED BY <1>1, <1>2, <1>3, PTL DEF Spec

(* RestoredIsArchive: a restore that reports success leaves what the       *)
(* archive holds.                                                          *)
THEOREM SuccessIsArchive == Spec => []RestoredIsArchive
<1>1. Init => Types /\ OwnFiles BY InitTypes, InitFiles, RestoreConstants
<1>2. Types /\ OwnFiles /\ [Next]_vars => Types' /\ OwnFiles'
  BY NextTypes, NextFiles, RestoreConstants
<1>3. Types /\ OwnFiles => RestoredIsArchive BY FilesKept, RestoreConstants
<1> QED BY <1>1, <1>2, <1>3, PTL DEF Spec

-----------------------------------------------------------------------------
(* What makes a restore fail.                                              *)

(* A staged copy, or any other path with a suffix, is of one path only,    *)
(* and no staged copy is archived or moved.                                *)
LEMMA CopyFacts ==
  /\ \A p, q \in Path : \A s, t \in Suffix : With(p, s) = With(q, t) => p = q /\ s = t
  /\ \A p \in Path : ~Collected(With(p, "tmp"))
<1>1. \A p \in Path : \A s \in Suffix : With(p, s) = [file |-> p.file, ext |-> Append(p.ext, s)]
  BY Suffixed
<1>2. \A p \in Path : p.ext \in Seq(Suffix) /\ p = [file |-> p.file, ext |-> p.ext]
  BY DEF Path
<1>3. ASSUME NEW e \in Seq(Suffix), NEW d \in Seq(Suffix), NEW s \in Suffix, NEW t \in Suffix,
             Append(e, s) = Append(d, t)
      PROVE  e = d /\ s = t
  <2>1. /\ Len(Append(e, s)) = Len(e) + 1 /\ Len(Append(d, t)) = Len(d) + 1
        /\ Len(e) \in Nat /\ Len(d) \in Nat
    OBVIOUS
  <2>2. Len(e) = Len(d) BY <1>3, <2>1
  <2>3. Append(e, s)[Len(e) + 1] = s /\ Append(d, t)[Len(d) + 1] = t OBVIOUS
  <2>4. s = t BY <1>3, <2>2, <2>3
  <2>5. ASSUME NEW n \in 1..Len(e) PROVE e[n] = d[n]
    <3>1. n \in 1..Len(d) BY <2>2
    <3>2. Append(e, s)[n] = e[n] OBVIOUS
    <3>3. Append(d, t)[n] = d[n] BY <3>1
    <3> QED BY <1>3, <3>2, <3>3
  <2>6. e = d BY <2>2, <2>5
  <2> QED BY <2>4, <2>6
<1>4. \A p, q \in Path : \A s, t \in Suffix : With(p, s) = With(q, t) => p = q /\ s = t
  <2> SUFFICES ASSUME NEW p \in Path, NEW q \in Path, NEW s \in Suffix, NEW t \in Suffix,
                      With(p, s) = With(q, t)
               PROVE  p = q /\ s = t
    OBVIOUS
  <2>1. p.file = q.file /\ Append(p.ext, s) = Append(q.ext, t)
    <3>1. /\ With(p, s).file = p.file /\ With(p, s).ext = Append(p.ext, s)
          /\ With(q, t).file = q.file /\ With(q, t).ext = Append(q.ext, t)
      BY <1>1
    <3> QED BY <3>1
  <2>2. p.ext = q.ext /\ s = t BY <1>2, <1>3, <2>1
  <2> QED BY <1>2, <2>1, <2>2
<1>5. ASSUME NEW p \in Path PROVE ~Collected(With(p, "tmp"))
  <2>1. With(p, "tmp").ext = Append(p.ext, "tmp") BY <1>1 DEF Suffix
  <2>2. PICK e \in Seq(Suffix) : e = p.ext BY <1>2
  <2>3. /\ Len(Append(e, "tmp")) = Len(e) + 1 /\ Len(e) \in Nat
        /\ Append(e, "tmp")[Len(e) + 1] = "tmp"
        /\ DOMAIN Append(e, "tmp") = 1..(Len(e) + 1)
    BY DEF Suffix
  <2>4. Append(e, "tmp") # <<>> BY <2>3
  <2>5. Len(e) + 1 \in DOMAIN Append(e, "tmp") BY <2>3
  <2> QED BY <2>1, <2>2, <2>3, <2>4, <2>5 DEF Collected, IsPlain
<1> QED BY <1>4, <1>5

(* Failing calls are counted.                                              *)
LEMMA HarmAdds ==
  ASSUME Types, NEW n, NEW stuck, Fails(n, stuck)
  PROVE  hist'.harm = hist.harm + n
BY DEF Fails, Types, Shape

(* A file the card cannot move: it is in the older directory alone, and    *)
(* the archive omits it.                                                   *)
Unmovable ==
  \E f \in DOMAIN older \ Preserved :
    Plain(f) \notin DOMAIN hist.before /\ Plain(f) \notin DOMAIN hist.archive
Exempt(p) == \E f \in DOMAIN older : p = Plain(f) /\ ~Was(p)
StagedCopy(p) == Exists(With(p, "tmp"))

(* A restore turns back after a failing call, or because a file cannot be  *)
(* moved; while nothing of the kind happens, what a phase works on is      *)
(* there and its staged copies are.                                        *)
TurnsBack ==
  /\ op.pc = "unstage" => hist.harm > 0
  /\ op.pc \in {"undo", "unomit"} /\ hist.harm = 0 => Unmovable
StillThere ==
  op.pc \in {"export", "stage"} => \A p \in Path : Collected(p) => (Exists(p) <=> Was(p))
Ready ==
  /\ op.pc = "stage" => \A p \in DOMAIN op.archive \ op.todo : StagedCopy(p)
  /\ op.pc = "omit" => /\ \A p \in DOMAIN op.archive : StagedCopy(p)
                       /\ \A p \in op.todo : Exists(p) \/ Exempt(p)
  /\ op.pc = "commit" => /\ \A p \in op.todo : StagedCopy(p)
                         /\ op.cur # None => ~Exists(op.cur)
RefusalInv == TurnsBack /\ StillThere /\ Ready /\ NoFalseRefusal

LEMMA HarmGrows ==
  ASSUME RestoreConstants, Types, NEW e \in op.todo, EntryStep(e)
  PROVE  hist.harm \in Nat /\ hist'.harm \in Nat /\ hist'.harm >= hist.harm
<1>1. hist.harm \in Nat /\ hist'.harm \in Nat
  BY EntryHist DEF Types, HistType, RestoreConstants
<1>2. CASE UNCHANGED hist BY <1>1, <1>2
<1>3. CASE \E n \in Nat : \E stuck \in BOOLEAN : Fails(n, stuck)
  <2>1. PICK n \in Nat : \E stuck \in BOOLEAN : Fails(n, stuck) BY <1>3
  <2>2. hist'.harm = hist.harm + n BY <2>1, HarmAdds
  <2> QED BY <1>1, <2>1, <2>2
<1> QED BY <1>1, <1>2, <1>3, EntryFails

(* What stays of the last restore's question and the older directory.      *)
LEMMA EntryAsked ==
  ASSUME RestoreConstants, Types, NEW e \in op.todo, EntryStep(e)
  PROVE  /\ Unmovable' <=> Unmovable
         /\ \A p : Was(p)' <=> Was(p)
         /\ \A p : Exempt(p)' <=> Exempt(p)
         /\ op'.archive = op.archive /\ outcome' = "none"
<1>1. /\ hist'.before = hist.before /\ hist'.archive = hist.archive
      /\ older' = older /\ outcome' = outcome
  BY EntryHist
<1>2. op'.archive = op.archive BY EntryMoves DEF Moves
<1>3. op.pc # "idle" BY DEF Types, Todo
<1>4. outcome = "none" BY <1>3 DEF Types, Behind
<1> QED BY <1>1, <1>2, <1>4 DEF Unmovable, Was, Exempt

(* The suffixes, as the lemmas about paths want them.                      *)
LEMMA MarkFacts ==
  /\ "tmp" \in Suffix /\ "prev" \in Suffix /\ "omit" \in Suffix
  /\ "tmp" # "prev" /\ "tmp" # "omit" /\ "prev" # "omit"
BY DEF Suffix

(* The staged copy of one entry is nothing another entry's step touches.   *)
LEMMA CopyApart ==
  ASSUME NEW p, NEW e, Entry(p), Entry(e)
  PROVE  /\ With(p, "tmp") # e
         /\ With(p, "tmp") # With(e, "prev") /\ With(p, "tmp") # With(e, "omit")
         /\ p # e => With(p, "tmp") # With(e, "tmp")
BY CopyFacts, MarkFacts DEF Entry

(* Where an entry's step of the first phases leads.                        *)
LEMMA EntryLeads ==
  ASSUME Types, NEW e \in op.todo
  PROVE  /\ Stage(e) => op'.pc = "stage" /\ op'.todo = op.todo \ {e}
         /\ StageFails(e) => op'.pc = "unstage"
         /\ Omit(e) => op'.pc = "omit" /\ op'.todo = op.todo \ {e}
         /\ OmitFails(e) \/ SetAsideFails(e) \/ SwapFails(e) => op'.pc = "undo"
         /\ SwapIn(e) => op'.pc = "commit" /\ op'.todo = op.todo \ {e} /\ op'.cur = None
<1>1. PICK d : d = Done(e) OBVIOUS
<1>2. DOMAIN d = DOMAIN op /\ d.pc = op.pc /\ d.todo = op.todo \ {e}
  BY <1>1, DoneFields DEF Types
<1>3. Stage(e) => op'.pc = "stage" /\ op'.todo = op.todo \ {e}
  BY <1>1, <1>2 DEF Stage, At
<1>4. StageFails(e) => op'.pc = "unstage"
  BY GotoFields DEF StageFails, Types
<1>5. Omit(e) => op'.pc = "omit" /\ op'.todo = op.todo \ {e}
  <2>1. Omit(e) => op.pc = "omit" /\ op' = [d EXCEPT !.omitted = @ \cup {e}]
    BY <1>1 DEF Omit, At
  <2> QED BY <1>2, <2>1 DEF Types, Shape
<1>6. OmitFails(e) \/ SetAsideFails(e) \/ SwapFails(e) => op'.pc = "undo"
  <2>1. OmitFails(e) \/ SetAsideFails(e) \/ SwapFails(e) => op' = Undoing
    BY DEF OmitFails, SetAsideFails, SwapFails
  <2> QED BY <2>1, GotoFields DEF Undoing, Types
<1>7. SwapIn(e) => op'.pc = "commit" /\ op'.todo = op.todo \ {e} /\ op'.cur = None
  <2>1. SwapIn(e) =>
          op.pc = "commit" /\ op' = [d EXCEPT !.cur = None, !.committed = @ \cup {e}]
    BY <1>1 DEF SwapIn, At
  <2> QED BY <1>2, <2>1 DEF Types, Shape
<1> QED BY <1>3, <1>4, <1>5, <1>6, <1>7

(* While entries are staged only staged copies come.                       *)
LEMMA StagingRefusal ==
  ASSUME RestoreConstants, Types, RefusalInv, NEW e \in op.todo,
         Stage(e) \/ StageFails(e) \/ Unstage(e)
  PROVE  RefusalInv'
<1>1. /\ Moves(e) /\ hist.harm \in Nat /\ hist'.harm \in Nat /\ hist'.harm >= hist.harm
  BY EntryMoves, HarmGrows DEF EntryStep
<1>2. /\ Unmovable' <=> Unmovable
      /\ \A p : Was(p)' <=> Was(p)
      /\ op'.archive = op.archive /\ outcome' = "none"
  BY EntryAsked DEF EntryStep
<1>3. NoFalseRefusal' BY <1>2 DEF NoFalseRefusal
<1>4. CASE Stage(e)
  <2>1. /\ op.pc = "stage" /\ op'.pc = "stage" /\ op'.todo = op.todo \ {e}
        /\ card' = Put(card, With(e, "tmp"), op.archive[e])
    BY <1>4, EntryLeads DEF Stage, At
  <2>2. \A q : Exists(q)' <=> q = With(e, "tmp") \/ Exists(q)
    BY <2>1, PutPoint DEF Exists
  <2>3. e \in Path BY TodoPaths DEF Entry
  <2>4. StillThere'
    BY <1>2, <2>1, <2>2, <2>3, CopyFacts DEF RefusalInv, StillThere
  <2>5. Ready' BY <1>2, <2>1, <2>2 DEF RefusalInv, Ready, StagedCopy
  <2> QED BY <1>3, <2>1, <2>4, <2>5 DEF RefusalInv, TurnsBack
<1>5. CASE StageFails(e)
  <2>1. op'.pc = "unstage" BY <1>5, EntryLeads
  <2>2. hist'.harm = hist.harm + 1 BY <1>5, HarmAdds DEF StageFails, Harmed
  <2>3. hist'.harm > 0 BY <1>1, <2>2
  <2> QED BY <1>3, <2>1, <2>3 DEF RefusalInv, TurnsBack, StillThere, Ready
<1>6. CASE Unstage(e)
  <2>1. op.pc = "unstage" /\ op'.pc = "unstage" BY <1>1, <1>6 DEF Unstage, At, Moves
  <2>2. hist.harm > 0 BY <2>1 DEF RefusalInv, TurnsBack
  <2>3. hist'.harm > 0 BY <1>1, <2>2
  <2> QED BY <1>3, <2>1, <2>3 DEF RefusalInv, TurnsBack, StillThere, Ready
<1> QED BY <1>4, <1>5, <1>6

(* Moving away fails by a fault, or for a file that cannot be moved.       *)
LEMMA OmitRefusal ==
  ASSUME RestoreConstants, Types, RefusalInv, NEW e \in op.todo, Omit(e) \/ OmitFails(e)
  PROVE  RefusalInv'
<1>1. /\ Moves(e) /\ hist.harm \in Nat /\ hist'.harm \in Nat /\ hist'.harm >= hist.harm
  BY EntryMoves, HarmGrows DEF EntryStep
<1>2. /\ Unmovable' <=> Unmovable
      /\ \A p : Exempt(p)' <=> Exempt(p)
      /\ op'.archive = op.archive /\ outcome' = "none"
  BY EntryAsked DEF EntryStep
<1>3. NoFalseRefusal' BY <1>2 DEF NoFalseRefusal
<1>4. op.pc = "omit" BY DEF Omit, OmitFails, At
<1>5. /\ Entry(e) /\ e \notin DOMAIN op.archive /\ e.file \notin Preserved
      /\ Exists(e) \/ Exempt(e)
  BY <1>4 DEF Types, Todo, RefusalInv, Ready
<1>6. CASE Omit(e)
  <2>1. /\ op'.pc = "omit" /\ op'.todo = op.todo \ {e}
        /\ card' = Renamed(Without(card, With(e, "omit")), e, With(e, "omit"))
    BY <1>6, EntryLeads DEF Omit
  <2>2. \A q : Exists(q)' <=> q = With(e, "omit") \/ (q # e /\ Exists(q))
    BY <2>1, RenamedPoint, WithoutPoint DEF Exists
  <2>3. \A p \in DOMAIN op.archive : StagedCopy(p)'
    <3>1. \A p \in DOMAIN op.archive : Entry(p) /\ StagedCopy(p)
      BY <1>4 DEF RefusalInv, Ready, Types, Behind
    <3> QED BY <1>5, <2>2, <3>1, CopyApart DEF StagedCopy
  <2>4. \A p \in op'.todo : Exists(p)' \/ Exempt(p)'
    BY <1>2, <1>4, <2>1, <2>2 DEF RefusalInv, Ready
  <2>5. Ready' BY <1>2, <2>1, <2>3, <2>4 DEF Ready
  <2> QED BY <1>3, <2>1, <2>5 DEF RefusalInv, TurnsBack, StillThere
<1>7. CASE OmitFails(e)
  <2>1. op'.pc = "undo" BY <1>7, EntryLeads
  <2>2. CASE Exists(e)
    <3>1. hist'.harm = hist.harm + 1 BY <1>7, <2>2, HarmAdds DEF OmitFails, Harmed
    <3>2. hist'.harm # 0 BY <1>1, <3>1
    <3> QED BY <1>3, <2>1, <3>2 DEF RefusalInv, TurnsBack, StillThere, Ready
  <2>3. CASE ~Exists(e)
    <3>1. PICK f \in DOMAIN older : e = Plain(f) /\ ~Was(e) BY <1>5, <2>3 DEF Exempt
    <3>2. f \in File BY DEF Types, CardType, RestoreConstants
    <3>3. f \notin Preserved BY <1>5, <3>1, <3>2, PathFacts
    <3>4. op.archive = hist.archive BY <1>4 DEF Types, Behind
    <3>5. Unmovable BY <1>5, <3>1, <3>3, <3>4 DEF Unmovable, Was
    <3> QED BY <1>2, <1>3, <2>1, <3>5 DEF RefusalInv, TurnsBack, StillThere, Ready
  <2> QED BY <2>2, <2>3
<1> QED BY <1>6, <1>7

(* Setting aside and swapping in fail only by a fault: the name is free    *)
(* and the staged copy is there.                                           *)
LEMMA CommitRefusal ==
  ASSUME RestoreConstants, Types, RefusalInv, NEW e \in op.todo,
         SetAside(e) \/ SetAsideFails(e) \/ SwapIn(e) \/ SwapFails(e)
  PROVE  RefusalInv'
<1>1. /\ Moves(e) /\ hist.harm \in Nat /\ hist'.harm \in Nat /\ hist'.harm >= hist.harm
  BY EntryMoves, HarmGrows DEF EntryStep
<1>2. op'.archive = op.archive /\ outcome' = "none"
  BY EntryAsked DEF EntryStep
<1>3. NoFalseRefusal' BY <1>2 DEF NoFalseRefusal
<1>4. op.pc = "commit" BY DEF SetAside, SetAsideFails, SwapIn, SwapFails, At
<1>5. \A p \in op.todo : Entry(p) /\ StagedCopy(p)
  BY <1>4, TodoPaths DEF RefusalInv, Ready
<1>6. e # None /\ With(e, "prev") # e /\ With(e, "tmp") # e
  BY <1>5, PathFacts, MarkFacts DEF Entry, RestoreConstants
<1>7. CASE SetAside(e)
  <2>1. op'.pc = "commit" /\ op'.todo = op.todo /\ op'.cur = e
    BY <1>1, <1>4, <1>6, <1>7 DEF SetAside, Moves
  <2>2. PICK c \in {Without(card, With(e, "prev")), card} :
          \/ ~Exists(e) /\ card' = c
          \/ card' = Renamed(c, e, With(e, "prev"))
    BY <1>7 DEF SetAside, Removed
  <2>3. ~Exists(e)' BY <1>6, <2>2, RenamedPoint, WithoutPoint DEF Exists
  <2>4. \A q : q # e /\ q # With(e, "prev") /\ Exists(q) => Exists(q)'
    BY <2>2, RenamedPoint, WithoutPoint DEF Exists
  <2>5. \A p \in op'.todo : StagedCopy(p)' BY <1>5, <2>1, <2>4, CopyApart DEF StagedCopy
  <2>6. Ready' BY <2>1, <2>3, <2>5 DEF Ready
  <2> QED BY <1>3, <2>1, <2>6 DEF RefusalInv, TurnsBack, StillThere
<1>8. CASE SetAsideFails(e)
  <2>1. op'.pc = "undo" BY <1>8, EntryLeads
  <2>2. hist'.harm = hist.harm + 1 BY <1>8, HarmAdds DEF SetAsideFails, Harmed
  <2>3. hist'.harm # 0 BY <1>1, <2>2
  <2> QED BY <1>3, <2>1, <2>3 DEF RefusalInv, TurnsBack, StillThere, Ready
<1>9. CASE SwapIn(e)
  <2>1. op'.pc = "commit" /\ op'.todo = op.todo \ {e} /\ op'.cur = None
    BY <1>9, EntryLeads
  <2>2. card' = Renamed(card, With(e, "tmp"), e) BY <1>9 DEF SwapIn
  <2>3. \A q : q # With(e, "tmp") /\ Exists(q) => Exists(q)'
    BY <2>2, RenamedPoint DEF Exists
  <2>4. \A p \in op'.todo : StagedCopy(p)'
    <3>1. \A p \in op'.todo : p # e /\ Entry(p) /\ StagedCopy(p) BY <1>5, <2>1
    <3>2. \A p \in op'.todo : With(p, "tmp") # With(e, "tmp") BY <1>5, <3>1, CopyApart
    <3> QED BY <2>3, <3>1, <3>2 DEF StagedCopy
  <2>5. Ready' BY <2>1, <2>4 DEF Ready
  <2> QED BY <1>3, <2>1, <2>5 DEF RefusalInv, TurnsBack, StillThere
<1>10. CASE SwapFails(e)
  <2>1. op'.pc = "undo" BY <1>10, EntryLeads
  <2>2. op.cur = e BY <1>10 DEF SwapFails
  <2>3. ~Exists(e) BY <1>4, <1>6, <2>2 DEF RefusalInv, Ready
  <2>4. CanRename(card, With(e, "tmp"), e)
    BY <1>5, <2>3 DEF StagedCopy, CanRename, Exists
  <2>5. Fails(1, FALSE) \/ Fails(1 + 1, TRUE) BY <1>10, <2>4 DEF SwapFails, Harmed
  <2>6. hist'.harm # 0
    <3>1. CASE Fails(1, FALSE)
      <4>1. hist'.harm = hist.harm + 1 BY <3>1, HarmAdds
      <4> QED BY <1>1, <4>1
    <3>2. CASE Fails(1 + 1, TRUE)
      <4>1. hist'.harm = hist.harm + (1 + 1) BY <3>2, HarmAdds
      <4> QED BY <1>1, <4>1
    <3> QED BY <2>5, <3>1, <3>2
  <2> QED BY <1>3, <2>1, <2>6 DEF RefusalInv, TurnsBack, StillThere, Ready
<1> QED BY <1>7, <1>8, <1>9, <1>10

(* Cleaning and taking back are entered for good.                          *)
LEMMA BackRefusal ==
  ASSUME RestoreConstants, Types, RefusalInv, NEW e \in op.todo,
         Clean(e) \/ UndoSwap(e) \/ UndoAside(e) \/ UndoOmit(e)
  PROVE  RefusalInv'
<1>1. /\ Moves(e) /\ hist.harm \in Nat /\ hist'.harm \in Nat /\ hist'.harm >= hist.harm
  BY EntryMoves, HarmGrows DEF EntryStep
<1>2. /\ Unmovable' <=> Unmovable
      /\ outcome' = "none"
  BY EntryAsked DEF EntryStep
<1>3. NoFalseRefusal' BY <1>2 DEF NoFalseRefusal
<1>4. op.pc \in {"clean", "drop", "undo", "unomit"} /\ op'.pc = op.pc
  BY <1>1 DEF Clean, UndoSwap, UndoAside, UndoOmit, At, Moves
<1>5. hist'.harm = 0 => hist.harm = 0 BY <1>1
<1>6. TurnsBack' BY <1>2, <1>4, <1>5 DEF RefusalInv, TurnsBack
<1> QED BY <1>3, <1>4, <1>6 DEF RefusalInv, StillThere, Ready

(* The steps between the phases change neither the card nor the question.  *)
LEMMA PhaseRefusal ==
  ASSUME RestoreConstants, Types, RefusalInv,
         Export \/ Staged \/ Prepared \/ Committed \/ Cleaned \/ Undone
  PROVE  RefusalInv'
<1>1. UNCHANGED <<card, older, hist, outcome>> /\ op.pc # "idle"
  BY DEF Export, Staged, Prepared, Committed, Cleaned, Undone, At
<1>2. /\ Unmovable' <=> Unmovable
      /\ \A p : (Exists(p)' <=> Exists(p)) /\ (Was(p)' <=> Was(p))
                /\ (StagedCopy(p)' <=> StagedCopy(p)) /\ (Exempt(p)' <=> Exempt(p))
      /\ outcome' = "none"
  BY <1>1 DEF Unmovable, Exists, Was, StagedCopy, Exempt, Types, Behind
<1>3. NoFalseRefusal' BY <1>2 DEF NoFalseRefusal
<1>4. CASE Export
  <2>1. /\ op.pc = "export" /\ op'.pc = "stage" /\ op'.todo = DOMAIN op.archive
        /\ op'.archive = op.archive
    BY <1>4, GotoFields DEF Export, At, Types
  <2>2. StillThere' BY <1>2, <2>1 DEF RefusalInv, StillThere
  <2> QED BY <1>3, <2>1, <2>2 DEF RefusalInv, TurnsBack, Ready
<1>5. CASE Staged
  <2>1. /\ op.pc = "stage" /\ op.todo = {} /\ op'.pc = "omit" /\ op'.todo = Omitted
        /\ op'.archive = op.archive
    BY <1>5, GotoFields DEF Staged, At, Types
  <2>2. ASSUME NEW p \in Omitted PROVE Exists(p) \/ Exempt(p)
    <3>1. Exists(p) \/ \E f \in DOMAIN older : p = Plain(f)
      BY DEF Omitted, Current, Exists
    <3>2. ASSUME ~Exists(p), NEW f \in DOMAIN older, p = Plain(f) PROVE ~Was(p)
      <4>1. f \in File BY DEF Types, CardType, RestoreConstants
      <4>2. p \in Path /\ Collected(p) BY <3>2, <4>1, PathFacts
      <4> QED BY <2>1, <3>2, <4>2 DEF RefusalInv, StillThere
    <3> QED BY <3>1, <3>2 DEF Exempt
  <2>3. \A p \in DOMAIN op.archive : StagedCopy(p) BY <2>1 DEF RefusalInv, Ready
  <2>4. Ready' BY <1>2, <2>1, <2>2, <2>3 DEF Ready
  <2> QED BY <1>3, <2>1, <2>4 DEF RefusalInv, TurnsBack, StillThere
<1>6. CASE Prepared
  <2>1. /\ op.pc = "omit" /\ op'.pc = "commit" /\ op'.todo = DOMAIN op.archive
        /\ op'.cur = None
    BY <1>6, GotoFields DEF Prepared, At, Types
  <2>2. Ready' BY <1>2, <2>1 DEF RefusalInv, Ready
  <2> QED BY <1>3, <2>1, <2>2 DEF RefusalInv, TurnsBack, StillThere
<1>7. CASE Committed \/ Cleaned
  <2>1. op'.pc \in {"clean", "drop"} BY <1>7, GotoFields DEF Committed, Cleaned, Types
  <2> QED BY <1>3, <2>1 DEF RefusalInv, TurnsBack, StillThere, Ready
<1>8. CASE Undone
  <2>1. op.pc = "undo" /\ op'.pc = "unomit" BY <1>8, GotoFields DEF Undone, At, Types
  <2>2. TurnsBack' BY <1>1, <1>2, <2>1 DEF RefusalInv, TurnsBack
  <2> QED BY <1>3, <2>1, <2>2 DEF RefusalInv, StillThere, Ready
<1> QED BY <1>4, <1>5, <1>6, <1>7, <1>8

(* A restore ends as failed where one of the reasons was met.              *)
LEMMA EndRefusal ==
  ASSUME RestoreConstants, Types, Saved, RefusalInv,
         ExportFails \/ Unstaged \/ Finish \/ TakenBack \/ PowerLoss
  PROVE  RefusalInv'
<1>1. op'.pc = "idle"
  BY IdleFields DEF ExportFails, Unstaged, Finish, TakenBack, PowerLoss, Ends
<1>2. hist.harm \in Nat BY DEF Types, HistType, RestoreConstants
<1>3. CASE ExportFails
  <2>1. op.pc = "export" /\ UNCHANGED <<card, older>> BY <1>3 DEF ExportFails, At
  <2>2. CASE ~CanExport /\ UNCHANGED hist
    <3>1. ~hist.room \/ Cardinality(Current(card)) \notin 1..MaxEntries
      BY <2>2 DEF CanExport
    <3>2. card = hist.before BY <2>1 DEF Saved
    <3>4. Current(hist.before)' = Current(card) BY <2>1, <2>2, <3>2 DEF Current
    <3>3. ~hist'.room \/ Cardinality(Current(hist.before)') \notin 1..MaxEntries
      BY <2>2, <3>1, <3>4
    <3> QED BY <1>1, <3>3 DEF RefusalInv, TurnsBack, StillThere, Ready, NoFalseRefusal
  <2>3. CASE Harmed(1)
    <3>1. hist'.harm = hist.harm + 1 BY <2>3, HarmAdds DEF Harmed
    <3>2. hist'.harm # 0 BY <1>2, <3>1
    <3> QED BY <1>1, <3>2 DEF RefusalInv, TurnsBack, StillThere, Ready, NoFalseRefusal
  <2> QED BY <1>3, <2>2, <2>3 DEF ExportFails
<1>4. CASE Unstaged \/ TakenBack
  <2>1. op.pc \in {"unstage", "unomit"} /\ UNCHANGED <<older, hist>>
    BY <1>4 DEF Unstaged, TakenBack, At
  <2>2. hist.harm = 0 => Unmovable BY <1>2, <2>1 DEF RefusalInv, TurnsBack
  <2>3. hist'.harm = 0 => Unmovable' BY <2>1, <2>2 DEF Unmovable
  <2> QED BY <1>1, <2>3
        DEF RefusalInv, TurnsBack, StillThere, Ready, NoFalseRefusal, Unmovable
<1>5. CASE Finish \/ PowerLoss
  <2>1. outcome' # "failed" BY <1>5 DEF Finish, PowerLoss, Ends
  <2> QED BY <1>1, <2>1 DEF RefusalInv, TurnsBack, StillThere, Ready, NoFalseRefusal
<1> QED BY <1>3, <1>4, <1>5

LEMMA RestRefusal ==
  ASSUME RestoreConstants, Types, RefusalInv,
         \/ \E a \in exports : Begin(a)
         \/ \E f \in File : Read(f)
         \/ UNCHANGED vars
  PROVE  RefusalInv'
<1>1. ASSUME NEW a \in exports, Begin(a) PROVE RefusalInv'
  <2>1. op'.pc = "export" /\ hist'.before = card /\ card' = card /\ outcome' = "none"
    BY <1>1, Begins
  <2>2. StillThere' BY <2>1 DEF StillThere, Exists, Was
  <2> QED BY <2>1, <2>2 DEF RefusalInv, TurnsBack, Ready, NoFalseRefusal
<1>2. CASE \E f \in File : Read(f)
  <2>1. op'.pc = "idle" /\ outcome' = "none" BY <1>2 DEF Read, At
  <2> QED BY <2>1 DEF RefusalInv, TurnsBack, StillThere, Ready, NoFalseRefusal
<1>3. CASE UNCHANGED vars
  <2>1. TurnsBack' /\ NoFalseRefusal'
    BY <1>3 DEF vars, RefusalInv, TurnsBack, NoFalseRefusal, Unmovable, Current
  <2>2. StillThere' BY <1>3 DEF vars, RefusalInv, StillThere, Exists, Was
  <2>3. Ready' BY <1>3 DEF vars, RefusalInv, Ready, StagedCopy, Exempt, Exists, Was
  <2> QED BY <2>1, <2>2, <2>3 DEF RefusalInv
<1> QED BY <1>1, <1>2, <1>3

LEMMA NextRefusal ==
  ASSUME RestoreConstants, Types, Saved, RefusalInv, [Next]_vars
  PROVE  RefusalInv'
<1>1. ASSUME NEW e \in op.todo, EntryStep(e) PROVE RefusalInv'
  BY <1>1, StagingRefusal, OmitRefusal, CommitRefusal, BackRefusal DEF EntryStep
<1> QED BY <1>1, PhaseRefusal, EndRefusal, RestRefusal DEF Next, EntryStep

(* NoFalseRefusal: while no call of the card fails, a restore is refused   *)
(* only for a limit of the export it begins with, or for a file that       *)
(* exists in the older directory alone and that the archive omits.         *)
THEOREM RefusedForAReason == Spec => []NoFalseRefusal
<1>1. Init => Types /\ Saved /\ RefusalInv
  <2>1. Init => op.pc = "idle" /\ outcome = "none" BY IdleFields DEF Init
  <2>2. Init => Saved BY <2>1 DEF Saved
  <2>3. Init => RefusalInv
    BY <2>1 DEF RefusalInv, TurnsBack, StillThere, Ready, NoFalseRefusal
  <2> QED BY <2>2, <2>3, InitTypes, RestoreConstants
<1>2. Types /\ Saved /\ RefusalInv /\ [Next]_vars => Types' /\ Saved' /\ RefusalInv'
  BY NextTypes, SavedNext, NextRefusal, RestoreConstants
<1>3. RefusalInv => NoFalseRefusal BY DEF RefusalInv
<1> QED BY <1>1, <1>2, <1>3, PTL DEF Spec

=============================================================================
