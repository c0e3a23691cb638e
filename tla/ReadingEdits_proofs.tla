-------------------------- MODULE ReadingEdits_proofs --------------------------
(***************************************************************************)
(* Proofs about ReadingEdits for any books, days, ledgers of other readers *)
(* and number of faults: its types, and all that it promises of time and   *)
(* completions, with what they need of sums and counts over finite sets.   *)
(***************************************************************************)
EXTENDS ReadingEdits, FiniteSetTheorems, WellFoundedInduction, TLAPS

(* The lists of writes an operation can still have before it.              *)
Saves == {<<>>, <<"done">>, <<"totals", "done">>, <<"book", "totals", "done">>,
          <<"book">>, <<"totals">>, <<"book", "totals">>, <<"ledger">>,
          <<"time", "ledger">>, <<"totals", "time", "ledger">>,
          <<"book", "totals", "time", "ledger">>}

Corrects == {<<>>, <<"ledger">>, <<"totals", "ledger">>, <<"book", "totals", "ledger">>,
             <<"time", "book", "totals", "ledger">>}

Undos == {<<>>, <<"totals">>, <<"book">>, <<"book", "totals">>, <<"time">>,
          <<"time", "book">>, <<"time", "book", "totals">>}

Op == [kind : {"save", "correct", "undo"}, todo : Saves \cup Corrects \cup Undos,
       book : Book, day : Day, st : Stats, gl : Totals, time : Int,
       count : {-1, 0, 1}, was : [st : Stats, gl : Totals, time : Nat],
       failed : Nat, next : {"stay", "close", "show"}]

(* An operation and the screens it was started from.                       *)
OpOK ==
  /\ op.failed <= faults
  /\ op.kind = "save" => op.todo \in Saves
  /\ op.kind = "correct" => op.todo \in Corrects
  /\ op.kind = "undo" => op.todo \in Undos /\ op.failed > 0
  /\ op.kind # "save" => op.next = "stay" /\ sc # Hidden
  /\ op.next # "stay" => rd # Closed

FilesOK ==
  /\ book \in [Book -> Stats] /\ totals \in Totals
  /\ journal \in [secs : [Day -> Nat], done : Nat]
  /\ ledger \in [Day -> [Book -> Int]]

ScreensOK ==
  /\ rd \in Reader \cup {Closed} /\ sc \in Screen \cup {Hidden}
  /\ due \in [Day -> [Book -> Int]]
  /\ over \subseteq {"unloaded", "asleep", "epub", "lost", "merged", "ignored"}
  /\ faults \in 0..MaxFaults

OpInv ==
  /\ op \in Op \cup {Idle}
  /\ ~Free => OpOK

TypeInv == FilesOK /\ ScreensOK /\ OpInv

-----------------------------------------------------------------------------
LEMMA Lists ==
  /\ Saves \cup Corrects \cup Undos \subseteq Seq(Target)
  /\ \A l \in Saves : l # <<>> => Tail(l) \in Saves
  /\ \A l \in Corrects : l # <<>> => Tail(l) \in Corrects
  /\ \A l \in Undos : l # <<>> => Tail(l) \in Undos
  /\ \A l \in Saves \cup Corrects \cup Undos : l # <<>> => Head(l) \in Target
BY DEF Saves, Corrects, Undos, Target

LEMMA Values ==
  /\ Blank \in Stats /\ Zero \in Totals
  /\ \A n, by \in Int : Shifted(n, by) \in Nat
  /\ \A gl \in Totals, d \in BOOLEAN : Counted(gl, d) \in Totals
  /\ \A d \in BOOLEAN : Count(d) \in {-1, 0, 1}
  /\ 0 \in {-1, 0, 1} /\ 0 \in Nat /\ 0 \in Int
<1>1. \A n, by \in Int : Shifted(n, by) \in Nat BY DEF Shifted
<1>2. \A d \in BOOLEAN : Count(d) \in {-1, 0, 1} BY DEF Count
<1>3. ASSUME NEW gl \in Totals, NEW d \in BOOLEAN PROVE Counted(gl, d) \in Totals
  BY <1>1, <1>2 DEF Counted, Totals
<1> QED BY <1>1, <1>2, <1>3 DEF Blank, Zero, Stats, Totals

LEMMA Kinds ==
  /\ \A o \in Op : o # Idle
  /\ \A r \in Reader : r # Closed
  /\ \A s \in Screen : s # Hidden
BY EditsAssumption DEF Op, Idle, Reader, Closed, Screen, Hidden

(* A fresh operation has the type of one, whatever fields it is given.     *)
LEMMA TaskOK == ASSUME NEW b \in Book PROVE Task(b) \in Op
<1>1. <<>> \in Saves BY DEF Saves
<1> QED BY <1>1, Values, EditsAssumption DEF Task, Op

LEMMA WrittenOK ==
  ASSUME FilesOK, op \in Op, NEW w \in Target, Written(w)
  PROVE  FilesOK'
<1> USE DEF FilesOK, Op
<1>1. book' \in [Book -> Stats] BY DEF Written
<1>2. totals' \in Totals BY DEF Written
<1>3. journal' \in [secs : [Day -> Nat], done : Nat]
  <2>1. CASE w = "time"
    <3>1. journal.secs[op.day] \in Int /\ op.time \in Int OBVIOUS
    <3> HIDE DEF FilesOK, Op
    <3>2. Shifted(journal.secs[op.day], op.time) \in Nat BY <3>1, Values
    <3> QED BY <2>1, <3>2 DEF Written, FilesOK, Op
  <2>2. CASE w = "done"
    <3>1. journal.done \in Int /\ op.count \in Int OBVIOUS
    <3> HIDE DEF FilesOK, Op
    <3>2. Shifted(journal.done, op.count) \in Nat BY <3>1, Values
    <3> QED BY <2>2, <3>2 DEF Written, FilesOK
  <2>3. CASE w \notin {"time", "done"} BY <2>3 DEF Written
  <2> QED BY <2>1, <2>2, <2>3
<1>4. ledger' \in [Day -> [Book -> Int]] BY DEF Written
<1> QED BY <1>1, <1>2, <1>3, <1>4

-----------------------------------------------------------------------------
LEMMA UnwrittenOK ==
  ASSUME FilesOK, op \in Op, op.todo # <<>>, Unwritten
  PROVE  FilesOK'
<1>1. CASE UNCHANGED files BY <1>1 DEF files, FilesOK
<1>2. CASE Torn
  <2>1. book' \in [Book -> Stats] BY <1>2, Values DEF Torn, FilesOK
  <2> QED BY <1>2, <2>1 DEF Torn, FilesOK
<1>3. CASE Written("ledger")
  <2>1. "ledger" \in Target BY DEF Target
  <2> QED BY <1>3, <2>1, WrittenOK
<1> QED BY <1>1, <1>2, <1>3 DEF Unwritten

(* What an operation that has just been started needs.                     *)
LEMMA StartOK ==
  ASSUME faults' \in Nat, NEW o \in Op, op' = o, o.failed = 0,
         \/ o.kind = "save" /\ o.todo \in Saves /\ (o.next # "stay" => rd' # Closed)
         \/ o.kind = "correct" /\ o.todo \in Corrects /\ o.next = "stay" /\ sc' # Hidden
  PROVE  OpInv'
BY DEF OpInv, OpOK, Free

LEMMA IdleOK == ASSUME op' = Idle PROVE OpInv'
BY DEF OpInv, Free

LEMMA UndoOK ==
  ASSUME op \in Op, NEW todo \in Undos
  PROVE  Undo(todo) \in Op /\ Undo(todo).kind = "undo" /\ Undo(todo).todo = todo
         /\ Undo(todo).failed = op.failed + 1 /\ Undo(todo).next = op.next
<1>1. op.was.st \in Stats /\ op.was.gl \in Totals /\ op.time \in Int /\ op.failed \in Nat
  BY DEF Op
<1>2. -op.time \in Int /\ op.failed + 1 \in Nat BY <1>1
<1>3. todo \in Saves \cup Corrects \cup Undos OBVIOUS
<1>4. \A t \in Int, n \in Nat :
        [op EXCEPT !.kind = "undo", !.todo = todo, !.time = t, !.st = op.was.st,
                   !.gl = op.was.gl, !.failed = n] \in Op
  BY <1>1, <1>3 DEF Op
<1>5. Undo(todo) \in Op BY <1>2, <1>4 DEF Undo
<1> QED BY <1>5 DEF Undo, Op

LEMMA LaterOK ==
  ASSUME op \in Op, NEW todo \in Saves \cup Corrects \cup Undos
  PROVE  LET o == [op EXCEPT !.todo = todo, !.failed = @ + 1] IN
         /\ o \in Op /\ o.todo = todo /\ o.failed = op.failed + 1
         /\ o.kind = op.kind /\ o.next = op.next
<1>1. op.failed \in Nat /\ op.failed + 1 \in Nat BY DEF Op
<1>2. \A n \in Nat : [op EXCEPT !.todo = todo, !.failed = n] \in Op
  BY <1>1 DEF Op
<1> QED BY <1>1, <1>2 DEF Op

LEMMA TakeBackOK == \A w : TakeBack(w) \in Undos
BY DEF TakeBack, Undos

LEMMA WriteType ==
  ASSUME TypeInv, Write
  PROVE  TypeInv'
<1> USE DEF TypeInv
<1>1. op \in Op /\ op.todo # <<>> BY DEF Write, OpInv, Free
<1>2. Head(op.todo) \in Target BY <1>1, Lists DEF Op
<1>3. FilesOK' BY <1>1, <1>2, WrittenOK DEF Write
<1>4. ScreensOK' BY DEF Write, ScreensOK
<1>5. OpInv'
  <2>1. op' = [op EXCEPT !.todo = Tail(op.todo)] /\ OpOK BY DEF Write, OpInv
  <2>2. op' \in Op /\ op'.todo = Tail(op.todo)
    BY <1>1, <2>1, Lists DEF Op
  <2>3. op'.failed = op.failed /\ op'.kind = op.kind /\ op'.next = op.next
    BY <1>1, <2>1 DEF Op
  <2>4. UNCHANGED <<rd, sc, faults>> BY DEF Write
  <2> QED BY <1>1, <2>1, <2>2, <2>3, <2>4, Lists DEF OpInv, OpOK
<1> QED BY <1>3, <1>4, <1>5

LEMMA FaultType ==
  ASSUME TypeInv, WriteFails \/ JournalUnreadable \/ PowerLoss
  PROVE  TypeInv'
<1> USE DEF TypeInv
<1>0. faults \in Nat /\ MaxFaults \in Nat /\ faults' = faults + 1 /\ faults < MaxFaults
  BY EditsAssumption DEF ScreensOK, WriteFails, JournalUnreadable, PowerLoss
<1>1. CASE WriteFails
  <2>1. op \in Op /\ op.todo # <<>> /\ OpOK BY <1>1 DEF WriteFails, OpInv, Free
  <2>2. FilesOK' BY <1>1, <2>1, UnwrittenOK DEF WriteFails
  <2>3. ScreensOK' BY <1>0, <1>1 DEF WriteFails, ScreensOK
  <2>4. UNCHANGED <<rd, sc>> BY <1>1 DEF WriteFails
  <2>5. CASE op.kind = "correct" /\ op' = Undo(TakeBack(Head(op.todo)))
    <3>1. TakeBack(Head(op.todo)) \in Undos BY TakeBackOK
    <3>2. op' \in Op /\ op'.kind = "undo" /\ op'.todo \in Undos
          /\ op'.failed = op.failed + 1 /\ op'.next = op.next
      BY <2>1, <2>5, <3>1, UndoOK
    <3>3. OpInv' BY <1>0, <2>1, <2>4, <2>5, <3>2 DEF OpInv, OpOK, Op
    <3> QED BY <2>2, <2>3, <3>3
  <2>6. CASE op' = [op EXCEPT !.todo = Tail(@), !.failed = @ + 1]
    <3>1. op' \in Op /\ op'.todo = Tail(op.todo) /\ op'.failed = op.failed + 1
          /\ op'.kind = op.kind /\ op'.next = op.next
      BY <2>1, <2>6, LaterOK, Lists DEF Op
    <3>2. OpInv' BY <1>0, <2>1, <2>4, <3>1, Lists DEF OpInv, OpOK, Op
    <3> QED BY <2>2, <2>3, <3>2
  <2> QED BY <1>1, <2>5, <2>6 DEF WriteFails
<1>2. CASE JournalUnreadable
  <2>1. op \in Op /\ op.kind = "correct" /\ OpOK
    BY <1>2 DEF JournalUnreadable, OpInv, Free
  <2>2. FilesOK' BY <1>2 DEF JournalUnreadable, FilesOK
  <2>3. ScreensOK' BY <1>0, <1>2 DEF JournalUnreadable, ScreensOK
  <2>4. <<"time">> \in Undos BY DEF Undos
  <2>5. op' \in Op /\ op'.kind = "undo" /\ op'.todo \in Undos
        /\ op'.failed = op.failed + 1 /\ op'.next = op.next
    BY <1>2, <2>1, <2>4, UndoOK DEF JournalUnreadable
  <2>6. UNCHANGED <<rd, sc>> BY <1>2 DEF JournalUnreadable
  <2>7. OpInv' BY <1>0, <2>1, <2>5, <2>6 DEF OpInv, OpOK, Op
  <2> QED BY <2>2, <2>3, <2>7
<1>3. CASE PowerLoss
  <2>1. FilesOK'
    <3>1. CASE UNCHANGED files BY <3>1 DEF files, FilesOK
    <3>2. CASE ~Free /\ Torn
      <4>1. op \in Op BY <3>2 DEF OpInv, Free
      <4>2. book' \in [Book -> Stats] BY <3>2, <4>1, Values DEF Torn, FilesOK
      <4> QED BY <3>2, <4>2 DEF Torn, FilesOK
    <3> QED BY <1>3, <3>1, <3>2 DEF PowerLoss
  <2>2. ScreensOK' BY <1>0, <1>3 DEF PowerLoss, ScreensOK
  <2>3. OpInv' BY <1>3, IdleOK DEF PowerLoss
  <2> QED BY <2>1, <2>2, <2>3
<1> QED BY <1>1, <1>2, <1>3
-----------------------------------------------------------------------------
LEMMA LoadedOK ==
  ASSUME FilesOK, NEW r \in Reader
  PROVE  /\ Loaded(r) \in Reader /\ Loaded(r).loaded
         /\ Loaded(r).book = r.book /\ Loaded(r).ses = r.ses
         /\ Loaded(r).committed = r.committed
<1>1. r.book \in Book /\ book[r.book] \in Stats /\ totals \in Totals
  BY DEF Reader, FilesOK
<1>2. [r EXCEPT !.loaded = TRUE, !.st = book[r.book], !.gl = totals] \in Reader
  BY <1>1 DEF Reader
<1> QED BY <1>2 DEF Loaded, Reader

LEMMA RecordedOK ==
  ASSUME NEW r \in Reader
  PROVE  /\ Recorded(r) \in Reader /\ Recorded(r).book = r.book
         /\ Recorded(r).ses = r.ses /\ Recorded(r).committed
<1>1. r.st.secs + r.ses \in Nat /\ r.gl.secs + r.ses \in Nat
  BY DEF Reader, Stats, Totals
<1>2. \A m, n \in Nat : [r EXCEPT !.st.secs = m, !.gl.secs = n, !.committed = TRUE] \in Reader
  BY DEF Reader, Stats, Totals
<1>3. Recorded(r) \in Reader BY <1>1, <1>2 DEF Recorded
<1> QED BY <1>3 DEF Recorded, Reader

LEMMA OverwritesOK ==
  \A st, b, gl : Overwrites(st, b, gl) \subseteq {"unloaded", "asleep", "epub", "lost"}
BY DEF Overwrites

LEMMA UnequalOK == \A b, m : Unequal(b, m) \subseteq {"merged", "ignored"}
BY DEF Unequal

LEMMA CountsOK ==
  ASSUME NEW d \in BOOLEAN, NEW why
  PROVE  /\ Counts(d, why) \subseteq {-1, 0, 1}
         /\ why \cap {"merged", "ignored"} = {} => Counts(d, why) = {Count(d)}
BY Values DEF Counts

(* An edit of a date starts no operation or one that counts in the journal.*)
DateCounted == [Task(sc.page) EXCEPT !.todo = <<"done">>, !.count = 1]

LEMMA DateEdited ==
  ASSUME TypeInv, EditDate
  PROVE  /\ sc \in Screen /\ sc' \in Screen /\ Free /\ op = Idle
         /\ sc'.page = sc.page /\ sc'.from = sc.from /\ sc'.local = sc.local
         /\ sc'.done = sc.done /\ sc'.gl = sc.gl /\ sc'.seen = sc.seen
         /\ sc'.live = sc.live /\ sc'.changed
         /\ \/ op' = Idle
            \/ /\ op' = DateCounted /\ op' \in Op /\ op'.kind = "save"
               /\ op'.todo = <<"done">> /\ op'.failed = 0 /\ op'.next = "stay"
               /\ op'.count = 1 /\ op'.book = sc.page
               /\ over' \cap {"merged", "ignored"} # {}
<1>1. sc \in Screen /\ Free /\ op = Idle
  BY DEF EditDate, Browsing, OnScreen, Free, TypeInv, ScreensOK
<1>2. sc.page \in Book /\ sc.done \in BOOLEAN /\ sc.foreign \in BOOLEAN BY <1>1 DEF Screen
<1>3. PICK finish \in {FALSE, sc.done} :
       /\ sc' = [sc EXCEPT !.changed = TRUE, !.foreign = sc.foreign /\ ~finish]
       /\ \/ UNCHANGED op
          \/ op' = DateCounted /\ over' \cap {"merged", "ignored"} # {}
  BY DEF EditDate, DateCounted
<1>4. (sc.foreign /\ ~finish) \in BOOLEAN BY <1>2
<1>5. sc' \in Screen BY <1>1, <1>3, <1>4 DEF Screen
<1>6. <<"done">> \in Saves BY DEF Saves
<1>7. op' = DateCounted =>
        /\ op' \in Op /\ op'.kind = "save" /\ op'.todo = <<"done">> /\ op'.failed = 0
        /\ op'.next = "stay" /\ op'.count = 1 /\ op'.book = sc.page
  BY <1>2, <1>6, TaskOK DEF DateCounted, Op, Task
<1> QED BY <1>1, <1>3, <1>5, <1>7 DEF Screen

(* What an action that starts an operation or none leaves of the types.    *)
LEMMA CommitType ==
  ASSUME TypeInv, NEW r \in Reader, NEW next \in {"close", "show"}, Commit(r, next)
  PROVE  TypeInv'
<1> USE DEF TypeInv
<1>1. rd' \in Reader /\ rd'.book = r.book BY RecordedOK DEF Commit
<1>2. FilesOK' BY DEF Commit, FilesOK
<1>3. over' \subseteq {"unloaded", "asleep", "epub", "lost", "merged", "ignored"}
  BY OverwritesOK DEF Commit, ScreensOK
<1>4. ScreensOK' BY <1>1, <1>3 DEF Commit, ScreensOK
<1>5. OpInv'
  <2>1. /\ r.book \in Book /\ r.ses \in Nat /\ r.ses \in Int
        /\ rd'.st \in Stats /\ rd'.gl \in Totals /\ next \in {"stay", "close", "show"}
    BY <1>1 DEF Reader
  <2> DEFINE todo == IF r.ses > 0 THEN <<"book", "totals", "time", "ledger">>
                     ELSE <<"book", "totals">>
  <2>2. todo \in Saves BY DEF Saves
  <2>3. op' = [Task(r.book) EXCEPT !.st = rd'.st, !.gl = rd'.gl, !.time = r.ses,
                                   !.next = next, !.todo = todo]
    BY DEF Commit
  <2> HIDE DEF todo
  <2>4. op' \in Op /\ op'.kind = "save" /\ op'.todo \in Saves /\ op'.failed = 0
    BY <2>1, <2>2, <2>3, TaskOK DEF Op, Task
  <2>5. rd' # Closed BY <1>1, Kinds
  <2>6. faults' \in Nat BY EditsAssumption DEF ScreensOK, Commit
  <2> QED BY <2>4, <2>5, <2>6, StartOK
<1> QED BY <1>2, <1>4, <1>5

LEMMA ReaderType ==
  ASSUME TypeInv,
         \/ \E b \in Book : Open(b)
         \/ FirstPageDrawn \/ Read \/ ToggleCompleted \/ ToggleIgnored \/ SaveBook
         \/ Leave \/ ShowAfterReading
  PROVE  TypeInv'
<1> USE DEF TypeInv
<1>0. faults \in Nat BY EditsAssumption DEF ScreensOK
<1>1. ASSUME NEW b \in Book, Open(b) PROVE TypeInv'
  <2>1. rd' \in Reader
    BY <1>1, Values DEF Open, Reader, FilesOK
  <2>2. FilesOK' BY <1>1 DEF Open, FilesOK
  <2>3. ScreensOK' BY <1>1, <2>1 DEF Open, ScreensOK
  <2>4. OpInv' BY <1>1, IdleOK DEF Open, AtHome, Free
  <2> QED BY <2>2, <2>3, <2>4
<1>2. CASE FirstPageDrawn
  <2>1. rd' \in Reader BY <1>2, LoadedOK DEF FirstPageDrawn, Reading, ScreensOK
  <2>2. FilesOK' BY <1>2 DEF FirstPageDrawn, FilesOK
  <2>3. ScreensOK' BY <1>2, <2>1 DEF FirstPageDrawn, ScreensOK
  <2>4. OpInv' BY <1>2, IdleOK DEF FirstPageDrawn, Reading, Free
  <2> QED BY <2>2, <2>3, <2>4
<1>3. CASE Read
  <2>1. rd \in Reader BY <1>3 DEF Read, Reading, ScreensOK
  <2>2. rd.ses + 1 \in Nat BY <2>1 DEF Reader
  <2>3. rd' \in Reader BY <1>3, <2>1, <2>2 DEF Read, Reader
  <2>4. due[Today][rd.book] + 1 \in Int
    BY <2>1, EditsAssumption DEF ScreensOK, Reader
  <2>5. due' \in [Day -> [Book -> Int]] BY <1>3, <2>4 DEF Read, ScreensOK
  <2>6. FilesOK' BY <1>3 DEF Read, FilesOK
  <2>7. ScreensOK' BY <1>3, <2>3, <2>5 DEF Read, ScreensOK
  <2>8. OpInv' BY <1>3, IdleOK DEF Read, Reading, Free
  <2> QED BY <2>6, <2>7, <2>8
<1>4. CASE ToggleCompleted
  <2> DEFINE done == ~rd.st.done
  <2>1. rd \in Reader BY <1>4 DEF ToggleCompleted, Reading, ScreensOK
  <2>2. rd.st \in Stats /\ rd.gl \in Totals /\ rd.book \in Book /\ done \in BOOLEAN
    BY <2>1 DEF Reader, Stats
  <2>4. PICK n \in Counts(done, over) :
          /\ rd' = [rd EXCEPT !.st.done = done, !.gl = Counted(@, done)]
          /\ op' = [Task(rd.book) EXCEPT !.todo = <<"book", "totals", "done">>,
                     !.st = rd'.st, !.gl = rd'.gl, !.count = n]
    BY <1>4 DEF ToggleCompleted
  <2>3. Counted(rd.gl, done) \in Totals /\ n \in {-1, 0, 1} BY <2>2, Values, CountsOK
  <2> HIDE DEF done
  <2>5. rd' \in Reader BY <2>1, <2>2, <2>3, <2>4 DEF Reader, Stats
  <2>6. rd'.st \in Stats /\ rd'.gl \in Totals BY <2>5 DEF Reader
  <2>7. <<"book", "totals", "done">> \in Saves BY DEF Saves
  <2>8. op' \in Op /\ op'.kind = "save" /\ op'.todo \in Saves /\ op'.failed = 0
        /\ op'.next = "stay"
    BY <2>2, <2>3, <2>4, <2>6, <2>7, TaskOK DEF Op, Task
  <2>9. OpInv' BY <1>0, <1>4, <2>8, StartOK DEF ToggleCompleted
  <2>10. FilesOK' BY <1>4 DEF ToggleCompleted, FilesOK
  <2>11. ScreensOK' BY <1>4, <2>5, OverwritesOK DEF ToggleCompleted, ScreensOK
  <2> QED BY <2>9, <2>10, <2>11
<1>8. CASE ToggleIgnored
  <2>1. rd \in Reader BY <1>8 DEF ToggleIgnored, Reading, ScreensOK
  <2>2. rd.st.done \in BOOLEAN /\ rd.book \in Book BY <2>1 DEF Reader, Stats
  <2>3. (~rd.st.done) \in BOOLEAN BY <2>2
  <2>4. \A x \in BOOLEAN : [rd EXCEPT !.st.done = x] \in Reader
    BY <2>1 DEF Reader, Stats
  <2>5. rd' \in Reader BY <1>8, <2>3, <2>4 DEF ToggleIgnored
  <2>6. <<"book">> \in Saves /\ rd'.st \in Stats BY <2>5 DEF Saves, Reader
  <2>7. op' \in Op /\ op'.kind = "save" /\ op'.todo \in Saves /\ op'.failed = 0
        /\ op'.next = "stay"
    BY <1>8, <2>2, <2>6, TaskOK DEF ToggleIgnored, Op, Task
  <2>8. OpInv' BY <1>0, <1>8, <2>7, StartOK DEF ToggleIgnored
  <2>9. FilesOK' BY <1>8 DEF ToggleIgnored, FilesOK
  <2>10. ScreensOK' BY <1>8, <2>5, OverwritesOK DEF ToggleIgnored, ScreensOK
  <2> QED BY <2>8, <2>9, <2>10
<1>5. CASE SaveBook
  <2>1. rd \in Reader BY <1>5 DEF SaveBook, Reading, ScreensOK
  <2>2. rd.st \in Stats /\ rd.book \in Book BY <2>1 DEF Reader
  <2>3. <<"book">> \in Saves BY DEF Saves
  <2>4. op' \in Op /\ op'.kind = "save" /\ op'.todo \in Saves /\ op'.failed = 0
        /\ op'.next = "stay"
    BY <1>5, <2>2, <2>3, TaskOK DEF SaveBook, Op, Task
  <2>5. OpInv' BY <1>0, <1>5, <2>4, StartOK DEF SaveBook
  <2>6. FilesOK' BY <1>5 DEF SaveBook, FilesOK
  <2>7. ScreensOK' BY <1>5, OverwritesOK DEF SaveBook, ScreensOK
  <2> QED BY <2>5, <2>6, <2>7
<1>6. CASE Leave
  <2>1. rd \in Reader BY <1>6 DEF Leave, ScreensOK
  <2>2. CASE Commit(Loaded(rd), "close") BY <2>1, <2>2, LoadedOK, CommitType
  <2>3. CASE rd' = Closed /\ sc' = Hidden
             /\ UNCHANGED <<book, totals, journal, ledger, op, due, over, faults>>
    <3>1. FilesOK' BY <2>3 DEF FilesOK
    <3>2. ScreensOK' BY <2>3 DEF ScreensOK
    <3>3. OpInv' BY <1>6, <2>3, IdleOK DEF Leave, Free
    <3> QED BY <3>1, <3>2, <3>3
  <2> QED BY <1>6, <2>2, <2>3 DEF Leave
<1>7. CASE ShowAfterReading
  <2>1. rd \in Reader BY <1>7 DEF ShowAfterReading, Reading, ScreensOK
  <2> QED BY <1>7, <2>1, LoadedOK, CommitType DEF ShowAfterReading
<1> QED BY <1>1, <1>2, <1>3, <1>4, <1>5, <1>6, <1>7, <1>8
-----------------------------------------------------------------------------
LEMMA ShownOK ==
  ASSUME FilesOK, NEW b \in Book, NEW gl \in Totals, NEW live \in Nat,
         NEW from \in {"reader", "after", "home"},
         from = "reader" => rd \in Reader
  PROVE  Shown(b, from, gl, live) \in Screen
<1>1. book[b] \in Stats /\ book[b].done \in BOOLEAN BY DEF FilesOK, Stats
<1>2. from = "reader" => rd.st.done \in BOOLEAN BY DEF Reader, Stats
<1>3. \A x \in BOOLEAN : Merged(b, x) \in BOOLEAN BY DEF Merged
<1>4. (IF from = "reader" /\ b \notin Ignored THEN rd.st.done ELSE book[b].done) \in BOOLEAN
  BY <1>1, <1>2
<1>5. Merged(b, IF from = "reader" /\ b \notin Ignored THEN rd.st.done ELSE book[b].done)
        \in BOOLEAN
  BY <1>3, <1>4
<1>6. (b \in PeersDated) \in BOOLEAN OBVIOUS
<1> QED BY <1>1, <1>5, <1>6 DEF Shown, Screen

LEMMA OnDayOK ==
  ASSUME FilesOK, sc \in Screen, NEW d \in Day, NEW b \in Book
  PROVE  OnDay(d, b) \in Nat
<1>1. ledger[d][b] \in Int /\ Peers[d][b] \in Int
  BY EditsAssumption DEF FilesOK
<1>2. Shifted(ledger[d][b], Peers[d][b]) \in Nat BY <1>1, Values
<1>3. sc.live \in Nat BY DEF Screen
<1> QED BY <1>2, <1>3 DEF OnDay

(* A correction stays within what the files have.                          *)
LEMMA CorrectionOK ==
  ASSUME FilesOK, sc \in Screen, NEW d \in Day, NEW b \in Book,
         NEW by \in Corrections(d, b)
  PROVE  /\ by \in Int /\ by # 0 /\ OnDay(d, b) + by >= 0
         /\ book[b].secs + by \in Nat /\ sc.gl.secs + by \in Nat
<1>1. OnDay(d, b) \in Nat BY OnDayOK
<1>2. book[b].secs \in Nat /\ sc.gl.secs \in Nat BY DEF FilesOK, Screen, Stats, Totals
<1>3. /\ Removable(d, b) \in Nat /\ Removable(d, b) <= OnDay(d, b)
      /\ Removable(d, b) <= book[b].secs /\ Removable(d, b) <= sc.gl.secs
  BY <1>1, <1>2 DEF Removable, Least
<1>4. by \in -Removable(d, b) .. 1 /\ by # 0 BY DEF Corrections
<1>5. by \in Int /\ by >= -Removable(d, b) BY <1>3, <1>4
<1> QED BY <1>1, <1>2, <1>3, <1>4, <1>5

LEMMA ScreenType ==
  ASSUME TypeInv,
         \/ OpenStats \/ EditCompletion \/ EditDate \/ SaveStats
         \/ Return \/ CloseHomeStats
         \/ \E b \in Book : OpenHomeStats(b) \/ OpenOther(b) \/ BrowserToggle(b)
  PROVE  TypeInv'
<1> USE DEF TypeInv
<1>0. faults \in Nat BY EditsAssumption DEF ScreensOK
<1>1. CASE OpenStats
  <2>1. rd \in Reader /\ rd.book \in Book /\ rd.gl \in Totals /\ rd.ses \in Nat
    BY <1>1 DEF OpenStats, Reading, ScreensOK, Reader
  <2>2. sc' \in Screen BY <1>1, <2>1, ShownOK DEF OpenStats
  <2>3. FilesOK' BY <1>1 DEF OpenStats, FilesOK
  <2>4. ScreensOK' BY <1>1, <2>2 DEF OpenStats, ScreensOK
  <2>5. OpInv' BY <1>1, IdleOK DEF OpenStats, Reading, Free
  <2> QED BY <2>3, <2>4, <2>5
<1>2. CASE EditCompletion
  <2>1. sc \in Screen BY <1>2 DEF EditCompletion, Browsing, OnScreen, ScreensOK
  <2>2. sc.page \in Book /\ sc.done \in BOOLEAN /\ sc.gl \in Totals BY <2>1 DEF Screen
  <2>3. (~sc.done) \in BOOLEAN
    <3>1. \A x \in BOOLEAN : (~x) \in BOOLEAN OBVIOUS
    <3> QED BY <2>2, <3>1
  <2>12. PICK n \in Counts(~sc.done, over') :
           op' = [Task(sc.page) EXCEPT !.todo = <<"done">>, !.count = n]
    BY <1>2 DEF EditCompletion
  <2>4. Counted(sc.gl, ~sc.done) \in Totals /\ n \in {-1, 0, 1}
    BY <2>2, <2>3, Values, CountsOK
  <2>5. sc' = [sc EXCEPT !.done = ~sc.done, !.foreign = FALSE,
                         !.gl = Counted(sc.gl, ~sc.done), !.changed = TRUE]
    BY <1>2 DEF EditCompletion
  <2>6. sc' \in Screen BY <2>1, <2>3, <2>4, <2>5 DEF Screen
  <2>7. <<"done">> \in Saves BY DEF Saves
  <2>8. op' \in Op /\ op'.kind = "save" /\ op'.todo \in Saves /\ op'.failed = 0
        /\ op'.next = "stay"
    BY <2>2, <2>4, <2>7, <2>12, TaskOK DEF Op, Task
  <2>9. OpInv' BY <1>0, <1>2, <2>8, StartOK DEF EditCompletion
  <2>10. FilesOK' BY <1>2 DEF EditCompletion, FilesOK
  <2>11. ScreensOK' BY <1>2, <2>6, UnequalOK DEF EditCompletion, ScreensOK
  <2> QED BY <2>9, <2>10, <2>11
<1>3. CASE EditDate
  <2>2. sc' \in Screen BY <1>3, DateEdited
  <2>3. FilesOK' BY <1>3 DEF EditDate, FilesOK
  <2>4. ScreensOK' BY <1>3, <2>2, UnequalOK DEF EditDate, ScreensOK
  <2>5. <<"done">> \in Saves /\ UNCHANGED faults BY <1>3 DEF Saves, EditDate
  <2>6. OpInv' BY <1>0, <1>3, <2>5, DateEdited, IdleOK, StartOK
  <2> QED BY <2>3, <2>4, <2>6
<1>4. CASE SaveStats
  <2>1. sc \in Screen BY <1>4 DEF SaveStats, Browsing, OnScreen, ScreensOK
  <2>2. sc.page \in Book /\ sc.done \in BOOLEAN /\ sc.gl \in Totals /\ sc.local \in Stats
    BY <2>1 DEF Screen
  <2>3. [sc.local EXCEPT !.done = sc.done] \in Stats BY <2>2 DEF Stats
  <2>4. sc' \in Screen BY <1>4, <2>1, <2>2, <2>3 DEF SaveStats, Screen
  <2>5. sc'.local \in Stats BY <2>4 DEF Screen
  <2>6. <<"book", "totals">> \in Saves BY DEF Saves
  <2>7. op' \in Op /\ op'.kind = "save" /\ op'.todo \in Saves /\ op'.failed = 0
        /\ op'.next = "stay"
    BY <1>4, <2>2, <2>5, <2>6, TaskOK DEF SaveStats, Op, Task
  <2>8. OpInv' BY <1>0, <1>4, <2>7, StartOK DEF SaveStats
  <2>9. FilesOK' BY <1>4 DEF SaveStats, FilesOK
  <2>10. ScreensOK' BY <1>4, <2>4, OverwritesOK DEF SaveStats, ScreensOK
  <2> QED BY <2>8, <2>9, <2>10
<1>5. CASE Return
  <2>1. FilesOK' BY <1>5 DEF Return, FilesOK
  <2>2. rd' \in Reader \cup {Closed}
    <3>1. CASE rd = Closed
      <4>1. CASE Format[rd.book] = "epub"
        <5>1. rd' = Imported(rd) BY <1>5, <4>1 DEF Return
        <5> QED BY <5>1, <3>1 DEF Imported, Closed
      <4>2. CASE Format[rd.book] # "epub"
        <5>1. rd' = Reloaded(rd) BY <1>5, <4>2 DEF Return
        <5> QED BY <5>1, <3>1 DEF Reloaded, Closed
      <4> QED BY <4>1, <4>2
    <3>2. CASE rd \in Reader
      <4>1. rd.book \in Book /\ rd.st \in Stats /\ rd.gl \in Totals BY <3>2 DEF Reader
      <4>2. /\ book[rd.book] \in Stats /\ totals \in Totals
            /\ book[rd.book].done \in BOOLEAN /\ totals.done \in Nat
        BY <4>1 DEF FilesOK, Stats, Totals
      <4>3. Imported(rd) \in Reader
        BY <3>2, <4>1, <4>2 DEF Imported, Reader, Stats, Totals
      <4>4. Reloaded(rd) \in Reader BY <3>2, <4>2 DEF Reloaded, Reader
      <4> QED BY <1>5, <4>3, <4>4 DEF Return
    <3> QED BY <3>1, <3>2 DEF ScreensOK
  <2>3. ScreensOK' BY <1>5, <2>2 DEF Return, ScreensOK
  <2>4. OpInv' BY <1>5, IdleOK DEF Return, Browsing, OnScreen, Free
  <2> QED BY <2>1, <2>3, <2>4
<1>6. CASE CloseHomeStats
  <2>1. FilesOK' BY <1>6 DEF CloseHomeStats, FilesOK
  <2>2. ScreensOK' BY <1>6 DEF CloseHomeStats, ScreensOK
  <2>3. OpInv' BY <1>6, IdleOK DEF CloseHomeStats, Browsing, OnScreen, Free
  <2> QED BY <2>1, <2>2, <2>3
<1>7. ASSUME NEW b \in Book, OpenHomeStats(b) PROVE TypeInv'
  <2>1. totals \in Totals BY DEF FilesOK
  <2>2. sc' \in Screen BY <1>7, <2>1, ShownOK, Values DEF OpenHomeStats
  <2>3. FilesOK' BY <1>7 DEF OpenHomeStats, FilesOK
  <2>4. ScreensOK' BY <1>7, <2>2 DEF OpenHomeStats, ScreensOK
  <2>5. OpInv' BY <1>7, IdleOK DEF OpenHomeStats, AtHome, Free
  <2> QED BY <2>3, <2>4, <2>5
<1>8. ASSUME NEW b \in Book, OpenOther(b) PROVE TypeInv'
  <2>1. sc \in Screen BY <1>8 DEF OpenOther, Browsing, OnScreen, ScreensOK
  <2>2. book[b] \in Stats /\ Merged(b, book[b].done) \in BOOLEAN
        /\ (b \in PeersDated) \in BOOLEAN
    BY DEF FilesOK, Stats, Merged
  <2>3. sc' \in Screen BY <1>8, <2>1, <2>2 DEF OpenOther, Screen
  <2>4. FilesOK' BY <1>8 DEF OpenOther, FilesOK
  <2>5. ScreensOK' BY <1>8, <2>3 DEF OpenOther, ScreensOK
  <2>6. OpInv' BY <1>8, IdleOK DEF OpenOther, Browsing, OnScreen, Free
  <2> QED BY <2>4, <2>5, <2>6
<1>9. ASSUME NEW b \in Book, BrowserToggle(b) PROVE TypeInv'
  <2> DEFINE done == ~book[b].done
  <2>1. book[b] \in Stats /\ totals \in Totals /\ done \in BOOLEAN BY DEF FilesOK
  <2>3. PICK n \in Counts(done, over') :
         op' = [Task(b) EXCEPT !.todo = <<"book", "totals", "done">>,
                  !.st = [book[b] EXCEPT !.done = done],
                  !.gl = Counted(totals, done), !.count = n]
    BY <1>9 DEF BrowserToggle
  <2>2. Counted(totals, done) \in Totals /\ n \in {-1, 0, 1} BY <2>1, Values, CountsOK
  <2> HIDE DEF done
  <2>4. [book[b] EXCEPT !.done = done] \in Stats BY <2>1 DEF Stats
  <2>5. <<"book", "totals", "done">> \in Saves BY DEF Saves
  <2>6. op' \in Op /\ op'.kind = "save" /\ op'.todo \in Saves /\ op'.failed = 0
        /\ op'.next = "stay"
    BY <2>2, <2>3, <2>4, <2>5, TaskOK DEF Op, Task
  <2>7. OpInv' BY <1>0, <1>9, <2>6, StartOK DEF BrowserToggle
  <2>8. FilesOK' BY <1>9 DEF BrowserToggle, FilesOK
  <2>9. ScreensOK' BY <1>9, UnequalOK DEF BrowserToggle, ScreensOK
  <2> QED BY <2>7, <2>8, <2>9
<1> QED BY <1>1, <1>2, <1>3, <1>4, <1>5, <1>6, <1>7, <1>8, <1>9

(* What a correction of a day starts with.                                 *)
LEMMA CorrectStarts ==
  ASSUME TypeInv, NEW d \in Day, NEW b \in Book, Correct(d, b)
  PROVE  \E by \in Corrections(d, b) :
           /\ op' \in Op /\ op'.kind = "correct" /\ op'.failed = 0 /\ op'.next = "stay"
           /\ op'.book = b /\ op'.day = d /\ op'.time = by
           /\ op'.todo = <<"time", "book", "totals", "ledger">>
           /\ op'.st = [book[b] EXCEPT !.secs = @ + by]
           /\ op'.gl = [sc.gl EXCEPT !.secs = @ + by]
           /\ op'.was = [st |-> book[b], gl |-> sc.gl, time |-> journal.secs[d]]
<1> USE DEF TypeInv
<1>1. sc \in Screen BY DEF Correct, Browsing, OnScreen, ScreensOK
<1>2. PICK by \in Corrections(d, b) :
       op' = [Task(b) EXCEPT !.kind = "correct", !.day = d, !.time = by,
                !.todo = <<"time", "book", "totals", "ledger">>,
                !.st = [book[b] EXCEPT !.secs = @ + by],
                !.gl = [sc.gl EXCEPT !.secs = @ + by],
                !.was = [st |-> book[b], gl |-> sc.gl, time |-> journal.secs[d]]]
  BY DEF Correct
<1>3. by \in Int /\ book[b].secs + by \in Nat /\ sc.gl.secs + by \in Nat
  BY <1>1, CorrectionOK
<1>4. book[b] \in Stats /\ sc.gl \in Totals /\ journal.secs[d] \in Nat
  BY <1>1 DEF FilesOK, Screen
<1>5. [book[b] EXCEPT !.secs = @ + by] \in Stats BY <1>3, <1>4 DEF Stats
<1>6. [sc.gl EXCEPT !.secs = @ + by] \in Totals BY <1>3, <1>4 DEF Totals
<1>7. <<"time", "book", "totals", "ledger">> \in Corrects BY DEF Corrects
<1>8. op' \in Op
  BY <1>2, <1>3, <1>4, <1>5, <1>6, <1>7, TaskOK DEF Op, Task
<1> QED BY <1>2, <1>8 DEF Task

LEMMA CorrectType ==
  ASSUME TypeInv, NEW d \in Day, NEW b \in Book, Correct(d, b)
  PROVE  TypeInv'
<1> USE DEF TypeInv
<1>1. faults' \in Nat BY EditsAssumption DEF ScreensOK, Correct
<1>2. op' \in Op /\ op'.kind = "correct" /\ op'.failed = 0 /\ op'.next = "stay"
      /\ op'.todo \in Corrects
  BY CorrectStarts DEF Corrects
<1>3. sc' # Hidden BY DEF Correct, Browsing, OnScreen
<1>4. OpInv' BY <1>1, <1>2, <1>3, StartOK
<1>5. FilesOK' BY DEF Correct, FilesOK
<1>6. ScreensOK' BY OverwritesOK DEF Correct, ScreensOK
<1> QED BY <1>4, <1>5, <1>6

LEMMA FinishType ==
  ASSUME TypeInv, Finish
  PROVE  TypeInv'
<1> USE DEF TypeInv
<1>1. op \in Op /\ OpOK BY DEF Finish, OpInv, Free
<1>2. FilesOK' BY DEF Finish, FilesOK
<1>3. OpInv' BY IdleOK DEF Finish
<1>4. ScreensOK'
  <2>1. CASE op.kind = "correct" /\ Corrected
    <3>1. sc \in Screen BY <1>1, <2>1 DEF OpOK, ScreensOK
    <3>2. Corrected BY <2>1
    <3>3. op.gl \in Totals /\ op.st \in Stats /\ op.st.done \in BOOLEAN
          /\ op.day \in Day /\ op.book \in Book /\ op.time \in Int
      BY <1>1 DEF Op, Stats
    <3>4. sc' \in Screen
      <4>1. /\ Merged(sc.page, op.st.done) \in BOOLEAN
            /\ (sc.page \in PeersDated) \in BOOLEAN
        BY <3>3 DEF Merged
      <4>2. AfterCorrection \in Screen BY <3>1, <3>3, <4>1 DEF AfterCorrection, Screen
      <4> QED BY <3>2, <3>3, <4>2 DEF Corrected, Screen
    <3>5. due[op.day][op.book] + op.time \in Int BY <3>3 DEF ScreensOK
    <3>6. due' \in [Day -> [Book -> Int]] BY <3>2, <3>5 DEF Corrected, ScreensOK
    <3> QED BY <3>2, <3>4, <3>6 DEF Finish, Corrected, ScreensOK
  <2>2. CASE rd' = Closed /\ sc' = Hidden /\ UNCHANGED due
    BY <2>2 DEF Finish, ScreensOK
  <2>3. CASE op.next = "show" /\ sc' = Shown(rd.book, "after", rd.gl, 0)
             /\ UNCHANGED <<rd, due>>
    <3>1. rd \in Reader BY <1>1, <2>3 DEF OpOK, ScreensOK
    <3>2. rd.book \in Book /\ rd.gl \in Totals BY <3>1 DEF Reader
    <3>3. sc' = Shown(rd.book, "after", rd.gl, 0) /\ UNCHANGED <<rd, due>> BY <2>3
    <3>4. sc' \in Screen BY <3>2, <3>3, ShownOK, Values
    <3> QED BY <3>3, <3>4 DEF Finish, ScreensOK
  <2>4. CASE UNCHANGED <<rd, sc, due>> BY <2>4 DEF Finish, ScreensOK
  <2> QED BY <2>1, <2>2, <2>3, <2>4 DEF Finish
<1> QED BY <1>2, <1>3, <1>4

-----------------------------------------------------------------------------
LEMMA InitType == Init => TypeInv
<1> SUFFICES ASSUME Init PROVE TypeInv OBVIOUS
<1>1. IsFiniteSet(Book) /\ MaxTime \in Nat /\ MaxFaults \in Nat BY EditsAssumption
<1>2. Cardinality(Book) \in Nat BY <1>1, FS_CardinalityType
<1>3. book \in [Book -> Stats] /\ totals \in Totals
      /\ journal \in [secs : [Day -> Nat], done : Nat]
  <2>1. 0..MaxTime \subseteq Nat /\ 0..Cardinality(Book) \subseteq Nat BY <1>1, <1>2
  <2>2. book \in [Book -> Stats] BY <2>1 DEF Init, Stats
  <2>3. totals \in Totals BY <2>1 DEF Init, Totals
  <2>4. journal \in [secs : [Day -> Nat], done : Nat] BY <2>1 DEF Init
  <2> QED BY <2>2, <2>3, <2>4
<1>4. ledger \in [Day -> [Book -> Int]] BY DEF Init
<1>5. FilesOK BY <1>3, <1>4 DEF FilesOK
<1>6. ScreensOK BY <1>1, <1>4 DEF Init, ScreensOK
<1>7. OpInv BY DEF Init, OpInv, Free
<1> QED BY <1>5, <1>6, <1>7 DEF TypeInv

LEMMA NextType == TypeInv /\ [Next]_vars => TypeInv'
<1> SUFFICES ASSUME TypeInv, [Next]_vars PROVE TypeInv' OBVIOUS
<1>1. CASE Write BY <1>1, WriteType
<1>2. CASE WriteFails \/ JournalUnreadable \/ PowerLoss BY <1>2, FaultType
<1>3. CASE \/ \E b \in Book : Open(b)
           \/ FirstPageDrawn \/ Read \/ ToggleCompleted \/ ToggleIgnored \/ SaveBook
           \/ Leave \/ ShowAfterReading
  BY <1>3, ReaderType
<1>4. CASE \/ OpenStats \/ EditCompletion \/ EditDate \/ SaveStats
           \/ Return \/ CloseHomeStats
           \/ \E b \in Book : OpenHomeStats(b) \/ OpenOther(b) \/ BrowserToggle(b)
  BY <1>4, ScreenType
<1>5. CASE \E b \in Book, d \in Day : Correct(d, b) BY <1>5, CorrectType
<1>6. CASE Finish BY <1>6, FinishType
<1>7. CASE UNCHANGED vars
  BY <1>7 DEF vars, TypeInv, FilesOK, ScreensOK, OpInv, OpOK, Free
<1> QED BY <1>1, <1>2, <1>3, <1>4, <1>5, <1>6, <1>7 DEF Next

(* Every variable keeps its type: times and counts never become negative,  *)
(* whatever is corrected and taken back.                                   *)
THEOREM TypeCorrect == Spec => []TypeOK
<1>1. TypeInv => TypeOK
  <2> SUFFICES ASSUME TypeInv PROVE TypeOK OBVIOUS
  <2>1. CASE op \in Op
    <3>1. OpOK /\ op.failed \in Nat /\ faults \in Nat /\ MaxFaults \in Nat /\ faults <= MaxFaults
      BY <2>1, Kinds, EditsAssumption DEF TypeInv, OpInv, ScreensOK, Free, Op, Idle
    <3>2. op.failed \in 0..MaxFaults BY <3>1 DEF OpOK
    <3>3. op \in Operation BY <2>1, <3>2, Lists DEF Op, Operation
    <3> QED BY <3>3 DEF TypeOK, TypeInv, FilesOK, ScreensOK
  <2>2. CASE op = Idle BY <2>2 DEF TypeOK, TypeInv, FilesOK, ScreensOK
  <2> QED BY <2>1, <2>2 DEF TypeInv, OpInv
<1> QED BY <1>1, InitType, NextType, PTL DEF Spec

-----------------------------------------------------------------------------
(* The ledger, as long as no call has failed.                              *)

(* The lists in which the record of the ledger is still to be written.     *)
BeforeRecord ==
  {<<"ledger">>, <<"time", "ledger">>, <<"totals", "time", "ledger">>,
   <<"book", "totals", "time", "ledger">>, <<"totals", "ledger">>,
   <<"book", "totals", "ledger">>, <<"time", "book", "totals", "ledger">>}

About(d, b) == ~Free /\ d = op.day /\ b = op.book

Coming(d, b) == IF About(d, b) /\ op.todo \in BeforeRecord THEN op.time ELSE 0

(* A correction counts as made when its operation ends.                    *)
Correcting(d, b) == IF About(d, b) /\ op.kind = "correct" THEN op.time ELSE 0

Balanced(d, b) ==
  ledger[d][b] + Coming(d, b) + Unsaved(d, b) = due[d][b] + Correcting(d, b)

Covered(d, b) ==
  /\ ledger[d][b] + Peers[d][b] >= 0
  /\ ledger[d][b] + Coming(d, b) + Peers[d][b] >= 0

CommitsOnce ==
  /\ ~Free => op.kind # "undo" /\ (op.next # "stay" => rd # Closed /\ rd.committed)
  /\ rd # Closed /\ rd.committed =>
       \/ sc # Hidden /\ sc.from = "after"
       \/ ~Free /\ op.next # "stay"

LedgerInv ==
  faults = 0 => CommitsOnce /\ \A d \in Day, b \in Book : Balanced(d, b) /\ Covered(d, b)

LEMMA Records ==
  /\ \A l \in Saves \cup Corrects : l # <<>> =>
       IF Head(l) = "ledger" THEN l \in BeforeRecord /\ Tail(l) \notin BeforeRecord
       ELSE Tail(l) \in BeforeRecord <=> l \in BeforeRecord
  /\ <<>> \notin BeforeRecord
  /\ <<"time", "book", "totals", "ledger">> \in BeforeRecord
  /\ <<"book", "totals", "time", "ledger">> \in BeforeRecord
  /\ \A l \in {<<"book", "totals">>, <<"book">>, <<"done">>, <<"book", "totals", "done">>} :
       l \notin BeforeRecord
BY DEF Saves, Corrects, BeforeRecord
(* A reader screen that is the same as far as what it has not saved goes.  *)
SameReading ==
  \/ rd' = rd
  \/ rd \in Reader /\ rd' \in Reader /\ rd'.book = rd.book
     /\ rd'.ses = rd.ses /\ rd'.committed = rd.committed

LEMMA SameUnsaved ==
  ASSUME SameReading, NEW d \in Day, NEW b \in Book
  PROVE  Unsaved(d, b)' = Unsaved(d, b)
<1>1. CASE rd' = rd BY <1>1 DEF Unsaved, NeedsCommit
<1>2. CASE rd \in Reader /\ rd' \in Reader /\ rd'.book = rd.book
           /\ rd'.ses = rd.ses /\ rd'.committed = rd.committed
  <2>1. rd # Closed /\ rd' # Closed BY <1>2, Kinds
  <2> QED BY <1>2, <2>1 DEF Unsaved, NeedsCommit
<1> QED BY <1>1, <1>2 DEF SameReading

LEMMA UnsavedNat ==
  ASSUME TypeInv, NEW d \in Day, NEW b \in Book
  PROVE  /\ Unsaved(d, b) \in Nat /\ Coming(d, b) \in Int /\ Correcting(d, b) \in Int
         /\ ledger[d][b] \in Int /\ due[d][b] \in Int /\ Peers[d][b] \in Nat
<1>1. Unsaved(d, b) \in Nat
  <2>1. CASE rd = Closed BY <2>1 DEF Unsaved
  <2>2. CASE rd \in Reader
    <3>1. rd.ses \in Nat BY <2>2 DEF Reader
    <3> QED BY <3>1 DEF Unsaved
  <2> QED BY <2>1, <2>2 DEF TypeInv, ScreensOK
<1>2. ~Free => op.time \in Int BY DEF TypeInv, OpInv, Free, Op
<1>3. Coming(d, b) \in Int /\ Correcting(d, b) \in Int
  BY <1>2 DEF Coming, Correcting, About
<1> QED BY <1>1, <1>3, EditsAssumption DEF TypeInv, FilesOK, ScreensOK

(* An action that neither writes the ledger nor is about to.               *)
LEMMA LedgerUntouched ==
  ASSUME TypeInv, LedgerInv, faults = 0, Free, SameReading,
         ledger' = ledger, due' = due, NEW d \in Day, NEW b \in Book,
         Coming(d, b)' = 0, Correcting(d, b)' = 0
  PROVE  Balanced(d, b)' /\ Covered(d, b)'
<1>1. Unsaved(d, b)' = Unsaved(d, b) BY SameUnsaved
<1>2. Coming(d, b) = 0 /\ Correcting(d, b) = 0 BY DEF Coming, Correcting, About
<1>3. Balanced(d, b) /\ Covered(d, b) BY DEF LedgerInv
<1> QED BY <1>1, <1>2, <1>3 DEF Balanced, Covered

LEMMA FaultsGrow ==
  ASSUME TypeInv, [Next]_vars, faults' = 0
  PROVE  faults = 0 /\ ~WriteFails /\ ~JournalUnreadable /\ ~PowerLoss
<1>1. faults \in Nat BY EditsAssumption DEF TypeInv, ScreensOK
<1>2. ~WriteFails /\ ~JournalUnreadable /\ ~PowerLoss
  BY <1>1 DEF WriteFails, JournalUnreadable, PowerLoss
<1>3. UNCHANGED faults
  BY <1>2 DEF Next, vars, Write, Finish, FirstPageDrawn, Read, ToggleCompleted,
     ToggleIgnored, SaveBook, Leave, Commit, ShowAfterReading, OpenStats, EditCompletion,
     EditDate, SaveStats, Return, CloseHomeStats, Open, OpenHomeStats, OpenOther, BrowserToggle, Correct
<1> QED BY <1>2, <1>3

LEMMA LedgerWrite ==
  ASSUME TypeInv, LedgerInv, faults = 0, Write
  PROVE  LedgerInv'
<1>1. op \in Op /\ op.todo # <<>> /\ OpOK /\ CommitsOnce /\ ~Free
  BY DEF TypeInv, LedgerInv, Write, OpInv, Free
<1>2. op.todo \in Saves \cup Corrects BY <1>1 DEF OpOK, CommitsOnce, Op
<1>3. /\ op'.todo = Tail(op.todo) /\ op'.kind = op.kind /\ op'.next = op.next
      /\ op'.day = op.day /\ op'.book = op.book /\ op'.time = op.time /\ op' # Idle
  BY <1>1 DEF Write, Op, Idle
<1>4. UNCHANGED <<rd, sc, due, faults>> BY DEF Write
<1>5. CommitsOnce' BY <1>1, <1>3, <1>4 DEF CommitsOnce, Free
<1>6. ASSUME NEW d \in Day, NEW b \in Book PROVE Balanced(d, b)' /\ Covered(d, b)'
  <2>1. Unsaved(d, b)' = Unsaved(d, b) BY <1>4, SameUnsaved DEF SameReading
  <2>2. Correcting(d, b)' = Correcting(d, b) /\ (About(d, b)' <=> About(d, b))
    BY <1>1, <1>3 DEF Correcting, About, Free
  <2>3. Balanced(d, b) /\ Covered(d, b) BY DEF LedgerInv
  <2>4. ledger[d][b] \in Int /\ op.day \in Day /\ op.book \in Book /\ op.time \in Int
    BY <1>1, UnsavedNat DEF Op
  <2>5. CASE Head(op.todo) = "ledger"
    <3>1. op.todo \in BeforeRecord /\ op'.todo \notin BeforeRecord
      BY <1>1, <1>2, <1>3, <2>5, Records
    <3>2. ledger' = [ledger EXCEPT ![op.day][op.book] = @ + op.time]
      BY <2>5 DEF Write, Written
    <3>3. ledger \in [Day -> [Book -> Int]] BY DEF TypeInv, FilesOK
    <3>4. ledger'[d][b] = IF About(d, b) THEN ledger[d][b] + op.time ELSE ledger[d][b]
      BY <1>1, <2>4, <3>2, <3>3 DEF About
    <3>5. Coming(d, b)' = 0 BY <3>1 DEF Coming
    <3>6. Coming(d, b) = IF About(d, b) THEN op.time ELSE 0 BY <3>1 DEF Coming
    <3>7. ledger'[d][b] = ledger[d][b] + Coming(d, b) BY <2>4, <3>4, <3>6
    <3>8. Coming(d, b) \in Int BY UnsavedNat
    <3>9. Peers[d][b] \in Nat BY UnsavedNat
    <3>10. Balanced(d, b)' BY <1>4, <2>1, <2>2, <2>3, <3>5, <3>7, <2>4, <3>8, UnsavedNat DEF Balanced
    <3>11. Covered(d, b)' BY <2>3, <2>4, <3>5, <3>7, <3>8, <3>9 DEF Covered
    <3> QED BY <3>10, <3>11
  <2>6. CASE Head(op.todo) # "ledger"
    <3>1. op'.todo \in BeforeRecord <=> op.todo \in BeforeRecord
      BY <1>1, <1>2, <1>3, <2>6, Records
    <3>2. ledger' = ledger BY <2>6 DEF Write, Written
    <3>3. Coming(d, b)' = Coming(d, b) BY <1>3, <2>2, <3>1 DEF Coming
    <3> QED BY <1>4, <2>1, <2>2, <2>3, <3>2, <3>3 DEF Balanced, Covered
  <2> QED BY <2>5, <2>6
<1> QED BY <1>4, <1>5, <1>6 DEF LedgerInv
(* What a commit starts with.                                              *)
LEMMA CommitStarts ==
  ASSUME NEW r \in Reader, NEW next, Commit(r, next)
  PROVE  /\ op'.kind = "save" /\ op'.day = Today /\ op'.book = r.book /\ op'.time = r.ses
         /\ op'.next = next /\ op' # Idle
         /\ op'.todo = IF r.ses > 0 THEN <<"book", "totals", "time", "ledger">>
                       ELSE <<"book", "totals">>
         /\ rd' = Recorded(r)
         /\ UNCHANGED <<book, totals, journal, ledger, sc, due, faults>>
<1>1. op' = [Task(r.book) EXCEPT !.st = rd'.st, !.gl = rd'.gl, !.time = r.ses, !.next = next,
               !.todo = IF r.ses > 0 THEN <<"book", "totals", "time", "ledger">>
                        ELSE <<"book", "totals">>]
  BY DEF Commit
<1>2. op'.kind = "save" BY <1>1 DEF Task
<1> QED BY <1>1, <1>2 DEF Commit, Task, Idle

LEMMA LedgerCommit ==
  ASSUME TypeInv, LedgerInv, faults = 0, Free, rd \in Reader, NeedsCommit(rd),
         NEW next \in {"close", "show"}, Commit(Loaded(rd), next)
  PROVE  LedgerInv'
<1> DEFINE r == Loaded(rd)
<1>1. /\ r \in Reader /\ r.book = rd.book /\ r.ses = rd.ses /\ rd # Closed
      /\ rd.book \in Book /\ rd.ses \in Nat
  BY LoadedOK, Kinds DEF TypeInv, Reader
<1>2. /\ op'.kind = "save" /\ op'.day = Today /\ op'.book = rd.book /\ op'.time = rd.ses
      /\ op'.next = next /\ op' # Idle
      /\ op'.todo = IF rd.ses > 0 THEN <<"book", "totals", "time", "ledger">>
                    ELSE <<"book", "totals">>
      /\ rd' = Recorded(r)
      /\ UNCHANGED <<book, totals, journal, ledger, sc, due, faults>>
  BY <1>1, CommitStarts
<1> HIDE DEF r
<1>3. rd' \in Reader /\ rd' # Closed /\ rd'.committed BY <1>1, <1>2, RecordedOK, Kinds
<1>4. CommitsOnce' BY <1>2, <1>3 DEF CommitsOnce, Free
<1>5. ASSUME NEW d \in Day, NEW b \in Book PROVE Balanced(d, b)' /\ Covered(d, b)'
  <2>1. Unsaved(d, b)' = 0 BY <1>3 DEF Unsaved, NeedsCommit
  <2>2. Unsaved(d, b) = IF d = Today /\ b = rd.book THEN rd.ses ELSE 0
    BY <1>1 DEF Unsaved, NeedsCommit
  <2>3. Coming(d, b) = 0 /\ Correcting(d, b) = 0 /\ Correcting(d, b)' = 0
    BY <1>2 DEF Coming, Correcting, About
  <2>4. Coming(d, b)' = Unsaved(d, b)
    <3>1. CASE rd.ses > 0
      <4>1. op'.todo \in BeforeRecord BY <1>2, <3>1, Records
      <4> QED BY <1>2, <2>2, <4>1 DEF Coming, About, Free
    <3>2. CASE ~(rd.ses > 0)
      <4>1. rd.ses = 0 BY <1>1, <3>2
      <4>2. op'.todo \notin BeforeRecord BY <1>2, <3>2, Records
      <4> QED BY <2>2, <4>1, <4>2 DEF Coming
    <3> QED BY <3>1, <3>2
  <2>5. Balanced(d, b) /\ Covered(d, b) BY DEF LedgerInv
  <2>6. Unsaved(d, b) \in Nat /\ ledger[d][b] \in Int /\ Peers[d][b] \in Nat BY UnsavedNat
  <2> QED BY <1>2, <2>1, <2>3, <2>4, <2>5, <2>6 DEF Balanced, Covered
<1> QED BY <1>2, <1>4, <1>5 DEF LedgerInv

LEMMA LedgerRead ==
  ASSUME TypeInv, LedgerInv, faults = 0, Read
  PROVE  LedgerInv'
<1>1. rd \in Reader /\ rd # Closed /\ Free /\ sc = Hidden
  BY DEF Read, Reading, TypeInv, ScreensOK
<1>2. ~rd.committed BY <1>1 DEF LedgerInv, CommitsOnce
<1>3. rd.book \in Book /\ rd.ses \in Nat /\ rd.committed \in BOOLEAN BY <1>1 DEF Reader
<1>4. rd' = [rd EXCEPT !.ses = @ + 1] BY DEF Read
<1>5. rd' \in Reader /\ rd' # Closed /\ rd'.ses = rd.ses + 1 /\ rd'.book = rd.book
      /\ rd'.committed = rd.committed
  BY <1>1, <1>3, <1>4, EditsAssumption DEF Reader, Closed
<1>6. UNCHANGED <<ledger, op, sc, faults>> /\ due' = [due EXCEPT ![Today][rd.book] = @ + 1]
  BY DEF Read
<1>7. CommitsOnce' BY <1>1, <1>2, <1>5, <1>6 DEF CommitsOnce, Free
<1>8. ASSUME NEW d \in Day, NEW b \in Book PROVE Balanced(d, b)' /\ Covered(d, b)'
  <2>1. Coming(d, b)' = Coming(d, b) /\ Correcting(d, b)' = Correcting(d, b)
    BY <1>6 DEF Coming, Correcting, About, Free
  <2>2. Balanced(d, b) /\ Covered(d, b) BY DEF LedgerInv
  <2>3. due \in [Day -> [Book -> Int]] /\ Today \in Day
    BY EditsAssumption DEF TypeInv, ScreensOK
  <2>4. CASE d = Today /\ b = rd.book
    <3>1. Unsaved(d, b) = rd.ses /\ Unsaved(d, b)' = rd.ses + 1
      BY <1>1, <1>2, <1>5, <2>4 DEF Unsaved, NeedsCommit, Read
    <3>2. due'[d][b] = due[d][b] + 1 BY <1>3, <1>6, <2>3, <2>4
    <3> QED BY <1>3, <1>6, <2>1, <2>2, <3>1, <3>2, UnsavedNat DEF Balanced, Covered
  <2>5. CASE ~(d = Today /\ b = rd.book)
    <3>1. Unsaved(d, b)' = Unsaved(d, b) BY <1>1, <1>5, <2>5 DEF Unsaved, NeedsCommit
    <3>2. due'[d][b] = due[d][b] BY <1>3, <1>6, <2>3, <2>5
    <3> QED BY <1>6, <2>1, <2>2, <3>1, <3>2 DEF Balanced, Covered
  <2> QED BY <2>4, <2>5
<1> QED BY <1>6, <1>7, <1>8 DEF LedgerInv

LEMMA LedgerCorrect ==
  ASSUME TypeInv, LedgerInv, faults = 0, NEW e \in Day, NEW c \in Book, Correct(e, c)
  PROVE  LedgerInv'
<1>1. PICK by \in Corrections(e, c) :
       /\ op' \in Op /\ op'.kind = "correct" /\ op'.next = "stay"
       /\ op'.book = c /\ op'.day = e /\ op'.time = by
       /\ op'.todo = <<"time", "book", "totals", "ledger">>
  BY CorrectStarts
<1>2. Free /\ sc \in Screen /\ CanAdjust(e, c)
      /\ UNCHANGED <<ledger, rd, sc, due, faults>>
  BY DEF Correct, Browsing, OnScreen, TypeInv, ScreensOK
<1>3. op' # Idle /\ op'.todo \in BeforeRecord BY <1>1, Kinds, Records
<1>4. CommitsOnce' BY <1>1, <1>2, <1>3 DEF CommitsOnce, Free, LedgerInv
<1>5. by \in Int /\ OnDay(e, c) + by >= 0 BY <1>2, CorrectionOK DEF TypeInv
<1>6. OnDay(e, c) = ledger[e][c] + Peers[e][c]
  <2>1. ledger[e][c] + Peers[e][c] >= 0 BY DEF LedgerInv, Covered
  <2>2. ledger[e][c] \in Int /\ Peers[e][c] \in Nat BY UnsavedNat
  <2>3. Shifted(ledger[e][c], Peers[e][c]) = ledger[e][c] + Peers[e][c]
    BY <2>1, <2>2 DEF Shifted
  <2>4. sc.live \in Nat BY <1>2 DEF Screen
  <2>5. (IF e = Today /\ c = sc.page THEN sc.live ELSE 0) = 0
    BY <1>2, <2>4 DEF CanAdjust
  <2> QED BY <2>2, <2>3, <2>5 DEF OnDay
<1>7. ASSUME NEW d \in Day, NEW b \in Book PROVE Balanced(d, b)' /\ Covered(d, b)'
  <2>1. Unsaved(d, b)' = Unsaved(d, b) BY <1>2, SameUnsaved DEF SameReading
  <2>2. Coming(d, b) = 0 /\ Correcting(d, b) = 0 BY <1>2 DEF Coming, Correcting, About
  <2>3. Coming(d, b)' = Correcting(d, b)' BY <1>1, <1>3 DEF Coming, Correcting
  <2>4. Balanced(d, b) /\ Covered(d, b) BY DEF LedgerInv
  <2>5. Coming(d, b)' = IF d = e /\ b = c THEN by ELSE 0
    BY <1>1, <1>3 DEF Coming, About, Free
  <2>6. Coming(d, b)' \in Int BY <1>5, <2>5
  <2>7. Balanced(d, b)'
    BY <1>2, <2>1, <2>2, <2>3, <2>4, <2>6, UnsavedNat DEF Balanced
  <2>8. Covered(d, b)'
    <3>1. CASE d = e /\ b = c
      <4>1. ledger[d][b] + by + Peers[d][b] >= 0 BY <1>5, <1>6, <3>1, UnsavedNat
      <4> QED BY <1>2, <2>4, <2>5, <3>1, <4>1 DEF Covered
    <3>2. CASE ~(d = e /\ b = c) BY <1>2, <2>2, <2>4, <2>5, <3>2 DEF Covered
    <3> QED BY <3>1, <3>2
  <2> QED BY <2>7, <2>8
<1> QED BY <1>2, <1>4, <1>7 DEF LedgerInv

LEMMA LedgerFinish ==
  ASSUME TypeInv, LedgerInv, faults = 0, Finish
  PROVE  LedgerInv'
<1>1. /\ op \in Op /\ ~Free /\ op.todo = <<>> /\ Free' /\ OpOK /\ CommitsOnce
      /\ op' = Idle /\ UNCHANGED <<ledger, faults>>
  BY DEF TypeInv, LedgerInv, Finish, OpInv, Free
<1>2. ASSUME NEW d \in Day, NEW b \in Book
      PROVE  /\ Coming(d, b) = 0 /\ Coming(d, b)' = 0 /\ Correcting(d, b)' = 0
             /\ Balanced(d, b) /\ Covered(d, b)
  BY <1>1, Records DEF Coming, Correcting, About, LedgerInv
<1>3. CASE op.kind = "correct" /\ Corrected
  <2>1. sc \in Screen /\ rd' = rd /\ due' = [due EXCEPT ![op.day][op.book] = @ + op.time]
    BY <1>1, <1>3 DEF OpOK, TypeInv, ScreensOK, Corrected
  <2>2. sc' # Hidden /\ sc'.from = sc.from
    <3>1. sc' \in Screen \cup {Hidden} BY FinishType DEF TypeInv, ScreensOK
    <3>2. sc'.page = sc.page /\ sc'.from = sc.from
      BY <1>3, <2>1 DEF Corrected, AfterCorrection, Screen
    <3>3. sc.page # None BY <2>1, EditsAssumption DEF Screen
    <3> QED BY <3>2, <3>3 DEF Hidden
  <2>3. CommitsOnce' BY <1>1, <1>3, <2>1, <2>2 DEF CommitsOnce, OpOK
  <2>4. ASSUME NEW d \in Day, NEW b \in Book PROVE Balanced(d, b)' /\ Covered(d, b)'
    <3>1. Unsaved(d, b)' = Unsaved(d, b) BY <2>1, SameUnsaved DEF SameReading
    <3>2. due'[d][b] = due[d][b] + Correcting(d, b)
      <4>1. due \in [Day -> [Book -> Int]] /\ op.day \in Day /\ op.book \in Book
            /\ op.time \in Int
        BY <1>1 DEF TypeInv, ScreensOK, Op
      <4>2. CASE d = op.day /\ b = op.book
        BY <1>1, <1>3, <2>1, <4>1, <4>2 DEF Correcting, About
      <4>3. CASE ~(d = op.day /\ b = op.book)
        BY <1>1, <2>1, <4>1, <4>3 DEF Correcting, About
      <4> QED BY <4>2, <4>3
    <3> QED BY <1>1, <1>2, <3>1, <3>2, UnsavedNat DEF Balanced, Covered
  <2> QED BY <1>1, <2>3, <2>4 DEF LedgerInv
<1>4. CASE op.next # "stay" /\ UNCHANGED due
           /\ \/ op.next = "close" /\ rd' = Closed
              \/ op.next = "show" /\ rd' = rd /\ sc' = Shown(rd.book, "after", rd.gl, 0)
  <2>1. rd # Closed /\ rd.committed /\ op.kind = "save" BY <1>1, <1>4 DEF CommitsOnce, OpOK, Op
  <2>2. op.next = "show" => sc' # Hidden /\ sc'.from = "after"
    <3>1. rd.book \in Book BY <2>1 DEF TypeInv, ScreensOK, Reader
    <3> QED BY <1>4, <3>1, EditsAssumption DEF Shown, Hidden
  <2>3. CommitsOnce' BY <1>1, <1>4, <2>2 DEF CommitsOnce
  <2>4. ASSUME NEW d \in Day, NEW b \in Book PROVE Balanced(d, b)' /\ Covered(d, b)'
    <3>1. Unsaved(d, b) = 0 /\ Unsaved(d, b)' = 0 BY <1>4, <2>1 DEF Unsaved, NeedsCommit
    <3>2. Correcting(d, b) = 0 BY <2>1 DEF Correcting
    <3> QED BY <1>1, <1>2, <1>4, <3>1, <3>2 DEF Balanced, Covered
  <2> QED BY <1>1, <2>3, <2>4 DEF LedgerInv
<1>5. CASE op.kind # "correct" /\ op.next = "stay" /\ UNCHANGED <<rd, sc, due>>
  <2>1. CommitsOnce' BY <1>1, <1>5 DEF CommitsOnce
  <2>2. ASSUME NEW d \in Day, NEW b \in Book PROVE Balanced(d, b)' /\ Covered(d, b)'
    <3>1. Unsaved(d, b)' = Unsaved(d, b) BY <1>5, SameUnsaved DEF SameReading
    <3>2. Correcting(d, b) = 0 BY <1>5 DEF Correcting
    <3> QED BY <1>1, <1>2, <1>5, <3>1, <3>2 DEF Balanced, Covered
  <2> QED BY <1>1, <2>1, <2>2 DEF LedgerInv
<1>6. CASE op.next = "close" /\ rd' = Closed /\ sc' = Hidden /\ UNCHANGED due
  BY <1>4, <1>6
<1>7. CASE op.next = "show" /\ sc' = Shown(rd.book, "after", rd.gl, 0) /\ UNCHANGED <<rd, due>>
  BY <1>4, <1>7
<1> QED BY <1>3, <1>5, <1>6, <1>7 DEF Finish
(* The same for all days and books, when the screens allow no new commit.  *)
LEMMA LedgerSame ==
  ASSUME TypeInv, LedgerInv, faults = 0, faults' = 0, Free, SameReading,
         ledger' = ledger, due' = due,
         op'.kind = "save" /\ op'.todo \notin BeforeRecord /\ op'.next = "stay",
         sc # Hidden /\ sc.from = "after" => sc' # Hidden /\ sc'.from = "after"
  PROVE  LedgerInv'
<1>1. rd' # Closed /\ rd'.committed => rd # Closed /\ rd.committed
  BY Kinds DEF SameReading
<1>2. CommitsOnce' BY <1>1 DEF CommitsOnce, LedgerInv
<1>3. ASSUME NEW d \in Day, NEW b \in Book PROVE Balanced(d, b)' /\ Covered(d, b)'
  <2>1. Coming(d, b)' = 0 /\ Correcting(d, b)' = 0 BY DEF Coming, Correcting, About
  <2> QED BY <2>1, LedgerUntouched
<1> QED BY <1>2, <1>3 DEF LedgerInv

LEMMA LedgerIdle ==
  ASSUME TypeInv, LedgerInv, faults = 0, faults' = 0, Free, Free', SameReading,
         ledger' = ledger, due' = due,
         sc # Hidden /\ sc.from = "after" => sc' # Hidden /\ sc'.from = "after"
  PROVE  LedgerInv'
<1>1. rd' # Closed /\ rd'.committed => rd # Closed /\ rd.committed
  BY Kinds DEF SameReading
<1>2. CommitsOnce' BY <1>1 DEF CommitsOnce, LedgerInv
<1>3. ASSUME NEW d \in Day, NEW b \in Book PROVE Balanced(d, b)' /\ Covered(d, b)'
  <2>1. Coming(d, b)' = 0 /\ Correcting(d, b)' = 0 BY DEF Coming, Correcting, About
  <2> QED BY <2>1, LedgerUntouched
<1> QED BY <1>2, <1>3 DEF LedgerInv

LEMMA LedgerOther ==
  ASSUME TypeInv, LedgerInv, faults = 0, TypeInv', faults' = 0,
         \/ FirstPageDrawn \/ ToggleCompleted \/ ToggleIgnored \/ SaveBook
         \/ OpenStats \/ EditCompletion \/ EditDate \/ SaveStats
         \/ Return \/ CloseHomeStats
         \/ \E b \in Book : OpenHomeStats(b) \/ OpenOther(b) \/ BrowserToggle(b)
  PROVE  LedgerInv'
<1>1. CASE FirstPageDrawn
  <2>1. rd \in Reader BY <1>1 DEF FirstPageDrawn, Reading, TypeInv, ScreensOK
  <2>2. SameReading BY <1>1, <2>1, LoadedOK DEF FirstPageDrawn, SameReading, TypeInv
  <2>3. Free /\ Free' BY <1>1 DEF FirstPageDrawn, Reading, Free
  <2>4. UNCHANGED <<ledger, due, sc>> BY <1>1 DEF FirstPageDrawn
  <2> QED BY <2>2, <2>3, <2>4, LedgerIdle
<1>2. CASE ToggleCompleted
  <2>1. rd \in Reader BY <1>2 DEF ToggleCompleted, Reading, TypeInv, ScreensOK
  <2>2. rd' = [rd EXCEPT !.st.done = ~rd.st.done, !.gl = Counted(rd.gl, ~rd.st.done)]
    BY <1>2 DEF ToggleCompleted
  <2>3. rd'.book = rd.book /\ rd'.ses = rd.ses /\ rd'.committed = rd.committed
    BY <2>1, <2>2 DEF Reader
  <2>4. rd' \in Reader
    BY <2>1, <2>3, EditsAssumption DEF TypeInv, ScreensOK, Reader, Closed
  <2>5. SameReading BY <2>1, <2>3, <2>4 DEF SameReading
  <2>6. op'.kind = "save" /\ op'.next = "stay" /\ op'.todo = <<"book", "totals", "done">>
    BY <1>2 DEF ToggleCompleted, Task
  <2> QED BY <1>2, <2>5, <2>6, LedgerSame, Records DEF ToggleCompleted, Reading
<1>13. CASE ToggleIgnored
  <2>1. rd \in Reader BY <1>13 DEF ToggleIgnored, Reading, TypeInv, ScreensOK
  <2>2. rd' = [rd EXCEPT !.st.done = ~rd.st.done] BY <1>13 DEF ToggleIgnored
  <2>3. rd'.book = rd.book /\ rd'.ses = rd.ses /\ rd'.committed = rd.committed
    BY <2>1, <2>2 DEF Reader
  <2>4. rd' \in Reader
    BY <2>1, <2>3, EditsAssumption DEF TypeInv, ScreensOK, Reader, Closed
  <2>5. SameReading BY <2>1, <2>3, <2>4 DEF SameReading
  <2>6. op'.kind = "save" /\ op'.next = "stay" /\ op'.todo = <<"book">>
    BY <1>13 DEF ToggleIgnored, Task
  <2> QED BY <1>13, <2>5, <2>6, LedgerSame, Records DEF ToggleIgnored, Reading
<1>3. CASE SaveBook
  <2>1. op'.kind = "save" /\ op'.next = "stay" /\ op'.todo = <<"book">>
    BY <1>3 DEF SaveBook, Task
  <2> QED BY <1>3, <2>1, LedgerSame, Records DEF SaveBook, Reading, SameReading
<1>4. CASE OpenStats
  <2>1. SameReading /\ Free /\ Free' /\ sc = Hidden
    BY <1>4 DEF OpenStats, Reading, SameReading, Free
  <2>2. UNCHANGED <<ledger, due>> BY <1>4 DEF OpenStats
  <2> QED BY <2>1, <2>2, LedgerIdle
<1>5. CASE EditCompletion
  <2>1. op'.kind = "save" /\ op'.next = "stay" /\ op'.todo = <<"done">>
    BY <1>5 DEF EditCompletion, Task
  <2>2. sc \in Screen BY <1>5 DEF EditCompletion, Browsing, OnScreen, TypeInv, ScreensOK
  <2>3. sc'.from = sc.from /\ sc'.page = sc.page BY <1>5, <2>2 DEF EditCompletion, Screen
  <2>4. sc' # Hidden BY <2>2, <2>3, EditsAssumption DEF Screen, Hidden
  <2> QED BY <1>5, <2>1, <2>3, <2>4, LedgerSame, Records
          DEF EditCompletion, Browsing, OnScreen, SameReading
<1>6. CASE EditDate
  <2>1. sc'.from = sc.from /\ sc' # Hidden /\ Free BY <1>6, DateEdited, Kinds
  <2>2. UNCHANGED <<rd, ledger, due>> /\ SameReading BY <1>6 DEF EditDate, SameReading
  <2>3. CASE op' = Idle BY <2>1, <2>2, <2>3, LedgerIdle DEF Free
  <2>4. CASE op'.kind = "save" /\ op'.next = "stay" /\ op'.todo = <<"done">>
    BY <2>1, <2>2, <2>4, LedgerSame, Records
  <2> QED BY <1>6, <2>3, <2>4, DateEdited
<1>7. CASE SaveStats
  <2>1. op'.kind = "save" /\ op'.next = "stay" /\ op'.todo = <<"book", "totals">>
    BY <1>7 DEF SaveStats, Task
  <2>2. sc \in Screen BY <1>7 DEF SaveStats, Browsing, OnScreen, TypeInv, ScreensOK
  <2>3. sc'.from = sc.from /\ sc'.page = sc.page BY <1>7, <2>2 DEF SaveStats, Screen
  <2>4. sc' # Hidden BY <2>2, <2>3, EditsAssumption DEF Screen, Hidden
  <2> QED BY <1>7, <2>1, <2>3, <2>4, LedgerSame, Records
          DEF SaveStats, Browsing, OnScreen, SameReading
<1>8. CASE Return
  <2>1. sc.from = "reader" /\ Free /\ Free' /\ UNCHANGED <<ledger, due>>
    BY <1>8 DEF Return, Browsing, OnScreen, Free
  <2>2. SameReading
    <3>1. CASE rd \in Reader
      <4>1. rd' = Imported(rd) \/ rd' = Reloaded(rd) BY <1>8 DEF Return
      <4>2. rd'.book = rd.book /\ rd'.ses = rd.ses /\ rd'.committed = rd.committed
        BY <3>1, <4>1 DEF Imported, Reloaded, Reader
      <4>3. rd' \in Reader
        BY <3>1, <4>2, EditsAssumption DEF TypeInv, ScreensOK, Reader, Closed
      <4> QED BY <3>1, <4>2, <4>3 DEF SameReading
    <3>2. CASE rd = Closed
      <4>1. rd' = Imported(rd) \/ rd' = Reloaded(rd) BY <1>8 DEF Return
      <4>2. rd' = rd BY <3>2, <4>1 DEF Imported, Reloaded, Closed
      <4> QED BY <4>2 DEF SameReading
    <3> QED BY <3>1, <3>2 DEF TypeInv, ScreensOK
  <2> QED BY <2>1, <2>2, LedgerIdle
<1>9. CASE CloseHomeStats
  <2>1. SameReading /\ Free /\ Free' /\ sc.from = "home"
    BY <1>9 DEF CloseHomeStats, Browsing, OnScreen, SameReading, Free
  <2>2. UNCHANGED <<ledger, due>> BY <1>9 DEF CloseHomeStats
  <2> QED BY <2>1, <2>2, LedgerIdle
<1>10. ASSUME NEW b \in Book, OpenHomeStats(b) PROVE LedgerInv'
  <2>1. SameReading /\ Free /\ Free' /\ sc = Hidden
    BY <1>10 DEF OpenHomeStats, AtHome, SameReading, Free
  <2>2. UNCHANGED <<ledger, due>> BY <1>10 DEF OpenHomeStats
  <2> QED BY <2>1, <2>2, LedgerIdle
<1>11. ASSUME NEW b \in Book, OpenOther(b) PROVE LedgerInv'
  <2>1. sc \in Screen BY <1>11 DEF OpenOther, Browsing, OnScreen, TypeInv, ScreensOK
  <2>2. sc'.from = sc.from /\ sc'.page = b BY <1>11, <2>1 DEF OpenOther, Screen
  <2>3. sc' # Hidden BY <2>2, EditsAssumption DEF Hidden
  <2>4. SameReading /\ Free /\ Free' BY <1>11 DEF OpenOther, Browsing, OnScreen, SameReading, Free
  <2>5. UNCHANGED <<ledger, due>> BY <1>11 DEF OpenOther
  <2> QED BY <2>2, <2>3, <2>4, <2>5, LedgerIdle
<1>12. ASSUME NEW b \in Book, BrowserToggle(b) PROVE LedgerInv'
  <2>1. op'.kind = "save" /\ op'.next = "stay" /\ op'.todo = <<"book", "totals", "done">>
    BY <1>12 DEF BrowserToggle, Task
  <2> QED BY <1>12, <2>1, LedgerSame, Records DEF BrowserToggle, AtHome, SameReading
<1> QED BY <1>1, <1>2, <1>3, <1>4, <1>5, <1>6, <1>7, <1>8, <1>9, <1>10, <1>11, <1>12, <1>13

(* Opening a reader and closing one that has committed.                    *)
LEMMA LedgerOpen ==
  ASSUME TypeInv, LedgerInv, faults = 0,
         \/ \E b \in Book : Open(b)
         \/ Leave /\ ~NeedsCommit(rd)
  PROVE  LedgerInv'
<1>1. Free /\ Free' /\ UNCHANGED <<ledger, due, op, faults>>
  BY DEF Open, AtHome, Leave, Free
<1>2. /\ rd = Closed \/ ~NeedsCommit(rd)
      /\ rd' = Closed \/ (rd'.ses = 0 /\ ~rd'.committed)
  BY DEF Open, AtHome, Leave, NeedsCommit
<1>3. CommitsOnce' BY <1>1, <1>2 DEF CommitsOnce, Free
<1>4. ASSUME NEW d \in Day, NEW b \in Book PROVE Balanced(d, b)' /\ Covered(d, b)'
  <2>1. Unsaved(d, b) = 0 /\ Unsaved(d, b)' = 0 BY <1>2 DEF Unsaved, NeedsCommit
  <2>2. Coming(d, b)' = 0 /\ Correcting(d, b)' = 0 BY <1>1 DEF Coming, Correcting, About
  <2>3. Coming(d, b) = 0 /\ Correcting(d, b) = 0 BY <1>1 DEF Coming, Correcting, About
  <2>4. Balanced(d, b) /\ Covered(d, b) BY DEF LedgerInv
  <2> QED BY <1>1, <2>1, <2>2, <2>3, <2>4 DEF Balanced, Covered
<1> QED BY <1>1, <1>3, <1>4 DEF LedgerInv

LEMMA LedgerStep == TypeInv /\ LedgerInv /\ [Next]_vars => LedgerInv'
<1> SUFFICES ASSUME TypeInv, LedgerInv, [Next]_vars PROVE LedgerInv' OBVIOUS
<1> SUFFICES ASSUME faults' = 0 PROVE LedgerInv' BY DEF LedgerInv
<1>0. faults = 0 /\ ~WriteFails /\ ~JournalUnreadable /\ ~PowerLoss BY FaultsGrow
<1>1. TypeInv' BY NextType
<1>2. CASE Write BY <1>0, <1>2, LedgerWrite
<1>3. CASE Finish BY <1>0, <1>3, LedgerFinish
<1>4. CASE Read BY <1>0, <1>4, LedgerRead
<1>5. CASE Leave
  <2>1. rd \in Reader /\ Free BY <1>5 DEF Leave, TypeInv, ScreensOK
  <2>2. CASE NeedsCommit(rd)
    <3>1. Commit(Loaded(rd), "close") BY <1>5, <2>2 DEF Leave
    <3> QED BY <1>0, <2>1, <2>2, <3>1, LedgerCommit
  <2>3. CASE ~NeedsCommit(rd) BY <1>0, <1>5, <2>3, LedgerOpen
  <2> QED BY <2>2, <2>3
<1>6. CASE ShowAfterReading
  <2>1. rd \in Reader /\ Free /\ sc = Hidden /\ rd # Closed
    BY <1>6 DEF ShowAfterReading, Reading, TypeInv, ScreensOK
  <2>2. NeedsCommit(rd)
    BY <1>0, <1>6, <2>1 DEF LedgerInv, CommitsOnce, ShowAfterReading, NeedsCommit
  <2> QED BY <1>0, <1>6, <2>1, <2>2, LedgerCommit DEF ShowAfterReading
<1>7. CASE \E b \in Book : Open(b) BY <1>0, <1>7, LedgerOpen
<1>8. CASE \E b \in Book, d \in Day : Correct(d, b) BY <1>0, <1>8, LedgerCorrect
<1>9. CASE \/ FirstPageDrawn \/ ToggleCompleted \/ SaveBook
           \/ OpenStats \/ EditCompletion \/ EditDate \/ SaveStats
           \/ Return \/ CloseHomeStats \/ ToggleIgnored
           \/ \E b \in Book : OpenHomeStats(b) \/ OpenOther(b) \/ BrowserToggle(b)
  BY <1>0, <1>1, <1>9, LedgerOther
<1>10. CASE UNCHANGED vars
  BY <1>10 DEF vars, LedgerInv, CommitsOnce, Balanced, Covered, Coming, Correcting, About,
     Unsaved, NeedsCommit, Free
<1> QED BY <1>0, <1>2, <1>3, <1>4, <1>5, <1>6, <1>7, <1>8, <1>9, <1>10 DEF Next

LEMMA LedgerInit == Init => LedgerInv
<1> SUFFICES ASSUME Init PROVE LedgerInv OBVIOUS
<1>1. CommitsOnce BY DEF Init, CommitsOnce, Free
<1>2. ASSUME NEW d \in Day, NEW b \in Book PROVE Balanced(d, b) /\ Covered(d, b)
  <2>1. Coming(d, b) = 0 /\ Correcting(d, b) = 0 /\ Unsaved(d, b) = 0
    BY DEF Init, Coming, Correcting, About, Free, Unsaved
  <2>2. ledger[d][b] \in 0..1 /\ due = ledger BY DEF Init
  <2>3. Peers[d][b] \in Nat BY EditsAssumption
  <2> QED BY <2>1, <2>2, <2>3 DEF Balanced, Covered
<1> QED BY <1>1, <1>2 DEF LedgerInv

LEMMA LedgerAlways == Spec => [](TypeInv /\ LedgerInv)
BY InitType, NextType, LedgerInit, LedgerStep, PTL DEF Spec

(* For any number of books and days: between operations the ledger has     *)
(* every unit that was read and committed, once, and every correction.     *)
THEOREM LedgerComplete == Spec => []LedgerKept
<1>1. TypeInv /\ LedgerInv => LedgerKept
  <2> SUFFICES ASSUME TypeInv, LedgerInv, Calmly, NEW d \in Day, NEW b \in Book
               PROVE  ledger[d][b] + Unsaved(d, b) = due[d][b]
    BY DEF LedgerKept
  <2>1. Balanced(d, b) BY DEF Calmly, LedgerInv
  <2>2. Coming(d, b) = 0 /\ Correcting(d, b) = 0 BY DEF Calmly, Coming, Correcting, About
  <2> QED BY <2>1, <2>2, UnsavedNat DEF Balanced
<1> QED BY <1>1, LedgerAlways, PTL

(* No ledger of a reader goes below what the other readers have for a book *)
(* and a day, whatever sessions are open when time is taken away.          *)
THEOREM NothingOverdrawn == Spec => []NotOverdrawn
<1>1. TypeInv /\ LedgerInv => NotOverdrawn BY DEF NotOverdrawn, LedgerInv, Covered
<1> QED BY <1>1, LedgerAlways, PTL

-----------------------------------------------------------------------------
(* A correction of a day and its failures.                                 *)

(* The lists in which a write of the journal's time, of the book and of    *)
(* the totals is still to come.                                            *)
BeforeTime ==
  {<<"time", "book", "totals", "ledger">>, <<"time">>, <<"time", "book">>,
   <<"time", "book", "totals">>}

BeforeBook ==
  {<<"time", "book", "totals", "ledger">>, <<"book", "totals", "ledger">>, <<"book">>,
   <<"book", "totals">>, <<"time", "book">>, <<"time", "book", "totals">>}

BeforeTotals ==
  {<<"time", "book", "totals", "ledger">>, <<"book", "totals", "ledger">>,
   <<"totals", "ledger">>, <<"totals">>, <<"book", "totals">>, <<"time", "book", "totals">>}

(* How far a correction has come, and how far its taking back.             *)
Made ==
  /\ op.time # 0
  /\ op.st.secs = op.was.st.secs + op.time /\ op.gl.secs = op.was.gl.secs + op.time
  /\ journal.secs[op.day] =
       IF op.todo \in BeforeTime THEN op.was.time ELSE op.was.time + op.time
  /\ IF op.todo \in BeforeBook THEN book[op.book] = op.was.st
     ELSE book[op.book].secs = op.st.secs
  /\ IF op.todo \in BeforeTotals THEN totals = op.was.gl ELSE totals.secs = op.gl.secs

TakenBack ==
  /\ op.st = op.was.st /\ op.gl = op.was.gl
  /\ op.was.time =
       IF op.todo \in BeforeTime THEN journal.secs[op.day] + op.time
       ELSE journal.secs[op.day]
  /\ op.todo \notin BeforeBook => book[op.book] = op.was.st
  /\ op.todo \notin BeforeTotals => totals = op.was.gl

CorrectionInv ==
  ~Free /\ op.kind # "save" /\ op.failed <= 1 /\ over \subseteq {"merged", "ignored"} /\ Fits =>
    IF op.kind = "undo" THEN TakenBack ELSE Made

LEMMA ToCome ==
  /\ \A l \in Corrects \cup Undos : l # <<>> =>
       /\ Head(l) = "time" <=> l \in BeforeTime
       /\ Tail(l) \notin BeforeTime
       /\ IF Head(l) = "book" THEN l \in BeforeBook /\ Tail(l) \notin BeforeBook
          ELSE Tail(l) \in BeforeBook <=> l \in BeforeBook
       /\ IF Head(l) = "totals" THEN l \in BeforeTotals /\ Tail(l) \notin BeforeTotals
          ELSE Tail(l) \in BeforeTotals <=> l \in BeforeTotals
  /\ <<>> \notin BeforeTime /\ <<>> \notin BeforeBook /\ <<>> \notin BeforeTotals
  /\ \A l \in Corrects : l # <<>> =>
       /\ Head(l) = "time" => l \in BeforeBook /\ l \in BeforeTotals
       /\ Head(l) = "book" => l \notin BeforeTime /\ l \in BeforeTotals
       /\ Head(l) = "totals" => l \notin BeforeTime /\ l \notin BeforeBook
       /\ Head(l) = "ledger" => l \notin BeforeTime
       /\ Head(l) \in {"time", "book", "totals", "ledger"}
  /\ <<"time">> \in BeforeTime /\ <<"time">> \notin BeforeBook /\ <<"time">> \notin BeforeTotals
  /\ <<"time", "book">> \in BeforeTime \cap BeforeBook /\ <<"time", "book">> \notin BeforeTotals
  /\ <<"time", "book", "totals">> \in BeforeTime \cap BeforeBook \cap BeforeTotals
  /\ <<"time", "book", "totals", "ledger">> \in BeforeTime \cap BeforeBook \cap BeforeTotals
BY DEF Corrects, Undos, BeforeTime, BeforeBook, BeforeTotals

LEMMA CorrectionStarts ==
  ASSUME TypeInv, NEW d \in Day, NEW b \in Book, Correct(d, b)
  PROVE  CorrectionInv'
<1>1. PICK by \in Corrections(d, b) :
       /\ op' \in Op /\ op'.kind = "correct"
       /\ op'.book = b /\ op'.day = d /\ op'.time = by
       /\ op'.todo = <<"time", "book", "totals", "ledger">>
       /\ op'.st = [book[b] EXCEPT !.secs = @ + by]
       /\ op'.gl = [sc.gl EXCEPT !.secs = @ + by]
       /\ op'.was = [st |-> book[b], gl |-> sc.gl, time |-> journal.secs[d]]
  BY CorrectStarts
<1>2. sc \in Screen /\ UNCHANGED <<book, totals, journal>>
  BY DEF Correct, Browsing, OnScreen, TypeInv, ScreensOK
<1>3. by # 0 BY <1>2, CorrectionOK DEF TypeInv
<1>4. book[b] \in Stats /\ sc.gl \in Totals BY <1>2 DEF TypeInv, FilesOK, Screen
<1>5. op'.st.secs = book[b].secs + by /\ op'.gl.secs = sc.gl.secs + by
  BY <1>1, <1>4 DEF Stats, Totals
<1>6. over' \subseteq {"merged", "ignored"} => totals = sc.gl
  <2>1. over' = over \cup Overwrites(book[b], b, sc.gl) BY DEF Correct
  <2>2. totals # sc.gl => ~(Overwrites(book[b], b, sc.gl) \subseteq {"merged", "ignored"})
    BY DEF Overwrites
  <2> QED BY <2>1, <2>2
<1>7. over' \subseteq {"merged", "ignored"} => Made'
  BY <1>1, <1>2, <1>3, <1>5, <1>6, ToCome DEF Made
<1> QED BY <1>1, <1>7 DEF CorrectionInv

LEMMA CorrectionWrites ==
  ASSUME TypeInv, CorrectionInv, Write
  PROVE  CorrectionInv'
<1>1. op \in Op /\ op.todo # <<>> /\ OpOK /\ ~Free
  BY DEF TypeInv, Write, OpInv, Free
<1>2. /\ op'.todo = Tail(op.todo) /\ op'.kind = op.kind /\ op'.failed = op.failed
      /\ op'.day = op.day /\ op'.book = op.book /\ op'.time = op.time
      /\ op'.st = op.st /\ op'.gl = op.gl /\ op'.was = op.was
  BY <1>1 DEF Write, Op
<1>3. over' = over /\ Written(Head(op.todo)) BY DEF Write
<1>4. SUFFICES ASSUME op.kind # "save", op.failed <= 1, over \subseteq {"merged", "ignored"}, Fits
               PROVE  IF op.kind = "undo" THEN TakenBack' ELSE Made'
  BY <1>2, <1>3 DEF CorrectionInv, Fits, Added
<1>5. op.todo \in Corrects \cup Undos BY <1>1, <1>4 DEF OpOK, Op
<1>6. /\ journal.secs[op.day] \in Nat /\ op.time \in Int /\ op.was.time \in Nat
      /\ op.day \in Day /\ op.book \in Book
      /\ journal \in [secs : [Day -> Nat], done : Nat] /\ book \in [Book -> Stats]
  BY <1>1 DEF TypeInv, FilesOK, Op
<1>7. journal'.secs[op.day] =
        IF Head(op.todo) = "time" THEN Shifted(journal.secs[op.day], op.time)
        ELSE journal.secs[op.day]
  BY <1>3, <1>6 DEF Written
<1>8. book'[op.book] = IF Head(op.todo) = "book" THEN op.st ELSE book[op.book]
  BY <1>3, <1>6 DEF Written
<1>9. totals' = IF Head(op.todo) = "totals" THEN op.gl ELSE totals BY <1>3 DEF Written
<1>10. CASE op.kind = "undo"
  <2>1. TakenBack BY <1>1, <1>4, <1>10 DEF CorrectionInv
  <2>2. op.was.time = journal'.secs[op.day]
    <3>1. CASE Head(op.todo) = "time"
      <4>1. journal.secs[op.day] + op.time = op.was.time
        BY <1>1, <1>5, <2>1, <3>1, ToCome DEF TakenBack
      <4> QED BY <1>6, <1>7, <3>1, <4>1 DEF Shifted
    <3>2. CASE Head(op.todo) # "time"
      BY <1>1, <1>5, <1>7, <2>1, <3>2, ToCome DEF TakenBack
    <3> QED BY <3>1, <3>2
  <2>3. Tail(op.todo) \notin BeforeBook => book'[op.book] = op.was.st
    BY <1>1, <1>5, <1>8, <2>1, ToCome DEF TakenBack
  <2>4. Tail(op.todo) \notin BeforeTotals => totals' = op.was.gl
    BY <1>1, <1>5, <1>9, <2>1, ToCome DEF TakenBack
  <2>5. Tail(op.todo) \notin BeforeTime BY <1>1, <1>5, ToCome
  <2>6. TakenBack' BY <1>2, <2>1, <2>2, <2>3, <2>4, <2>5 DEF TakenBack
  <2> QED BY <1>10, <2>6
<1>11. CASE op.kind # "undo"
  <2>1. Made BY <1>1, <1>4, <1>11 DEF CorrectionInv
  <2>2. op.was.time + op.time >= 0 BY <1>4, <1>11 DEF Fits, Added
  <2>3. journal'.secs[op.day] = op.was.time + op.time
    <3>1. CASE Head(op.todo) = "time"
      <4>1. journal.secs[op.day] = op.was.time
        BY <1>1, <1>5, <2>1, <3>1, ToCome DEF Made
      <4> QED BY <1>6, <1>7, <2>2, <3>1, <4>1 DEF Shifted
    <3>2. CASE Head(op.todo) # "time"
      BY <1>1, <1>5, <1>7, <2>1, <3>2, ToCome DEF Made
    <3> QED BY <3>1, <3>2
  <2>4. IF Tail(op.todo) \in BeforeBook THEN book'[op.book] = op.was.st
        ELSE book'[op.book].secs = op.st.secs
    BY <1>1, <1>5, <1>8, <2>1, ToCome DEF Made
  <2>5. IF Tail(op.todo) \in BeforeTotals THEN totals' = op.was.gl
        ELSE totals'.secs = op.gl.secs
    BY <1>1, <1>5, <1>9, <2>1, ToCome DEF Made
  <2>6. Tail(op.todo) \notin BeforeTime BY <1>1, <1>5, ToCome
  <2>7. Made' BY <1>2, <2>1, <2>3, <2>4, <2>5, <2>6 DEF Made
  <2> QED BY <1>11, <2>7
<1> QED BY <1>10, <1>11

(* Taking back starts from what had been made.                             *)
LEMMA UndoStarts ==
  ASSUME TypeInv, CorrectionInv, op \in Op, ~Free, op.kind = "correct", op.failed = 0,
         over \subseteq {"merged", "ignored"}, Fits, NEW todo \in Undos, op' = Undo(todo),
         UNCHANGED <<totals, journal>>,
         op.todo \in BeforeTime <=> todo \notin BeforeTime,
         todo \notin BeforeBook => op.todo \in BeforeBook /\ book' = book,
         todo \notin BeforeTotals => op.todo \in BeforeTotals
  PROVE  TakenBack'
<1>1. /\ op'.todo = todo /\ op'.day = op.day /\ op'.book = op.book /\ op'.was = op.was
      /\ op'.st = op.was.st /\ op'.gl = op.was.gl /\ op'.time = -op.time
  BY DEF Undo, Op
<1>2. Made BY DEF CorrectionInv
<1>3. journal.secs[op.day] \in Nat /\ op.time \in Int /\ op.was.time \in Nat
  BY DEF TypeInv, FilesOK, Op
<1>4. op.was.time = IF todo \in BeforeTime THEN journal.secs[op.day] - op.time
                    ELSE journal.secs[op.day]
  BY <1>2, <1>3 DEF Made
<1>5. todo \notin BeforeBook => book'[op.book] = op.was.st BY <1>2 DEF Made
<1>6. todo \notin BeforeTotals => totals = op.was.gl BY <1>2 DEF Made
<1> QED BY <1>1, <1>3, <1>4, <1>5, <1>6 DEF TakenBack

LEMMA FitsStays ==
  ASSUME op \in Op, op.kind = "correct", NEW todo \in Undos, op' = Undo(todo)
  PROVE  Fits' <=> Fits
<1>1. op'.was = op.was /\ op'.time = -op.time /\ op'.kind = "undo" BY DEF Undo, Op
<1>2. op.time \in Int /\ op.was.time \in Nat BY DEF Op
<1>3. Added' = Added BY <1>1, <1>2 DEF Added
<1> QED BY <1>1, <1>3 DEF Fits

LEMMA CorrectionFails ==
  ASSUME TypeInv, CorrectionInv, WriteFails
  PROVE  CorrectionInv'
<1>1. op \in Op /\ op.todo # <<>> /\ OpOK /\ ~Free /\ op.failed \in Nat
  BY DEF TypeInv, WriteFails, OpInv, Free, Op
<1>2. SUFFICES ASSUME op'.kind # "save", op'.failed <= 1, over \subseteq {"merged", "ignored"}, Fits'
               PROVE  IF op'.kind = "undo" THEN TakenBack' ELSE Made'
  BY DEF CorrectionInv, WriteFails
<1>3. CASE op.kind = "correct" /\ Noticed
  <2>1. op' = Undo(TakeBack(Head(op.todo))) /\ TakeBack(Head(op.todo)) \in Undos
    BY <1>3, TakeBackOK DEF WriteFails
  <2>2. op'.failed = op.failed + 1 /\ op'.kind = "undo" BY <1>1, <2>1, UndoOK
  <2>3. op.failed = 0 BY <1>1, <1>2, <2>2
  <2>4. Fits BY <1>1, <1>2, <1>3, <2>1, FitsStays
  <2>5. op.todo \in Corrects BY <1>1, <1>3 DEF OpOK
  <2>6. UNCHANGED <<totals, journal>> /\ (Head(op.todo) # "book" => book' = book)
    BY DEF WriteFails, Unwritten, Torn, Written, files
  <2>7. TakenBack'
    <3>1. CASE Head(op.todo) = "time"
      <4>1. TakeBack(Head(op.todo)) = <<>> BY <3>1 DEF TakeBack
      <4> QED BY <1>1, <1>2, <1>3, <2>1, <2>3, <2>4, <2>5, <2>6, <3>1, <4>1, ToCome, UndoStarts
    <3>2. CASE Head(op.todo) = "book"
      <4>1. TakeBack(Head(op.todo)) = <<"time", "book">> BY <3>2 DEF TakeBack
      <4> QED BY <1>1, <1>2, <1>3, <2>1, <2>3, <2>4, <2>5, <2>6, <3>2, <4>1, ToCome, UndoStarts
    <3>3. CASE Head(op.todo) \in {"totals", "ledger"}
      <4>1. TakeBack(Head(op.todo)) = <<"time", "book", "totals">> BY <3>3 DEF TakeBack
      <4> QED BY <1>1, <1>2, <1>3, <2>1, <2>3, <2>4, <2>5, <2>6, <3>3, <4>1, ToCome, UndoStarts
    <3> QED BY <1>1, <2>5, <3>1, <3>2, <3>3, ToCome
  <2> QED BY <2>2, <2>7
<1>4. CASE ~(op.kind = "correct" /\ Noticed)
  <2>1. op' = [op EXCEPT !.todo = Tail(@), !.failed = @ + 1] BY <1>4 DEF WriteFails
  <2>2. /\ op'.todo = Tail(op.todo) /\ op'.kind = op.kind /\ op'.failed = op.failed + 1
        /\ op'.day = op.day /\ op'.book = op.book /\ op'.time = op.time
        /\ op'.st = op.st /\ op'.gl = op.gl /\ op'.was = op.was
    BY <1>1, <2>1 DEF Op
  <2>3. op.failed = 0 BY <1>1, <1>2, <2>2
  <2>4. op.kind = "correct" /\ ~Noticed BY <1>1, <1>2, <1>4, <2>2, <2>3 DEF OpOK, Op
  <2>5. Made BY <1>1, <1>2, <2>2, <2>3, <2>4 DEF CorrectionInv, Fits, Added
  <2>6. op.todo \in Corrects BY <1>1, <2>4 DEF OpOK
  <2>7. op.was.st.secs \in Nat /\ op.was.gl.secs \in Nat /\ op.time \in Int /\ op.book \in Book
        /\ book \in [Book -> Stats]
    BY <1>1 DEF Op, Stats, Totals, TypeInv, FilesOK
  <2>8. Head(op.todo) # "totals"
    <3> SUFFICES ASSUME Head(op.todo) = "totals" PROVE FALSE
      OBVIOUS
    <3>1. totals' = totals BY DEF WriteFails, Unwritten, Torn, Written, files
    <3>2. totals = op.was.gl BY <1>1, <2>5, <2>6, ToCome DEF Made
    <3>3. totals'.secs = op.gl.secs BY <2>4 DEF Noticed
    <3> QED BY <2>5, <2>7, <3>1, <3>2, <3>3 DEF Made
  <2>9. Head(op.todo) = "book" /\ book'[op.book].secs = op.st.secs
    BY <1>1, <2>4, <2>6, <2>8, ToCome DEF Noticed
  <2>10. UNCHANGED <<totals, journal>>
    BY <2>9 DEF WriteFails, Unwritten, Torn, files
  <2>11. op.todo \notin BeforeTime /\ op.todo \in BeforeTotals
         /\ Tail(op.todo) \notin BeforeTime /\ Tail(op.todo) \notin BeforeBook
         /\ Tail(op.todo) \in BeforeTotals
    BY <1>1, <2>6, <2>9, ToCome
  <2>12. Made' BY <2>2, <2>5, <2>9, <2>10, <2>11 DEF Made
  <2> QED BY <2>2, <2>4, <2>12
<1> QED BY <1>3, <1>4

LEMMA CorrectionUnreadable ==
  ASSUME TypeInv, CorrectionInv, JournalUnreadable
  PROVE  CorrectionInv'
<1>1. op \in Op /\ op.todo # <<>> /\ OpOK /\ ~Free /\ op.failed \in Nat
  BY DEF TypeInv, JournalUnreadable, OpInv, Free, Op
<1>2. SUFFICES ASSUME op'.failed <= 1, over \subseteq {"merged", "ignored"}, Fits'
               PROVE  IF op'.kind = "undo" THEN TakenBack' ELSE Made'
  BY DEF CorrectionInv, JournalUnreadable
<1>3. op.kind = "correct" /\ op' = Undo(<<"time">>) /\ <<"time">> \in Undos
  BY DEF JournalUnreadable, Undos
<1>4. op'.failed = op.failed + 1 /\ op'.kind = "undo" BY <1>1, <1>3, UndoOK
<1>5. op.failed = 0 BY <1>1, <1>2, <1>4
<1>6. Fits BY <1>1, <1>2, <1>3, FitsStays
<1>7. op.todo \in Corrects /\ Head(op.todo) = "book" BY <1>1, <1>3 DEF OpOK, JournalUnreadable
<1>8. UNCHANGED <<book, totals, journal>> BY DEF JournalUnreadable
<1>9. op.todo \notin BeforeTime /\ op.todo \in BeforeBook /\ op.todo \in BeforeTotals
  BY <1>1, <1>7, ToCome
<1>10. TakenBack' BY <1>1, <1>2, <1>3, <1>5, <1>6, <1>8, <1>9, ToCome, UndoStarts
<1> QED BY <1>4, <1>10

(* Nothing else touches a correction that is under way.                    *)
LEMMA SavesOnly ==
  ASSUME NEW b, op'.kind = Task(b).kind
  PROVE  CorrectionInv'
BY DEF CorrectionInv, Task

LEMMA CorrectionOther ==
  ASSUME CorrectionInv,
         \/ PowerLoss \/ Finish \/ FirstPageDrawn \/ Read
         \/ ToggleCompleted \/ ToggleIgnored \/ SaveBook
         \/ Leave \/ ShowAfterReading \/ OpenStats \/ EditCompletion \/ EditDate \/ SaveStats
         \/ Return \/ CloseHomeStats
         \/ \E b \in Book : Open(b) \/ OpenHomeStats(b) \/ OpenOther(b) \/ BrowserToggle(b)
  PROVE  CorrectionInv'
<1>1. Free' => CorrectionInv' BY DEF CorrectionInv
<1>2. CASE PowerLoss \/ Finish BY <1>1, <1>2 DEF PowerLoss, Finish, Free
<1>3. CASE FirstPageDrawn BY <1>1, <1>3 DEF FirstPageDrawn, Reading, Free
<1>4. CASE Read BY <1>1, <1>4 DEF Read, Reading, Free
<1>5. CASE OpenStats BY <1>1, <1>5 DEF OpenStats, Reading, Free
<1>6. CASE EditDate
  <2>1. op' = op \/ op' = DateCounted BY <1>6 DEF EditDate, DateCounted
  <2>2. CASE op' = op BY <1>1, <1>6, <2>2 DEF EditDate, Browsing, OnScreen, Free
  <2>3. CASE op' = DateCounted
    <3>1. op'.kind = Task(sc.page).kind BY <2>3 DEF DateCounted, Task
    <3> QED BY <3>1, SavesOnly
  <2> QED BY <2>1, <2>2, <2>3
<1>18. CASE ToggleIgnored
  <2>1. op'.kind = Task(rd.book).kind BY <1>18 DEF ToggleIgnored, Task
  <2> QED BY <2>1, SavesOnly
<1>7. CASE Return BY <1>1, <1>7 DEF Return, Browsing, OnScreen, Free
<1>8. CASE CloseHomeStats BY <1>1, <1>8 DEF CloseHomeStats, Browsing, OnScreen, Free
<1>9. ASSUME NEW b \in Book, Open(b) \/ OpenHomeStats(b) \/ OpenOther(b)
      PROVE  CorrectionInv'
  BY <1>1, <1>9 DEF Open, OpenHomeStats, OpenOther, AtHome, Browsing, OnScreen, Free
<1>10. CASE ToggleCompleted
  <2>1. op'.kind = Task(rd.book).kind BY <1>10 DEF ToggleCompleted, Task
  <2> QED BY <2>1, SavesOnly
<1>11. CASE SaveBook
  <2>1. op'.kind = Task(rd.book).kind BY <1>11 DEF SaveBook, Task
  <2> QED BY <2>1, SavesOnly
<1>12. CASE EditCompletion
  <2>1. op'.kind = Task(sc.page).kind BY <1>12 DEF EditCompletion, Task
  <2> QED BY <2>1, SavesOnly
<1>13. CASE SaveStats
  <2>1. op'.kind = Task(sc.page).kind BY <1>13 DEF SaveStats, Task
  <2> QED BY <2>1, SavesOnly
<1>14. ASSUME NEW b \in Book, BrowserToggle(b) PROVE CorrectionInv'
  <2>1. op'.kind = Task(b).kind BY <1>14 DEF BrowserToggle, Task
  <2> QED BY <2>1, SavesOnly
<1>15. ASSUME NEW r, NEW next, Commit(r, next) PROVE CorrectionInv'
  <2>1. op'.kind = Task(r.book).kind BY <1>15 DEF Commit, Task
  <2> QED BY <2>1, SavesOnly
<1>16. CASE ShowAfterReading BY <1>15, <1>16 DEF ShowAfterReading
<1>17. CASE Leave BY <1>1, <1>15, <1>17 DEF Leave, Free
<1> QED
  BY <1>2, <1>3, <1>4, <1>5, <1>6, <1>7, <1>8, <1>9, <1>10, <1>11, <1>12, <1>13, <1>14,
     <1>16, <1>17, <1>18

LEMMA CorrectionStep == TypeInv /\ CorrectionInv /\ [Next]_vars => CorrectionInv'
<1> SUFFICES ASSUME TypeInv, CorrectionInv, [Next]_vars PROVE CorrectionInv'
  OBVIOUS
<1>1. CASE Write BY <1>1, CorrectionWrites
<1>2. CASE WriteFails BY <1>2, CorrectionFails
<1>3. CASE JournalUnreadable BY <1>3, CorrectionUnreadable
<1>4. ASSUME NEW b \in Book, NEW d \in Day, Correct(d, b) PROVE CorrectionInv'
  BY <1>4, CorrectionStarts
<1>5. CASE UNCHANGED vars
  BY <1>5 DEF vars, CorrectionInv, Free, Fits, Added, Made, TakenBack
<1> QED BY <1>1, <1>2, <1>3, <1>4, <1>5, CorrectionOther DEF Next

(* For any number of books and days and wherever the one failing call      *)
(* comes: a correction ends in the book, the totals and the journal, or in *)
(* none of them.                                                           *)
THEOREM CorrectionsAtomic == Spec => []CorrectionAtomic
<1>1. Init => CorrectionInv BY DEF Init, CorrectionInv, Free
<1>2. CorrectionInv => CorrectionAtomic
  <2> SUFFICES ASSUME CorrectionInv, ~Free, op.kind # "save", op.todo = <<>>,
                      op.failed <= 1, over \subseteq {"merged", "ignored"}, Fits
               PROVE  IF op.kind = "undo"
                      THEN /\ book[op.book] = op.was.st /\ totals = op.was.gl
                           /\ journal.secs[op.day] = op.was.time
                      ELSE /\ book[op.book].secs = op.was.st.secs + op.time
                           /\ totals.secs = op.was.gl.secs + op.time
                           /\ journal.secs[op.day] = op.was.time + op.time
    BY DEF CorrectionAtomic
  <2>1. CASE op.kind = "undo" BY <2>1, ToCome DEF CorrectionInv, TakenBack
  <2>2. CASE op.kind # "undo" BY <2>2, ToCome DEF CorrectionInv, Made
  <2> QED BY <2>1, <2>2
<1> QED BY <1>1, <1>2, InitType, NextType, CorrectionStep, PTL DEF Spec

-----------------------------------------------------------------------------
(* What the reader has in memory and what the card will have.              *)

WithBook   == {<<"book", "totals", "done">>, <<"book">>, <<"book", "totals">>,
               <<"book", "totals", "time", "ledger">>}
WithTotals == {<<"totals", "done">>, <<"book", "totals", "done">>, <<"totals">>,
               <<"book", "totals">>, <<"totals", "time", "ledger">>,
               <<"book", "totals", "time", "ledger">>}

(* The reader's book and the totals once the operation has been completed. *)
BookToBe ==
  IF ~Free /\ op.book = rd.book /\ op.todo \in WithBook THEN op.st ELSE book[rd.book]
TotalsToBe == IF ~Free /\ op.todo \in WithTotals THEN op.gl ELSE totals

SeesAll ==
  /\ rd.st.done = BookToBe.done /\ rd.gl.done = TotalsToBe.done
  /\ Format[rd.book] = "xtc" => rd.st = BookToBe /\ rd.gl = TotalsToBe

(* The reader is on top and stays there.                                   *)
OnTop ==
  /\ faults = 0 /\ rd # Closed /\ rd.loaded /\ sc = Hidden
  /\ ~Free => op.next = "stay"

HomeOnly == sc # Hidden /\ sc.from = "home" => rd = Closed

SeesInv == HomeOnly /\ (OnTop => SeesAll)

LEMMA WhatIsWritten ==
  /\ \A l \in Saves : l # <<>> =>
       /\ IF Head(l) = "book" THEN l \in WithBook /\ Tail(l) \notin WithBook
          ELSE Tail(l) \in WithBook <=> l \in WithBook
       /\ IF Head(l) = "totals" THEN l \in WithTotals /\ Tail(l) \notin WithTotals
          ELSE Tail(l) \in WithTotals <=> l \in WithTotals
  /\ <<>> \notin WithBook /\ <<>> \notin WithTotals
  /\ <<"book", "totals", "done">> \in WithBook \cap WithTotals
  /\ <<"book">> \in WithBook /\ <<"book">> \notin WithTotals
BY DEF Saves, WithBook, WithTotals

LEMMA SeesWrites ==
  ASSUME TypeInv, SeesInv, Write
  PROVE  SeesInv'
<1>1. op \in Op /\ op.todo # <<>> /\ OpOK /\ ~Free /\ rd \in Reader \cup {Closed}
  BY DEF TypeInv, Write, OpInv, Free, ScreensOK
<1>2. /\ op' = [op EXCEPT !.todo = Tail(@)] /\ UNCHANGED <<rd, sc, faults>>
      /\ Written(Head(op.todo))
  BY DEF Write
<1>3. /\ op'.todo = Tail(op.todo) /\ op'.book = op.book /\ op'.st = op.st
      /\ op'.gl = op.gl /\ op'.next = op.next /\ op' # Idle
  BY <1>1, <1>2 DEF Op, Idle
<1>4. HomeOnly' BY <1>2 DEF SeesInv, HomeOnly
<1>5. ASSUME OnTop' PROVE SeesAll'
  <2>1. OnTop BY <1>1, <1>2, <1>3, <1>5 DEF OnTop, Free
  <2>2. SeesAll BY <2>1 DEF SeesInv
  <2>3. op.todo \in Saves BY <1>1, <2>1 DEF OnTop, OpOK, Op
  <2>4. rd \in Reader /\ rd.book \in Book BY <1>1, <2>1 DEF OnTop, Reader
  <2>5. BookToBe' = BookToBe
    <3>1. book'[rd.book] = IF Head(op.todo) = "book" /\ op.book = rd.book THEN op.st
                           ELSE book[rd.book]
      BY <1>2, <2>4 DEF Written, TypeInv, FilesOK
    <3> QED BY <1>1, <1>2, <1>3, <2>3, <3>1, WhatIsWritten DEF BookToBe, Free
  <2>6. TotalsToBe' = TotalsToBe
    <3>1. totals' = IF Head(op.todo) = "totals" THEN op.gl ELSE totals
      BY <1>2 DEF Written
    <3> QED BY <1>1, <1>3, <2>3, <3>1, WhatIsWritten DEF TotalsToBe, Free
  <2> QED BY <1>2, <2>2, <2>5, <2>6 DEF SeesAll
<1> QED BY <1>4, <1>5 DEF SeesInv

LEMMA SeesFinish ==
  ASSUME TypeInv, SeesInv, Finish
  PROVE  SeesInv'
<1>1. op \in Op /\ OpOK /\ ~Free /\ op.todo = <<>> /\ op' = Idle
      /\ UNCHANGED <<book, totals, faults>>
  BY DEF TypeInv, Finish, OpInv, Free
<1>2. CASE op.kind = "correct" /\ Corrected
  <2>1. sc \in Screen BY <1>1, <1>2 DEF OpOK, TypeInv, ScreensOK
  <2>2. sc'.from = sc.from /\ sc' # Hidden
    <3>1. sc' \in Screen \cup {Hidden} BY FinishType DEF TypeInv, ScreensOK
    <3>2. sc'.from = sc.from /\ sc'.page = sc.page
      BY <1>2, <2>1 DEF Corrected, AfterCorrection, Screen
    <3>3. sc.page # None BY <2>1, EditsAssumption DEF Screen
    <3> QED BY <3>2, <3>3 DEF Hidden
  <2> QED BY <1>2, <2>1, <2>2, Kinds DEF SeesInv, HomeOnly, OnTop, Corrected
<1>3. CASE rd' = Closed BY <1>3 DEF SeesInv, HomeOnly, OnTop
<1>4. CASE sc' = Shown(rd.book, "after", rd.gl, 0)
  BY <1>4 DEF SeesInv, HomeOnly, OnTop, Shown, Hidden
<1>5. CASE op.next = "stay" /\ UNCHANGED <<rd, sc>>
  <2>1. OnTop' => OnTop BY <1>1, <1>5 DEF OnTop
  <2>2. BookToBe' = BookToBe /\ TotalsToBe' = TotalsToBe
    BY <1>1, <1>5, WhatIsWritten DEF BookToBe, TotalsToBe, Free
  <2> QED BY <1>5, <2>1, <2>2 DEF SeesInv, HomeOnly, SeesAll
<1> QED BY <1>2, <1>3, <1>4, <1>5 DEF Finish

(* A screen that has just been opened or loaded what it writes back.       *)
LEMMA SeesReader ==
  ASSUME TypeInv, SeesInv,
         \/ FirstPageDrawn \/ Read \/ Return
         \/ \E b \in Book : Open(b)
  PROVE  SeesInv'
<1>1. Free' /\ UNCHANGED <<book, totals>>
  BY DEF FirstPageDrawn, Read, Return, Open, Reading, Browsing, OnScreen, AtHome, Free
<1>2. Free BY DEF FirstPageDrawn, Read, Return, Open, Reading, Browsing, OnScreen, AtHome
<1>3. sc' = Hidden BY DEF FirstPageDrawn, Read, Return, Open, Reading, AtHome
<1>4. HomeOnly' BY <1>3 DEF HomeOnly
<1>5. SUFFICES ASSUME OnTop' PROVE SeesAll'
  BY <1>4 DEF SeesInv
<1>6. BookToBe' = book[rd'.book] /\ TotalsToBe' = totals
  BY <1>1 DEF BookToBe, TotalsToBe
<1>7. CASE \E b \in Book : Open(b)
  <2>1. PICK b \in Book : Open(b) BY <1>7
  <2>2. rd'.loaded BY <1>5 DEF OnTop
  <2>3. Format[b] = "xtc" /\ rd'.book = b /\ rd'.st = book[b] /\ rd'.gl = totals
    BY <2>1, <2>2 DEF Open
  <2> QED BY <1>6, <2>3 DEF SeesAll
<1>8. CASE FirstPageDrawn
  <2>1. rd \in Reader BY <1>8, Kinds DEF FirstPageDrawn, Reading, TypeInv, ScreensOK
  <2>2. rd'.book = rd.book /\ rd'.st = book[rd.book] /\ rd'.gl = totals
    BY <1>8, <2>1 DEF FirstPageDrawn, Loaded, Reader
  <2> QED BY <1>6, <2>2 DEF SeesAll
<1>9. CASE Read
  <2>1. rd \in Reader BY <1>9, Kinds DEF Read, Reading, TypeInv, ScreensOK
  <2>2. rd'.book = rd.book /\ rd'.st = rd.st /\ rd'.gl = rd.gl BY <1>9, <2>1 DEF Read, Reader
  <2>3. OnTop BY <1>2, <1>5, <1>9 DEF OnTop, Read, Reading
  <2>4. SeesAll BY <2>3 DEF SeesInv
  <2> QED BY <1>2, <1>6, <2>2, <2>4 DEF SeesAll, BookToBe, TotalsToBe
<1>10. CASE Return
  <2>1. rd # Closed BY <1>5, <1>10 DEF OnTop, Return, Imported, Reloaded, Closed
  <2>2. rd \in Reader /\ rd.st \in Stats /\ rd.gl \in Totals
    BY <2>1 DEF TypeInv, ScreensOK, Reader
  <2>3. CASE Format[rd.book] = "epub"
    <3>1. rd'.book = rd.book /\ rd'.st.done = book[rd.book].done /\ rd'.gl.done = totals.done
      BY <1>10, <2>2, <2>3 DEF Return, Imported, Reader, Stats, Totals
    <3> QED BY <1>6, <2>3, <3>1 DEF SeesAll
  <2>4. CASE Format[rd.book] # "epub"
    <3>1. rd'.book = rd.book /\ rd'.st = book[rd.book] /\ rd'.gl = totals
      BY <1>10, <2>2, <2>4 DEF Return, Reloaded, Reader
    <3> QED BY <1>6, <3>1 DEF SeesAll
  <2> QED BY <2>3, <2>4
<1> QED BY <1>7, <1>8, <1>9, <1>10

(* What a reader that stays on top saves.                                  *)
LEMMA SeesSaves ==
  ASSUME TypeInv, SeesInv, ToggleCompleted \/ ToggleIgnored \/ SaveBook
  PROVE  SeesInv'
<1>1. rd \in Reader /\ sc = Hidden /\ Free /\ UNCHANGED <<book, totals, sc, faults>>
  BY Kinds DEF ToggleCompleted, ToggleIgnored, SaveBook, Reading, TypeInv, ScreensOK
<1>2. HomeOnly' BY <1>1 DEF HomeOnly
<1>3. CASE ToggleCompleted
  <2>1. /\ op'.kind = "save" /\ op'.book = rd.book /\ op'.todo = <<"book", "totals", "done">>
        /\ op'.st = rd'.st /\ op'.gl = rd'.gl
    BY <1>3 DEF ToggleCompleted, Task
  <2>2. rd'.book = rd.book BY <1>1, <1>3 DEF ToggleCompleted, Reader
  <2>3. BookToBe' = rd'.st /\ TotalsToBe' = rd'.gl
    BY <2>1, <2>2, WhatIsWritten DEF BookToBe, TotalsToBe, Free, Idle
  <2> QED BY <1>2, <2>3 DEF SeesInv, SeesAll
<1>5. CASE ToggleIgnored
  <2>1. /\ op'.kind = "save" /\ op'.book = rd.book /\ op'.todo = <<"book">> /\ op'.st = rd'.st
        /\ op'.next = "stay"
    BY <1>5 DEF ToggleIgnored, Task
  <2>2. rd' = [rd EXCEPT !.st.done = ~rd.st.done] BY <1>5 DEF ToggleIgnored
  <2>3. rd'.book = rd.book /\ rd'.gl = rd.gl /\ rd'.loaded = rd.loaded
    BY <1>1, <2>2 DEF Reader
  <2>4. BookToBe' = rd'.st /\ TotalsToBe' = totals
    BY <1>1, <2>1, <2>3, WhatIsWritten DEF BookToBe, TotalsToBe, Free, Idle
  <2>5. TotalsToBe = totals BY <1>1 DEF TotalsToBe
  <2>6. OnTop' => OnTop BY <1>1, <2>3, Kinds DEF OnTop
  <2> QED BY <1>2, <2>3, <2>4, <2>5, <2>6 DEF SeesInv, SeesAll
<1>4. CASE SaveBook
  <2>1. /\ op'.kind = "save" /\ op'.book = rd.book /\ op'.todo = <<"book">> /\ op'.st = rd.st
        /\ rd' = rd
    BY <1>4 DEF SaveBook, Task
  <2>2. BookToBe' = rd.st /\ TotalsToBe' = totals
    BY <1>1, <2>1, WhatIsWritten DEF BookToBe, TotalsToBe, Free, Idle
  <2>3. TotalsToBe = totals BY <1>1 DEF TotalsToBe
  <2>4. OnTop' => OnTop BY <1>1, <2>1 DEF OnTop
  <2> QED BY <1>2, <2>1, <2>2, <2>3, <2>4 DEF SeesInv, SeesAll
<1> QED BY <1>3, <1>4, <1>5

(* The statistics screen on top, or no reader at all.                      *)
LEMMA SeesScreens ==
  ASSUME TypeInv, SeesInv,
         \/ OpenStats \/ EditCompletion \/ EditDate \/ SaveStats \/ CloseHomeStats
         \/ \E b \in Book :
              \/ OpenHomeStats(b) \/ OpenOther(b) \/ BrowserToggle(b)
              \/ \E d \in Day : Correct(d, b)
  PROVE  SeesInv'
<1>1. ASSUME sc' # Hidden, sc'.from # "home" \/ rd' = Closed PROVE SeesInv'
  BY <1>1 DEF SeesInv, HomeOnly, OnTop
<1>2. CASE OpenStats
  <2>1. sc'.from = "reader" /\ sc' # Hidden BY <1>2 DEF OpenStats, Shown, Hidden
  <2> QED BY <1>1, <2>1
<1>3. ASSUME NEW b \in Book, OpenHomeStats(b) PROVE SeesInv'
  <2>1. rd' = Closed /\ sc' # Hidden BY <1>3 DEF OpenHomeStats, AtHome, Shown, Hidden
  <2> QED BY <1>1, <2>1
<1>4. ASSUME OnScreen, rd' = rd, sc' # Hidden, sc'.from = sc.from PROVE SeesInv'
  BY <1>1, <1>4 DEF OnScreen, SeesInv, HomeOnly
<1>5. OnScreen => sc \in Screen BY DEF OnScreen, TypeInv, ScreensOK
<1>6. CASE EditCompletion
  <2>1. sc'.from = sc.from /\ sc' # Hidden
    BY <1>5, <1>6 DEF EditCompletion, Browsing, Screen, Hidden
  <2> QED BY <1>4, <1>6, <2>1 DEF EditCompletion, Browsing
<1>7. CASE EditDate
  <2>1. sc'.from = sc.from /\ sc' # Hidden BY <1>7, DateEdited, Kinds
  <2> QED BY <1>4, <1>7, <2>1 DEF EditDate, Browsing
<1>8. CASE SaveStats
  <2>1. sc'.from = sc.from /\ sc' # Hidden BY <1>5, <1>8 DEF SaveStats, Screen, Hidden
  <2> QED BY <1>4, <1>8, <2>1 DEF SaveStats
<1>9. ASSUME NEW b \in Book, OpenOther(b) PROVE SeesInv'
  <2>1. sc'.from = sc.from /\ sc' # Hidden BY <1>5, <1>9 DEF OpenOther, Browsing, Screen, Hidden
  <2> QED BY <1>4, <1>9, <2>1 DEF OpenOther, Browsing
<1>10. ASSUME NEW b \in Book, NEW d \in Day, Correct(d, b) PROVE SeesInv'
  BY <1>4, <1>10 DEF Correct, Browsing, OnScreen
<1>11. CASE CloseHomeStats
  BY <1>11 DEF CloseHomeStats, Browsing, OnScreen, SeesInv, HomeOnly, OnTop
<1>12. ASSUME NEW b \in Book, BrowserToggle(b) PROVE SeesInv'
  BY <1>12 DEF BrowserToggle, AtHome, SeesInv, HomeOnly, OnTop
<1> QED
  BY <1>2, <1>3, <1>6, <1>7, <1>8, <1>9, <1>10, <1>11, <1>12

LEMMA SeesLeave ==
  ASSUME TypeInv, SeesInv, Leave \/ ShowAfterReading
  PROVE  SeesInv'
<1>1. rd \in Reader BY Kinds DEF Leave, ShowAfterReading, Reading, TypeInv, ScreensOK
<1>2. ASSUME NEW r, NEW next \in {"close", "show"}, Commit(r, next) PROVE SeesInv'
  <2>1. op'.next = next /\ op'.kind = "save" BY <1>2 DEF Commit, Task
  <2>2. sc' = sc BY <1>2 DEF Commit
  <2>3. HomeOnly' BY <1>1, <2>2, Kinds DEF SeesInv, HomeOnly
  <2>4. ~OnTop' BY <2>1 DEF OnTop, Free, Idle
  <2> QED BY <2>3, <2>4 DEF SeesInv
<1>3. CASE ShowAfterReading BY <1>2, <1>3 DEF ShowAfterReading
<1>4. CASE Leave
  <2>1. CASE NeedsCommit(rd) BY <1>2, <1>4, <2>1 DEF Leave
  <2>2. CASE ~NeedsCommit(rd) BY <1>4, <2>2 DEF Leave, SeesInv, HomeOnly, OnTop
  <2> QED BY <2>1, <2>2
<1> QED BY <1>3, <1>4

LEMMA SeesFaults ==
  ASSUME TypeInv, SeesInv, WriteFails \/ JournalUnreadable \/ PowerLoss
  PROVE  SeesInv'
<1>1. faults \in Nat /\ faults' = faults + 1
  BY EditsAssumption DEF WriteFails, JournalUnreadable, PowerLoss, TypeInv, ScreensOK
<1>2. ~OnTop' BY <1>1 DEF OnTop
<1>3. HomeOnly' BY DEF WriteFails, JournalUnreadable, PowerLoss, SeesInv, HomeOnly
<1> QED BY <1>2, <1>3 DEF SeesInv

LEMMA SeesStep == TypeInv /\ SeesInv /\ [Next]_vars => SeesInv'
<1> SUFFICES ASSUME TypeInv, SeesInv, [Next]_vars PROVE SeesInv'
  OBVIOUS
<1>1. CASE UNCHANGED vars
  BY <1>1 DEF vars, SeesInv, HomeOnly, OnTop, SeesAll, BookToBe, TotalsToBe, Free
<1> QED
  BY <1>1, SeesWrites, SeesFinish, SeesReader, SeesSaves, SeesScreens, SeesLeave, SeesFaults
  DEF Next

(* For any books: a reader that is shown again knows every completion that *)
(* was saved over it, and an XTC reader everything that was.               *)
THEOREM EditsAreSeen == Spec => []ReaderSeesEdits
<1>1. Init => SeesInv BY DEF Init, SeesInv, HomeOnly, OnTop
<1>2. SeesInv => ReaderSeesEdits
  BY DEF SeesInv, OnTop, SeesAll, BookToBe, TotalsToBe, ReaderSeesEdits, Reading, Free
<1> QED BY <1>1, <1>2, InitType, NextType, SeesStep, PTL DEF Spec

-----------------------------------------------------------------------------
(* What the card will count once the operation has been completed.         *)

WithDone == {<<"done">>, <<"totals", "done">>, <<"book", "totals", "done">>}

JournalToBe ==
  IF ~Free /\ op.todo \in WithDone THEN Shifted(journal.done, op.count) ELSE journal.done

(* Which books will be completed.                                          *)
Marks ==
  [b \in Book |-> IF ~Free /\ op.book = b /\ op.todo \in WithBook THEN op.st.done
                  ELSE book[b].done]

(* Which books will be once the edits on the screen have been saved too.   *)
Edited == [Marks EXCEPT ![sc.page] = sc.done]

Completed(f) == Cardinality({b \in Book \ Ignored : f[b]})

(* No call has failed, no copies of an unloaded or sleeping reader have    *)
(* been written back, and nothing has been counted unequally.              *)
Sound == faults = 0 /\ over \subseteq {"epub", "lost"}

Staying == Free \/ op.next = "stay"

(* A reader that has not loaded its copies may show zero by chance.        *)
ReaderKnows ==
  /\ rd # Closed /\ sc = Hidden /\ Staying /\ rd.gl.done = TotalsToBe.done
       /\ rd.book \notin Ignored => rd.st.done = Marks[rd.book]
  /\ ~Free /\ op.next = "show" => rd.gl.done = TotalsToBe.done

(* The screen has the totals of the card, unless an unloaded reader gave   *)
(* it others.  If it has, edits not yet saved are in the journal alone.    *)
(* Only pages that are counted alike have been edited.                     *)
ScreenKnows ==
  sc # Hidden /\ Staying =>
    /\ IF sc.changed THEN sc.page \notin Ignored \cup PeersDone
       ELSE sc.page \in PeersDone => sc.foreign /\ sc.done
    /\ rd = Closed \/ rd.loaded => sc.seen.done = TotalsToBe.done
    /\ ~sc.changed => sc.gl.done = sc.seen.done
    /\ sc.seen.done = TotalsToBe.done =>
         IF sc.changed THEN sc.gl.done = JournalToBe /\ JournalToBe = Completed(Edited)
         ELSE sc.done = Merged(sc.page, Marks[sc.page])

(* A correction writes the completions the card has.                       *)
CorrectionKeeps ==
  ~Free /\ op.kind = "correct" =>
    /\ op.st.done = book[op.book].done /\ op.gl.done = totals.done
    /\ sc.seen.done = totals.done /\ ~sc.changed

(* The edits on a screen that is being left have been saved.               *)
LeftSaved == ~Free /\ op.next # "stay" /\ sc # Hidden => ~sc.changed

CardCounts ==
  /\ TotalsToBe.done = Completed(Marks)
  /\ ~(sc # Hidden /\ sc.changed) => JournalToBe = TotalsToBe.done

CountInv ==
  Sound => CardCounts /\ ReaderKnows /\ ScreenKnows /\ CorrectionKeeps /\ LeftSaved

LEMMA Recount ==
  ASSUME NEW f \in [Book -> BOOLEAN], NEW b \in Book \ Ignored
  PROVE  /\ Completed(f) \in Nat
         /\ Completed([f EXCEPT ![b] = ~f[b]]) = Shifted(Completed(f), Count(~f[b]))
         /\ Completed(f) = 0 => ~f[b]
<1> DEFINE S == {x \in Book \ Ignored : f[x]}
           g == [f EXCEPT ![b] = ~f[b]]
           T == {x \in Book \ Ignored : g[x]}
<1>1. IsFiniteSet(S) BY EditsAssumption, FS_Subset
<1>2. Cardinality(S) \in Nat BY <1>1, FS_CardinalityType
<1>3. CASE f[b]
  <2>1. T = S \ {b} BY <1>3
  <2>2. Cardinality(T) = Cardinality(S) - 1 BY <1>1, <1>3, <2>1, FS_RemoveElement
  <2>3. IsFiniteSet(T) BY <1>1, <2>1, FS_Subset
  <2>4. Cardinality(T) \in Nat BY <2>3, FS_CardinalityType
  <2> HIDE DEF S, T
  <2>5. Shifted(Cardinality(S), -1) = Cardinality(T) /\ Cardinality(S) # 0
    BY <1>2, <2>2, <2>4 DEF Shifted
  <2> QED BY <1>2, <1>3, <2>5 DEF S, T, Completed, Count
<1>4. CASE ~f[b]
  <2>1. T = S \cup {b} BY <1>4
  <2>2. Cardinality(T) = Cardinality(S) + 1 BY <1>1, <1>4, <2>1, FS_AddElement
  <2> HIDE DEF S, T
  <2>3. Shifted(Cardinality(S), 1) = Cardinality(T) BY <1>2, <2>2 DEF Shifted
  <2> QED BY <1>2, <1>4, <2>3 DEF S, T, Completed, Count
<1> QED BY <1>3, <1>4

LEMMA WhichWrite ==
  /\ \A l \in Saves : l # <<>> =>
       IF Head(l) = "done" THEN l \in WithDone /\ Tail(l) \notin WithDone
       ELSE Tail(l) \in WithDone <=> l \in WithDone
  /\ \A l \in Corrects : l \notin WithBook /\ l \notin WithTotals /\ l \notin WithDone
  /\ \A l \in Corrects : l # <<>> => Tail(l) \in Corrects /\ Head(l) # "done"
  /\ <<>> \notin WithBook /\ <<>> \notin WithTotals /\ <<>> \notin WithDone
BY DEF Saves, Corrects, WithBook, WithTotals, WithDone

LEMMA MarksType == TypeInv => Marks \in [Book -> BOOLEAN] /\ TotalsToBe \in Totals
<1> SUFFICES ASSUME TypeInv PROVE Marks \in [Book -> BOOLEAN] /\ TotalsToBe \in Totals
  OBVIOUS
<1>1. book \in [Book -> Stats] /\ totals \in Totals BY DEF TypeInv, FilesOK
<1>2. ~Free => op.st \in Stats /\ op.gl \in Totals BY DEF TypeInv, OpInv, Free, Op
<1> QED BY <1>1, <1>2 DEF Marks, TotalsToBe, Stats

(* Nothing is under way.                                                   *)
LEMMA MarksFree ==
  ASSUME Free
  PROVE  /\ Marks = [b \in Book |-> book[b].done] /\ TotalsToBe = totals
         /\ JournalToBe = journal.done
BY DEF Marks, TotalsToBe, JournalToBe

(* The next write brings about nothing that was not counted already.       *)
LEMMA CountWrites ==
  ASSUME TypeInv, CountInv, Write
  PROVE  CountInv'
<1>1. op \in Op /\ op.todo # <<>> /\ OpOK /\ ~Free
  BY DEF TypeInv, Write, OpInv, Free
<1>2. /\ op' = [op EXCEPT !.todo = Tail(@)] /\ UNCHANGED <<rd, sc, over, faults>>
      /\ Written(Head(op.todo))
  BY DEF Write
<1>3. /\ op'.todo = Tail(op.todo) /\ op'.book = op.book /\ op'.st = op.st /\ op'.kind = op.kind
      /\ op'.gl = op.gl /\ op'.next = op.next /\ op'.count = op.count /\ op' # Idle
  BY <1>1, <1>2 DEF Op, Idle
<1>4. SUFFICES ASSUME Sound PROVE CountInv'
  BY <1>2 DEF CountInv, Sound
<1>5. CardCounts /\ ReaderKnows /\ ScreenKnows /\ CorrectionKeeps /\ LeftSaved'
  BY <1>1, <1>2, <1>3, <1>4 DEF CountInv, LeftSaved, Free
<1>6. op.kind \in {"save", "correct"} /\ op.book \in Book /\ op.st \in Stats
  BY <1>1, <1>4 DEF Op, OpOK, Sound
<1>7. /\ book' = IF Head(op.todo) = "book" THEN [book EXCEPT ![op.book] = op.st] ELSE book
      /\ totals' = IF Head(op.todo) = "totals" THEN op.gl ELSE totals
      /\ book \in [Book -> Stats] /\ journal \in [secs : [Day -> Nat], done : Nat]
  BY <1>2 DEF Written, TypeInv, FilesOK
<1>8. journal'.done = IF Head(op.todo) = "done" THEN Shifted(journal.done, op.count)
                      ELSE journal.done
  BY <1>2, <1>7 DEF Written
<1>9. CASE op.kind = "save"
  <2>1. op.todo \in Saves BY <1>1, <1>9 DEF OpOK
  <2>2. Marks' = Marks
    <3> SUFFICES ASSUME NEW b \in Book PROVE Marks'[b] = Marks[b]
      BY DEF Marks
    <3> QED BY <1>1, <1>3, <1>6, <1>7, <2>1, WhatIsWritten DEF Marks, Free
  <2>3. TotalsToBe' = TotalsToBe
    BY <1>1, <1>3, <1>7, <2>1, WhatIsWritten DEF TotalsToBe, Free
  <2>4. JournalToBe' = JournalToBe
    BY <1>1, <1>3, <1>8, <2>1, WhichWrite DEF JournalToBe, Free
  <2>5. CorrectionKeeps' BY <1>3, <1>9 DEF CorrectionKeeps
  <2>6. Staying' <=> Staying BY <1>1, <1>3 DEF Staying, Free
  <2> HIDE DEF Marks, TotalsToBe, JournalToBe
  <2>7. Completed(Marks)' = Completed(Marks) /\ Completed(Edited)' = Completed(Edited)
    BY <1>2, <2>2 DEF Completed, Edited
  <2>8. CardCounts' BY <1>2, <1>5, <2>3, <2>4, <2>7 DEF CardCounts
  <2>9. ReaderKnows'
    BY <1>1, <1>2, <1>3, <1>5, <2>2, <2>3, <2>6 DEF ReaderKnows, Free
  <2>10. ScreenKnows' BY <1>2, <1>5, <2>2, <2>3, <2>4, <2>6, <2>7 DEF ScreenKnows, Merged
  <2> QED BY <1>5, <2>5, <2>8, <2>9, <2>10 DEF CountInv
<1>10. CASE op.kind = "correct"
  <2>1. op.todo \in Corrects /\ Tail(op.todo) \in Corrects BY <1>1, <1>10, WhichWrite DEF OpOK
  <2>2. op.st.done = book[op.book].done /\ op.gl.done = totals.done
    BY <1>1, <1>5, <1>10 DEF CorrectionKeeps
  <2>3. \A b \in Book : book'[b].done = book[b].done BY <1>6, <1>7, <2>2
  <2>4. totals'.done = totals.done BY <1>7, <2>2
  <2>5. Marks' = Marks BY <1>3, <2>1, <2>3, WhichWrite DEF Marks
  <2>6. TotalsToBe'.done = TotalsToBe.done BY <1>3, <2>1, <2>4, WhichWrite DEF TotalsToBe
  <2>7. JournalToBe' = JournalToBe BY <1>1, <1>3, <1>8, <2>1, WhichWrite DEF JournalToBe
  <2>8. CorrectionKeeps'
    BY <1>1, <1>2, <1>3, <1>5, <1>6, <1>10, <2>2, <2>3, <2>4 DEF CorrectionKeeps
  <2>9. Staying' <=> Staying BY <1>1, <1>3 DEF Staying, Free
  <2> HIDE DEF Marks, TotalsToBe, JournalToBe
  <2>10. Completed(Marks)' = Completed(Marks) /\ Completed(Edited)' = Completed(Edited)
    BY <1>2, <2>5 DEF Completed, Edited
  <2>11. CardCounts' BY <1>2, <1>5, <2>6, <2>7, <2>10 DEF CardCounts
  <2>12. ReaderKnows'
    BY <1>1, <1>2, <1>3, <1>5, <2>5, <2>6, <2>9 DEF ReaderKnows, Free
  <2>13. ScreenKnows' BY <1>2, <1>5, <2>5, <2>6, <2>7, <2>9, <2>10 DEF ScreenKnows, Merged
  <2> QED BY <1>5, <2>8, <2>11, <2>12, <2>13 DEF CountInv
<1> QED BY <1>6, <1>9, <1>10

LEMMA CountFaults ==
  ASSUME TypeInv, WriteFails \/ JournalUnreadable \/ PowerLoss
  PROVE  CountInv'
<1>1. faults \in Nat /\ faults' = faults + 1
  BY EditsAssumption DEF WriteFails, JournalUnreadable, PowerLoss, TypeInv, ScreensOK
<1> QED BY <1>1 DEF CountInv, Sound

LEMMA CountFinish ==
  ASSUME TypeInv, CountInv, Finish
  PROVE  CountInv'
<1>1. /\ op \in Op /\ OpOK /\ ~Free /\ op.todo = <<>> /\ op' = Idle /\ Free'
      /\ UNCHANGED <<book, totals, journal, over, faults>>
  BY DEF TypeInv, Finish, OpInv, Free
<1>2. SUFFICES ASSUME Sound PROVE CountInv'
  BY <1>1 DEF CountInv, Sound
<1>3. CardCounts /\ ReaderKnows /\ ScreenKnows /\ CorrectionKeeps /\ LeftSaved
  BY <1>2 DEF CountInv
<1>4. Marks' = Marks /\ Marks = [b \in Book |-> book[b].done]
  BY <1>1, WhichWrite DEF Marks, Free
<1>5. TotalsToBe' = TotalsToBe /\ TotalsToBe = totals BY <1>1, WhichWrite DEF TotalsToBe, Free
<1>6. JournalToBe' = JournalToBe BY <1>1, WhichWrite DEF JournalToBe, Free
<1>7. CorrectionKeeps' /\ LeftSaved' BY <1>1 DEF CorrectionKeeps, LeftSaved
<1>8. Completed(Marks)' = Completed(Marks) BY <1>4 DEF Completed
<1> HIDE DEF Marks, TotalsToBe, JournalToBe
<1>9. CASE op.kind = "correct" /\ Corrected
  <2>1. sc \in Screen /\ op.next = "stay" BY <1>1, <1>9 DEF OpOK, TypeInv, ScreensOK
  <2>2. /\ op.st.done = book[op.book].done /\ op.gl.done = totals.done
        /\ sc.seen.done = totals.done /\ ~sc.changed /\ sc # Hidden /\ sc.page \in Book
    BY <1>1, <1>3, <1>9, <2>1, Kinds DEF CorrectionKeeps, Screen
  <2>3. /\ sc.done = Merged(sc.page, book[sc.page].done)
        /\ sc.page \in PeersDone => sc.foreign /\ sc.done
    BY <1>3, <1>4, <1>5, <2>1, <2>2 DEF ScreenKnows, Staying
  <2>9. sc' \in Screen \cup {Hidden} BY FinishType DEF TypeInv, ScreensOK
  <2>10. /\ sc'.page = sc.page /\ sc'.changed = sc.changed
         /\ sc'.gl = op.gl /\ sc'.seen = op.gl
         /\ sc'.done = IF op.book = sc.page THEN Merged(sc.page, op.st.done) ELSE sc.done
         /\ sc'.foreign = IF op.book = sc.page THEN sc.page \in PeersDated ELSE sc.foreign
    BY <1>9, <2>1 DEF Corrected, AfterCorrection, Screen
  <2>4. sc' # Hidden BY <2>2, <2>10, EditsAssumption DEF Hidden
  <2>11. sc'.page \in PeersDone => sc'.foreign /\ sc'.done
    BY <2>3, <2>10, EditsAssumption DEF Merged
  <2>5. CardCounts' BY <1>3, <1>5, <1>6, <1>8, <2>2, <2>10 DEF CardCounts
  <2>6. ReaderKnows' BY <1>1, <2>4 DEF ReaderKnows
  <2>7. sc'.done = Merged(sc'.page, Marks'[sc'.page])
    <3>1. Marks'[sc'.page] = book[sc.page].done BY <1>4, <2>2, <2>10
    <3> QED BY <2>2, <2>3, <2>10, <3>1
  <2>8. ScreenKnows' BY <1>5, <2>2, <2>4, <2>7, <2>10, <2>11, <1>1 DEF ScreenKnows, Merged
  <2> QED BY <1>7, <2>5, <2>6, <2>8 DEF CountInv
<1>10. CASE op.next = "close" /\ rd' = Closed /\ sc' = Hidden
  <2>1. CardCounts' BY <1>1, <1>3, <1>5, <1>6, <1>8, <1>10 DEF CardCounts, LeftSaved
  <2>2. ReaderKnows' /\ ScreenKnows' BY <1>1, <1>10 DEF ReaderKnows, ScreenKnows
  <2> QED BY <1>7, <2>1, <2>2 DEF CountInv
<1>11. CASE op.next = "show" /\ sc' = Shown(rd.book, "after", rd.gl, 0) /\ rd' = rd
  <2>1. rd \in Reader /\ rd.book \in Book BY <1>1, <1>11 DEF OpOK, TypeInv, ScreensOK, Reader
  <2>2. /\ sc' # Hidden /\ ~sc'.changed /\ sc'.seen = rd.gl /\ sc'.gl = rd.gl
        /\ sc'.page = rd.book /\ sc'.done = Merged(rd.book, book[rd.book].done)
        /\ rd.book \in PeersDone => sc'.foreign /\ sc'.done
    BY <1>11, EditsAssumption DEF Shown, Hidden, Merged
  <2>3. rd.gl.done = TotalsToBe.done BY <1>1, <1>3, <1>11 DEF ReaderKnows
  <2>4. CardCounts' BY <1>1, <1>3, <1>5, <1>6, <1>8, <1>11 DEF CardCounts, LeftSaved
  <2>5. ReaderKnows' BY <1>1, <2>2 DEF ReaderKnows
  <2>6. ScreenKnows' BY <1>1, <1>4, <1>5, <2>1, <2>2, <2>3 DEF ScreenKnows, Merged
  <2> QED BY <1>7, <2>4, <2>5, <2>6 DEF CountInv
<1>12. CASE op.next = "stay" /\ UNCHANGED <<rd, sc>>
  <2>1. Staying /\ Completed(Edited)' = Completed(Edited)
    BY <1>4, <1>12 DEF Staying, Completed, Edited
  <2>2. CardCounts' BY <1>3, <1>5, <1>6, <1>8, <1>12 DEF CardCounts
  <2>3. ReaderKnows' BY <1>1, <1>3, <1>4, <1>5, <1>12, <2>1 DEF ReaderKnows
  <2>4. ScreenKnows' BY <1>3, <1>4, <1>5, <1>6, <1>12, <2>1 DEF ScreenKnows, Merged
  <2> QED BY <1>7, <2>2, <2>3, <2>4 DEF CountInv
<1> QED BY <1>9, <1>10, <1>11, <1>12 DEF Finish

(* Nothing is written: only what the screens show can have changed.        *)
LEMMA CountQuiet ==
  ASSUME TypeInv, CountInv, TypeInv', Free,
         UNCHANGED <<book, totals, journal, op, over, faults>>,
         sc # Hidden /\ sc.changed => sc' # Hidden /\ sc'.changed,
         Sound => (rd' # Closed /\ sc' = Hidden /\ rd'.gl.done = totals.done
                     /\ rd'.book \notin Ignored => rd'.st.done = book[rd'.book].done),
         Sound /\ sc' # Hidden =>
           /\ IF sc'.changed THEN sc'.page \notin Ignored \cup PeersDone
              ELSE sc'.page \in PeersDone => sc'.foreign /\ sc'.done
           /\ rd' = Closed \/ rd'.loaded => sc'.seen.done = totals.done
           /\ ~sc'.changed => sc'.gl.done = sc'.seen.done
           /\ sc'.seen.done = totals.done =>
                IF sc'.changed THEN sc'.gl.done = journal.done
                                    /\ journal.done = Completed(Edited')
                ELSE sc'.done = Merged(sc'.page, book[sc'.page].done)
  PROVE  CountInv'
<1>1. Free' BY DEF Free
<1>2. SUFFICES ASSUME Sound PROVE CountInv'
  BY DEF CountInv, Sound
<1>3. CardCounts BY <1>2 DEF CountInv
<1>4. /\ Marks' = Marks /\ Marks = [b \in Book |-> book[b].done]
      /\ TotalsToBe' = totals /\ TotalsToBe = totals
      /\ JournalToBe' = journal.done /\ JournalToBe = journal.done
  BY <1>1, MarksFree DEF Marks, TotalsToBe, JournalToBe
<1> HIDE DEF Marks, TotalsToBe, JournalToBe
<1>5. CorrectionKeeps' /\ LeftSaved' BY <1>1 DEF CorrectionKeeps, LeftSaved
<1>6. Completed(Marks)' = Completed(Marks) /\ Completed(Edited)' = Completed(Edited')
  BY <1>4 DEF Completed
<1>7. CardCounts' BY <1>3, <1>4, <1>6 DEF CardCounts
<1>8. ReaderKnows'
  <2>1. rd' # Closed => rd'.book \in Book BY DEF TypeInv, ScreensOK, Reader
  <2> QED BY <1>1, <1>2, <1>4, <2>1 DEF ReaderKnows
<1>9. ScreenKnows'
  <2>1. sc' # Hidden => sc'.page \in Book BY DEF TypeInv, ScreensOK, Screen
  <2> QED BY <1>2, <1>4, <1>6, <2>1 DEF ScreenKnows, Merged
<1> QED BY <1>5, <1>7, <1>8, <1>9 DEF CountInv

(* The reader's screens, while nothing is written.                         *)
LEMMA CountReader ==
  ASSUME TypeInv, CountInv, TypeInv', FirstPageDrawn \/ Read \/ Return
  PROVE  CountInv'
<1>1. /\ Free /\ sc' = Hidden /\ (sc # Hidden => ~sc.changed)
      /\ UNCHANGED <<book, totals, journal, op, over, faults>>
  BY DEF FirstPageDrawn, Read, Return, Reading, Browsing, OnScreen
<1>2. SUFFICES ASSUME Sound, rd' # Closed, rd'.gl.done = totals.done, rd'.book \notin Ignored
               PROVE  rd'.st.done = book[rd'.book].done
  BY <1>1, CountQuiet
<1>3. rd # Closed
  BY <1>2 DEF FirstPageDrawn, Read, Return, Reading, Imported, Reloaded, Closed
<1>4. rd \in Reader /\ rd.st \in Stats /\ rd.gl \in Totals /\ rd.book \in Book
  BY <1>3 DEF TypeInv, ScreensOK, Reader
<1>5. CASE FirstPageDrawn BY <1>4, <1>5 DEF FirstPageDrawn, Loaded, Reader
<1>6. CASE Read
  <2>1. rd'.st = rd.st /\ rd'.gl = rd.gl /\ rd'.book = rd.book BY <1>4, <1>6 DEF Read, Reader
  <2>2. ReaderKnows /\ sc = Hidden /\ Staying
    BY <1>1, <1>2, <1>6 DEF CountInv, Read, Reading, Staying
  <2> QED BY <1>1, <1>2, <1>3, <1>4, <2>1, <2>2, MarksFree DEF ReaderKnows
<1>7. CASE Return
  <2>1. CASE Format[rd.book] = "epub"
    BY <1>4, <1>7, <2>1 DEF Return, Imported, Reader, Stats, Totals
  <2>2. CASE Format[rd.book] # "epub"
    BY <1>4, <1>7, <2>2 DEF Return, Reloaded, Reader
  <2> QED BY <2>1, <2>2
<1> QED BY <1>5, <1>6, <1>7

LEMMA CountOpens ==
  ASSUME TypeInv, CountInv, TypeInv', NEW b \in Book, Open(b)
  PROVE  CountInv'
<1>1. /\ Free /\ sc' = Hidden /\ sc = Hidden
      /\ UNCHANGED <<book, totals, journal, op, over, faults>>
  BY DEF Open, AtHome
<1>2. SUFFICES ASSUME Sound, rd' # Closed, rd'.gl.done = totals.done, rd'.book \notin Ignored
               PROVE  rd'.st.done = book[rd'.book].done
  BY <1>1, CountQuiet
<1>3. rd'.book = b BY DEF Open
<1>4. CASE Format[b] = "xtc" BY <1>4 DEF Open
<1>5. CASE Format[b] # "xtc"
  <2>1. rd'.st.done = FALSE /\ totals.done = 0 BY <1>2, <1>5 DEF Open, Blank, Zero
  <2>2. Completed(Marks) = 0
    BY <1>1, <1>2, <2>1, MarksFree DEF CountInv, CardCounts
  <2>3. ~Marks[b] BY <1>2, <1>3, <2>2, MarksType, Recount
  <2>4. Marks[b] = book[b].done BY <1>1, MarksFree
  <2>5. book[b].done \in BOOLEAN BY DEF TypeInv, FilesOK, Stats
  <2> QED BY <1>3, <2>1, <2>3, <2>4, <2>5
<1> QED BY <1>4, <1>5

(* A statistics screen is opened or left.                                  *)
LEMMA CountScreens ==
  ASSUME TypeInv, SeesInv, CountInv, TypeInv',
         \/ OpenStats \/ CloseHomeStats
         \/ \E b \in Book : OpenHomeStats(b)
  PROVE  CountInv'
<1>1. /\ Free /\ (sc # Hidden => ~sc.changed)
      /\ UNCHANGED <<book, totals, journal, op, over, faults>>
  BY DEF OpenStats, OpenHomeStats, CloseHomeStats, Reading, AtHome, Browsing, OnScreen
<1>2. CASE OpenStats
  <2>1. /\ sc' # Hidden /\ ~sc'.changed /\ sc'.seen = rd.gl /\ sc'.gl = rd.gl
        /\ sc'.page = rd.book
        /\ sc'.done = Merged(rd.book, IF rd.book \in Ignored THEN book[rd.book].done
                                      ELSE rd.st.done)
        /\ rd.book \in PeersDone => sc'.foreign /\ sc'.done
    BY <1>2, EditsAssumption DEF OpenStats, Shown, Hidden, Merged
  <2>2. rd' = rd /\ rd # Closed /\ sc = Hidden /\ rd \in Reader /\ rd.book \in Book
    BY <1>2 DEF OpenStats, Reading, TypeInv, ScreensOK, Reader
  <2>3. Sound /\ rd.loaded => rd.gl.done = totals.done
    BY <1>1, <2>2 DEF Sound, SeesInv, OnTop, SeesAll, TotalsToBe
  <2>4. Sound /\ rd.gl.done = totals.done /\ rd.book \notin Ignored =>
          rd.st.done = book[rd.book].done
    BY <1>1, <2>2, MarksFree DEF CountInv, ReaderKnows, Staying
  <2> QED BY <1>1, <2>1, <2>2, <2>3, <2>4, CountQuiet
<1>3. ASSUME NEW b \in Book, OpenHomeStats(b) PROVE CountInv'
  <2>1. /\ sc' # Hidden /\ ~sc'.changed /\ sc'.seen = totals /\ sc'.gl = totals
        /\ sc'.page = b /\ sc'.done = Merged(b, book[b].done)
        /\ b \in PeersDone => sc'.foreign /\ sc'.done
    BY <1>3, EditsAssumption DEF OpenHomeStats, Shown, Hidden, Merged
  <2> QED BY <1>1, <1>3, <2>1, CountQuiet
<1>4. CASE CloseHomeStats
  <2>1. rd' = Closed BY <1>4 DEF CloseHomeStats, Browsing, OnScreen, SeesInv, HomeOnly
  <2> QED BY <1>1, <1>4, <2>1, CountQuiet DEF CloseHomeStats
<1> QED BY <1>2, <1>3, <1>4

LEMMA CountDate ==
  ASSUME TypeInv, CountInv, TypeInv', EditDate
  PROVE  CountInv'
<1>1. SUFFICES ASSUME Sound' PROVE CountInv'
  BY DEF CountInv
<1>2. /\ Free /\ sc # Hidden /\ OnScreen /\ UNCHANGED <<book, totals, journal, rd, faults>>
      /\ over' = over \cup Unequal(sc.page, sc.foreign /\ sc.done)
  BY DEF EditDate, Browsing, OnScreen
<1>3. sc.page \notin Ignored /\ ~(sc.foreign /\ sc.done) /\ UNCHANGED over
  BY <1>1, <1>2 DEF Unequal, Sound
<1>4. Sound /\ UNCHANGED op
  BY <1>1, <1>2, <1>3, DateEdited DEF Sound
<1>5. /\ sc' # Hidden /\ sc'.changed /\ sc'.seen = sc.seen /\ sc'.gl = sc.gl
      /\ sc'.page = sc.page /\ sc'.done = sc.done /\ sc.page \in Book
  BY DateEdited, Kinds DEF Screen
<1>6. ScreenKnows /\ CardCounts /\ Staying BY <1>2, <1>4 DEF CountInv, Staying
<1>7. /\ Marks = [b \in Book |-> book[b].done] /\ TotalsToBe = totals
      /\ JournalToBe = journal.done /\ Marks' = Marks
  BY <1>2, <1>4, MarksFree DEF Marks, Free
<1>8. sc.page \notin PeersDone BY <1>2, <1>3, <1>6 DEF ScreenKnows
<1>9. Completed(Edited)' = Completed(Edited') /\ Edited' = Edited
  BY <1>5, <1>7 DEF Completed, Edited
<1>10. sc.done = book[sc.page].done => Edited = Marks BY <1>5, <1>7 DEF Edited
<1>12. Marks[sc.page] = book[sc.page].done BY <1>5, <1>7
<1>13. book[sc.page].done \in BOOLEAN BY <1>5 DEF TypeInv, FilesOK, Stats
<1> HIDE DEF Marks, TotalsToBe, JournalToBe, Edited
<1>11. /\ rd = Closed \/ rd.loaded => sc.seen.done = totals.done
       /\ sc.seen.done = totals.done =>
            sc.gl.done = journal.done /\ journal.done = Completed(Edited)
  <2>1. CASE sc.changed BY <1>2, <1>6, <1>7, <2>1 DEF ScreenKnows
  <2>2. CASE ~sc.changed
    <3>1. sc.seen.done = totals.done => sc.done = book[sc.page].done
      <4>1. sc.seen.done = totals.done => sc.done = Merged(sc.page, book[sc.page].done)
        BY <1>2, <1>6, <1>7, <1>12, <2>2 DEF ScreenKnows
      <4> QED BY <1>8, <1>13, <4>1 DEF Merged
    <3> QED BY <1>2, <1>6, <1>7, <1>10, <2>2, <3>1 DEF ScreenKnows, CardCounts
  <2> QED BY <2>1, <2>2
<1> QED BY <1>2, <1>3, <1>4, <1>5, <1>8, <1>9, <1>11, CountQuiet

LEMMA CountPages ==
  ASSUME TypeInv, CountInv, TypeInv', NEW b \in Book, OpenOther(b)
  PROVE  CountInv'
<1>1. /\ Free /\ sc # Hidden /\ ~sc.changed /\ sc \in Screen
      /\ UNCHANGED <<book, totals, journal, rd, op, over, faults>>
  BY DEF OpenOther, Browsing, OnScreen, TypeInv, ScreensOK
<1>2. Sound => /\ rd = Closed \/ rd.loaded => sc.seen.done = totals.done
               /\ sc.gl.done = sc.seen.done
  <2>1. Sound => ScreenKnows BY DEF CountInv
  <2>2. Staying BY <1>1 DEF Staying
  <2> QED BY <1>1, <2>1, <2>2, MarksFree DEF ScreenKnows
<1>3. /\ sc'.page = b /\ sc'.changed = sc.changed /\ sc'.seen = sc.seen /\ sc'.gl = sc.gl
      /\ sc'.done = Merged(b, book[b].done)
      /\ b \in PeersDone => sc'.foreign /\ sc'.done
  BY <1>1, EditsAssumption DEF OpenOther, Screen, Merged
<1>4. sc' # Hidden BY <1>3, EditsAssumption DEF Hidden
<1> QED BY <1>1, <1>2, <1>3, <1>4, CountQuiet

-----------------------------------------------------------------------------
(* A completion is set or cleared in the files and in the journal.         *)
LEMMA CountFlip ==
  ASSUME TypeInv, Free, CardCounts, sc = Hidden, NEW b \in Book \ Ignored,
         NEW gl \in Totals,
         UNCHANGED <<book, totals, journal, sc>>,
         gl.done = totals.done, op'.todo = <<"book", "totals", "done">>, op' # Idle,
         op'.book = b, op'.st.done = ~book[b].done,
         op'.gl = Counted(gl, ~book[b].done), op'.count = Count(~book[b].done)
  PROVE  /\ CardCounts'
         /\ Marks' = [Marks EXCEPT ![b] = ~book[b].done]
<1>1. /\ Marks = [x \in Book |-> book[x].done] /\ Marks \in [Book -> BOOLEAN]
      /\ TotalsToBe = totals /\ JournalToBe = journal.done
  BY MarksFree, MarksType
<1>2. op'.todo \in WithBook /\ op'.todo \in WithTotals /\ op'.todo \in WithDone
  BY WhatIsWritten DEF WithDone
<1>3. Marks' = [Marks EXCEPT ![b] = ~book[b].done]
  BY <1>1, <1>2 DEF Marks, Free
<1>4. TotalsToBe' = op'.gl /\ JournalToBe' = Shifted(journal.done, op'.count)
  BY <1>2 DEF TotalsToBe, JournalToBe, Free
<1>5. op'.gl.done = Shifted(totals.done, Count(~book[b].done)) BY DEF Counted, Totals
<1>6. journal.done = totals.done /\ totals.done = Completed(Marks) BY <1>1 DEF CardCounts
<1>7. Completed([Marks EXCEPT ![b] = ~Marks[b]]) = Shifted(Completed(Marks), Count(~Marks[b]))
  BY <1>1, Recount
<1>8. Marks[b] = book[b].done BY <1>1
<1>9. Completed(Marks)' = Completed([Marks EXCEPT ![b] = ~book[b].done])
  BY <1>3 DEF Completed
<1> HIDE DEF Marks, TotalsToBe, JournalToBe
<1>10. TotalsToBe'.done = Completed(Marks)' BY <1>4, <1>5, <1>6, <1>7, <1>8, <1>9
<1>11. JournalToBe' = TotalsToBe'.done BY <1>4, <1>5, <1>6
<1> QED BY <1>3, <1>10, <1>11 DEF CardCounts

(* What a save from an unloaded or sleeping reader leaves of soundness.    *)
LEMMA SoundSave ==
  ASSUME NEW st, NEW b, NEW gl, over' = over \cup Overwrites(st, b, gl),
         UNCHANGED faults, Sound'
  PROVE  /\ Sound
         /\ rd # Closed /\ ~rd.loaded => book[b] = st /\ totals = gl
         /\ sc # Hidden /\ op'.next = "close" => book[b] = st /\ totals = gl
BY DEF Sound, Overwrites

(* What a reader that is shown knows when what it saves is sound.          *)
LEMMA ReaderSaves ==
  ASSUME TypeInv, SeesInv, CountInv, Sound, Free, rd # Closed, sc = Hidden,
         ~rd.loaded => book[rd.book] = rd.st
  PROVE  /\ rd \in Reader /\ rd.book \in Book /\ rd.st \in Stats /\ rd.gl \in Totals
         /\ rd.st.done = book[rd.book].done
         /\ rd.loaded => rd.gl.done = totals.done
<1>1. rd \in Reader /\ rd.book \in Book /\ rd.st \in Stats /\ rd.gl \in Totals
  BY DEF TypeInv, ScreensOK, Reader
<1>2. rd.loaded => SeesAll BY DEF SeesInv, OnTop, Sound
<1> QED BY <1>1, <1>2 DEF SeesAll, BookToBe, TotalsToBe

LEMMA CountToggle ==
  ASSUME TypeInv, SeesInv, CountInv, ToggleCompleted
  PROVE  CountInv'
<1>1. /\ Free /\ rd # Closed /\ sc = Hidden /\ rd.book \notin Ignored
      /\ UNCHANGED <<book, totals, journal, sc, faults>>
      /\ over' = over \cup Overwrites(rd.st, rd.book, rd.gl)
  BY DEF ToggleCompleted, Reading
<1>2. SUFFICES ASSUME Sound' PROVE CountInv'
  BY DEF CountInv
<1>3. Sound /\ (~rd.loaded => book[rd.book] = rd.st /\ totals = rd.gl)
  BY <1>1, <1>2, SoundSave
<1>4. /\ rd \in Reader /\ rd.book \in Book /\ rd.st \in Stats /\ rd.gl \in Totals
      /\ rd.st.done = book[rd.book].done /\ rd.gl.done = totals.done
  BY <1>1, <1>3, ReaderSaves
<1> DEFINE done == ~rd.st.done
<1>13. Counts(done, over) = {Count(done)}
  <2>1. done \in BOOLEAN BY <1>4 DEF Stats
  <2>2. over \cap {"merged", "ignored"} = {} BY <1>3 DEF Sound
  <2> QED BY <2>1, <2>2, CountsOK
<1>5. /\ rd' = [rd EXCEPT !.st.done = done, !.gl = Counted(@, done)]
      /\ op' = [Task(rd.book) EXCEPT !.todo = <<"book", "totals", "done">>,
                 !.st = rd'.st, !.gl = rd'.gl, !.count = Count(done)]
  BY <1>13 DEF ToggleCompleted
<1>6. /\ op'.todo = <<"book", "totals", "done">> /\ op' # Idle /\ op'.book = rd.book
      /\ op'.st = rd'.st /\ op'.gl = rd'.gl /\ op'.count = Count(done)
      /\ op'.next = "stay" /\ op'.kind = "save"
  BY <1>5 DEF Task, Idle
<1>7. rd'.book = rd.book /\ rd'.st.done = done /\ rd'.gl = Counted(rd.gl, done)
  BY <1>4, <1>5 DEF Reader, Stats
<1>8. CardCounts BY <1>3 DEF CountInv
<1>9. CardCounts' /\ Marks' = [Marks EXCEPT ![rd.book] = ~book[rd.book].done]
  BY <1>1, <1>4, <1>6, <1>7, <1>8, CountFlip
<1>10. Marks'[rd.book] = done BY <1>4, <1>9, MarksType
<1> HIDE DEF Marks, TotalsToBe, JournalToBe
<1>11. ReaderKnows' BY <1>6, <1>7, <1>10 DEF ReaderKnows
<1>12. ScreenKnows' /\ CorrectionKeeps' /\ LeftSaved'
  BY <1>1, <1>6 DEF ScreenKnows, CorrectionKeeps, LeftSaved
<1> QED BY <1>9, <1>11, <1>12 DEF CountInv

(* A book left out of the statistics is counted nowhere.                   *)
LEMMA CountIgnored ==
  ASSUME TypeInv, SeesInv, CountInv, ToggleIgnored
  PROVE  CountInv'
<1>1. /\ Free /\ rd # Closed /\ sc = Hidden /\ rd.book \in Ignored
      /\ UNCHANGED <<book, totals, journal, sc, faults>>
      /\ over' = over \cup Overwrites(rd.st, rd.book, totals)
  BY DEF ToggleIgnored, Reading
<1>2. SUFFICES ASSUME Sound' PROVE CountInv'
  BY DEF CountInv
<1>3. Sound BY <1>1, <1>2, SoundSave
<1>4. rd \in Reader /\ rd.book \in Book BY <1>1 DEF TypeInv, ScreensOK, Reader
<1>5. /\ op'.todo = <<"book">> /\ op' # Idle /\ op'.book = rd.book
      /\ op'.next = "stay" /\ op'.kind = "save"
  BY DEF ToggleIgnored, Task, Idle
<1>6. op'.todo \in WithBook /\ op'.todo \notin WithTotals /\ op'.todo \notin WithDone
  BY <1>5, WhatIsWritten DEF WithDone
<1>7. rd'.book = rd.book BY <1>4 DEF ToggleIgnored, Reader
<1>8. CardCounts BY <1>3 DEF CountInv
<1>9. \A b \in Book \ Ignored : Marks'[b] = Marks[b]
  BY <1>1, <1>5 DEF Marks, Free
<1>10. TotalsToBe' = TotalsToBe /\ JournalToBe' = JournalToBe
  BY <1>1, <1>6 DEF TotalsToBe, JournalToBe, Free
<1> HIDE DEF Marks, TotalsToBe, JournalToBe
<1>11. Completed(Marks)' = Completed(Marks) BY <1>9 DEF Completed
<1>12. CardCounts' BY <1>1, <1>8, <1>10, <1>11 DEF CardCounts
<1>13. ReaderKnows' BY <1>1, <1>5, <1>7 DEF ReaderKnows
<1>14. ScreenKnows' /\ CorrectionKeeps' /\ LeftSaved'
  BY <1>1, <1>5 DEF ScreenKnows, CorrectionKeeps, LeftSaved
<1> QED BY <1>12, <1>13, <1>14 DEF CountInv

LEMMA CountBrowser ==
  ASSUME TypeInv, CountInv, NEW b \in Book, BrowserToggle(b)
  PROVE  CountInv'
<1>1. /\ Free /\ rd = Closed /\ sc = Hidden
      /\ UNCHANGED <<book, totals, journal, rd, sc, faults>>
      /\ over' = over \cup Unequal(b, FALSE)
  BY DEF BrowserToggle, AtHome
<1>2. SUFFICES ASSUME Sound' PROVE CountInv'
  BY DEF CountInv
<1>9. Sound /\ b \notin Ignored /\ over' \cap {"merged", "ignored"} = {}
  BY <1>1, <1>2 DEF Sound, Unequal
<1>3. book[b] \in Stats /\ totals \in Totals BY DEF TypeInv, FilesOK
<1>10. Counts(~book[b].done, over') = {Count(~book[b].done)}
  <2>1. (~book[b].done) \in BOOLEAN BY <1>3 DEF Stats
  <2> QED BY <1>9, <2>1, CountsOK
<1>4. /\ op'.todo = <<"book", "totals", "done">> /\ op' # Idle /\ op'.book = b
      /\ op'.st = [book[b] EXCEPT !.done = ~book[b].done]
      /\ op'.gl = Counted(totals, ~book[b].done) /\ op'.count = Count(~book[b].done)
      /\ op'.next = "stay" /\ op'.kind = "save"
  BY <1>10 DEF BrowserToggle, Task, Idle
<1>5. op'.st.done = ~book[b].done BY <1>3, <1>4 DEF Stats
<1>6. CardCounts BY <1>9 DEF CountInv
<1>7. CardCounts' BY <1>1, <1>3, <1>4, <1>5, <1>6, <1>9, CountFlip
<1>8. ReaderKnows' /\ ScreenKnows' /\ CorrectionKeeps' /\ LeftSaved'
  BY <1>1, <1>4 DEF ReaderKnows, ScreenKnows, CorrectionKeeps, LeftSaved
<1> QED BY <1>7, <1>8 DEF CountInv

(* A save that changes no completion.                                      *)
LEMMA CountSame ==
  ASSUME TypeInv, Free, UNCHANGED <<book, totals, journal>>, op' # Idle,
         op'.todo \in WithBook => op'.st.done = book[op'.book].done,
         op'.todo \in WithTotals => op'.gl.done = totals.done,
         op'.todo \notin WithDone
  PROVE  /\ Marks' = Marks /\ TotalsToBe'.done = totals.done
         /\ JournalToBe' = journal.done
         /\ CardCounts /\ ~(sc # Hidden /\ sc.changed) => CardCounts'
<1>1. Marks = [b \in Book |-> book[b].done] /\ TotalsToBe = totals /\ JournalToBe = journal.done
  BY MarksFree
<1>2. Marks' = Marks
  <2> SUFFICES ASSUME NEW b \in Book PROVE Marks'[b] = Marks[b]
    BY DEF Marks
  <2> QED BY <1>1 DEF Marks, Free
<1>3. TotalsToBe'.done = totals.done BY DEF TotalsToBe, Free
<1>4. JournalToBe' = journal.done BY DEF JournalToBe, Free
<1>5. Completed(Marks)' = Completed(Marks) BY <1>2 DEF Completed
<1> HIDE DEF Marks, TotalsToBe, JournalToBe
<1> QED BY <1>1, <1>2, <1>3, <1>4, <1>5 DEF CardCounts

LEMMA CountSaveBook ==
  ASSUME TypeInv, SeesInv, CountInv, SaveBook
  PROVE  CountInv'
<1>1. /\ Free /\ rd # Closed /\ sc = Hidden
      /\ UNCHANGED <<book, totals, journal, rd, sc, faults>>
      /\ over' = over \cup Overwrites(rd.st, rd.book, totals)
  BY DEF SaveBook, Reading
<1>2. SUFFICES ASSUME Sound' PROVE CountInv'
  BY DEF CountInv
<1>3. Sound /\ (~rd.loaded => book[rd.book] = rd.st) BY <1>1, <1>2, SoundSave
<1>4. rd \in Reader /\ rd.book \in Book /\ rd.st.done = book[rd.book].done
  BY <1>1, <1>3, ReaderSaves
<1>5. /\ op'.todo = <<"book">> /\ op' # Idle /\ op'.book = rd.book /\ op'.st = rd.st
      /\ op'.next = "stay" /\ op'.kind = "save"
  BY DEF SaveBook, Task, Idle
<1>6. op'.todo \notin WithTotals /\ op'.todo \notin WithDone
  BY <1>5, WhatIsWritten DEF WithDone
<1>7. CardCounts BY <1>3 DEF CountInv
<1>8. Marks' = Marks /\ CardCounts'
  BY <1>1, <1>4, <1>5, <1>6, <1>7, CountSame
<1>9. Marks[rd.book] = book[rd.book].done BY <1>1, <1>4, MarksFree
<1> HIDE DEF Marks, TotalsToBe, JournalToBe
<1>10. ReaderKnows' BY <1>1, <1>4, <1>5, <1>8, <1>9 DEF ReaderKnows
<1>11. ScreenKnows' /\ CorrectionKeeps' /\ LeftSaved'
  BY <1>1, <1>5 DEF ScreenKnows, CorrectionKeeps, LeftSaved
<1> QED BY <1>8, <1>10, <1>11 DEF CountInv

(* The commit of a session: its copies have the completions of the card.   *)
LEMMA CountCommit ==
  ASSUME TypeInv, SeesInv, CountInv, Free, rd # Closed, sc # Hidden => ~sc.changed,
         NEW next \in {"close", "show"}, next = "show" => sc = Hidden,
         Commit(Loaded(rd), next)
  PROVE  CountInv'
<1> DEFINE r == Loaded(rd)
<1>1. /\ rd' = Recorded(r) /\ UNCHANGED <<book, totals, journal, sc, faults>>
      /\ over' = over \cup Overwrites(r.st, r.book, r.gl)
  BY DEF Commit
<1>2. SUFFICES ASSUME Sound' PROVE CountInv'
  BY DEF CountInv
<1>3. /\ op' # Idle /\ op'.book = r.book /\ op'.st = rd'.st /\ op'.gl = rd'.gl
      /\ op'.next = next /\ op'.kind = "save"
      /\ op'.todo \in {<<"book", "totals", "time", "ledger">>, <<"book", "totals">>}
  BY DEF Commit, Task, Idle
<1>4. op'.todo \notin WithDone /\ op'.todo \in WithTotals
  BY <1>3 DEF WithDone, WithTotals
<1>5. Sound /\ (sc # Hidden => book[r.book] = r.st /\ totals = r.gl)
  BY <1>1, <1>2, <1>3, SoundSave
<1>6. rd \in Reader /\ r \in Reader /\ r.book = rd.book
  BY LoadedOK DEF TypeInv, ScreensOK
<1>7. r.st.done = book[r.book].done /\ r.gl.done = totals.done
  <2>1. CASE ~rd.loaded BY <1>6, <2>1 DEF Loaded, Reader
  <2>2. CASE rd.loaded /\ sc = Hidden
    <3>1. r = rd BY <2>2 DEF Loaded
    <3> QED BY <1>5, <2>2, <3>1, ReaderSaves
  <2> QED BY <1>5, <2>1, <2>2
<1>8. rd'.st.done = r.st.done /\ rd'.gl.done = r.gl.done
  BY <1>1, <1>6 DEF Recorded, Reader, Stats, Totals
<1>9. CardCounts BY <1>5 DEF CountInv
<1>10. CardCounts' /\ TotalsToBe' = op'.gl
  <2>1. CardCounts' BY <1>1, <1>3, <1>4, <1>7, <1>8, <1>9, CountSame
  <2>2. TotalsToBe' = op'.gl BY <1>3, <1>4 DEF TotalsToBe, Free
  <2> QED BY <2>1, <2>2
<1> HIDE DEF r, Marks, TotalsToBe, JournalToBe
<1>11. ReaderKnows' /\ ScreenKnows' /\ CorrectionKeeps' /\ LeftSaved'
  BY <1>1, <1>3, <1>10
  DEF ReaderKnows, ScreenKnows, CorrectionKeeps, LeftSaved, Staying, Free
<1> QED BY <1>10, <1>11 DEF CountInv

LEMMA CountLeave ==
  ASSUME TypeInv, SeesInv, CountInv, TypeInv', Leave \/ ShowAfterReading
  PROVE  CountInv'
<1>1. CASE ShowAfterReading
  BY <1>1, CountCommit DEF ShowAfterReading, Reading
<1>2. CASE Leave
  <2>1. CASE NeedsCommit(rd) BY <1>2, <2>1, CountCommit DEF Leave
  <2>2. CASE ~NeedsCommit(rd)
    <3>1. Free /\ rd' = Closed /\ sc' = Hidden /\ (sc # Hidden => ~sc.changed)
          /\ UNCHANGED <<book, totals, journal, op, over, faults>>
      BY <1>2, <2>2 DEF Leave
    <3> QED BY <3>1, CountQuiet
  <2> QED BY <2>1, <2>2
<1> QED BY <1>1, <1>2

-----------------------------------------------------------------------------
(* The statistics screen's edits.                                          *)

(* What the screen knows between two operations.                           *)
LEMMA ScreenFree ==
  ASSUME TypeInv, CountInv, Sound, OnScreen
  PROVE  /\ sc \in Screen /\ sc.page \in Book /\ sc.gl \in Totals /\ sc.done \in BOOLEAN
         /\ rd = Closed \/ rd.loaded => sc.seen.done = totals.done
         /\ ~sc.changed => sc.gl.done = sc.seen.done
         /\ IF sc.changed THEN sc.page \notin Ignored \cup PeersDone
            ELSE sc.page \in PeersDone => sc.foreign /\ sc.done
         /\ sc.seen.done = totals.done =>
              /\ sc.gl.done = journal.done
              /\ sc.page \notin PeersDone => journal.done = Completed(Edited)
              /\ ~sc.changed => sc.done = Merged(sc.page, book[sc.page].done)
<1>1. sc \in Screen /\ sc.page \in Book /\ sc.gl \in Totals /\ sc.done \in BOOLEAN
  BY DEF Browsing, OnScreen, TypeInv, ScreensOK, Screen
<1>2. ScreenKnows /\ CardCounts /\ Staying /\ Free /\ sc # Hidden
  BY DEF CountInv, Browsing, OnScreen, Staying
<1>3. Marks = [b \in Book |-> book[b].done] /\ TotalsToBe = totals /\ JournalToBe = journal.done
  BY <1>2, MarksFree
<1>4. sc.done = book[sc.page].done => Edited = Marks BY <1>1, <1>3 DEF Edited
<1>5. Marks[sc.page] = book[sc.page].done BY <1>1, <1>3
<1>8. book[sc.page].done \in BOOLEAN BY <1>1 DEF TypeInv, FilesOK, Stats
<1> HIDE DEF Marks, TotalsToBe, JournalToBe, Edited
<1>6. /\ rd = Closed \/ rd.loaded => sc.seen.done = totals.done
      /\ ~sc.changed => sc.gl.done = sc.seen.done
      /\ IF sc.changed THEN sc.page \notin Ignored \cup PeersDone
         ELSE sc.page \in PeersDone => sc.foreign /\ sc.done
      /\ sc.seen.done = totals.done /\ ~sc.changed =>
           sc.done = Merged(sc.page, book[sc.page].done)
  BY <1>2, <1>3, <1>5 DEF ScreenKnows
<1>7. ASSUME sc.seen.done = totals.done
      PROVE  /\ sc.gl.done = journal.done
             /\ sc.page \notin PeersDone => journal.done = Completed(Edited)
  <2>1. CASE sc.changed BY <1>2, <1>3, <1>7, <2>1 DEF ScreenKnows
  <2>2. CASE ~sc.changed
    <3>1. sc.page \notin PeersDone => sc.done = book[sc.page].done
      BY <1>6, <1>7, <1>8, <2>2 DEF Merged
    <3>2. sc.gl.done = totals.done BY <1>6, <1>7, <2>2
    <3> QED BY <1>2, <1>3, <1>4, <2>2, <3>1, <3>2 DEF CardCounts
  <2> QED BY <2>1, <2>2
<1> QED BY <1>1, <1>6, <1>7

LEMMA CountEdit ==
  ASSUME TypeInv, CountInv, EditCompletion
  PROVE  CountInv'
<1>1. /\ OnScreen /\ Free /\ sc # Hidden /\ UNCHANGED <<book, totals, journal, rd, faults>>
      /\ over' = over \cup Unequal(sc.page, sc.foreign /\ sc.done)
  BY DEF EditCompletion, Browsing, OnScreen
<1>17. SUFFICES ASSUME Sound' PROVE CountInv'
  BY DEF CountInv
<1>2. /\ Sound /\ sc.page \notin Ignored /\ ~(sc.foreign /\ sc.done)
      /\ over' \cap {"merged", "ignored"} = {}
  BY <1>1, <1>17 DEF Sound, Unequal
<1>18. sc.page \notin PeersDone BY <1>1, <1>2, ScreenFree
<1>3. /\ sc \in Screen /\ sc.page \in Book /\ sc.gl \in Totals /\ sc.done \in BOOLEAN
      /\ rd = Closed \/ rd.loaded => sc.seen.done = totals.done
      /\ sc.seen.done = totals.done =>
           sc.gl.done = journal.done /\ journal.done = Completed(Edited)
  BY <1>1, <1>2, <1>18, ScreenFree
<1>19. Counts(~sc.done, over') = {Count(~sc.done)}
  <2>1. (~sc.done) \in BOOLEAN BY <1>3
  <2> QED BY <1>2, <2>1, CountsOK
<1>4. /\ op'.todo = <<"done">> /\ op' # Idle /\ op'.count = Count(~sc.done)
      /\ op'.next = "stay" /\ op'.kind = "save"
  BY <1>19 DEF EditCompletion, Task, Idle
<1>5. /\ sc' # Hidden /\ sc'.changed /\ sc'.seen = sc.seen /\ sc'.page = sc.page
      /\ sc'.done = ~sc.done /\ sc'.gl = Counted(sc.gl, ~sc.done)
  BY <1>3 DEF EditCompletion, Screen, Hidden
<1>6. op'.todo \notin WithBook /\ op'.todo \notin WithTotals /\ op'.todo \in WithDone
  BY <1>4 DEF WithBook, WithTotals, WithDone
<1>7. Marks' = Marks /\ TotalsToBe' = totals /\ TotalsToBe = totals
  BY <1>1, <1>6, MarksFree DEF Marks, TotalsToBe
<1>8. JournalToBe' = Shifted(journal.done, Count(~sc.done))
  BY <1>1, <1>4, <1>6 DEF JournalToBe, Free
<1>9. Edited \in [Book -> BOOLEAN] /\ Edited[sc.page] = sc.done
      /\ Edited' = [Edited EXCEPT ![sc.page] = ~Edited[sc.page]]
  BY <1>3, <1>5, <1>7, MarksType DEF Edited
<1>10. Completed(Edited)' = Shifted(Completed(Edited), Count(~sc.done))
  BY <1>2, <1>3, <1>9, Recount DEF Completed
<1>11. sc'.gl.done = Shifted(sc.gl.done, Count(~sc.done)) BY <1>3, <1>5 DEF Counted, Totals
<1>12. CardCounts BY <1>2 DEF CountInv
<1>13. Completed(Marks)' = Completed(Marks) BY <1>7 DEF Completed
<1> HIDE DEF Marks, TotalsToBe, JournalToBe, Edited
<1>14. CardCounts' BY <1>5, <1>7, <1>12, <1>13 DEF CardCounts
<1>15. ReaderKnows' /\ CorrectionKeeps' /\ LeftSaved'
  BY <1>4, <1>5 DEF ReaderKnows, CorrectionKeeps, LeftSaved
<1>16. ScreenKnows'
  BY <1>1, <1>2, <1>3, <1>5, <1>7, <1>8, <1>10, <1>11, <1>18 DEF ScreenKnows
<1> QED BY <1>14, <1>15, <1>16 DEF CountInv

LEMMA CountSaveStats ==
  ASSUME TypeInv, CountInv, SaveStats
  PROVE  CountInv'
<1>1. /\ OnScreen /\ Free /\ sc # Hidden /\ sc.changed
      /\ UNCHANGED <<book, totals, journal, rd, faults>>
      /\ over' = over \cup Overwrites(sc.local, sc.page, sc.seen)
  BY DEF SaveStats, Browsing, OnScreen
<1>2. SUFFICES ASSUME Sound' PROVE CountInv'
  BY DEF CountInv
<1>3. Sound /\ (rd # Closed /\ ~rd.loaded => totals = sc.seen) BY <1>1, <1>2, SoundSave
<1>4. /\ sc \in Screen /\ sc.page \in Book /\ sc.gl \in Totals /\ sc.done \in BOOLEAN
      /\ sc.gl.done = journal.done /\ journal.done = Completed(Edited)
      /\ sc.page \notin Ignored \cup PeersDone
  BY <1>1, <1>3, ScreenFree
<1>5. /\ op'.todo = <<"book", "totals">> /\ op' # Idle /\ op'.book = sc.page
      /\ op'.st = sc'.local /\ op'.gl = sc.gl /\ op'.next = "stay" /\ op'.kind = "save"
  BY DEF SaveStats, Task, Idle
<1>6. /\ sc' # Hidden /\ ~sc'.changed /\ sc'.seen = sc.gl /\ sc'.gl = sc.gl
      /\ sc'.page = sc.page /\ sc'.done = sc.done /\ sc'.local.done = sc.done
  BY <1>4 DEF SaveStats, Screen, Stats, Hidden
<1>7. op'.todo \in WithBook /\ op'.todo \in WithTotals /\ op'.todo \notin WithDone
  BY <1>5 DEF WithBook, WithTotals, WithDone
<1>8. Marks' = Edited
  BY <1>1, <1>5, <1>6, <1>7, MarksFree DEF Marks, Edited, Free
<1>9. TotalsToBe' = sc.gl /\ JournalToBe' = journal.done
  BY <1>1, <1>5, <1>7 DEF TotalsToBe, JournalToBe, Free
<1>10. Completed(Marks)' = Completed(Edited) /\ Marks'[sc'.page] = sc.done
  BY <1>4, <1>6, <1>8, MarksType DEF Completed, Edited
<1> HIDE DEF Marks, TotalsToBe, JournalToBe, Edited
<1>11. CardCounts' BY <1>4, <1>9, <1>10 DEF CardCounts
<1>12. ReaderKnows' /\ CorrectionKeeps' /\ LeftSaved'
  BY <1>5, <1>6 DEF ReaderKnows, CorrectionKeeps, LeftSaved
<1>13. ScreenKnows' BY <1>4, <1>6, <1>9, <1>10 DEF ScreenKnows, Merged
<1> QED BY <1>11, <1>12, <1>13 DEF CountInv

LEMMA CountCorrect ==
  ASSUME TypeInv, CountInv, NEW b \in Book, NEW d \in Day, Correct(d, b)
  PROVE  CountInv'
<1>1. /\ OnScreen /\ Free /\ sc # Hidden /\ ~sc.changed
      /\ UNCHANGED <<book, totals, journal, rd, sc, faults>>
      /\ over' = over \cup Overwrites(book[b], b, sc.gl)
  BY DEF Correct, Browsing, OnScreen
<1>2. SUFFICES ASSUME Sound' PROVE CountInv'
  BY DEF CountInv
<1>3. Sound /\ (rd # Closed /\ ~rd.loaded => totals = sc.gl) BY <1>1, <1>2, SoundSave
<1>4. /\ sc \in Screen /\ sc.page \in Book /\ sc.gl \in Totals
      /\ sc.gl.done = totals.done /\ sc.seen.done = totals.done
      /\ sc.done = Merged(sc.page, book[sc.page].done)
      /\ sc.page \in PeersDone => sc.foreign /\ sc.done
  BY <1>1, <1>3, ScreenFree
<1>5. PICK by \in Corrections(d, b) :
        op' = [Task(b) EXCEPT !.kind = "correct", !.day = d, !.time = by,
                !.todo = <<"time", "book", "totals", "ledger">>,
                !.st = [book[b] EXCEPT !.secs = @ + by],
                !.gl = [sc.gl EXCEPT !.secs = @ + by],
                !.was = [st |-> book[b], gl |-> sc.gl, time |-> journal.secs[d]]]
  BY DEF Correct
<1>6. /\ op'.todo = <<"time", "book", "totals", "ledger">> /\ op' # Idle /\ op'.book = b
      /\ op'.st = [book[b] EXCEPT !.secs = @ + by]
      /\ op'.gl = [sc.gl EXCEPT !.secs = @ + by]
      /\ op'.next = "stay" /\ op'.kind = "correct"
  BY <1>5 DEF Task, Idle
<1>7. book[b] \in Stats BY DEF TypeInv, FilesOK
<1>8. op'.st.done = book[b].done /\ op'.gl.done = totals.done
  BY <1>4, <1>6, <1>7 DEF Stats, Totals
<1>9. op'.todo \notin WithBook /\ op'.todo \notin WithTotals /\ op'.todo \notin WithDone
  BY <1>6 DEF WithBook, WithTotals, WithDone
<1>10. CardCounts BY <1>3 DEF CountInv
<1>11. /\ Marks' = Marks /\ TotalsToBe'.done = totals.done /\ JournalToBe' = journal.done
       /\ CardCounts'
  BY <1>1, <1>6, <1>9, <1>10, CountSame
<1>12. Marks[sc.page] = book[sc.page].done BY <1>1, <1>4, MarksFree
<1> HIDE DEF Marks, TotalsToBe, JournalToBe
<1>13. ReaderKnows' /\ CorrectionKeeps' /\ LeftSaved'
  BY <1>1, <1>4, <1>6, <1>8 DEF ReaderKnows, CorrectionKeeps, LeftSaved
<1>14. ScreenKnows' BY <1>1, <1>4, <1>11, <1>12 DEF ScreenKnows, Merged
<1> QED BY <1>11, <1>13, <1>14 DEF CountInv

LEMMA CountStep == TypeInv /\ SeesInv /\ CountInv /\ [Next]_vars /\ TypeInv' => CountInv'
<1> SUFFICES ASSUME TypeInv, SeesInv, CountInv, [Next]_vars, TypeInv' PROVE CountInv'
  OBVIOUS
<1>1. CASE UNCHANGED vars
  BY <1>1 DEF vars, CountInv, Sound, CardCounts, ReaderKnows, ScreenKnows, CorrectionKeeps,
              LeftSaved, Staying, Free, Merged, Marks, TotalsToBe, JournalToBe, Edited, Completed
<1>2. ASSUME NEW b \in Book,
             \/ Open(b) \/ OpenHomeStats(b) \/ OpenOther(b) \/ BrowserToggle(b)
             \/ \E d \in Day : Correct(d, b)
      PROVE  CountInv'
  BY <1>2, CountOpens, CountScreens, CountPages, CountBrowser, CountCorrect
<1>3. CASE Write \/ WriteFails \/ JournalUnreadable \/ PowerLoss \/ Finish
  BY <1>3, CountWrites, CountFaults, CountFinish
<1>4. CASE FirstPageDrawn \/ Read \/ Return \/ ToggleCompleted \/ ToggleIgnored \/ SaveBook
  BY <1>4, CountReader, CountToggle, CountIgnored, CountSaveBook
<1>5. CASE Leave \/ ShowAfterReading BY <1>5, CountLeave
<1>6. CASE OpenStats \/ CloseHomeStats \/ EditDate \/ EditCompletion \/ SaveStats
  BY <1>6, CountScreens, CountDate, CountEdit, CountSaveStats
<1> QED BY <1>1, <1>2, <1>3, <1>4, <1>5, <1>6 DEF Next

(* For any books: whichever screens set and clear completions, in whatever *)
(* order, the books' files, the totals and the journal count them alike,   *)
(* until a date is edited while the book's completion is another reader's, *)
(* or the file browser or the statistics screen completes an ignored book. *)
THEOREM CompletionsCountedAlike == Spec => []CompletionsKept
<1>1. Init => CountInv
  <2> SUFFICES ASSUME Init PROVE CountInv
    OBVIOUS
  <2>1. Free /\ rd = Closed /\ sc = Hidden /\ CompletionsAgree BY DEF Init, Free
  <2>2. Completed(Marks) = Cardinality({b \in Book \ Ignored : book[b].done})
    BY <2>1, MarksFree DEF Completed
  <2> QED
    BY <2>1, <2>2, MarksFree
    DEF CountInv, CardCounts, ReaderKnows, ScreenKnows, CorrectionKeeps, LeftSaved,
        CompletionsAgree
<1>2. CountInv => CompletionsKept
  <2> SUFFICES ASSUME CountInv, Calmly, over \subseteq {"epub", "lost"},
                      sc # Hidden => ~sc.changed
               PROVE  CompletionsAgree
    BY DEF CompletionsKept
  <2>1. CardCounts /\ Free BY DEF CountInv, Sound, Calmly
  <2>2. Completed(Marks) = Cardinality({b \in Book \ Ignored : book[b].done})
    BY <2>1, MarksFree DEF Completed
  <2> QED BY <2>1, <2>2, MarksFree DEF CardCounts, CompletionsAgree
<1>3. Init => SeesInv BY DEF Init, SeesInv, HomeOnly, OnTop
<1> QED BY <1>1, <1>2, <1>3, InitType, NextType, SeesStep, CountStep, PTL DEF Spec

-----------------------------------------------------------------------------
(* Sums.  A fold is a recursive function over the subsets of what is       *)
(* summed; that it exists, and what it yields, is proved from the least    *)
(* number or subset for which it would not be so.                          *)

Pick(s) == CHOOSE x \in s : TRUE

Folded(f, s, g) == IF s = {} THEN 0 ELSE f[Pick(s)] + g[s \ {Pick(s)}]

Folds(g, f, D) == g = [s \in D |-> Folded(f, s, g)]

(* The operator of the library, expanded.                                  *)
LEMMA SumFolds ==
  ASSUME NEW f PROVE Sum(f) = (CHOOSE g : Folds(g, f, SUBSET DOMAIN f))[DOMAIN f]
BY DEF Sum, MapThenSumSet, MapThenFoldSet, Folds, Folded, Pick

LEMMA LeastNat ==
  ASSUME NEW T \in SUBSET Nat, T # {}
  PROVE  \E n \in T : \A m \in T : ~(m < n)
<1>1. \E n \in T : \A m \in T : ~(<<m, n>> \in OpToRel(<, Nat))
  BY NatLessThanWellFounded, WFMin
<1> QED BY <1>1 DEF OpToRel

Small(S, n) == {s \in SUBSET S : Cardinality(s) <= n}

LEMMA Picked ==
  ASSUME NEW S, IsFiniteSet(S), NEW s \in SUBSET S, s # {}
  PROVE  /\ Pick(s) \in s /\ s \ {Pick(s)} \in SUBSET S
         /\ Cardinality(s) \in Nat /\ Cardinality(s) # 0
         /\ Cardinality(s \ {Pick(s)}) = Cardinality(s) - 1
<1>1. Pick(s) \in s BY DEF Pick
<1>2. IsFiniteSet(s) BY FS_Subset
<1>3. Cardinality(s) \in Nat /\ Cardinality(s) # 0 BY <1>2, FS_CardinalityType, FS_EmptySet
<1> QED BY <1>1, <1>2, <1>3, FS_RemoveElement

(* On a finite set the recursion defines a function.                       *)
LEMMA FoldExists ==
  ASSUME NEW S, IsFiniteSet(S), NEW f
  PROVE  \E g : Folds(g, f, SUBSET S)
<1> DEFINE T == {n \in Nat : ~ \E g : Folds(g, f, Small(S, n))}
<1>1. T = {}
  <2>1. SUFFICES ASSUME T # {} PROVE FALSE
    OBVIOUS
  <2>2. PICK n \in T : \A m \in T : ~(m < n)
    <3>1. T \in SUBSET Nat OBVIOUS
    <3> HIDE DEF T
    <3> QED BY <2>1, <3>1, LeastNat
  <2>3. CASE n = 0
    <3> DEFINE g == [s \in Small(S, 0) |-> 0]
    <3>1. ASSUME NEW s \in Small(S, 0) PROVE s = {}
      <4>1. IsFiniteSet(s) /\ Cardinality(s) <= 0 BY FS_Subset DEF Small
      <4> QED BY <4>1, FS_CardinalityType, FS_EmptySet
    <3>2. Folds(g, f, Small(S, 0)) BY <3>1 DEF Folds, Folded
    <3> QED BY <2>2, <2>3, <3>2
  <2>4. CASE n # 0
    <3>1. n - 1 \in Nat /\ n - 1 < n /\ n \in Nat BY <2>4
    <3>2. n - 1 \notin T BY <2>2, <3>1
    <3>3. PICK h : Folds(h, f, Small(S, n - 1)) BY <3>1, <3>2
    <3> DEFINE g == [s \in Small(S, n) |-> Folded(f, s, h)]
    <3>4. ASSUME NEW s \in Small(S, n - 1) PROVE g[s] = h[s]
      <4>1. s \in Small(S, n) /\ h[s] = Folded(f, s, h)
        <5>1. h[s] = Folded(f, s, h) BY <3>3 DEF Folds
        <5>2. Cardinality(s) \in Nat /\ s \in SUBSET S /\ Cardinality(s) <= n - 1
          BY FS_Subset, FS_CardinalityType DEF Small
        <5>3. Cardinality(s) <= n BY <3>1, <5>2
        <5> QED BY <5>1, <5>2, <5>3 DEF Small
      <4> QED BY <4>1
    <3>5. ASSUME NEW s \in Small(S, n) PROVE g[s] = Folded(f, s, g)
      <4>1. CASE s = {} BY <4>1 DEF Folded
      <4>2. CASE s # {}
        <5>1. s \in SUBSET S /\ Cardinality(s) <= n BY DEF Small
        <5>2. s \ {Pick(s)} \in Small(S, n - 1)
          <6>1. /\ s \ {Pick(s)} \in SUBSET S /\ Cardinality(s) \in Nat
                /\ Cardinality(s \ {Pick(s)}) = Cardinality(s) - 1
            BY <4>2, <5>1, Picked
          <6> QED BY <3>1, <5>1, <6>1 DEF Small
        <5>3. g[s \ {Pick(s)}] = h[s \ {Pick(s)}] BY <3>4, <5>2
        <5>4. g[s] = Folded(f, s, h) OBVIOUS
        <5> HIDE DEF g
        <5> QED BY <4>2, <5>3, <5>4 DEF Folded
      <4> QED BY <4>1, <4>2
    <3>6. g = [s \in Small(S, n) |-> g[s]] OBVIOUS
    <3> HIDE DEF g
    <3>7. Folds(g, f, Small(S, n)) BY <3>5, <3>6 DEF Folds
    <3> QED BY <2>2, <3>7
  <2> QED BY <2>3, <2>4
<1>2. Cardinality(S) \in Nat BY FS_CardinalityType
<1>3. Small(S, Cardinality(S)) = SUBSET S BY FS_Subset DEF Small
<1> QED BY <1>1, <1>2, <1>3

LEMMA LeastSubset ==
  ASSUME NEW S, IsFiniteSet(S), NEW T \in SUBSET SUBSET S, T # {}
  PROVE  \E s \in T : \A t \in T : ~(t \subseteq s /\ t # s)
<1>1. IsWellFoundedOn(StrictSubsetOrdering(S), SUBSET S)
  BY FS_StrictSubsetOrderingWellFounded, FS_FiniteSubsetsOfFinite
<1>2. \E s \in T : \A t \in T : ~(<<t, s>> \in StrictSubsetOrdering(S))
  BY <1>1, WFMin
<1> QED BY <1>2 DEF StrictSubsetOrdering

Fold(f) == CHOOSE g : Folds(g, f, SUBSET DOMAIN f)

LEMMA FoldStep ==
  ASSUME NEW S, IsFiniteSet(S), NEW f, DOMAIN f = S
  PROVE  /\ Sum(f) = Fold(f)[S]
         /\ \A s \in SUBSET S : Fold(f)[s] = Folded(f, s, Fold(f))
<1>1. Folds(Fold(f), f, SUBSET S) BY FoldExists DEF Fold
<1>2. ASSUME NEW s \in SUBSET S PROVE Fold(f)[s] = Folded(f, s, Fold(f))
  BY <1>1 DEF Folds
<1> QED BY <1>2, SumFolds DEF Fold

(* A sum of integers is one, and so is one of natural numbers.             *)
LEMMA SumType ==
  ASSUME NEW S, IsFiniteSet(S), NEW V, 0 \in V, \A m, n \in V : m + n \in V,
         NEW f \in [S -> V]
  PROVE  Sum(f) \in V
<1> DEFINE T == {s \in SUBSET S : Fold(f)[s] \notin V}
<1>1. SUFFICES ASSUME T # {} PROVE FALSE
  BY FoldStep
<1>2. PICK s \in T : \A t \in T : ~(t \subseteq s /\ t # s)
  <2>1. T \in SUBSET SUBSET S OBVIOUS
  <2> HIDE DEF T
  <2> QED BY <1>1, <2>1, LeastSubset
<1>3. Fold(f)[s] = Folded(f, s, Fold(f)) BY <1>2, FoldStep
<1>4. CASE s = {} BY <1>2, <1>3, <1>4 DEF Folded
<1>5. CASE s # {}
  <2>1. Pick(s) \in s /\ s \ {Pick(s)} \in SUBSET S BY <1>2, <1>5, Picked
  <2>2. Fold(f)[s \ {Pick(s)}] \in V BY <1>2, <2>1
  <2>3. f[Pick(s)] \in V BY <1>2, <2>1
  <2> QED BY <1>2, <1>3, <1>5, <2>2, <2>3 DEF Folded
<1> QED BY <1>4, <1>5

(* The terms g are the terms f with n added to one of them.                *)
Raised(S, f, g, x, n) ==
  /\ x \in S /\ n \in Int /\ f \in [S -> Int] /\ g \in [S -> Int]
  /\ g[x] = f[x] + n /\ \A y \in S \ {x} : g[y] = f[y]

(* What is added to one term is added to the sum.                          *)
LEMMA SumChange ==
  ASSUME NEW S, IsFiniteSet(S), NEW f, NEW g, NEW x, NEW n, Raised(S, f, g, x, n)
  PROVE  Sum(g) = Sum(f) + n
<1> USE DEF Raised
<1> DEFINE More(s) == IF x \in s THEN n ELSE 0
           T == {s \in SUBSET S : ~(Fold(f)[s] \in Int /\ Fold(g)[s] = Fold(f)[s] + More(s))}
<1>1. SUFFICES ASSUME T # {} PROVE FALSE
  <2>1. Fold(f)[S] \in Int /\ Fold(g)[S] = Fold(f)[S] + n BY <1>1
  <2>2. Sum(f) = Fold(f)[S] /\ Sum(g) = Fold(g)[S]
    <3>1. DOMAIN f = S /\ DOMAIN g = S OBVIOUS
    <3> QED BY <3>1, FoldStep
  <2> QED BY <2>1, <2>2
<1>2. PICK s \in T : \A t \in T : ~(t \subseteq s /\ t # s)
  <2>1. T \in SUBSET SUBSET S OBVIOUS
  <2> HIDE DEF T
  <2> QED BY <1>1, <2>1, LeastSubset
<1>3. /\ Fold(f)[s] = Folded(f, s, Fold(f)) /\ Fold(g)[s] = Folded(g, s, Fold(g))
      /\ s \in SUBSET S
  <2>1. DOMAIN f = S /\ DOMAIN g = S /\ s \in SUBSET S OBVIOUS
  <2> HIDE DEF T
  <2> QED BY <2>1, FoldStep
<1>4. CASE s = {}
  <2>1. Fold(f)[s] = 0 /\ Fold(g)[s] = 0 BY <1>3, <1>4 DEF Folded
  <2> QED BY <1>2, <1>4, <2>1
<1>5. CASE s # {}
  <2> DEFINE c == Pick(s)
  <2>1. c \in s /\ s \ {c} \in SUBSET S BY <1>2, <1>5, Picked
  <2>2. s \ {c} \notin T BY <1>2, <2>1
  <2>3. /\ Fold(f)[s \ {c}] \in Int
        /\ Fold(g)[s \ {c}] = Fold(f)[s \ {c}] + More(s \ {c})
    BY <2>1, <2>2
  <2>4. /\ Fold(f)[s] = f[c] + Fold(f)[s \ {c}] /\ Fold(g)[s] = g[c] + Fold(g)[s \ {c}]
    BY <1>3, <1>5 DEF Folded
  <2>5. f[c] \in Int /\ g[c] = IF c = x THEN f[c] + n ELSE f[c] BY <1>3, <2>1
  <2>6. More(s) = IF c = x THEN n ELSE More(s \ {c}) BY <2>1
  <2>7. c = x => More(s \ {c}) = 0 OBVIOUS
  <2>8. More(s \ {c}) \in Int OBVIOUS
  <2>9. s \notin T => FALSE BY <1>2
  <2> HIDE DEF c, More, T
  <2>10. Fold(f)[s] \in Int /\ Fold(g)[s] = Fold(f)[s] + More(s)
    BY <2>3, <2>4, <2>5, <2>6, <2>7, <2>8
  <2> QED BY <1>3, <2>9, <2>10 DEF T
<1> QED BY <1>4, <1>5

LEMMA DaySums ==
  ASSUME NEW t \in [Day -> [Book -> Int]]
  PROVE  /\ \A d \in Day : SumOfDay(t, d) \in Int
         /\ SumOfAll(t) \in Int /\ \A b \in Book : SumOfBook(t, b) \in Int
         /\ \A d \in Day : (\A b \in Book : t[d][b] >= 0) => SumOfDay(t, d) >= 0
<1>1. IsFiniteSet(Day) /\ IsFiniteSet(Book) BY EditsAssumption
<1>2. 0 \in Int /\ (\A m, n \in Int : m + n \in Int) /\ 0 \in Nat /\ (\A m, n \in Nat : m + n \in Nat)
  OBVIOUS
<1>3. ASSUME NEW d \in Day PROVE SumOfDay(t, d) \in Int
  <2>1. t[d] \in [Book -> Int] OBVIOUS
  <2> QED BY <1>1, <1>2, <2>1, SumType DEF SumOfDay
<1>4. SumOfAll(t) \in Int
  <2>1. [d \in Day |-> SumOfDay(t, d)] \in [Day -> Int] BY <1>3
  <2> QED BY <1>1, <1>2, <2>1, SumType DEF SumOfAll
<1>5. ASSUME NEW b \in Book PROVE SumOfBook(t, b) \in Int
  <2>1. [d \in Day |-> t[d][b]] \in [Day -> Int] OBVIOUS
  <2> QED BY <1>1, <1>2, <2>1, SumType DEF SumOfBook
<1>6. ASSUME NEW d \in Day, \A b \in Book : t[d][b] >= 0 PROVE SumOfDay(t, d) >= 0
  <2>1. t[d] \in [Book -> Nat]
    <3>1. t[d] \in [Book -> Int] OBVIOUS
    <3> QED BY <1>6, <3>1
  <2>2. SumOfDay(t, d) \in Nat BY <1>1, <1>2, <2>1, SumType DEF SumOfDay
  <2> QED BY <2>2
<1> QED BY <1>3, <1>4, <1>5, <1>6

Enters(t, u, d, b, n) == u = [t EXCEPT ![d][b] = @ + n]

(* What a record adds to the sums of its day, its book and everything.     *)
LEMMA Entered ==
  ASSUME NEW t \in [Day -> [Book -> Int]], NEW d \in Day, NEW b \in Book, NEW n \in Int,
         NEW u, Enters(t, u, d, b, n)
  PROVE  /\ u \in [Day -> [Book -> Int]]
         /\ \A e \in Day : SumOfDay(u, e) = IF e = d THEN SumOfDay(t, e) + n ELSE SumOfDay(t, e)
         /\ SumOfAll(u) = SumOfAll(t) + n
         /\ \A c \in Book : SumOfBook(u, c) = IF c = b THEN SumOfBook(t, c) + n
                                              ELSE SumOfBook(t, c)
<1> USE DEF Enters
<1>1. IsFiniteSet(Day) /\ IsFiniteSet(Book) BY EditsAssumption
<1>2. u \in [Day -> [Book -> Int]] OBVIOUS
<1>3. ASSUME NEW e \in Day
      PROVE  SumOfDay(u, e) = IF e = d THEN SumOfDay(t, e) + n ELSE SumOfDay(t, e)
  <2>1. CASE e = d
    <3>1. /\ u[e] \in [Book -> Int] /\ t[e] \in [Book -> Int]
          /\ u[e][b] = t[e][b] + n /\ \A y \in Book \ {b} : u[e][y] = t[e][y]
      BY <2>1
    <3>2. Raised(Book, t[e], u[e], b, n) BY <3>1 DEF Raised
    <3>3. Sum(u[e]) = Sum(t[e]) + n BY <1>1, <3>2, SumChange
    <3> QED BY <2>1, <3>3 DEF SumOfDay
  <2>2. CASE e # d BY <2>2 DEF SumOfDay
  <2> QED BY <2>1, <2>2
<1>4. SumOfAll(u) = SumOfAll(t) + n
  <2> DEFINE f == [e \in Day |-> SumOfDay(t, e)]
             g == [e \in Day |-> SumOfDay(u, e)]
  <2>1. f \in [Day -> Int] /\ g \in [Day -> Int] BY <1>2, DaySums
  <2>2. Raised(Day, f, g, d, n) BY <1>3, <2>1 DEF Raised
  <2> HIDE DEF f, g
  <2>3. Sum(g) = Sum(f) + n BY <1>1, <2>2, SumChange
  <2> QED BY <2>3 DEF SumOfAll, f, g
<1>5. ASSUME NEW c \in Book
      PROVE  SumOfBook(u, c) = IF c = b THEN SumOfBook(t, c) + n ELSE SumOfBook(t, c)
  <2> DEFINE f == [e \in Day |-> t[e][c]]
             g == [e \in Day |-> u[e][c]]
  <2>1. f \in [Day -> Int] /\ g \in [Day -> Int] BY <1>2
  <2>2. CASE c = b
    <3>1. Raised(Day, f, g, d, n) BY <2>1, <2>2 DEF Raised
    <3> HIDE DEF f, g
    <3>2. Sum(g) = Sum(f) + n BY <1>1, <3>1, SumChange
    <3> QED BY <2>2, <3>2 DEF SumOfBook, f, g
  <2>3. CASE c # b
    <3>1. g = f BY <2>3
    <3> QED BY <2>3, <3>1 DEF SumOfBook
  <2> QED BY <2>2, <2>3
<1> QED BY <1>2, <1>3, <1>4, <1>5

-----------------------------------------------------------------------------
(* The lists in which the journal's time, a book or the totals are still   *)
(* to be written.                                                          *)
ToTime   == {<<"time", "ledger">>, <<"totals", "time", "ledger">>,
             <<"book", "totals", "time", "ledger">>, <<"time", "book", "totals", "ledger">>}
ToBook   == WithBook \cup {<<"book", "totals", "ledger">>,
                           <<"time", "book", "totals", "ledger">>}
ToTotals == WithTotals \cup {<<"totals", "ledger">>, <<"book", "totals", "ledger">>,
                             <<"time", "book", "totals", "ledger">>}

(* The times on the card once the operation has been completed.            *)
BookNext ==
  IF ~Free /\ op.todo \in ToBook THEN [book EXCEPT ![op.book] = op.st] ELSE book
TotalsNext == IF ~Free /\ op.todo \in ToTotals THEN op.gl ELSE totals
JournalNext ==
  IF ~Free /\ op.todo \in ToTime
  THEN [journal.secs EXCEPT ![op.day] = Shifted(@, op.time)] ELSE journal.secs
LedgerNext ==
  IF ~Free /\ op.todo \in BeforeRecord
  THEN [ledger EXCEPT ![op.day][op.book] = @ + op.time] ELSE ledger

JournalTimes == \A d \in Day : NoPeers(d) => JournalNext[d] = SumOfDay(LedgerNext, d)

FileTimes ==
  /\ TotalsNext.secs = SumOfAll(LedgerNext)
  /\ \A b \in Book : BookNext[b].secs = SumOfBook(LedgerNext, b)

UnderCorrection == ~Free /\ op.kind = "correct"

(* What an operation brings about of what the screens will show.           *)
OpTimes ==
  ~Free =>
    /\ op.next = "show" => rd.gl = TotalsNext
    /\ UnderCorrection => BookNext[op.book] = op.st /\ TotalsNext = op.gl

(* A screen over no reader, or over one that loads everything again, has   *)
(* the times of the card, a correction under way excepted.                 *)
ScreenTimes ==
  sc # Hidden =>
    /\ sc.gl.secs = sc.seen.secs
    /\ Staying /\ (rd = Closed \/ (rd.loaded /\ Format[rd.book] = "xtc")) =>
         /\ ~UnderCorrection => sc.seen.secs = TotalsNext.secs
         /\ ~(UnderCorrection /\ op.book = sc.page) =>
              sc.local.secs = BookNext[sc.page].secs

TimesInv ==
  faults = 0 =>
    /\ JournalTimes
    /\ over \subseteq {"lost", "merged", "ignored"} => FileTimes /\ OpTimes /\ ScreenTimes

LEMMA WhichTime ==
  /\ \A l \in Saves \cup Corrects : l # <<>> =>
       /\ IF Head(l) = "time" THEN l \in ToTime /\ Tail(l) \notin ToTime
          ELSE Tail(l) \in ToTime <=> l \in ToTime
       /\ IF Head(l) = "book" THEN l \in ToBook /\ Tail(l) \notin ToBook
          ELSE Tail(l) \in ToBook <=> l \in ToBook
       /\ IF Head(l) = "totals" THEN l \in ToTotals /\ Tail(l) \notin ToTotals
          ELSE Tail(l) \in ToTotals <=> l \in ToTotals
  /\ <<>> \notin ToTime /\ <<>> \notin ToBook /\ <<>> \notin ToTotals
BY DEF Saves, Corrects, ToTime, ToBook, ToTotals, WithBook, WithTotals

LEMMA NextFree ==
  ASSUME Free
  PROVE  BookNext = book /\ TotalsNext = totals /\ JournalNext = journal.secs
         /\ LedgerNext = ledger
BY DEF BookNext, TotalsNext, JournalNext, LedgerNext

(* What depends only on what the card will have.                           *)
LEMMA TimesFollow ==
  ASSUME BookNext' = BookNext, TotalsNext' = TotalsNext, JournalNext' = JournalNext,
         LedgerNext' = LedgerNext
  PROVE  (JournalTimes => JournalTimes') /\ (FileTimes => FileTimes')
<1> HIDE DEF BookNext, TotalsNext, JournalNext, LedgerNext
<1>1. ASSUME JournalTimes PROVE JournalTimes'
  BY <1>1 DEF JournalTimes
<1>2. ASSUME FileTimes PROVE FileTimes'
  BY <1>2 DEF FileTimes
<1> QED BY <1>1, <1>2

LEMMA TimesWrites ==
  ASSUME TypeInv, TimesInv, Write
  PROVE  TimesInv'
<1>1. op \in Op /\ op.todo # <<>> /\ OpOK /\ ~Free
  BY DEF TypeInv, Write, OpInv, Free
<1>2. /\ op' = [op EXCEPT !.todo = Tail(@)] /\ UNCHANGED <<rd, sc, over, faults>>
      /\ Written(Head(op.todo))
  BY DEF Write
<1>3. /\ op'.todo = Tail(op.todo) /\ op'.book = op.book /\ op'.st = op.st /\ op'.kind = op.kind
      /\ op'.gl = op.gl /\ op'.next = op.next /\ op'.time = op.time /\ op'.day = op.day
      /\ op' # Idle
  BY <1>1, <1>2 DEF Op, Idle
<1>4. SUFFICES ASSUME faults = 0 PROVE TimesInv'
  BY <1>2 DEF TimesInv
<1>5. op.todo \in Saves \cup Corrects /\ op.book \in Book /\ op.day \in Day
  BY <1>1, <1>4 DEF Op, OpOK
<1>6. /\ book' = IF Head(op.todo) = "book" THEN [book EXCEPT ![op.book] = op.st] ELSE book
      /\ totals' = IF Head(op.todo) = "totals" THEN op.gl ELSE totals
      /\ ledger' = IF Head(op.todo) = "ledger" THEN [ledger EXCEPT ![op.day][op.book] = @ + op.time]
                   ELSE ledger
      /\ journal \in [secs : [Day -> Nat], done : Nat]
  BY <1>2 DEF Written, TypeInv, FilesOK
<1>7. journal'.secs = IF Head(op.todo) = "time"
                      THEN [journal.secs EXCEPT ![op.day] = Shifted(@, op.time)]
                      ELSE journal.secs
  <2>1. CASE Head(op.todo) = "time" BY <1>2, <1>6, <2>1 DEF Written
  <2>2. CASE Head(op.todo) = "done" BY <1>2, <1>6, <2>2 DEF Written
  <2>3. CASE Head(op.todo) \notin {"time", "done"} BY <1>2, <2>3 DEF Written
  <2> QED BY <2>1, <2>2, <2>3
<1>8. BookNext' = BookNext
  <2>1. CASE Head(op.todo) = "book" BY <1>1, <1>3, <1>5, <1>6, <2>1, WhichTime DEF BookNext, Free
  <2>2. CASE Head(op.todo) # "book"
    <3>1. book' = book /\ (op'.todo \in ToBook <=> op.todo \in ToBook)
      BY <1>1, <1>3, <1>5, <1>6, <2>2, WhichTime
    <3>2. ~Free' BY <1>3 DEF Free
    <3>3. [book' EXCEPT ![op'.book] = op'.st] = [book EXCEPT ![op.book] = op.st]
      BY <1>3, <3>1
    <3> QED BY <1>1, <3>1, <3>2, <3>3 DEF BookNext
  <2> QED BY <2>1, <2>2
<1>9. TotalsNext' = TotalsNext BY <1>1, <1>3, <1>5, <1>6, WhichTime DEF TotalsNext, Free
<1>10. JournalNext' = JournalNext BY <1>1, <1>3, <1>5, <1>7, WhichTime DEF JournalNext, Free
<1>11. LedgerNext' = LedgerNext
  <2>1. CASE Head(op.todo) = "ledger"
    BY <1>1, <1>3, <1>5, <1>6, <2>1, Records DEF LedgerNext, Free
  <2>2. CASE Head(op.todo) # "ledger"
    <3>1. ledger' = ledger /\ (op'.todo \in BeforeRecord <=> op.todo \in BeforeRecord)
      BY <1>1, <1>3, <1>5, <1>6, <2>2, Records
    <3>2. ~Free' BY <1>3 DEF Free
    <3>3. [ledger' EXCEPT ![op'.day][op'.book] = @ + op'.time]
          = [ledger EXCEPT ![op.day][op.book] = @ + op.time]
      BY <1>3, <3>1
    <3> QED BY <1>1, <3>1, <3>2, <3>3 DEF LedgerNext
  <2> QED BY <2>1, <2>2
<1>12. (Staying' <=> Staying) /\ (UnderCorrection' <=> UnderCorrection)
  BY <1>1, <1>3 DEF Staying, UnderCorrection, Free
<1> HIDE DEF BookNext, TotalsNext, JournalNext, LedgerNext
<1>13. OpTimes => OpTimes' BY <1>1, <1>2, <1>3, <1>8, <1>9, <1>12 DEF OpTimes, Free
<1>14. ScreenTimes => ScreenTimes'
  BY <1>2, <1>3, <1>8, <1>9, <1>12 DEF ScreenTimes
<1> QED BY <1>2, <1>4, <1>8, <1>9, <1>10, <1>11, <1>13, <1>14, TimesFollow DEF TimesInv

LEMMA TimesFaults ==
  ASSUME TypeInv, WriteFails \/ JournalUnreadable \/ PowerLoss
  PROVE  TimesInv'
<1>1. faults \in Nat /\ faults' = faults + 1
  BY EditsAssumption DEF WriteFails, JournalUnreadable, PowerLoss, TypeInv, ScreensOK
<1> QED BY <1>1 DEF TimesInv

LEMMA TimesFinish ==
  ASSUME TypeInv, TimesInv, Finish
  PROVE  TimesInv'
<1>1. /\ op \in Op /\ OpOK /\ ~Free /\ op.todo = <<>> /\ op' = Idle /\ Free'
      /\ UNCHANGED <<book, totals, journal, ledger, over, faults>>
  BY DEF TypeInv, Finish, OpInv, Free
<1>2. SUFFICES ASSUME faults = 0 PROVE TimesInv'
  BY <1>1 DEF TimesInv
<1>3. op.todo \notin BeforeRecord BY <1>1, Records
<1>4. BookNext' = BookNext /\ BookNext = book BY <1>1, WhichTime DEF BookNext, Free
<1>5. TotalsNext' = TotalsNext /\ TotalsNext = totals BY <1>1, WhichTime DEF TotalsNext, Free
<1>6. JournalNext' = JournalNext BY <1>1, WhichTime DEF JournalNext, Free
<1>7. LedgerNext' = LedgerNext BY <1>1, <1>3 DEF LedgerNext, Free
<1>8. (JournalTimes => JournalTimes') /\ (FileTimes => FileTimes')
  BY <1>4, <1>5, <1>6, <1>7, TimesFollow
<1>9. OpTimes' /\ ~UnderCorrection' BY <1>1 DEF OpTimes, UnderCorrection
<1> HIDE DEF BookNext, TotalsNext, JournalNext, LedgerNext
<1>10. ASSUME OpTimes, ScreenTimes PROVE ScreenTimes'
  <2>1. CASE op.kind = "correct" /\ Corrected
    <3>1. sc \in Screen /\ op.next = "stay" BY <1>1, <2>1 DEF OpOK, TypeInv, ScreensOK
    <3>5. /\ sc'.page = sc.page /\ sc'.gl = op.gl /\ sc'.seen = op.gl
          /\ sc'.local = IF op.book = sc.page THEN op.st ELSE sc.local
          /\ rd' = rd
      BY <2>1, <3>1 DEF Corrected, AfterCorrection, Screen
    <3>6. sc # Hidden /\ sc.page # None BY <3>1, EditsAssumption, Kinds DEF Screen
    <3>2. /\ sc' # Hidden /\ sc'.page = sc.page /\ sc'.gl = op.gl /\ sc'.seen = op.gl
          /\ sc'.local = IF op.book = sc.page THEN op.st ELSE sc.local
          /\ rd' = rd /\ sc # Hidden
      BY <3>5, <3>6 DEF Hidden
    <3>3. BookNext[op.book] = op.st /\ TotalsNext = op.gl
      BY <1>1, <1>10, <2>1 DEF OpTimes, UnderCorrection
    <3>4. ASSUME rd = Closed \/ (rd.loaded /\ Format[rd.book] = "xtc"), op.book # sc.page
          PROVE  sc.local.secs = BookNext[sc.page].secs
      BY <1>10, <3>1, <3>2, <3>4 DEF ScreenTimes, Staying
    <3> QED BY <1>4, <1>5, <3>2, <3>3, <3>4 DEF ScreenTimes
  <2>2. CASE sc' = Hidden BY <2>2 DEF ScreenTimes
  <2>3. CASE op.next = "show" /\ sc' = Shown(rd.book, "after", rd.gl, 0) /\ rd' = rd
    <3>1. /\ sc'.seen = rd.gl /\ sc'.gl = rd.gl /\ sc'.page = rd.book
          /\ sc'.local = book[rd.book]
      BY <2>3 DEF Shown
    <3>2. rd.gl = TotalsNext BY <1>1, <1>10, <2>3 DEF OpTimes
    <3> QED BY <1>4, <1>5, <3>1, <3>2 DEF ScreenTimes
  <2>4. CASE op.kind # "correct" /\ op.next = "stay" /\ UNCHANGED <<rd, sc>>
    <3>1. Staying /\ ~UnderCorrection BY <2>4 DEF Staying, UnderCorrection
    <3> QED BY <1>4, <1>5, <1>10, <2>4, <3>1 DEF ScreenTimes
  <2> QED BY <2>1, <2>2, <2>3, <2>4 DEF Finish
<1> QED BY <1>1, <1>2, <1>8, <1>9, <1>10 DEF TimesInv

(* Nothing is written: only what the screens show can have changed.        *)
LEMMA TimesQuiet ==
  ASSUME TimesInv, Free, UNCHANGED <<book, totals, journal, ledger, op, faults>>,
         over \subseteq over',
         faults = 0 /\ over' \subseteq {"lost", "merged", "ignored"} /\ sc' # Hidden =>
           /\ sc'.gl.secs = sc'.seen.secs
           /\ rd' = Closed \/ (rd'.loaded /\ Format[rd'.book] = "xtc") =>
                sc'.seen.secs = totals.secs /\ sc'.local.secs = book[sc'.page].secs
  PROVE  TimesInv'
<1>1. Free' BY DEF Free
<1>2. SUFFICES ASSUME faults = 0 PROVE TimesInv'
  BY DEF TimesInv
<1>3. BookNext' = BookNext /\ BookNext = book BY <1>1, NextFree DEF BookNext
<1>4. TotalsNext' = TotalsNext /\ TotalsNext = totals BY <1>1, NextFree DEF TotalsNext
<1>5. JournalNext' = JournalNext /\ LedgerNext' = LedgerNext
  BY <1>1 DEF JournalNext, LedgerNext, Free
<1>6. (JournalTimes => JournalTimes') /\ (FileTimes => FileTimes')
  BY <1>3, <1>4, <1>5, TimesFollow
<1>7. OpTimes' /\ ~UnderCorrection' BY <1>1 DEF OpTimes, UnderCorrection
<1> HIDE DEF BookNext, TotalsNext, JournalNext, LedgerNext
<1>8. over' \subseteq {"lost", "merged", "ignored"} => ScreenTimes'
  BY <1>2, <1>3, <1>4 DEF ScreenTimes
<1>9. over' \subseteq {"lost", "merged", "ignored"} => over \subseteq {"lost", "merged", "ignored"}
  OBVIOUS
<1> QED BY <1>2, <1>6, <1>7, <1>8, <1>9 DEF TimesInv

(* What a screen has between two operations.                               *)
LEMMA ScreenHas ==
  ASSUME TypeInv, TimesInv, faults = 0, over \subseteq {"lost", "merged", "ignored"}, OnScreen
  PROVE  /\ sc \in Screen /\ sc.page \in Book /\ sc.gl.secs = sc.seen.secs
         /\ rd = Closed \/ (rd.loaded /\ Format[rd.book] = "xtc") =>
              sc.seen.secs = totals.secs /\ sc.local.secs = book[sc.page].secs
<1>1. sc \in Screen /\ sc.page \in Book BY DEF OnScreen, TypeInv, ScreensOK, Screen
<1>2. ScreenTimes /\ Staying /\ ~UnderCorrection /\ Free /\ sc # Hidden
  BY DEF TimesInv, OnScreen, Staying, UnderCorrection
<1>3. TotalsNext = totals /\ BookNext = book BY <1>2, NextFree
<1> HIDE DEF BookNext, TotalsNext
<1> QED BY <1>1, <1>2, <1>3 DEF ScreenTimes

LEMMA TimesScreens ==
  ASSUME TypeInv, SeesInv, TimesInv,
         \/ FirstPageDrawn \/ Read \/ Return \/ OpenStats \/ CloseHomeStats
         \/ \E b \in Book : Open(b) \/ OpenHomeStats(b) \/ OpenOther(b)
  PROVE  TimesInv'
<1>1. Free /\ UNCHANGED <<book, totals, journal, ledger, op, over, faults>>
  <2>1. CASE FirstPageDrawn \/ Read \/ OpenStats
    BY <2>1 DEF FirstPageDrawn, Read, OpenStats, Reading
  <2>2. CASE Return \/ CloseHomeStats BY <2>2 DEF Return, CloseHomeStats, OnScreen
  <2>3. CASE \E b \in Book : Open(b) \/ OpenHomeStats(b) \/ OpenOther(b)
    BY <2>3 DEF Open, OpenHomeStats, OpenOther, AtHome, Browsing, OnScreen
  <2> QED BY <2>1, <2>2, <2>3
<1>2. CASE sc' = Hidden BY <1>1, <1>2, TimesQuiet
<1>3. CASE OpenStats
  <2>1. /\ sc'.seen = rd.gl /\ sc'.gl = rd.gl /\ sc'.page = rd.book
        /\ sc'.local = book[rd.book] /\ rd' = rd
    BY <1>3 DEF OpenStats, Shown
  <2>2. rd # Closed /\ sc = Hidden BY <1>3 DEF OpenStats, Reading
  <2>3. faults = 0 /\ rd.loaded /\ Format[rd.book] = "xtc" => rd.gl = totals
    BY <1>1, <2>2 DEF SeesInv, OnTop, SeesAll, TotalsToBe
  <2> QED BY <1>1, <2>1, <2>2, <2>3, TimesQuiet
<1>4. ASSUME NEW b \in Book, OpenHomeStats(b) PROVE TimesInv'
  <2>1. sc'.seen = totals /\ sc'.gl = totals /\ sc'.page = b /\ sc'.local = book[b]
    BY <1>4 DEF OpenHomeStats, Shown
  <2> QED BY <1>1, <2>1, TimesQuiet
<1>6. ASSUME NEW b \in Book, OpenOther(b) PROVE TimesInv'
  <2>1. OnScreen /\ sc \in Screen /\ rd' = rd
    BY <1>6 DEF OpenOther, Browsing, OnScreen, TypeInv, ScreensOK
  <2>2. sc'.seen = sc.seen /\ sc'.gl = sc.gl /\ sc'.page = b /\ sc'.local = book[b]
    BY <1>6, <2>1 DEF OpenOther, Screen
  <2>3. faults = 0 /\ over \subseteq {"lost", "merged", "ignored"} =>
          /\ sc.gl.secs = sc.seen.secs
          /\ rd = Closed \/ (rd.loaded /\ Format[rd.book] = "xtc") =>
               sc.seen.secs = totals.secs
    BY <2>1, ScreenHas
  <2> QED BY <1>1, <2>1, <2>2, <2>3, TimesQuiet
<1>7. FirstPageDrawn \/ Read \/ Return \/ CloseHomeStats \/ (\E b \in Book : Open(b)) => sc' = Hidden
  BY DEF FirstPageDrawn, Read, Return, CloseHomeStats, Open, Reading, AtHome
<1> QED BY <1>2, <1>3, <1>4, <1>6, <1>7

-----------------------------------------------------------------------------
(* An operation that will write no time and change none in the files.      *)
LEMMA TimesSame ==
  ASSUME TypeInv, Free, UNCHANGED <<book, totals, journal, ledger>>,
         op'.todo \notin ToTime, op'.todo \notin BeforeRecord
  PROVE  /\ JournalTimes => JournalTimes'
         /\ (op'.todo \in ToBook => op'.st.secs = book[op'.book].secs) =>
              \A b \in Book : BookNext'[b].secs = book[b].secs
         /\ (op'.todo \in ToTotals => op'.gl.secs = totals.secs) =>
              TotalsNext'.secs = totals.secs
         /\ /\ FileTimes
            /\ \A b \in Book : BookNext'[b].secs = book[b].secs
            /\ TotalsNext'.secs = totals.secs
            => FileTimes'
<1>1. JournalNext' = journal.secs /\ LedgerNext' = ledger BY DEF JournalNext, LedgerNext
<1>2. BookNext = book /\ TotalsNext = totals /\ JournalNext = journal.secs /\ LedgerNext = ledger
  BY NextFree
<1>3. ASSUME op'.todo \in ToBook => op'.st.secs = book[op'.book].secs, NEW b \in Book
      PROVE  BookNext'[b].secs = book[b].secs
  BY <1>3 DEF BookNext, TypeInv, FilesOK
<1>4. (op'.todo \in ToTotals => op'.gl.secs = totals.secs) => TotalsNext'.secs = totals.secs
  BY DEF TotalsNext
<1> HIDE DEF BookNext, TotalsNext, JournalNext, LedgerNext
<1>5. JournalTimes => JournalTimes' BY <1>1, <1>2 DEF JournalTimes
<1>6. ASSUME FileTimes, \A b \in Book : BookNext'[b].secs = book[b].secs,
             TotalsNext'.secs = totals.secs
      PROVE  FileTimes'
  BY <1>1, <1>2, <1>6 DEF FileTimes
<1> QED BY <1>3, <1>4, <1>5, <1>6

(* An operation that will add time to a book, the totals and the journal,  *)
(* and the record of it to the ledger.                                     *)
LEMMA TimesAdd ==
  ASSUME TypeInv, LedgerInv', Free, UNCHANGED <<book, totals, journal, ledger>>,
         faults' = 0, op' # Idle, NEW b \in Book, NEW d \in Day, NEW n \in Int,
         op'.todo \in {<<"book", "totals", "time", "ledger">>,
                       <<"time", "book", "totals", "ledger">>},
         op'.book = b, op'.day = d, op'.time = n
  PROVE  /\ JournalTimes => JournalTimes'
         /\ BookNext' = [book EXCEPT ![b] = op'.st] /\ TotalsNext' = op'.gl
         /\ /\ FileTimes
            /\ op'.st.secs = book[b].secs + n /\ op'.gl.secs = totals.secs + n
            => FileTimes'
<1>1. /\ op'.todo \in ToTime /\ op'.todo \in ToBook /\ op'.todo \in ToTotals
      /\ op'.todo \in BeforeRecord
  BY Records DEF ToTime, ToBook, ToTotals, WithBook, WithTotals
<1>2. BookNext = book /\ TotalsNext = totals /\ JournalNext = journal.secs /\ LedgerNext = ledger
  BY NextFree
<1>3. /\ BookNext' = [book EXCEPT ![b] = op'.st] /\ TotalsNext' = op'.gl
      /\ JournalNext' = [journal.secs EXCEPT ![d] = Shifted(@, n)]
      /\ LedgerNext' = [ledger EXCEPT ![d][b] = @ + n]
  BY <1>1 DEF BookNext, TotalsNext, JournalNext, LedgerNext, Free
<1>4. /\ ledger \in [Day -> [Book -> Int]] /\ journal.secs \in [Day -> Nat]
      /\ book \in [Book -> Stats]
  BY DEF TypeInv, FilesOK
<1>5. /\ LedgerNext' \in [Day -> [Book -> Int]]
      /\ \A e \in Day : SumOfDay(LedgerNext', e) = IF e = d THEN SumOfDay(ledger, e) + n
                                                   ELSE SumOfDay(ledger, e)
      /\ SumOfAll(LedgerNext') = SumOfAll(ledger) + n
      /\ \A c \in Book : SumOfBook(LedgerNext', c) = IF c = b THEN SumOfBook(ledger, c) + n
                                                     ELSE SumOfBook(ledger, c)
  <2>1. Enters(ledger, LedgerNext', d, b, n) BY <1>3 DEF Enters
  <2>2. ledger \in [Day -> [Book -> Int]] BY <1>4
  <2> HIDE DEF LedgerNext
  <2>3. LedgerNext' \in [Day -> [Book -> Int]] BY <2>1, <2>2, Entered
  <2>4. \A e \in Day : SumOfDay(LedgerNext', e) = IF e = d THEN SumOfDay(ledger, e) + n
                                                  ELSE SumOfDay(ledger, e)
    BY <2>1, <2>2, Entered
  <2>5. SumOfAll(LedgerNext') = SumOfAll(ledger) + n BY <2>1, <2>2, Entered
  <2>6. \A c \in Book : SumOfBook(LedgerNext', c) = IF c = b THEN SumOfBook(ledger, c) + n
                                                    ELSE SumOfBook(ledger, c)
    BY <2>1, <2>2, Entered
  <2> QED BY <2>3, <2>4, <2>5, <2>6
<1>6. ASSUME NoPeers(d) PROVE SumOfDay(LedgerNext', d) >= 0
  <2>1. ASSUME NEW c \in Book PROVE LedgerNext'[d][c] >= 0
    <3>1. Covered(d, c)' BY DEF LedgerInv
    <3>2. Coming(d, c)' = IF c = b THEN n ELSE 0 BY <1>1 DEF Coming, About, Free
    <3>3. LedgerNext'[d][c] = ledger[d][c] + (IF c = b THEN n ELSE 0) /\ ledger[d][c] \in Int
      BY <1>3, <1>4
    <3>4. Peers[d][c] = 0 BY <1>6 DEF NoPeers
    <3> QED BY <3>1, <3>2, <3>3, <3>4 DEF Covered
  <2> HIDE DEF LedgerNext
  <2> QED BY <1>5, <2>1, DaySums
<1> HIDE DEF BookNext, TotalsNext, JournalNext, LedgerNext
<1>7. ASSUME JournalTimes PROVE JournalTimes'
  <2> SUFFICES ASSUME NEW e \in Day, NoPeers(e)
               PROVE  JournalNext'[e] = SumOfDay(LedgerNext', e)
    BY DEF JournalTimes
  <2>1. journal.secs[e] = SumOfDay(ledger, e) BY <1>2, <1>7 DEF JournalTimes
  <2>2. CASE e = d
    <3>1. JournalNext'[e] = Shifted(SumOfDay(ledger, d), n) BY <1>3, <1>4, <2>1, <2>2
    <3>2. SumOfDay(ledger, d) + n >= 0 /\ SumOfDay(ledger, d) \in Int
      BY <1>4, <1>5, <1>6, <2>2, DaySums
    <3>3. Shifted(SumOfDay(ledger, d), n) = SumOfDay(ledger, d) + n BY <3>2 DEF Shifted
    <3> QED BY <1>5, <2>2, <3>1, <3>3
  <2>3. CASE e # d BY <1>3, <1>4, <1>5, <2>1, <2>3
  <2> QED BY <2>2, <2>3
<1>8. ASSUME FileTimes, op'.st.secs = book[b].secs + n, op'.gl.secs = totals.secs + n
      PROVE  FileTimes'
  <2>1. TotalsNext'.secs = SumOfAll(LedgerNext') BY <1>2, <1>3, <1>5, <1>8 DEF FileTimes
  <2>2. ASSUME NEW c \in Book PROVE BookNext'[c].secs = SumOfBook(LedgerNext', c)
    <3>1. book[c].secs = SumOfBook(ledger, c) BY <1>2, <1>8 DEF FileTimes
    <3>2. BookNext'[c].secs = IF c = b THEN book[c].secs + n ELSE book[c].secs
      BY <1>3, <1>4, <1>8
    <3> QED BY <1>5, <3>1, <3>2
  <2> QED BY <2>1, <2>2 DEF FileTimes
<1> QED BY <1>3, <1>7, <1>8

(* A save with no better reason to overwrite than "lost": its copies are   *)
(* those of the card, or of a screen that should have them.                *)
LEMMA LostSave ==
  ASSUME TypeInv, NEW st, NEW b, NEW gl, over' = over \cup Overwrites(st, b, gl),
         over' \subseteq {"lost", "merged", "ignored"}
  PROVE  /\ over \subseteq {"lost", "merged", "ignored"}
         /\ \/ book[b] = st /\ totals = gl
            \/ /\ rd = Closed \/ (rd.loaded /\ Format[rd.book] = "xtc")
               /\ ~(sc # Hidden /\ op'.next = "close")
<1>1. rd # Closed => Format[rd.book] \in {"epub", "xtc"}
  BY EditsAssumption DEF TypeInv, ScreensOK, Reader
<1> QED BY <1>1 DEF Overwrites

(* A reader that is shown and saves has what the card has.                 *)
LEMMA ReaderHas ==
  ASSUME SeesInv, Free, faults = 0, rd # Closed, sc = Hidden, rd.loaded,
         Format[rd.book] = "xtc"
  PROVE  rd.st = book[rd.book] /\ rd.gl = totals
BY DEF SeesInv, OnTop, SeesAll, BookToBe, TotalsToBe

(* The start of an operation that changes no time.                         *)
LEMMA TimesSaves ==
  ASSUME TypeInv, TimesInv, Free, UNCHANGED <<book, totals, journal, ledger, faults>>,
         op'.kind = "save", op'.todo \notin ToTime, op'.todo \notin BeforeRecord,
         op' # Idle, op'.next = "show" => op'.todo \in ToTotals /\ rd'.gl = op'.gl,
         faults = 0 /\ over' \subseteq {"lost", "merged", "ignored"} =>
           /\ over \subseteq {"lost", "merged", "ignored"}
           /\ op'.todo \in ToBook => op'.st.secs = book[op'.book].secs
           /\ op'.todo \in ToTotals => op'.gl.secs = totals.secs
           /\ sc' # Hidden =>
                /\ sc'.page \in Book /\ sc'.gl.secs = sc'.seen.secs
                /\ op'.next = "stay" /\ (rd' = Closed \/ (rd'.loaded /\ Format[rd'.book] = "xtc")) =>
                     sc'.seen.secs = totals.secs /\ sc'.local.secs = book[sc'.page].secs
  PROVE  TimesInv'
<1>1. SUFFICES ASSUME faults = 0 PROVE TimesInv'
  BY DEF TimesInv
<1>2. JournalTimes' BY <1>1, TimesSame DEF TimesInv
<1>3. ASSUME over' \subseteq {"lost", "merged", "ignored"} PROVE FileTimes' /\ OpTimes' /\ ScreenTimes'
  <2>1. FileTimes BY <1>1, <1>3 DEF TimesInv
  <2>2. (\A b \in Book : BookNext'[b].secs = book[b].secs) /\ TotalsNext'.secs = totals.secs
    BY <1>1, <1>3, TimesSame
  <2>3. FileTimes' BY <2>1, <2>2, TimesSame
  <2>4. ~UnderCorrection' /\ ~Free' BY DEF UnderCorrection, Free
  <2>5. op'.next = "show" => rd'.gl = TotalsNext' BY <2>4 DEF TotalsNext
  <2>6. Staying' => op'.next = "stay" BY <2>4 DEF Staying
  <2> HIDE DEF BookNext, TotalsNext, JournalNext, LedgerNext
  <2>7. OpTimes' BY <2>4, <2>5 DEF OpTimes
  <2>8. ScreenTimes' BY <1>1, <1>3, <2>2, <2>4, <2>6 DEF ScreenTimes
  <2> QED BY <2>3, <2>7, <2>8
<1> QED BY <1>1, <1>2, <1>3 DEF TimesInv

LEMMA OtherLists ==
  /\ \A l \in {<<"book">>, <<"done">>, <<"book", "totals">>, <<"book", "totals", "done">>} :
       l \notin ToTime /\ l \notin BeforeRecord
  /\ <<"done">> \notin ToBook
  /\ <<"book">> \notin ToTotals /\ <<"done">> \notin ToTotals
  /\ <<"book", "totals">> \in ToTotals
BY DEF ToTime, ToBook, ToTotals, WithBook, WithTotals, BeforeRecord

LEMMA TimesToggle ==
  ASSUME TypeInv, SeesInv, TimesInv, ToggleCompleted
  PROVE  TimesInv'
<1> DEFINE done == ~rd.st.done
<1>1. /\ Free /\ rd # Closed /\ sc = Hidden /\ sc' = sc
      /\ UNCHANGED <<book, totals, journal, ledger, faults>>
      /\ over' = over \cup Overwrites(rd.st, rd.book, rd.gl)
  BY DEF ToggleCompleted, Reading
<1>2. PICK n \in Counts(done, over) :
      /\ rd' = [rd EXCEPT !.st.done = done, !.gl = Counted(@, done)]
      /\ op' = [Task(rd.book) EXCEPT !.todo = <<"book", "totals", "done">>,
                 !.st = rd'.st, !.gl = rd'.gl, !.count = n]
  BY DEF ToggleCompleted
<1>3. /\ op'.todo = <<"book", "totals", "done">> /\ op' # Idle /\ op'.book = rd.book
      /\ op'.st = rd'.st /\ op'.gl = rd'.gl /\ op'.next = "stay" /\ op'.kind = "save"
  BY <1>2 DEF Task, Idle
<1>4. rd \in Reader /\ rd.st \in Stats /\ rd.gl \in Totals
  BY <1>1 DEF TypeInv, ScreensOK, Reader
<1>5. rd'.st.secs = rd.st.secs /\ rd'.gl.secs = rd.gl.secs
  BY <1>2, <1>4 DEF Reader, Stats, Totals, Counted
<1>6. ASSUME faults = 0, over' \subseteq {"lost", "merged", "ignored"}
      PROVE  over \subseteq {"lost", "merged", "ignored"} /\ rd.st = book[rd.book] /\ rd.gl = totals
  <2>1. /\ over \subseteq {"lost", "merged", "ignored"}
        /\ \/ book[rd.book] = rd.st /\ totals = rd.gl
           \/ rd.loaded /\ Format[rd.book] = "xtc"
    BY <1>1, <1>6, LostSave
  <2> QED BY <1>1, <1>6, <2>1, ReaderHas
<1> QED BY <1>1, <1>3, <1>5, <1>6, OtherLists, TimesSaves

LEMMA TimesSaveBook ==
  ASSUME TypeInv, SeesInv, TimesInv, SaveBook
  PROVE  TimesInv'
<1>1. /\ Free /\ rd # Closed /\ sc = Hidden /\ sc' = sc
      /\ UNCHANGED <<book, totals, journal, ledger, faults>>
      /\ over' = over \cup Overwrites(rd.st, rd.book, totals)
  BY DEF SaveBook, Reading
<1>2. /\ op'.todo = <<"book">> /\ op' # Idle /\ op'.book = rd.book /\ op'.st = rd.st
      /\ op'.next = "stay" /\ op'.kind = "save"
  BY DEF SaveBook, Task, Idle
<1>3. ASSUME faults = 0, over' \subseteq {"lost", "merged", "ignored"}
      PROVE  over \subseteq {"lost", "merged", "ignored"} /\ rd.st = book[rd.book]
  <2>1. /\ over \subseteq {"lost", "merged", "ignored"}
        /\ book[rd.book] = rd.st \/ (rd.loaded /\ Format[rd.book] = "xtc")
    BY <1>1, <1>3, LostSave
  <2> QED BY <1>1, <1>3, <2>1, ReaderHas
<1> QED BY <1>1, <1>2, <1>3, OtherLists, TimesSaves

LEMMA TimesIgnored ==
  ASSUME TypeInv, SeesInv, TimesInv, ToggleIgnored
  PROVE  TimesInv'
<1>1. /\ Free /\ rd # Closed /\ sc = Hidden /\ sc' = sc
      /\ UNCHANGED <<book, totals, journal, ledger, faults>>
      /\ over' = over \cup Overwrites(rd.st, rd.book, totals)
  BY DEF ToggleIgnored, Reading
<1>2. rd \in Reader /\ rd.st \in Stats BY <1>1 DEF TypeInv, ScreensOK, Reader
<1>3. /\ op'.todo = <<"book">> /\ op' # Idle /\ op'.book = rd.book /\ op'.st = rd'.st
      /\ op'.next = "stay" /\ op'.kind = "save"
  BY DEF ToggleIgnored, Task, Idle
<1>4. rd'.st.secs = rd.st.secs BY <1>2 DEF ToggleIgnored, Reader, Stats
<1>5. ASSUME faults = 0, over' \subseteq {"lost", "merged", "ignored"}
      PROVE  over \subseteq {"lost", "merged", "ignored"} /\ rd.st = book[rd.book]
  <2>1. /\ over \subseteq {"lost", "merged", "ignored"}
        /\ book[rd.book] = rd.st \/ (rd.loaded /\ Format[rd.book] = "xtc")
    BY <1>1, <1>5, LostSave
  <2> QED BY <1>1, <1>5, <2>1, ReaderHas
<1> QED BY <1>1, <1>3, <1>4, <1>5, OtherLists, TimesSaves

LEMMA TimesBrowser ==
  ASSUME TypeInv, TimesInv, NEW b \in Book, BrowserToggle(b)
  PROVE  TimesInv'
<1>1. /\ Free /\ sc = Hidden /\ UNCHANGED <<book, totals, journal, ledger, sc, faults>>
      /\ over \subseteq over'
  BY DEF BrowserToggle, AtHome
<1>2. book[b] \in Stats /\ totals \in Totals BY DEF TypeInv, FilesOK
<1>3. /\ op'.todo = <<"book", "totals", "done">> /\ op' # Idle /\ op'.book = b
      /\ op'.st = [book[b] EXCEPT !.done = ~book[b].done]
      /\ op'.gl = Counted(totals, ~book[b].done)
      /\ op'.next = "stay" /\ op'.kind = "save"
  BY DEF BrowserToggle, Task, Idle
<1>4. op'.st.secs = book[b].secs /\ op'.gl.secs = totals.secs
  BY <1>2, <1>3 DEF Stats, Totals, Counted
<1> QED BY <1>1, <1>3, <1>4, OtherLists, TimesSaves

LEMMA TimesEdit ==
  ASSUME TypeInv, TimesInv, EditCompletion
  PROVE  TimesInv'
<1>1. /\ OnScreen /\ Free /\ UNCHANGED <<book, totals, journal, ledger, rd, faults>>
      /\ over \subseteq over' /\ sc \in Screen /\ sc.page \in Book /\ sc.gl \in Totals
  BY DEF EditCompletion, Browsing, OnScreen, TypeInv, ScreensOK, Screen
<1>2. /\ op'.todo = <<"done">> /\ op' # Idle /\ op'.next = "stay" /\ op'.kind = "save"
  BY DEF EditCompletion, Task, Idle
<1>3. /\ sc'.seen = sc.seen /\ sc'.page = sc.page /\ sc'.local = sc.local
      /\ sc'.gl = Counted(sc.gl, ~sc.done)
  BY <1>1 DEF EditCompletion, Screen
<1>4. sc'.gl.secs = sc.gl.secs BY <1>1, <1>3 DEF Counted, Totals
<1>5. faults = 0 /\ over' \subseteq {"lost", "merged", "ignored"} =>
        /\ over \subseteq {"lost", "merged", "ignored"}
        /\ sc'.gl.secs = sc'.seen.secs
        /\ rd' = Closed \/ (rd'.loaded /\ Format[rd'.book] = "xtc") =>
             sc'.seen.secs = totals.secs /\ sc'.local.secs = book[sc'.page].secs
  BY <1>1, <1>3, <1>4, ScreenHas
<1> QED BY <1>1, <1>2, <1>3, <1>5, OtherLists, TimesSaves

LEMMA TimesSaveStats ==
  ASSUME TypeInv, TimesInv, SaveStats
  PROVE  TimesInv'
<1>1. /\ OnScreen /\ Free /\ UNCHANGED <<book, totals, journal, ledger, rd, faults>>
      /\ sc \in Screen /\ sc.page \in Book /\ sc.local \in Stats
      /\ over' = over \cup Overwrites(sc.local, sc.page, sc.seen)
  BY DEF SaveStats, Browsing, OnScreen, TypeInv, ScreensOK, Screen
<1>2. /\ op'.todo = <<"book", "totals">> /\ op' # Idle /\ op'.book = sc.page
      /\ op'.st = sc'.local /\ op'.gl = sc.gl /\ op'.next = "stay" /\ op'.kind = "save"
  BY DEF SaveStats, Task, Idle
<1>3. /\ sc'.seen = sc.gl /\ sc'.gl = sc.gl /\ sc'.page = sc.page
      /\ sc'.local.secs = sc.local.secs
  BY <1>1 DEF SaveStats, Screen, Stats
<1>4. ASSUME faults = 0, over' \subseteq {"lost", "merged", "ignored"}
      PROVE  /\ over \subseteq {"lost", "merged", "ignored"} /\ sc.gl.secs = totals.secs
             /\ sc.local.secs = book[sc.page].secs
  <2>1. /\ over \subseteq {"lost", "merged", "ignored"}
        /\ \/ book[sc.page] = sc.local /\ totals = sc.seen
           \/ rd = Closed \/ (rd.loaded /\ Format[rd.book] = "xtc")
    BY <1>1, <1>4, LostSave
  <2> QED BY <1>1, <1>4, <2>1, ScreenHas
<1> QED BY <1>1, <1>2, <1>3, <1>4, OtherLists, TimesSaves

(* An edit of a date writes no time, whatever it counts in the journal.    *)
LEMMA TimesDate ==
  ASSUME TypeInv, TimesInv, EditDate
  PROVE  TimesInv'
<1>1. /\ OnScreen /\ Free /\ UNCHANGED <<book, totals, journal, ledger, rd, faults>>
      /\ over \subseteq over' /\ sc.page \in Book
  BY DEF EditDate, Browsing, OnScreen, TypeInv, ScreensOK, Screen
<1>2. /\ op = Idle /\ sc'.seen = sc.seen /\ sc'.gl = sc.gl /\ sc'.page = sc.page
      /\ sc'.local = sc.local
  BY DateEdited
<1>3. faults = 0 /\ over' \subseteq {"lost", "merged", "ignored"} =>
        /\ over \subseteq {"lost", "merged", "ignored"}
        /\ sc'.gl.secs = sc'.seen.secs
        /\ rd' = Closed \/ (rd'.loaded /\ Format[rd'.book] = "xtc") =>
             sc'.seen.secs = totals.secs /\ sc'.local.secs = book[sc'.page].secs
  BY <1>1, <1>2, ScreenHas
<1>4. CASE op' = Idle BY <1>1, <1>2, <1>3, <1>4, TimesQuiet
<1>5. CASE op' # Idle
  <2>1. op'.todo = <<"done">> /\ op'.next = "stay" /\ op'.kind = "save"
    BY <1>5, DateEdited
  <2> QED BY <1>1, <1>2, <1>3, <1>5, <2>1, OtherLists, TimesSaves
<1> QED BY <1>4, <1>5

(* The commit of a session: its copies have the times of the card.         *)
LEMMA TimesCommit ==
  ASSUME TypeInv, SeesInv, LedgerInv', TimesInv, Free, rd # Closed,
         NEW next \in {"close", "show"}, next = "show" => sc = Hidden,
         Commit(Loaded(rd), next)
  PROVE  TimesInv'
<1> DEFINE r == Loaded(rd)
<1>1. rd \in Reader /\ r \in Reader /\ r.book = rd.book /\ r.book \in Book /\ r.ses \in Nat
  BY LoadedOK DEF TypeInv, ScreensOK, Reader
<1>2. /\ op'.kind = "save" /\ op'.day = Today /\ op'.book = r.book /\ op'.time = r.ses
      /\ op'.next = next /\ op' # Idle
      /\ op'.todo = IF r.ses > 0 THEN <<"book", "totals", "time", "ledger">>
                    ELSE <<"book", "totals">>
      /\ rd' = Recorded(r)
      /\ UNCHANGED <<book, totals, journal, ledger, sc, due, faults>>
  BY <1>1, CommitStarts
<1>3. /\ op'.st = rd'.st /\ op'.gl = rd'.gl
      /\ over' = over \cup Overwrites(r.st, r.book, r.gl)
  BY DEF Commit, Task
<1>4. ASSUME faults = 0, over' \subseteq {"lost", "merged", "ignored"}
      PROVE  over \subseteq {"lost", "merged", "ignored"} /\ r.st = book[r.book] /\ r.gl = totals
  <2>1. /\ over \subseteq {"lost", "merged", "ignored"}
        /\ \/ book[r.book] = r.st /\ totals = r.gl
           \/ /\ rd.loaded /\ Format[rd.book] = "xtc"
              /\ ~(sc # Hidden /\ op'.next = "close")
    BY <1>3, <1>4, LostSave
  <2>2. CASE rd.loaded /\ Format[rd.book] = "xtc" /\ sc = Hidden
    <3>1. r = rd BY <2>2 DEF Loaded
    <3> QED BY <1>4, <2>1, <2>2, <3>1, ReaderHas
  <2> QED BY <1>2, <2>1, <2>2
<1>5. op'.st.secs = r.st.secs + r.ses /\ op'.gl.secs = r.gl.secs + r.ses
      /\ r.st.secs \in Nat /\ r.gl.secs \in Nat
  BY <1>1, <1>2, <1>3 DEF Recorded, Reader, Stats, Totals
<1> HIDE DEF r
<1>6. ASSUME faults = 0, over \subseteq {"lost", "merged", "ignored"}, sc' # Hidden
      PROVE  next = "close" /\ sc'.page \in Book /\ sc'.gl.secs = sc'.seen.secs
  <2>1. ScreenTimes /\ sc # Hidden BY <1>2, <1>6 DEF TimesInv
  <2>2. sc'.gl.secs = sc'.seen.secs BY <1>2, <2>1 DEF ScreenTimes
  <2>3. sc.page \in Book BY <2>1 DEF TypeInv, ScreensOK, Screen
  <2> QED BY <1>2, <2>1, <2>2, <2>3
<1>7. CASE r.ses = 0
  <2>1. op'.todo = <<"book", "totals">> BY <1>2, <1>7
  <2> QED BY <1>2, <1>3, <1>4, <1>5, <1>6, <1>7, <2>1, OtherLists, TimesSaves
<1>8. CASE r.ses # 0
  <2>1. op'.todo = <<"book", "totals", "time", "ledger">> BY <1>1, <1>2, <1>8
  <2>2. SUFFICES ASSUME faults = 0 PROVE TimesInv'
    BY <1>2 DEF TimesInv
  <2>3. Today \in Day /\ r.ses \in Int BY <1>1, EditsAssumption
  <2>4. /\ JournalTimes => JournalTimes'
        /\ TotalsNext' = op'.gl
        /\ /\ FileTimes
           /\ op'.st.secs = book[r.book].secs + r.ses /\ op'.gl.secs = totals.secs + r.ses
           => FileTimes'
    BY <1>1, <1>2, <2>1, <2>2, <2>3, TimesAdd
  <2>5. ASSUME over' \subseteq {"lost", "merged", "ignored"} PROVE FileTimes' /\ OpTimes' /\ ScreenTimes'
    <3>1. FileTimes' BY <1>4, <1>5, <2>2, <2>4, <2>5 DEF TimesInv
    <3>2. ~UnderCorrection' /\ ~Staying'
      BY <1>2 DEF UnderCorrection, Staying, Free
    <3> HIDE DEF BookNext, TotalsNext, JournalNext, LedgerNext
    <3>3. OpTimes' BY <1>3, <2>4, <3>2 DEF OpTimes
    <3>4. ScreenTimes' BY <1>4, <1>6, <2>2, <2>5, <3>2 DEF ScreenTimes
    <3> QED BY <3>1, <3>3, <3>4
  <2> QED BY <2>2, <2>4, <2>5 DEF TimesInv
<1> QED BY <1>7, <1>8

LEMMA TimesLeave ==
  ASSUME TypeInv, SeesInv, LedgerInv', TimesInv, Leave \/ ShowAfterReading
  PROVE  TimesInv'
<1>1. CASE ShowAfterReading
  BY <1>1, TimesCommit DEF ShowAfterReading, Reading
<1>2. CASE Leave
  <2>1. CASE NeedsCommit(rd) BY <1>2, <2>1, TimesCommit DEF Leave
  <2>2. CASE ~NeedsCommit(rd)
    <3>1. Free /\ sc' = Hidden /\ UNCHANGED <<book, totals, journal, ledger, op, over, faults>>
      BY <1>2, <2>2 DEF Leave
    <3> QED BY <3>1, TimesQuiet
  <2> QED BY <2>1, <2>2
<1> QED BY <1>1, <1>2

LEMMA TimesCorrect ==
  ASSUME TypeInv, LedgerInv', TimesInv, NEW b \in Book, NEW d \in Day, Correct(d, b)
  PROVE  TimesInv'
<1>1. /\ OnScreen /\ Free /\ sc # Hidden
      /\ UNCHANGED <<book, totals, journal, ledger, rd, sc, faults>>
      /\ over' = over \cup Overwrites(book[b], b, sc.gl)
      /\ sc \in Screen /\ book[b] \in Stats /\ sc.gl \in Totals /\ sc.page \in Book
  BY DEF Correct, Browsing, OnScreen, TypeInv, FilesOK, ScreensOK, Screen
<1>2. PICK by \in Corrections(d, b) :
        /\ op'.kind = "correct" /\ op' \in Op /\ op'.next = "stay"
        /\ op'.book = b /\ op'.day = d /\ op'.time = by
        /\ op'.todo = <<"time", "book", "totals", "ledger">>
        /\ op'.st = [book[b] EXCEPT !.secs = @ + by]
        /\ op'.gl = [sc.gl EXCEPT !.secs = @ + by]
  BY CorrectStarts
<1>3. by \in Int BY <1>1, CorrectionOK DEF TypeInv
<1>4. op'.st.secs = book[b].secs + by /\ op'.gl.secs = sc.gl.secs + by
  BY <1>1, <1>2 DEF Stats, Totals
<1>5. op' # Idle BY <1>2 DEF Idle
<1>6. SUFFICES ASSUME faults = 0 PROVE TimesInv'
  BY <1>1 DEF TimesInv
<1>7. /\ JournalTimes => JournalTimes'
      /\ BookNext' = [book EXCEPT ![b] = op'.st] /\ TotalsNext' = op'.gl
      /\ /\ FileTimes
         /\ op'.st.secs = book[b].secs + by /\ op'.gl.secs = totals.secs + by
         => FileTimes'
  BY <1>1, <1>2, <1>3, <1>5, <1>6, TimesAdd
<1>8. ASSUME over' \subseteq {"lost", "merged", "ignored"} PROVE FileTimes' /\ OpTimes' /\ ScreenTimes'
  <2>1. /\ over \subseteq {"lost", "merged", "ignored"}
        /\ \/ totals = sc.gl
           \/ rd = Closed \/ (rd.loaded /\ Format[rd.book] = "xtc")
    BY <1>1, <1>8, LostSave
  <2>2. /\ sc.gl.secs = sc.seen.secs
        /\ rd = Closed \/ (rd.loaded /\ Format[rd.book] = "xtc") =>
             sc.seen.secs = totals.secs /\ sc.local.secs = book[sc.page].secs
    BY <1>1, <1>6, <2>1, ScreenHas
  <2>3. FileTimes' BY <1>4, <1>6, <1>7, <2>1, <2>2 DEF TimesInv
  <2>4. BookNext'[b] = op'.st /\ \A c \in Book : c # b => BookNext'[c] = book[c]
    BY <1>7 DEF TypeInv, FilesOK
  <2>5. UnderCorrection' BY <1>2, <1>5 DEF UnderCorrection, Free
  <2> HIDE DEF BookNext, TotalsNext, JournalNext, LedgerNext
  <2>6. OpTimes' BY <1>2, <1>7, <2>4 DEF OpTimes
  <2>7. ScreenTimes' BY <1>1, <1>2, <2>2, <2>4, <2>5 DEF ScreenTimes
  <2> QED BY <2>3, <2>6, <2>7
<1> QED BY <1>6, <1>7, <1>8 DEF TimesInv

LEMMA TimesStep ==
  TypeInv /\ SeesInv /\ LedgerInv' /\ TimesInv /\ [Next]_vars => TimesInv'
<1> SUFFICES ASSUME TypeInv, SeesInv, LedgerInv', TimesInv, [Next]_vars PROVE TimesInv'
  OBVIOUS
<1>1. CASE UNCHANGED vars
  <2>1. /\ BookNext' = BookNext /\ TotalsNext' = TotalsNext /\ JournalNext' = JournalNext
        /\ LedgerNext' = LedgerNext
    BY <1>1 DEF vars, BookNext, TotalsNext, JournalNext, LedgerNext, Free
  <2>2. (UnderCorrection' <=> UnderCorrection) /\ (Staying' <=> Staying) /\ (Free' <=> Free)
    BY <1>1 DEF vars, UnderCorrection, Staying, Free
  <2> HIDE DEF BookNext, TotalsNext, JournalNext, LedgerNext
  <2>3. (OpTimes => OpTimes') /\ (ScreenTimes => ScreenTimes')
    BY <1>1, <2>1, <2>2 DEF vars, OpTimes, ScreenTimes
  <2> QED BY <1>1, <2>1, <2>3, TimesFollow DEF vars, TimesInv
<1>2. ASSUME NEW b \in Book,
             \/ Open(b) \/ OpenHomeStats(b) \/ OpenOther(b) \/ BrowserToggle(b)
             \/ \E d \in Day : Correct(d, b)
      PROVE  TimesInv'
  BY <1>2, TimesScreens, TimesBrowser, TimesCorrect
<1>3. CASE Write \/ WriteFails \/ JournalUnreadable \/ PowerLoss \/ Finish
  BY <1>3, TimesWrites, TimesFaults, TimesFinish
<1>4. CASE FirstPageDrawn \/ Read \/ Return \/ OpenStats \/ CloseHomeStats
  BY <1>4, TimesScreens
<1>5. CASE ToggleCompleted \/ ToggleIgnored \/ SaveBook
  BY <1>5, TimesToggle, TimesIgnored, TimesSaveBook
<1>7. CASE EditCompletion \/ EditDate \/ SaveStats
  BY <1>7, TimesEdit, TimesDate, TimesSaveStats
<1>6. CASE Leave \/ ShowAfterReading BY <1>6, TimesLeave
<1> QED BY <1>1, <1>2, <1>3, <1>4, <1>5, <1>6, <1>7 DEF Next

LEMMA TimesInit == Init => TimesInv
<1> SUFFICES ASSUME Init PROVE TimesInv
  OBVIOUS
<1>1. Free /\ sc = Hidden /\ TimesAgree /\ \A d \in Day : JournalAgrees(d)
  BY DEF Init, Free
<1>2. BookNext = book /\ TotalsNext = totals /\ JournalNext = journal.secs /\ LedgerNext = ledger
  BY <1>1, NextFree
<1> HIDE DEF BookNext, TotalsNext, JournalNext, LedgerNext
<1>3. JournalTimes /\ FileTimes
  BY <1>1, <1>2 DEF JournalTimes, FileTimes, TimesAgree, JournalAgrees
<1>4. OpTimes /\ ScreenTimes BY <1>1 DEF OpTimes, ScreenTimes
<1> QED BY <1>3, <1>4 DEF TimesInv

LEMMA TimesHold == TimesInv => MinutesKept
<1> SUFFICES ASSUME TimesInv, Free, faults = 0
             PROVE  /\ \A d \in Day : NoPeers(d) => JournalAgrees(d)
                    /\ over \subseteq {"lost", "merged", "ignored"} => TimesAgree
  BY DEF MinutesKept, Calmly
<1>1. BookNext = book /\ TotalsNext = totals /\ JournalNext = journal.secs /\ LedgerNext = ledger
  BY NextFree
<1> HIDE DEF BookNext, TotalsNext, JournalNext, LedgerNext
<1> QED BY <1>1 DEF TimesInv, JournalTimes, FileTimes, TimesAgree, JournalAgrees

(* For any books, days and ledgers of other readers: however reading,      *)
(* corrections and the screens' saves alternate, the journal adds up to    *)
(* the ledger on every day of this reader alone, and the totals and each   *)
(* book's file to all of it, unless one of them was written from copies    *)
(* known to be old.                                                        *)
THEOREM MinutesAddUp == Spec => []MinutesKept
<1>1. Init => TypeInv /\ SeesInv /\ LedgerInv /\ TimesInv
  <2>1. Init => SeesInv BY DEF Init, SeesInv, HomeOnly, OnTop
  <2> QED BY <2>1, InitType, LedgerInit, TimesInit
<1>2. TypeInv /\ SeesInv /\ LedgerInv /\ TimesInv /\ [Next]_vars
      => TypeInv' /\ SeesInv' /\ LedgerInv' /\ TimesInv'
  BY NextType, SeesStep, LedgerStep, TimesStep
<1>3. TypeInv /\ SeesInv /\ LedgerInv /\ TimesInv => MinutesKept BY TimesHold
<1> QED BY <1>1, <1>2, <1>3, PTL DEF Spec

=============================================================================
