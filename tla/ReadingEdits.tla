----------------------------- MODULE ReadingEdits -----------------------------
(***************************************************************************)
(* Reading time and completed books are kept several times over: in the    *)
(* file of each book, in the totals, per day in the journal and per day    *)
(* and book in the ledger.  A reader screen and the statistics screen,     *)
(* which may be open over it, both hold copies of a book's file and of the *)
(* totals, and write them back.                                            *)
(*                                                                         *)
(* Everything runs on the main task: an operation is a list of writes,     *)
(* carried out one by one, and nothing but a power loss comes in between.  *)
(* Time is counted in steps of a day correction; a session does not cross  *)
(* midnight, the clock is set and dates lie in the year of the journal.    *)
(* Of the dates only whether a book is completed, and whether a finish     *)
(* date may be another reader's, is modelled; nothing was read before the  *)
(* ledger was kept.                                                        *)
(***************************************************************************)
EXTENDS Integers, Sequences, FiniteSetsExt

CONSTANTS
  Book,         \* books on the card
  Format,       \* [Book -> {"epub", "xtc"}]
  Day, Today,   \* days, and the current one
  Peers,        \* [Day -> [Book -> Nat]]: time in the ledgers of other readers
  PeersDone,    \* books that the statistics of another reader complete,
  PeersDated,   \* and those for which they have a finish date
  Ignored,      \* books left out of the statistics (/ignore_stats/)
  MaxTime,      \* bound on the time read and added by corrections
  MaxFaults,    \* bound on failing calls and power losses
  Onward,       \* whether screens go on after a fault or an overwritten file
  None

ASSUME EditsAssumption ==
  /\ IsFiniteSet(Book) /\ IsFiniteSet(Day) /\ Today \in Day
  /\ Onward \in BOOLEAN
  /\ Format \in [Book -> {"epub", "xtc"}]
  /\ Peers \in [Day -> [Book -> Nat]]
  /\ PeersDone \subseteq PeersDated /\ PeersDated \subseteq Book
  /\ Ignored \subseteq Book
  /\ MaxTime \in Nat /\ MaxFaults \in Nat /\ None \notin Book

VARIABLES
  book,      \* the file of each book
  totals,    \* the file of the totals
  journal,   \* time per day, and books completed
  ledger,    \* sums of the ledger's records
  rd,        \* the reader screen
  sc,        \* the statistics screen
  op,        \* the operation under way
  due,       \* time read and corrected, per day and book
  over,      \* why copies may differ: newer data has been overwritten, or a
             \* completion is counted in some of them only
  faults

files == <<book, totals, journal, ledger>>
vars  == <<book, totals, journal, ledger, rd, sc, op, due, over, faults>>

Stats  == [secs : Nat, done : BOOLEAN]
Totals == [secs : Nat, done : Nat]

(* A missing or torn file of a book is loaded as this.                     *)
Blank == [secs |-> 0, done |-> FALSE]
Zero  == [secs |-> 0, done |-> 0]

Closed == [book |-> None]
Reader == [book : Book, loaded : BOOLEAN, committed : BOOLEAN,
           st : Stats, gl : Totals, ses : Nat]

(* `local' and `gl' are written back; `done' is the completion shown and   *)
(* edited, `foreign' whether the finish date may be another reader's,      *)
(* `seen' the totals as last read or written, `live' the time of the       *)
(* session below.                                                          *)
Hidden == [page |-> None]
Screen == [page : Book, from : {"reader", "after", "home"}, local : Stats,
           done : BOOLEAN, foreign : BOOLEAN, gl : Totals, seen : Totals, live : Nat,
           changed : BOOLEAN]

Idle  == [kind |-> "idle"]
Target == {"book", "totals", "time", "done", "ledger"}
Operation ==
  [kind : {"save", "correct", "undo"}, todo : Seq(Target), book : Book,
   day : Day, st : Stats, gl : Totals, time : Int, count : {-1, 0, 1},
   was : [st : Stats, gl : Totals, time : Nat], failed : 0..MaxFaults,
   next : {"stay", "close", "show"}]

-----------------------------------------------------------------------------
Sum(f) == MapThenSumSet(LAMBDA x : f[x], DOMAIN f)

SumOfDay(t, d)  == Sum(t[d])
SumOfBook(t, b) == Sum([d \in Day |-> t[d][b]])
SumOfAll(t)     == Sum([d \in Day |-> SumOfDay(t, d)])

Least(m, n) == IF m < n THEN m ELSE n

(* Journal days and the count of completed books stop at zero.             *)
Shifted(n, by) == IF n + by < 0 THEN 0 ELSE n + by

Count(done) == IF done THEN 1 ELSE -1

Counted(gl, done) == [gl EXCEPT !.done = Shifted(@, Count(done))]

(* What the copies have in common while every write is made.               *)
JournalAgrees(d) == journal.secs[d] = SumOfDay(ledger, d)

TimesAgree ==
  /\ totals.secs = SumOfAll(ledger)
  /\ \A b \in Book : book[b].secs = SumOfBook(ledger, b)

CompletionsAgree ==
  /\ totals.done = Cardinality({b \in Book \ Ignored : book[b].done})
  /\ journal.done = totals.done

(* A card in regular use: all copies agree.                                *)
Init ==
  /\ ledger \in [Day -> [Book -> 0..1]] /\ SumOfAll(ledger) < MaxTime
  /\ due = ledger
  /\ book \in [Book -> [secs : 0..MaxTime, done : BOOLEAN]]
  /\ totals \in [secs : 0..MaxTime, done : 0..Cardinality(Book)]
  /\ TimesAgree
  /\ journal \in [secs : [Day -> 0..MaxTime], done : 0..Cardinality(Book)]
  /\ CompletionsAgree /\ \A d \in Day : JournalAgrees(d)
  /\ rd = Closed /\ sc = Hidden /\ op = Idle
  /\ over = {} /\ faults = 0

-----------------------------------------------------------------------------
(* The writes of an operation.                                             *)

(* The bound of an instance: what follows a fault, the overwriting of      *)
(* newer data or an unequal count is only the rest of the operation, the   *)
(* saving of edits and the leaving of screens.                             *)
Calm == Onward \/ (over = {} /\ faults = 0)

Free == op = Idle

Task(b) ==
  [kind |-> "save", todo |-> <<>>, book |-> b, day |-> Today, st |-> Blank,
   gl |-> Zero, time |-> 0, count |-> 0, next |-> "stay",
   was |-> [st |-> Blank, gl |-> Zero, time |-> 0], failed |-> 0]

(* What holds of the card after the first write of the operation.          *)
Written(w) ==
  /\ book' = IF w = "book" THEN [book EXCEPT ![op.book] = op.st] ELSE book
  /\ totals' = IF w = "totals" THEN op.gl ELSE totals
  /\ journal' = CASE w = "time" -> [journal EXCEPT !.secs[op.day] = Shifted(@, op.time)]
                  [] w = "done" -> [journal EXCEPT !.done = Shifted(@, op.count)]
                  [] OTHER -> journal
  /\ ledger' = IF w = "ledger" THEN [ledger EXCEPT ![op.day][op.book] = @ + op.time]
               ELSE ledger

Write ==
  /\ ~Free /\ op.todo # <<>>
  /\ Written(Head(op.todo))
  /\ op' = [op EXCEPT !.todo = Tail(@)]
  /\ UNCHANGED <<rd, sc, due, over, faults>>

(* The file of a book is written in place and may be left torn; the others *)
(* are replaced as a whole; a record whose append fails may be there.      *)
Torn == Head(op.todo) = "book" /\ book' = [book EXCEPT ![op.book] = Blank]
        /\ UNCHANGED <<totals, journal, ledger>>

Unwritten ==
  \/ UNCHANGED files
  \/ Torn
  \/ Head(op.todo) = "ledger" /\ Written("ledger")

(* A correction reads back what it has written.                            *)
Noticed ==
  CASE Head(op.todo) = "book"   -> book'[op.book].secs # op.st.secs
    [] Head(op.todo) = "totals" -> totals'.secs # op.gl.secs
    [] OTHER -> TRUE

(* Mutant: the book's file keeps the correction the totals did not take.   *)
TakeBackTotals(w) ==
  CASE w = "time" -> <<>>
    [] w = "book" -> <<"time", "book">>
    [] OTHER      -> <<"time", "totals">>

(* What has to be taken back when a write fails.                           *)
TakeBack(w) ==
  CASE w = "time" -> <<>>
    [] w = "book" -> <<"time", "book">>
    [] OTHER      -> <<"time", "book", "totals">>

Undo(todo) == [op EXCEPT !.kind = "undo", !.todo = todo, !.time = -@,
                         !.st = op.was.st, !.gl = op.was.gl, !.failed = @ + 1]

WriteFails ==
  /\ ~Free /\ op.todo # <<>> /\ faults < MaxFaults
  /\ Unwritten
  /\ op' = IF op.kind = "correct" /\ Noticed THEN Undo(TakeBack(Head(op.todo)))
           ELSE [op EXCEPT !.todo = Tail(@), !.failed = @ + 1]
  /\ faults' = faults + 1
  /\ UNCHANGED <<rd, sc, due, over>>

(* The journal is read back after it has been changed.                     *)
JournalUnreadable ==
  /\ ~Free /\ op.kind = "correct" /\ op.todo # <<>> /\ Head(op.todo) = "book"
  /\ faults < MaxFaults /\ faults' = faults + 1
  /\ op' = Undo(<<"time">>)
  /\ UNCHANGED <<book, totals, journal, ledger, rd, sc, due, over>>

PowerLoss ==
  /\ faults < MaxFaults /\ faults' = faults + 1
  /\ \/ UNCHANGED files
     \/ ~Free /\ op.todo # <<>> /\ Torn
  /\ rd' = Closed /\ sc' = Hidden /\ op' = Idle
  /\ UNCHANGED <<due, over>>

-----------------------------------------------------------------------------
(* The reader screen.                                                      *)

AtHome == Free /\ Calm /\ rd = Closed /\ sc = Hidden

Reading == Free /\ Calm /\ rd # Closed /\ sc = Hidden

(* An EPUB reader loads its copies after its first page has been drawn;    *)
(* until then they are empty.                                              *)
Open(b) ==
  /\ AtHome
  /\ rd' = [book |-> b, loaded |-> Format[b] = "xtc", committed |-> FALSE,
            st |-> IF Format[b] = "xtc" THEN book[b] ELSE Blank,
            gl |-> IF Format[b] = "xtc" THEN totals ELSE Zero, ses |-> 0]
  /\ UNCHANGED <<book, totals, journal, ledger, sc, op, due, over, faults>>

Loaded(r) == IF r.loaded THEN r
             ELSE [r EXCEPT !.loaded = TRUE, !.st = book[r.book], !.gl = totals]

FirstPageDrawn ==
  /\ Reading /\ ~rd.loaded
  /\ rd' = Loaded(rd)
  /\ UNCHANGED <<book, totals, journal, ledger, sc, op, due, over, faults>>

Read ==
  /\ Reading /\ rd.loaded /\ rd.book \notin Ignored
  /\ SumOfAll(due) < MaxTime
  /\ rd' = [rd EXCEPT !.ses = @ + 1]
  /\ due' = [due EXCEPT ![Today][rd.book] = @ + 1]
  /\ UNCHANGED <<book, totals, journal, ledger, sc, op, over, faults>>

(* Why a save from the copies st and gl replaces something newer.          *)
Overwrites(st, b, gl) ==
  IF book[b] = st /\ totals = gl THEN {}
  ELSE IF rd # Closed /\ ~rd.loaded THEN {"unloaded"}
  ELSE IF sc # Hidden /\ op'.next = "close" THEN {"asleep"}
  ELSE IF rd # Closed /\ Format[rd.book] = "epub" THEN {"epub"}
  ELSE {"lost"}

(* Why a completion of b, merged from another reader's statistics or not,  *)
(* is counted in some copies only.                                         *)
Unequal(b, merged) == {w \in {"merged", "ignored"} :
  (w = "merged" => merged) /\ (w = "ignored" => b \in Ignored)}

(* What setting or clearing a completion adds to the journal: the finish   *)
(* date that is cleared may be one on which nothing was counted, if        *)
(* completions have been counted unequally before.                         *)
Counts(done, why) ==
  IF done \/ why \cap {"merged", "ignored"} = {} THEN {Count(done)} ELSE {-1, 0}

(* setBookCompleted, at any time after onEnter.                            *)
ToggleCompleted ==
  /\ Reading /\ rd.book \notin Ignored
  /\ LET done == ~rd.st.done IN
       /\ rd' = [rd EXCEPT !.st.done = done, !.gl = Counted(@, done)]
       /\ \E n \in Counts(done, over) :
            op' = [Task(rd.book) EXCEPT !.todo = <<"book", "totals", "done">>,
                     !.st = rd'.st, !.gl = rd'.gl, !.count = n]
  /\ over' = over \cup Overwrites(rd.st, rd.book, rd.gl)
  /\ UNCHANGED <<book, totals, journal, ledger, sc, due, faults>>

(* A completion in a book that is left out of the statistics is kept in    *)
(* its file only.                                                          *)
ToggleIgnored ==
  /\ Reading /\ rd.book \in Ignored
  /\ rd' = [rd EXCEPT !.st.done = ~@]
  /\ op' = [Task(rd.book) EXCEPT !.todo = <<"book">>, !.st = rd'.st]
  /\ over' = over \cup Overwrites(rd.st, rd.book, totals)
  /\ UNCHANGED <<book, totals, journal, ledger, sc, due, faults>>

(* Resetting the pace or clearing the cache writes the book's file only.   *)
SaveBook ==
  /\ Reading
  /\ op' = [Task(rd.book) EXCEPT !.todo = <<"book">>, !.st = rd.st]
  /\ over' = over \cup Overwrites(rd.st, rd.book, totals)
  /\ UNCHANGED <<book, totals, journal, ledger, rd, sc, due, faults>>

Recorded(r) == [r EXCEPT !.st.secs = @ + r.ses, !.gl.secs = @ + r.ses,
                         !.committed = TRUE]

Commit(r, next) ==
  /\ rd' = Recorded(r)
  /\ op' = [Task(r.book) EXCEPT !.st = rd'.st, !.gl = rd'.gl, !.time = r.ses, !.next = next,
              !.todo = IF r.ses > 0 THEN <<"book", "totals", "time", "ledger">>
                       ELSE <<"book", "totals">>]
  /\ over' = over \cup Overwrites(r.st, r.book, r.gl)
  /\ UNCHANGED <<book, totals, journal, ledger, sc, due, faults>>

(* Mutant: the commit at exit does not know of the one before the          *)
(* statistics were shown.                                                  *)
NeedsCommitAgain(r) == r.book \notin Ignored

NeedsCommit(r) == r.book \notin Ignored /\ ~r.committed

(* Going home or to sleep: the screen on top is left first, its edits      *)
(* saved; the handler of its result does not run.                          *)
Leave ==
  /\ Free /\ rd # Closed /\ (sc # Hidden => ~sc.changed)
  /\ IF NeedsCommit(rd) THEN Commit(Loaded(rd), "close")
     ELSE /\ rd' = Closed /\ sc' = Hidden
          /\ UNCHANGED <<book, totals, journal, ledger, op, due, over, faults>>

(* goHomeAfterReading: the statistics are shown after the commit, unless   *)
(* the book is left out of them.                                           *)
ShowAfterReading ==
  /\ Reading /\ rd.ses > 0 /\ rd.book \notin Ignored
  /\ Commit(Loaded(rd), "show")

-----------------------------------------------------------------------------
(* The statistics screen.                                                  *)

(* mergeSyncedBookStats: what is shown and edited is merged from the       *)
(* statistics of the other readers.                                        *)
Merged(b, done) == done \/ b \in PeersDone

(* A reader's copy is shown only of a book that is in the statistics.      *)
Shown(b, from, gl, live) ==
  [page |-> b, from |-> from, local |-> book[b], gl |-> gl, seen |-> gl,
   done |-> Merged(b, IF from = "reader" /\ b \notin Ignored THEN rd.st.done
                      ELSE book[b].done),
   foreign |-> b \in PeersDated, live |-> live, changed |-> FALSE]

OpenStats ==
  /\ Reading
  /\ sc' = Shown(rd.book, "reader", rd.gl, rd.ses)
  /\ UNCHANGED <<book, totals, journal, ledger, rd, op, due, over, faults>>

OpenHomeStats(b) ==
  /\ AtHome
  /\ sc' = Shown(b, "home", totals, 0)
  /\ UNCHANGED <<book, totals, journal, ledger, rd, op, due, over, faults>>

OnScreen == Free /\ sc # Hidden

Browsing == OnScreen /\ Calm

(* A finished date is set or cleared; a completion is counted in the       *)
(* journal at once and in the files when the edits are saved.  A merged    *)
(* completion that is cleared was counted by another reader.               *)
EditCompletion ==
  /\ Browsing
  /\ sc' = [sc EXCEPT !.done = ~@, !.foreign = FALSE,
                      !.gl = Counted(@, ~sc.done), !.changed = TRUE]
  /\ over' = over \cup Unequal(sc.page, sc.foreign /\ sc.done)
  /\ \E n \in Counts(~sc.done, over') :
       op' = [Task(sc.page) EXCEPT !.todo = <<"done">>, !.count = n]
  /\ UNCHANGED <<book, totals, journal, ledger, rd, due, faults>>

(* Any other edit of a date, that of a completion moving it in the journal *)
(* from its old date, on which nothing may be counted, to the new one.  A  *)
(* merged completion goes uncounted into the file when the edit is saved.  *)
EditDate ==
  /\ Browsing
  /\ over' = over \cup Unequal(sc.page, sc.foreign /\ sc.done)
  /\ \E finish \in {FALSE, sc.done} :
       /\ sc' = [sc EXCEPT !.changed = TRUE, !.foreign = @ /\ ~finish]
       /\ \/ UNCHANGED op
          \/ /\ finish /\ over' \cap {"merged", "ignored"} # {}
             /\ op' = [Task(sc.page) EXCEPT !.todo = <<"done">>, !.count = 1]
  /\ UNCHANGED <<book, totals, journal, ledger, rd, due, faults>>

(* Leaving the edit mode, the book or the screen.                          *)
SaveStats ==
  /\ OnScreen /\ sc.changed
  /\ sc' = [sc EXCEPT !.local.done = sc.done, !.seen = sc.gl, !.changed = FALSE]
  /\ op' = [Task(sc.page) EXCEPT !.todo = <<"book", "totals">>,
              !.st = sc'.local, !.gl = sc.gl]
  /\ over' = over \cup Overwrites(sc.local, sc.page, sc.seen)
  /\ UNCHANGED <<book, totals, journal, ledger, rd, due, faults>>

(* Started Books and Reading Dates open another book in the same screen.   *)
OpenOther(b) ==
  /\ Browsing /\ ~sc.changed
  /\ sc' = [sc EXCEPT !.page = b, !.local = book[b],
                      !.done = Merged(b, book[b].done), !.foreign = b \in PeersDated]
  /\ UNCHANGED <<book, totals, journal, ledger, rd, op, due, over, faults>>

(* What the details of a day show for a book.                              *)
OnDay(d, b) ==
  Shifted(ledger[d][b], Peers[d][b]) + IF d = Today /\ b = sc.page THEN sc.live ELSE 0

(* Mutant: the shown time of the open session can be taken away.           *)
CanAdjustLive(d, b) == OnDay(d, b) > 0

CanAdjust(d, b) ==
  /\ OnDay(d, b) > 0
  /\ ~(sc.live > 0 /\ d = Today /\ b = sc.page)

(* Mutant: only what is shown limits what can be taken away.               *)
RemovableShown(d, b) == OnDay(d, b)

Removable(d, b) == Least(OnDay(d, b), Least(book[b].secs, sc.gl.secs))

Corrections(d, b) ==
  {by \in -Removable(d, b) .. 1 : by # 0 /\ (by > 0 => SumOfAll(due) < MaxTime)}

(* saveDayCorrection; it cannot be reached with edits that are not saved.  *)
Correct(d, b) ==
  /\ Browsing /\ ~sc.changed /\ CanAdjust(d, b)
  /\ \E by \in Corrections(d, b) :
       op' = [Task(b) EXCEPT !.kind = "correct", !.day = d, !.time = by,
                !.todo = <<"time", "book", "totals", "ledger">>,
                !.st = [book[b] EXCEPT !.secs = @ + by],
                !.gl = [sc.gl EXCEPT !.secs = @ + by],
                !.was = [st |-> book[b], gl |-> sc.gl, time |-> journal.secs[d]]]
  /\ over' = over \cup Overwrites(book[b], b, sc.gl)
  /\ UNCHANGED <<book, totals, journal, ledger, rd, sc, due, faults>>

(* finish(): the reader's handler of the result.                           *)
(* Mutant: the count of completed books is not imported.                   *)
ImportedBook(r) == [r EXCEPT !.st.done = book[r.book].done]

Imported(r) ==
  [r EXCEPT !.st.done = book[r.book].done, !.gl.done = totals.done]

(* Mutant: the totals are not loaded again.                                *)
ReloadedBook(r) == [r EXCEPT !.st = book[r.book]]

Reloaded(r) == [r EXCEPT !.st = book[r.book], !.gl = totals]

Return ==
  /\ OnScreen /\ ~sc.changed /\ sc.from = "reader"
  /\ rd' = IF Format[rd.book] = "epub" THEN Imported(rd) ELSE Reloaded(rd)
  /\ sc' = Hidden
  /\ UNCHANGED <<book, totals, journal, ledger, op, due, over, faults>>

CloseHomeStats ==
  /\ OnScreen /\ ~sc.changed /\ sc.from = "home"
  /\ sc' = Hidden
  /\ UNCHANGED <<book, totals, journal, ledger, rd, op, due, over, faults>>

-----------------------------------------------------------------------------
(* The file browser marks a book, and counts any.                          *)
BrowserToggle(b) ==
  /\ AtHome
  /\ over' = over \cup Unequal(b, FALSE)
  /\ LET done == ~book[b].done IN \E n \in Counts(done, over') :
       op' = [Task(b) EXCEPT !.todo = <<"book", "totals", "done">>,
                !.st = [book[b] EXCEPT !.done = done],
                !.gl = Counted(totals, done), !.count = n]
  /\ UNCHANGED <<book, totals, journal, ledger, rd, sc, due, faults>>

(* The book of the page is loaded and merged again.                        *)
AfterCorrection ==
  IF op.book = sc.page
  THEN [sc EXCEPT !.local = op.st, !.done = Merged(sc.page, op.st.done),
                  !.foreign = sc.page \in PeersDated]
  ELSE sc

(* Mutant: the screen keeps the totals it had before the correction.       *)
CorrectedCard ==
  /\ sc' = AfterCorrection
  /\ due' = [due EXCEPT ![op.day][op.book] = @ + op.time]
  /\ UNCHANGED rd

(* The end of an operation.                                                *)
Corrected ==
  /\ sc' = [AfterCorrection EXCEPT !.gl = op.gl, !.seen = op.gl]
  /\ due' = [due EXCEPT ![op.day][op.book] = @ + op.time]
  /\ UNCHANGED rd

Finish ==
  /\ ~Free /\ op.todo = <<>> /\ op' = Idle
  /\ \/ op.kind = "correct" /\ Corrected
     \/ op.next = "close" /\ rd' = Closed /\ sc' = Hidden /\ UNCHANGED due
     \/ op.next = "show" /\ sc' = Shown(rd.book, "after", rd.gl, 0) /\ UNCHANGED <<rd, due>>
     \/ op.kind # "correct" /\ op.next = "stay" /\ UNCHANGED <<rd, sc, due>>
  /\ UNCHANGED <<book, totals, journal, ledger, over, faults>>

Next ==
  \/ Write \/ WriteFails \/ JournalUnreadable \/ PowerLoss \/ Finish
  \/ FirstPageDrawn \/ Read \/ ToggleCompleted \/ ToggleIgnored \/ SaveBook
  \/ Leave \/ ShowAfterReading
  \/ OpenStats \/ EditCompletion \/ EditDate \/ SaveStats
  \/ Return \/ CloseHomeStats
  \/ \E b \in Book :
       \/ Open(b) \/ OpenHomeStats(b) \/ OpenOther(b) \/ BrowserToggle(b)
       \/ \E d \in Day : Correct(d, b)

Spec == Init /\ [][Next]_vars

-----------------------------------------------------------------------------
TypeOK ==
  /\ book \in [Book -> Stats] /\ totals \in Totals
  /\ journal \in [secs : [Day -> Nat], done : Nat]
  /\ ledger \in [Day -> [Book -> Int]] /\ due \in [Day -> [Book -> Int]]
  /\ rd \in Reader \cup {Closed} /\ sc \in Screen \cup {Hidden}
  /\ op \in Operation \cup {Idle}
  /\ over \subseteq {"unloaded", "asleep", "epub", "lost", "merged", "ignored"}
  /\ faults \in 0..MaxFaults

Calmly == Free /\ faults = 0

Unsaved(d, b) ==
  IF rd # Closed /\ d = Today /\ b = rd.book /\ NeedsCommit(rd) THEN rd.ses ELSE 0

(* Every unit of time read is in the ledger once it has been committed,    *)
(* and once only, however a reader is left; a correction is there exactly  *)
(* when it was made.  (commitReadingStats, saveDayCorrection)              *)
LedgerKept ==
  Calmly => \A d \in Day, b \in Book : ledger[d][b] + Unsaved(d, b) = due[d][b]

NoPeers(d) == \A b \in Book : Peers[d][b] = 0

(* The journal agrees with the ledger on every day on which no other       *)
(* reader has read.  The totals and the files of the books agree with it   *)
(* unless they were written from copies known to be old: those of a reader *)
(* that has not loaded them yet, that is put to sleep under the statistics *)
(* screen, or that only imports completions from it.                       *)
MinutesKept ==
  Calmly =>
    /\ \A d \in Day : NoPeers(d) => JournalAgrees(d)
    /\ over \subseteq {"lost", "merged", "ignored"} => TimesAgree

(* The totals without exceptions: they "can neither lose nor double-count  *)
(* a minute".                                                              *)
HistoryKept == Calmly => totals.secs = SumOfAll(ledger)

(* Completed books, those left out of the statistics aside, are counted    *)
(* alike in the books' files, the totals and the journal, whichever screen *)
(* completed them, also after an EPUB reader has overwritten corrected     *)
(* time.  Excused is what the code counts unequally: an edit of a date     *)
(* while a completion is merged from another reader's statistics           *)
(* ("merged") and a book left out of the statistics whose completion is    *)
(* edited in the file browser or the statistics screen ("ignored").        *)
(* (setBookCompleted, applyBookStatsEditsFromDisk, applyCompletedState,    *)
(* toggleBookCompleted)                                                    *)
CompletionsKept ==
  Calmly /\ over \subseteq {"epub", "lost"} /\ (sc # Hidden => ~sc.changed) =>
    CompletionsAgree

(* Back from the statistics screen, a reader knows every completion saved  *)
(* there, and an XTC reader every correction.  (handleBookStatsReturn,     *)
(* openReadingStats)                                                       *)
ReaderSeesEdits ==
  Reading /\ faults = 0 /\ rd.loaded =>
    /\ rd.st.done = book[rd.book].done /\ rd.gl.done = totals.done
    /\ Format[rd.book] = "xtc" => rd.st = book[rd.book] /\ rd.gl = totals

(* The time that the correction adds; taking it back goes the other way.   *)
Added == IF op.kind = "undo" THEN -op.time ELSE op.time

(* The journal had the time that the correction takes away.                *)
Fits == op.was.time + Added >= 0

(* A correction during which one call fails is made everywhere or taken    *)
(* back everywhere; the ledger's record of a failed append may stay.       *)
CorrectionAtomic ==
  ~Free /\ op.kind # "save" /\ op.todo = <<>>
  /\ op.failed <= 1 /\ over \subseteq {"merged", "ignored"} /\ Fits =>
    IF op.kind = "undo"
    THEN /\ book[op.book] = op.was.st /\ totals = op.was.gl
         /\ journal.secs[op.day] = op.was.time
    ELSE /\ book[op.book].secs = op.was.st.secs + op.time
         /\ totals.secs = op.was.gl.secs + op.time
         /\ journal.secs[op.day] = op.was.time + op.time

(* No correction takes away more than the ledgers have for the book on     *)
(* that day, the shown time of a session that is not committed included.   *)
NotOverdrawn ==
  faults = 0 => \A d \in Day, b \in Book : ledger[d][b] + Peers[d][b] >= 0
=============================================================================
